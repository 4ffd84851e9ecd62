---------------------------- MODULE MCSupervisor ----------------------------
(***************************************************************************)
(* The supervisor (two servers that crash up to four times each, with two  *)
(* restarts allowed in two instants, while the application may be told to  *)
(* stop) and, beside it, the table that the processes of an application    *)
(* share: two buckets with a chain, keys with equal high bits in both, and *)
(* high bits 0.  "table_part" says whose behaviour this is, the other one  *)
(* rests in its initial state.                                             *)
(***************************************************************************)
EXTENDS Supervisor, QedTable

VARIABLE table_part

MCKeys == {<<1, 0>>, <<2, 0>>, <<0, 0>>, <<2, 1>>}

\* The supervisor's behaviours have one table, not one for every count in Taken.
BothInit ==
  /\ Init /\ TableInit
  /\ table_part \in {"supervisor", "table"}
  /\ table_part = "supervisor" => \A t \in Taken : free_id_count <= t

BothNext ==
  /\ UNCHANGED table_part
  /\ \/ table_part = "supervisor" /\ Next /\ UNCHANGED tableVars
     \/ table_part = "table" /\ TableNext /\ UNCHANGED vars

\* The fairness of both modules, each for its own part.
BothFairness ==
  /\ WF_vars(table_part = "supervisor" /\ Supervise)
  /\ \A s \in Servers : WF_vars(table_part = "supervisor" /\ Stops(s))
  /\ WF_tableVars(table_part = "table" /\ WriterStep)
  /\ WF_tableVars(table_part = "table" /\ ReaderStep)

BothSpec == BothInit /\ [][BothNext]_<<vars, tableVars, table_part>> /\ BothFairness
=============================================================================
