----------------------------- MODULE RoundRobin -----------------------------
(***************************************************************************)
(* NodeCollection with a history of the picks of each path: how many picks *)
(* each node is ahead of the least picked node of the path's list, counted *)
(* from the moment the list was written.                                   *)
(***************************************************************************)
EXTENDS NodeCollection

VARIABLE ahead  \* path -> node -> picks ahead of the least picked node

NoPicks == [n \in Nodes |-> 0]

\* One more pick of node; when that was the last of the least picked nodes,
\* every node of the list is one less ahead.
Count(counts, list, node) ==
  LET picks == [counts EXCEPT ![node] = @ + 1]
  IN  IF \E n \in Range(list) : picks[n] = 0
        THEN picks
        ELSE [n \in Nodes |-> IF n \in Range(list) THEN picks[n] - 1 ELSE 0]

\* An update starts the count of every path whose list it writes afresh.
RRUpdate ==
  /\ Update
  /\ ahead' = [p \in Paths |->
                 IF /\ p \in DOMAIN valid_nodes_ \cap DOMAIN valid_nodes_'
                    /\ valid_nodes_'[p] = valid_nodes_[p]
                   THEN ahead[p] ELSE NoPicks]

RRPickOneNode ==
  /\ \E t \in Pickers, path \in Paths : PickOneNode(t, path)
  /\ UNCHANGED ahead

RRPickFails ==
  /\ \E t \in Pickers : PickFails(t)
  /\ UNCHANGED ahead

RRPickSucceeds ==
  \E t \in Pickers, node \in Nodes :
    /\ PickSucceeds(t, node)
    /\ ahead' = [ahead EXCEPT ![picker[t]] = Count(@, valid_nodes_[picker[t]], node)]

RRInit == Init /\ ahead = [p \in Paths |-> NoPicks]

RRNext == RRUpdate \/ RRPickOneNode \/ RRPickFails \/ RRPickSucceeds

RRSpec == RRInit /\ [][RRNext]_<<vars, ahead>>

-----------------------------------------------------------------------------
\* PickOneNode spreads the picks evenly: however many threads pick, and
\* wherever the index stood when the list was written (possibly past the end
\* of a shorter list), no node of an unchanged list is ever picked twice more
\* than another.
EvenlyServed == \A p \in Paths, n \in Nodes : ahead[p][n] <= 1
=============================================================================
