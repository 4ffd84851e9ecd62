------------------------------ MODULE MsReader ------------------------------
(***************************************************************************)
(* tools/ms_reader/monitor_status_reader.cc, the program that shows the    *)
(* counters of a monitor status file while servers count in it, with the   *)
(* readers (GetAllCounters ...) of common/monitor/monitor_status_impl.cc   *)
(* and the updaters of monitor_status_impl.h.                              *)
(*                                                                         *)
(* The maps are functions of the kind of counter: C (counter), T (timer)   *)
(* and B (binary).  What is printed is kept as ghost state: the sums of    *)
(* the differences, and the values of the last table.  Layout, timestamps  *)
(* and -a, which nothing reads, are left out.                              *)
(***************************************************************************)
EXTENDS Naturals, Sequences, FiniteSets

CONSTANTS
  CounterNames, OldNames,   \* names of each kind; those with an entry at first
  Searched,                 \* the names that the -s of the runs matches
  CountMod,                 \* 2^32: the width of the printed counts
  TimeSlice, TimeSlot,      \* kTimerMonitorStatusTimeSlice, ...TimeSlot
  Thresholds,               \* kTimerMonitorStatus5ms ... 1000ms
  UpdateTimes,              \* the times that are reported
  Updaters,                 \* threads of servers
  Options,                  \* [usable, interval, type, search, slices]: usable
                            \* without -h and with a regular file, the interval
                            \* of -i (0: none), -v, -s and -t
  MaxUpdates, MaxSamples    \* bounds

ASSUME ReaderAssumption ==
  /\ OldNames \subseteq CounterNames
  /\ CountMod \in Nat \ {0} /\ TimeSlice \in Nat \ {0} /\ TimeSlot \in Nat \ {0}
  /\ Thresholds \in Seq(Nat) /\ UpdateTimes \subseteq Nat
  /\ IsFiniteSet(Updaters)

VARIABLES
  entries,      \* the file: kind -> name -> value
  updater,      \* thread -> the update it is in
  impl,         \* counter_map_, timer_counter_map_, binary_counter_map_
  options,      \* what Init took from the command line
  all, filtered, old,       \* the maps of main
  readerPc,
  msShown,      \* the first sample and the sums of the differences printed
  msBase,       \* the file at the last table
  msUsed        \* [updates, samples]

readerVars == <<entries, updater, impl, options, all, filtered, old, readerPc,
                msShown, msBase, msUsed>>

CounterKinds == {"C", "T", "B"}
Empty == [kind \in CounterKinds |-> <<>>]
Slots == 1..(TimeSlot + Len(Thresholds))
Zero == [C |-> 0, T |-> [count |-> 0, time |-> 0, slices |-> [i \in Slots |-> 0]],
         B |-> [flag |-> 0, false |-> 0, true |-> 0]]
NoUpdate == [pc |-> "idle", name |-> "none", arg |-> 0]

ReaderInit ==
  /\ entries = [kind \in CounterKinds |-> [n \in OldNames |-> Zero[kind]]]
  /\ updater = [u \in Updaters |-> NoUpdate]
  /\ impl = Empty /\ all = Empty /\ filtered = Empty /\ old = Empty
  /\ options \in Options
  /\ readerPc = <<"main">>
  /\ msShown = Empty /\ msBase = entries
  /\ msUsed = [updates |-> 0, samples |-> 0]

-----------------------------------------------------------------------------
(* The servers.                                                             *)

UpdaterOnly == UNCHANGED <<impl, options, all, filtered, old, readerPc, msShown, msBase>>

\* AddEntry of MonitorStatus, under its semaphore.
AddEntry(kind, name) ==
  /\ name \notin DOMAIN entries[kind] /\ msUsed.updates < MaxUpdates
  /\ entries' = [entries EXCEPT ![kind] =
       [n \in DOMAIN @ \cup {name} |-> IF n = name THEN Zero[kind] ELSE @[n]]]
  /\ msUsed' = [msUsed EXCEPT !.updates = @ + 1]
  /\ UpdaterOnly /\ UNCHANGED updater

Begin(u, kind, name, then) ==
  /\ updater[u] = NoUpdate /\ name \in DOMAIN entries[kind] /\ msUsed.updates < MaxUpdates
  /\ updater' = [updater EXCEPT ![u] = then]
  /\ msUsed' = [msUsed EXCEPT !.updates = @ + 1]
  /\ UpdaterOnly

Continue(u, pc) ==
  /\ updater' = [updater EXCEPT ![u] = IF pc = "idle" THEN NoUpdate ELSE [@ EXCEPT !.pc = pc]]
  /\ UpdaterOnly /\ UNCHANGED msUsed

\* MONITOR_STATUS_COUNTER_BY.
CounterBy(u, name) ==
  /\ Begin(u, "C", name, NoUpdate)
  /\ entries' = [entries EXCEPT !.C[name] = @ + 1]

SlotOf(time) == IF time \div TimeSlice >= TimeSlot THEN TimeSlot - 1 ELSE time \div TimeSlice

\* TimerCounterUpdater: total_count, total_time, the slice, the threshold.
TimerBy(u, name, time) ==
  /\ Begin(u, "T", name, [pc |-> "time", name |-> name, arg |-> time])
  /\ entries' = [entries EXCEPT !.T[name].count = @ + 1]

TimerTime(u) ==
  /\ updater[u].pc = "time" /\ Continue(u, "slice")
  /\ entries' = [entries EXCEPT !.T[updater[u].name].time = @ + updater[u].arg]

TimerSlice(u) ==
  LET slot == SlotOf(updater[u].arg)
  IN  /\ updater[u].pc = "slice"
      /\ Continue(u, IF slot = TimeSlot - 1 THEN "threshold" ELSE "idle")
      /\ entries' = [entries EXCEPT !.T[updater[u].name].slices[slot + 1] = @ + 1]

\* The highest threshold that the time is over.
TimerThreshold(u) ==
  LET over == {i \in DOMAIN Thresholds : updater[u].arg > Thresholds[i]}
  IN  /\ updater[u].pc = "threshold" /\ Continue(u, "idle")
      /\ entries' = IF over = {} THEN entries
                    ELSE [entries EXCEPT !.T[updater[u].name].slices[TimeSlot + Cardinality(over)] = @ + 1]

\* BinaryCounterUpdater: the flag is stored, then the count is added.
BinaryBy(u, name, flag) ==
  /\ Begin(u, "B", name, [pc |-> "count", name |-> name, arg |-> flag])
  /\ entries' = [entries EXCEPT !.B[name].flag = flag]

BinaryCount(u) ==
  LET flag == updater[u].arg
  IN  /\ updater[u].pc = "count" /\ Continue(u, "idle")
      /\ entries' = [entries EXCEPT !.B[updater[u].name] =
           IF flag = 0 THEN [@ EXCEPT !.false = @ + 1] ELSE [@ EXCEPT !.true = @ + 1]]

-----------------------------------------------------------------------------
(* The reader.                                                              *)

ReaderOnly == UNCHANGED <<entries, updater, options>>

\* Init: the usage, or the first sample; with an output type there is none.
Main ==
  /\ readerPc = <<"main">>
  /\ readerPc' = IF ~options.usable THEN <<"usage">>
                 ELSE <<IF options.type = "" THEN "first" ELSE "get", "C">>
  /\ ReaderOnly /\ UNCHANGED <<impl, all, filtered, old, msShown, msBase, msUsed>>

Counters == entries.C

\* ParseCounters: two of the three maps are cleared, and insert keeps the
\* value that a map has.
ParseCounters ==
  [C |-> Counters, T |-> entries.T,
   B |-> [n \in DOMAIN entries.B |-> IF n \in DOMAIN impl.B THEN impl.B[n] ELSE entries.B[n]]]

After == [C |-> "T", T |-> "B"]

\* GetAllCounters, GetAllTimerCounters, GetAllBinaryCounters: parse, and
\* swap the map of the caller with the one of the kind.
First(kind) ==
  /\ readerPc = <<"first", kind>>
  /\ old' = [old EXCEPT ![kind] = ParseCounters[kind]]
  /\ impl' = [ParseCounters EXCEPT ![kind] = old[kind]]
  /\ readerPc' = IF kind = "B" THEN <<"get", "C">> ELSE <<"first", After[kind]>>
  /\ msShown' = [msShown EXCEPT ![kind] =
       IF kind = "C" THEN [n \in DOMAIN old'.C |-> old'.C[n] % CountMod] ELSE old'[kind]]
  /\ ReaderOnly /\ UNCHANGED <<all, filtered, msBase, msUsed>>

GetAll(kind) ==
  /\ readerPc = <<"get", kind>> /\ msUsed.samples < MaxSamples
  /\ all' = [all EXCEPT ![kind] = ParseCounters[kind]]
  /\ impl' = [ParseCounters EXCEPT ![kind] = all[kind]]
  /\ readerPc' = IF kind = "B" THEN <<"filter">> ELSE <<"get", After[kind]>>
  /\ ReaderOnly /\ UNCHANGED <<filtered, old, msShown, msBase, msUsed>>

\* CounterFilter of the three maps.
CounterFilter ==
  /\ readerPc = <<"filter">>
  /\ filtered' = [kind \in CounterKinds |->
       [n \in DOMAIN filtered[kind] \cup {m \in DOMAIN all[kind] : options.search => m \in Searched} |->
          IF options.search => n \in Searched THEN all[kind][n] ELSE filtered[kind][n]]]
  /\ readerPc' = <<IF options.type \in {"json", "text"} THEN options.type ELSE "print">>
  /\ ReaderOnly /\ UNCHANGED <<impl, all, old, msShown, msBase, msUsed>>

\* PrintJsonMap and PrintTextMap: once; the text has no binary counters.
PrintOnce ==
  /\ readerPc \in {<<"json">>, <<"text">>}
  /\ readerPc' = <<"end">>
  /\ ReaderOnly /\ UNCHANGED <<impl, all, filtered, old, msShown, msBase, msUsed>>

OldOf(kind, n) == IF n \in DOMAIN old[kind] THEN old[kind][n] ELSE Zero[kind]
ShownOf(kind, n) == IF n \in DOMAIN msShown[kind] THEN msShown[kind][n] ELSE Zero[kind]

\* PrintCounterMap: the counts are cut to 32 bits.
PrintCounterMap ==
  [n \in DOMAIN filtered.C |->
     (ShownOf("C", n) + (filtered.C[n] % CountMod) + CountMod - (OldOf("C", n) % CountMod)) % CountMod]

\* ShowTimeSlice.
ShowTimeSlice ==
  [n \in DOMAIN filtered.T |->
     [ShownOf("T", n) EXCEPT !.slices =
        [i \in Slots |-> @[i] + filtered.T[n].slices[i] - OldOf("T", n).slices[i]]]]

\* PrintTimerMap without -t: total_count and total_time.
PrintTimes ==
  [n \in DOMAIN filtered.T |->
     [ShownOf("T", n) EXCEPT !.count = @ + filtered.T[n].count - OldOf("T", n).count,
                             !.time = @ + filtered.T[n].time - OldOf("T", n).time]]

PrintTimerMap == IF options.slices THEN ShowTimeSlice ELSE PrintTimes

\* PrintBinaryMap: a name that the old map lacks is left out.  (Its
\* differences may wrap round, and are not kept.)
PrintBinaryMap == [n \in DOMAIN filtered.B \cap DOMAIN old.B |-> filtered.B[n]]

\* Slip: the sample is kept for the next table only when it was filtered.
OldMapsStale == [filtered EXCEPT !.C = old.C]

OldMaps == filtered

\* The rest of the loop; the loop ends without an interval.
PrintTables ==
  /\ readerPc = <<"print">>
  /\ msShown' = [C |-> PrintCounterMap, T |-> PrintTimerMap, B |-> PrintBinaryMap]
  /\ old' = OldMaps
  /\ readerPc' = <<"printed">>
  /\ ReaderOnly /\ UNCHANGED <<impl, all, filtered, msBase, msUsed>>

Again ==
  /\ readerPc = <<"printed">>
  /\ readerPc' = IF options.interval = 0 THEN <<"end">> ELSE <<"get", "C">>
  /\ msBase' = entries
  /\ msUsed' = [msUsed EXCEPT !.samples = @ + 1]
  /\ ReaderOnly /\ UNCHANGED <<impl, all, filtered, old, msShown>>

ReaderNext ==
  \/ \E u \in Updaters :
       \/ \E name \in CounterNames :
            \/ CounterBy(u, name)
            \/ \E time \in UpdateTimes : TimerBy(u, name, time)
            \/ \E flag \in {0, 1} : BinaryBy(u, name, flag)
       \/ TimerTime(u) \/ TimerSlice(u) \/ TimerThreshold(u) \/ BinaryCount(u)
  \/ \E kind \in CounterKinds, name \in CounterNames : AddEntry(kind, name)
  \/ \E kind \in CounterKinds : First(kind) \/ GetAll(kind)
  \/ Main \/ CounterFilter \/ PrintOnce \/ PrintTables \/ Again

ReaderSpec == ReaderInit /\ [][ReaderNext]_readerVars

-----------------------------------------------------------------------------
Printed == readerPc = <<"printed">>
Matched == {n \in CounterNames : options.search => n \in Searched}

\* What slices a to b have counted, one element each.
Marks(s, a, b) == UNION {{i} \X (1..s[i]) : i \in a..b}

InFlight(name, pcs) == Cardinality({u \in Updaters : updater[u].name = name /\ updater[u].pc \in pcs})

\* TimerCounterUpdater: at every moment the slices of a timer add up to its
\* count but for the updates on their way, and the thresholds never count
\* more than the last slice.
SlicesAddUp ==
  \A n \in DOMAIN entries.T :
    LET t == entries.T[n]
    IN  /\ Cardinality(Marks(t.slices, 1, TimeSlot)) + InFlight(n, {"time", "slice"}) = t.count
        /\ Cardinality(Marks(t.slices, TimeSlot + 1, TimeSlot + Len(Thresholds)))
             <= t.slices[TimeSlot]

\* main: what the tables print adds up: the first sample and the differences
\* since make the value of the last table (modulo the width for counters),
\* whatever appeared in the file in between.
DiffsExact ==
  Printed =>
    /\ \A n \in DOMAIN filtered.C : msShown.C[n] = filtered.C[n] % CountMod
    /\ \A n \in DOMAIN filtered.T :
         IF options.slices THEN msShown.T[n].slices = filtered.T[n].slices
         ELSE msShown.T[n].count = filtered.T[n].count /\ msShown.T[n].time = filtered.T[n].time

\* GetAllCounters and GetAllTimerCounters: a table shows values that the
\* file held after the table before, for every name that had an entry then
\* and matches.
TablesCurrent ==
  Printed => \A n \in Matched :
    /\ n \in DOMAIN msBase.C => filtered.C[n] \in msBase.C[n]..entries.C[n]
    /\ n \in DOMAIN msBase.T => filtered.T[n].count \in msBase.T[n].count..entries.T[n].count

\* main of ms_reader and the updaters: what is printed is what was counted.
ReaderOK == SlicesAddUp /\ DiffsExact /\ TablesCurrent
=============================================================================
