---------------------------- MODULE BoundedFifo -----------------------------
(***************************************************************************)
(* What ThreadPool::TaskQueue promises its callers: a first-in first-out   *)
(* queue of at most Capacity tasks.  A task is in the queue or in the      *)
(* hands of a thread, and moves between the two as a whole.                *)
(***************************************************************************)
EXTENDS Naturals, Sequences

CONSTANTS Tasks, Threads, Empty, Capacity

VARIABLES
  items,  \* the queued tasks, the oldest first
  hand    \* thread -> the task it wants to queue or has taken, or Empty

vars == <<items, hand>>

Init ==
  /\ items = <<>>
  /\ hand = [t \in Threads |-> Empty]

\* A thread comes by a task, or is done with the one it has.
Obtain(t, task) ==
  /\ hand[t] = Empty
  /\ hand' = [hand EXCEPT ![t] = task]
  /\ UNCHANGED items

Finish(t) ==
  /\ hand[t] # Empty
  /\ hand' = [hand EXCEPT ![t] = Empty]
  /\ UNCHANGED items

Put(t) ==
  /\ hand[t] # Empty
  /\ Len(items) < Capacity
  /\ items' = Append(items, hand[t])
  /\ hand' = [hand EXCEPT ![t] = Empty]

Take(t) ==
  /\ hand[t] = Empty
  /\ items # <<>>
  /\ hand' = [hand EXCEPT ![t] = Head(items)]
  /\ items' = Tail(items)

Next ==
  \E t \in Threads :
    \/ \E task \in Tasks : Obtain(t, task)
    \/ Finish(t) \/ Put(t) \/ Take(t)

Spec == Init /\ [][Next]_vars
=============================================================================
