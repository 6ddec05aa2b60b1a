----------------------------- MODULE RecordFifo -----------------------------
(***************************************************************************)
(* What record storage promises of the records of a cell: the host gets    *)
(* them in the order in which they were taken into store, each at most     *)
(* once, and one that was taken in is lost only while the host does not    *)
(* take any.  Nothing is promised of a record that is refused at the       *)
(* entrance.  RecordStore implements this.                                 *)
(***************************************************************************)
EXTENDS Sequences

CONSTANTS Cells, Records

VARIABLES
  queue,     \* a cell's records that are on the way
  host,      \* a cell's records that the host has got
  host_up    \* does the host take records

vars == <<queue, host, host_up>>

Init ==
  /\ queue = [c \in Cells |-> <<>>] /\ host = [c \in Cells |-> <<>>]
  /\ host_up \in BOOLEAN

Accept(c, r) ==
  /\ queue' = [queue EXCEPT ![c] = Append(@, r)]
  /\ UNCHANGED <<host, host_up>>

Deliver(c) ==
  /\ host_up /\ queue[c] # <<>>
  /\ host' = [host EXCEPT ![c] = Append(@, Head(queue[c]))]
  /\ queue' = [queue EXCEPT ![c] = Tail(@)]
  /\ UNCHANGED host_up

Lose(c) ==
  /\ ~host_up /\ queue[c] # <<>>
  /\ queue' = [queue EXCEPT ![c] = Tail(@)]
  /\ UNCHANGED <<host, host_up>>

HostChange == host_up' = ~host_up /\ UNCHANGED <<queue, host>>

Leave(c) == Deliver(c) \/ Lose(c)
Next == HostChange \/ \E c \in Cells : Leave(c) \/ \E r \in Records : Accept(c, r)

SafeSpec == Init /\ [][Next]_vars

\* What is in store leaves it.
Spec == SafeSpec /\ \A c \in Cells : WF_vars(Leave(c))
=============================================================================
