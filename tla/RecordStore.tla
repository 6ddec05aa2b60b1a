---------------------------- MODULE RecordStore ----------------------------
(***************************************************************************)
(* The records on their way from the channels to the host's data base: a   *)
(* deque and a mutex for every cell (CabinetDateBase).  The thread of a    *)
(* cell puts its channels' records in (ChannelState), the one data base    *)
(* thread (CabinetDateBase::work) takes those of all cells out and sends   *)
(* them.                                                                   *)
(*                                                                         *)
(* Both threads read the size of a deque without its mutex.  When the      *)
(* other one is inside its locked region that is a data race on the        *)
(* pointers of a std::deque, and the size that is read may be anything.    *)
(* The steps of a thread are its unlocked reads and its locked regions.    *)
(*                                                                         *)
(* External: the socket to the host, which takes a message or, full,       *)
(* refuses it at once (ZMQ_SNDTIMEO is 0; nobody looks at the result).     *)
(***************************************************************************)
EXTENDS Integers, Sequences

CONSTANTS
  N,            \* cells (MAX_CELLS_NBR, 8 in the code)
  Process,      \* records that are refused when the deque is full
  Cached,       \* records of a channel's cache, pushed in any case
  Cap,          \* size at which records are refused (32 in the code)
  MaxRecords    \* bound: records each cell offers

Cells == 1 .. N
Records == Process \cup Cached
ASSUME StoreAssumption == N \in Nat \ {0} /\ Cap \in Nat /\ MaxRecords \in [Cells -> Nat]

VARIABLES
  deque,              \* m_data_deque
  mutex,              \* "free", or who is inside: "cell" or "db"
  cell_pc, record,    \* where a cell's thread is, with which record
  db_pc, cell, data,  \* where the data base thread is, with which cell and record
  host, host_up,      \* what the host has got of a cell; does its socket take messages
  offered, cached     \* a cell's offers so far; those of them that came from the cache

vars == <<deque, mutex, cell_pc, record, db_pc, cell, data, host, host_up, offered, cached>>

TypeOK ==
  /\ deque \in [Cells -> Seq(Records)] /\ mutex \in [Cells -> {"free", "cell", "db"}]
  /\ cell_pc \in [Cells -> {"work", "size", "lock", "push"}] /\ record \in [Cells -> Seq(Records)]
  /\ db_pc \in {"sleep", "size", "again", "lock", "pop", "send"} /\ cell \in 1 .. N + 1
  /\ data \in Seq(Records) /\ host \in [Cells -> Seq(Records)] /\ host_up \in BOOLEAN
  /\ offered \in [Cells -> Nat] /\ cached \in [Cells -> Nat]

\* record and data are sequences of one record, or empty when there is none.
Init ==
  /\ deque = [c \in Cells |-> <<>>] /\ mutex = [c \in Cells |-> "free"]
  /\ cell_pc = [c \in Cells |-> "work"] /\ record = [c \in Cells |-> <<>>]
  /\ db_pc = "sleep" /\ cell = 1 /\ data = <<>>
  /\ host = [c \in Cells |-> <<>>] /\ host_up \in BOOLEAN
  /\ offered = [c \in Cells |-> 0] /\ cached = [c \in Cells |-> 0]

-----------------------------------------------------------------------------
(* The thread of a cell.                                                   *)

Go(c, from, to) == cell_pc[c] = from /\ cell_pc' = [cell_pc EXCEPT ![c] = to]

\* push_data_to_CabDBServer; report_processRecord_cache has no test of the size.
Offer(c) ==
  /\ offered[c] < MaxRecords[c] /\ offered' = [offered EXCEPT ![c] = @ + 1]
  /\ \E r \in Records :
       /\ record' = [record EXCEPT ![c] = <<r>>]
       /\ \/ r \in Process /\ Go(c, "work", "size") /\ UNCHANGED cached
          \/ r \in Cached /\ Go(c, "work", "lock") /\ cached' = [cached EXCEPT ![c] = @ + 1]
  /\ UNCHANGED <<deque, mutex, db_pc, cell, data, host, host_up>>

\* get_data_deque_size
SizeReads(c, other, answer) == IF mutex[c] = other THEN BOOLEAN ELSE {answer}
UpToCap(n) == n <= Cap       \* mutant
BelowCap(n) == n < Cap
CheckSize(c) ==
  /\ \E room \in SizeReads(c, "db", BelowCap(Len(deque[c]))) :
       /\ Go(c, "size", IF room THEN "lock" ELSE "work")
       /\ record' = IF room THEN record ELSE [record EXCEPT ![c] = <<>>]
  /\ UNCHANGED <<deque, mutex, db_pc, cell, data, host, host_up, offered, cached>>

\* pushbackRecord
CellLock(c) ==
  /\ Go(c, "lock", "push") /\ mutex[c] = "free" /\ mutex' = [mutex EXCEPT ![c] = "cell"]
  /\ UNCHANGED <<deque, record, db_pc, cell, data, host, host_up, offered, cached>>
Pushed(d, r) == r \o d       \* mutant: push_front
PushedBack(d, r) == d \o r
PushBack(c) ==
  /\ Go(c, "push", "work")
  /\ deque' = [deque EXCEPT ![c] = PushedBack(@, record[c])] /\ record' = [record EXCEPT ![c] = <<>>]
  /\ mutex' = [mutex EXCEPT ![c] = "free"]
  /\ UNCHANGED <<db_pc, cell, data, host, host_up, offered, cached>>

CellStep(c) == CheckSize(c) \/ CellLock(c) \/ PushBack(c)

-----------------------------------------------------------------------------
(* CabinetDateBase::work                                                   *)

DbGo(from, to) == db_pc = from /\ db_pc' = to

ZeroBased == 0               \* mutant: the loop's index taken for the number
FirstCell == 1
Wake ==
  /\ DbGo("sleep", "size") /\ cell' = FirstCell
  /\ UNCHANGED <<deque, mutex, cell_pc, record, data, host, host_up, offered, cached>>

\* The loop over the cells and the while loop of one of them.
WhileSize ==
  /\ cell \in Cells
  /\ \E some \in SizeReads(cell, "cell", Len(deque[cell]) > 0) :
       /\ DbGo("size", IF some THEN "again" ELSE "size")
       /\ cell' = IF some THEN cell ELSE cell + 1
  /\ UNCHANGED <<deque, mutex, cell_pc, record, data, host, host_up, offered, cached>>
RoundEnds ==
  /\ DbGo("size", "sleep") /\ cell = N + 1
  /\ UNCHANGED <<deque, mutex, cell_pc, record, cell, data, host, host_up, offered, cached>>

\* popfrontRecord
AgainSize ==
  /\ db_pc = "again" /\ \E some \in SizeReads(cell, "cell", Len(deque[cell]) > 0) :
       db_pc' = (IF some THEN "lock" ELSE "size")
  /\ UNCHANGED <<deque, mutex, cell_pc, record, cell, data, host, host_up, offered, cached>>
Unlocked(c) == TRUE        \* mutant: no mutex in popfrontRecord
Free(c) == mutex[c] = "free"
DbLock ==
  /\ DbGo("lock", "pop") /\ Free(cell) /\ mutex' = [mutex EXCEPT ![cell] = "db"]
  /\ UNCHANGED <<deque, cell_pc, record, cell, data, host, host_up, offered, cached>>
\* front() of an empty deque is undefined: PopsSafe says that it does not happen.
PopFront ==
  /\ DbGo("pop", "send") /\ deque[cell] # <<>>
  /\ data' = <<Head(deque[cell])>> /\ deque' = [deque EXCEPT ![cell] = Tail(@)]
  /\ mutex' = [mutex EXCEPT ![cell] = "free"]
  /\ UNCHANGED <<cell_pc, record, cell, host, host_up, offered, cached>>

\* data_to_ext_store_pusher().send
Send ==
  /\ DbGo("send", "size") /\ data' = <<>>
  /\ host' = IF host_up THEN [host EXCEPT ![cell] = @ \o data] ELSE host
  /\ UNCHANGED <<deque, mutex, cell_pc, record, cell, host_up, offered, cached>>

Db == Wake \/ WhileSize \/ RoundEnds \/ AgainSize \/ DbLock \/ PopFront \/ Send

\* External: the socket to the host fills up and drains.
HostChange ==
  /\ host_up' = ~host_up
  /\ UNCHANGED <<deque, mutex, cell_pc, record, db_pc, cell, data, host, offered, cached>>

Next == Db \/ HostChange \/ \E c \in Cells : Offer(c) \/ CellStep(c)

Spec == Init /\ [][Next]_vars

\* Both kinds of threads go on; a mutex that is free again and again is got.
FairSpec ==
  /\ Spec /\ WF_vars(Db) /\ SF_vars(DbLock)
  /\ \A c \in Cells : WF_vars(CellStep(c)) /\ SF_vars(CellLock(c))

-----------------------------------------------------------------------------
(* Properties                                                              *)

\* The data base thread never takes the front of an empty deque, although it reads
\* the size without the mutex: popfrontRecord asks again, a size that is read while
\* the cell's thread is inside belongs to a deque that is about to get a record, and
\* nobody else takes one out.
PopsSafe == db_pc = "pop" => deque[cell] # <<>>

\* The size check of push_data_to_CabDBServer, unlocked and apart from the push,
\* keeps a deque within Cap and the records that came from a cache.
Bounded == \A c \in Cells : Len(deque[c]) <= Cap + cached[c]

\* The store implements the lossy queue: what is in the deque, and before it the
\* record the data base thread has in hand for that cell, is on the way.
InHand(c) == IF cell = c THEN data ELSE <<>>
OnTheWay == [c \in Cells |-> InHand(c) \o deque[c]]
Fifo == INSTANCE RecordFifo WITH queue <- OnTheWay
FifoSpec == Fifo!Spec

\* The safety part of it.
FifoSafe == Fifo!SafeSpec
=============================================================================
