---------------------------- MODULE RecordProofs ----------------------------
(***************************************************************************)
(* Theorems about RecordStore: its types, that the unlocked reads of a     *)
(* deque's size do no harm, and that it implements the safety part of      *)
(* RecordFifo.                                                             *)
(***************************************************************************)
EXTENDS RecordStore, SequenceTheorems, TLAPS

-----------------------------------------------------------------------------
(* Sequences.                                                              *)

\* A record taken from the head of a deque and held before the rest of it.
LEMMA HeadThenTail ==
  ASSUME NEW S, NEW s \in Seq(S), s # <<>>
  PROVE  <<Head(s)>> \in Seq(S) /\ Tail(s) \in Seq(S) /\ <<Head(s)>> \o Tail(s) = s
<1>1. Head(s) \in S /\ Tail(s) \in Seq(S) /\ Len(Tail(s)) = Len(s) - 1
      /\ \A i \in 1 .. Len(Tail(s)) : Tail(s)[i] = s[i + 1]
  BY HeadTailProperties
<1>2. <<Head(s)>> \in Seq(S) /\ Len(<<Head(s)>>) = 1 /\ <<Head(s)>>[1] = Head(s)
  BY <1>1
<1>3. Len(s) \in Nat \ {0} /\ Head(s) = s[1]
  BY EmptySeq
<1>4. /\ <<Head(s)>> \o Tail(s) \in Seq(S) /\ Len(<<Head(s)>> \o Tail(s)) = Len(s)
      /\ \A i \in 1 .. Len(s) : (<<Head(s)>> \o Tail(s))[i] = IF i <= 1 THEN s[1] ELSE Tail(s)[i - 1]
  BY <1>1, <1>2, <1>3, ConcatProperties
<1>5. \A i \in 1 .. Len(s) : (<<Head(s)>> \o Tail(s))[i] = s[i]
  BY <1>1, <1>3, <1>4
<1> QED  BY <1>1, <1>2, <1>4, <1>5, SeqEqual

\* What is behind a record that is held.
LEMMA HeadOfHeld ==
  ASSUME NEW S, NEW d \in S, NEW s \in Seq(S)
  PROVE  <<d>> \o s # <<>> /\ Head(<<d>> \o s) = d /\ Tail(<<d>> \o s) = s
<1> DEFINE w == <<d>> \o s
<1>1. <<d>> \in Seq(S) /\ Len(<<d>>) = 1 /\ <<d>>[1] = d
  OBVIOUS
<1>2. /\ w \in Seq(S) /\ Len(w) = 1 + Len(s)
      /\ \A i \in 1 .. 1 + Len(s) : w[i] = IF i <= 1 THEN d ELSE s[i - 1]
  BY <1>1, ConcatProperties
<1>3. Len(s) \in Nat /\ w # <<>>
  BY <1>2, LenProperties, EmptySeq
<1>4. Head(w) = d
  BY <1>2, <1>3
<1>5. /\ Tail(w) \in Seq(S) /\ Len(Tail(w)) = Len(s)
      /\ \A i \in 1 .. Len(Tail(w)) : Tail(w)[i] = w[i + 1]
  BY <1>2, <1>3, HeadTailProperties
<1>6. \A i \in 1 .. Len(Tail(w)) : Tail(w)[i] = s[i]
  BY <1>2, <1>3, <1>5
<1> QED  BY <1>3, <1>4, <1>5, <1>6, SeqEqual

\* A record that is pushed behind a held one and the deque.
LEMMA AppendBehind ==
  \A S : \A h, d \in Seq(S) : \A r \in S : h \o (d \o <<r>>) = Append(h \o d, r)
<1> TAKE S
<1> TAKE h, d \in Seq(S)
<1> TAKE r \in S
<1>1. <<r>> \in Seq(S)
  OBVIOUS
<1>2. h \o d \in Seq(S)
  BY ConcatProperties
<1>3. Append(h \o d, r) = (h \o d) \o <<r>>
  BY <1>2, AppendIsConcat
<1>4. (h \o d) \o <<r>> = h \o (d \o <<r>>)
  BY <1>1, ConcatAssociative
<1> QED  BY <1>3, <1>4

-----------------------------------------------------------------------------
(* The inductive invariant.                                                *)

\* Who is inside a locked region is where the code of that region is.
Inside ==
  /\ \A c \in Cells : mutex[c] = "cell" <=> cell_pc[c] = "push"
  /\ \A c \in Cells : mutex[c] = "db" <=> db_pc = "pop" /\ cell = c

\* A thread has a record in hand exactly between taking and passing it on.
InHands ==
  /\ \A c \in Cells : cell_pc[c] # "work" => \E r \in Records : record[c] = <<r>>
  /\ db_pc \in {"again", "lock", "pop", "send"} => cell \in Cells
  /\ IF db_pc = "send" THEN \E r \in Records : data = <<r>> ELSE data = <<>>

\* Waiting for the mutex the data base thread finds a record, or one that is about
\* to be pushed.
Ready ==
  /\ db_pc = "lock" => deque[cell] # <<>> \/ mutex[cell] = "cell"
  /\ PopsSafe

\* A cell's thread that has decided to push finds room, if it is room that a record
\* makes that is being taken out.
Leaving(c) == IF mutex[c] = "db" THEN 1 ELSE 0
RoomAt(c) ==
  /\ cell_pc[c] \in {"lock", "push"} => Len(deque[c]) - Leaving(c) < Cap + cached[c]
  /\ Len(deque[c]) <= Cap + cached[c]
Room == \A c \in Cells : RoomAt(c)

StoreInv == TypeOK /\ Inside /\ InHands /\ Ready /\ Room

LEMMA StoreInit == Init => StoreInv
<1> SUFFICES ASSUME Init PROVE StoreInv
  OBVIOUS
<1> USE StoreAssumption DEF Init, Cells, Records
<1>1. \A S : <<>> \in Seq(S) /\ Len(<<>>) = 0
  BY EmptySeq
<1>2. TypeOK
  BY <1>1 DEF TypeOK
<1>3. Inside /\ InHands /\ Ready
  BY DEF Inside, InHands, Ready, PopsSafe
<1>4. Room
  BY <1>1 DEF Room, RoomAt, Leaving
<1> QED  BY <1>2, <1>3, <1>4 DEF StoreInv

-----------------------------------------------------------------------------
(* Types.                                                                  *)

LEMMA TypesKept == ASSUME StoreInv, [Next]_vars PROVE TypeOK'
<1> USE StoreAssumption DEF StoreInv, TypeOK
<1>1. ASSUME NEW c \in Cells, Offer(c) PROVE TypeOK'
  <2>1. PICK r \in Records : record' = [record EXCEPT ![c] = <<r>>]
    BY <1>1 DEF Offer
  <2>2. <<r>> \in Seq(Records)
    OBVIOUS
  <2>3. record' \in [Cells -> Seq(Records)]
    BY <2>1, <2>2
  <2>4. UNCHANGED <<deque, mutex, db_pc, cell, data, host, host_up>> /\ offered' \in [Cells -> Nat]
    BY <1>1 DEF Offer
  <2>5. \/ cell_pc' = [cell_pc EXCEPT ![c] = "size"] /\ UNCHANGED cached
        \/ cell_pc' = [cell_pc EXCEPT ![c] = "lock"] /\ cached' = [cached EXCEPT ![c] = @ + 1]
    BY <1>1, Zenon DEF Offer, Go
  <2>6. cell_pc' \in [Cells -> {"work", "size", "lock", "push"}]
    BY <2>5
  <2>7. cached' \in [Cells -> Nat]
    <3>1. cached \in [Cells -> Nat] /\ cached[c] + 1 \in Nat
      OBVIOUS
    <3> QED  BY <2>5, <3>1
  <2> QED  BY <2>3, <2>4, <2>6, <2>7
<1>2. ASSUME NEW c \in Cells, CheckSize(c) PROVE TypeOK'
  BY <1>2, EmptySeq DEF CheckSize, Go
<1>3. ASSUME NEW c \in Cells, CellLock(c) PROVE TypeOK'
  BY <1>3 DEF CellLock, Go
<1>4. ASSUME NEW c \in Cells, PushBack(c) PROVE TypeOK'
  <2>1. deque[c] \o record[c] \in Seq(Records) /\ <<>> \in Seq(Records)
    BY ConcatProperties, EmptySeq
  <2> QED  BY <1>4, <2>1 DEF PushBack, Go, PushedBack
<1>5. CASE Wake
  BY <1>5 DEF Wake, FirstCell, DbGo
<1>6. CASE WhileSize
  <2>1. cell \in Cells /\ db_pc' \in {"again", "size"} /\ cell' \in {cell, cell + 1}
    BY <1>6, Zenon DEF WhileSize, DbGo
  <2>2. UNCHANGED <<deque, mutex, cell_pc, record, data, host, host_up, offered, cached>>
    BY <1>6 DEF WhileSize
  <2>3. cell' \in 1 .. N + 1
    BY <2>1 DEF Cells
  <2> QED  BY <2>1, <2>2, <2>3
<1>7. CASE RoundEnds
  BY <1>7 DEF RoundEnds, DbGo
<1>8. CASE AgainSize
  BY <1>8 DEF AgainSize
<1>9. CASE DbLock
  BY <1>9 DEF DbLock, DbGo
<1>10. CASE PopFront
  <2>1. cell \in Cells /\ deque[cell] # <<>>
    BY <1>10 DEF PopFront, DbGo, InHands
  <2>2. <<Head(deque[cell])>> \in Seq(Records) /\ Tail(deque[cell]) \in Seq(Records)
    BY <2>1, HeadThenTail
  <2> QED  BY <1>10, <2>1, <2>2 DEF PopFront, DbGo
<1>11. CASE Send
  <2>1. cell \in Cells
    BY <1>11 DEF Send, DbGo, InHands
  <2>2. host[cell] \o data \in Seq(Records) /\ <<>> \in Seq(Records)
    BY <2>1, ConcatProperties, EmptySeq
  <2> QED  BY <1>11, <2>1, <2>2 DEF Send, DbGo
<1>12. CASE HostChange
  BY <1>12 DEF HostChange
<1>13. CASE UNCHANGED vars
  BY <1>13 DEF vars
<1> QED
  BY <1>1, <1>2, <1>3, <1>4, <1>5, <1>6, <1>7, <1>8, <1>9, <1>10, <1>11, <1>12, <1>13 DEF Next, Db, CellStep

-----------------------------------------------------------------------------
(* Locks and records in hand.                                              *)

LEMMA HandsKept == ASSUME StoreInv, [Next]_vars PROVE Inside' /\ InHands'
<1> USE StoreAssumption DEF StoreInv, TypeOK, Inside, InHands
<1>1. ASSUME NEW c \in Cells, Offer(c) PROVE Inside' /\ InHands'
  <2>1. PICK r \in Records : record' = [record EXCEPT ![c] = <<r>>]
    BY <1>1 DEF Offer
  <2>2. /\ cell_pc[c] = "work" /\ UNCHANGED <<deque, mutex, db_pc, cell, data>>
        /\ \E p \in {"size", "lock"} : cell_pc' = [cell_pc EXCEPT ![c] = p]
    BY <1>1, Zenon DEF Offer, Go
  <2>3. \A d \in Cells \ {c} : cell_pc'[d] = cell_pc[d] /\ record'[d] = record[d]
    BY <2>1, <2>2
  <2>4. cell_pc'[c] # "push" /\ record'[c] = <<r>>
    BY <2>1, <2>2
  <2>5. Inside'
    BY <2>2, <2>3, <2>4
  <2>6. ASSUME NEW d \in Cells, cell_pc'[d] # "work" PROVE \E s \in Records : record'[d] = <<s>>
    <3>1. CASE d = c
      BY <2>4, <3>1
    <3>2. CASE d # c
      <4>1. cell_pc[d] # "work" /\ record'[d] = record[d]
        BY <2>3, <2>6, <3>2
      <4> QED  BY <4>1
    <3> QED  BY <3>1, <3>2
  <2> QED  BY <2>2, <2>5, <2>6
<1>2. ASSUME NEW c \in Cells, CheckSize(c) PROVE Inside' /\ InHands'
  <2>1. \/ cell_pc' = [cell_pc EXCEPT ![c] = "lock"] /\ UNCHANGED record
        \/ cell_pc' = [cell_pc EXCEPT ![c] = "work"] /\ record' = [record EXCEPT ![c] = <<>>]
    BY <1>2 DEF CheckSize, Go
  <2>2. cell_pc[c] = "size" /\ UNCHANGED <<deque, mutex, db_pc, cell, data>>
    BY <1>2 DEF CheckSize, Go
  <2>3. CASE UNCHANGED record
    BY <2>1, <2>2, <2>3
  <2>4. CASE record' = [record EXCEPT ![c] = <<>>] /\ cell_pc' = [cell_pc EXCEPT ![c] = "work"]
    BY <2>2, <2>4
  <2> QED  BY <2>1, <2>3, <2>4
<1>3. ASSUME NEW c \in Cells, CellLock(c) PROVE Inside' /\ InHands'
  BY <1>3 DEF CellLock, Go
<1>4. ASSUME NEW c \in Cells, PushBack(c) PROVE Inside' /\ InHands'
  BY <1>4 DEF PushBack, Go
<1>5. CASE Wake
  BY <1>5 DEF Wake, FirstCell, DbGo
<1>6. CASE WhileSize
  BY <1>6 DEF WhileSize, DbGo
<1>7. CASE RoundEnds
  BY <1>7 DEF RoundEnds, DbGo
<1>8. CASE AgainSize
  BY <1>8 DEF AgainSize
<1>9. CASE DbLock
  BY <1>9 DEF DbLock, DbGo, Free
<1>10. CASE PopFront
  <2>1. cell \in Cells /\ Head(deque[cell]) \in Records
    BY <1>10, HeadTailProperties DEF PopFront, DbGo
  <2> QED  BY <1>10, <2>1 DEF PopFront, DbGo
<1>11. CASE Send
  BY <1>11 DEF Send, DbGo
<1>12. CASE HostChange
  BY <1>12 DEF HostChange
<1>13. CASE UNCHANGED vars
  BY <1>13 DEF vars
<1> QED
  BY <1>1, <1>2, <1>3, <1>4, <1>5, <1>6, <1>7, <1>8, <1>9, <1>10, <1>11, <1>12, <1>13 DEF Next, Db, CellStep

-----------------------------------------------------------------------------
(* A record for the data base thread.                                      *)

LEMMA ReadyKept == ASSUME StoreInv, [Next]_vars PROVE Ready'
<1> USE StoreAssumption DEF StoreInv, TypeOK, Inside, InHands, Ready, PopsSafe
<1>1. ASSUME NEW c \in Cells, Offer(c) PROVE Ready'
  BY <1>1 DEF Offer
<1>2. ASSUME NEW c \in Cells, CheckSize(c) PROVE Ready'
  BY <1>2 DEF CheckSize
<1>3. ASSUME NEW c \in Cells, CellLock(c) PROVE Ready'
  BY <1>3 DEF CellLock
<1>4. ASSUME NEW c \in Cells, PushBack(c) PROVE Ready'
  <2>1. mutex[c] = "cell" /\ cell_pc[c] = "push"
    BY <1>4 DEF PushBack, Go
  <2>2. PICK r \in Records : record[c] = <<r>>
    BY <2>1
  <2>3. deque[c] \o <<r>> # <<>>
    <3>1. deque[c] \in Seq(Records) /\ <<r>> \in Seq(Records) /\ <<r>> # <<>>
      OBVIOUS
    <3> QED  BY <3>1, ConcatEqualIffEmpty
  <2>4. deque' = [deque EXCEPT ![c] = @ \o <<r>>] /\ UNCHANGED <<db_pc, cell>>
    BY <1>4, <2>2 DEF PushBack, PushedBack
  <2>5. mutex' = [mutex EXCEPT ![c] = "free"]
    BY <1>4 DEF PushBack
  <2>6. CASE db_pc \in {"lock", "pop"} /\ cell = c
    BY <2>3, <2>4, <2>6
  <2>7. CASE ~(db_pc \in {"lock", "pop"} /\ cell = c)
    BY <2>4, <2>5, <2>7
  <2> QED  BY <2>6, <2>7
<1>5. CASE Wake
  BY <1>5 DEF Wake, FirstCell, DbGo
<1>6. CASE WhileSize
  BY <1>6 DEF WhileSize, DbGo
<1>7. CASE RoundEnds
  BY <1>7 DEF RoundEnds, DbGo
<1>8. CASE AgainSize
  <2>1. cell \in Cells /\ UNCHANGED <<deque, mutex, cell>> /\ db_pc' \in {"lock", "size"}
    BY <1>8 DEF AgainSize
  <2>2. CASE mutex[cell] = "cell"
    BY <2>1, <2>2
  <2>3. CASE mutex[cell] # "cell" /\ db_pc' = "lock"
    <3>1. Len(deque[cell]) > 0
      BY <1>8, <2>3 DEF AgainSize, SizeReads
    <3> QED  BY <2>1, <2>3, <3>1, EmptySeq
  <2>4. CASE db_pc' = "size"
    BY <2>4
  <2> QED  BY <2>1, <2>2, <2>3, <2>4
<1>9. CASE DbLock
  BY <1>9 DEF DbLock, DbGo, Free
<1>10. CASE PopFront
  BY <1>10 DEF PopFront, DbGo
<1>11. CASE Send
  BY <1>11 DEF Send, DbGo
<1>12. CASE HostChange
  BY <1>12 DEF HostChange
<1>13. CASE UNCHANGED vars
  BY <1>13 DEF vars
<1> QED
  BY <1>1, <1>2, <1>3, <1>4, <1>5, <1>6, <1>7, <1>8, <1>9, <1>10, <1>11, <1>12, <1>13 DEF Next, Db, CellStep

-----------------------------------------------------------------------------
(* Room in the deques.                                                     *)

LEMMA RoomKept == ASSUME StoreInv, [Next]_vars PROVE Room'
<1> USE StoreAssumption DEF StoreInv, TypeOK, Inside, InHands, Room, RoomAt, Leaving
<1>1. \A c \in Cells : Len(deque[c]) \in Nat /\ cached[c] \in Nat
  BY LenProperties
<1>2. ASSUME NEW c \in Cells, Offer(c) PROVE Room'
  <2>1. UNCHANGED <<deque, mutex>>
    BY <1>2 DEF Offer
  <2>2. \/ cell_pc' = [cell_pc EXCEPT ![c] = "size"] /\ UNCHANGED cached
        \/ cell_pc' = [cell_pc EXCEPT ![c] = "lock"] /\ cached' = [cached EXCEPT ![c] = @ + 1]
    BY <1>2, Zenon DEF Offer, Go
  <2> SUFFICES ASSUME NEW d \in Cells PROVE RoomAt(d)'
    OBVIOUS
  <2>3. RoomAt(d) /\ Len(deque[d]) \in Nat /\ cached[d] \in Nat
    BY <1>1
  <2>4. CASE d # c
    BY <2>1, <2>2, <2>3, <2>4
  <2>5. CASE d = c
    <3>1. /\ deque'[d] = deque[d] /\ Leaving(d)' = Leaving(d) /\ Cap \in Nat
          /\ Leaving(d) \in {0, 1}
      BY <2>1
    <3>2. CASE cell_pc' = [cell_pc EXCEPT ![c] = "size"] /\ UNCHANGED cached
      <4>1. cell_pc'[d] = "size" /\ cached'[d] = cached[d]
        BY <2>5, <3>2
      <4> HIDE DEF StoreInv, TypeOK, Inside, InHands, Room, Leaving
      <4> QED  BY <2>3, <3>1, <4>1
    <3>3. CASE cell_pc' = [cell_pc EXCEPT ![c] = "lock"]
               /\ cached' = [cached EXCEPT ![c] = @ + 1]
      <4>1. cached'[d] = cached[d] + 1
        BY <2>5, <3>3
      <4> HIDE DEF StoreInv, TypeOK, Inside, InHands, Room, Leaving
      <4> QED  BY <2>3, <3>1, <4>1
    <3> QED  BY <2>2, <3>2, <3>3
  <2> QED  BY <2>4, <2>5
<1>3. ASSUME NEW c \in Cells, CheckSize(c) PROVE Room'
  <2>1. UNCHANGED <<deque, mutex, cached>>
    BY <1>3 DEF CheckSize
  <2>2. cell_pc' = [cell_pc EXCEPT ![c] = "work"]
        \/ (cell_pc' = [cell_pc EXCEPT ![c] = "lock"] /\ (mutex[c] = "db" \/ Len(deque[c]) < Cap))
    BY <1>3 DEF CheckSize, Go, SizeReads, BelowCap
  <2> SUFFICES ASSUME NEW d \in Cells PROVE RoomAt(d)'
    OBVIOUS
  <2>3. RoomAt(d) /\ Len(deque[d]) \in Nat /\ cached[d] \in Nat
    BY <1>1
  <2>4. CASE d # c
    BY <2>1, <2>2, <2>3, <2>4
  <2>5. ASSUME d = c, cell_pc' = [cell_pc EXCEPT ![c] = "work"] PROVE RoomAt(d)'
    <3>1. cell_pc'[d] = "work" /\ deque'[d] = deque[d] /\ cached'[d] = cached[d]
      BY <2>1, <2>5
    <3> QED  BY <3>1, <2>3
  <2>6. ASSUME d = c, cell_pc' = [cell_pc EXCEPT ![c] = "lock"],
               mutex[c] = "db" \/ Len(deque[c]) < Cap
        PROVE  RoomAt(d)'
    <3>1. deque'[d] = deque[d] /\ cached'[d] = cached[d] /\ mutex'[d] = mutex[d]
      BY <2>1, <2>6
    <3>2. Cap \in Nat /\ Leaving(d)' = Leaving(d)
      BY <3>1
    <3>3. CASE mutex[c] = "db"
      BY <3>1, <3>2, <3>3, <2>3, <2>6
    <3>4. CASE mutex[c] # "db"
      BY <3>1, <3>2, <3>4, <2>3, <2>6
    <3> QED  BY <3>3, <3>4
  <2> QED  BY <2>2, <2>4, <2>5, <2>6
<1>4. ASSUME NEW c \in Cells, CellLock(c) PROVE Room'
  BY <1>1, <1>4 DEF CellLock, Go
<1>5. ASSUME NEW c \in Cells, PushBack(c) PROVE Room'
  <2>1. cell_pc[c] = "push" /\ mutex[c] = "cell" /\ UNCHANGED cached
        /\ cell_pc' = [cell_pc EXCEPT ![c] = "work"] /\ mutex' = [mutex EXCEPT ![c] = "free"]
    BY <1>5 DEF PushBack, Go
  <2>2. PICK r \in Records : record[c] = <<r>>
    BY <2>1
  <2>3. Len(deque[c] \o <<r>>) = Len(deque[c]) + 1
    <3>1. <<r>> \in Seq(Records) /\ Len(<<r>>) = 1
      OBVIOUS
    <3> QED  BY <3>1, ConcatProperties
  <2>4. deque' = [deque EXCEPT ![c] = @ \o <<r>>]
    BY <1>5, <2>2 DEF PushBack, PushedBack
  <2>5. Len(deque[c]) < Cap + cached[c]
    BY <1>1, <2>1
  <2> SUFFICES ASSUME NEW d \in Cells PROVE RoomAt(d)'
    OBVIOUS
  <2>6. CASE d # c
    BY <1>1, <2>1, <2>4, <2>6
  <2>7. CASE d = c
    <3>1. Len(deque'[c]) = Len(deque[c]) + 1
      BY <2>3, <2>4
    <3> QED  BY <1>1, <2>1, <2>5, <2>7, <3>1
  <2> QED  BY <2>6, <2>7
<1>6. CASE Wake
  BY <1>6 DEF Wake, FirstCell
<1>7. CASE WhileSize
  BY <1>7 DEF WhileSize
<1>8. CASE RoundEnds
  BY <1>8 DEF RoundEnds
<1>9. CASE AgainSize
  BY <1>9 DEF AgainSize
<1>10. CASE DbLock
  <2>1. UNCHANGED <<deque, cell_pc, cached>> /\ mutex[cell] = "free" /\ mutex' = [mutex EXCEPT ![cell] = "db"]
    BY <1>10 DEF DbLock, Free
  <2> QED  BY <1>1, <2>1
<1>11. CASE PopFront
  <2>1. cell \in Cells /\ deque[cell] # <<>> /\ mutex[cell] = "db" /\ UNCHANGED <<cell_pc, cached>>
    BY <1>11 DEF PopFront, DbGo
  <2>2. deque' = [deque EXCEPT ![cell] = Tail(@)] /\ mutex' = [mutex EXCEPT ![cell] = "free"]
    BY <1>11 DEF PopFront
  <2>3. Len(Tail(deque[cell])) = Len(deque[cell]) - 1
    BY <2>1, HeadTailProperties
  <2> SUFFICES ASSUME NEW d \in Cells PROVE RoomAt(d)'
    OBVIOUS
  <2>4. CASE d # cell
    BY <1>1, <2>1, <2>2, <2>4
  <2>5. CASE d = cell
    <3>1. Len(deque'[cell]) = Len(deque[cell]) - 1
      BY <2>1, <2>2, <2>3
    <3> QED  BY <1>1, <2>1, <2>2, <2>5, <3>1
  <2> QED  BY <2>4, <2>5
<1>12. CASE Send
  BY <1>12 DEF Send
<1>13. CASE HostChange
  BY <1>13 DEF HostChange
<1>14. CASE UNCHANGED vars
  BY <1>14 DEF vars
<1> QED
  BY <1>2, <1>3, <1>4, <1>5, <1>6, <1>7, <1>8, <1>9, <1>10, <1>11, <1>12, <1>13, <1>14 DEF Next, Db, CellStep

LEMMA StoreNext == StoreInv /\ [Next]_vars => StoreInv'
BY TypesKept, HandsKept, ReadyKept, RoomKept DEF StoreInv

LEMMA StoreInvariant == Spec => []StoreInv
BY StoreInit, StoreNext, PTL DEF Spec

\* The types of all variables: the two threads' program counters, and the sequences.
THEOREM StoreTypes == Spec => []TypeOK
BY StoreInvariant, PTL DEF StoreInv

\* The data base thread never takes the front of an empty deque.
THEOREM PopsSafeThm == Spec => []PopsSafe
BY StoreInvariant, PTL DEF StoreInv, Ready

\* The unlocked size check keeps a deque within its bound.
THEOREM BoundedThm == Spec => []Bounded
<1>1. StoreInv => Bounded
  BY DEF StoreInv, Room, RoomAt, Bounded
<1> QED  BY <1>1, StoreInvariant, PTL

-----------------------------------------------------------------------------
(* Refinement.                                                             *)

LEMMA Starts == Init => Fifo!Init
<1> SUFFICES ASSUME Init PROVE Fifo!Init
  OBVIOUS
<1>1. \A c \in Cells : InHand(c) \o deque[c] = <<>>
  <2> TAKE c \in Cells
  <2>1. InHand(c) = <<>> /\ deque[c] = <<>>
    BY DEF Init, InHand
  <2>2. <<>> \o <<>> = <<>>
    BY EmptySeq, ConcatEmptySeq
  <2> QED  BY <2>1, <2>2
<1> QED  BY <1>1 DEF Init, Fifo!Init, OnTheWay

\* Steps that move no record are no steps of the queue.
LEMMA Stutters ==
  ASSUME UNCHANGED <<deque, host, host_up>>, StoreInv,
         UNCHANGED <<cell, data>> \/ (data = <<>> /\ data' = <<>>)
  PROVE  UNCHANGED Fifo!vars
<1>1. \A c \in Cells : InHand(c)' = InHand(c) /\ deque'[c] = deque[c]
  BY DEF InHand
<1>2. OnTheWay' = OnTheWay
  BY <1>1 DEF OnTheWay
<1> QED  BY <1>2 DEF Fifo!vars

LEMMA Steps == ASSUME StoreInv, [Next]_vars PROVE [Fifo!Next]_(Fifo!vars)
<1> USE DEF StoreInv, TypeOK, InHands
<1>1. ASSUME NEW c \in Cells, Offer(c) PROVE UNCHANGED Fifo!vars
  BY <1>1, Stutters DEF Offer
<1>2. ASSUME NEW c \in Cells, CheckSize(c) PROVE UNCHANGED Fifo!vars
  BY <1>2, Stutters DEF CheckSize
<1>3. ASSUME NEW c \in Cells, CellLock(c) PROVE UNCHANGED Fifo!vars
  BY <1>3, Stutters DEF CellLock
<1>4. ASSUME NEW c \in Cells, PushBack(c) PROVE Fifo!Next
  <2>1. cell_pc[c] = "push" /\ UNCHANGED <<cell, data, host, host_up>>
    BY <1>4 DEF PushBack, Go
  <2>2. PICK r \in Records : record[c] = <<r>>
    BY <2>1
  <2>3. deque' = [deque EXCEPT ![c] = @ \o <<r>>]
    BY <1>4, <2>2 DEF PushBack, PushedBack
  <2>4. InHand(c) \in Seq(Records) /\ deque[c] \in Seq(Records)
    BY EmptySeq DEF InHand
  <2>6. InHand(c) \o (deque[c] \o <<r>>) = Append(InHand(c) \o deque[c], r)
    <3> DEFINE h == InHand(c)  d == deque[c]
    <3>1. h \in Seq(Records) /\ d \in Seq(Records)
      BY <2>4
    <3> HIDE DEF h, d
    <3>2. h \o (d \o <<r>>) = Append(h \o d, r)
      BY ONLY <3>1, r \in Records, AppendBehind, SMT
    <3> QED  BY <3>2 DEF h, d
  <2>7. \A d \in Cells : InHand(d)' = InHand(d)
    BY <2>1 DEF InHand
  <2>8. OnTheWay' = [OnTheWay EXCEPT ![c] = Append(@, r)]
    <3>1. \A d \in Cells : InHand(d)' \o deque'[d] =
             IF d = c THEN Append(InHand(c) \o deque[c], r) ELSE InHand(d) \o deque[d]
      BY <2>3, <2>6, <2>7
    <3> QED  BY <3>1 DEF OnTheWay
  <2>9. Fifo!Accept(c, r)
    BY <2>1, <2>8 DEF Fifo!Accept
  <2> QED  BY <2>9 DEF Fifo!Next
<1>5. CASE Wake
  BY <1>5, Stutters DEF Wake, FirstCell, DbGo
<1>6. CASE WhileSize
  BY <1>6, Stutters DEF WhileSize, DbGo
<1>7. CASE RoundEnds
  BY <1>7, Stutters DEF RoundEnds
<1>8. CASE AgainSize
  BY <1>8, Stutters DEF AgainSize
<1>9. CASE DbLock
  BY <1>9, Stutters DEF DbLock
<1>10. CASE PopFront
  <2>1. cell \in Cells /\ deque[cell] # <<>> /\ data = <<>> /\ UNCHANGED <<cell, host, host_up>>
    BY <1>10 DEF PopFront, DbGo
  <2>2. data' = <<Head(deque[cell])>> /\ deque' = [deque EXCEPT ![cell] = Tail(@)]
    BY <1>10 DEF PopFront
  <2>3. <<Head(deque[cell])>> \o Tail(deque[cell]) = deque[cell] /\ <<>> \o deque[cell] = deque[cell]
    BY <2>1, HeadThenTail, ConcatEmptySeq
  <2>4. \A d \in Cells : InHand(d)' \o deque'[d] = InHand(d) \o deque[d]
    BY <2>1, <2>2, <2>3 DEF InHand
  <2>5. OnTheWay' = OnTheWay
    BY <2>4 DEF OnTheWay
  <2> QED  BY <2>1, <2>5 DEF Fifo!vars
<1>11. CASE Send
  <2>1. db_pc = "send" /\ cell \in Cells /\ data' = <<>> /\ UNCHANGED <<deque, cell, host_up>>
    BY <1>11 DEF Send, DbGo
  <2>2. PICK r \in Records : data = <<r>>
    BY <2>1
  <2>3. /\ <<r>> \o deque[cell] # <<>> /\ Head(<<r>> \o deque[cell]) = r
        /\ Tail(<<r>> \o deque[cell]) = deque[cell]
    BY <2>1, HeadOfHeld
  <2>4. \A d \in Cells : <<>> \o deque[d] = deque[d]
    BY ConcatEmptySeq
  <2>5. OnTheWay[cell] = <<r>> \o deque[cell]
    BY <2>1, <2>2 DEF OnTheWay, InHand
  <2>6. OnTheWay' = [OnTheWay EXCEPT ![cell] = Tail(@)]
    <3>1. \A d \in Cells : InHand(d)' \o deque'[d] =
             IF d = cell THEN Tail(<<r>> \o deque[cell]) ELSE InHand(d) \o deque[d]
      BY <2>1, <2>2, <2>3, <2>4 DEF InHand
    <3> QED  BY <3>1, <2>5 DEF OnTheWay
  <2>7. host' = IF host_up THEN [host EXCEPT ![cell] = Append(@, r)] ELSE host
    <3>1. host[cell] \o <<r>> = Append(host[cell], r)
      BY <2>1, AppendIsConcat
    <3>2. host' = IF host_up THEN [host EXCEPT ![cell] = host[cell] \o data] ELSE host
      BY <1>11 DEF Send
    <3>3. host' = IF host_up THEN [host EXCEPT ![cell] = Append(host[cell], r)] ELSE host
      BY <2>2, <3>1, <3>2
    <3> QED  BY <3>3
  <2>8. CASE host_up
    <3>1. Fifo!Deliver(cell)
      BY <2>1, <2>3, <2>5, <2>6, <2>7, <2>8 DEF Fifo!Deliver
    <3> QED  BY <2>1, <3>1 DEF Fifo!Next, Fifo!Leave
  <2>9. CASE ~host_up
    <3>1. Fifo!Lose(cell)
      BY <2>1, <2>3, <2>5, <2>6, <2>7, <2>9 DEF Fifo!Lose
    <3> QED  BY <2>1, <3>1 DEF Fifo!Next, Fifo!Leave
  <2> QED  BY <2>8, <2>9
<1>12. CASE HostChange
  <2>1. OnTheWay' = OnTheWay
    <3>1. \A c \in Cells : InHand(c)' \o deque'[c] = InHand(c) \o deque[c]
      BY <1>12 DEF HostChange, InHand
    <3> QED  BY <3>1 DEF OnTheWay
  <2>2. Fifo!HostChange
    BY <1>12, <2>1 DEF HostChange, Fifo!HostChange
  <2> QED  BY <2>2 DEF Fifo!Next
<1>13. CASE UNCHANGED vars
  BY <1>13, Stutters DEF vars
<1> QED
  BY <1>1, <1>2, <1>3, <1>4, <1>5, <1>6, <1>7, <1>8, <1>9, <1>10, <1>11, <1>12, <1>13 DEF Next, Db, CellStep

\* CabinetDateBase and its callers implement the lossy queue of RecordFifo: records of
\* a cell reach the host in order, each once, and are lost only at a full socket.
THEOREM FifoThm == Spec => FifoSafe
<1>1. Init /\ StoreInv => Fifo!Init
  BY Starts
<1>2. StoreInv /\ [Next]_vars => [Fifo!Next]_(Fifo!vars)
  BY Steps
<1> QED  BY <1>1, <1>2, StoreInvariant, PTL DEF Spec, FifoSafe, Fifo!SafeSpec
=============================================================================
