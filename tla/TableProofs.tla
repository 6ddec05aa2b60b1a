----------------------------- MODULE TableProofs -----------------------------
(***************************************************************************)
(* Theorems about ClientTable: its types, and that the two threads cannot  *)
(* bring the connection table and the channels' view of it apart.          *)
(***************************************************************************)
EXTENDS ClientTable, TLAPS

\* Between two calls of a pass the cell thread has a module in its hands, and in
\* channel_state_update the descriptor it read.
Holding ==
  /\ pc \in {"get_state", "set_state", "get_connfd", "disconnect", "set_beat", "set_recv"}
     => dev \in Devices
  /\ pc \in {"get_state", "set_state"} => fd \in Fds

TableInv == TypeOK /\ Holding /\ ConnectedUsed

LEMMA TableInit == Init => TableInv
<1> SUFFICES ASSUME Init PROVE TableInv
  OBVIOUS
<1> USE DEF Init
<1>1. /\ ch_fd \in [Devices -> Fds \cup {NoFd}] /\ state \in [Devices -> ConnState]
      /\ map_fd_chanNo \in [Fds -> Devices \cup {NoDev}]
      /\ peer \in [Fds -> Devices \cup {NoDev}] /\ eof \subseteq Fds
      /\ current \in [Devices -> Fds \cup {NoFd}]
  BY DEF ConnState
<1>2. /\ accepting \subseteq Fds \X Devices /\ epoll \subseteq Fds
      /\ chan_fd \in [Devices -> Fds \cup {NoFd}]
      /\ first \in [Devices -> BOOLEAN] /\ others \in [Devices -> BOOLEAN]
  OBVIOUS
<1>3. conns \in 0..MaxConn
  BY TableAssumption
<1>4. TypeOK
  BY <1>1, <1>2, <1>3 DEF TypeOK, ConnState
<1>5. Holding /\ ConnectedUsed
  BY DEF Holding, ConnectedUsed
<1> QED  BY <1>4, <1>5 DEF TableInv

\* The two threads change the table and the channels in different steps: what a step that
\* touches neither can disturb is the types and what the cell thread holds.
LEMMA QuietUsed ==
  ASSUME ConnectedUsed, UNCHANGED <<state, channels>>, pc = "set_beat" => UNCHANGED <<pc, dev>>
  PROVE  ConnectedUsed'
BY DEF ConnectedUsed, channels

LEMMA CloseTypes ==
  ASSUME TypeOK, NEW f \in Fds \cup {NoFd}, Close(f)
  PROVE  /\ peer' \in [Fds -> Devices \cup {NoDev}] /\ eof' \subseteq Fds
         /\ epoll' \subseteq Fds /\ current' \in [Devices -> Fds \cup {NoFd}]
BY DEF TypeOK, Close

LEMMA OnlineTypes ==
  ASSUME TypeOK, NEW d, NEW f \in Fds \cup {NoFd}, NEW up \in BOOLEAN, Online(d, f, up)
  PROVE  /\ chan_fd' \in [Devices -> Fds \cup {NoFd}]
         /\ first' \in [Devices -> BOOLEAN] /\ others' \in [Devices -> BOOLEAN]
BY DEF TypeOK, Online

-----------------------------------------------------------------------------
(* The power modules and the accept thread.                                *)

LEMMA AcceptKeeps ==
  ASSUME TableInv, NEW d \in Devices, NEW f \in Fds, Accept(d, f) \/ AcceptMap(d, f)
  PROVE  TableInv'
<1> USE DEF TableInv
<1>1. CASE Accept(d, f)
  <2>1. TypeOK'
    BY <1>1, TableAssumption DEF Accept, TypeOK, channels, local, ConnState
  <2>2. UNCHANGED <<channels, pc, dev, fd>> /\ state' = [state EXCEPT ![d] = "NewConnect"]
    BY <1>1 DEF Accept, local
  <2>3. ConnectedUsed' /\ Holding'
    BY <2>2 DEF ConnectedUsed, Holding, channels, TypeOK
  <2> QED  BY <2>1, <2>3
<1>2. CASE AcceptMap(d, f)
  <2>1. TypeOK'
    BY <1>2 DEF AcceptMap, TypeOK, table, sockets, channels, local
  <2>2. UNCHANGED <<state, channels, pc, dev, fd>>
    BY <1>2 DEF AcceptMap, table, local
  <2> QED  BY <2>1, <2>2, QuietUsed DEF Holding
<1> QED  BY <1>1, <1>2

LEMMA PeerKeeps ==
  ASSUME TableInv, (\E d \in Devices : GiveUp(d)) \/ (\E f \in Fds : Eof(f))
  PROVE  TableInv'
<1> USE DEF TableInv
<1>1. ASSUME NEW d \in Devices, GiveUp(d) PROVE TableInv'
  <2>1. TypeOK'
    BY <1>1 DEF GiveUp, TypeOK, table, channels, local
  <2>2. UNCHANGED <<state, channels, pc, dev, fd>>
    BY <1>1 DEF GiveUp, table, local
  <2> QED  BY <2>1, <2>2, QuietUsed DEF Holding
<1>2. ASSUME NEW f \in Fds, Eof(f) PROVE TableInv'
  <2>1. TypeOK'
    BY <1>2 DEF Eof, TypeOK, table, channels, local
  <2>2. UNCHANGED <<state, channels, pc, dev, fd>>
    BY <1>2 DEF Eof, table, local
  <2> QED  BY <2>1, <2>2, QuietUsed DEF Holding
<1> QED  BY <1>1, <1>2

-----------------------------------------------------------------------------
(* channel_state_update                                                    *)

LEMMA UpdateKeeps ==
  ASSUME TableInv, (\E d \in Devices : GetFd(d)) \/ GetState
  PROVE  TableInv'
<1> USE DEF TableInv
<1>1. ASSUME NEW d \in Devices, GetFd(d) PROVE TableInv'
  <2>1. TypeOK'
    BY <1>1 DEF GetFd, TypeOK, table, sockets, channels, local
  <2>2. UNCHANGED <<state, channels>> /\ pc = "update"
    BY <1>1 DEF GetFd, table
  <2>3. Holding'
    BY <1>1 DEF GetFd, Holding, TypeOK
  <2> QED  BY <2>1, <2>2, <2>3, QuietUsed
<1>2. ASSUME GetState PROVE TableInv'
  <2>1. TypeOK'
    BY <1>2, TableAssumption
    DEF GetState, NextDevice, Forget, TypeOK, Holding, table, sockets, channels, ConnState
  <2>2. UNCHANGED <<state, channels>> /\ pc = "get_state"
    BY <1>2 DEF GetState, table
  <2>3. Holding'
    BY <1>2 DEF GetState, NextDevice, Holding
  <2> QED  BY <2>1, <2>2, <2>3, QuietUsed
<1> QED  BY <1>1, <1>2

\* The one step that makes a connection Connected, or the channels give theirs up, does
\* both to the same module.
LEMMA SetStateKeeps == ASSUME TableInv, SetState PROVE TableInv'
<1> USE DEF TableInv
<1>1. dev \in Devices /\ fd \in Fds /\ pc' = "update" /\ todo' \subseteq todo
  BY DEF SetState, Holding, NextDevice
<1>2. /\ dev' = NoDev /\ fd' = NoFd /\ st' = "NoConnect"
      /\ UNCHANGED <<ch_fd, map_fd_chanNo, peer, eof, current, accepting, conns>>
  BY DEF SetState, Forget, sockets
<1>3. CASE st = "NewConnect"
  <2>1. /\ epoll' = epoll \cup {f \in {fd} : peer[f] # NoDev}
        /\ state' = [state EXCEPT ![dev] = "Connected"] /\ Online(dev, fd, TRUE)
    BY <1>3 DEF SetState
  <2>2. TypeOK'
    <3>1. epoll' \subseteq Fds /\ state' \in [Devices -> ConnState]
      BY <1>1, <2>1 DEF TypeOK, ConnState
    <3> QED  BY <1>1, <1>2, <2>1, <3>1, OnlineTypes DEF TypeOK, ConnState
  <2>3. ConnectedUsed'
    BY <1>1, <2>1 DEF ConnectedUsed, Online, TypeOK
  <2> QED  BY <1>1, <2>2, <2>3 DEF Holding
<1>4. CASE st # "NewConnect"
  <2>1. /\ epoll' = epoll \ {fd}
        /\ state' = [state EXCEPT ![dev] = "NoConnect"] /\ Online(dev, NoFd, FALSE)
    BY <1>4 DEF SetState
  <2>2. TypeOK'
    <3>1. epoll' \subseteq Fds /\ state' \in [Devices -> ConnState]
      BY <2>1 DEF TypeOK, ConnState
    <3> QED  BY <1>1, <1>2, <2>1, <3>1, OnlineTypes DEF TypeOK, ConnState
  <2>3. ConnectedUsed'
    BY <1>1, <2>1 DEF ConnectedUsed, Online, TypeOK
  <2> QED  BY <1>1, <2>2, <2>3 DEF Holding
<1> QED  BY <1>3, <1>4

-----------------------------------------------------------------------------
(* hearbeat_detect                                                         *)

LEMMA DetectKeeps ==
  ASSUME TableInv, (\E d \in Devices : BeatOk(d) \/ Timeout(d)) \/ GetConnfd
  PROVE  TableInv'
<1> USE DEF TableInv
<1>1. ASSUME NEW d \in Devices, BeatOk(d) PROVE TableInv'
  <2>1. TypeOK'
    BY <1>1 DEF BeatOk, TypeOK, table, sockets, channels, local
  <2>2. UNCHANGED <<state, channels, pc, dev, fd>>
    BY <1>1 DEF BeatOk, table, local
  <2> QED  BY <2>1, <2>2, QuietUsed DEF Holding
<1>2. ASSUME NEW d \in Devices, Timeout(d) PROVE TableInv'
  <2>1. TypeOK'
    BY <1>2 DEF Timeout, TypeOK, table, sockets, channels
  <2>2. UNCHANGED <<state, channels>> /\ pc = "beat"
    BY <1>2 DEF Timeout, table
  <2>3. Holding'
    BY <1>2 DEF Timeout, Holding
  <2> QED  BY <2>1, <2>2, <2>3, QuietUsed
<1>3. ASSUME GetConnfd PROVE TableInv'
  <2>1. TypeOK'
    BY <1>3 DEF GetConnfd, TypeOK, Holding, table, sockets, channels
  <2>2. UNCHANGED <<state, channels>> /\ pc = "get_connfd"
    BY <1>3 DEF GetConnfd, table
  <2>3. Holding'
    BY <1>3 DEF GetConnfd, Holding
  <2> QED  BY <2>1, <2>2, <2>3, QuietUsed
<1> QED  BY <1>1, <1>2, <1>3

\* The first channel of a Connected module is given up in one step and the table told in a
\* later one: in between the cell thread is still about this module.
LEMMA GiveUpKeeps == ASSUME TableInv, Disconnect \/ SetBeat PROVE TableInv'
<1> USE DEF TableInv
<1>1. CASE Disconnect
  <2>1. dev \in Devices /\ Close(chan_fd[dev]) /\ first' = [first EXCEPT ![dev] = FALSE]
        /\ pc = "disconnect" /\ pc' = "set_beat" /\ UNCHANGED <<state, others, dev>>
    BY <1>1 DEF Disconnect, Holding, table, local
  <2>2. TypeOK'
    <3>1. chan_fd[dev] \in Fds \cup {NoFd}
      BY <2>1 DEF TypeOK
    <3> QED  BY <1>1, <2>1, <3>1, CloseTypes DEF Disconnect, TypeOK, table, local
  <2>3. ConnectedUsed'
    BY <2>1 DEF ConnectedUsed, TypeOK
  <2> QED  BY <2>1, <2>2, <2>3 DEF Holding
<1>2. CASE SetBeat
  <2>1. /\ dev \in Devices /\ state' = [state EXCEPT ![dev] = "DisConnect"]
        /\ pc' = "beat" /\ UNCHANGED channels
    BY <1>2 DEF SetBeat, Holding, NextDevice
  <2>2. TypeOK'
    BY <1>2, TableAssumption
    DEF SetBeat, NextDevice, Forget, TypeOK, ConnState, sockets, channels
  <2>3. ConnectedUsed'
    BY <2>1 DEF ConnectedUsed, channels, TypeOK
  <2> QED  BY <2>1, <2>2, <2>3 DEF Holding
<1> QED  BY <1>1, <1>2

-----------------------------------------------------------------------------
(* work_logic_recv                                                         *)

LEMMA RecvKeeps ==
  ASSUME TableInv, (\E f \in Fds : Recv(f) \/ RecvErr(f)) \/ CloseFd \/ SetRecv \/ NextPart
  PROVE  TableInv'
<1> USE DEF TableInv
<1>1. ASSUME NEW f \in Fds, Recv(f) PROVE TableInv'
  <2>1. TypeOK'
    BY <1>1 DEF Recv, TypeOK, table, sockets, channels
  <2>2. UNCHANGED <<state, channels>> /\ pc = "recv" /\ pc' = "close"
    BY <1>1 DEF Recv, table
  <2> QED  BY <2>1, <2>2, QuietUsed DEF Holding
<1>2. ASSUME NEW f \in Fds, RecvErr(f) PROVE TableInv'
  <2>1. TypeOK'
    BY <1>2, CloseTypes DEF RecvErr, TypeOK, table, channels, local
  <2>2. UNCHANGED <<state, channels, pc, dev, fd>>
    BY <1>2 DEF RecvErr, table, local
  <2> QED  BY <2>1, <2>2, QuietUsed DEF Holding
<1>3. ASSUME CloseFd PROVE TableInv'
  <2>1. TypeOK'
    <3>1. fd \in Fds \cup {NoFd} /\ Close(fd)
      BY <1>3 DEF CloseFd, TypeOK
    <3> QED  BY <1>3, <3>1, CloseTypes, TableAssumption
             DEF CloseFd, Forget, TypeOK, ConnState, table, channels, local
  <2>2. UNCHANGED <<state, channels>> /\ pc = "close"
    BY <1>3 DEF CloseFd, table
  <2>3. Holding'
    BY <1>3 DEF CloseFd, Holding, TypeOK, local
  <2> QED  BY <2>1, <2>2, <2>3, QuietUsed
<1>4. ASSUME SetRecv PROVE TableInv'
  <2>1. /\ dev \in Devices /\ state' = [state EXCEPT ![dev] = "DisConnect"]
        /\ pc = "set_recv" /\ pc' = "recv" /\ UNCHANGED channels
    BY <1>4 DEF SetRecv, Holding
  <2>2. TypeOK'
    BY <1>4, TableAssumption DEF SetRecv, Forget, TypeOK, ConnState, sockets, channels
  <2>3. ConnectedUsed'
    BY <2>1 DEF ConnectedUsed, channels, TypeOK
  <2> QED  BY <2>1, <2>2, <2>3 DEF Holding
<1>5. ASSUME NextPart PROVE TableInv'
  <2>1. /\ pc \in {"update", "beat", "recv"} /\ pc' \in {"update", "beat", "recv"}
        /\ todo' \subseteq Devices
    BY <1>5 DEF NextPart, TypeOK
  <2>2. UNCHANGED <<table, map_fd_chanNo, sockets, accepting, epoll, channels, local, conns>>
    BY <1>5 DEF NextPart
  <2>3. TypeOK'
    BY <2>1, <2>2 DEF TypeOK, table, sockets, channels, local
  <2>4. UNCHANGED <<state, channels>>
    BY <2>2 DEF table
  <2> QED  BY <2>1, <2>3, <2>4, QuietUsed DEF Holding
<1> QED  BY <1>1, <1>2, <1>3, <1>4, <1>5

-----------------------------------------------------------------------------
LEMMA TableStep == TableInv /\ [Next]_vars => TableInv'
<1> SUFFICES ASSUME TableInv, [Next]_vars PROVE TableInv'
  OBVIOUS
<1>1. CASE Next
  BY <1>1, AcceptKeeps, PeerKeeps, UpdateKeeps, SetStateKeeps, DetectKeeps, GiveUpKeeps,
     RecvKeeps DEF Next, CellStep
<1>2. CASE UNCHANGED vars
  BY <1>2 DEF vars, table, sockets, channels, local, TableInv, TypeOK, Holding, ConnectedUsed
<1> QED  BY <1>1, <1>2

\* The table, the channels and what the cell thread holds between two calls keep their
\* types for any set of modules and descriptors: no step of either thread uses a module or
\* a descriptor it has not read.
THEOREM TableTypes == Spec => []TypeOK
<1>1. TableInv => TypeOK
  BY DEF TableInv
<1> QED  BY TableInit, TableStep, <1>1, PTL DEF Spec

\* However many modules connect, and whatever the accept thread writes over the cell
\* thread's entries, a connection the table calls Connected is one all the channels of the
\* module use, but for the moment between disconnect and the table's being told.
THEOREM TableAgrees == Spec => []ConnectedUsed
<1>1. TableInv => ConnectedUsed
  BY DEF TableInv
<1> QED  BY TableInit, TableStep, <1>1, PTL DEF Spec
=============================================================================
