---------------------------- MODULE ClientTable ----------------------------
(***************************************************************************)
(* The table of power module connections, written by two threads: the      *)
(* accept thread (TcpServerMonitor::accept_monitor) and the cell thread    *)
(* (channel_state_update, hearbeat_detect, work_logic_recv of Cell).       *)
(*                                                                         *)
(* Every call of a get_, set_ or delete_ function of TcpServerMonitor      *)
(* takes and releases a lock, so a step here makes at most one of them;    *)
(* what the cell thread has read so far is in dev, fd and st.  A           *)
(* descriptor that was closed is free to be given to the next connection,  *)
(* of whichever module.                                                    *)
(*                                                                         *)
(* The power modules (external) connect, give connections up with or       *)
(* without the cell learning of it, and connect again.  A heartbeat is     *)
(* answered when it goes out on the connection the module uses and the     *)
(* answer finds its way back to the same module's channels; ChannelLink    *)
(* models the counting.                                                    *)
(***************************************************************************)
EXTENDS Integers, FiniteSets

CONSTANTS
  Devices,    \* the power modules of a cell
  Fds,        \* descriptors
  NoFd,       \* no descriptor (-1 or 0)
  NoDev,      \* no module
  HupAlone,   \* may epoll report EPOLLHUP or EPOLLERR without EPOLLIN?
  MaxConn     \* bound: connections made

ASSUME TableAssumption ==
  /\ IsFiniteSet(Devices) /\ IsFiniteSet(Fds)
  /\ NoFd \notin Fds /\ NoDev \notin Devices
  /\ HupAlone \in BOOLEAN /\ MaxConn \in Nat

VARIABLES
  ch_fd, state,       \* client_info_table, per module
  map_fd_chanNo,      \* the module a descriptor is known to belong to
  peer,               \* the module at the other end of a descriptor; NoDev: closed
  eof,                \* descriptors whose other end is known to be gone
  current,            \* the descriptor whose connection the module uses
  accepting,          \* connections accepted and in the table, not yet in the map
  epoll,              \* descriptors m_epoll_cell watches
  chan_fd,            \* ch_fd of the module's channels
  first, others,      \* m_is_connected of its first and of its other channels
  pc, todo, dev, fd, st,  \* the cell thread
  conns

table == <<ch_fd, state>>
sockets == <<peer, eof, current>>
channels == <<chan_fd, first, others>>
local == <<dev, fd, st>>
vars == <<table, map_fd_chanNo, sockets, accepting, epoll, channels, pc, todo, local, conns>>

ConnState == {"NoConnect", "NewConnect", "Connected", "DisConnect"}
TypeOK ==
  /\ ch_fd \in [Devices -> Fds \cup {NoFd}] /\ state \in [Devices -> ConnState]
  /\ map_fd_chanNo \in [Fds -> Devices \cup {NoDev}]
  /\ peer \in [Fds -> Devices \cup {NoDev}] /\ eof \subseteq Fds
  /\ current \in [Devices -> Fds \cup {NoFd}]
  /\ accepting \subseteq Fds \X Devices /\ epoll \subseteq Fds
  /\ chan_fd \in [Devices -> Fds \cup {NoFd}]
  /\ first \in [Devices -> BOOLEAN] /\ others \in [Devices -> BOOLEAN]
  /\ pc \in {"update", "get_state", "set_state", "beat", "get_connfd", "disconnect",
             "set_beat", "recv", "close", "set_recv"}
  /\ todo \subseteq Devices
  /\ dev \in Devices \cup {NoDev} /\ fd \in Fds \cup {NoFd} /\ st \in ConnState
  /\ conns \in 0..MaxConn

Init ==
  /\ ch_fd = [d \in Devices |-> NoFd] /\ state = [d \in Devices |-> "NoConnect"]
  /\ map_fd_chanNo = [f \in Fds |-> NoDev]
  /\ peer = [f \in Fds |-> NoDev] /\ eof = {} /\ current = [d \in Devices |-> NoFd]
  /\ accepting = {} /\ epoll = {}
  /\ chan_fd = [d \in Devices |-> NoFd]
  /\ first = [d \in Devices |-> FALSE] /\ others = [d \in Devices |-> FALSE]
  /\ pc = "update" /\ todo = Devices /\ dev = NoDev /\ fd = NoFd /\ st = "NoConnect"
  /\ conns = 0

-----------------------------------------------------------------------------
(* The power modules and the accept thread                                  *)

\* accept_monitor, up to the end of its write lock.
Accept(d, f) ==
  /\ conns < MaxConn /\ conns' = conns + 1
  /\ accepting = {} /\ accepting' = {<<f, d>>}
  /\ current[d] = NoFd /\ peer[f] = NoDev
  /\ current' = [current EXCEPT ![d] = f] /\ peer' = [peer EXCEPT ![f] = d]
  /\ ch_fd' = [ch_fd EXCEPT ![d] = f] /\ state' = [state EXCEPT ![d] = "NewConnect"]
  /\ UNCHANGED <<map_fd_chanNo, eof, epoll, channels, pc, todo, local>>

\* Its second part: insert leaves an entry alone that is there already.
AcceptMap(d, f) ==
  /\ <<f, d>> \in accepting /\ accepting' = {}
  /\ map_fd_chanNo' = [map_fd_chanNo EXCEPT ![f] = IF @ = NoDev THEN d ELSE @]
  /\ UNCHANGED <<table, sockets, epoll, channels, pc, todo, local, conns>>

\* A module gives its connection up; the cell's end learns of it now or later.
GiveUp(d) ==
  /\ current[d] # NoFd
  /\ current' = [current EXCEPT ![d] = NoFd]
  /\ eof' \in {eof, eof \cup {current[d]}}
  /\ UNCHANGED <<table, map_fd_chanNo, peer, accepting, epoll, channels, pc, todo, local, conns>>
Eof(f) ==
  /\ peer[f] # NoDev /\ current[peer[f]] # f /\ f \notin eof
  /\ eof' = eof \cup {f}
  /\ UNCHANGED <<table, map_fd_chanNo, peer, current, accepting, epoll, channels, pc, todo,
                 local, conns>>

\* close(f): the other end loses its connection, and epoll forgets the descriptor.
Close(f) ==
  /\ peer' = [g \in Fds |-> IF g = f THEN NoDev ELSE peer[g]]
  /\ eof' = eof \ {f} /\ epoll' = epoll \ {f}
  /\ current' = [d \in Devices |-> IF f # NoFd /\ current[d] = f THEN NoFd ELSE current[d]]

\* A heartbeat sent on the channels' descriptor is answered, and the answer is taken for
\* this module's.
Answered(d) ==
  LET f == chan_fd[d] IN
  f # NoFd /\ current[d] = f /\ f \in epoll /\ map_fd_chanNo[f] = d

-----------------------------------------------------------------------------
(* channel_state_update, for each module                                    *)

NextDevice(here) == pc' = here /\ todo' = todo \ {dev}
Forget == dev' = NoDev /\ fd' = NoFd /\ st' = "NoConnect"

GetFd(d) ==
  /\ pc = "update" /\ d \in todo
  /\ IF ch_fd[d] = NoFd
     THEN todo' = todo \ {d} /\ UNCHANGED <<pc, local>>
     ELSE dev' = d /\ fd' = ch_fd[d] /\ pc' = "get_state" /\ UNCHANGED <<todo, st>>
  /\ UNCHANGED <<table, map_fd_chanNo, sockets, accepting, epoll, channels, conns>>

GetState ==
  /\ pc = "get_state"
  /\ IF state[dev] \in {"NewConnect", "DisConnect"}
     THEN st' = state[dev] /\ pc' = "set_state" /\ UNCHANGED <<todo, dev, fd>>
     ELSE NextDevice("update") /\ Forget
  /\ UNCHANGED <<table, map_fd_chanNo, sockets, accepting, epoll, channels, conns>>

\* Mutant: the first channel only, as disconnect does it.
OnlineFirst(d, f, up) ==
  /\ chan_fd' = [chan_fd EXCEPT ![d] = f]
  /\ first' = [first EXCEPT ![d] = up] /\ UNCHANGED others
\* Mutant: set_fd is given the number of the module.
OnlineDevice(d, f, up) ==
  /\ chan_fd' = [chan_fd EXCEPT ![d] = d]
  /\ first' = [first EXCEPT ![d] = up] /\ others' = [others EXCEPT ![d] = up]
Online(d, f, up) ==
  /\ chan_fd' = [chan_fd EXCEPT ![d] = f]
  /\ first' = [first EXCEPT ![d] = up] /\ others' = [others EXCEPT ![d] = up]
SetState ==
  /\ pc = "set_state"
  /\ IF st = "NewConnect"
     THEN /\ epoll' = epoll \cup {f \in {fd} : peer[f] # NoDev}
          /\ state' = [state EXCEPT ![dev] = "Connected"] /\ Online(dev, fd, TRUE)
     ELSE /\ epoll' = epoll \ {fd}
          /\ state' = [state EXCEPT ![dev] = "NoConnect"] /\ Online(dev, NoFd, FALSE)
  /\ NextDevice("update") /\ Forget
  /\ UNCHANGED <<ch_fd, map_fd_chanNo, sockets, accepting, conns>>

-----------------------------------------------------------------------------
(* hearbeat_detect, for each module                                         *)

\* The heartbeats are answered, or not enough of them are missing.
BeatOk(d) ==
  /\ pc = "beat" /\ d \in todo /\ todo' = todo \ {d}
  /\ UNCHANGED <<table, map_fd_chanNo, sockets, accepting, epoll, channels, pc, local, conns>>

\* Too many heartbeats went unanswered.
Timeout(d) ==
  /\ pc = "beat" /\ d \in todo /\ state[d] = "Connected" /\ first[d] /\ ~Answered(d)
  /\ dev' = d /\ pc' = "get_connfd"
  /\ UNCHANGED <<table, map_fd_chanNo, sockets, accepting, epoll, channels, todo, fd, st, conns>>
GetConnfd ==
  /\ pc = "get_connfd" /\ pc' = "disconnect" /\ fd' = ch_fd[dev]
  /\ UNCHANGED <<table, map_fd_chanNo, sockets, accepting, epoll, channels, todo, dev, st, conns>>
\* delete_fd_from_map of the table's descriptor, disconnect of the first channel's.
Disconnect ==
  /\ pc = "disconnect" /\ pc' = "set_beat"
  /\ map_fd_chanNo' = [map_fd_chanNo EXCEPT ![fd] = NoDev]
  /\ Close(chan_fd[dev])
  /\ first' = [first EXCEPT ![dev] = FALSE]
  /\ UNCHANGED <<table, accepting, chan_fd, others, todo, local, conns>>
\* Mutant: the table is not told.
SetBeatNot ==
  /\ pc = "set_beat" /\ NextDevice("beat") /\ Forget
  /\ UNCHANGED <<table, map_fd_chanNo, sockets, accepting, epoll, channels, conns>>
SetBeat ==
  /\ pc = "set_beat" /\ NextDevice("beat") /\ Forget
  /\ state' = [state EXCEPT ![dev] = "DisConnect"]
  /\ UNCHANGED <<ch_fd, map_fd_chanNo, sockets, accepting, epoll, channels, conns>>

-----------------------------------------------------------------------------
(* work_logic_recv, for each descriptor with an event                       *)

\* recv returns 0; whose descriptor it is was looked up before.
Recv(f) ==
  /\ pc = "recv" /\ f \in epoll \cap eof
  /\ fd' = f /\ dev' = map_fd_chanNo[f] /\ pc' = "close"
  /\ UNCHANGED <<table, map_fd_chanNo, sockets, accepting, epoll, channels, todo, st, conns>>
CloseFd ==
  /\ pc = "close"
  /\ map_fd_chanNo' = [map_fd_chanNo EXCEPT ![fd] = NoDev]
  /\ Close(fd)
  /\ IF dev = NoDev THEN pc' = "recv" /\ Forget ELSE pc' = "set_recv" /\ UNCHANGED local
  /\ UNCHANGED <<table, accepting, channels, todo, conns>>
SetRecv ==
  /\ pc = "set_recv" /\ pc' = "recv" /\ Forget
  /\ state' = [state EXCEPT ![dev] = "DisConnect"]
  /\ UNCHANGED <<ch_fd, map_fd_chanNo, sockets, accepting, epoll, channels, todo, conns>>

\* EPOLLHUP or EPOLLERR without EPOLLIN: closed, and the table is not told.
RecvErr(f) ==
  /\ HupAlone /\ pc = "recv" /\ f \in epoll \cap eof
  /\ map_fd_chanNo' = [map_fd_chanNo EXCEPT ![f] = NoDev]
  /\ Close(f)
  /\ UNCHANGED <<table, accepting, channels, pc, todo, local, conns>>

NextPart ==
  /\ \/ pc = "update" /\ todo = {} /\ pc' = "beat" /\ todo' = Devices
     \/ pc = "beat" /\ todo = {} /\ pc' = "recv" /\ UNCHANGED todo
     \/ pc = "recv" /\ pc' = "update" /\ todo' = Devices
  /\ UNCHANGED <<table, map_fd_chanNo, sockets, accepting, epoll, channels, local, conns>>

-----------------------------------------------------------------------------
CellStep ==
  \/ \E d \in Devices : GetFd(d) \/ BeatOk(d) \/ Timeout(d)
  \/ GetState \/ SetState \/ GetConnfd \/ Disconnect \/ SetBeat
  \/ \E f \in Fds : Recv(f) \/ RecvErr(f)
  \/ CloseFd \/ SetRecv \/ NextPart
Next ==
  \/ \E d \in Devices, f \in Fds : Accept(d, f) \/ AcceptMap(d, f)
  \/ \E d \in Devices : GiveUp(d)
  \/ \E f \in Fds : Eof(f)
  \/ CellStep

Spec == Init /\ [][Next]_vars

\* The cell thread never stops, and heartbeats that stay unanswered time out.
FairSpec == Spec /\ WF_vars(CellStep) /\ \A d \in Devices : SF_vars(Timeout(d))

-----------------------------------------------------------------------------
(* Properties.                                                              *)

\* Whatever the two threads write over each other, a connection the table calls
\* Connected is one the channels use, from the first to the last: hearbeat_detect, which
\* looks at the table only, watches every connection a channel sends on.
ConnectedUsed ==
  \A d \in Devices : /\ state[d] = "Connected" => others[d]
                     /\ state[d] = "Connected" /\ ~first[d] => pc = "set_beat" /\ dev = d
                     /\ others[d] => state[d] # "NoConnect"

\* A connection that no longer works is noticed by the cell, even if the descriptor was
\* closed without telling the table, was given to another module, or the table was
\* overwritten by the accept thread: the channels do not go on sending into it for ever.
StaleEnds == \A d \in Devices :
  (others[d] /\ ~Answered(d)) ~> (~others[d] \/ Answered(d))
=============================================================================
