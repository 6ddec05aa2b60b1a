---------------------------- MODULE ChannelLink ----------------------------
(***************************************************************************)
(* How the commands of the channels of one power module reach it: the      *)
(* command queue, the feature codes that match an answer to its command,   *)
(* the resend list, and the heartbeat that gates it (ChannelServer,        *)
(* ChannelState, Cell::hearbeat_detect, Cell::command_resend_tast).        *)
(*                                                                         *)
(* The module's channels share one connection; heartbeats go out and are   *)
(* answered on the first channel only.  One pass of the cell loop is       *)
(* link (channel_state_update), beat (hearbeat_detect), msg (commands are  *)
(* pushed), send (execute), reply (handle_reply, then check_ack_response)  *)
(* and resend (command_resend_tast); `pc' names what comes next.           *)
(*                                                                         *)
(* The power module (external) answers the frames of a channel in order    *)
(* and is never more than MaxLag heartbeats behind, until it goes silent;  *)
(* it then connects again.  An entry of the resend list carries its age in *)
(* heartbeat periods: 1100 ms each, so that at age 2 the 1000 ms of        *)
(* check_ack_response are over, and before that they may be.               *)
(***************************************************************************)
EXTENDS Integers, Sequences, SequencesExt, FiniteSets

CONSTANTS
  Chans,       \* the channels of the module (MODULE_CH_NUM of them)
  First,       \* the first of them, which carries the heartbeat
  BeatMax,     \* HEARTBEAT_TIMEOUT_MAX (5 in the code)
  FeatMod,     \* number of feature codes (256 in the code: cellfeat is a uint8)
  MaxLag,      \* heartbeats a live module may leave unanswered
  CmdKinds,    \* bound: the commands the cell gives
  MaxCmds,     \* bound: commands pushed
  MaxStops,    \* bound: calls of stop_process
  MaxSilent    \* bound: times the module goes silent

AllKinds == {"EXEC_PROCESS", "EXEC_STOP", "CLEAR_WARNING"}
ASSUME LinkAssumption ==
  /\ IsFiniteSet(Chans) /\ First \in Chans
  /\ BeatMax \in Nat /\ FeatMod \in Nat \ {0} /\ MaxLag \in Nat
  /\ CmdKinds \subseteq AllKinds
  /\ MaxCmds \in Nat /\ MaxStops \in Nat /\ MaxSilent \in Nat

VARIABLES
  pc,
  state,            \* client_info_table: the state of the connection
  m_is_connected,   \* per channel
  m_cmd_queue,      \* per channel: commands waiting for execute
  reSendList,       \* per channel: commands sent and not known to be answered
  m_ack_info,       \* per channel: answers received, as (feature code, function)
  cellfeat,         \* the last feature code used
  m_heartbeat_cnt,  \* heartbeats sent since the last answer
  m_heartbeat_tick, \* per channel: answers to wait for before resending
  wire,             \* per channel: answers under way
  silent,           \* the module neither hears nor answers
  answered,         \* pushed commands whose own answer the cell received
  cmds, stops, silences

conn == <<state, m_is_connected>>
lists == <<m_cmd_queue, reSendList, m_ack_info>>
beat == <<m_heartbeat_cnt, m_heartbeat_tick>>
count == <<cmds, stops, silences>>
vars == <<pc, conn, lists, cellfeat, beat, wire, silent, answered, count>>

CheckTick == BeatMax + 2
\* Function code of a command: CMD_RUN_CONTROL or CMD_SYSTEM_SET.
Func(kind) == IF kind \in {"CLEAR_WARNING", "BEAT"} THEN "SYSTEM_SET" ELSE "RUN_CONTROL"
Feat == 0..(FeatMod - 1)
Command == [kind : AllKinds, id : 1..MaxCmds]
Entry == [kind : AllKinds, id : 1..MaxCmds, feat : Feat, age : 0..2]
Answer == [kind : AllKinds \cup {"BEAT"}, id : 0..MaxCmds, feat : Feat]
Ack == [feat : Feat, func : {"SYSTEM_SET", "RUN_CONTROL"}]

TypeOK ==
  /\ pc \in {"link", "beat", "msg", "send", "reply", "resend"}
  /\ state \in {"NoConnect", "NewConnect", "Connected", "DisConnect"}
  /\ m_is_connected \in [Chans -> BOOLEAN] /\ silent \in BOOLEAN
  /\ m_cmd_queue \in [Chans -> Seq(Command)]
  /\ reSendList \in [Chans -> Seq(Entry)]
  /\ m_ack_info \in [Chans -> SUBSET Ack]
  /\ cellfeat \in Feat
  /\ m_heartbeat_cnt \in 0..(BeatMax + 1)
  /\ m_heartbeat_tick \in [Chans -> 0..CheckTick]
  /\ wire \in [Chans -> Seq(Answer)]
  /\ answered \subseteq 1..MaxCmds
  /\ cmds \in 0..MaxCmds /\ stops \in 0..MaxStops /\ silences \in 0..MaxSilent

Init ==
  /\ pc = "link" /\ state = "NoConnect" /\ silent = FALSE
  /\ m_is_connected = [c \in Chans |-> FALSE]
  /\ m_cmd_queue = [c \in Chans |-> <<>>] /\ reSendList = [c \in Chans |-> <<>>]
  /\ m_ack_info = [c \in Chans |-> {}] /\ cellfeat = 0
  /\ m_heartbeat_cnt = 0 /\ m_heartbeat_tick = [c \in Chans |-> 0]
  /\ wire = [c \in Chans |-> <<>>]
  /\ answered = {} /\ cmds = 0 /\ stops = 0 /\ silences = 0

-----------------------------------------------------------------------------
(* Sending a frame on the connection.                                       *)

\* A frame reaches the module on the connection it has open now: not the one
\* channel_state_update has still to take over, nor one that is closed.
Heard == state = "Connected" /\ ~silent
NextFeat(feat, n) == (feat + n) % FeatMod

\* The channels of S send one command each, numbered in some order.
Numberings(S) == {f \in [S -> 1..Cardinality(S)] : \A a, b \in S : f[a] = f[b] => a = b}
Reply(cmd, feat) == [kind |-> cmd.kind, id |-> cmd.id, feat |-> feat]
Transmit(S, cmd, num) ==
  LET hears(c) == c \in S /\ Heard IN
  /\ cellfeat' = NextFeat(cellfeat, Cardinality(S))
  /\ wire' = [c \in Chans |-> IF hears(c)
       THEN Append(wire[c], Reply(cmd[c], NextFeat(cellfeat, num[c]))) ELSE wire[c]]
\* Channel c sends a frame that is not in the resend list.
Single(c, kind) ==
  Transmit({c}, [d \in {c} |-> [kind |-> kind, id |-> 0]], [d \in {c} |-> 1])

Lost == [c \in Chans |-> <<>>]
Aged(list) == [i \in DOMAIN list |-> [list[i] EXCEPT !.age = IF @ < 2 THEN @ + 1 ELSE 2]]

-----------------------------------------------------------------------------
(* The power module.                                                        *)

\* It goes silent; answers under way may be lost.
Silence ==
  /\ ~silent /\ state = "Connected" /\ silences < MaxSilent
  /\ silent' = TRUE /\ silences' = silences + 1
  /\ wire' \in {wire, Lost}
  /\ UNCHANGED <<pc, conn, lists, cellfeat, beat, answered, cmds, stops>>

\* It connects again when it was silent, or the cell has closed the connection
\* (accept_monitor).
Connect ==
  /\ state # "NewConnect" /\ (silent \/ state # "Connected")
  /\ state' = "NewConnect" /\ silent' = FALSE
  /\ UNCHANGED <<pc, m_is_connected, lists, cellfeat, beat, wire, answered, count>>

-----------------------------------------------------------------------------
(* link and beat                                                            *)

\* set_fd resets the heartbeat count.
\* Mutant: only the descriptor is set.
SetFdOnly == UNCHANGED m_heartbeat_cnt
SetFd == m_heartbeat_cnt' = 0

\* channel_state_update
LinkUpdate ==
  /\ pc = "link" /\ pc' = "beat"
  /\ CASE state = "NewConnect" ->
            /\ state' = "Connected" /\ m_is_connected' = [c \in Chans |-> TRUE]
            /\ SetFd
       [] state = "DisConnect" ->
            /\ state' = "NoConnect" /\ m_is_connected' = [c \in Chans |-> FALSE]
            /\ SetFd
       [] OTHER -> UNCHANGED <<conn, m_heartbeat_cnt>>
  /\ UNCHANGED <<lists, cellfeat, m_heartbeat_tick, wire, silent, answered, count>>

\* hearbeat_detect with check_beating, when 1100 ms have passed.
Lagging == Cardinality({i \in DOMAIN wire[First] : wire[First][i].kind = "BEAT"}) >= MaxLag
Timeout == m_heartbeat_cnt > BeatMax
\* Mutant: the heartbeat is sent and not counted, as in pass-through mode.
Uncounted == m_heartbeat_cnt
Counted == m_heartbeat_cnt + 1
Beat ==
  /\ pc = "beat" /\ pc' = "msg" /\ state = "Connected" /\ m_is_connected[First]
  /\ IF Timeout
     THEN /\ m_heartbeat_cnt' = 0 /\ wire' = Lost
          /\ m_is_connected' = [m_is_connected EXCEPT ![First] = FALSE]
          /\ state' = "DisConnect"
          /\ UNCHANGED cellfeat
     ELSE /\ silent \/ ~Lagging
          /\ m_heartbeat_cnt' = Counted
          /\ Single(First, "BEAT")
          /\ UNCHANGED conn
  /\ reSendList' = [c \in Chans |-> Aged(reSendList[c])]
  /\ UNCHANGED <<m_cmd_queue, m_ack_info, m_heartbeat_tick, silent, answered, count>>

NotDue ==
  /\ pc = "beat" /\ pc' = "msg"
  /\ UNCHANGED <<conn, lists, cellfeat, beat, wire, silent, answered, count>>

-----------------------------------------------------------------------------
(* msg and send                                                             *)

\* push_command
PushCommand(c, kind) ==
  /\ pc = "msg" /\ cmds < MaxCmds /\ cmds' = cmds + 1
  /\ m_cmd_queue' = [m_cmd_queue EXCEPT ![c] = Append(@, [kind |-> kind, id |-> cmds'])]
  /\ UNCHANGED <<pc, conn, reSendList, m_ack_info, cellfeat, beat, wire, silent,
                 answered, stops, silences>>

\* stop_process: sent at once, ahead of the queue, and not entered in the resend list.
StopProcess(c) ==
  /\ pc \in {"msg", "reply"} /\ m_is_connected[c] /\ stops < MaxStops
  /\ stops' = stops + 1
  /\ Single(c, "EXEC_STOP")
  /\ UNCHANGED <<pc, conn, lists, beat, silent, answered, cmds, silences>>

Drained ==
  /\ pc = "msg" /\ pc' = "send"
  /\ UNCHANGED <<conn, lists, cellfeat, beat, wire, silent, answered, count>>

\* execute on every channel, with add_resend_list.
Sent(entry, feat) == [kind |-> entry.kind, id |-> entry.id, feat |-> feat, age |-> 0]
Execute ==
  LET S == {c \in Chans : m_is_connected[c] /\ m_cmd_queue[c] # <<>>}
      cmd == [c \in S |-> Head(m_cmd_queue[c])]
  IN
  /\ pc = "send" /\ pc' = "reply"
  /\ \E num \in Numberings(S) :
       /\ Transmit(S, cmd, num)
       /\ reSendList' = [c \in Chans |-> IF c \in S
            THEN Append(reSendList[c], Sent(cmd[c], NextFeat(cellfeat, num[c])))
            ELSE reSendList[c]]
  /\ m_cmd_queue' = [c \in Chans |-> IF c \in S THEN Tail(m_cmd_queue[c]) ELSE m_cmd_queue[c]]
  /\ m_heartbeat_tick' = [c \in Chans |-> IF c \in S THEN CheckTick ELSE m_heartbeat_tick[c]]
  /\ UNCHANGED <<conn, m_ack_info, m_heartbeat_cnt, silent, answered, count>>

-----------------------------------------------------------------------------
(* reply and resend                                                         *)

\* reset_heartbeat_checktick
\* Mutant: it counts on below zero.
NearerRaw(tick) == tick - 1
Nearer(tick) == IF tick > 0 THEN tick - 1 ELSE 0

\* handle_reply takes one answer in; one to a heartbeat resets the count and brings
\* the resend gate one step nearer.
HandleReply(c) ==
  LET a == Head(wire[c]) IN
  /\ pc = "reply" /\ m_is_connected[c] /\ wire[c] # <<>>
  /\ wire' = [wire EXCEPT ![c] = Tail(@)]
  /\ m_ack_info' = [m_ack_info EXCEPT ![c] = @ \cup {[feat |-> a.feat, func |-> Func(a.kind)]}]
  /\ answered' = answered \cup ({a.id} \ {0})
  /\ IF a.kind = "BEAT"
     THEN /\ m_heartbeat_cnt' = 0
          /\ m_heartbeat_tick' = [m_heartbeat_tick EXCEPT ![c] = Nearer(@)]
     ELSE UNCHANGED beat
  /\ UNCHANGED <<pc, conn, m_cmd_queue, reSendList, cellfeat, silent, count>>

\* The module has closed the connection it was silent on: recv returns 0.
Closed ==
  /\ pc = "reply" /\ silent /\ state = "Connected"
  /\ state' = "DisConnect" /\ wire' = Lost
  /\ UNCHANGED <<pc, m_is_connected, lists, cellfeat, beat, silent, answered, count>>

\* check_ack_response on every channel.  Late entries come first; the answers are
\* forgotten when the last entry of the list is late.
\* Mutant: any answer will do.
AckedAny(c, e) == m_ack_info[c] # {}
Acked(c, e) == [feat |-> e.feat, func |-> Func(e.kind)] \in m_ack_info[c]
LateCounts(list) == {n \in 0..Len(list) : \A i \in DOMAIN list : list[i].age = 2 => i <= n}
StillOpen(c) ==
  LET open[i \in 0..Len(reSendList[c])] ==
        IF i = 0 THEN <<>>
        ELSE IF Acked(c, reSendList[c][i]) THEN open[i - 1]
        ELSE Append(open[i - 1], [reSendList[c][i] EXCEPT !.age = 2])
  IN  open
Unanswered(c, n) == StillOpen(c)[n] \o SubSeq(reSendList[c], n + 1, Len(reSendList[c]))
CheckAcks ==
  /\ pc = "reply" /\ pc' = "resend"
  /\ \E n \in [Chans -> 0..MaxCmds] :
       /\ \A c \in Chans : n[c] \in LateCounts(reSendList[c])
       /\ reSendList' = [c \in Chans |-> Unanswered(c, n[c])]
       /\ m_ack_info' = [c \in Chans |->
            IF reSendList[c] # <<>> /\ n[c] = Len(reSendList[c]) THEN {} ELSE m_ack_info[c]]
  /\ UNCHANGED <<conn, m_cmd_queue, cellfeat, beat, wire, silent, answered, count>>

\* command_resend_tast with resend_task_execute: one entry per channel, sent once more
\* and forgotten.
\* Mutant: resend without waiting for the heartbeats.
NoGate == TRUE
GateOpen == m_heartbeat_tick[First] = 0
Resent == IF GateOpen THEN {c \in Chans : m_is_connected[c] /\ reSendList[c] # <<>>} ELSE {}
ResendTask ==
  /\ pc = "resend" /\ pc' = "link"
  /\ \E num \in Numberings(Resent) :
       Transmit(Resent, [c \in Resent |-> Head(reSendList[c])], num)
  /\ reSendList' = [c \in Chans |-> IF c \in Resent THEN Tail(reSendList[c]) ELSE reSendList[c]]
  /\ UNCHANGED <<conn, m_cmd_queue, m_ack_info, beat, silent, answered, count>>

-----------------------------------------------------------------------------
Loop == LinkUpdate \/ NotDue \/ Drained \/ Execute \/ CheckAcks \/ ResendTask
Next ==
  \/ Silence \/ Connect \/ Beat \/ Closed \/ Loop
  \/ \E c \in Chans : StopProcess(c) \/ HandleReply(c) \/ \E kind \in CmdKinds : PushCommand(c, kind)

Spec == Init /\ [][Next]_vars

\* The cell loop never stops, heartbeats come due, a live module answers.
FairSpec ==
  /\ Spec /\ WF_vars(Loop) /\ SF_vars(Beat)
  /\ \A c \in Chans : SF_vars(HandleReply(c))

-----------------------------------------------------------------------------
(* Properties.                                                              *)

\* A module that answers in time is never taken for dead: hearbeat_detect closes the
\* connection only of a module that has gone silent, whatever was lost before it
\* connected again.
AliveKept == [][Timeout /\ pc = "beat" /\ state' = "DisConnect" => silent]_vars

\* A command whose answer has come in is not sent again: check_ack_response has taken it
\* out of the resend list before the heartbeat gate lets it through.
NoDouble == [][\A c \in Chans : pc = "resend" /\ reSendList'[c] # reSendList[c]
                 => Head(reSendList[c]).id \notin answered]_vars

\* Every command the cell pushes reaches the module and is answered, though the module
\* goes silent once: what is sent into the silence is sent again after it.  This needs
\* a module that connects again when it has lost its connection, and no stop: a stop
\* overtakes the queue, is never sent again, and its answer may be taken for another's.
Waiting(c, id) == \E i \in DOMAIN m_cmd_queue[c] : m_cmd_queue[c][i].id = id
Delivered ==
  WF_vars(Connect) =>
    \A c \in Chans, id \in 1..MaxCmds : Waiting(c, id) ~> id \in answered \/ stops > 0

\* A module that has gone silent is noticed, whether or not it closes the connection or
\* opens a new one: the cell does not go on for ever with a dead connection.
SilenceNoticed == silent ~> ~silent \/ state # "Connected"
=============================================================================
