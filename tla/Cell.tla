-------------------------------- MODULE Cell --------------------------------
(***************************************************************************)
(* One library position ("cell", 库位) of the grading build: the thread     *)
(* Cell::work and everything it decides.                                   *)
(*                                                                         *)
(* The thread repeats one loop every 10 ms; `pc' names the part of the     *)
(* loop that runs next, in the order of the code:                          *)
(*   msg     channel_state_update and hearbeat_detect (links), then        *)
(*           message_handle for every message waiting on the two ZMQ       *)
(*           subscriptions (host and pin bed)                              *)
(*   exec    work_logic_execute: the switch over m_state, then             *)
(*           ChannelServer::execute, at most one queued command a channel  *)
(*   handle  work_logic_recv, work_logic_handle, charge_discharge_check    *)
(*   tick    the once-a-second part: fire protection                       *)
(* Messages, records and link changes come from other threads and          *)
(* machines, so they are inputs chosen with \E.                            *)
(*                                                                         *)
(* Abstractions: a recipe is reduced to what the cell branches on (is the  *)
(* requested step there, is there a further step, is a loop exhausted);    *)
(* a workstep or protection command on its way to a module is "CFG"; wall  *)
(* clock tests are a Boolean input.  Loop counters, record storage, the    *)
(* acknowledgement and resend list and the alarm rules are other modules'. *)
(***************************************************************************)
EXTENDS Integers, Sequences, FiniteSets

CONSTANTS
  Chans,          \* the channels of the cell (MAX_CHANNELS_NBR of them)
  PlcEnable,      \* Configuration::is_plc_enable
  DoorLimit,      \* seconds firedoor_close_exec waits (25 in the code)
  PressLimit,     \* seconds tray_press_exec waits (30 in the code)
  PressResend,    \* second at which it repeats CELL_TRAY_UP (15 in the code)
  StepMissing,    \* may a start, jump or next step be one the recipe lacks?
  PinsInputs,     \* pin bed states the environment reports
  FireLevels,     \* fire levels the detectors may show
  Kinds,          \* kinds of module records that occur (see handle)
  Faults,         \* kinds of faults that occur (see handle, PinsAlarm, LinkDown)
  MaxHost,        \* bound: host commands of each kind
  MaxFaults,      \* bound: faults, of all kinds together
  MaxCrash        \* bound: restarts of the program

AllHostCmds == {"EXEC_PROCESS", "EXEC_PAUSE", "EXEC_RESUME", "EXEC_STOP",
                "EXEC_JUMP", "SET_STEP", "CLEAR_WARNING", "BARCODE"}
AllKinds == {"idle", "run", "next", "wait", "fin", "pause"}
AllFaults == {"mid", "low", "rep", "clear", "pins", "link"}
FIRE_PROTECT_LEVEL1 == 11
FIRE_PROTECT_LEVEL2 == 12
FIRE_PROTECT_LEVEL3 == 13

ASSUME CellAssumption ==
  /\ IsFiniteSet(Chans) /\ Chans # {}
  /\ PlcEnable \in BOOLEAN
  /\ DoorLimit \in Nat /\ PressLimit \in Nat /\ PressResend \in Nat
  /\ PressLimit > 0
  /\ StepMissing \in BOOLEAN
  /\ PinsInputs \subseteq [fire_door_open : BOOLEAN, pressed : BOOLEAN]
  /\ FireLevels \subseteq {0, 11, 12, 13} /\ 0 \in FireLevels
  /\ Kinds \subseteq AllKinds /\ Faults \subseteq AllFaults
  /\ MaxHost \in [AllHostCmds -> Nat] /\ MaxFaults \in Nat /\ MaxCrash \in Nat

\* Process_work_state_e; 0 is the value before any process ran.
S_NONE          == 0
S_PROCESS_START == 1
S_FIREDOOR_CLOSE == 3
S_TRAY_PRESS    == 4
S_START_STEP    == 7
S_STEP_EXEC     == 9
S_PROCESS_END   == 10
S_PROCESS_ERROR == 13
S_PROCESS_IDLE  == 14
States == {0, 1, 3, 4, 7, 9, 10, 13, 14}

VARIABLES
  pc,             \* part of the loop that runs next
  m_state,        \* process state
  m_last_state,   \* state whose entry action has run
  m_sync_timeout, \* seconds waited for the pin bed
  start_mask, jump_mask, end_mask, error_mask,  \* channel masks, as sets
  runStatus,      \* per channel: Active, Finish, JumpTo (-1, 0, or 1 for a step)
  stepcache_empty,\* the module reported that it has no further step
  alarm,          \* global_alarm_mask or step_alarm_mask is not 0
  m_pause_cmd_flg,\* the host paused this channel
  run_state,      \* run_state of the last record: running, pause or another
  m_cmd_queue,    \* commands waiting to be sent
  m_is_connected,
  module,         \* the power module itself: off, run, pause, stopping
  cache,          \* the step the module holds ready: none, step, end
  saveStatus,     \* Active and JumpTo as stored in SaveStatusCell.xml
  pins_cell_status, \* last pin bed status received
  pins_cmd,       \* the command the last step sent to the pin bed, if any
  last_fire_level,
  hosts, faults, crashes  \* how many inputs of each bounded kind were used

masks == <<start_mask, jump_mask, end_mask, error_mask>>
press == <<m_last_state, m_sync_timeout>>
chan  == <<stepcache_empty, alarm, m_pause_cmd_flg, run_state>>
wire  == <<m_cmd_queue, m_is_connected, module, cache>>
used  == <<hosts, faults, crashes>>
vars == <<pc, m_state, press, masks, runStatus, chan, wire, saveStatus,
          pins_cell_status, pins_cmd, last_fire_level, used>>

\* pressed: tray_in_place and pins_extend
PinsStatus == [fire_door_open : BOOLEAN, pressed : BOOLEAN]
RunStatus == [Active : {0, 1}, Finish : {0, 1}, JumpTo : {-1, 0, 1}]
ZeroRun == [Active |-> 0, Finish |-> 0, JumpTo |-> 0]
SaveStatus == [Active : {0, 1}, JumpTo : {-1, 0, 1}]
PinsCommand == {"none", "CELL_SET_AUTO_MODE", "CELL_FIRE_DOOR_UP", "CELL_TRAY_UP",
                "PINS_ALARM_SYNC", "FIRE_EMERGENCY_BRAKE"}
Command == {"CFG", "STEP", "END", "EXEC_PROCESS", "EXEC_JUMP", "EXEC_STOP", "EXEC_PAUSE",
            "EXEC_RESUME"}
RunState == {"running", "pause", "other"}

TypeOK ==
  /\ pc \in {"msg", "exec", "handle", "tick"}
  /\ m_state \in States /\ m_last_state \in States
  /\ m_sync_timeout \in Nat
  /\ start_mask \subseteq Chans /\ jump_mask \subseteq Chans
  /\ end_mask \subseteq Chans /\ error_mask \subseteq Chans
  /\ runStatus \in [Chans -> RunStatus]
  /\ stepcache_empty \in [Chans -> BOOLEAN]
  /\ alarm \in [Chans -> BOOLEAN]
  /\ m_pause_cmd_flg \in [Chans -> BOOLEAN]
  /\ run_state \in [Chans -> RunState]
  /\ m_cmd_queue \in [Chans -> Seq(Command)]
  /\ m_is_connected \in [Chans -> BOOLEAN]
  /\ module \in [Chans -> {"off", "run", "pause", "stopping"}]
  /\ cache \in [Chans -> {"none", "step", "end"}]
  /\ saveStatus \in [Chans -> SaveStatus]
  /\ pins_cell_status \in PinsStatus /\ pins_cmd \in PinsCommand
  /\ last_fire_level \in {0, 11, 12, 13}
  /\ hosts \in [AllHostCmds -> Nat] /\ faults \in Nat /\ crashes \in Nat

Init ==
  /\ pc = "msg"
  /\ m_state = S_NONE /\ m_last_state = S_NONE /\ m_sync_timeout = 0
  /\ start_mask = {} /\ jump_mask = {} /\ end_mask = {} /\ error_mask = {}
  /\ runStatus = [c \in Chans |-> ZeroRun]
  /\ stepcache_empty = [c \in Chans |-> FALSE]
  /\ alarm = [c \in Chans |-> FALSE]
  /\ m_pause_cmd_flg = [c \in Chans |-> FALSE]
  /\ run_state = [c \in Chans |-> "other"]
  /\ m_cmd_queue = [c \in Chans |-> <<>>]
  /\ m_is_connected = [c \in Chans |-> FALSE]
  /\ module = [c \in Chans |-> "off"] /\ cache = [c \in Chans |-> "none"]
  /\ saveStatus = [c \in Chans |-> [Active |-> 0, JumpTo |-> 0]]
  /\ pins_cell_status = [fire_door_open |-> FALSE, pressed |-> FALSE]
  /\ pins_cmd = "none"
  /\ last_fire_level = 0
  /\ hosts = [cmd \in AllHostCmds |-> 0] /\ faults = 0 /\ crashes = 0

-----------------------------------------------------------------------------
(* Helpers *)

\* push_command: the command waits for its turn in execute.
PushedIfEmpty(S, cmds) ==   \* mutant: a second waiting command is dropped
  [c \in Chans |-> IF c \in S /\ m_cmd_queue[c] = <<>> THEN cmds ELSE m_cmd_queue[c]]
Pushed(S, cmds) ==
  [c \in Chans |-> IF c \in S THEN m_cmd_queue[c] \o cmds ELSE m_cmd_queue[c]]

\* stop_process: sent at once, past the command queue, and only if the link is up.
Stoppable(S) == {c \in S : m_is_connected[c]}
Stopped(S) == [c \in Chans |-> IF c \in Stoppable(S) /\ module[c] # "off"
                               THEN "stopping" ELSE module[c]]
StopPauseFlags(S) ==
  m_pause_cmd_flg' = [c \in Chans |-> m_pause_cmd_flg[c] /\ c \notin Stoppable(S)]

\* channel_saveStatus_active
SavedOff(S, en) ==   \* mutant: only the end of a process is stored
  [c \in Chans |-> IF c \in S /\ en = 0 THEN [saveStatus[c] EXCEPT !.Active = 0]
                   ELSE saveStatus[c]]
SavedActive(S, en) ==
  [c \in Chans |-> IF c \in S THEN [saveStatus[c] EXCEPT !.Active = en]
                   ELSE saveStatus[c]]

\* The channels of S take no part in the process any more.
LeaveStart(S) == start_mask' = start_mask \ S /\ UNCHANGED end_mask  \* mutant
Leave(S) == start_mask' = start_mask \ S /\ end_mask' = end_mask \ S

InProcess(s) == s > 0 /\ s < S_PROCESS_ERROR

-----------------------------------------------------------------------------
(* msg: message_handle.  Host commands first; S is the set of selected     *)
(* channels (sel_chans).                                                   *)

HostInput(cmd) ==
  /\ pc = "msg" /\ hosts[cmd] < MaxHost[cmd]
  /\ hosts' = [hosts EXCEPT ![cmd] = hosts[cmd] + 1]
  /\ UNCHANGED <<pc, press, pins_cell_status, pins_cmd, last_fire_level, faults, crashes>>

\* EXEC_PROCESS: channels without a pending alarm join the start mask.
HostExecProcess(S) ==
  LET go == {c \in S : ~alarm[c]} IN
  /\ HostInput("EXEC_PROCESS")
  /\ jump_mask' = {}
  /\ start_mask' = start_mask \union go
  /\ error_mask' = error_mask \ go
  /\ stepcache_empty' = [c \in Chans |-> stepcache_empty[c] /\ c \notin go]
  /\ m_state' = IF start_mask' = {} THEN m_state
                ELSE IF InProcess(m_state) THEN S_TRAY_PRESS
                ELSE S_PROCESS_START
  /\ UNCHANGED <<end_mask, runStatus, alarm, m_pause_cmd_flg, run_state, wire,
                 saveStatus>>

HostExecPause(S) ==
  /\ HostInput("EXEC_PAUSE")
  /\ jump_mask' = {}
  /\ m_pause_cmd_flg' = [c \in Chans |-> m_pause_cmd_flg[c] \/ c \in S]
  /\ m_cmd_queue' = Pushed(S, <<"EXEC_PAUSE">>)
  /\ UNCHANGED <<m_state, start_mask, end_mask, error_mask, runStatus,
                 stepcache_empty, alarm, run_state, m_is_connected, module, cache,
                 saveStatus>>

\* EXEC_RESUME: a paused channel rejoins the start mask; the cell goes straight
\* to step execution whatever it was doing.
HostExecResume(S) ==
  LET back == {c \in S : run_state[c] = "pause"} IN
  /\ HostInput("EXEC_RESUME")
  /\ jump_mask' = {}
  /\ runStatus' = [c \in Chans |-> IF c \in back
                     THEN [runStatus[c] EXCEPT !.Active = 1] ELSE runStatus[c]]
  /\ start_mask' = start_mask \union back
  /\ error_mask' = error_mask \ back
  /\ m_pause_cmd_flg' = [c \in Chans |-> m_pause_cmd_flg[c] /\ c \notin back]
  /\ m_cmd_queue' = [c \in Chans |->
       IF c \in back THEN m_cmd_queue[c] \o <<"CFG", "EXEC_RESUME">>
       ELSE Pushed(S, <<"EXEC_RESUME">>)[c]]
  /\ m_state' = IF start_mask' = {} THEN m_state ELSE S_STEP_EXEC
  /\ UNCHANGED <<end_mask, stepcache_empty, alarm, run_state,
                 m_is_connected, module, cache, saveStatus>>

\* EXEC_STOP: the cell is idle once its last channel is stopped.
AfterAnyStop(left) == S_PROCESS_IDLE   \* mutant
AfterStop(left) == IF left = {} THEN S_PROCESS_IDLE ELSE m_state
HostExecStop(S) ==
  /\ HostInput("EXEC_STOP")
  /\ jump_mask' = {}
  /\ Leave(S)
  /\ error_mask' = error_mask \ S
  /\ runStatus' = [c \in Chans |-> IF c \in S
                     THEN [runStatus[c] EXCEPT !.Active = 0, !.Finish = 0]
                     ELSE runStatus[c]]
  /\ m_pause_cmd_flg' = [c \in Chans |-> m_pause_cmd_flg[c] /\ c \notin S]
  /\ saveStatus' = SavedActive(S, 0)
  /\ m_cmd_queue' = Pushed(S, <<"EXEC_STOP">>)
  /\ m_state' = AfterStop(start_mask')
  /\ UNCHANGED <<stepcache_empty, alarm, run_state, m_is_connected,
                 module, cache>>

\* EXEC_JUMP: nothing is sent; channel_step_startup will start the new step.
HostExecJump(S) ==
  LET go == {c \in S : ~alarm[c]} IN
  /\ HostInput("EXEC_JUMP")
  /\ jump_mask' = go
  /\ m_state' = IF go = {} THEN m_state ELSE S_START_STEP
  /\ UNCHANGED <<start_mask, end_mask, error_mask, runStatus, stepcache_empty,
                 alarm, m_pause_cmd_flg, run_state, wire, saveStatus>>

\* CMD_SET_STEP: a new recipe; the run status is wiped, the saved one is not.
HostSetStep(S) ==
  /\ HostInput("SET_STEP")
  /\ runStatus' = [c \in Chans |-> IF c \in S THEN ZeroRun ELSE runStatus[c]]
  /\ UNCHANGED <<m_state, masks, chan, wire, saveStatus>>

\* CMD_SYSTEM_SET with SUB_CMD_CLEAR_WARNING
HostClearWarning(S) ==
  /\ HostInput("CLEAR_WARNING")
  /\ alarm' = [c \in Chans |-> alarm[c] /\ c \notin S]
  /\ m_cmd_queue' = Pushed(S, <<"CFG">>)
  /\ UNCHANGED <<m_state, masks, runStatus, stepcache_empty,
                 m_pause_cmd_flg, run_state, m_is_connected, module, cache, saveStatus>>

\* CMD_SET_BATTERY_BARCODE: a channel given a new battery is stopped first.
HostBarcode(S) ==
  /\ HostInput("BARCODE")
  /\ module' = Stopped(S) /\ StopPauseFlags(S)
  /\ UNCHANGED <<m_state, masks, runStatus, stepcache_empty, alarm,
                 run_state, m_cmd_queue, m_is_connected, cache, saveStatus>>

\* SYS_PINS_STATUS_SYNC
PinsStatusSync(p) ==
  /\ pc = "msg"
  /\ pins_cell_status' = p
  /\ UNCHANGED <<pc, m_state, press, masks, runStatus, chan, wire, saveStatus,
                 pins_cmd, last_fire_level, used>>

\* SYS_CELL_ALARM_HANDLE
PinsAlarm ==
  /\ pc = "msg" /\ "pins" \in Faults /\ faults < MaxFaults
  /\ faults' = faults + 1
  /\ m_state' = S_PROCESS_ERROR
  /\ UNCHANGED <<pc, press, masks, runStatus, chan, wire, saveStatus,
                 pins_cell_status, pins_cmd, last_fire_level, hosts, crashes>>

\* No message is left: the loop goes on.
Drained ==
  /\ pc = "msg" /\ pc' = "exec"
  /\ UNCHANGED <<m_state, press, masks, runStatus, chan, wire, saveStatus,
                 pins_cell_status, pins_cmd, last_fire_level, used>>

-----------------------------------------------------------------------------
(* exec: work_logic_execute.  sec says that a second has passed since      *)
(* m_last_sync_time.                                                       *)

\* ChannelServer::execute: one command leaves each queue whose link is up.  A
\* module holds one step ahead of the one it runs.
Taken(m, cmd) ==
  CASE cmd \in {"EXEC_PROCESS", "EXEC_JUMP"} -> "run"
    [] cmd = "EXEC_STOP" /\ m # "off" -> "stopping"
    [] cmd = "EXEC_PAUSE" /\ m = "run" -> "pause"
    [] cmd = "EXEC_RESUME" /\ m = "pause" -> "run"
    [] OTHER -> m
Cached(k, cmd) ==
  CASE cmd = "STEP" -> "step" [] cmd = "END" -> "end" [] OTHER -> k

\* The queues q and module states m as the switch left them, then execute.
Sends(q, m) ==
  LET out == {c \in Chans : m_is_connected[c] /\ q[c] # <<>>} IN
  /\ m_cmd_queue' = [c \in Chans |-> IF c \in out THEN Tail(q[c]) ELSE q[c]]
  /\ module' = [c \in Chans |-> IF c \in out THEN Taken(m[c], Head(q[c])) ELSE m[c]]
  /\ cache' = [c \in Chans |-> IF c \in out THEN Cached(cache[c], Head(q[c]))
                               ELSE cache[c]]

ExecPart(s) ==
  /\ pc = "exec" /\ m_state = s /\ pc' = "handle"
  /\ UNCHANGED <<alarm, run_state, m_is_connected, pins_cell_status,
                 last_fire_level, used>>

\* process_start
ProcessStart ==
  /\ ExecPart(S_PROCESS_START)
  /\ IF PlcEnable
     THEN /\ pins_cmd' = IF m_last_state # m_state THEN "CELL_SET_AUTO_MODE" ELSE "none"
          /\ m_last_state' = m_state
          /\ m_state' = S_FIREDOOR_CLOSE
     ELSE /\ m_state' = S_START_STEP /\ pins_cmd' = "none"
          /\ UNCHANGED m_last_state
  /\ Sends(m_cmd_queue, module)
  /\ UNCHANGED <<m_sync_timeout, masks, runStatus, stepcache_empty,
                 m_pause_cmd_flg, saveStatus>>

\* firedoor_close_exec: ask for the door on entry, then look once a second.
FireDoorCloseExec(sec) ==
  LET entry == m_last_state # m_state
      late == m_sync_timeout + 1 > DoorLimit
      open == pins_cell_status.fire_door_open
  IN
  /\ ExecPart(S_FIREDOOR_CLOSE)
  /\ \/ /\ ~PlcEnable
        /\ m_state' = S_START_STEP /\ pins_cmd' = "none"
        /\ UNCHANGED press
     \/ /\ PlcEnable /\ entry /\ ~sec
        /\ m_last_state' = m_state /\ m_sync_timeout' = 0
        /\ pins_cmd' = "CELL_FIRE_DOOR_UP"
        /\ UNCHANGED m_state
     \/ /\ PlcEnable /\ ~entry /\ sec
        /\ m_sync_timeout' = IF open THEN m_sync_timeout + 1 ELSE m_sync_timeout
        /\ m_state' = IF ~open THEN S_TRAY_PRESS
                      ELSE IF late THEN S_PROCESS_ERROR ELSE m_state
        /\ pins_cmd' = IF open /\ late THEN "PINS_ALARM_SYNC" ELSE "none"
        /\ UNCHANGED m_last_state
     \/ /\ PlcEnable /\ ~entry /\ ~sec
        /\ pins_cmd' = "none"
        /\ UNCHANGED <<m_state, press>>
  /\ Sends(m_cmd_queue, module)
  /\ UNCHANGED <<masks, runStatus, stepcache_empty, m_pause_cmd_flg, saveStatus>>

\* Seconds waited so far; every entry counts from zero.
NoWait(entry) == 0   \* mutant
Waited(entry) == IF entry THEN 0 ELSE m_sync_timeout

\* tray_press_exec: m_last_sync_time is kept, so a look can follow the entry at once.
TrayPressExec(sec) ==
  LET entry == m_last_state # m_state
      before == Waited(entry)
      pressed == pins_cell_status.pressed
      failed == sec /\ ~pressed
      late == failed /\ before + 1 > PressLimit
      again == failed /\ before + 1 = PressResend
  IN
  /\ ExecPart(S_TRAY_PRESS)
  /\ IF ~PlcEnable
     THEN m_state' = S_START_STEP /\ pins_cmd' = "none" /\ UNCHANGED press
     ELSE /\ m_last_state' = m_state
          /\ m_sync_timeout' = IF failed THEN before + 1 ELSE before
          /\ m_state' = IF late THEN S_PROCESS_ERROR
                        ELSE IF sec /\ pressed THEN S_START_STEP ELSE m_state
          /\ pins_cmd' = IF late THEN "PINS_ALARM_SYNC"
                         ELSE IF entry \/ again THEN "CELL_TRAY_UP" ELSE "none"
  /\ Sends(m_cmd_queue, module)
  /\ UNCHANGED <<masks, runStatus, stepcache_empty, m_pause_cmd_flg, saveStatus>>

\* channel_step_startup: start every channel of the start mask that is not
\* running yet, or the channels of a jump.  next says which of them have a step
\* after the one that starts (get_next_workstepNo).
FirstStart ==   \* mutant: a channel that joins later is not started
  IF jump_mask # {} THEN jump_mask
  ELSE IF \E c \in start_mask : runStatus[c].Active = 1 THEN {} ELSE start_mask
Startable == IF jump_mask = {} THEN {c \in start_mask : runStatus[c].Active = 0}
             ELSE jump_mask
ChannelStepStartup(go, next) ==
  /\ ExecPart(S_START_STEP)
  /\ go \subseteq Startable /\ (StepMissing \/ go = Startable)
  /\ next \subseteq go
  /\ Sends(Pushed(go, <<"STEP", IF jump_mask = {} THEN "EXEC_PROCESS"
                                ELSE "EXEC_JUMP">>), module)
  /\ runStatus' = [c \in Chans |-> IF c \in go
       THEN [Active |-> 1, Finish |-> 0, JumpTo |-> IF c \in next THEN 1 ELSE 0]
       ELSE runStatus[c]]
  /\ saveStatus' = SavedActive(go, 1)
  /\ m_last_state' = m_state /\ m_state' = S_STEP_EXEC
  /\ pins_cmd' = "none"
  /\ UNCHANGED <<m_sync_timeout, masks, stepcache_empty, m_pause_cmd_flg>>

\* channel_step_execute, one channel: what may follow for a channel whose step
\* is under way (Finish) or whose module ran dry (stepcache_empty).
DueFinish == {c \in Chans : runStatus[c].Active = 1 /\ runStatus[c].Finish = 1}  \* mutant
Due == {c \in Chans : runStatus[c].Active = 1
                      /\ (runStatus[c].Finish = 1 \/ stepcache_empty[c])}
Follow(j, fin, push) == [run |-> [Active |-> 1, Finish |-> fin, JumpTo |-> j],
                         push |-> push, save |-> fin = 0]
StepResults(c) ==
  LET dry == stepcache_empty[c] /\ runStatus[c].Finish = 0
      jumps == IF dry THEN {0, 1} ELSE {runStatus[c].JumpTo}
      fin == runStatus[c].Finish
  IN   \* the module ran dry and reports step number 0
       (IF dry THEN {[run |-> runStatus[c], push |-> <<>>, save |-> FALSE]} ELSE {})
  \cup \* a loop that has had its turns, or a step the recipe lacks: nothing is sent
       (IF 1 \in jumps THEN {Follow(j, fin, <<>>) : j \in {0, 1}} ELSE {})
  \cup \* the step is sent
       (IF 1 \in jumps THEN {Follow(j, 0, <<"STEP">>) : j \in {0, 1}} ELSE {})
  \cup \* the last step is under way: "End" is sent
       (IF 0 \in jumps THEN {Follow(-1, 0, <<"END">>)} ELSE {})
  \cup \* "End" was reached: the channel is done
       (IF -1 \in jumps THEN {[run |-> ZeroRun, push |-> <<>>, save |-> TRUE]} ELSE {})

\* Every participant is done.
SomeDone(start, end) == start # {} /\ end # {}       \* mutant
WholeCell(start, end) == start # {} /\ end = Chans   \* mutant
AllDone(start, end) == start # {} /\ end = start

\* channel_step_execute: res gives each due channel one of its results.
ChannelStepExecute(res) ==
  LET done == {c \in Due : res[c].run.Active = 0}
      start == start_mask \union done
      end == end_mask \union done
  IN
  /\ ExecPart(S_STEP_EXEC)
  /\ \A c \in Due : res[c] \in StepResults(c)
  /\ runStatus' = [c \in Chans |-> IF c \in Due THEN res[c].run ELSE runStatus[c]]
  /\ Sends([c \in Chans |-> IF c \in Due THEN m_cmd_queue[c] \o res[c].push
                             ELSE m_cmd_queue[c]], module)
  /\ saveStatus' = [c \in Chans |-> IF c \in Due /\ res[c].save
       THEN [Active |-> res[c].run.Active, JumpTo |-> res[c].run.JumpTo]
       ELSE saveStatus[c]]
  /\ stepcache_empty' = [c \in Chans |-> stepcache_empty[c] /\ c \notin Due]
  /\ start_mask' = start /\ end_mask' = end
  /\ m_last_state' = m_state
  /\ m_state' = IF start = {} /\ error_mask # {} THEN S_PROCESS_ERROR
                ELSE IF AllDone(start, end) THEN S_PROCESS_END
                ELSE m_state
  /\ pins_cmd' = "none"
  /\ UNCHANGED <<m_sync_timeout, jump_mask, error_mask, m_pause_cmd_flg>>

\* process_end: a second after the last channel is done.
ProcessEnd(sec) ==
  /\ ExecPart(S_PROCESS_END)
  /\ IF sec
     THEN /\ Sends(m_cmd_queue, Stopped(start_mask)) /\ StopPauseFlags(start_mask)
          /\ Leave(start_mask)
          /\ m_state' = S_PROCESS_IDLE
     ELSE /\ Sends(m_cmd_queue, module)
          /\ UNCHANGED <<m_pause_cmd_flg, start_mask, end_mask, m_state>>
  /\ pins_cmd' = "none"
  /\ UNCHANGED <<press, jump_mask, error_mask, runStatus, stepcache_empty,
                 saveStatus>>

\* process_error_proc
ProcessErrorProc ==
  /\ ExecPart(S_PROCESS_ERROR)
  /\ Sends(m_cmd_queue, Stopped(start_mask)) /\ StopPauseFlags(start_mask)
  /\ Leave(start_mask)
  /\ error_mask' = error_mask \cap start_mask
  /\ runStatus' = [c \in Chans |-> IF c \in start_mask THEN ZeroRun ELSE runStatus[c]]
  /\ saveStatus' = SavedActive(start_mask, 0)
  /\ m_state' = S_PROCESS_IDLE
  /\ pins_cmd' = "none"
  /\ UNCHANGED <<press, jump_mask, stepcache_empty>>

\* S_PROCESS_IDLE, and the state before any process ran
ExecNothing ==
  /\ \E s \in {S_NONE, S_PROCESS_IDLE} : ExecPart(s)
  /\ pins_cmd' = "none"
  /\ Sends(m_cmd_queue, module)
  /\ UNCHANGED <<m_state, press, masks, runStatus, stepcache_empty,
                 m_pause_cmd_flg, saveStatus>>

Exec ==
  \/ ProcessStart
  \/ \E sec \in BOOLEAN : FireDoorCloseExec(sec) \/ TrayPressExec(sec)
  \/ /\ pc = "exec" /\ m_state = S_START_STEP
     /\ \E go \in SUBSET Startable : \E next \in SUBSET go :
          ChannelStepStartup(go, next)
  \/ /\ pc = "exec" /\ m_state = S_STEP_EXEC
     /\ \E res \in [Due -> UNION {StepResults(c) : c \in Due}] :
          ChannelStepExecute(res)
  \/ \E sec \in BOOLEAN : ProcessEnd(sec)
  \/ ProcessErrorProc
  \/ ExecNothing

-----------------------------------------------------------------------------
(* handle: work_logic_recv and work_logic_handle.  A record is what one     *)
(* module reports in this pass.                                            *)
(*   kind  none: no record   idle: not running   run: in the same step     *)
(*         next: a step began   wait: no further step to run               *)
(*         fin: "End" reached   pause: suspended                           *)
(*   fault no; mid: an alarm rule of this program fired (and stops the     *)
(*         module); low: the module reports an alarm of its own (new: it   *)
(*         is told to stop as well); rep: an alarm reported before, or     *)
(*         more than ten pauses in a row; clear: an over-temperature alarm *)
(*         went away                                                       *)
NoRecord == [kind |-> "none", fault |-> "no"]

\* The records the module can be reporting now.
KindsNow(c) ==
  {k \in Kinds :
     CASE k = "idle"  -> module[c] \in {"off", "stopping"}
       [] k = "run"   -> module[c] \in {"run", "stopping"}
       [] k = "next"  -> module[c] \in {"run", "stopping"} /\ cache[c] = "step"
       [] k = "wait"  -> module[c] = "run" /\ cache[c] = "none"
       [] k = "fin"   -> module[c] \in {"run", "stopping"} /\ cache[c] = "end"
       [] k = "pause" -> module[c] \in {"run", "pause"}}
FaultsNow(c) ==
  {"no"} \cup {a \in Faults \ {"pins", "link"} : faults < MaxFaults /\ (a = "clear" => alarm[c])}
RecordsOf(c) ==
  {NoRecord} \cup
  (IF m_is_connected[c] THEN [kind : KindsNow(c), fault : FaultsNow(c)] ELSE {})
Records == {rec \in [Chans -> UNION {RecordsOf(c) : c \in Chans}] :
              \A c \in Chans : rec[c] \in RecordsOf(c)}

ModuleAfter(c, r) ==
  LET m == CASE r.kind \in {"idle", "fin"} -> "off"
             [] r.kind = "pause" -> "pause"
             [] OTHER -> module[c]
      stops == r.fault \in {"mid", "low"} \/ (r.fault = "rep" /\ r.kind # "pause")
  IN IF stops /\ m # "off" THEN "stopping" ELSE m
ReportedRaw(r) == r.kind   \* mutant
Reported(r) ==
  CASE r.kind \in {"run", "next"} -> "running" [] r.kind = "pause" -> "pause"
    [] OTHER -> "other"

\* work_logic_handle with record rec[c] of each channel; resumed is the paused
\* channel that is continued, at most one a second.
Handle(rec, resumed, second) ==
  LET new == {c \in Chans : rec[c].kind # "none"}
      stop == {c \in Chans : rec[c].fault \in {"mid", "low"}}
      err == {c \in new : \/ rec[c].fault \in {"mid", "low", "rep"}
                          \/ alarm[c] /\ rec[c].fault # "clear"}
      running == \E c \in Chans : run_state'[c] = "running"
  IN
  /\ pc' = IF second THEN "tick" ELSE "msg"
  /\ faults' = faults + Cardinality({c \in Chans : rec[c].fault # "no"})
  /\ faults' <= MaxFaults
  /\ alarm' = [c \in Chans |-> (alarm[c] \/ rec[c].fault = "mid")
                               /\ rec[c].fault # "clear"]
  /\ run_state' = [c \in Chans |-> IF c \in new THEN Reported(rec[c]) ELSE run_state[c]]
  /\ stepcache_empty' = [c \in Chans |-> stepcache_empty[c] \/ rec[c].kind = "wait"]
  /\ cache' = [c \in Chans |-> IF rec[c].kind \in {"next", "fin"} THEN "none"
                               ELSE cache[c]]
  /\ runStatus' = [c \in Chans |-> IF rec[c].kind \in {"next", "fin"}
                     THEN [runStatus[c] EXCEPT !.Finish = 1] ELSE runStatus[c]]
  /\ m_pause_cmd_flg' = [c \in Chans |-> m_pause_cmd_flg[c] /\ c \notin stop]
  /\ Leave(err)
  /\ error_mask' = error_mask \union err
  /\ saveStatus' = SavedActive(start_mask \cap err, 0)
  /\ m_state' = IF m_state = S_NONE /\ running THEN S_STEP_EXEC ELSE m_state
  /\ resumed \subseteq
       {c \in Chans : /\ m_is_connected[c] /\ run_state'[c] = "pause"
                      /\ ~m_pause_cmd_flg'[c]
                      /\ m_state' \in {S_START_STEP, S_STEP_EXEC}}
  /\ module' = [c \in Chans |->
       LET after == ModuleAfter(c, rec[c]) IN
       IF c \in resumed /\ after = "pause" THEN "run" ELSE after]
  /\ UNCHANGED <<press, jump_mask, m_cmd_queue, m_is_connected,
                 pins_cell_status, pins_cmd, last_fire_level, hosts, crashes>>

-----------------------------------------------------------------------------
(* tick: fireProtection_handle, once a second                               *)

FireProtection(level) ==
  LET brake == level = FIRE_PROTECT_LEVEL1 /\ last_fire_level # level
      halt == level = FIRE_PROTECT_LEVEL2
              /\ last_fire_level \notin {FIRE_PROTECT_LEVEL1, FIRE_PROTECT_LEVEL2}
  IN
  /\ pc = "tick" /\ pc' = "msg"
  /\ pins_cmd' = IF brake THEN "FIRE_EMERGENCY_BRAKE" ELSE "none"
  /\ IF halt THEN module' = Stopped(Chans \ error_mask) /\ StopPauseFlags(Chans \ error_mask)
             ELSE UNCHANGED <<module, m_pause_cmd_flg>>
  /\ m_state' = IF brake \/ halt THEN S_PROCESS_IDLE ELSE m_state
  /\ last_fire_level' = level
  /\ UNCHANGED <<press, masks, runStatus, stepcache_empty, alarm, run_state,
                 m_cmd_queue, m_is_connected, cache, saveStatus,
                 pins_cell_status, used>>

-----------------------------------------------------------------------------
(* Links: channel_state_update, hearbeat_detect                             *)

LinkUp(c) ==
  /\ pc = "msg" /\ ~m_is_connected[c]
  /\ m_is_connected' = [m_is_connected EXCEPT ![c] = TRUE]
  /\ UNCHANGED <<pc, m_state, press, masks, runStatus, chan, m_cmd_queue, module,
                 cache, saveStatus, pins_cell_status, pins_cmd, last_fire_level,
                 used>>

\* The connection is lost, or the module missed too many heartbeats.
LinkDown(c) ==
  /\ pc = "msg" /\ m_is_connected[c] /\ "link" \in Faults /\ faults < MaxFaults
  /\ m_is_connected' = [m_is_connected EXCEPT ![c] = FALSE]
  /\ faults' = faults + 1
  /\ UNCHANGED <<pc, m_state, press, masks, runStatus, chan, m_cmd_queue, module,
                 cache, saveStatus, pins_cell_status, pins_cmd, last_fire_level,
                 hosts, crashes>>

\* A module out of reach goes on by itself: it begins the step it holds, or ends.
ModuleAlone(c) ==
  /\ pc = "msg" /\ ~m_is_connected[c] /\ module[c] # "off"
  /\ \/ cache[c] = "step" /\ module[c] = "run" /\ UNCHANGED module
     \/ module' = [module EXCEPT ![c] = "off"]
  /\ cache' = [cache EXCEPT ![c] = "none"]
  /\ UNCHANGED <<pc, m_state, press, masks, runStatus, chan, m_cmd_queue,
                 m_is_connected, saveStatus, pins_cell_status, pins_cmd,
                 last_fire_level, used>>

\* The program is restarted (Cell::Cell, work_logic_init): what was active is
\* taken from SaveStatusCell.xml, everything else starts from nothing.
Restart ==
  /\ crashes < MaxCrash /\ crashes' = crashes + 1
  /\ pc' = "msg"
  /\ m_state' = S_NONE /\ m_last_state' = S_NONE /\ m_sync_timeout' = 0
  /\ start_mask' = {c \in Chans : saveStatus[c].Active = 1}
  /\ jump_mask' = {} /\ end_mask' = {} /\ error_mask' = {}
  /\ runStatus' = [c \in Chans |-> [Active |-> saveStatus[c].Active, Finish |-> 0,
                                    JumpTo |-> saveStatus[c].JumpTo]]
  /\ stepcache_empty' = [c \in Chans |-> FALSE]
  /\ alarm' = [c \in Chans |-> FALSE]
  /\ m_pause_cmd_flg' = [c \in Chans |-> FALSE]
  /\ run_state' = [c \in Chans |-> "other"]
  /\ m_cmd_queue' = [c \in Chans |-> <<>>]
  /\ m_is_connected' = [c \in Chans |-> FALSE]
  /\ pins_cell_status' = [fire_door_open |-> FALSE, pressed |-> FALSE]
  /\ pins_cmd' = "none" /\ last_fire_level' = 0
  /\ UNCHANGED <<module, cache, saveStatus, hosts, faults>>

-----------------------------------------------------------------------------
Host(S) ==
  \/ HostExecProcess(S) \/ HostExecPause(S) \/ HostExecResume(S) \/ HostExecStop(S)
  \/ HostExecJump(S) \/ HostSetStep(S) \/ HostClearWarning(S) \/ HostBarcode(S)

Next ==
  \/ \E c \in Chans : LinkUp(c) \/ LinkDown(c) \/ ModuleAlone(c)
  \/ \E S \in (SUBSET Chans) \ {{}} : Host(S)
  \/ \E p \in PinsInputs : PinsStatusSync(p)
  \/ PinsAlarm
  \/ Drained
  \/ Exec
  \/ /\ pc = "handle"
     /\ \E rec \in Records, resumed \in {{}} \cup {{c} : c \in Chans} :
          Handle(rec, resumed, FALSE) \/ (FireLevels # {0} /\ Handle(rec, resumed, TRUE))
  \/ \E level \in FireLevels : FireProtection(level)
  \/ Restart

Spec == Init /\ [][Next]_vars

(* Fairness.  The thread never stops (LoopFair); a second always passes again *)
(* (TimeFair); a lost module is connected again and a running one reaches its *)
(* next step or its end (ModuleFair); recipes are finite (RecipeFair); a      *)
(* module that has run dry says so, with the number of its step (DryFair).    *)
HandleOf(c, kinds) ==
  /\ pc = "handle"
  /\ \E rec \in Records, resumed \in {{}} \cup {{d} : d \in Chans} :
       rec[c].kind \in kinds /\ Handle(rec, resumed, FALSE)
Gives(c, R) ==
  /\ pc = "exec" /\ m_state = S_STEP_EXEC /\ c \in Due
  /\ \E res \in [Due -> UNION {StepResults(d) : d \in Due}] :
       res[c] \in R /\ ChannelStepExecute(res)
EndsRecipe(c) ==
  Gives(c, {r \in StepResults(c) : r.run.JumpTo = 0 \/ runStatus[c].JumpTo # 1})
Answers(c) == Gives(c, {r \in StepResults(c) : r.push # <<>>})
Loop == Drained \/ Exec
        \/ (pc = "handle" /\ \E rec \in Records, resumed \in {{}} \cup {{d} : d \in Chans} :
              Handle(rec, resumed, FALSE))
        \/ \E level \in FireLevels : FireProtection(level)
LoopFair == WF_vars(Loop)
TimeFair == SF_vars(FireDoorCloseExec(TRUE) \/ TrayPressExec(TRUE)) /\ SF_vars(ProcessEnd(TRUE))
ModuleFair == \A c \in Chans : SF_vars(LinkUp(c)) /\ SF_vars(HandleOf(c, {"next", "fin"}))
RecipeFair == \A c \in Chans : SF_vars(EndsRecipe(c))
DryFair == \A c \in Chans : SF_vars(HandleOf(c, {"wait"})) /\ SF_vars(Answers(c))
FairSpec == Spec /\ LoopFair /\ TimeFair /\ ModuleFair /\ RecipeFair
FairDrySpec == FairSpec /\ DryFair

-----------------------------------------------------------------------------
(* Properties                                                               *)

\* Channels counted as done are counted as taking part: stop, alarm, end and
\* error, four handlers far apart, each take a channel out of both masks.
EndInStart == end_mask \subseteq start_mask

\* Until the end is carried out, a second after it was decided, the done channels
\* stay exactly the participants, whatever stop or alarm arrives in between; else
\* process_end would stop a channel that is still running.
EndExact == m_state = S_PROCESS_END => end_mask = start_mask

\* A cell that became idle, by whichever of the ways to idle, has no channel left
\* in its masks that a later EXEC_PROCESS would start along with its own.
IdleClean == m_state = S_PROCESS_IDLE => start_mask = {}

\* Once the cell is idle and its commands are out, no module it can reach runs:
\* the stop never overtakes a start.
IdleQuiet ==
  (m_state = S_PROCESS_IDLE /\ pc = "msg")
     => \A c \in Chans : (m_cmd_queue[c] = <<>> /\ m_is_connected[c])
                           => module[c] \in {"off", "stopping"}

\* A running channel of the process is recorded as active, at every moment a
\* restart may come, so that the restart takes it up again.
ActiveSaved ==
  \A c \in start_mask : runStatus[c].Active = 1 => saveStatus[c].Active = 1

\* Waiting for the pin bed ends: the door and the tray get there, or the waiting
\* times out, however often the host starts further channels meanwhile.
Pressing == m_state \in {S_PROCESS_START, S_FIREDOOR_CLOSE, S_TRAY_PRESS}
PressEnds == Pressing ~> ~Pressing

\* A channel that joined the process is started, or leaves the process again.
Started == \A c \in Chans :
  (c \in start_mask) ~> (runStatus[c].Active = 1 \/ c \notin start_mask)

\* The module is never left dry: it gets a further step or the end of the recipe,
\* also when the record of a step's begin was lost.  A restart ends the promise: a
\* cell in state 0 waits for the record of a running module, which a dry one does not
\* give.
StepSupply == \A c \in Chans :
  (module[c] = "run" /\ cache[c] = "none" /\ crashes = 0)
    ~> (module[c] # "run" \/ cache[c] # "none" \/ crashes > 0)

\* A process that was started comes to its end.
Completes == (start_mask # {}) ~> (start_mask = {})

\* The tray is pressed only behind a closed fire door.
DoorShut == [][m_state' = S_TRAY_PRESS /\ m_state # S_TRAY_PRESS
                 => ~pins_cell_status.fire_door_open]_vars

=============================================================================
