----------------------------- MODULE CellProofs -----------------------------
(* What holds of Cell for every cell size, bound and environment.          *)
EXTENDS Cell, SequenceTheorems, FiniteSetTheorems, TLAPS

\* The two mask invariants together are inductive; neither needs the types.
Masks == EndInStart /\ EndExact

LEMMA MasksInit == Init => Masks
BY DEF Init, Masks, EndInStart, EndExact, S_NONE, S_PROCESS_END

\* Host commands: only EXEC_STOP takes channels out, and it takes both bits.
LEMMA MasksHost == ASSUME Masks, NEW S \in (SUBSET Chans) \ {{}}, Host(S) PROVE Masks'
<1> USE DEF Masks, EndInStart, EndExact, HostInput, S_NONE, S_PROCESS_START,
            S_TRAY_PRESS, S_START_STEP, S_STEP_EXEC, S_PROCESS_END, S_PROCESS_ERROR,
            S_PROCESS_IDLE
<1>1. CASE HostExecProcess(S)
  BY <1>1 DEF HostExecProcess, InProcess
<1>2. CASE HostExecPause(S)
  BY <1>2 DEF HostExecPause
<1>3. CASE HostExecResume(S)
  BY <1>3 DEF HostExecResume
<1>4. CASE HostExecStop(S)
  BY <1>4 DEF HostExecStop, Leave, AfterStop
<1>5. CASE HostExecJump(S)
  BY <1>5 DEF HostExecJump
<1>6. CASE HostSetStep(S)
  BY <1>6 DEF HostSetStep, masks
<1>7. CASE HostClearWarning(S)
  BY <1>7 DEF HostClearWarning, masks
<1>8. CASE HostBarcode(S)
  BY <1>8 DEF HostBarcode, masks
<1>9. QED
  BY <1>1, <1>2, <1>3, <1>4, <1>5, <1>6, <1>7, <1>8 DEF Host

\* The switch over m_state: S_PROCESS_END is entered only when the masks agree.
LEMMA MasksExec == ASSUME Masks, Exec PROVE Masks'
<1> USE DEF Masks, EndInStart, EndExact, ExecPart, masks, S_NONE, S_PROCESS_START,
            S_FIREDOOR_CLOSE, S_TRAY_PRESS, S_START_STEP, S_STEP_EXEC, S_PROCESS_END,
            S_PROCESS_ERROR, S_PROCESS_IDLE
<1>1. CASE ProcessStart
  BY <1>1 DEF ProcessStart
<1>2. ASSUME NEW sec \in BOOLEAN, FireDoorCloseExec(sec) PROVE Masks'
  BY <1>2 DEF FireDoorCloseExec
<1>3. ASSUME NEW sec \in BOOLEAN, TrayPressExec(sec) PROVE Masks'
  BY <1>3 DEF TrayPressExec
<1>4. ASSUME NEW go, NEW next, ChannelStepStartup(go, next) PROVE Masks'
  BY <1>4 DEF ChannelStepStartup
<1>5. ASSUME NEW res, ChannelStepExecute(res) PROVE Masks'
  BY <1>5 DEF ChannelStepExecute, AllDone
<1>6. ASSUME NEW sec \in BOOLEAN, ProcessEnd(sec) PROVE Masks'
  BY <1>6 DEF ProcessEnd, Leave
<1>7. CASE ProcessErrorProc
  BY <1>7 DEF ProcessErrorProc, Leave
<1>8. CASE ExecNothing
  BY <1>8 DEF ExecNothing
<1>9. QED
  BY <1>1, <1>2, <1>3, <1>4, <1>5, <1>6, <1>7, <1>8 DEF Exec

\* work_logic_handle: an alarm takes both bits, and never enters S_PROCESS_END.
LEMMA MasksHandle ==
  ASSUME Masks, NEW rec, NEW resumed, NEW second, Handle(rec, resumed, second)
  PROVE  Masks'
BY DEF Handle, Leave, Masks, EndInStart, EndExact, S_NONE, S_STEP_EXEC, S_PROCESS_END

LEMMA MasksNext == Masks /\ [Next]_vars => Masks'
<1> SUFFICES ASSUME Masks, [Next]_vars PROVE Masks'
  OBVIOUS
<1> USE DEF Masks, EndInStart, EndExact, masks, S_NONE, S_PROCESS_END, S_PROCESS_ERROR,
            S_PROCESS_IDLE
<1>1. ASSUME NEW c \in Chans, LinkUp(c) \/ LinkDown(c) \/ ModuleAlone(c) PROVE Masks'
  BY <1>1 DEF LinkUp, LinkDown, ModuleAlone
<1>2. ASSUME NEW S \in (SUBSET Chans) \ {{}}, Host(S) PROVE Masks'
  BY <1>2, MasksHost
<1>3. ASSUME NEW p \in PinsInputs, PinsStatusSync(p) PROVE Masks'
  BY <1>3 DEF PinsStatusSync
<1>4. CASE PinsAlarm
  BY <1>4 DEF PinsAlarm
<1>5. CASE Drained
  BY <1>5 DEF Drained
<1>6. CASE Exec
  BY <1>6, MasksExec
<1>7. ASSUME NEW rec, NEW resumed, NEW second, Handle(rec, resumed, second) PROVE Masks'
  BY <1>7, MasksHandle
<1>8. ASSUME NEW level, FireProtection(level) PROVE Masks'
  BY <1>8 DEF FireProtection
<1>9. CASE Restart
  BY <1>9 DEF Restart
<1>10. CASE UNCHANGED vars
  BY <1>10 DEF vars
<1>11. QED
  BY <1>1, <1>2, <1>3, <1>4, <1>5, <1>6, <1>7, <1>8, <1>9, <1>10 DEF Next

THEOREM MasksAlways == Spec => []Masks
BY MasksInit, MasksNext, PTL DEF Spec

\* Whatever the host, the modules, the pin bed and the fire detectors do, a
\* channel counted as done takes part in the process.
THEOREM EndInStartThm == Spec => []EndInStart
<1>1. Masks => EndInStart
  BY DEF Masks
<1>2. QED
  BY <1>1, MasksAlways, PTL

\* Between the decision that the process ends and its end, the done channels
\* remain exactly the participants.
THEOREM EndExactThm == Spec => []EndExact
<1>1. Masks => EndExact
  BY DEF Masks
<1>2. QED
  BY <1>1, MasksAlways, PTL

-----------------------------------------------------------------------------
(* IdleClean is inductive by itself where the fire levels do not occur that   *)
(* set S_PROCESS_IDLE and leave the masks.                                    *)

NoBrake == FireLevels \cap {FIRE_PROTECT_LEVEL1, FIRE_PROTECT_LEVEL2} = {}

LEMMA IdleHost == ASSUME IdleClean, NEW S \in (SUBSET Chans) \ {{}}, Host(S) PROVE IdleClean'
<1> USE DEF IdleClean, HostInput, S_PROCESS_START, S_TRAY_PRESS, S_START_STEP,
            S_STEP_EXEC, S_PROCESS_ERROR, S_PROCESS_IDLE
<1>1. CASE HostExecProcess(S)
  BY <1>1 DEF HostExecProcess
<1>2. CASE HostExecPause(S)
  BY <1>2 DEF HostExecPause
<1>3. CASE HostExecResume(S)
  BY <1>3 DEF HostExecResume
<1>4. CASE HostExecStop(S)
  BY <1>4 DEF HostExecStop, Leave, AfterStop
<1>5. CASE HostExecJump(S)
  BY <1>5 DEF HostExecJump
<1>6. CASE HostSetStep(S)
  BY <1>6 DEF HostSetStep, masks
<1>7. CASE HostClearWarning(S)
  BY <1>7 DEF HostClearWarning, masks
<1>8. CASE HostBarcode(S)
  BY <1>8 DEF HostBarcode, masks
<1>9. QED
  BY <1>1, <1>2, <1>3, <1>4, <1>5, <1>6, <1>7, <1>8 DEF Host

LEMMA IdleExec == ASSUME IdleClean, Exec PROVE IdleClean'
<1> USE DEF IdleClean, ExecPart, masks, S_NONE, S_PROCESS_START, S_FIREDOOR_CLOSE,
            S_TRAY_PRESS, S_START_STEP, S_STEP_EXEC, S_PROCESS_END, S_PROCESS_ERROR,
            S_PROCESS_IDLE
<1>1. CASE ProcessStart
  BY <1>1 DEF ProcessStart
<1>2. ASSUME NEW sec \in BOOLEAN, FireDoorCloseExec(sec) PROVE IdleClean'
  BY <1>2 DEF FireDoorCloseExec
<1>3. ASSUME NEW sec \in BOOLEAN, TrayPressExec(sec) PROVE IdleClean'
  BY <1>3 DEF TrayPressExec
<1>4. ASSUME NEW go, NEW next, ChannelStepStartup(go, next) PROVE IdleClean'
  BY <1>4 DEF ChannelStepStartup
<1>5. ASSUME NEW res, ChannelStepExecute(res) PROVE IdleClean'
  BY <1>5 DEF ChannelStepExecute
<1>6. ASSUME NEW sec \in BOOLEAN, ProcessEnd(sec) PROVE IdleClean'
  BY <1>6 DEF ProcessEnd, Leave
<1>7. CASE ProcessErrorProc
  BY <1>7 DEF ProcessErrorProc, Leave
<1>8. CASE ExecNothing
  BY <1>8 DEF ExecNothing
<1>9. QED
  BY <1>1, <1>2, <1>3, <1>4, <1>5, <1>6, <1>7, <1>8 DEF Exec

LEMMA IdleNext ==
  ASSUME NoBrake, IdleClean, [Next]_vars
  PROVE  IdleClean'
<1> USE DEF IdleClean, masks, S_NONE, S_STEP_EXEC, S_PROCESS_ERROR, S_PROCESS_IDLE
<1>1. ASSUME NEW c \in Chans, LinkUp(c) \/ LinkDown(c) \/ ModuleAlone(c) PROVE IdleClean'
  BY <1>1 DEF LinkUp, LinkDown, ModuleAlone
<1>2. ASSUME NEW S \in (SUBSET Chans) \ {{}}, Host(S) PROVE IdleClean'
  BY <1>2, IdleHost
<1>3. ASSUME NEW p \in PinsInputs, PinsStatusSync(p) PROVE IdleClean'
  BY <1>3 DEF PinsStatusSync
<1>4. CASE PinsAlarm
  BY <1>4 DEF PinsAlarm
<1>5. CASE Drained
  BY <1>5 DEF Drained
<1>6. CASE Exec
  BY <1>6, IdleExec
<1>7. ASSUME NEW rec, NEW resumed, NEW second, Handle(rec, resumed, second) PROVE IdleClean'
  BY <1>7 DEF Handle, Leave
<1>8. ASSUME NEW level \in FireLevels, FireProtection(level) PROVE IdleClean'
  BY <1>8 DEF FireProtection, NoBrake
<1>9. CASE Restart
  BY <1>9 DEF Restart
<1>10. CASE UNCHANGED vars
  BY <1>10 DEF vars
<1>11. QED
  BY <1>1, <1>2, <1>3, <1>4, <1>5, <1>6, <1>7, <1>8, <1>9, <1>10 DEF Next

\* A cell that is idle has no participant left, unless a fire made it idle:
\* fireProtection_execute sets the state and leaves the masks.
THEOREM IdleCleanThm ==
  ASSUME NoBrake
  PROVE  Spec => []IdleClean
<1>1. Init => IdleClean
  BY DEF Init, IdleClean, S_NONE, S_PROCESS_IDLE
<1>2. IdleClean /\ [Next]_vars => IdleClean'
  BY IdleNext
<1>3. QED
  BY <1>1, <1>2, PTL DEF Spec

-----------------------------------------------------------------------------
(* Type correctness.  First what the helpers return.                          *)

ModuleState == {"off", "run", "pause", "stopping"}
CacheState == {"none", "step", "end"}
Queues == [Chans -> Seq(Command)]

LEMMA PushedType ==
  ASSUME m_cmd_queue \in Queues, NEW S, NEW cmds \in Seq(Command)
  PROVE  Pushed(S, cmds) \in Queues
<1> SUFFICES ASSUME NEW c \in Chans
             PROVE  (IF c \in S THEN m_cmd_queue[c] \o cmds ELSE m_cmd_queue[c]) \in Seq(Command)
  BY DEF Pushed, Queues
<1>1. m_cmd_queue[c] \in Seq(Command)
  BY DEF Queues
<1>2. m_cmd_queue[c] \o cmds \in Seq(Command)
  BY <1>1, ConcatProperties
<1>3. QED
  BY <1>1, <1>2

LEMMA SendsType ==
  ASSUME NEW q \in Queues, NEW m \in [Chans -> ModuleState],
         cache \in [Chans -> CacheState], Sends(q, m)
  PROVE  /\ m_cmd_queue' \in Queues
         /\ module' \in [Chans -> ModuleState]
         /\ cache' \in [Chans -> CacheState]
<1> DEFINE out == {c \in Chans : m_is_connected[c] /\ q[c] # <<>>}
<1>1. ASSUME NEW c \in out PROVE Tail(q[c]) \in Seq(Command)
  BY q[c] \in Seq(Command), q[c] # <<>>, HeadTailProperties DEF Queues
<1>2. m_cmd_queue' \in Queues
  BY <1>1 DEF Sends, Queues
<1>3. module' \in [Chans -> ModuleState]
  BY DEF Sends, Taken, ModuleState
<1>4. cache' \in [Chans -> CacheState]
  BY DEF Sends, Cached, CacheState
<1>5. QED
  BY <1>2, <1>3, <1>4

LEMMA StoppedType ==
  ASSUME module \in [Chans -> ModuleState], NEW S
  PROVE  Stopped(S) \in [Chans -> ModuleState]
BY DEF Stopped, ModuleState

LEMMA PauseFlagsType ==
  ASSUME m_pause_cmd_flg \in [Chans -> BOOLEAN], NEW S, StopPauseFlags(S)
  PROVE  m_pause_cmd_flg' \in [Chans -> BOOLEAN]
BY DEF StopPauseFlags

LEMMA SavedActiveType ==
  ASSUME saveStatus \in [Chans -> SaveStatus], NEW S, NEW en \in {0, 1}
  PROVE  SavedActive(S, en) \in [Chans -> SaveStatus]
BY DEF SavedActive, SaveStatus

\* Every result of channel_step_execute is a run status with at most one command.
LEMMA StepResultsType ==
  ASSUME TypeOK, NEW c \in Chans, NEW r \in StepResults(c)
  PROVE  r.run \in RunStatus /\ r.push \in Seq(Command)
<1>1. runStatus[c] \in RunStatus
  BY DEF TypeOK
<1>2. <<>> \in Seq(Command) /\ <<"STEP">> \in Seq(Command) /\ <<"END">> \in Seq(Command)
  BY DEF Command
<1>3. ASSUME NEW j \in {-1, 0, 1}, NEW fin \in {0, 1},
             NEW push \in {<<>>, <<"STEP">>, <<"END">>}, r = Follow(j, fin, push)
      PROVE  r.run \in RunStatus /\ r.push \in Seq(Command)
  BY <1>2, <1>3 DEF Follow, RunStatus
<1>4. CASE r.run = runStatus[c] /\ r.push = <<>>
  BY <1>1, <1>2, <1>4
<1>5. CASE r.run = ZeroRun /\ r.push = <<>>
  BY <1>2, <1>5 DEF ZeroRun, RunStatus
<1>6. runStatus[c].Finish \in {0, 1}
  BY <1>1 DEF RunStatus
<1>7. \/ r.run = runStatus[c] /\ r.push = <<>>
      \/ \E j \in {0, 1} : r = Follow(j, runStatus[c].Finish, <<>>)
      \/ \E j \in {0, 1} : r = Follow(j, 0, <<"STEP">>)
      \/ r = Follow(-1, 0, <<"END">>)
      \/ r.run = ZeroRun /\ r.push = <<>>
  BY DEF StepResults
<1>8. QED
  BY <1>3, <1>4, <1>5, <1>6, <1>7

LEMMA TypeInit == Init => TypeOK
BY DEF Init, TypeOK, States, RunStatus, SaveStatus, ZeroRun, PinsStatus, PinsCommand,
       RunState, S_NONE, AllHostCmds

LEMMA TypeHost == ASSUME TypeOK, NEW S \in (SUBSET Chans) \ {{}}, Host(S) PROVE TypeOK'
<1>1. ASSUME NEW x \in Command PROVE <<x>> \in Seq(Command)
  OBVIOUS
<1>2. m_cmd_queue \in Queues
  BY DEF TypeOK, Queues
<1>3. ASSUME NEW cmd \in AllHostCmds, HostInput(cmd)
      PROVE  /\ pc' \in {"msg", "exec", "handle", "tick"} /\ m_last_state' \in States
             /\ m_sync_timeout' \in Nat /\ pins_cell_status' \in PinsStatus
             /\ pins_cmd' \in PinsCommand /\ last_fire_level' \in {0, 11, 12, 13}
             /\ hosts' \in [AllHostCmds -> Nat] /\ faults' \in Nat /\ crashes' \in Nat
  BY <1>3 DEF HostInput, TypeOK, press
<1> USE DEF TypeOK, wire, chan, masks, States
<1>4. CASE HostExecProcess(S)
  BY <1>4, <1>3, "EXEC_PROCESS" \in AllHostCmds
     DEF HostExecProcess, InProcess, AllHostCmds, S_TRAY_PRESS, S_PROCESS_START
<1>5. CASE HostExecPause(S)
  <2>1. m_cmd_queue' \in Queues
    BY <1>2, <1>5, PushedType, <1>1, "EXEC_PAUSE" \in Command DEF HostExecPause, Command
  <2>2. QED
    BY <1>5, <1>3, <2>1, "EXEC_PAUSE" \in AllHostCmds DEF HostExecPause, AllHostCmds, Queues
<1>6. CASE HostExecResume(S)
  <2>1. Pushed(S, <<"EXEC_RESUME">>) \in Queues
    BY <1>2, PushedType, <1>1, "EXEC_RESUME" \in Command DEF Command
  <2>2. ASSUME NEW c \in Chans PROVE m_cmd_queue[c] \o <<"CFG", "EXEC_RESUME">> \in Seq(Command)
    BY m_cmd_queue[c] \in Seq(Command), <<"CFG", "EXEC_RESUME">> \in Seq(Command),
       ConcatProperties DEF Command
  <2>3. m_cmd_queue' \in Queues
    BY <1>6, <2>1, <2>2 DEF HostExecResume, Queues
  <2>4. runStatus' \in [Chans -> RunStatus]
    <3>1. ASSUME NEW r \in RunStatus PROVE [r EXCEPT !.Active = 1] \in RunStatus
      BY DEF RunStatus
    <3>2. QED
      BY <1>6, <3>1 DEF HostExecResume
  <2>5. QED
    BY <1>6, <1>3, <2>3, <2>4, "EXEC_RESUME" \in AllHostCmds
       DEF HostExecResume, AllHostCmds, Queues, S_STEP_EXEC
<1>7. CASE HostExecStop(S)
  <2>1. m_cmd_queue' \in Queues
    BY <1>2, <1>7, PushedType, <1>1, "EXEC_STOP" \in Command DEF HostExecStop, Command
  <2>2. runStatus' \in [Chans -> RunStatus]
    <3>1. ASSUME NEW r \in RunStatus PROVE [r EXCEPT !.Active = 0, !.Finish = 0] \in RunStatus
      BY DEF RunStatus
    <3>2. QED
      BY <1>7, <3>1 DEF HostExecStop
  <2>3. saveStatus' \in [Chans -> SaveStatus]
    BY <1>7, SavedActiveType DEF HostExecStop
  <2>4. QED
    BY <1>7, <1>3, <2>1, <2>2, <2>3, "EXEC_STOP" \in AllHostCmds
       DEF HostExecStop, AfterStop, Leave, AllHostCmds, Queues, S_PROCESS_IDLE
<1>8. CASE HostExecJump(S)
  BY <1>8, <1>3, "EXEC_JUMP" \in AllHostCmds DEF HostExecJump, AllHostCmds, S_START_STEP
<1>9. CASE HostSetStep(S)
  BY <1>9, <1>3, "SET_STEP" \in AllHostCmds DEF HostSetStep, AllHostCmds, RunStatus, ZeroRun
<1>10. CASE HostClearWarning(S)
  <2>1. m_cmd_queue' \in Queues
    BY <1>2, <1>10, PushedType, <1>1, "CFG" \in Command DEF HostClearWarning, Command
  <2>2. QED
    BY <1>10, <1>3, <2>1, "CLEAR_WARNING" \in AllHostCmds DEF HostClearWarning, AllHostCmds, Queues
<1>11. CASE HostBarcode(S)
  <2>1. module' \in [Chans -> ModuleState] /\ m_pause_cmd_flg' \in [Chans -> BOOLEAN]
    BY <1>11, StoppedType, PauseFlagsType DEF HostBarcode, ModuleState
  <2>2. QED
    BY <1>11, <1>3, <2>1, "BARCODE" \in AllHostCmds DEF HostBarcode, AllHostCmds, ModuleState
<1>12. QED
  BY <1>4, <1>5, <1>6, <1>7, <1>8, <1>9, <1>10, <1>11 DEF Host

LEMMA TypeExec == ASSUME TypeOK, Exec PROVE TypeOK'
<1>1. /\ m_cmd_queue \in Queues /\ module \in [Chans -> ModuleState]
      /\ cache \in [Chans -> CacheState] /\ saveStatus \in [Chans -> SaveStatus]
      /\ m_pause_cmd_flg \in [Chans -> BOOLEAN]
  BY DEF TypeOK, Queues, ModuleState, CacheState
<1> DEFINE Wired == /\ m_cmd_queue' \in Queues /\ module' \in [Chans -> ModuleState]
                    /\ cache' \in [Chans -> CacheState]
<1>2. ASSUME Sends(m_cmd_queue, module) PROVE Wired
  BY <1>1, <1>2, SendsType
<1>3. ASSUME NEW S, Sends(m_cmd_queue, Stopped(S)) PROVE Wired
  BY <1>1, <1>3, SendsType, StoppedType
<1>4. ASSUME NEW s, ExecPart(s)
      PROVE  /\ pc' \in {"msg", "exec", "handle", "tick"} /\ alarm' \in [Chans -> BOOLEAN]
             /\ run_state' \in [Chans -> RunState] /\ m_is_connected' \in [Chans -> BOOLEAN]
             /\ pins_cell_status' \in PinsStatus /\ last_fire_level' \in {0, 11, 12, 13}
             /\ hosts' \in [AllHostCmds -> Nat] /\ faults' \in Nat /\ crashes' \in Nat
  BY <1>4 DEF ExecPart, TypeOK, used
<1> USE DEF TypeOK, masks, press, States, PinsCommand, S_NONE, S_PROCESS_START,
            S_FIREDOOR_CLOSE, S_TRAY_PRESS, S_START_STEP, S_STEP_EXEC, S_PROCESS_END,
            S_PROCESS_ERROR, S_PROCESS_IDLE
<1>5. CASE ProcessStart
  <2>1. Wired
    BY <1>5, <1>2 DEF ProcessStart
  <2>2. QED
    BY <1>5, <1>4, <2>1 DEF ProcessStart, Queues, ModuleState, CacheState
<1>6. ASSUME NEW sec \in BOOLEAN, FireDoorCloseExec(sec) PROVE TypeOK'
  <2>1. Wired
    BY <1>6, <1>2 DEF FireDoorCloseExec
  <2>2. QED
    BY <1>6, <1>4, <2>1 DEF FireDoorCloseExec, Queues, ModuleState, CacheState
<1>7. ASSUME NEW sec \in BOOLEAN, TrayPressExec(sec) PROVE TypeOK'
  <2>1. Wired
    BY <1>7, <1>2 DEF TrayPressExec
  <2>2. QED
    BY <1>7, <1>4, <2>1 DEF TrayPressExec, Waited, Queues, ModuleState, CacheState
<1>8. ASSUME NEW go \in SUBSET Startable, NEW next \in SUBSET go,
             ChannelStepStartup(go, next)
      PROVE  TypeOK'
  <2>1. <<"STEP", IF jump_mask = {} THEN "EXEC_PROCESS" ELSE "EXEC_JUMP">> \in Seq(Command)
    BY DEF Command
  <2>2. Wired
    BY <1>1, <1>8, <2>1, PushedType, SendsType DEF ChannelStepStartup
  <2>3. saveStatus' \in [Chans -> SaveStatus]
    BY <1>1, <1>8, SavedActiveType DEF ChannelStepStartup
  <2>4. runStatus' \in [Chans -> RunStatus]
    BY <1>8 DEF ChannelStepStartup, RunStatus
  <2>5. QED
    BY <1>8, <1>4, <2>2, <2>3, <2>4 DEF ChannelStepStartup, Queues, ModuleState, CacheState
<1>9. ASSUME NEW res, ChannelStepExecute(res) PROVE TypeOK'
  <2> DEFINE q == [c \in Chans |-> IF c \in Due THEN m_cmd_queue[c] \o res[c].push
                                   ELSE m_cmd_queue[c]]
  <2>1. ASSUME NEW c \in Due PROVE res[c].run \in RunStatus /\ res[c].push \in Seq(Command)
    BY <1>9, StepResultsType DEF ChannelStepExecute, Due
  <2>2. ASSUME NEW c \in Due PROVE m_cmd_queue[c] \o res[c].push \in Seq(Command)
    BY <1>1, <2>1, ConcatProperties DEF Due, Queues
  <2>3. q \in Queues
    BY <1>1, <2>2 DEF Queues
  <2>4. Sends(q, module)
    BY <1>9 DEF ChannelStepExecute
  <2> HIDE DEF q
  <2>5. Wired
    BY <1>1, <2>3, <2>4, SendsType
  <2>6. runStatus' \in [Chans -> RunStatus]
    BY <1>9, <2>1 DEF ChannelStepExecute
  <2>7. saveStatus' \in [Chans -> SaveStatus]
    <3>1. ASSUME NEW r \in RunStatus PROVE [Active |-> r.Active, JumpTo |-> r.JumpTo] \in SaveStatus
      BY DEF RunStatus, SaveStatus
    <3>2. QED
      BY <1>1, <1>9, <2>1, <3>1 DEF ChannelStepExecute
  <2>8. start_mask' \subseteq Chans /\ end_mask' \subseteq Chans
    BY <1>9 DEF ChannelStepExecute, Due
  <2>9. stepcache_empty' \in [Chans -> BOOLEAN]
    BY <1>9 DEF ChannelStepExecute
  <2>10. /\ m_state' \in States /\ m_last_state' \in States /\ pins_cmd' \in PinsCommand
         /\ m_sync_timeout' \in Nat /\ jump_mask' \subseteq Chans /\ error_mask' \subseteq Chans
         /\ m_pause_cmd_flg' \in [Chans -> BOOLEAN]
    BY <1>9 DEF ChannelStepExecute
  <2>11. ExecPart(S_STEP_EXEC)
    BY <1>9 DEF ChannelStepExecute
  <2>12. QED
    BY <1>4, <2>5, <2>6, <2>7, <2>8, <2>9, <2>10, <2>11 DEF Queues, ModuleState, CacheState
<1>10. ASSUME NEW sec \in BOOLEAN, ProcessEnd(sec) PROVE TypeOK'
  <2>1. Wired
    BY <1>10, <1>2, <1>3 DEF ProcessEnd
  <2>2. m_pause_cmd_flg' \in [Chans -> BOOLEAN]
    BY <1>1, <1>10, PauseFlagsType DEF ProcessEnd
  <2>3. QED
    BY <1>10, <1>4, <2>1, <2>2 DEF ProcessEnd, Leave, Queues, ModuleState, CacheState
<1>11. CASE ProcessErrorProc
  <2>1. Wired
    BY <1>11, <1>3 DEF ProcessErrorProc
  <2>2. m_pause_cmd_flg' \in [Chans -> BOOLEAN]
    BY <1>1, <1>11, PauseFlagsType DEF ProcessErrorProc
  <2>3. saveStatus' \in [Chans -> SaveStatus]
    BY <1>1, <1>11, SavedActiveType DEF ProcessErrorProc
  <2>4. runStatus' \in [Chans -> RunStatus]
    BY <1>11 DEF ProcessErrorProc, RunStatus, ZeroRun
  <2>5. QED
    BY <1>11, <1>4, <2>1, <2>2, <2>3, <2>4
       DEF ProcessErrorProc, Leave, Queues, ModuleState, CacheState
<1>12. CASE ExecNothing
  <2>1. Wired
    BY <1>12, <1>2 DEF ExecNothing
  <2>2. QED
    BY <1>12, <1>4, <2>1 DEF ExecNothing, Queues, ModuleState, CacheState
<1>13. QED
  BY <1>5, <1>6, <1>7, <1>8, <1>9, <1>10, <1>11, <1>12 DEF Exec

LEMMA TypeHandle ==
  ASSUME TypeOK, NEW rec \in Records, NEW resumed, NEW second \in BOOLEAN,
         Handle(rec, resumed, second)
  PROVE  TypeOK'
<1>1. Cardinality({c \in Chans : rec[c].fault # "no"}) \in Nat
  BY CellAssumption, FS_Subset, FS_CardinalityType DEF CellAssumption
<1>2. ASSUME NEW c \in Chans, rec[c].kind # "none" PROVE Reported(rec[c]) \in RunState
  BY DEF Reported, RunState
<1>3. ASSUME NEW c \in Chans PROVE ModuleAfter(c, rec[c]) \in ModuleState
  BY DEF ModuleAfter, ModuleState, TypeOK
<1> USE DEF TypeOK, States, S_STEP_EXEC, S_NONE, S_START_STEP
<1>4. runStatus' \in [Chans -> RunStatus]
  <2>1. ASSUME NEW r \in RunStatus PROVE [r EXCEPT !.Finish = 1] \in RunStatus
    BY DEF RunStatus
  <2>2. QED
    BY <2>1 DEF Handle
<1>5. saveStatus' \in [Chans -> SaveStatus]
  BY SavedActiveType DEF Handle
<1>6. module' \in [Chans -> ModuleState]
  BY <1>3 DEF Handle, ModuleState
<1>7. run_state' \in [Chans -> RunState]
  BY <1>2 DEF Handle
<1>8. start_mask' \subseteq Chans /\ end_mask' \subseteq Chans /\ error_mask' \subseteq Chans
  BY DEF Handle, Leave
<1>9. faults' \in Nat
  BY <1>1 DEF Handle
<1>10. /\ alarm' \in [Chans -> BOOLEAN] /\ stepcache_empty' \in [Chans -> BOOLEAN]
       /\ m_pause_cmd_flg' \in [Chans -> BOOLEAN]
       /\ cache' \in [Chans -> {"none", "step", "end"}]
  BY DEF Handle
<1>11. m_state' \in States /\ pc' \in {"msg", "exec", "handle", "tick"}
  BY DEF Handle
<1>12. UNCHANGED <<m_last_state, m_sync_timeout, jump_mask, m_cmd_queue, m_is_connected,
                   pins_cell_status, pins_cmd, last_fire_level, hosts, crashes>>
  BY DEF Handle, press
<1>13. QED
  BY <1>4, <1>5, <1>6, <1>7, <1>8, <1>9, <1>10, <1>11, <1>12 DEF ModuleState

LEMMA TypeNext == TypeOK /\ [Next]_vars => TypeOK'
<1> SUFFICES ASSUME TypeOK, [Next]_vars PROVE TypeOK'
  OBVIOUS
<1>1. /\ module \in [Chans -> ModuleState] /\ m_pause_cmd_flg \in [Chans -> BOOLEAN]
  BY DEF TypeOK, ModuleState
<1> USE DEF TypeOK, masks, press, chan, wire, used, States, S_NONE, S_PROCESS_ERROR,
            S_PROCESS_IDLE
<1>2. ASSUME NEW c \in Chans, LinkUp(c) \/ LinkDown(c) \/ ModuleAlone(c) PROVE TypeOK'
  <2>1. CASE LinkUp(c)
    BY <2>1 DEF LinkUp
  <2>2. CASE LinkDown(c)
    BY <2>2 DEF LinkDown
  <2>3. CASE ModuleAlone(c)
    BY <2>3 DEF ModuleAlone
  <2>4. QED
    BY <1>2, <2>1, <2>2, <2>3
<1>3. ASSUME NEW S \in (SUBSET Chans) \ {{}}, Host(S) PROVE TypeOK'
  BY <1>3, TypeHost
<1>4. ASSUME NEW p \in PinsInputs, PinsStatusSync(p) PROVE TypeOK'
  BY <1>4, CellAssumption DEF PinsStatusSync, CellAssumption, PinsStatus
<1>5. CASE PinsAlarm
  BY <1>5 DEF PinsAlarm
<1>6. CASE Drained
  BY <1>6 DEF Drained
<1>7. CASE Exec
  BY <1>7, TypeExec
<1>8. ASSUME NEW rec \in Records, NEW resumed, NEW second \in BOOLEAN,
             Handle(rec, resumed, second)
      PROVE  TypeOK'
  BY <1>8, TypeHandle
<1>9. ASSUME NEW level \in FireLevels, FireProtection(level) PROVE TypeOK'
  <2>1. module' \in [Chans -> ModuleState] /\ m_pause_cmd_flg' \in [Chans -> BOOLEAN]
    BY <1>1, <1>9, StoppedType, PauseFlagsType DEF FireProtection
  <2>2. QED
    BY <1>9, <2>1, CellAssumption DEF FireProtection, CellAssumption, PinsCommand, ModuleState
<1>10. CASE Restart
  BY <1>10 DEF Restart, RunStatus, SaveStatus, PinsStatus, PinsCommand, RunState
<1>11. CASE UNCHANGED vars
  BY <1>11 DEF vars
<1>12. QED
  BY <1>2, <1>3, <1>4, <1>5, <1>6, <1>7, <1>8, <1>9, <1>10, <1>11 DEF Next

\* Every variable keeps its type, the states are the nine of Process_work_state_e
\* that the grading build reaches.
THEOREM TypeCorrect == Spec => []TypeOK
BY TypeInit, TypeNext, PTL DEF Spec

-----------------------------------------------------------------------------
(* ActiveSaved.  The inductive invariant speaks of every channel, for a jump   *)
(* starts channels outside the start mask, and adds that no alarm is pending.  *)
(* Two things break it and are excluded: an alarm clears the stored flag of a  *)
(* channel and leaves the running one set, and EXEC_RESUME sets the running    *)
(* one without storing it.                                                     *)

NoAlarm == Faults \cap {"mid", "low", "rep", "clear"} = {}
NoResume == MaxHost["EXEC_RESUME"] = 0

Saved ==
  /\ \A c \in Chans : ~alarm[c]
  /\ \A c \in Chans : runStatus[c].Active = 1 => saveStatus[c].Active = 1

LEMMA SavedActiveOn ==
  ASSUME TypeOK, NEW S, NEW en \in {0, 1}, NEW c \in Chans
  PROVE  SavedActive(S, en)[c].Active = IF c \in S THEN en ELSE saveStatus[c].Active
BY DEF SavedActive, TypeOK, SaveStatus

LEMMA SavedHost ==
  ASSUME TypeOK, Saved, NoResume, NEW S \in (SUBSET Chans) \ {{}}, Host(S)
  PROVE  Saved'
<1>1. CASE HostExecProcess(S)
  BY <1>1 DEF HostExecProcess, HostInput, wire, Saved
<1>2. CASE HostExecPause(S)
  BY <1>2 DEF HostExecPause, Saved
<1>3. CASE HostExecResume(S)
  BY <1>3 DEF HostExecResume, HostInput, NoResume, TypeOK, AllHostCmds
<1>4. CASE HostExecStop(S)
  <2>1. ASSUME NEW c \in Chans
        PROVE  runStatus'[c].Active = IF c \in S THEN 0 ELSE runStatus[c].Active
    <3>1. ASSUME NEW r \in RunStatus PROVE [r EXCEPT !.Active = 0, !.Finish = 0].Active = 0
      BY DEF RunStatus
    <3>2. runStatus'[c] = IF c \in S THEN [runStatus[c] EXCEPT !.Active = 0, !.Finish = 0]
                          ELSE runStatus[c]
      BY <1>4 DEF HostExecStop
    <3>3. runStatus[c] \in RunStatus
      BY DEF TypeOK
    <3>4. QED
      BY <3>1, <3>2, <3>3
  <2>2. ASSUME NEW c \in Chans
        PROVE  saveStatus'[c].Active = IF c \in S THEN 0 ELSE saveStatus[c].Active
    BY <1>4, SavedActiveOn DEF HostExecStop
  <2>3. QED
    BY <1>4, <2>1, <2>2 DEF HostExecStop, Saved
<1>5. CASE HostExecJump(S)
  BY <1>5 DEF HostExecJump, Saved
<1>6. CASE HostSetStep(S)
  BY <1>6 DEF HostSetStep, chan, Saved, ZeroRun, TypeOK
<1>7. CASE HostClearWarning(S)
  BY <1>7 DEF HostClearWarning, Saved
<1>8. CASE HostBarcode(S)
  BY <1>8 DEF HostBarcode, Saved
<1>9. QED
  BY <1>1, <1>2, <1>3, <1>4, <1>5, <1>6, <1>7, <1>8 DEF Host

LEMMA SavedExec == ASSUME TypeOK, Saved, Exec PROVE Saved'
<1> USE DEF Saved, ExecPart
<1>1. CASE ProcessStart
  BY <1>1 DEF ProcessStart
<1>2. ASSUME NEW sec \in BOOLEAN, FireDoorCloseExec(sec) PROVE Saved'
  BY <1>2 DEF FireDoorCloseExec
<1>3. ASSUME NEW sec \in BOOLEAN, TrayPressExec(sec) PROVE Saved'
  BY <1>3 DEF TrayPressExec
<1>4. ASSUME NEW go, NEW next, ChannelStepStartup(go, next) PROVE Saved'
  <2>1. ASSUME NEW c \in Chans, c \notin go
        PROVE  runStatus'[c] = runStatus[c] /\ saveStatus'[c].Active = saveStatus[c].Active
    BY <1>4, <2>1, SavedActiveOn DEF ChannelStepStartup, TypeOK
  <2>2. ASSUME NEW c \in Chans, c \in go PROVE saveStatus'[c].Active = 1
    BY <1>4, <2>2, SavedActiveOn DEF ChannelStepStartup
  <2>3. QED
    BY <1>4, <2>1, <2>2 DEF ChannelStepStartup
<1>5. ASSUME NEW res, ChannelStepExecute(res) PROVE Saved'
  <2>1. ASSUME NEW c \in Due
        PROVE  res[c].save \/ res[c].run.Active = runStatus[c].Active
    <3>1. runStatus[c].Active = 1 /\ res[c] \in StepResults(c)
      BY <1>5 DEF ChannelStepExecute, Due
    <3>2. ASSUME NEW j, NEW fin, NEW push, res[c] = Follow(j, fin, push)
          PROVE  res[c].run.Active = 1
      BY <3>2 DEF Follow
    <3>3. \/ res[c].run = runStatus[c]
          \/ \E j, fin, push : res[c] = Follow(j, fin, push)
          \/ res[c].save
      BY <3>1 DEF StepResults
    <3>4. QED
      BY <3>1, <3>2, <3>3
  <2>2. ASSUME NEW c \in Due, res[c].save
        PROVE  saveStatus'[c].Active = runStatus'[c].Active
    BY <1>5, <2>2 DEF ChannelStepExecute, Due
  <2>3. ASSUME NEW c \in Due, ~res[c].save
        PROVE  saveStatus'[c] = saveStatus[c] /\ runStatus'[c].Active = runStatus[c].Active
    BY <1>5, <2>1, <2>3 DEF ChannelStepExecute, Due
  <2>4. ASSUME NEW c \in Chans \ Due
        PROVE  saveStatus'[c] = saveStatus[c] /\ runStatus'[c] = runStatus[c]
    BY <1>5, <2>4 DEF ChannelStepExecute
  <2>5. \A c \in Chans : ~alarm'[c]
    BY <1>5 DEF ChannelStepExecute
  <2>6. QED
    BY <2>2, <2>3, <2>4, <2>5 DEF TypeOK, RunStatus
<1>6. ASSUME NEW sec \in BOOLEAN, ProcessEnd(sec) PROVE Saved'
  BY <1>6 DEF ProcessEnd
<1>7. CASE ProcessErrorProc
  <2>1. ASSUME NEW c \in Chans
        PROVE  runStatus'[c].Active = IF c \in start_mask THEN 0 ELSE runStatus[c].Active
    BY <1>7 DEF ProcessErrorProc, ZeroRun, TypeOK
  <2>2. ASSUME NEW c \in Chans, c \notin start_mask
        PROVE  saveStatus'[c].Active = saveStatus[c].Active
    BY <1>7, <2>2, SavedActiveOn DEF ProcessErrorProc
  <2>3. QED
    BY <1>7, <2>1, <2>2 DEF ProcessErrorProc
<1>8. CASE ExecNothing
  BY <1>8 DEF ExecNothing
<1>9. QED
  BY <1>1, <1>2, <1>3, <1>4, <1>5, <1>6, <1>7, <1>8 DEF Exec

\* Without alarm rules and module alarms no record carries a fault.
LEMMA SavedHandle ==
  ASSUME TypeOK, Saved, NoAlarm, NEW rec \in Records, NEW resumed, NEW second,
         Handle(rec, resumed, second)
  PROVE  Saved'
<1>1. ASSUME NEW c \in Chans PROVE rec[c].fault = "no"
  <2>1. CASE rec[c] = NoRecord
    BY <2>1 DEF NoRecord
  <2>2. CASE rec[c] \in [kind : KindsNow(c), fault : FaultsNow(c)]
    <3>1. rec[c].fault \in FaultsNow(c)
      BY <2>2
    <3>2. FaultsNow(c) \subseteq {"no"} \cup (Faults \ {"pins", "link"})
      BY DEF FaultsNow
    <3>3. Faults \subseteq {"pins", "link"}
      BY CellAssumption DEF CellAssumption, NoAlarm, AllFaults
    <3>4. QED
      BY <3>1, <3>2, <3>3
  <2>3. QED
    BY <2>1, <2>2 DEF Records, RecordsOf
<1>2. ASSUME NEW c \in Chans PROVE ~alarm'[c]
  BY <1>1 DEF Handle, Saved
<1>3. ASSUME NEW c \in Chans PROVE runStatus'[c].Active = runStatus[c].Active
  <2>1. ASSUME NEW r \in RunStatus PROVE [r EXCEPT !.Finish = 1].Active = r.Active
    BY DEF RunStatus
  <2>2. QED
    BY <2>1 DEF Handle, TypeOK
<1>4. saveStatus' = saveStatus
  <2> DEFINE new == {c \in Chans : rec[c].kind # "none"}
             err == {c \in new : \/ rec[c].fault \in {"mid", "low", "rep"}
                                 \/ alarm[c] /\ rec[c].fault # "clear"}
  <2>1. err = {}
    BY <1>1 DEF Saved
  <2>2. saveStatus' = SavedActive(start_mask \cap err, 0)
    BY DEF Handle
  <2>3. QED
    BY <2>1, <2>2 DEF SavedActive, TypeOK
<1>5. QED
  BY <1>2, <1>3, <1>4 DEF Saved

LEMMA SavedNext ==
  ASSUME TypeOK, Saved, NoAlarm, NoResume, [Next]_vars
  PROVE  Saved'
<1> USE DEF Saved, chan
<1>1. ASSUME NEW c \in Chans, LinkUp(c) \/ LinkDown(c) \/ ModuleAlone(c) PROVE Saved'
  BY <1>1 DEF LinkUp, LinkDown, ModuleAlone
<1>2. ASSUME NEW S \in (SUBSET Chans) \ {{}}, Host(S) PROVE Saved'
  BY <1>2, SavedHost
<1>3. ASSUME NEW p \in PinsInputs, PinsStatusSync(p) PROVE Saved'
  BY <1>3 DEF PinsStatusSync
<1>4. CASE PinsAlarm
  BY <1>4 DEF PinsAlarm
<1>5. CASE Drained
  BY <1>5 DEF Drained
<1>6. CASE Exec
  BY <1>6, SavedExec
<1>7. ASSUME NEW rec \in Records, NEW resumed, NEW second, Handle(rec, resumed, second)
      PROVE  Saved'
  BY <1>7, SavedHandle
<1>8. ASSUME NEW level, FireProtection(level) PROVE Saved'
  BY <1>8 DEF FireProtection
<1>9. CASE Restart
  BY <1>9 DEF Restart
<1>10. CASE UNCHANGED vars
  BY <1>10 DEF vars
<1>11. QED
  BY <1>1, <1>2, <1>3, <1>4, <1>5, <1>6, <1>7, <1>8, <1>9, <1>10 DEF Next

\* Where no alarm occurs and the host does not resume, a running channel of the
\* process is stored as active at every moment, so also when the program dies.
THEOREM ActiveSavedThm ==
  ASSUME NoAlarm, NoResume
  PROVE  Spec => []ActiveSaved
<1>1. Init => Saved
  BY DEF Init, Saved, ZeroRun
<1>2. TypeOK /\ Saved /\ [Next]_vars => Saved'
  BY SavedNext
<1>3. TypeOK /\ Saved => ActiveSaved
  BY DEF TypeOK, Saved, ActiveSaved
<1>4. QED
  BY <1>1, <1>2, <1>3, TypeCorrect, PTL DEF Spec

-----------------------------------------------------------------------------
(* IdleQuiet.  What a queue will make of its module: a command that starts,    *)
(* and a stop behind which no such command waits.                              *)

Starts == {"EXEC_PROCESS", "EXEC_JUMP"}
NoStarts(q) == \A i \in DOMAIN q : q[i] \notin Starts
OneStart(q) == \A i, j \in DOMAIN q : q[i] \in Starts /\ q[j] \in Starts => i = j
Stops(q) == \E i \in DOMAIN q :
  q[i] = "EXEC_STOP" /\ \A j \in DOMAIN q : j > i => q[j] \notin Starts
Still == {"off", "stopping"}

\* A command that does not start anything may be added to any queue.
LEMMA AddOther ==
  ASSUME NEW q \in Seq(Command), NEW s \in Seq(Command), NoStarts(s)
  PROVE  /\ NoStarts(q) => NoStarts(q \o s)
         /\ ~NoStarts(q \o s) => ~NoStarts(q)
         /\ OneStart(q) => OneStart(q \o s)
         /\ Stops(q) => Stops(q \o s)
<1> DEFINE t == q \o s
<1>1. /\ t \in Seq(Command) /\ Len(t) = Len(q) + Len(s)
      /\ \A i \in 1..Len(t) : t[i] = IF i <= Len(q) THEN q[i] ELSE s[i - Len(q)]
  BY ConcatProperties
<1>2. /\ Len(q) \in Nat /\ Len(s) \in Nat /\ DOMAIN q = 1..Len(q) /\ DOMAIN s = 1..Len(s)
      /\ DOMAIN t = 1..Len(t)
  BY <1>1, LenProperties
<1> HIDE DEF t
<1>3. ASSUME NEW i \in DOMAIN q PROVE i \in DOMAIN t /\ t[i] = q[i]
  BY <1>1, <1>2
<1>4. ASSUME NEW i \in DOMAIN t, t[i] \in Starts PROVE i \in DOMAIN q /\ t[i] = q[i]
  <2>1. CASE i <= Len(q)
    BY <1>1, <1>2, <2>1
  <2>2. CASE ~(i <= Len(q))
    <3>1. i - Len(q) \in DOMAIN s
      BY <1>1, <1>2, <2>2
    <3>2. t[i] = s[i - Len(q)]
      BY <1>1, <1>2, <2>2
    <3> QED  BY <1>4, <3>1, <3>2 DEF NoStarts
  <2> QED  BY <2>1, <2>2
<1>5. NoStarts(q) => NoStarts(t)
  BY <1>4, Zenon DEF NoStarts
<1>6. OneStart(q) => OneStart(t)
  BY <1>4, Zenon DEF OneStart
<1>7. Stops(q) => Stops(t)
  BY <1>3, <1>4, Zenon DEF Stops
<1> QED  BY <1>5, <1>6, <1>7, Zenon DEF t

\* Behind a stop at the end of the queue nothing starts.
LEMMA AddStop ==
  ASSUME NEW q \in Seq(Command)
  PROVE  Stops(q \o <<"EXEC_STOP">>)
<1> DEFINE t == q \o <<"EXEC_STOP">>
<1>1. <<"EXEC_STOP">> \in Seq(Command)
  BY DEF Command
<1>2. Len(t) = Len(q) + 1 /\ t[Len(q) + 1] = "EXEC_STOP" /\ Len(q) \in Nat
      /\ DOMAIN t = 1..Len(t)
  BY <1>1, ConcatProperties, LenProperties
<1> HIDE DEF t
<1>3. Len(q) + 1 \in DOMAIN t /\ \A j \in DOMAIN t : ~(j > Len(q) + 1)
  BY <1>2
<1>4. Stops(t)
  BY <1>2, <1>3, Zenon DEF Stops
<1> QED  BY <1>4 DEF t

LEMMA AddStart ==
  ASSUME NEW q \in Seq(Command), NoStarts(q), NEW x \in Command
  PROVE  OneStart(q \o <<"STEP", x>>)
<1> DEFINE t == q \o <<"STEP", x>>
<1>1. <<"STEP", x>> \in Seq(Command) /\ Len(<<"STEP", x>>) = 2
  BY DEF Command
<1>2. /\ Len(q) \in Nat /\ DOMAIN q = 1..Len(q) /\ DOMAIN t = 1..(Len(q) + 2)
      /\ \A i \in 1..(Len(q) + 2) : t[i] = IF i <= Len(q) THEN q[i] ELSE <<"STEP", x>>[i - Len(q)]
  BY <1>1, ConcatProperties, LenProperties
<1> HIDE DEF t
<1>3. ASSUME NEW i \in DOMAIN t, t[i] \in Starts PROVE i = Len(q) + 2
  <2>1. CASE i <= Len(q)
    BY <1>2, <1>3, <2>1 DEF NoStarts
  <2>2. CASE i = Len(q) + 1
    BY <1>2, <1>3, <2>2 DEF Starts
  <2> QED  BY <1>2, <2>1, <2>2
<1>4. OneStart(t)
  BY <1>3, Zenon DEF OneStart
<1> QED  BY <1>4 DEF t

\* The first command leaves the queue.
LEMMA TakeFirst ==
  ASSUME NEW q \in Seq(Command), q # <<>>
  PROVE  /\ NoStarts(q) => NoStarts(Tail(q)) /\ Head(q) \notin Starts
         /\ OneStart(q) => OneStart(Tail(q))
         /\ OneStart(q) /\ ~NoStarts(Tail(q)) => Head(q) \notin Starts /\ ~NoStarts(q)
         /\ Stops(q) => Stops(Tail(q)) \/ (Head(q) = "EXEC_STOP" /\ NoStarts(Tail(q)))
<1> DEFINE t == Tail(q)
<1>1. /\ Len(q) \in Nat /\ Len(q) >= 1 /\ DOMAIN q = 1..Len(q) /\ DOMAIN t = 1..(Len(q) - 1)
      /\ Head(q) = q[1] /\ \A i \in 1..(Len(q) - 1) : t[i] = q[i + 1]
  BY HeadTailProperties, EmptySeq, LenProperties
<1> HIDE DEF t
<1>2. ASSUME NEW i \in DOMAIN t PROVE i + 1 \in DOMAIN q /\ t[i] = q[i + 1] /\ i + 1 # 1
  BY <1>1
<1>3. ASSUME NEW i \in DOMAIN q, i # 1 PROVE i - 1 \in DOMAIN t /\ t[i - 1] = q[i]
  BY <1>1, <1>3
<1>4. 1 \in DOMAIN q /\ Head(q) = q[1]
  BY <1>1
<1>5. NoStarts(q) => NoStarts(t) /\ Head(q) \notin Starts
  BY <1>2, <1>4, Zenon DEF NoStarts
<1>6. OneStart(q) => OneStart(t)
  <2>1. ASSUME OneStart(q), NEW i \in DOMAIN t, NEW j \in DOMAIN t, t[i] \in Starts, t[j] \in Starts
        PROVE  i = j
    <3>1. i + 1 = j + 1
      BY <1>2, <2>1 DEF OneStart
    <3> QED  BY <1>1, <3>1
  <2> QED  BY <2>1 DEF OneStart
<1>7. OneStart(q) /\ ~NoStarts(t) => Head(q) \notin Starts /\ ~NoStarts(q)
  BY <1>2, <1>4 DEF OneStart, NoStarts
<1>8. Stops(q) => Stops(t) \/ (Head(q) = "EXEC_STOP" /\ NoStarts(t))
  <2>1. ASSUME NEW i \in DOMAIN q, q[i] = "EXEC_STOP",
               \A j \in DOMAIN q : j > i => q[j] \notin Starts
        PROVE  Stops(t) \/ (Head(q) = "EXEC_STOP" /\ NoStarts(t))
    <3>1. CASE i = 1
      <4>1. ASSUME NEW j \in DOMAIN t PROVE t[j] \notin Starts
        BY <1>1, <2>1, <3>1
      <4> QED  BY <1>4, <2>1, <3>1, <4>1 DEF NoStarts
    <3>2. CASE i # 1
      <4>1. i - 1 \in DOMAIN t /\ t[i - 1] = "EXEC_STOP"
        BY <1>3, <2>1, <3>2
      <4>2. ASSUME NEW j \in DOMAIN t, j > i - 1 PROVE t[j] \notin Starts
        BY <1>1, <2>1, <4>2
      <4> QED  BY <4>1, <4>2 DEF Stops
    <3> QED  BY <3>1, <3>2
  <2> QED  BY <2>1 DEF Stops
<1> QED  BY <1>5, <1>6, <1>7, <1>8 DEF t

-----------------------------------------------------------------------------
\* The module has ended or is ending, or will after what its queue still holds.
Calm(q, m) == NoStarts(q) /\ m \in Still
Halts(q, m) == Stops(q) \/ Calm(q, m)

\* The one process has not begun to start its channels.
Before == hosts["EXEC_PROCESS"] = 0
          \/ m_state \in {S_PROCESS_START, S_FIREDOOR_CLOSE, S_TRAY_PRESS, S_START_STEP}
Unstarted(c) == /\ NoStarts(m_cmd_queue[c]) /\ module[c] = "off"
                /\ ~alarm[c] /\ run_state[c] = "other"
NotBegun == Before => end_mask = {} /\ \A c \in Chans : Unstarted(c)
Waiting == hosts["EXEC_PROCESS"] = 0 => m_state \in {S_NONE, S_PROCESS_IDLE} /\ start_mask = {}

\* A queued start is the only one, for a module that never ran and is not done.
StartQueued == \A c \in Chans :
  /\ OneStart(m_cmd_queue[c])
  /\ ~NoStarts(m_cmd_queue[c])
       => module[c] = "off" /\ runStatus[c].Finish = 0 /\ c \notin end_mask
Linked == \A c \in Chans : module[c] # "off" => m_is_connected[c]
ErrorUnstarted == m_state = S_PROCESS_ERROR => \A c \in start_mask : NoStarts(m_cmd_queue[c])
WillStop == \A c \in Chans : c \notin start_mask \/ alarm[c] => Halts(m_cmd_queue[c], module[c])

QuietInv == /\ jump_mask = {} /\ Waiting /\ NotBegun /\ StartQueued /\ Linked
            /\ ErrorUnstarted /\ WillStop

OneProcess == MaxHost["EXEC_PROCESS"] <= 1 /\ MaxHost["EXEC_JUMP"] = 0 /\ MaxCrash = 0
\* The alarms reported by a module that runs, and none other.
RunningFaults == /\ Faults \subseteq {"mid", "low", "clear"}
                 /\ "idle" \in Kinds => Faults \subseteq {"clear"}

\* ChannelServer::execute starts a module only from its queue, and at a stop a
\* module that has something to end comes to its end.
LEMMA SendsKeep ==
  ASSUME NEW q \in Queues, NEW m \in [Chans -> ModuleState], Sends(q, m), NEW c \in Chans
  PROVE  /\ NoStarts(q[c]) => NoStarts(m_cmd_queue'[c])
         /\ NoStarts(q[c]) /\ m[c] = "off" => module'[c] = "off"
         /\ OneStart(q[c]) => OneStart(m_cmd_queue'[c])
         /\ OneStart(q[c]) /\ ~NoStarts(m_cmd_queue'[c]) /\ m[c] = "off" => module'[c] = "off"
         /\ ~NoStarts(m_cmd_queue'[c]) => ~NoStarts(q[c])
         /\ module'[c] # "off" => m[c] # "off" \/ m_is_connected[c]
         /\ Halts(q[c], m[c]) => Halts(m_cmd_queue'[c], module'[c])
<1>1. q[c] \in Seq(Command) /\ m[c] \in ModuleState
  BY DEF Queues
<1>2. CASE ~(m_is_connected[c] /\ q[c] # <<>>)
  <2>1. m_cmd_queue'[c] = q[c] /\ module'[c] = m[c]
    BY <1>2 DEF Sends
  <2> QED  BY <2>1
<1>3. CASE m_is_connected[c] /\ q[c] # <<>>
  <2>1. m_cmd_queue'[c] = Tail(q[c]) /\ module'[c] = Taken(m[c], Head(q[c]))
    BY <1>3 DEF Sends
  <2>2. /\ NoStarts(q[c]) => NoStarts(Tail(q[c])) /\ Head(q[c]) \notin Starts
        /\ OneStart(q[c]) => OneStart(Tail(q[c]))
        /\ OneStart(q[c]) /\ ~NoStarts(Tail(q[c])) => Head(q[c]) \notin Starts /\ ~NoStarts(q[c])
        /\ Stops(q[c]) => Stops(Tail(q[c])) \/ (Head(q[c]) = "EXEC_STOP" /\ NoStarts(Tail(q[c])))
    BY <1>1, <1>3, TakeFirst
  <2>3. /\ Head(q[c]) \notin Starts /\ m[c] \in Still => Taken(m[c], Head(q[c])) \in Still
        /\ Head(q[c]) \notin Starts /\ m[c] = "off" => Taken(m[c], Head(q[c])) = "off"
        /\ Head(q[c]) = "EXEC_STOP" => Taken(m[c], Head(q[c])) \in Still
    BY DEF Taken, Starts, Still
  <2> QED  BY <1>3, <2>1, <2>2, <2>3, Zenon DEF Halts, Calm
<1> QED  BY <1>2, <1>3

\* A stop sent at once reaches every module that is not off, for each is linked.
LEMMA StoppedStill ==
  ASSUME TypeOK, Linked, NEW S, NEW c \in Chans
  PROVE  /\ c \in S => Stopped(S)[c] \in Still
         /\ c \notin S => Stopped(S)[c] = module[c]
         /\ Stopped(S)[c] = "off" <=> module[c] = "off"
         /\ module[c] \in Still => Stopped(S)[c] \in Still
BY DEF Stopped, Stoppable, Linked, Still, TypeOK

LEMMA QuietInit == Init => QuietInv
<1> SUFFICES ASSUME Init PROVE QuietInv
  OBVIOUS
<1>1. NoStarts(<<>>) /\ OneStart(<<>>)
  BY DEF NoStarts, OneStart
<1>2. \A c \in Chans : /\ m_cmd_queue[c] = <<>> /\ module[c] = "off" /\ ~alarm[c]
                       /\ run_state[c] = "other"
  BY DEF Init
<1>3. NotBegun
  BY <1>1, <1>2 DEF Init, NotBegun, Unstarted
<1>4. Waiting
  BY DEF Init, Waiting
<1>5. StartQueued /\ Linked /\ WillStop
  BY <1>1, <1>2 DEF StartQueued, Linked, WillStop, Halts, Calm, Still
<1>6. ErrorUnstarted /\ jump_mask = {}
  BY DEF Init, ErrorUnstarted, S_NONE, S_PROCESS_ERROR
<1> QED  BY <1>3, <1>4, <1>5, <1>6 DEF QuietInv

\* A step that starts nothing: its queues get no start, and a channel that leaves the
\* process or raises an alarm is stopped or will be.
ProcessKept ==
  /\ jump_mask' = {} /\ hosts'["EXEC_PROCESS"] = hosts["EXEC_PROCESS"]
  /\ Before' => Before /\ end_mask' = {}
  /\ hosts["EXEC_PROCESS"] = 0 => m_state' \in {S_NONE, S_PROCESS_IDLE} /\ start_mask' = {}
  /\ m_state' = S_PROCESS_ERROR => \A c \in start_mask' : NoStarts(m_cmd_queue'[c])
QueueKept(c) ==
  /\ NoStarts(m_cmd_queue[c]) => NoStarts(m_cmd_queue'[c])
  /\ OneStart(m_cmd_queue[c]) => OneStart(m_cmd_queue'[c])
  /\ ~NoStarts(m_cmd_queue'[c])
       => module'[c] = "off" /\ runStatus'[c].Finish = 0 /\ c \notin end_mask'
ModuleKept(c) ==
  /\ Before' => module'[c] = "off" /\ ~alarm'[c] /\ run_state'[c] = "other"
  /\ module'[c] # "off" => m_is_connected'[c]
  /\ Halts(m_cmd_queue[c], module[c]) => Halts(m_cmd_queue'[c], module'[c])
  /\ c \notin start_mask' \/ alarm'[c]
       => c \notin start_mask \/ alarm[c] \/ Halts(m_cmd_queue'[c], module'[c])

LEMMA QuietStep ==
  ASSUME QuietInv, ProcessKept, \A c \in Chans : QueueKept(c) /\ ModuleKept(c)
  PROVE  QuietInv'
<1> USE DEF ProcessKept, QueueKept, ModuleKept
<1>1. NotBegun'
  BY DEF QuietInv, NotBegun, Unstarted
<1>2. Waiting'
  BY DEF Waiting
<1>3. StartQueued' /\ Linked'
  BY DEF QuietInv, StartQueued, Linked
<1>4. ErrorUnstarted' /\ WillStop'
  BY DEF QuietInv, ErrorUnstarted, WillStop
<1> QED  BY <1>1, <1>2, <1>3, <1>4 DEF QuietInv

\* Commands that start nothing join some of the queues.
LEMMA PushedKeep ==
  ASSUME m_cmd_queue \in Queues, NEW S, NEW s \in Seq(Command), NoStarts(s), NEW c \in Chans
  PROVE  /\ NoStarts(m_cmd_queue[c]) => NoStarts(Pushed(S, s)[c])
         /\ OneStart(m_cmd_queue[c]) => OneStart(Pushed(S, s)[c])
         /\ ~NoStarts(Pushed(S, s)[c]) => ~NoStarts(m_cmd_queue[c])
         /\ Stops(m_cmd_queue[c]) => Stops(Pushed(S, s)[c])
<1>1. m_cmd_queue[c] \in Seq(Command)
  BY DEF Queues
<1>2. CASE c \in S
  <2>1. Pushed(S, s)[c] = m_cmd_queue[c] \o s
    BY <1>2 DEF Pushed
  <2> QED  BY <1>1, <2>1, AddOther
<1>3. CASE c \notin S
  <2>1. Pushed(S, s)[c] = m_cmd_queue[c]
    BY <1>3 DEF Pushed
  <2> QED  BY <2>1
<1> QED  BY <1>2, <1>3

LEMMA OneCommand ==
  ASSUME NEW x \in Command, x \notin Starts
  PROVE  <<x>> \in Seq(Command) /\ NoStarts(<<x>>)
BY DEF NoStarts

LEMMA QuietStart ==
  ASSUME TypeOK, QuietInv, OneProcess, NEW S \in (SUBSET Chans) \ {{}}, HostExecProcess(S)
  PROVE  QuietInv'
<1>1. hosts["EXEC_PROCESS"] = 0 /\ hosts'["EXEC_PROCESS"] = 1
  <2>1. "EXEC_PROCESS" \in AllHostCmds
    BY DEF AllHostCmds
  <2>2. hosts["EXEC_PROCESS"] \in Nat /\ hosts \in [AllHostCmds -> Nat]
    BY <2>1 DEF TypeOK
  <2>3. MaxHost["EXEC_PROCESS"] \in Nat /\ MaxHost["EXEC_PROCESS"] <= 1
    BY <2>1, CellAssumption DEF CellAssumption, OneProcess
  <2>4. /\ hosts["EXEC_PROCESS"] < MaxHost["EXEC_PROCESS"]
        /\ hosts' = [hosts EXCEPT !["EXEC_PROCESS"] = hosts["EXEC_PROCESS"] + 1]
    BY DEF HostExecProcess, HostInput
  <2>5. hosts["EXEC_PROCESS"] = 0
    BY <2>2, <2>3, <2>4
  <2> QED  BY <2>1, <2>2, <2>4, <2>5
<1>2. /\ m_state \in {S_NONE, S_PROCESS_IDLE} /\ start_mask = {} /\ end_mask = {}
      /\ \A c \in Chans : Unstarted(c)
  BY <1>1 DEF QuietInv, Waiting, NotBegun, Before
<1>3. S # {}
  OBVIOUS
<1>4. start_mask' = S
  BY <1>2 DEF HostExecProcess, Unstarted
<1>5. m_state' = S_PROCESS_START
  BY <1>3, <1>2, <1>4 DEF HostExecProcess, InProcess, S_NONE, S_PROCESS_IDLE, S_PROCESS_ERROR
<1>6. UNCHANGED <<m_cmd_queue, module, alarm, run_state, end_mask, runStatus, m_is_connected>>
      /\ jump_mask' = {}
  BY DEF HostExecProcess, wire
<1>7. NotBegun'
  BY <1>2, <1>6 DEF NotBegun, Unstarted
<1>8. Waiting'
  BY <1>1 DEF Waiting
<1>9. StartQueued' /\ Linked'
  BY <1>6 DEF QuietInv, StartQueued, Linked
<1>10. ErrorUnstarted'
  BY <1>5 DEF ErrorUnstarted, S_PROCESS_START, S_PROCESS_ERROR
<1>11. WillStop'
  BY <1>2, <1>6 DEF QuietInv, WillStop
<1> QED  BY <1>6, <1>7, <1>8, <1>9, <1>10, <1>11 DEF QuietInv


QueueGrows(c) ==
  /\ NoStarts(m_cmd_queue[c]) => NoStarts(m_cmd_queue'[c])
  /\ OneStart(m_cmd_queue[c]) => OneStart(m_cmd_queue'[c])
  /\ Stops(m_cmd_queue[c]) => Stops(m_cmd_queue'[c])

\* A step that leaves the process alone and starts no module.
LEMMA QuietPlain ==
  ASSUME TypeOK, QuietInv, jump_mask' = {}, hosts'["EXEC_PROCESS"] = hosts["EXEC_PROCESS"],
         UNCHANGED <<m_state, start_mask, end_mask, run_state>>,
         \A c \in Chans :
           /\ QueueGrows(c) /\ (alarm'[c] => alarm[c])
           /\ runStatus'[c].Finish \in {0, runStatus[c].Finish}
           /\ module'[c] = "off" <=> module[c] = "off"
           /\ module[c] \in Still => module'[c] \in Still
           /\ m_is_connected[c] => m_is_connected'[c]
  PROVE  QuietInv'
<1>1. Before' => Before /\ end_mask' = {} /\ \A c \in Chans : Unstarted(c)
  BY DEF Before, QuietInv, NotBegun
<1>2. ProcessKept
  <2>1. m_state' = S_PROCESS_ERROR => \A c \in start_mask' : NoStarts(m_cmd_queue'[c])
    BY DEF QuietInv, ErrorUnstarted, QueueGrows, TypeOK
  <2>2. hosts["EXEC_PROCESS"] = 0 => m_state' \in {S_NONE, S_PROCESS_IDLE} /\ start_mask' = {}
    BY DEF QuietInv, Waiting
  <2> QED  BY <1>1, <2>1, <2>2 DEF ProcessKept
<1>3. ASSUME NEW c \in Chans PROVE QueueKept(c)
  BY DEF QueueKept, QuietInv, StartQueued, QueueGrows
<1>4. ASSUME NEW c \in Chans PROVE ModuleKept(c)
  <2>1. Halts(m_cmd_queue[c], module[c]) => Halts(m_cmd_queue'[c], module'[c])
    BY DEF Halts, Calm, QueueGrows
  <2> QED  BY <1>1, <2>1 DEF ModuleKept, Unstarted, QuietInv, Linked
<1> QED  BY <1>2, <1>3, <1>4, QuietStep

LEMMA HostInputKeeps ==
  ASSUME TypeOK, NEW cmd \in AllHostCmds \ {"EXEC_PROCESS"}, HostInput(cmd)
  PROVE  hosts'["EXEC_PROCESS"] = hosts["EXEC_PROCESS"]
BY "EXEC_PROCESS" \in AllHostCmds DEF HostInput, TypeOK, AllHostCmds

LEMMA PushedGrows ==
  ASSUME TypeOK, NEW S, NEW x \in Command, x \notin Starts, m_cmd_queue' = Pushed(S, <<x>>),
         NEW c \in Chans
  PROVE  QueueGrows(c)
<1>1. m_cmd_queue \in Queues
  BY DEF TypeOK, Queues
<1>2. <<x>> \in Seq(Command) /\ NoStarts(<<x>>)
  BY OneCommand
<1> QED  BY <1>1, <1>2, PushedKeep DEF QueueGrows

LEMMA QuietPlainHost ==
  ASSUME TypeOK, QuietInv, NEW S \in (SUBSET Chans) \ {{}},
         HostExecPause(S) \/ HostSetStep(S) \/ HostClearWarning(S) \/ HostBarcode(S)
  PROVE  QuietInv'
<1>1. CASE HostExecPause(S)
  <2>1. hosts'["EXEC_PROCESS"] = hosts["EXEC_PROCESS"]
    BY <1>1, HostInputKeeps DEF HostExecPause, AllHostCmds
  <2>2. ASSUME NEW c \in Chans PROVE QueueGrows(c)
    BY <1>1, PushedGrows DEF HostExecPause, Command, Starts
  <2> QED  BY <1>1, <2>1, <2>2, QuietPlain DEF HostExecPause
<1>2. CASE HostSetStep(S)
  <2>1. hosts'["EXEC_PROCESS"] = hosts["EXEC_PROCESS"]
    BY <1>2, HostInputKeeps DEF HostSetStep, AllHostCmds
  <2>2. ASSUME NEW c \in Chans
        PROVE  QueueGrows(c) /\ runStatus'[c].Finish \in {0, runStatus[c].Finish}
    BY <1>2 DEF HostSetStep, wire, QueueGrows, ZeroRun, TypeOK
  <2> QED  BY <1>2, <2>1, <2>2, QuietPlain DEF HostSetStep, wire, chan, masks, QuietInv
<1>3. CASE HostClearWarning(S)
  <2>1. hosts'["EXEC_PROCESS"] = hosts["EXEC_PROCESS"]
    BY <1>3, HostInputKeeps DEF HostClearWarning, AllHostCmds
  <2>2. ASSUME NEW c \in Chans PROVE QueueGrows(c) /\ (alarm'[c] => alarm[c])
    BY <1>3, PushedGrows DEF HostClearWarning, Command, Starts
  <2> QED  BY <1>3, <2>1, <2>2, QuietPlain DEF HostClearWarning, masks, QuietInv
<1>4. CASE HostBarcode(S)
  <2>1. hosts'["EXEC_PROCESS"] = hosts["EXEC_PROCESS"]
    BY <1>4, HostInputKeeps DEF HostBarcode, AllHostCmds
  <2>2. ASSUME NEW c \in Chans
        PROVE  /\ QueueGrows(c)
               /\ module'[c] = "off" <=> module[c] = "off"
               /\ module[c] \in Still => module'[c] \in Still
    <3>1. Linked
      BY DEF QuietInv
    <3> QED  BY <1>4, <3>1, StoppedStill DEF HostBarcode, QueueGrows
  <2>3. /\ UNCHANGED <<m_state, start_mask, end_mask, run_state, runStatus, alarm, m_is_connected>>
        /\ jump_mask' = {}
    BY <1>4 DEF HostBarcode, masks, QuietInv
  <2> QED  BY <2>1, <2>2, <2>3, QuietPlain
<1> QED  BY <1>1, <1>2, <1>3, <1>4

\* A resumed channel had reported a pause, so its module was started before.
LEMMA QuietResume ==
  ASSUME TypeOK, QuietInv, NEW S \in (SUBSET Chans) \ {{}}, HostExecResume(S)
  PROVE  QuietInv'
<1> DEFINE back == {c \in S : run_state[c] = "pause"}
<1>1. hosts'["EXEC_PROCESS"] = hosts["EXEC_PROCESS"]
  BY HostInputKeeps DEF HostExecResume, AllHostCmds
<1>2. /\ start_mask' = start_mask \cup back
      /\ m_state' = IF start_mask' = {} THEN m_state ELSE S_STEP_EXEC
      /\ jump_mask' = {}
      /\ UNCHANGED <<end_mask, alarm, run_state, module, m_is_connected>>
  BY DEF HostExecResume
<1>3. ASSUME Before PROVE back = {} /\ end_mask = {} /\ \A c \in Chans : Unstarted(c)
  BY <1>3 DEF QuietInv, NotBegun, Unstarted
<1>4. Before' => Before
  BY <1>1, <1>2 DEF Before, S_STEP_EXEC, S_PROCESS_START, S_FIREDOOR_CLOSE, S_TRAY_PRESS, S_START_STEP
<1>5. hosts["EXEC_PROCESS"] = 0 => m_state' = m_state /\ start_mask' = {}
  BY <1>2, <1>3 DEF Before, QuietInv, Waiting
<1>6. ASSUME NEW c \in Chans PROVE QueueGrows(c)
  <2>1. m_cmd_queue[c] \in Seq(Command) /\ m_cmd_queue \in Queues
    BY DEF TypeOK, Queues
  <2>2. /\ <<"CFG", "EXEC_RESUME">> \in Seq(Command) /\ NoStarts(<<"CFG", "EXEC_RESUME">>)
        /\ <<"EXEC_RESUME">> \in Seq(Command) /\ NoStarts(<<"EXEC_RESUME">>)
    BY DEF Command, Starts, NoStarts
  <2>3. m_cmd_queue'[c] = IF c \in back THEN m_cmd_queue[c] \o <<"CFG", "EXEC_RESUME">>
                          ELSE Pushed(S, <<"EXEC_RESUME">>)[c]
    BY DEF HostExecResume
  <2>4. CASE c \in back
    <3>1. \A s \in Seq(Command) : NoStarts(s) /\ m_cmd_queue'[c] = m_cmd_queue[c] \o s
                                  => QueueGrows(c)
      BY <2>1, AddOther DEF QueueGrows
    <3> QED  BY <2>2, <2>3, <2>4, <3>1, Zenon
  <2>5. CASE c \notin back
    BY <2>1, <2>2, <2>3, <2>5, PushedKeep DEF QueueGrows
  <2> QED  BY <2>4, <2>5
<1>7. ASSUME NEW c \in Chans PROVE runStatus'[c].Finish = runStatus[c].Finish
  <2>1. ASSUME NEW r \in RunStatus PROVE [r EXCEPT !.Active = 1].Finish = r.Finish
    BY DEF RunStatus
  <2> QED  BY <2>1 DEF HostExecResume, TypeOK
<1> HIDE DEF back
<1>8. ASSUME m_state' = S_PROCESS_ERROR PROVE start_mask' = {}
  BY <1>2, <1>8 DEF S_PROCESS_ERROR, S_STEP_EXEC
<1>9. ProcessKept
  BY <1>1, <1>2, <1>3, <1>4, <1>5, <1>8 DEF ProcessKept, QuietInv, Waiting
<1>10. ASSUME NEW c \in Chans PROVE QueueKept(c)
  BY <1>2, <1>6, <1>7 DEF QueueKept, QuietInv, StartQueued, QueueGrows
<1>11. ASSUME NEW c \in Chans PROVE ModuleKept(c)
  <2>1. Halts(m_cmd_queue[c], module[c]) => Halts(m_cmd_queue'[c], module'[c])
    BY <1>2, <1>6 DEF Halts, Calm, QueueGrows
  <2> QED  BY <1>2, <1>3, <1>4, <2>1 DEF ModuleKept, Unstarted, QuietInv, Linked
<1> QED  BY <1>9, <1>10, <1>11, QuietStep

\* A stopped channel has its stop at the end of the queue.
LEMMA QuietStop ==
  ASSUME TypeOK, QuietInv, NEW S \in (SUBSET Chans) \ {{}}, HostExecStop(S)
  PROVE  QuietInv'
<1>1. hosts'["EXEC_PROCESS"] = hosts["EXEC_PROCESS"]
  BY HostInputKeeps DEF HostExecStop, AllHostCmds
<1>2. /\ start_mask' = start_mask \ S /\ end_mask' = end_mask \ S /\ jump_mask' = {}
      /\ m_state' \in {m_state, S_PROCESS_IDLE}
      /\ UNCHANGED <<alarm, run_state, module, m_is_connected>>
  BY DEF HostExecStop, Leave, AfterStop
<1>3. Before => end_mask = {} /\ \A c \in Chans : Unstarted(c)
  BY DEF QuietInv, NotBegun
<1>4. Before' => Before
  BY <1>1, <1>2 DEF Before, S_PROCESS_IDLE, S_PROCESS_START, S_FIREDOOR_CLOSE, S_TRAY_PRESS, S_START_STEP
<1>5. ASSUME NEW c \in Chans PROVE QueueGrows(c)
  BY PushedGrows DEF HostExecStop, Command, Starts
<1>6. ASSUME NEW c \in S PROVE Stops(m_cmd_queue'[c])
  <2>1. m_cmd_queue[c] \in Seq(Command) /\ m_cmd_queue'[c] = m_cmd_queue[c] \o <<"EXEC_STOP">>
    BY DEF HostExecStop, Pushed, TypeOK
  <2> QED  BY <2>1, AddStop
<1>7. ASSUME NEW c \in Chans PROVE runStatus'[c].Finish \in {0, runStatus[c].Finish}
  <2>1. ASSUME NEW r \in RunStatus PROVE [r EXCEPT !.Active = 0, !.Finish = 0].Finish = 0
    BY DEF RunStatus
  <2> QED  BY <2>1 DEF HostExecStop, TypeOK
<1>8. ProcessKept
  BY <1>1, <1>2, <1>3, <1>4, <1>5
     DEF ProcessKept, QuietInv, Waiting, ErrorUnstarted, QueueGrows, S_PROCESS_ERROR, S_PROCESS_IDLE, TypeOK
<1>9. ASSUME NEW c \in Chans PROVE QueueKept(c)
  BY <1>2, <1>5, <1>7 DEF QueueKept, QuietInv, StartQueued, QueueGrows
<1>10. ASSUME NEW c \in Chans PROVE ModuleKept(c)
  <2>1. Halts(m_cmd_queue[c], module[c]) => Halts(m_cmd_queue'[c], module'[c])
    BY <1>2, <1>5 DEF Halts, Calm, QueueGrows
  <2> QED  BY <1>2, <1>3, <1>4, <1>6, <2>1 DEF ModuleKept, Unstarted, QuietInv, Linked, Halts
<1> QED  BY <1>8, <1>9, <1>10, QuietStep

\* Before its start the one process sends nothing: the switch goes from part to part.
LEMMA QuietBefore ==
  ASSUME TypeOK, QuietInv, Before, Sends(m_cmd_queue, module), jump_mask' = {},
         UNCHANGED <<start_mask, end_mask, runStatus, alarm, run_state, m_is_connected, hosts>>,
         hosts["EXEC_PROCESS"] = 0 => m_state' \in {S_NONE, S_PROCESS_IDLE}
  PROVE  QuietInv'
<1>1. m_cmd_queue \in Queues /\ module \in [Chans -> ModuleState]
  BY DEF TypeOK, Queues, ModuleState
<1>2. end_mask = {} /\ \A c \in Chans : Unstarted(c)
  BY DEF QuietInv, NotBegun
<1>3. ASSUME NEW c \in Chans
      PROVE  /\ NoStarts(m_cmd_queue'[c]) /\ module'[c] = "off"
             /\ OneStart(m_cmd_queue[c]) => OneStart(m_cmd_queue'[c])
  BY <1>1, <1>2, SendsKeep DEF Unstarted
<1>4. ProcessKept
  BY <1>2, <1>3 DEF ProcessKept, QuietInv, Waiting, TypeOK
<1>5. ASSUME NEW c \in Chans PROVE QueueKept(c)
  BY <1>3 DEF QueueKept
<1>6. ASSUME NEW c \in Chans PROVE ModuleKept(c)
  BY <1>2, <1>3 DEF ModuleKept, Unstarted, Halts, Calm, Still
<1> QED  BY <1>4, <1>5, <1>6, QuietStep

LEMMA QuietWaits ==
  ASSUME TypeOK, QuietInv,
         \/ ProcessStart \/ \E sec \in BOOLEAN : FireDoorCloseExec(sec) \/ TrayPressExec(sec)
  PROVE  QuietInv'
<1>1. /\ m_state \in {S_PROCESS_START, S_FIREDOOR_CLOSE, S_TRAY_PRESS}
      /\ Sends(m_cmd_queue, module)
      /\ UNCHANGED <<masks, runStatus, alarm, run_state, m_is_connected, hosts>>
  BY DEF ProcessStart, FireDoorCloseExec, TrayPressExec, ExecPart, used
<1>2. Before
  BY <1>1 DEF Before
<1>3. hosts["EXEC_PROCESS"] # 0
  BY <1>1 DEF QuietInv, Waiting, S_NONE, S_PROCESS_IDLE, S_PROCESS_START, S_FIREDOOR_CLOSE, S_TRAY_PRESS
<1>4. UNCHANGED <<start_mask, end_mask, runStatus, alarm, run_state, m_is_connected, hosts>>
      /\ jump_mask' = {}
  BY <1>1 DEF masks, QuietInv
<1> QED  BY <1>1, <1>2, <1>3, <1>4, QuietBefore

\* The start: every participant gets its one start command, every other channel has none.
LEMMA QuietStartup ==
  ASSUME TypeOK, QuietInv, NEW go, NEW next, ChannelStepStartup(go, next)
  PROVE  QuietInv'
<1> DEFINE cmds == <<"STEP", IF jump_mask = {} THEN "EXEC_PROCESS" ELSE "EXEC_JUMP">>
           q == Pushed(go, cmds)
<1>1. /\ m_state = S_START_STEP /\ m_state' = S_STEP_EXEC /\ Sends(q, module)
      /\ go \subseteq Startable
      /\ UNCHANGED <<start_mask, end_mask, jump_mask, alarm, run_state, m_is_connected, hosts>>
  BY DEF ChannelStepStartup, ExecPart, used, masks
<1>2. Before /\ hosts["EXEC_PROCESS"] # 0
  BY <1>1 DEF Before, QuietInv, Waiting, S_START_STEP, S_NONE, S_PROCESS_IDLE
<1>3. end_mask = {} /\ \A c \in Chans : Unstarted(c)
  BY <1>2 DEF QuietInv, NotBegun
<1>4. cmds \in Seq(Command) /\ jump_mask = {} /\ go \subseteq start_mask
  BY <1>1 DEF Command, QuietInv, Startable
<1>5. m_cmd_queue \in Queues /\ module \in [Chans -> ModuleState]
  BY DEF TypeOK, Queues, ModuleState
<1>6. q \in Queues
  BY <1>4, <1>5, PushedType
<1>7. ASSUME NEW c \in Chans, c \notin go PROVE q[c] = m_cmd_queue[c]
  BY <1>7 DEF Pushed
<1>8. ASSUME NEW c \in Chans PROVE OneStart(q[c])
  <2>1. NoStarts(m_cmd_queue[c]) /\ m_cmd_queue[c] \in Seq(Command)
    BY <1>3, <1>5 DEF Unstarted, Queues
  <2>2. CASE c \in go
    <3>1. q[c] = m_cmd_queue[c] \o <<"STEP", "EXEC_PROCESS">>
      BY <1>4, <2>2 DEF Pushed
    <3> QED  BY <2>1, <3>1, AddStart DEF Command
  <2>3. CASE c \notin go
    BY <1>7, <2>1, <2>3 DEF NoStarts, OneStart
  <2> QED  BY <2>2, <2>3
<1> HIDE DEF q, cmds
<1>9. ASSUME NEW c \in Chans
      PROVE  /\ OneStart(m_cmd_queue'[c])
             /\ ~NoStarts(m_cmd_queue'[c]) => module'[c] = "off" /\ c \in go
             /\ module'[c] # "off" => m_is_connected[c]
             /\ c \notin go => NoStarts(m_cmd_queue'[c]) /\ module'[c] = "off"
  BY <1>1, <1>3, <1>5, <1>6, <1>7, <1>8, SendsKeep DEF Unstarted
<1>10. ASSUME NEW c \in Chans, c \in go PROVE runStatus'[c].Finish = 0
  BY <1>10 DEF ChannelStepStartup
<1>11. ~Before'
  BY <1>1, <1>2 DEF Before, S_STEP_EXEC, S_PROCESS_START, S_FIREDOOR_CLOSE, S_TRAY_PRESS, S_START_STEP
<1>12. NotBegun' /\ Waiting'
  BY <1>1, <1>2, <1>11 DEF NotBegun, Waiting
<1>13. StartQueued' /\ Linked'
  BY <1>1, <1>3, <1>9, <1>10 DEF StartQueued, Linked
<1>14. ErrorUnstarted'
  BY <1>1 DEF ErrorUnstarted, S_STEP_EXEC, S_PROCESS_ERROR
<1>15. ASSUME NEW c \in Chans, c \notin start_mask' \/ alarm'[c]
       PROVE  NoStarts(m_cmd_queue'[c]) /\ module'[c] = "off"
  BY <1>1, <1>3, <1>4, <1>9, <1>15 DEF Unstarted
<1>16. WillStop'
  BY <1>15 DEF WillStop, Halts, Calm, Still
<1> QED  BY <1>1, <1>4, <1>12, <1>13, <1>14, <1>16 DEF QuietInv

\* A channel counts as done only after its module began the last step, so no start is queued.
LEMMA QuietExecute ==
  ASSUME TypeOK, QuietInv, NEW res, ChannelStepExecute(res)
  PROVE  QuietInv'
<1> DEFINE done == {c \in Due : res[c].run.Active = 0}
           q == [c \in Chans |-> IF c \in Due THEN m_cmd_queue[c] \o res[c].push ELSE m_cmd_queue[c]]
<1>1. /\ m_state = S_STEP_EXEC /\ Sends(q, module)
      /\ start_mask' = start_mask \cup done /\ end_mask' = end_mask \cup done
      /\ m_state' \in {m_state, S_PROCESS_END, S_PROCESS_ERROR}
      /\ m_state' = S_PROCESS_ERROR => start_mask' = {}
      /\ jump_mask' = {}
      /\ UNCHANGED <<alarm, run_state, m_is_connected, hosts>>
  BY DEF ChannelStepExecute, ExecPart, used, QuietInv, S_STEP_EXEC, S_PROCESS_END, S_PROCESS_ERROR
<1>2. hosts["EXEC_PROCESS"] # 0
  BY <1>1 DEF QuietInv, Waiting, S_STEP_EXEC, S_NONE, S_PROCESS_IDLE
<1>3. ~Before'
  BY <1>1, <1>2 DEF Before, S_STEP_EXEC, S_PROCESS_END, S_PROCESS_ERROR, S_PROCESS_START,
                    S_FIREDOOR_CLOSE, S_TRAY_PRESS, S_START_STEP
<1>4. ASSUME NEW c \in Due
      PROVE  /\ res[c].push \in Seq(Command) /\ NoStarts(res[c].push)
             /\ res[c].run.Finish \in {0, runStatus[c].Finish}
             /\ res[c].run.Active = 0 => runStatus[c].Finish # 0
  <2>1. /\ res[c] \in StepResults(c) /\ c \in Chans
        /\ runStatus[c].Finish = 1 \/ stepcache_empty[c]
    BY DEF ChannelStepExecute, Due
  <2>2. res[c].push \in Seq(Command)
    BY <2>1, StepResultsType
  <2>3. /\ res[c].push \in {<<>>, <<"STEP">>, <<"END">>}
        /\ res[c].run.Finish \in {0, runStatus[c].Finish}
    BY <2>1 DEF StepResults, Follow, ZeroRun
  <2>4. NoStarts(res[c].push)
    BY <2>3 DEF NoStarts, Starts
  <2>5. ASSUME res[c].run.Active = 0, runStatus[c].Finish = 0 PROVE FALSE
    <3>1. ASSUME NEW j, NEW fin, NEW push, res[c] = Follow(j, fin, push) PROVE FALSE
      BY <2>5, <3>1 DEF Follow
    <3>2. \/ res[c].run = runStatus[c] \/ \E j, fin, push : res[c] = Follow(j, fin, push)
      BY <2>1, <2>5 DEF StepResults
    <3>3. runStatus[c].Active = 1
      BY DEF Due
    <3> QED  BY <2>5, <3>1, <3>2, <3>3
  <2> QED  BY <2>2, <2>3, <2>4, <2>5
<1>5. m_cmd_queue \in Queues /\ module \in [Chans -> ModuleState]
  BY DEF TypeOK, Queues, ModuleState
<1>6. ASSUME NEW c \in Chans
      PROVE  /\ q[c] \in Seq(Command)
             /\ NoStarts(m_cmd_queue[c]) => NoStarts(q[c])
             /\ OneStart(m_cmd_queue[c]) => OneStart(q[c])
             /\ ~NoStarts(q[c]) => ~NoStarts(m_cmd_queue[c])
             /\ Stops(m_cmd_queue[c]) => Stops(q[c])
  <2>1. m_cmd_queue[c] \in Seq(Command)
    BY <1>5 DEF Queues
  <2>2. CASE c \in Due
    <3>1. q[c] = m_cmd_queue[c] \o res[c].push
      BY <2>2
    <3>2. res[c].push \in Seq(Command) /\ NoStarts(res[c].push)
      BY <1>4, <2>2
    <3>3. m_cmd_queue[c] \o res[c].push \in Seq(Command)
      BY <2>1, <3>2, ConcatProperties
    <3> HIDE DEF q
    <3> QED  BY <2>1, <3>1, <3>2, <3>3, AddOther
  <2>3. CASE c \notin Due
    <3>1. q[c] = m_cmd_queue[c]
      BY <2>3
    <3> HIDE DEF q
    <3> QED  BY <2>1, <3>1
  <2> QED  BY <2>2, <2>3
<1>7. q \in Queues
  <2>1. \A c \in Chans : q[c] \in Seq(Command)
    BY <1>6
  <2> QED  BY <2>1 DEF Queues
<1> HIDE DEF q
<1>8. ASSUME NEW c \in Chans, c \in done PROVE NoStarts(m_cmd_queue[c])
  BY <1>4, <1>8 DEF QuietInv, StartQueued, Due
<1>9. ASSUME NEW c \in Chans, runStatus[c].Finish = 0 PROVE runStatus'[c].Finish = 0
  BY <1>4, <1>9 DEF ChannelStepExecute
<1> HIDE DEF done
<1>10. ASSUME NEW c \in Chans PROVE StartQueued => QueueKept(c)
  <2>1. /\ NoStarts(q[c]) => NoStarts(m_cmd_queue'[c])
        /\ OneStart(q[c]) => OneStart(m_cmd_queue'[c])
        /\ OneStart(q[c]) /\ ~NoStarts(m_cmd_queue'[c]) /\ module[c] = "off" => module'[c] = "off"
    BY <1>1, <1>5, <1>7, SendsKeep
  <2> QED  BY <1>1, <1>6, <1>8, <1>9, <2>1, Zenon DEF QueueKept, StartQueued
<1>11. ASSUME NEW c \in Chans PROVE ModuleKept(c)
  <2>1. /\ module'[c] # "off" => module[c] # "off" \/ m_is_connected[c]
        /\ Halts(q[c], module[c]) => Halts(m_cmd_queue'[c], module'[c])
    BY <1>1, <1>5, <1>7, SendsKeep
  <2>2. Halts(m_cmd_queue[c], module[c]) => Halts(q[c], module[c])
    BY <1>6 DEF Halts, Calm
  <2> QED  BY <1>1, <1>3, <2>1, <2>2 DEF ModuleKept, QuietInv, Linked
<1>12. ProcessKept
  BY <1>1, <1>2, <1>3 DEF ProcessKept
<1> QED  BY <1>10, <1>11, <1>12, QuietStep DEF QuietInv

\* Both ends of a process stop its channels past the queues, which hold no start by then:
\* at process_end every channel is done, after an error none was left.
LEMMA QuietEnd ==
  ASSUME TypeOK, Masks, QuietInv,
         ProcessErrorProc \/ \E sec \in BOOLEAN : ProcessEnd(sec)
  PROVE  QuietInv'
<1>1. m_state \in {S_PROCESS_ERROR, S_PROCESS_END} /\ jump_mask' = {}
      /\ UNCHANGED <<alarm, run_state, m_is_connected, hosts>>
  BY DEF ProcessErrorProc, ProcessEnd, ExecPart, used, QuietInv
<1>2. hosts["EXEC_PROCESS"] # 0
  BY <1>1 DEF QuietInv, Waiting, S_PROCESS_END, S_PROCESS_ERROR, S_NONE, S_PROCESS_IDLE
<1>3. m_cmd_queue \in Queues /\ module \in [Chans -> ModuleState]
  BY DEF TypeOK, Queues, ModuleState
<1>4. ASSUME NEW c \in start_mask PROVE NoStarts(m_cmd_queue[c])
  <2>1. c \in Chans
    BY DEF TypeOK
  <2>2. CASE m_state = S_PROCESS_ERROR
    BY <2>2 DEF QuietInv, ErrorUnstarted
  <2>3. CASE m_state = S_PROCESS_END
    BY <2>1, <2>3 DEF Masks, EndExact, QuietInv, StartQueued
  <2> QED  BY <1>1, <2>2, <2>3
<1>5. ASSUME NEW c \in Chans PROVE runStatus'[c].Finish \in {0, runStatus[c].Finish}
  BY DEF ProcessErrorProc, ProcessEnd, ZeroRun, TypeOK
<1> DEFINE AtOnce == /\ Sends(m_cmd_queue, Stopped(start_mask)) /\ m_state' = S_PROCESS_IDLE
                     /\ start_mask' = {} /\ end_mask' = end_mask \ start_mask
           Waits == /\ Sends(m_cmd_queue, module)
                    /\ UNCHANGED <<m_state, start_mask, end_mask, runStatus>>
                    /\ m_state = S_PROCESS_END
<1>6. AtOnce \/ Waits
  BY DEF ProcessErrorProc, ProcessEnd, ExecPart, Leave
<1>7. CASE AtOnce
  <2>1. Stopped(start_mask) \in [Chans -> ModuleState] /\ Linked
    BY <1>3, StoppedType DEF QuietInv
  <2>2. ASSUME NEW c \in Chans
        PROVE  /\ c \in start_mask => Stopped(start_mask)[c] \in Still
               /\ c \notin start_mask => Stopped(start_mask)[c] = module[c]
               /\ Stopped(start_mask)[c] = "off" <=> module[c] = "off"
               /\ module[c] \in Still => Stopped(start_mask)[c] \in Still
    BY <2>1, StoppedStill
  <2> DEFINE m == Stopped(start_mask)
  <2>3. Sends(m_cmd_queue, m)
    BY <1>7
  <2> HIDE DEF m
  <2>4. ASSUME NEW c \in Chans
        PROVE  /\ NoStarts(m_cmd_queue[c]) => NoStarts(m_cmd_queue'[c])
               /\ OneStart(m_cmd_queue[c]) => OneStart(m_cmd_queue'[c])
               /\ OneStart(m_cmd_queue[c]) /\ ~NoStarts(m_cmd_queue'[c]) /\ m[c] = "off"
                    => module'[c] = "off"
               /\ module'[c] # "off" => m[c] # "off" \/ m_is_connected[c]
               /\ Halts(m_cmd_queue[c], m[c]) => Halts(m_cmd_queue'[c], module'[c])
    BY <1>3, <2>1, <2>3, SendsKeep DEF m
  <2>5. ~Before'
    BY <1>1, <1>2, <1>7 DEF Before, S_PROCESS_IDLE, S_PROCESS_START, S_FIREDOOR_CLOSE, S_TRAY_PRESS,
                            S_START_STEP
  <2>6. ASSUME NEW c \in Chans
        PROVE  /\ Halts(m_cmd_queue[c], module[c]) => Halts(m_cmd_queue[c], m[c])
               /\ c \in start_mask => Halts(m_cmd_queue[c], m[c])
    BY <1>4, <2>2 DEF m, Halts, Calm
  <2>7. ProcessKept
    BY <1>1, <1>2, <1>7, <2>5 DEF ProcessKept, S_PROCESS_IDLE, S_PROCESS_ERROR
  <2>8. ASSUME NEW c \in Chans PROVE QueueKept(c)
    BY <1>5, <1>7, <2>2, <2>4 DEF QueueKept, QuietInv, StartQueued, m
  <2>9. ASSUME NEW c \in Chans PROVE ModuleKept(c)
    BY <1>1, <2>2, <2>4, <2>5, <2>6 DEF ModuleKept, QuietInv, Linked, m
  <2> QED  BY <2>7, <2>8, <2>9, QuietStep
<1>8. CASE Waits
  <2>1. ASSUME NEW c \in Chans
        PROVE  /\ NoStarts(m_cmd_queue[c]) => NoStarts(m_cmd_queue'[c])
               /\ OneStart(m_cmd_queue[c]) => OneStart(m_cmd_queue'[c])
               /\ OneStart(m_cmd_queue[c]) /\ ~NoStarts(m_cmd_queue'[c]) /\ module[c] = "off"
                    => module'[c] = "off"
               /\ module'[c] # "off" => module[c] # "off" \/ m_is_connected[c]
               /\ Halts(m_cmd_queue[c], module[c]) => Halts(m_cmd_queue'[c], module'[c])
    BY <1>3, <1>8, SendsKeep
  <2>2. ~Before'
    BY <1>1, <1>2, <1>8 DEF Before, S_PROCESS_END, S_PROCESS_START, S_FIREDOOR_CLOSE, S_TRAY_PRESS,
                            S_START_STEP
  <2>3. ProcessKept
    BY <1>1, <1>2, <1>8, <2>2 DEF ProcessKept, S_PROCESS_END, S_PROCESS_ERROR
  <2>4. ASSUME NEW c \in Chans PROVE QueueKept(c)
    BY <1>8, <2>1 DEF QueueKept, QuietInv, StartQueued
  <2>5. ASSUME NEW c \in Chans PROVE ModuleKept(c)
    BY <1>1, <1>8, <2>1, <2>2 DEF ModuleKept, QuietInv, Linked
  <2> QED  BY <2>3, <2>4, <2>5, QuietStep
<1> QED  BY <1>6, <1>7, <1>8

\* In the state before the process, and in the idle one.
LEMMA QuietNothing ==
  ASSUME TypeOK, QuietInv, ExecNothing
  PROVE  QuietInv'
<1>1. /\ m_state \in {S_NONE, S_PROCESS_IDLE} /\ Sends(m_cmd_queue, module) /\ jump_mask' = {}
      /\ UNCHANGED <<m_state, start_mask, end_mask, runStatus, alarm, run_state, m_is_connected, hosts>>
  BY DEF ExecNothing, ExecPart, used, masks, QuietInv
<1>2. CASE Before
  BY <1>1, <1>2, QuietBefore
<1>3. CASE ~Before
  <2>1. m_cmd_queue \in Queues /\ module \in [Chans -> ModuleState]
    BY DEF TypeOK, Queues, ModuleState
  <2>2. ASSUME NEW c \in Chans
        PROVE  /\ NoStarts(m_cmd_queue[c]) => NoStarts(m_cmd_queue'[c])
               /\ OneStart(m_cmd_queue[c]) => OneStart(m_cmd_queue'[c])
               /\ OneStart(m_cmd_queue[c]) /\ ~NoStarts(m_cmd_queue'[c]) /\ module[c] = "off"
                    => module'[c] = "off"
               /\ module'[c] # "off" => module[c] # "off" \/ m_is_connected[c]
               /\ Halts(m_cmd_queue[c], module[c]) => Halts(m_cmd_queue'[c], module'[c])
    BY <1>1, <2>1, SendsKeep
  <2>3. ~Before' /\ hosts["EXEC_PROCESS"] # 0
    BY <1>1, <1>3 DEF Before
  <2>4. ProcessKept
    BY <1>1, <2>3 DEF ProcessKept, S_NONE, S_PROCESS_IDLE, S_PROCESS_ERROR
  <2>5. ASSUME NEW c \in Chans PROVE QueueKept(c)
    BY <1>1, <2>2 DEF QueueKept, QuietInv, StartQueued
  <2>6. ASSUME NEW c \in Chans PROVE ModuleKept(c)
    BY <1>1, <2>2, <2>3 DEF ModuleKept, QuietInv, Linked
  <2> QED  BY <2>4, <2>5, <2>6, QuietStep
<1> QED  BY <1>2, <1>3

\* What a record may say of a module, when alarms come from running ones only.
LEMMA RecordSays ==
  ASSUME TypeOK, RunningFaults, NEW rec \in Records, NEW c \in Chans
  PROVE  /\ rec[c].kind \in AllKinds \cup {"none"}
         /\ rec[c].fault \in {"no", "mid", "low", "clear"}
         /\ rec[c].kind = "none" => rec[c].fault = "no"
         /\ rec[c].kind = "idle" => rec[c].fault \in {"no", "clear"} /\ module[c] \in Still
         /\ rec[c].kind = "pause" => module[c] \in {"run", "pause"}
         /\ module[c] = "off" => rec[c].kind \in {"none", "idle"}
         /\ module[c] = "stopping" => rec[c].kind \in {"none", "idle", "run", "next", "fin"}
<1>1. rec[c] \in RecordsOf(c)
  BY DEF Records
<1>2. CASE rec[c] = NoRecord
  BY <1>2 DEF NoRecord
<1>3. CASE rec[c] \in [kind : KindsNow(c), fault : FaultsNow(c)]
  <2>1. rec[c].kind \in KindsNow(c) /\ rec[c].fault \in FaultsNow(c)
    BY <1>3
  <2>2. FaultsNow(c) \subseteq {"no"} \cup Faults
    BY DEF FaultsNow
  <2>3. rec[c].kind \in Kinds /\ rec[c].kind \in AllKinds
    BY <2>1, CellAssumption DEF KindsNow, CellAssumption
  <2>4. /\ rec[c].kind = "idle" => module[c] \in {"off", "stopping"}
        /\ rec[c].kind = "run" => module[c] \in {"run", "stopping"}
        /\ rec[c].kind = "next" => module[c] \in {"run", "stopping"}
        /\ rec[c].kind = "wait" => module[c] = "run"
        /\ rec[c].kind = "fin" => module[c] \in {"run", "stopping"}
        /\ rec[c].kind = "pause" => module[c] \in {"run", "pause"}
    BY <2>1 DEF KindsNow
  <2>5. rec[c].fault \in {"no", "mid", "low", "clear"}
    BY <2>1, <2>2 DEF RunningFaults
  <2>6. rec[c].kind = "idle" => rec[c].fault \in {"no", "clear"}
    BY <2>1, <2>2, <2>3 DEF RunningFaults
  <2> QED  BY <2>3, <2>4, <2>5, <2>6 DEF AllKinds, Still
<1> QED  BY <1>1, <1>2, <1>3 DEF RecordsOf

\* An alarm with a record finds the module started, so no start waits, and stops it.
LEMMA QuietHandle ==
  ASSUME TypeOK, QuietInv, RunningFaults, NEW rec \in Records, NEW resumed,
         NEW second \in BOOLEAN, Handle(rec, resumed, second)
  PROVE  QuietInv'
<1> DEFINE new == {c \in Chans : rec[c].kind # "none"}
           err == {c \in new : \/ rec[c].fault \in {"mid", "low", "rep"}
                               \/ alarm[c] /\ rec[c].fault # "clear"}
           running == \E c \in Chans : run_state'[c] = "running"
           after(c) == ModuleAfter(c, rec[c])
<1>1. /\ start_mask' = start_mask \ err /\ end_mask' = end_mask \ err /\ jump_mask' = {}
      /\ m_state' = IF m_state = S_NONE /\ running THEN S_STEP_EXEC ELSE m_state
      /\ UNCHANGED <<m_cmd_queue, m_is_connected, hosts>>
  BY DEF Handle, Leave, QuietInv
<1>2. ASSUME NEW c \in Chans
      PROVE  /\ alarm'[c] <=> (alarm[c] \/ rec[c].fault = "mid") /\ rec[c].fault # "clear"
             /\ run_state'[c] = IF c \in new THEN Reported(rec[c]) ELSE run_state[c]
             /\ module'[c] \in {after(c), IF after(c) = "pause" THEN "run" ELSE after(c)}
  BY DEF Handle
<1>3. ASSUME NEW c \in Chans, rec[c].kind \notin {"next", "fin"} PROVE runStatus'[c] = runStatus[c]
  BY <1>3 DEF Handle
<1>4. ASSUME NEW c \in Chans
      PROVE  /\ rec[c].kind \in AllKinds \cup {"none"}
             /\ rec[c].fault \in {"no", "mid", "low", "clear"}
             /\ rec[c].kind = "none" => rec[c].fault = "no"
             /\ rec[c].kind = "idle" => rec[c].fault \in {"no", "clear"} /\ module[c] \in Still
             /\ rec[c].kind = "pause" => module[c] \in {"run", "pause"}
             /\ module[c] = "off" => rec[c].kind \in {"none", "idle"}
             /\ module[c] = "stopping" => rec[c].kind \in {"none", "idle", "run", "next", "fin"}
  BY RecordSays
<1>5. ASSUME NEW c \in Chans
      PROVE  /\ module[c] = "off" => after(c) = "off"
             /\ module[c] \in Still => after(c) \in Still
             /\ rec[c].fault \in {"mid", "low"} => after(c) \in Still
  BY <1>4 DEF ModuleAfter, Still
<1> HIDE DEF after, new, err, running
<1>6. ASSUME NEW c \in Chans
      PROVE  /\ module[c] = "off" => module'[c] = "off"
             /\ module[c] \in Still => module'[c] \in Still
             /\ rec[c].fault \in {"mid", "low"} => module'[c] \in Still
  BY <1>2, <1>5 DEF Still
<1>7. ASSUME NEW c \in Chans, rec[c].fault \in {"mid", "low"} PROVE NoStarts(m_cmd_queue[c])
  <2>1. module[c] # "off"
    BY <1>4, <1>7
  <2> QED  BY <2>1 DEF QuietInv, StartQueued
<1>8. ASSUME NEW c \in Chans, rec[c].fault \in {"mid", "low"}
      PROVE  Halts(m_cmd_queue'[c], module'[c])
  BY <1>1, <1>6, <1>7, <1>8 DEF Halts, Calm
<1>9. ASSUME Before
      PROVE  /\ end_mask = {} /\ ~running
             /\ \A c \in Chans : module'[c] = "off" /\ ~alarm'[c] /\ run_state'[c] = "other"
  <2>1. end_mask = {} /\ \A c \in Chans : Unstarted(c)
    BY <1>9 DEF QuietInv, NotBegun
  <2>2. ASSUME NEW c \in Chans
        PROVE  module'[c] = "off" /\ ~alarm'[c] /\ run_state'[c] = "other"
    <3>1. rec[c].kind \in {"none", "idle"} /\ rec[c].fault \in {"no", "clear"}
      BY <1>4, <2>1 DEF Unstarted
    <3>2. run_state'[c] = "other"
      BY <1>2, <2>1, <3>1 DEF Unstarted, Reported, new
    <3> QED  BY <1>2, <1>6, <2>1, <3>1, <3>2 DEF Unstarted
  <2> QED  BY <2>1, <2>2 DEF running
<1>10. Before' => Before
  BY <1>1 DEF Before, S_STEP_EXEC, S_PROCESS_START, S_FIREDOOR_CLOSE, S_TRAY_PRESS, S_START_STEP
<1>11. hosts["EXEC_PROCESS"] = 0 => m_state' \in {S_NONE, S_PROCESS_IDLE} /\ start_mask' = {}
  BY <1>1, <1>9 DEF Before, QuietInv, Waiting
<1>12. m_state' = S_PROCESS_ERROR => \A c \in start_mask' : NoStarts(m_cmd_queue'[c])
  BY <1>1 DEF QuietInv, ErrorUnstarted, S_PROCESS_ERROR, S_STEP_EXEC
<1>13. ProcessKept
  BY <1>1, <1>9, <1>10, <1>11, <1>12 DEF ProcessKept
<1>14. ASSUME NEW c \in Chans PROVE QueueKept(c)
  <2>1. module[c] = "off" => runStatus'[c] = runStatus[c]
    BY <1>3, <1>4
  <2> QED  BY <1>1, <1>6, <2>1 DEF QueueKept, QuietInv, StartQueued
<1>15. ASSUME NEW c \in Chans PROVE ModuleKept(c)
  <2>1. Halts(m_cmd_queue[c], module[c]) => Halts(m_cmd_queue'[c], module'[c])
    BY <1>1, <1>6 DEF Halts, Calm
  <2>2. c \notin start_mask' \/ alarm'[c]
          => c \notin start_mask \/ alarm[c] \/ rec[c].fault \in {"mid", "low"}
    BY <1>1, <1>2, <1>4 DEF err
  <2>3. Before' => module'[c] = "off" /\ ~alarm'[c] /\ run_state'[c] = "other"
    BY <1>9, <1>10
  <2>4. module'[c] # "off" => m_is_connected'[c]
    BY <1>1, <1>6 DEF QuietInv, Linked
  <2> QED  BY <1>8, <2>1, <2>2, <2>3, <2>4 DEF ModuleKept
<1> QED  BY <1>13, <1>14, <1>15, QuietStep

LEMMA QuietNext ==
  ASSUME OneProcess, RunningFaults, NoBrake, TypeOK, Masks, QuietInv, [Next]_vars
  PROVE  QuietInv'
<1>1. ASSUME NEW c \in Chans, LinkUp(c) \/ LinkDown(c) \/ ModuleAlone(c) PROVE QuietInv'
  <2>1. LinkUp(c)
    BY <1>1 DEF LinkDown, ModuleAlone, RunningFaults, QuietInv, Linked
  <2>2. /\ UNCHANGED <<m_state, masks, runStatus, chan, m_cmd_queue, module, hosts>>
        /\ \A d \in Chans : m_is_connected[d] => m_is_connected'[d]
    BY <2>1 DEF LinkUp, used, TypeOK
  <2>3. \A d \in Chans : QueueGrows(d)
    BY <2>2 DEF QueueGrows
  <2> QED  BY <2>2, <2>3, QuietPlain DEF masks, chan, QuietInv
<1>2. ASSUME NEW S \in (SUBSET Chans) \ {{}}, Host(S) PROVE QuietInv'
  <2>1. ~HostExecJump(S)
    <3>1. "EXEC_JUMP" \in AllHostCmds
      BY DEF AllHostCmds
    <3>2. hosts["EXEC_JUMP"] \in Nat
      BY <3>1 DEF TypeOK
    <3> QED  BY <3>2 DEF HostExecJump, HostInput, OneProcess
  <2> QED  BY <1>2, <2>1, QuietStart, QuietPlainHost, QuietResume, QuietStop DEF Host
<1>3. ASSUME UNCHANGED <<m_state, masks, runStatus, chan, wire, hosts>> PROVE QuietInv'
  <2>1. \A c \in Chans : QueueGrows(c)
    BY <1>3 DEF wire, QueueGrows
  <2> QED  BY <1>3, <2>1, QuietPlain DEF masks, chan, wire, QuietInv
<1>4. ASSUME NEW p \in PinsInputs, PinsStatusSync(p) PROVE QuietInv'
  BY <1>3, <1>4 DEF PinsStatusSync, used
<1>5. ~PinsAlarm
  BY DEF PinsAlarm, RunningFaults
<1>6. CASE Drained
  BY <1>3, <1>6 DEF Drained, used
<1>7. CASE Exec
  BY <1>7, QuietWaits, QuietStartup, QuietExecute, QuietEnd, QuietNothing DEF Exec
<1>8. ASSUME NEW rec \in Records, NEW resumed, NEW second \in BOOLEAN,
             Handle(rec, resumed, second)
      PROVE  QuietInv'
  BY <1>8, QuietHandle
<1>9. ASSUME NEW level \in FireLevels, FireProtection(level) PROVE QuietInv'
  <2>1. level # FIRE_PROTECT_LEVEL1 /\ level # FIRE_PROTECT_LEVEL2
    BY DEF NoBrake
  <2>2. UNCHANGED <<m_state, masks, runStatus, chan, wire, hosts>>
    BY <1>9, <2>1 DEF FireProtection, used, chan, wire
  <2> QED  BY <1>3, <2>2
<1>10. ~Restart
  BY DEF Restart, OneProcess, TypeOK
<1>11. CASE UNCHANGED vars
  BY <1>3, <1>11 DEF vars, used
<1> QED  BY <1>1, <1>2, <1>4, <1>5, <1>6, <1>7, <1>8, <1>9, <1>10, <1>11 DEF Next

\* One process from its start to its end, whatever its recipe, its pauses, resumes and
\* stops, the pin bed and the module alarms: once the cell is idle and the queue of a
\* channel is empty, its module does not run, so no stop has overtaken a start.
THEOREM QuietWhenIdle ==
  ASSUME OneProcess, RunningFaults, NoBrake
  PROVE  Spec => []IdleQuiet
<1>1. QuietInv /\ IdleClean => IdleQuiet
  BY DEF QuietInv, WillStop, IdleClean, IdleQuiet, Halts, Calm, Stops, Still
<1>2. TypeOK /\ Masks /\ QuietInv /\ [Next]_vars => QuietInv'
  BY QuietNext
<1>3. Spec => []IdleClean
  BY IdleCleanThm
<1> QED  BY <1>1, <1>2, <1>3, QuietInit, TypeCorrect, MasksAlways, PTL DEF Spec

=============================================================================
