----------------------------- MODULE PinsProofs -----------------------------
(***************************************************************************)
(* Theorems about PinsWorker: its types, that an alarm of the PLC is       *)
(* reported once, and that a tray command is answered with success only if *)
(* the tray is on its way.                                                 *)
(***************************************************************************)
EXTENDS PinsWorker, SequenceTheorems, FiniteSetTheorems, TLAPS

\* The bits of AlarmBits are pairs of a cell and the name of a bit.
LEMMA BitOfCell ==
  ASSUME NEW a \in AlarmBits
  PROVE  a = <<a[1], a[2]>> /\ a[1] \in Cells /\ a[2] \in {"stop", "cell"}
BY PinsAssumption DEF AlarmBits, Stop, Cells

-----------------------------------------------------------------------------
(* Alarms are reported once.                                               *)

AlarmTypes ==
  /\ alarm \in [AlarmBits -> BOOLEAN] /\ is_sudden_stop \in BOOLEAN /\ stops \in Nat
  /\ plc_alarm_mask \in [Cells -> SUBSET {"stop", "cell", "vac"}]
  /\ reports \in [AlarmBits -> Nat]

\* An alarm that is there and would be reported at the next reading has not been.
Fresh(a) == alarm[a] /\ a[2] \notin plc_alarm_mask[a[1]] => reports[a] = 0
FreshStop == alarm[Stop] /\ ~is_sudden_stop => stops = 0

ReportInv == AlarmTypes /\ FreshStop /\ (\A a \in AlarmBits : Fresh(a)) /\ ReportedOnce

\* A step that counts no report keeps all this if it forgets the reports of the
\* alarms whose mask it clears.
Forgets ==
  /\ UNCHANGED <<alarm, is_sudden_stop, stops>>
  /\ plc_alarm_mask' \in [Cells -> SUBSET {"stop", "cell", "vac"}]
  /\ reports' \in [AlarmBits -> Nat]
  /\ \A a \in AlarmBits :
       /\ reports'[a] \in {0, reports[a]}
       /\ a[2] \in plc_alarm_mask[a[1]] => a[2] \in plc_alarm_mask'[a[1]] \/ reports'[a] = 0

LEMMA ForgetsKeeps == ASSUME ReportInv, Forgets PROVE ReportInv'
<1> USE DEF ReportInv, AlarmTypes, Forgets
<1>1. AlarmTypes' /\ FreshStop'
  BY DEF FreshStop
<1>2. ASSUME NEW a \in AlarmBits PROVE Fresh(a)' /\ reports'[a] <= 1
  BY <1>2 DEF Fresh, ReportedOnce
<1> QED  BY <1>1, <1>2 DEF ReportedOnce

\* Most steps leave the alarms alone.
LEMMA QuietKeeps == ASSUME ReportInv, UNCHANGED <<alarm, alarms>> PROVE ReportInv'
BY DEF ReportInv, AlarmTypes, FreshStop, Fresh, ReportedOnce, alarms

LEMMA ReportInit == Init => ReportInv
<1> SUFFICES ASSUME Init PROVE ReportInv
  OBVIOUS
<1>1. /\ alarm = [a \in AlarmBits |-> FALSE] /\ reports = [a \in AlarmBits |-> 0]
      /\ plc_alarm_mask = [c \in Cells |-> {}] /\ is_sudden_stop = FALSE /\ stops = 0
  BY DEF Init
<1>3. AlarmTypes
  BY <1>1 DEF AlarmTypes
<1>4. FreshStop /\ \A a \in AlarmBits : Fresh(a)
  BY <1>1 DEF FreshStop, Fresh
<1>5. ReportedOnce
  BY <1>1 DEF ReportedOnce
<1> QED  BY <1>3, <1>4, <1>5 DEF ReportInv

\* plc_alarm_handle
LEMMA HandleKeeps == ASSUME ReportInv, PlcAlarmHandle, UNCHANGED alarm PROVE ReportInv'
<1> USE DEF ReportInv, AlarmTypes
<1>1. Stop \in AlarmBits
  BY DEF AlarmBits
<1>2. is_sudden_stop' = alarm[Stop]
  BY DEF PlcAlarmHandle
<1>3. stops' \in Nat /\ stops' <= 1
  <2>1. CASE StopNews
    BY <2>1 DEF PlcAlarmHandle, StopNews, FreshStop, Capped
  <2>2. CASE ~StopNews
    BY <2>2 DEF PlcAlarmHandle, ReportedOnce
  <2> QED  BY <2>1, <2>2
<1>4. FreshStop'
  BY <1>2 DEF FreshStop
<1>5. plc_alarm_mask' \in [Cells -> SUBSET {"stop", "cell", "vac"}]
  BY DEF PlcAlarmHandle, Happening, Polled
<1>6. ASSUME NEW a \in AlarmBits PROVE reports'[a] \in Nat /\ reports'[a] <= 1 /\ Fresh(a)'
  <2>1. reports'[a] = IF alarm[a] /\ a[2] \notin plc_alarm_mask[a[1]] THEN Capped(reports[a]) ELSE reports[a]
    BY DEF PlcAlarmHandle
  <2>2. reports'[a] \in Nat /\ reports'[a] <= 1
    BY <2>1 DEF Fresh, ReportedOnce, Capped
  <2>3. a = <<a[1], a[2]>> /\ a[1] \in Cells /\ a[2] \in {"stop", "cell"}
    BY BitOfCell
  <2>4. alarm[a] => a[2] \in plc_alarm_mask'[a[1]]
    BY <2>3 DEF PlcAlarmHandle, Happening, Polled
  <2> QED  BY <2>2, <2>4 DEF Fresh
<1>7. reports' \in [AlarmBits -> Nat]
  <2>1. reports' = [a \in AlarmBits |-> reports'[a]]
    BY DEF PlcAlarmHandle
  <2> QED  BY <2>1, <1>6
<1>8. AlarmTypes'
  BY <1>1, <1>2, <1>3, <1>5, <1>7
<1>9. ReportedOnce' /\ \A a \in AlarmBits : Fresh(a)'
  BY <1>3, <1>6 DEF ReportedOnce
<1> QED  BY <1>4, <1>8, <1>9

\* message_handle: only tray_up and clear_warning clear the mask of their cell.
LEMMA ServeForgets ==
  ASSUME ReportInv, NEW m \in Messages, NEW ops, Serve(m, ops),
         plc_alarm_mask' \in [Cells -> SUBSET {"stop", "cell", "vac"}],
         \A c \in Cells : \/ plc_alarm_mask[c] \subseteq plc_alarm_mask'[c]
                          \/ c = m.cell /\ m.cmd \in ClearsMask
  PROVE  Forgets
<1> USE DEF ReportInv, AlarmTypes
<1>1. UNCHANGED <<alarm, is_sudden_stop, stops>>
  BY DEF Serve, plc
<1>2. reports' = [a \in AlarmBits |-> IF a[1] = m.cell /\ m.cmd \in ClearsMask THEN 0 ELSE reports[a]]
  BY DEF Serve
<1>3. reports' \in [AlarmBits -> Nat]
  BY <1>2
<1>4. ASSUME NEW a \in AlarmBits
      PROVE  /\ reports'[a] \in {0, reports[a]}
             /\ a[2] \in plc_alarm_mask[a[1]] => a[2] \in plc_alarm_mask'[a[1]] \/ reports'[a] = 0
  BY <1>2, BitOfCell
<1> QED  BY <1>1, <1>3, <1>4 DEF Forgets

Handles(m) ==
  \/ SimpleCommand(m) \/ RegisterCommand(m) \/ DataCommand(m) \/ AlarmSync(m) \/ ClearWarning(m)
  \/ TrayUp(m) \/ TrayDown(m) \/ StartVacuum(m) \/ OpenDrain(m) \/ BlockTest(m) \/ LeakTest(m) \/ Brake(m)

LEMMA MessageServes == ASSUME NEW m, Handles(m) PROVE \E ops : Serve(m, ops)
<1>1. CASE \/ SimpleCommand(m) \/ DataCommand(m) \/ AlarmSync(m) \/ ClearWarning(m)
           \/ TrayUp(m) \/ TrayDown(m) \/ OpenDrain(m) \/ Brake(m)
  BY <1>1, Zenon DEF SimpleCommand, DataCommand, AlarmSync, ClearWarning, TrayUp, TrayDown, OpenDrain, Brake
<1>2. CASE RegisterCommand(m) \/ StartVacuum(m) \/ BlockTest(m)
  BY <1>2, Zenon DEF RegisterCommand, StartVacuum, BlockTest
<1>3. CASE LeakTest(m)
  BY <1>3, Zenon DEF LeakTest
<1> QED  BY <1>1, <1>2, <1>3 DEF Handles

LEMMA ReceiveForgets == ASSUME ReportInv, Receive PROVE Forgets
<1> USE DEF ReportInv, AlarmTypes
<1>1. PICK m \in Messages : Handles(m)
  BY DEF Receive, Handles
<1>2. m.cell \in Cells
  BY DEF Messages
<1>3. \/ UNCHANGED plc_alarm_mask
      \/ plc_alarm_mask' = [plc_alarm_mask EXCEPT ![m.cell] = @ \cup {"cell"}]
      \/ plc_alarm_mask' = [plc_alarm_mask EXCEPT ![m.cell] = {}] /\ m.cmd \in ClearsMask
  BY <1>1 DEF Handles, SimpleCommand, RegisterCommand, DataCommand, AlarmSync, ClearWarning, TrayUp,
              TrayDown, StartVacuum, OpenDrain, BlockTest, LeakTest, Brake, ClearsMask
<1>4. plc_alarm_mask' \in [Cells -> SUBSET {"stop", "cell", "vac"}]
  BY <1>2, <1>3
<1>5. \A c \in Cells : \/ plc_alarm_mask[c] \subseteq plc_alarm_mask'[c]
                       \/ c = m.cell /\ m.cmd \in ClearsMask
  BY <1>2, <1>3
<1>6. \E ops : Serve(m, ops)
  BY <1>1, MessageServes
<1> QED  BY <1>4, <1>5, <1>6, ServeForgets

\* formation_vac_task
LEMMA VacTaskForgets == ASSUME ReportInv, VacTask PROVE Forgets
<1> USE DEF ReportInv, AlarmTypes
<1>1. \E s, ops : Task(s, ops)
  BY DEF VacTask, TaskIdle, VacWait, LeakWait, VacJudge, LeakJudge, Release, StateErr
<1>2. UNCHANGED <<alarm, is_sudden_stop, reports, stops>> /\ cell_i \in Cells
  BY <1>1 DEF Task, plc
<1>3. \/ UNCHANGED plc_alarm_mask
      \/ plc_alarm_mask' = [plc_alarm_mask EXCEPT ![cell_i] = @ \cup {"vac"}]
  <2>1. CASE VacJudge
    <3>1. PICK fails \in BOOLEAN :
            plc_alarm_mask' = [plc_alarm_mask EXCEPT ![cell_i] = IF fails THEN @ \cup {"vac"} ELSE @]
      BY <2>1 DEF VacJudge
    <3> QED  BY <3>1
  <2>2. CASE ~VacJudge
    BY <2>2 DEF VacTask, TaskIdle, VacWait, LeakWait, LeakJudge, Release, StateErr
  <2> QED  BY <2>1, <2>2
<1> QED  BY <1>2, <1>3, BitOfCell DEF Forgets

LEMMA ReportNext == ASSUME ReportInv, [Next]_vars PROVE ReportInv'
<1>1. CASE Receive
  BY <1>1, ReceiveForgets, ForgetsKeeps
<1>2. CASE VacTask
  BY <1>2, VacTaskForgets, ForgetsKeeps
<1>3. CASE PollOk
  BY <1>3, HandleKeeps, QuietKeeps DEF PollOk, StartPass, plc
<1>4. CASE AlarmChange
  <2> USE DEF ReportInv, AlarmTypes
  <2>1. PICK b \in Alarms :
          /\ alarm' = [alarm EXCEPT ![b] = ~@]
          /\ reports' = [reports EXCEPT ![b] = IF alarm[b] THEN @ ELSE 0]
          /\ stops' = IF b = Stop /\ ~alarm[b] THEN 0 ELSE stops
    BY <1>4 DEF AlarmChange
  <2>2. b \in AlarmBits /\ UNCHANGED <<plc_alarm_mask, is_sudden_stop>>
    BY <1>4, PinsAssumption DEF AlarmChange
  <2>3. AlarmTypes'
    BY <2>1, <2>2
  <2>4. FreshStop'
    BY <2>1, <2>2 DEF FreshStop
  <2>5. ASSUME NEW a \in AlarmBits PROVE Fresh(a)' /\ reports'[a] <= 1
    BY <2>1, <2>2 DEF Fresh, ReportedOnce
  <2> QED  BY <2>1, <2>3, <2>4, <2>5 DEF ReportedOnce
<1>5. CASE \/ Connect(TRUE) \/ Connect(FALSE) \/ PassOn \/ PollFail
  BY <1>5, QuietKeeps DEF Connect, PassOn, PollFail, StartPass, plc
<1>6. CASE Messaged \/ Answer \/ StatusUpdate \/ EndPass
  BY <1>6, QuietKeeps DEF Messaged, Answer, StatusUpdate, EndPass, plc
<1>7. CASE Exchange
  <2>1. \E o, r, ok, open : Done(o, r, ok, open)
    BY <1>7 DEF Exchange
  <2> QED  BY <2>1, QuietKeeps DEF Done
<1>8. CASE PlcMove \/ TrayChange \/ LineChange \/ Send
  BY <1>8, QuietKeeps DEF PlcMove, TrayChange, LineChange, Send, plc
<1>9. CASE UNCHANGED vars
  BY <1>9, QuietKeeps DEF vars, plc
<1> QED
  BY <1>1, <1>2, <1>3, <1>4, <1>5, <1>6, <1>7, <1>8, <1>9 DEF Next, Worker, Environment, Poll

\* One press of the emergency stop halts the cells once and one alarm of the PLC is
\* reported once while nobody clears the mask, for any number of cells, alarms and
\* lost connections: is_sudden_stop and plc_alarm_mask outlive a connection.
THEOREM ReportedOnceThm == Spec => []ReportedOnce
<1>1. ReportInv => ReportedOnce
  BY DEF ReportInv
<1> QED  BY <1>1, ReportInit, ReportNext, PTL DEF Spec

-----------------------------------------------------------------------------
(* The answer to a tray command.                                           *)

Command(up) == IF up THEN "tray_up" ELSE "tray_down"
Way(up) == IF up THEN "pressed" ELSE "open"

\* What a tray command sends: the operation its answer rests on, and others that
\* neither move a tray nor count for the answer.
Steady == {o \in Operations : o.on \cap {"up", "down"} = {} /\ o.again = {} /\ ~o.main}
TrayWork(c, up) == {TrayOp(c, up, TRUE)} \cup Steady

\* While a tray command is served its status tells which way the tray goes.
Served(up) ==
  cmd.cmd = Command(up) =>
    /\ pc = "ops" /\ after = "reply" /\ cmd.cell \in Cells
    /\ todo \in Seq(TrayWork(cmd.cell, up))
    /\ status => goal[cmd.cell] = Way(up)
TrayInv == goal \in [Cells -> Positions] /\ \A up \in BOOLEAN : Served(up)

LEMMA TrayInit == Init => TrayInv
<1> SUFFICES ASSUME Init PROVE TrayInv
  OBVIOUS
<1>1. goal \in [Cells -> Positions]
  BY DEF Init, Positions
<1>2. ASSUME NEW up \in BOOLEAN PROVE Served(up)
  BY DEF Init, Served, NoReply, Command
<1> QED  BY <1>1, <1>2 DEF TrayInv

\* The operations of the handlers.
LEMMA TrayOpsWork ==
  ASSUME NEW c \in Cells, NEW up \in BOOLEAN
  PROVE  /\ TrayOps(c, up) \in Seq(TrayWork(c, up))
         /\ ClearOps(FALSE) \o TrayOps(c, up) \in Seq(TrayWork(c, up))
         /\ ClearOps(FALSE) \in Seq(TrayWork(c, up)) /\ <<>> \in Seq(TrayWork(c, up))
         /\ ClearOps(FALSE) \o <<>> \in Seq(TrayWork(c, up))
<1>1. /\ Bit(c, "fan", up, FALSE) \in Steady /\ Bit(Cabinet, "reset", TRUE, FALSE) \in Steady
      /\ Word(Cabinet, {}, {"lamp"}, FALSE) \in Steady
  BY DEF Steady, Operations, Bit, Word, CellBits, CabinetBits
<1>2. TrayOps(c, up) \in Seq(TrayWork(c, up)) /\ ClearOps(FALSE) \in Seq(TrayWork(c, up))
  <2>1. \A S : \A a, b \in S : <<a, b>> \in Seq(S)
    OBVIOUS
  <2>2. /\ TrayOp(c, up, TRUE) \in TrayWork(c, up) /\ Bit(c, "fan", up, FALSE) \in TrayWork(c, up)
        /\ Bit(Cabinet, "reset", TRUE, FALSE) \in TrayWork(c, up)
        /\ Word(Cabinet, {}, {"lamp"}, FALSE) \in TrayWork(c, up)
    BY <1>1 DEF TrayWork
  <2> QED  BY <2>1, <2>2, Zenon DEF TrayOps, ClearOps
<1> QED  BY <1>2, ConcatProperties, EmptySeq

LEMMA TrayOpFields ==
  ASSUME NEW c \in Cells, NEW up \in BOOLEAN
  PROVE  LET o == TrayOp(c, up, TRUE)
         IN  /\ o.main = TRUE /\ o.bit = FALSE /\ o.cell = c /\ c # Cabinet /\ o.again # {}
             /\ o.on = IF up THEN {"up"} ELSE {"down"}
<1>1. c # Cabinet
  BY DEF Cells, Cabinet
<1>2. CASE up = TRUE
  BY <1>1, <1>2 DEF TrayOp
<1>3. CASE up = FALSE
  BY <1>1, <1>3 DEF TrayOp
<1> QED  BY <1>2, <1>3

LEMMA ServeTray ==
  ASSUME TrayInv, NEW m \in Messages, NEW ops, Serve(m, ops),
         \A up \in BOOLEAN : m.cmd = Command(up) => ops \in Seq(TrayWork(m.cell, up))
  PROVE  TrayInv'
BY DEF TrayInv, Served, Serve, plc, Messages

\* Another command than the tray's sends what it wants.
LEMMA ServeOther ==
  ASSUME TrayInv, NEW m \in Messages, NEW ops, Serve(m, ops), m.cmd \notin {"tray_up", "tray_down"}
  PROVE  TrayInv'
BY ServeTray DEF Command

LEMMA ReceiveTray == ASSUME TrayInv, Receive PROVE TrayInv'
<1>1. PICK m \in Messages : Handles(m)
  BY DEF Receive, Handles
<1>2. m.cell \in Cells
  BY DEF Messages
<1>3. CASE TrayUp(m)
  <2>1. m.cmd = "tray_up" /\ Serve(m, ClearOps(FALSE) \o IF st_tray[m.cell] THEN TrayOps(m.cell, TRUE) ELSE <<>>)
    BY <1>3 DEF TrayUp
  <2>2. (ClearOps(FALSE) \o IF st_tray[m.cell] THEN TrayOps(m.cell, TRUE) ELSE <<>>) \in Seq(TrayWork(m.cell, TRUE))
    BY <1>2, TrayOpsWork
  <2> QED  BY <2>1, <2>2, ServeTray DEF Command
<1>4. CASE TrayDown(m)
  <2>1. m.cmd = "tray_down" /\ Serve(m, TrayOps(m.cell, FALSE))
    BY <1>4 DEF TrayDown
  <2> QED  BY <1>2, <2>1, TrayOpsWork, ServeTray DEF Command
<1>5. CASE SimpleCommand(m)
  <2>1. m.cmd \notin {"tray_up", "tray_down"}
    BY <1>5 DEF SimpleCommand, BitCommands, CabinetCommands, WordCommands
  <2> QED  BY <1>5, <2>1, ServeOther DEF SimpleCommand
<1>6. CASE DataCommand(m) \/ AlarmSync(m) \/ ClearWarning(m) \/ OpenDrain(m) \/ Brake(m)
  BY <1>6, ServeOther DEF DataCommand, DataCommands, AlarmSync, ClearWarning, OpenDrain, Brake
<1>7. CASE RegisterCommand(m) \/ StartVacuum(m) \/ BlockTest(m)
  <2>1. m.cmd \notin {"tray_up", "tray_down"}
    BY <1>7 DEF RegisterCommand, StartVacuum, BlockTest
  <2> QED  BY <1>1, <2>1, MessageServes, ServeOther
<1>8. CASE LeakTest(m)
  <2>1. m.cmd \notin {"tray_up", "tray_down"}
    BY <1>8 DEF LeakTest
  <2> QED  BY <1>1, <2>1, MessageServes, ServeOther
<1> QED  BY <1>1, <1>3, <1>4, <1>5, <1>6, <1>7, <1>8 DEF Handles

\* One operation of a tray command: the tray's own moves the tray or fails.
LEMMA ExchangeTray == ASSUME TrayInv, Exchange PROVE TrayInv'
<1> DEFINE o == Head(todo)
<1> USE DEF TrayInv
<1>1. PICK r, ok, open :
        /\ Done(o, r, ok, open)
        /\ \/ r = reg[o.cell] /\ (ok = o.bit \/ ok = FALSE)
           \/ r = Full(o)
           \/ r = Cleared(o) /\ o.again # {} /\ ok = FALSE
  <2>1. CASE ~sock \/ (sock /\ ~line) \/ (sock /\ line /\ UNCHANGED faults)
    BY <2>1 DEF Exchange
  <2>2. CASE sock /\ line /\ Fault
    BY <2>2 DEF Exchange
  <2> QED  BY <2>1, <2>2 DEF Exchange
<1>2. /\ UNCHANGED <<pc, cmd, after>> /\ todo' = Tail(todo) /\ status' = (IF o.main THEN ok ELSE status)
      /\ goal' = IF o.cell = Cabinet THEN goal ELSE [goal EXCEPT ![o.cell] = Moved(o, r)]
  BY <1>1 DEF Done, control
<1>3. goal' \in [Cells -> Positions]
  <2>1. \A c \in Cells : Moved(o, r) \in Positions \/ o.cell # c
    BY DEF Moved, Positions
  <2> QED  BY <1>2, <2>1
<1>4. ASSUME NEW up \in BOOLEAN, cmd.cmd = Command(up) PROVE Served(up)'
  <2> DEFINE c == cmd.cell
  <2>1. pc = "ops" /\ after = "reply" /\ c \in Cells /\ todo \in Seq(TrayWork(c, up)) /\ todo # <<>>
    BY <1>4 DEF Served, Exchange
  <2>2. o \in TrayWork(c, up) /\ todo' \in Seq(TrayWork(c, up))
    BY <1>2, <2>1, HeadTailProperties
  <2>3. CASE o \in Steady
    <3>1. ~o.main /\ o.again = {} /\ o.on \cap {"up", "down"} = {}
      BY <2>3 DEF Steady
    <3>2. r = reg[o.cell] \/ r = Full(o)
      BY <1>1, <3>1
    <3>3. "up" \notin r \ reg[o.cell] /\ "down" \notin r \ reg[o.cell]
      BY <3>1, <3>2 DEF Full
    <3>4. Moved(o, r) = goal[o.cell]
      BY <3>1, <3>3 DEF Moved, IsTrayOp
    <3>5. goal'[c] = goal[c]
      BY <1>2, <2>1, <3>4
    <3> QED  BY <1>2, <1>4, <2>1, <2>2, <3>1, <3>5 DEF Served
  <2>4. CASE o = TrayOp(c, up, TRUE)
    <3>1. /\ o.main = TRUE /\ o.bit = FALSE /\ o.cell = c /\ o.cell # Cabinet /\ o.again # {}
          /\ o.on = IF up THEN {"up"} ELSE {"down"}
      <4>1. LET t == TrayOp(c, up, TRUE)
            IN  /\ t.main = TRUE /\ t.bit = FALSE /\ t.cell = c /\ c # Cabinet /\ t.again # {}
                /\ t.on = IF up THEN {"up"} ELSE {"down"}
        BY <2>1, TrayOpFields
      <4> QED  BY <2>4, <4>1
    <3>2. goal'[c] = Moved(o, r)
      BY <1>2, <2>1, <3>1
    <3>3. ok => r = Full(o)
      BY <1>1, <3>1
    <3>4. ok => goal'[c] = Way(up)
      BY <3>1, <3>2, <3>3 DEF Moved, Way, IsTrayOp
    <3> QED  BY <1>2, <1>4, <2>1, <2>2, <3>1, <3>4 DEF Served
  <2> QED  BY <2>2, <2>3, <2>4 DEF TrayWork
<1> QED  BY <1>2, <1>3, <1>4 DEF Served

LEMMA TrayNext == ASSUME TrayInv, [Next]_vars PROVE TrayInv'
<1> USE DEF TrayInv
<1>1. CASE Receive
  BY <1>1, ReceiveTray
<1>2. CASE Exchange
  BY <1>2, ExchangeTray
<1>3. CASE Answer
  BY <1>3 DEF Answer, Served, NoReply, Command, plc
<1>4. CASE VacTask
  <2>1. pc = "vac" /\ UNCHANGED <<goal, cmd>>
    BY <1>4 DEF VacTask, TaskIdle, VacWait, LeakWait, VacJudge, LeakJudge, Release, StateErr, Task, plc
  <2> QED  BY <2>1 DEF Served
<1>5. CASE \/ Connect(TRUE) \/ Connect(FALSE) \/ PassOn \/ PollOk \/ PollFail
  BY <1>5 DEF Connect, PassOn, PollOk, PollFail, StartPass, plc, command, Served
<1>6. CASE Messaged \/ StatusUpdate \/ EndPass
  BY <1>6 DEF Messaged, StatusUpdate, EndPass, plc, command, Served
<1>7. CASE PlcMove \/ TrayChange \/ AlarmChange \/ LineChange \/ Send
  BY <1>7 DEF PlcMove, TrayChange, AlarmChange, LineChange, Send, plc, control, command, Served
<1>8. CASE UNCHANGED vars
  BY <1>8 DEF vars, plc, control, command, Served
<1> QED  BY <1>1, <1>2, <1>3, <1>4, <1>5, <1>6, <1>7, <1>8 DEF Next, Worker, Environment, Poll

LEMMA AnswerTells ==
  ASSUME TrayInv, [Next]_vars, NEW c \in Cells, NEW up \in BOOLEAN,
         reply' = [cmd |-> Command(up), cell |-> c, ret |-> 0], reply # reply'
  PROVE  goal[c] = Way(up)
<1>1. CASE Answer
  <2>1. reply' = [cmd |-> cmd.cmd, cell |-> cmd.cell, ret |-> IF status THEN 0 ELSE -1]
    BY <1>1 DEF Answer
  <2>2. cmd.cmd = Command(up) /\ cmd.cell = c /\ status
    BY <2>1
  <2> QED  BY <2>2 DEF TrayInv, Served
<1>2. CASE Receive
  <2>1. reply' = NoReply
    <3>1. PICK m \in Messages : Handles(m)
      BY <1>2 DEF Receive, Handles
    <3>2. PICK ops : Serve(m, ops)
      BY <3>1, MessageServes
    <3> QED  BY <3>2 DEF Serve
  <2> QED  BY <2>1 DEF NoReply, Command
<1>3. CASE Messaged
  BY <1>3 DEF Messaged, NoReply, Command
<1>4. CASE VacTask
  BY <1>4 DEF VacTask, TaskIdle, VacWait, LeakWait, VacJudge, LeakJudge, Release, StateErr, Task
<1>5. CASE \/ Connect(TRUE) \/ Connect(FALSE) \/ PassOn \/ PollOk \/ PollFail \/ StatusUpdate \/ EndPass
  BY <1>5 DEF Connect, PassOn, PollOk, PollFail, StartPass, StatusUpdate, EndPass
<1>6. CASE Exchange
  BY <1>6 DEF Exchange, Done
<1>7. CASE PlcMove \/ TrayChange \/ AlarmChange \/ LineChange \/ Send \/ UNCHANGED vars
  BY <1>7 DEF PlcMove, TrayChange, AlarmChange, LineChange, Send, vars
<1> QED  BY <1>1, <1>2, <1>3, <1>4, <1>5, <1>6, <1>7 DEF Next, Worker, Environment, Poll

\* A tray command is answered with success only if the PLC was told to move the tray
\* that way, whichever of its reads and writes fail and whatever was commanded before.
THEOREM TrayAnswerThm == Spec => TrayAnswer
<1>1. ASSUME TrayInv, [Next]_vars
      PROVE  [\A c \in Cells :
                /\ reply' = [cmd |-> "tray_up", cell |-> c, ret |-> 0] /\ reply # reply' => goal[c] = "pressed"
                /\ reply' = [cmd |-> "tray_down", cell |-> c, ret |-> 0] /\ reply # reply' => goal[c] = "open"]_vars
  <2>1. Command(TRUE) = "tray_up" /\ Way(TRUE) = "pressed" /\ Command(FALSE) = "tray_down" /\ Way(FALSE) = "open"
    BY DEF Command, Way
  <2> QED  BY <1>1, <2>1, AnswerTells
<1> QED  BY <1>1, TrayInit, TrayNext, PTL DEF Spec, TrayAnswer
-----------------------------------------------------------------------------
(* The variables keep their types.                                         *)

\* A PLC that is connected has missed at most one reading, so that timeoutCnt, which
\* each failed reading counts up, stays within its limit.
TypeInv == TypeOK /\ (is_plc_connected => timeoutCnt <= 1)

\* The operations of the handlers are register operations.
LEMMA OperationTypes ==
  ASSUME NEW c \in Cells \cup {Cabinet}, NEW v \in BOOLEAN, NEW main \in BOOLEAN
  PROVE  /\ \A b \in CellBits \cup CabinetBits : Bit(c, b, v, main) \in Operations
         /\ \A on, off \in SUBSET (CellBits \cup CabinetBits) : Word(c, on, off, main) \in Operations
         /\ TrayOp(c, v, main) \in Operations
<1>1. \A on, off \in SUBSET (CellBits \cup CabinetBits) : Word(c, on, off, main) \in Operations
  BY DEF Word, Operations
<1>2. ASSUME NEW b \in CellBits \cup CabinetBits PROVE Bit(c, b, v, main) \in Operations
  BY DEF Bit, Operations
<1>3. TrayOp(c, v, main) \in Operations
  BY DEF TrayOp, Operations, CellBits
<1> QED  BY <1>1, <1>2, <1>3

LEMMA ShortSequences ==
  ASSUME NEW S
  PROVE  /\ <<>> \in Seq(S) /\ \A a \in S : <<a>> \in Seq(S)
         /\ \A a, b \in S : <<a, b>> \in Seq(S)
         /\ \A a, b, c \in S : <<a, b, c>> \in Seq(S)
         /\ \A a, b, c, d \in S : <<a, b, c, d>> \in Seq(S)
OBVIOUS

LEMMA OpsTypes ==
  ASSUME NEW c \in Cells
  PROVE  /\ \A up \in BOOLEAN : TrayOps(c, up) \in Seq(Operations)
         /\ \A main \in BOOLEAN : ClearOps(main) \in Seq(Operations)
         /\ PumpOps(c) \in Seq(Operations) /\ DrainOps(c) \in Seq(Operations)
         /\ <<Bit(c, "vac", FALSE, FALSE), Bit(c, "brk", FALSE, FALSE)>> \in Seq(Operations)
         /\ <<Bit(c, "vac", FALSE, FALSE), Bit(c, "brk", FALSE, FALSE), Bit(c, "block", TRUE, TRUE)>> \in Seq(Operations)
<1>1. c \in Cells \cup {Cabinet} /\ Cabinet \in Cells \cup {Cabinet}
  OBVIOUS
<1>2. {"fan", "reset", "para", "brk", "vac", "block"} \subseteq CellBits \cup CabinetBits
      /\ {} \subseteq CellBits \cup CabinetBits /\ {"lamp"} \subseteq CellBits \cup CabinetBits
  BY DEF CellBits, CabinetBits
<1>3. ASSUME NEW up \in BOOLEAN PROVE TrayOps(c, up) \in Seq(Operations)
  BY <1>1, <1>2, OperationTypes, ShortSequences DEF TrayOps
<1>4. ASSUME NEW main \in BOOLEAN PROVE ClearOps(main) \in Seq(Operations)
  BY <1>1, <1>2, OperationTypes, ShortSequences DEF ClearOps
<1>5. \A b \in {"para", "brk", "vac", "block"}, v, main \in BOOLEAN : Bit(c, b, v, main) \in Operations
  BY <1>1, <1>2, OperationTypes
<1>6. PumpOps(c) \in Seq(Operations) /\ DrainOps(c) \in Seq(Operations)
  BY <1>5, ShortSequences DEF PumpOps, DrainOps
<1>7. /\ <<Bit(c, "vac", FALSE, FALSE), Bit(c, "brk", FALSE, FALSE)>> \in Seq(Operations)
      /\ <<Bit(c, "vac", FALSE, FALSE), Bit(c, "brk", FALSE, FALSE), Bit(c, "block", TRUE, TRUE)>> \in Seq(Operations)
  BY <1>5, ShortSequences
<1> QED  BY <1>3, <1>4, <1>6, <1>7

\* The fire doors of the cells that the brake takes.
LEMMA DoorTypes == ASSUME NEW S \in SUBSET Cells, NEW f \in Ascending(S) PROVE DoorOps(f) \in Seq(Operations)
<1>1. IsFiniteSet(S)
  <2>1. IsFiniteSet(1 .. N)
    BY PinsAssumption, FS_Interval
  <2> QED  BY <2>1, FS_Subset DEF Cells
<1>2. Cardinality(S) \in Nat
  BY <1>1, FS_CardinalityType
<1>3. f \in [1 .. Cardinality(S) -> S]
  BY DEF Ascending
<1>4. ASSUME NEW i \in 1 .. Cardinality(S) PROVE Word(f[i], {}, {"fork"}, FALSE) \in Operations
  <2>1. f[i] \in Cells \cup {Cabinet}
    BY <1>3
  <2>2. {} \subseteq CellBits \cup CabinetBits /\ {"fork"} \subseteq CellBits \cup CabinetBits
    BY DEF CellBits
  <2> QED  BY <2>1, <2>2, OperationTypes
<1>5. DoorOps(f) \in [1 .. Cardinality(S) -> Operations]
  BY <1>3, <1>4 DEF DoorOps
<1> QED  BY <1>2, <1>5, SeqDef

LEMMA SimpleOpsTypes ==
  ASSUME NEW m \in Messages, m.cmd \in DOMAIN BitCommands \cup DOMAIN CabinetCommands \cup DOMAIN WordCommands
  PROVE  SimpleOps(m) \in Seq(Operations)
<1>1. m.cell \in Cells \cup {Cabinet} /\ Cabinet \in Cells \cup {Cabinet}
  BY DEF Messages
<1>2. CASE m.cmd \in DOMAIN BitCommands
  <2>1. \A k \in DOMAIN BitCommands : BitCommands[k][1] \in CellBits \cup CabinetBits /\ BitCommands[k][2] \in BOOLEAN
    <3>1. \A k \in DOMAIN BitCommands : BitCommands[k][1] \in CellBits \cup CabinetBits
      BY DEF BitCommands, CellBits
    <3>2. \A k \in DOMAIN BitCommands : BitCommands[k][2] = TRUE \/ BitCommands[k][2] = FALSE
      BY DEF BitCommands
    <3> QED  BY <3>1, <3>2
  <2>2. Bit(m.cell, BitCommands[m.cmd][1], BitCommands[m.cmd][2], TRUE) \in Operations
    BY <1>1, <1>2, <2>1, OperationTypes
  <2> QED  BY <1>2, <2>2, ShortSequences DEF SimpleOps
<1>3. CASE m.cmd \notin DOMAIN BitCommands /\ m.cmd \in DOMAIN CabinetCommands
  <2>1. \A k \in DOMAIN CabinetCommands : CabinetCommands[k] \in CellBits \cup CabinetBits
    BY DEF CabinetCommands, CabinetBits
  <2>2. Bit(Cabinet, CabinetCommands[m.cmd], TRUE, TRUE) \in Operations
    BY <1>1, <1>3, <2>1, OperationTypes
  <2> QED  BY <1>3, <2>2, ShortSequences DEF SimpleOps
<1>4. CASE m.cmd \notin DOMAIN BitCommands /\ m.cmd \notin DOMAIN CabinetCommands
  <2>1. \A k \in DOMAIN WordCommands : /\ WordCommands[k][1] \in SUBSET (CellBits \cup CabinetBits)
                                       /\ WordCommands[k][2] \in SUBSET (CellBits \cup CabinetBits)
    BY DEF WordCommands, CellBits
  <2>2. Word(m.cell, WordCommands[m.cmd][1], WordCommands[m.cmd][2], TRUE) \in Operations
    BY <1>1, <1>4, <2>1, OperationTypes
  <2> QED  BY <1>4, <2>2, ShortSequences DEF SimpleOps
<1> QED  BY <1>2, <1>3, <1>4

\* message_handle: what the command does of its own, and what all do.
LEMMA ServeTypes ==
  ASSUME TypeInv, NEW m \in Messages, NEW ops \in Seq(Operations), Serve(m, ops),
         plc_alarm_mask' \in [Cells -> SUBSET {"stop", "cell", "vac"}],
         m_vac_state' \in [Cells -> VacStates], fire_emergency_flag' \in [Cells -> BOOLEAN],
         told' \in [Cells -> Positions \cup {"none"}], halted' \in [Cells -> BOOLEAN]
  PROVE  TypeInv'
<1> USE DEF TypeInv, TypeOK
<1>1. reports' \in [AlarmBits -> 0 .. 2]
  BY DEF Serve
<1>2. inbox' \in Seq(Messages)
  BY HeadTailProperties DEF Serve
<1>3. reply' \in [cmd : Commands \cup {"none"}, cell : Cells, ret : {0, -1}]
  BY PinsAssumption DEF Serve, NoReply, Cells
<1> QED  BY <1>1, <1>2, <1>3 DEF Serve, plc, link, got, shown, bounds
LEMMA ProcessingTypes ==
  ASSUME TypeInv, NEW c \in Cells, NEW if \in BOOLEAN, Processing(c, if)
  PROVE  told' \in [Cells -> Positions \cup {"none"}]
BY DEF TypeInv, TypeOK, Processing, Positions

LEMMA RegisterTypes == ASSUME TypeInv, NEW m \in Messages, RegisterCommand(m) PROVE TypeInv'
<1>1. m.cell \in Cells \cup {Cabinet}
  BY DEF Messages
<1>2. /\ plc_alarm_mask' \in [Cells -> SUBSET {"stop", "cell", "vac"}]
      /\ m_vac_state' \in [Cells -> VacStates] /\ fire_emergency_flag' \in [Cells -> BOOLEAN]
      /\ told' \in [Cells -> Positions \cup {"none"}] /\ halted' \in [Cells -> BOOLEAN]
  BY DEF TypeInv, TypeOK, RegisterCommand, vacuum, cells
<1>3. ASSUME NEW ops \in Seq(Operations), Serve(m, ops) PROVE TypeInv'
  BY <1>2, <1>3, ServeTypes
<1>4. CASE Serve(m, <<Word(m.cell, {}, {}, TRUE)>>)
  BY <1>1, <1>3, <1>4, OperationTypes, ShortSequences
<1>5. CASE \E b \in {"up", "down", "vac"}, v \in BOOLEAN : Serve(m, <<Bit(m.cell, b, v, TRUE)>>)
  <2>1. \A b \in {"up", "down", "vac"}, v \in BOOLEAN : Bit(m.cell, b, v, TRUE) \in Operations
    BY <1>1, OperationTypes DEF CellBits
  <2> QED  BY <1>3, <1>5, <2>1, ShortSequences
<1>6. CASE \E on \in SUBSET {"up", "down"} : Serve(m, <<Word(m.cell, on, CellBits \ on, TRUE)>>)
  <2>1. ASSUME NEW on \in SUBSET {"up", "down"} PROVE Word(m.cell, on, CellBits \ on, TRUE) \in Operations
    <3>1. on \in SUBSET (CellBits \cup CabinetBits) /\ CellBits \ on \in SUBSET (CellBits \cup CabinetBits)
      BY DEF CellBits
    <3> QED  BY <1>1, <3>1, OperationTypes
  <2> QED  BY <1>3, <1>6, <2>1, ShortSequences
<1> QED  BY <1>4, <1>5, <1>6 DEF RegisterCommand

LEMMA ReceiveTypes == ASSUME TypeInv, Receive PROVE TypeInv'
<1> USE DEF TypeInv, TypeOK
<1>1. PICK m \in Messages : Handles(m)
  BY DEF Receive, Handles
<1>2. m.cell \in Cells
  BY DEF Messages
<1>3. CASE SimpleCommand(m)
  BY <1>3, SimpleOpsTypes, ServeTypes DEF SimpleCommand, vacuum, cells
<1>4. CASE RegisterCommand(m)
  BY <1>4, RegisterTypes
<1>5. CASE DataCommand(m)
  BY <1>5, ShortSequences, ServeTypes DEF DataCommand, vacuum, cells
<1>6. CASE AlarmSync(m)
  <2>1. plc_alarm_mask' \in [Cells -> SUBSET {"stop", "cell", "vac"}]
    BY <1>2, <1>6 DEF AlarmSync
  <2> QED  BY <1>6, <2>1, ShortSequences, ServeTypes DEF AlarmSync, vacuum, cells
<1>7. CASE ClearWarning(m)
  <2>1. plc_alarm_mask' \in [Cells -> SUBSET {"stop", "cell", "vac"}]
    BY <1>2, <1>7 DEF ClearWarning
  <2> QED  BY <1>2, <1>7, <2>1, OpsTypes, ServeTypes DEF ClearWarning, vacuum, cells
<1>8. CASE TrayUp(m)
  <2> DEFINE trays == IF st_tray[m.cell] THEN TrayOps(m.cell, TRUE) ELSE <<>>
  <2>1. ClearOps(FALSE) \o trays \in Seq(Operations)
    BY <1>2, OpsTypes, ShortSequences, ConcatProperties
  <2>2. Serve(m, ClearOps(FALSE) \o trays)
    BY <1>8 DEF TrayUp
  <2>3. plc_alarm_mask' \in [Cells -> SUBSET {"stop", "cell", "vac"}]
    BY <1>8 DEF TrayUp
  <2>4. told' \in [Cells -> Positions \cup {"none"}]
    BY <1>2, <1>8, ProcessingTypes DEF TrayUp
  <2> QED  BY <1>8, <2>1, <2>2, <2>3, <2>4, ServeTypes DEF TrayUp, vacuum
<1>9. CASE TrayDown(m)
  <2>1. told' \in [Cells -> Positions \cup {"none"}]
    BY <1>2, <1>9, ProcessingTypes DEF TrayDown
  <2> QED  BY <1>2, <1>9, <2>1, OpsTypes, ServeTypes DEF TrayDown, vacuum
<1>10. CASE StartVacuum(m)
  <2>1. m_vac_state' \in [Cells -> VacStates]
    BY <1>10 DEF StartVacuum, VacStates
  <2>2. halted' \in [Cells -> BOOLEAN]
    BY <1>10 DEF StartVacuum
  <2>3. \E ops \in Seq(Operations) : Serve(m, ops)
    BY <1>2, <1>10, OpsTypes, ShortSequences DEF StartVacuum
  <2> QED  BY <1>10, <2>1, <2>2, <2>3, ServeTypes DEF StartVacuum
<1>11. CASE OpenDrain(m)
  <2>1. m_vac_state' \in [Cells -> VacStates]
    BY <1>11 DEF OpenDrain, VacStates
  <2>2. halted' \in [Cells -> BOOLEAN]
    BY <1>11 DEF OpenDrain
  <2> QED  BY <1>2, <1>11, <2>1, <2>2, OpsTypes, ServeTypes DEF OpenDrain
<1>12. CASE BlockTest(m)
  <2>1. \E ops \in Seq(Operations) : Serve(m, ops)
    BY <1>2, <1>12, OpsTypes, ShortSequences DEF BlockTest
  <2> QED  BY <1>12, <2>1, ServeTypes DEF BlockTest, vacuum, cells
<1>13. CASE LeakTest(m)
  <2>1. \E ops \in Seq(Operations) : Serve(m, ops)
    <3>1. PICK t \in {TrayOps(m.cell, TRUE), <<>>} :
            \/ Serve(m, t \o <<Bit(m.cell, "vac", FALSE, FALSE), Bit(m.cell, "brk", FALSE, FALSE)>>)
            \/ Serve(m, t)
      BY <1>13 DEF LeakTest
    <3>2. t \in Seq(Operations)
      <4>1. TrayOps(m.cell, TRUE) \in Seq(Operations)
        BY <1>2, OpsTypes
      <4>2. <<>> \in Seq(Operations)
        BY ShortSequences
      <4> QED  BY <4>1, <4>2
    <3>3. t \o <<Bit(m.cell, "vac", FALSE, FALSE), Bit(m.cell, "brk", FALSE, FALSE)>> \in Seq(Operations)
      BY <1>2, <3>2, OpsTypes, ConcatProperties
    <3> QED  BY <3>1, <3>2, <3>3
  <2>2. told' \in [Cells -> Positions \cup {"none"}]
    <3>1. \E if \in BOOLEAN : Processing(m.cell, if)
      BY <1>13 DEF LeakTest
    <3> QED  BY <1>2, <3>1, ProcessingTypes
  <2> QED  BY <1>13, <2>1, <2>2, ServeTypes DEF LeakTest, vacuum
<1>14. CASE Brake(m)
  <2>1. \E ops \in Seq(Operations) : Serve(m, ops)
    BY <1>14, DoorTypes DEF Brake, Braked
  <2>2. m_vac_state' \in [Cells -> VacStates]
    BY <1>14 DEF Brake, VacStates
  <2>3. fire_emergency_flag' \in [Cells -> BOOLEAN] /\ halted' \in [Cells -> BOOLEAN]
    BY <1>14 DEF Brake
  <2> QED  BY <1>14, <2>1, <2>2, <2>3, ServeTypes DEF Brake
<1> QED
  BY <1>1, <1>3, <1>4, <1>5, <1>6, <1>7, <1>8, <1>9, <1>10, <1>11, <1>12, <1>13, <1>14 DEF Handles

LEMMA ExchangeTypes == ASSUME TypeInv, Exchange PROVE TypeInv'
<1> DEFINE o == Head(todo)
<1> USE DEF TypeInv, TypeOK
<1>1. o \in Operations /\ Tail(todo) \in Seq(Operations)
  BY HeadTailProperties DEF Exchange
<1>2. /\ o.cell \in Cells \cup {Cabinet} /\ o.main \in BOOLEAN /\ o.bit \in BOOLEAN
      /\ o.on \subseteq CellBits \cup CabinetBits /\ reg[o.cell] \subseteq CellBits \cup CabinetBits
  BY <1>1 DEF Operations
<1>3. PICK r, ok, open : /\ Done(o, r, ok, open) /\ (UNCHANGED faults \/ Fault)
                         /\ r \in {reg[o.cell], Full(o), Cleared(o)}
                         /\ ok = o.bit \/ ok = TRUE \/ ok = FALSE
                         /\ open = TRUE \/ open = FALSE
  <2>1. CASE ~sock
    BY <2>1 DEF Exchange
  <2>2. CASE sock /\ ~line
    BY <2>2 DEF Exchange
  <2>3. CASE sock /\ line /\ Done(o, Full(o), TRUE, TRUE) /\ UNCHANGED faults
    BY <2>3
  <2>4. CASE sock /\ line /\ Fault /\ \E open \in BOOLEAN : Done(o, reg[o.cell], o.bit, open)
    BY <2>4
  <2>5. CASE sock /\ line /\ Fault /\ Done(o, Cleared(o), FALSE, FALSE)
    BY <2>5
  <2>6. CASE sock /\ line /\ Fault /\ \E r \in {reg[o.cell], Full(o)} : Done(o, r, FALSE, FALSE)
    BY <2>6
  <2> QED  BY <2>1, <2>2, <2>3, <2>4, <2>5, <2>6 DEF Exchange
<1>4. reg' \in [Cells \cup {Cabinet} -> SUBSET (CellBits \cup CabinetBits)]
  <2>1. r \in SUBSET (CellBits \cup CabinetBits)
    BY <1>2, <1>3 DEF Full, Cleared
  <2> QED  BY <1>3, <2>1 DEF Done
<1>5. goal' \in [Cells -> Positions]
  <2>1. \A c \in Cells : Moved(o, r) \in Positions \/ o.cell # c
    BY DEF Moved, Positions
  <2> QED  BY <1>3, <2>1 DEF Done
<1>6. outcome' \in [Cells -> {"none", "up", "down", "failed"}]
  <2>1. PICK w \in {"up", "down", "failed"} :
          outcome' = IF ~IsTrayOp(o) THEN outcome ELSE [outcome EXCEPT ![o.cell] = w]
    BY <1>3 DEF Done
  <2> QED  BY <2>1
<1>7. faults' \in 0 .. MaxFaults
  BY <1>3, PinsAssumption DEF Fault
<1>8. status' \in BOOLEAN
  BY <1>2, <1>3 DEF Done
<1>9. todo' \in Seq(Operations) /\ sock' \in BOOLEAN
  BY <1>1, <1>3 DEF Done
<1>10. UNCHANGED <<pos, tray, alarm, line, is_plc_connected, timeoutCnt, got, shown, alarms, vacuum, control, cmd,
                   after, inbox, reply, cells, sent>>
  BY <1>3 DEF Done
<1> QED  BY <1>4, <1>5, <1>6, <1>7, <1>8, <1>9, <1>10 DEF got, shown, alarms, vacuum, control, cells
LEMMA TaskTypes ==
  ASSUME TypeInv, NEW s \in VacStates, NEW ops \in Seq(Operations), Task(s, ops), sock' \in BOOLEAN,
         plc_alarm_mask' \in [Cells -> SUBSET {"stop", "cell", "vac"}],
         fire_emergency_flag' \in [Cells -> BOOLEAN],
         told' \in [Cells -> Positions \cup {"none"}], halted' \in [Cells -> BOOLEAN]
  PROVE  TypeInv'
<1> USE DEF TypeInv, TypeOK
<1>1. cell_i' \in 1 .. N + 1
  BY PinsAssumption DEF Task, Cells
<1>2. m_vac_state' \in [Cells -> VacStates]
  BY DEF Task
<1>3. todo' \in Seq(Operations) /\ after' \in {"reply", "vac"} /\ pc' \in {"vac", "ops"}
  BY DEF Task
<1> QED  BY <1>1, <1>2, <1>3 DEF Task, plc, got, shown, bounds

LEMMA VacTaskTypes == ASSUME TypeInv, VacTask PROVE TypeInv'
<1> USE DEF TypeInv, TypeOK
<1>1. cell_i \in Cells /\ <<>> \in Seq(Operations)
  <2>1. \E s, ops : Task(s, ops)
    BY DEF VacTask, TaskIdle, VacWait, LeakWait, VacJudge, LeakJudge, Release, StateErr
  <2> QED  BY <2>1, ShortSequences DEF Task
<1>2. CASE TaskIdle \/ LeakWait \/ StateErr
  <2>1. \E s \in VacStates : Task(s, <<>>)
    BY <1>1, <1>2 DEF TaskIdle, LeakWait, StateErr, VacStates
  <2>2. UNCHANGED <<sock, plc_alarm_mask, fire_emergency_flag, told, halted>>
    BY <1>2 DEF TaskIdle, LeakWait, StateErr, cells
  <2> QED  BY <1>1, <2>1, <2>2, TaskTypes
<1>3. CASE VacWait
  <2>1. (\E s \in VacStates : Task(s, <<>>)) /\ sock' \in BOOLEAN
    BY <1>3 DEF VacWait, VacStates, ReadAck
  <2>2. UNCHANGED <<plc_alarm_mask, fire_emergency_flag, told, halted>>
    BY <1>3 DEF VacWait, cells
  <2> QED  BY <1>1, <2>1, <2>2, TaskTypes
<1>4. CASE VacJudge
  <2>1. PICK fails \in BOOLEAN :
          /\ \E s \in {"release", "end", "vac_judge"} : Task(s, <<>>)
          /\ halted' = [halted EXCEPT ![cell_i] = @ \/ fails]
          /\ plc_alarm_mask' = [plc_alarm_mask EXCEPT ![cell_i] = IF fails THEN @ \cup {"vac"} ELSE @]
    BY <1>4 DEF VacJudge
  <2>2. (\E s \in VacStates : Task(s, <<>>)) /\ sock' \in BOOLEAN
    BY <1>4, <2>1 DEF VacJudge, VacStates, ReadAck
  <2>3. halted' \in [Cells -> BOOLEAN] /\ plc_alarm_mask' \in [Cells -> SUBSET {"stop", "cell", "vac"}]
    BY <1>1, <2>1
  <2>4. UNCHANGED <<fire_emergency_flag, told>>
    BY <1>4 DEF VacJudge
  <2> QED  BY <1>1, <2>2, <2>3, <2>4, TaskTypes
<1>5. CASE LeakJudge
  <2>1. \E s \in VacStates, ops \in Seq(Operations) : Task(s, ops)
    <3>1. \/ \E s \in {"end", "leak_judge"} : Task(s, <<>>)
          \/ Task("leak_judge", DrainOps(cell_i))
      BY <1>5 DEF LeakJudge
    <3>2. "end" \in VacStates /\ "leak_judge" \in VacStates
      BY DEF VacStates
    <3> QED  BY <1>1, <3>1, <3>2, OpsTypes
  <2>2. PICK far \in BOOLEAN : halted' = [halted EXCEPT ![cell_i] = @ \/ far]
    BY <1>5 DEF LeakJudge
  <2>3. halted' \in [Cells -> BOOLEAN]
    BY <2>2
  <2>4. sock' \in BOOLEAN /\ UNCHANGED <<plc_alarm_mask, fire_emergency_flag, told>>
    BY <1>5 DEF LeakJudge, ReadAck
  <2> QED  BY <2>1, <2>3, <2>4, TaskTypes
<1>6. CASE Release
  <2>1. ReleaseOps(cell_i) \in Seq(Operations)
    BY <1>1, OpsTypes DEF ReleaseOps
  <2>2. Task("end", ReleaseOps(cell_i)) /\ UNCHANGED <<sock, plc_alarm_mask, halted>> /\ "end" \in VacStates
    BY <1>6 DEF Release, VacStates
  <2>3. told' \in [Cells -> Positions \cup {"none"}]
    <3>1. told' = [told EXCEPT ![cell_i] = "moving"] \/ told' = told
      BY <1>6 DEF Release, Processing
    <3> QED  BY <3>1 DEF Positions
  <2>4. fire_emergency_flag' \in [Cells -> BOOLEAN]
    BY <1>6 DEF Release
  <2> QED  BY <2>1, <2>2, <2>3, <2>4, TaskTypes
<1> QED  BY <1>2, <1>3, <1>4, <1>5, <1>6 DEF VacTask

\* The top of a pass.
LEMMA PollTypes ==
  ASSUME TypeInv, \E click \in BOOLEAN : Connect(click) \/ PassOn \/ PollOk \/ PollFail
  PROVE  TypeInv'
<1> USE DEF TypeInv, TypeOK
<1>1. PICK click \in BOOLEAN : StartPass(click)
  BY DEF Connect, PassOn, PollOk, PollFail
<1>2. /\ pc' = "msg" /\ timer_click' \in BOOLEAN /\ not_ack_flag' = FALSE /\ cell_i' \in 1 .. N + 1
      /\ UNCHANGED <<plc, shown, vacuum, command, inbox, reply, outcome, sent>>
  BY <1>1, PinsAssumption DEF StartPass
<1>3. ASSUME /\ is_plc_connected' \in BOOLEAN /\ sock' \in BOOLEAN /\ timeoutCnt' \in 0 .. 2
             /\ is_plc_connected' => timeoutCnt' <= 1
             /\ got_tray' \in [Cells -> BOOLEAN] /\ got_pos' \in [Cells -> Positions]
             /\ plc_alarm_mask' \in [Cells -> SUBSET {"stop", "cell", "vac"}] /\ is_sudden_stop' \in BOOLEAN
             /\ reports' \in [AlarmBits -> 0 .. 2] /\ stops' \in 0 .. 2
             /\ halted' \in [Cells -> BOOLEAN] /\ UNCHANGED told /\ faults' \in 0 .. MaxFaults
      PROVE  TypeInv'
  BY <1>2, <1>3 DEF plc, shown, vacuum, command
<1>4. CASE \E c \in BOOLEAN : Connect(c)
  BY <1>3, <1>4 DEF Connect, Opened, got, alarms, cells
<1>5. CASE PassOn
  BY <1>3, <1>5 DEF PassOn, link, got, alarms, cells
<1>6. CASE PollOk
  <2>1. /\ got_tray' \in [Cells -> BOOLEAN] /\ got_pos' \in [Cells -> Positions] /\ timeoutCnt' = 0
        /\ UNCHANGED <<is_plc_connected, told>> /\ sock' \in BOOLEAN /\ faults' \in 0 .. MaxFaults
    <3>1. /\ got_tray' = tray /\ got_pos' = pos /\ timeoutCnt' = 0 /\ UNCHANGED <<is_plc_connected, told>>
          /\ UNCHANGED faults \/ Fault
      BY <1>6 DEF PollOk
    <3>2. sock' \in BOOLEAN
      BY <1>6 DEF PollOk
    <3>3. faults' \in 0 .. MaxFaults
      BY <3>1, PinsAssumption DEF Fault
    <3> QED  BY <3>1, <3>2, <3>3
  <2>2. CASE UNCHANGED <<alarms, halted>>
    BY <1>3, <2>1, <2>2 DEF alarms
  <2>3. CASE PlcAlarmHandle
    <3>1. is_sudden_stop' \in BOOLEAN
      BY <2>3, PinsAssumption DEF PlcAlarmHandle, AlarmBits
    <3>2. halted' \in [Cells -> BOOLEAN] /\ stops' \in 0 .. 2
      <4>1. \/ halted' = [c \in Cells |-> halted[c] \/ c \in Everyone] /\ stops' = Capped(stops)
            \/ UNCHANGED <<halted, stops>>
        BY <2>3 DEF PlcAlarmHandle
      <4>2. halted' \in [Cells -> BOOLEAN]
        BY <4>1
      <4>3. stops' \in 0 .. 2
        BY <4>1 DEF Capped
      <4> QED  BY <4>2, <4>3
    <3>3. plc_alarm_mask' \in [Cells -> SUBSET {"stop", "cell", "vac"}]
      BY <2>3 DEF PlcAlarmHandle, Polled, Happening
    <3>4. reports' \in [AlarmBits -> 0 .. 2]
      BY <2>3 DEF PlcAlarmHandle, Capped
    <3> QED  BY <1>3, <2>1, <3>1, <3>2, <3>3, <3>4
  <2> QED  BY <1>6, <2>2, <2>3 DEF PollOk
<1>7. CASE PollFail
  <2>1. timeoutCnt' \in 0 .. 2 /\ is_plc_connected' = (timeoutCnt' <= 1)
    BY <1>7 DEF PollFail, WithinLimit
  <2>2. sock' \in BOOLEAN /\ faults' \in 0 .. MaxFaults
    <3>1. sock' \in BOOLEAN /\ (UNCHANGED faults \/ Fault)
      BY <1>7 DEF PollFail
    <3> QED  BY <3>1, PinsAssumption DEF Fault
  <2>3. got_tray' \in [Cells -> BOOLEAN] /\ got_pos' \in [Cells -> Positions]
    BY <1>7 DEF PollFail, got
  <2>4. UNCHANGED <<alarms, cells>>
    BY <1>7 DEF PollFail
  <2>5. is_plc_connected' \in BOOLEAN /\ (is_plc_connected' => timeoutCnt' <= 1)
    <3>1. is_plc_connected' \in BOOLEAN
      <4>1. (timeoutCnt' <= 1) \in BOOLEAN
        OBVIOUS
      <4> QED  BY <2>1, <4>1, Zenon
    <3>2. is_plc_connected' => timeoutCnt' <= 1
      BY <2>1, Zenon
    <3> QED  BY <3>1, <3>2
  <2>6. /\ plc_alarm_mask' \in [Cells -> SUBSET {"stop", "cell", "vac"}] /\ is_sudden_stop' \in BOOLEAN
        /\ reports' \in [AlarmBits -> 0 .. 2] /\ stops' \in 0 .. 2
        /\ halted' \in [Cells -> BOOLEAN] /\ UNCHANGED told
    BY <2>4 DEF alarms, cells
  <2> QED  BY <1>3, <2>1, <2>2, <2>3, <2>5, <2>6
<1> QED  BY <1>4, <1>5, <1>6, <1>7

LEMMA TypeNext == ASSUME TypeInv, [Next]_vars PROVE TypeInv'
<1> USE DEF TypeInv, TypeOK
<1>1. CASE Receive
  BY <1>1, ReceiveTypes
<1>2. CASE VacTask
  BY <1>2, VacTaskTypes
<1>3. CASE Exchange
  BY <1>3, ExchangeTypes
<1>4. CASE Connect(TRUE) \/ Connect(FALSE) \/ PassOn \/ PollOk \/ PollFail
  BY <1>4, PollTypes
<1>5. CASE Messaged
  <2>1. inbox' \in Seq(Messages)
    BY <1>5, HeadTailProperties DEF Messaged
  <2>2. reply' \in [cmd : Commands \cup {"none"}, cell : Cells, ret : {0, -1}]
    BY <1>5, PinsAssumption DEF Messaged, NoReply, Cells
  <2> QED  BY <1>5, <2>1, <2>2 DEF Messaged, plc, link, got, shown, alarms, vacuum, command, cells, bounds
<1>6. CASE Answer
  <2>1. reply' \in [cmd : Commands \cup {"none"}, cell : Cells, ret : {0, -1}]
    <3>1. cmd.cmd \in Commands \cup {"none"} /\ cmd.cell \in Cells
      BY PinsAssumption DEF Messages, NoReply, Cells
    <3> QED  BY <1>6, <3>1 DEF Answer
  <2> QED  BY <1>6, <2>1 DEF Answer, plc, link, got, shown, alarms, vacuum, cells, bounds
<1>7. CASE StatusUpdate
  <2>1. st_tray' \in [Cells -> BOOLEAN] /\ st_pos' \in [Cells -> Positions] /\ st_link' \in [Cells -> BOOLEAN]
    <3>1. \/ st_tray' = got_tray /\ st_pos' = got_pos /\ st_link' = [c \in Cells |-> TRUE]
          \/ st_link' = [c \in Cells |-> FALSE] /\ UNCHANGED <<st_tray, st_pos>>
      BY <1>7 DEF StatusUpdate
    <3> QED  BY <3>1
  <2>2. last_pins_state' \in [Cells -> BOOLEAN] /\ told' \in [Cells -> Positions \cup {"none"}]
    <3>1. \/ /\ last_pins_state' = [c \in Cells |-> got_pos[c] = "pressed"]
             /\ told' = [c \in Cells |-> IF ~Edge(c) THEN told[c]
                                          ELSE IF got_pos[c] = "pressed" THEN "pressed" ELSE "open"]
          \/ UNCHANGED <<last_pins_state, told>>
      BY <1>7 DEF StatusUpdate
    <3>2. last_pins_state' \in [Cells -> BOOLEAN]
      <4>1. \A c \in Cells : (got_pos[c] = "pressed") \in BOOLEAN
        BY Zenon
      <4>2. CASE last_pins_state' = [c \in Cells |-> got_pos[c] = "pressed"]
        BY <4>1, <4>2, Zenon
      <4>3. CASE UNCHANGED last_pins_state
        BY <4>3
      <4> QED  BY <3>1, <4>2, <4>3
    <3>3. told' \in [Cells -> Positions \cup {"none"}]
      BY <3>1 DEF Positions
    <3> QED  BY <3>2, <3>3
  <2> QED  BY <1>7, <2>1, <2>2 DEF StatusUpdate, plc, link, got, alarms, vacuum, command, bounds
<1>8. CASE EndPass
  BY <1>8 DEF EndPass, plc, link, got, shown, alarms, vacuum, command, cells, bounds
<1>9. CASE PlcMove
  BY <1>9 DEF PlcMove, Positions, link, got, shown, alarms, vacuum, control, command, cells, bounds
<1>10. CASE TrayChange
  <2>1. tray' \in [Cells -> BOOLEAN]
    <3>1. PICK c \in Trays : tray' = [tray EXCEPT ![c] = ~@]
      BY <1>10 DEF TrayChange
    <3> QED  BY <3>1, PinsAssumption
  <2> QED  BY <1>10, <2>1 DEF TrayChange, link, got, shown, alarms, vacuum, control, command, cells, bounds
<1>11. CASE AlarmChange
  <2>1. alarm' \in [AlarmBits -> BOOLEAN] /\ reports' \in [AlarmBits -> 0 .. 2] /\ stops' \in 0 .. 2
    <3>1. PICK a \in Alarms :
            /\ alarm' = [alarm EXCEPT ![a] = ~@]
            /\ reports' = [reports EXCEPT ![a] = IF alarm[a] THEN @ ELSE 0]
            /\ stops' = IF a = Stop /\ ~alarm[a] THEN 0 ELSE stops
      BY <1>11 DEF AlarmChange
    <3>2. alarm' \in [AlarmBits -> BOOLEAN]
      BY <3>1
    <3>3. reports' \in [AlarmBits -> 0 .. 2]
      <4>1. \E n \in {0, reports[a]} : reports' = [reports EXCEPT ![a] = n]
        BY <3>1
      <4>2. a \in AlarmBits
        BY PinsAssumption
      <4> QED  BY <4>1, <4>2
    <3>4. stops' = 0 \/ stops' = stops
      BY <3>1
    <3> QED  BY <3>2, <3>3, <3>4
  <2> QED  BY <1>11, <2>1 DEF AlarmChange, link, got, shown, vacuum, control, command, cells, bounds
<1>12. CASE LineChange
  BY <1>12 DEF LineChange, link, got, shown, alarms, vacuum, control, command, cells, bounds
<1>13. CASE Send
  <2>1. sent' \in 0 .. MaxCmds /\ inbox' \in Seq(Messages)
    BY <1>13, PinsAssumption, AppendProperties DEF Send
  <2> QED  BY <1>13, <2>1 DEF Send, plc, link, got, shown, alarms, vacuum, control, command, cells
<1>14. CASE UNCHANGED vars
  BY <1>14 DEF vars, plc, link, got, shown, alarms, vacuum, control, command, cells, bounds
<1> QED  BY <1>1, <1>2, <1>3, <1>4, <1>5, <1>6, <1>7, <1>8, <1>9, <1>10, <1>11, <1>12, <1>13, <1>14
         DEF Next, Worker, Environment, Poll

LEMMA TypeInit == Init => TypeInv
<1> SUFFICES ASSUME Init PROVE TypeInv
  OBVIOUS
<1>1. pos \in [Cells -> Positions] /\ got_pos \in [Cells -> Positions] /\ st_pos \in [Cells -> Positions]
  BY DEF Init, Positions
<1>2. m_vac_state \in [Cells -> VacStates]
  BY DEF Init, VacStates
<1>3. cell_i \in 1 .. N + 1 /\ NoReply \in [cmd : Commands \cup {"none"}, cell : Cells, ret : {0, -1}]
  BY PinsAssumption DEF Init, NoReply, Cells
<1>4. sent \in 0 .. MaxCmds /\ faults \in 0 .. MaxFaults
  BY PinsAssumption DEF Init
<1>5. reports \in [AlarmBits -> 0 .. 2] /\ alarm \in [AlarmBits -> BOOLEAN]
  BY DEF Init
<1>6. /\ reg \in [Cells \cup {Cabinet} -> SUBSET (CellBits \cup CabinetBits)]
      /\ plc_alarm_mask \in [Cells -> SUBSET {"stop", "cell", "vac"}]
      /\ told \in [Cells -> Positions \cup {"none"}] /\ outcome \in [Cells -> {"none", "up", "down", "failed"}]
  BY DEF Init
<1>7. /\ tray \in [Cells -> BOOLEAN] /\ got_tray \in [Cells -> BOOLEAN] /\ st_tray \in [Cells -> BOOLEAN]
      /\ st_link \in [Cells -> BOOLEAN] /\ last_pins_state \in [Cells -> BOOLEAN]
      /\ fire_emergency_flag \in [Cells -> BOOLEAN] /\ halted \in [Cells -> BOOLEAN]
  BY DEF Init
<1>8. todo \in Seq(Operations) /\ inbox \in Seq(Messages)
  BY ShortSequences DEF Init
<1>9. goal \in [Cells -> Positions] /\ timeoutCnt \in 0 .. 2 /\ stops \in 0 .. 2
  BY <1>1 DEF Init
<1> QED  BY <1>1, <1>2, <1>3, <1>4, <1>5, <1>6, <1>7, <1>8, <1>9 DEF Init, TypeInv, TypeOK

\* The pin bed's variables keep their types for any number of cells, any mix of commands
\* and any faults; the count of failed readings stays within PLC_HEARTBEAT_TIMEOUT_CNT,
\* for a connected PLC has missed at most one.
THEOREM PinsTypes == Spec => []TypeOK
<1>1. TypeInv => TypeOK
  BY DEF TypeInv
<1> QED  BY <1>1, TypeInit, TypeNext, PTL DEF Spec
=============================================================================
