----------------------------- MODULE PinsWorker -----------------------------
(***************************************************************************)
(* The pin bed thread of the grading build (PinsWorker, PinsGroup_AXM) and *)
(* its register exchanges with the PLC over one TCP connection             *)
(* (SLMPDriver).                                                           *)
(*                                                                         *)
(* A pass of PinsWorker::work first connects, or once a second reads the   *)
(* PLC, then serves the commands of message_handle, and once a second      *)
(* copies the PLC's state to the cells (status_update_handle) and advances *)
(* the vacuum task of every cell (formation_vac_task).  The register       *)
(* operations of a command are sent one after the other and any of them    *)
(* can fail, so they are kept in todo and each is a step; everything else  *)
(* of a handler is one step, for the thread shares nothing.                *)
(*                                                                         *)
(* External: the PLC, which moves a tray when it is told to and may be     *)
(* slow or stuck, its alarm bits, the line to it, and the senders of the   *)
(* commands (Cabinet and Cell).  Register values that no property looks at *)
(* (vacuum values and times) are left out, and the waiting times of the    *)
(* vacuum task run out at any moment.                                      *)
(***************************************************************************)
EXTENDS Integers, Sequences, FiniteSets

CONSTANTS
  N,          \* cells of the PLC (PINS_CELLS_NUM, 8 in the code)
  Commands,   \* the commands that are sent
  Alarms,     \* the alarm bits of the PLC that come and go
  Trays,      \* the cells whose tray is put in and taken out
  MaxCmds,    \* bound: commands sent
  MaxFaults   \* bound: exchanges that fail while the line is up

Cells == 1 .. N
Cabinet == 0            \* the registers that belong to no cell

VARIABLES
  reg,                      \* the PLC's setting registers: the bits that are set
  goal, pos, tray,          \* a cell's tray: where the PLC takes it, where it is, is it there
  alarm,                    \* the PLC's alarm bits
  line,                     \* is the PLC reachable
  is_plc_connected, sock,   \* PinsGroup_AXM; sock: the driver's sockfd is a live connection
  timeoutCnt,
  got_tray, got_pos,        \* trayInPlace, pinsIsPress and pinsIsUnPress of PinsGroup_AXM
  st_tray, st_pos, st_link, \* m_pins_status: tray_in_place, pins_extend and pins_unpress, is_plc_connect
  last_pins_state,
  plc_alarm_mask, is_sudden_stop,
  m_vac_state, fire_emergency_flag,
  pc, timer_click, not_ack_flag, cell_i,  \* where the thread is
  cmd, todo, status, after, \* the command it serves, its operations, its result, where to go then
  inbox, reply,             \* pins_puller; the last reply
  told, halted,             \* published to a cell: the tray's state, SYS_CELL_ALARM_HANDLE
  reports, stops,           \* alarms and emergency stops sent since the bit rose
  outcome,                  \* what became of the last tray operation of a cell
  sent, faults

plc == <<reg, goal, pos, tray, alarm, line>>
link == <<is_plc_connected, sock, timeoutCnt>>
got == <<got_tray, got_pos>>
shown == <<st_tray, st_pos, st_link, last_pins_state>>
alarms == <<plc_alarm_mask, is_sudden_stop, reports, stops>>
vacuum == <<m_vac_state, fire_emergency_flag>>
control == <<pc, timer_click, not_ack_flag, cell_i>>
command == <<cmd, todo, status, after>>
cells == <<told, halted>>
bounds == <<sent, faults>>
vars == <<plc, link, got, shown, alarms, vacuum, control, command, inbox, reply, cells, outcome, bounds>>

CellBits == {"up", "down", "vac", "brk", "fan", "fork", "para", "power", "auto", "maint", "block"}
CabinetBits == {"reset", "lamp", "otp"}
Positions == {"open", "moving", "pressed"}
VacStates == {"none", "vac_wait", "vac_judge", "leak_wait", "leak_judge", "end", "err", "release"}
Stop == <<1, "stop">>      \* FACE_PANEL_STOP, reported as an alarm of cell 1
AlarmBits == {Stop} \cup (Cells \X {"cell"})
ASSUME PinsAssumption ==
  N \in Nat \ {0} /\ Alarms \subseteq AlarmBits /\ Trays \subseteq Cells /\ MaxCmds \in Nat /\ MaxFaults \in Nat

Messages == [cmd : Commands, cell : Cells]
NoReply == [cmd |-> "none", cell |-> 1, ret |-> 0]

(***************************************************************************)
(* Register operations.  on and off are the bits set and cleared; if one   *)
(* of again is set already, first is cleared by a write of its own; a      *)
(* write_bit (bit) answers true when its read fails; main: the command's   *)
(* status is the status of this operation.                                 *)
(***************************************************************************)
Word(c, on, off, main) ==
  [cell |-> c, on |-> on, off |-> off, again |-> {}, first |-> {}, bit |-> FALSE, main |-> main]
Bit(c, b, v, main) ==
  [cell |-> c, on |-> IF v THEN {b} ELSE {}, off |-> IF v THEN {} ELSE {b},
   again |-> {}, first |-> {}, bit |-> TRUE, main |-> main]
TrayOp(c, up, main) ==
  IF up THEN [cell |-> c, on |-> {"up"}, off |-> {"down"}, again |-> {"up"}, first |-> {"up"},
              bit |-> FALSE, main |-> main]
        ELSE [cell |-> c, on |-> {"down"}, off |-> {"up", "vac"}, again |-> {"down"},
              first |-> {"down", "vac"}, bit |-> FALSE, main |-> main]
IsTrayOp(o) == o.again # {}
TrayFanOps(c, up) == <<TrayOp(c, up, FALSE), Bit(c, "fan", up, TRUE)>>   \* mutant: the fan's status
TrayOps(c, up) == <<TrayOp(c, up, TRUE), Bit(c, "fan", up, FALSE)>>
ClearOps(main) == <<Bit(Cabinet, "reset", TRUE, main), Word(Cabinet, {}, {"lamp"}, main)>>
PumpOps(c) == <<Bit(c, "para", FALSE, FALSE), Bit(c, "brk", FALSE, FALSE),
                Bit(c, "para", TRUE, FALSE), Bit(c, "vac", TRUE, TRUE)>>
DrainOps(c) == <<Bit(c, "para", FALSE, FALSE), Bit(c, "vac", FALSE, FALSE),
                 Bit(c, "para", TRUE, FALSE), Bit(c, "brk", TRUE, TRUE)>>

Operations ==
  [cell : Cells \cup {Cabinet}, on : SUBSET (CellBits \cup CabinetBits),
   off : SUBSET (CellBits \cup CabinetBits), again : SUBSET {"up", "down"},
   first : SUBSET {"up", "down", "vac"}, bit : BOOLEAN, main : BOOLEAN]

TypeOK ==
  /\ reg \in [Cells \cup {Cabinet} -> SUBSET (CellBits \cup CabinetBits)]
  /\ goal \in [Cells -> Positions] /\ pos \in [Cells -> Positions] /\ tray \in [Cells -> BOOLEAN]
  /\ alarm \in [AlarmBits -> BOOLEAN] /\ line \in BOOLEAN
  /\ is_plc_connected \in BOOLEAN /\ sock \in BOOLEAN /\ timeoutCnt \in 0 .. 2
  /\ got_tray \in [Cells -> BOOLEAN] /\ got_pos \in [Cells -> Positions]
  /\ st_tray \in [Cells -> BOOLEAN] /\ st_pos \in [Cells -> Positions]
  /\ st_link \in [Cells -> BOOLEAN] /\ last_pins_state \in [Cells -> BOOLEAN]
  /\ plc_alarm_mask \in [Cells -> SUBSET {"stop", "cell", "vac"}] /\ is_sudden_stop \in BOOLEAN
  /\ m_vac_state \in [Cells -> VacStates] /\ fire_emergency_flag \in [Cells -> BOOLEAN]
  /\ pc \in {"sleep", "msg", "ops", "status", "vac"} /\ timer_click \in BOOLEAN
  /\ not_ack_flag \in BOOLEAN /\ cell_i \in 1 .. N + 1
  /\ cmd \in Messages \cup {NoReply} /\ todo \in Seq(Operations) /\ status \in BOOLEAN
  /\ after \in {"reply", "vac"}
  /\ inbox \in Seq(Messages) /\ reply \in [cmd : Commands \cup {"none"}, cell : Cells, ret : {0, -1}]
  /\ told \in [Cells -> Positions \cup {"none"}] /\ halted \in [Cells -> BOOLEAN]
  /\ reports \in [AlarmBits -> 0 .. 2] /\ stops \in 0 .. 2
  /\ outcome \in [Cells -> {"none", "up", "down", "failed"}]
  /\ sent \in 0 .. MaxCmds /\ faults \in 0 .. MaxFaults

\* last_pins_state has no initial value in the code; the other members are zero.
Init ==
  /\ reg = [c \in Cells \cup {Cabinet} |-> {}]
  /\ pos \in [Cells -> {"open", "pressed"}] /\ goal = pos
  /\ tray \in [Cells -> BOOLEAN] /\ alarm = [a \in AlarmBits |-> FALSE] /\ line = TRUE
  /\ is_plc_connected = FALSE /\ sock = FALSE /\ timeoutCnt = 0
  /\ got_tray = [c \in Cells |-> FALSE] /\ got_pos = [c \in Cells |-> "moving"]
  /\ st_tray = [c \in Cells |-> FALSE] /\ st_pos = [c \in Cells |-> "moving"]
  /\ st_link = [c \in Cells |-> FALSE] /\ last_pins_state \in [Cells -> BOOLEAN]
  /\ plc_alarm_mask = [c \in Cells |-> {}] /\ is_sudden_stop = FALSE
  /\ m_vac_state = [c \in Cells |-> "none"] /\ fire_emergency_flag = [c \in Cells |-> FALSE]
  /\ pc = "sleep" /\ timer_click = FALSE /\ not_ack_flag = FALSE /\ cell_i = 1
  /\ cmd = NoReply /\ todo = <<>> /\ status = FALSE /\ after = "reply"
  /\ inbox = <<>> /\ reply = NoReply
  /\ told = [c \in Cells |-> "none"] /\ halted = [c \in Cells |-> FALSE]
  /\ reports = [a \in AlarmBits |-> 0] /\ stops = 0
  /\ outcome = [c \in Cells |-> "none"] /\ sent = 0 /\ faults = 0

Capped(n) == IF n < 2 THEN n + 1 ELSE 2
Fault == faults < MaxFaults /\ faults' = faults + 1

-----------------------------------------------------------------------------
(* The top of a pass: connect, or read the PLC.                            *)

StartPass(click) ==
  /\ pc = "sleep" /\ pc' = "msg" /\ timer_click' = click
  /\ not_ack_flag' = FALSE /\ cell_i' = 1
  /\ UNCHANGED <<plc, shown, vacuum, command, inbox, reply, outcome, sent>>

\* SLMPconnect; mutant: the socket of before is used again
OpenedBefore == line /\ sock
Opened == line
\* do_plc_connect
Connect(click) ==
  /\ ~is_plc_connected /\ StartPass(click)
  /\ is_plc_connected' = line /\ sock' = Opened
  /\ timeoutCnt' = IF line THEN 0 ELSE timeoutCnt
  /\ UNCHANGED <<got, alarms, cells, faults>>

\* Connected, and no second has passed since the last reading.
PassOn ==
  /\ is_plc_connected /\ StartPass(FALSE)
  /\ UNCHANGED <<link, got, alarms, cells, faults>>

\* plc_alarm_handle: a bit is reported when it is not in the mask of its cell.
Polled(c) == {b \in {"stop", "cell"} : <<c, b>> \in AlarmBits}
Happening(c) == {b \in Polled(c) : alarm[<<c, b>>]}
StopSeen == alarm[Stop]                \* mutant: as long as it is pressed
StopNews == alarm[Stop] /\ ~is_sudden_stop
\* pins_puber_send of cell 0xFF
NotTheFirst == {c \in Cells : c > 1}   \* mutant: the loop starts at 1
Everyone == Cells
PlcAlarmHandle ==
  /\ is_sudden_stop' = alarm[Stop]
  /\ IF StopNews
       THEN halted' = [c \in Cells |-> halted[c] \/ c \in Everyone] /\ stops' = Capped(stops)
       ELSE UNCHANGED <<halted, stops>>
  /\ plc_alarm_mask' = [c \in Cells |-> (plc_alarm_mask[c] \ Polled(c)) \cup Happening(c)]
  /\ reports' = [a \in AlarmBits |->
                  IF alarm[a] /\ a[2] \notin plc_alarm_mask[a[1]] THEN Capped(reports[a]) ELSE reports[a]]

\* get_plc_status_info succeeds, and so does get_plc_alarm_info, or it fails.
PollOk ==
  /\ is_plc_connected /\ sock /\ line /\ StartPass(TRUE)
  /\ got_tray' = tray /\ got_pos' = pos /\ timeoutCnt' = 0
  /\ \/ PlcAlarmHandle /\ UNCHANGED <<sock, faults>>
     \/ Fault /\ sock' \in BOOLEAN /\ UNCHANGED <<alarms, halted>>
  /\ UNCHANGED <<is_plc_connected, told>>

\* PLC_HEARTBEAT_TIMEOUT_CNT
OneMore(n) == n <= 2   \* mutant
WithinLimit(n) == n <= 1

\* get_plc_status_info fails: some of its registers may have been read before.
PollFail ==
  /\ is_plc_connected /\ StartPass(TRUE)
  /\ \/ sock /\ line /\ Fault /\ sock' \in {s \in BOOLEAN : timeoutCnt = 0 \/ ~s}
        /\ \E got_n \in 0 .. 2 :
             /\ got_tray' = IF got_n >= 1 THEN tray ELSE got_tray
             /\ got_pos' = IF got_n = 2 THEN pos ELSE got_pos
     \/ ~(sock /\ line) /\ sock' = FALSE /\ UNCHANGED <<got, faults>>
  /\ timeoutCnt' = timeoutCnt + 1 /\ is_plc_connected' = WithinLimit(timeoutCnt')
  /\ UNCHANGED <<alarms, cells>>

-----------------------------------------------------------------------------
(* message_handle: the commands, one after the other.                      *)

\* Those get_funccode_string has a name for are answered.
Unnamed == {"status_query", "alarm_query", "alarm_sync", "test_clear", "start_vacuum_auto",
            "open_drain_auto", "leak_test_auto", "block_test_auto", "brake"}
Silent == {"status_query", "alarm_query", "start_vacuum_auto", "open_drain_auto",
           "block_test_auto", "leak_test_auto"}
ClearsMask == {"tray_up", "clear_warning"}

BitCommands ==
  [stop_vacuum |-> <<"vac", FALSE>>, close_drain |-> <<"brk", FALSE>>,
   power_on |-> <<"power", TRUE>>, power_off |-> <<"power", FALSE>>,
   open_fan |-> <<"fan", TRUE>>, close_fan |-> <<"fan", FALSE>>]
CabinetCommands == [lamp |-> "lamp", opt |-> "otp", calibrate |-> "otp"]
WordCommands ==
  [auto_mode |-> <<{"auto"}, {"maint"}>>, manual_mode |-> <<{"maint"}, {"auto"}>>,
   fire_door_up |-> <<{}, {"fork"}>>, fire_door_down |-> <<{"fork"}, {}>>]
\* No register is touched, and status stays false.
DataCommands == {"status_query", "alarm_query", "test_clear", "vac_para_set"}

\* The head of the queue becomes the command that is served by ops.
Serve(m, ops) ==
  /\ pc = "msg" /\ is_plc_connected /\ inbox # <<>> /\ m = Head(inbox)
  /\ inbox' = Tail(inbox) /\ cmd' = m /\ todo' = ops /\ status' = FALSE /\ after' = "reply"
  /\ not_ack_flag' = (not_ack_flag \/ m.cmd \in Silent)
  /\ pc' = "ops" /\ reply' = NoReply
  /\ reports' = [a \in AlarmBits |-> IF a[1] = m.cell /\ m.cmd \in ClearsMask THEN 0 ELSE reports[a]]
  /\ UNCHANGED <<plc, link, got, shown, is_sudden_stop, stops, timer_click, cell_i, outcome, bounds>>

SimpleOps(m) ==
  IF m.cmd \in DOMAIN BitCommands
    THEN <<Bit(m.cell, BitCommands[m.cmd][1], BitCommands[m.cmd][2], TRUE)>>
  ELSE IF m.cmd \in DOMAIN CabinetCommands
    THEN <<Bit(Cabinet, CabinetCommands[m.cmd], TRUE, TRUE)>>
    ELSE <<Word(m.cell, WordCommands[m.cmd][1], WordCommands[m.cmd][2], TRUE)>>
SimpleCommand(m) ==
  /\ m.cmd \in DOMAIN BitCommands \cup DOMAIN CabinetCommands \cup DOMAIN WordCommands
  /\ Serve(m, SimpleOps(m))
  /\ UNCHANGED <<plc_alarm_mask, vacuum, cells>>

\* PLC_REG_READ, PLC_SW_VERSION; PLC_REG_WRITE of a bit or of a whole register
\* (of those that move something).
RegisterCommand(m) ==
  /\ \/ m.cmd = "reg_read" /\ Serve(m, <<Word(m.cell, {}, {}, TRUE)>>)
     \/ m.cmd = "reg_write" /\ \E b \in {"up", "down", "vac"}, v \in BOOLEAN : Serve(m, <<Bit(m.cell, b, v, TRUE)>>)
     \/ m.cmd = "reg_write" /\ \E on \in SUBSET {"up", "down"} :
          Serve(m, <<Word(m.cell, on, CellBits \ on, TRUE)>>)
  /\ UNCHANGED <<plc_alarm_mask, vacuum, cells>>

DataCommand(m) ==
  /\ m.cmd \in DataCommands /\ Serve(m, <<>>)
  /\ UNCHANGED <<plc_alarm_mask, vacuum, cells>>

\* The cell has reported a tray or door time-out itself: its code is one of those
\* the PLC has a bit for.
AlarmSync(m) ==
  /\ m.cmd = "alarm_sync" /\ Serve(m, <<>>)
  /\ plc_alarm_mask' = [plc_alarm_mask EXCEPT ![m.cell] = @ \cup {"cell"}]
  /\ UNCHANGED <<vacuum, cells>>

\* CELL_CLEAR_WARNNING
ClearWarning(m) ==
  /\ m.cmd = "clear_warning" /\ Serve(m, ClearOps(TRUE))
  /\ plc_alarm_mask' = [plc_alarm_mask EXCEPT ![m.cell] = {}]
  /\ UNCHANGED <<vacuum, cells>>

\* SYS_TRAY_STATE_SET, TRAY_PROCESSING_CMD
Processing(c, if) == told' = IF if THEN [told EXCEPT ![c] = "moving"] ELSE told

TrayUp(m) ==
  /\ m.cmd = "tray_up"
  /\ Serve(m, ClearOps(FALSE) \o IF st_tray[m.cell] THEN TrayOps(m.cell, TRUE) ELSE <<>>)
  /\ plc_alarm_mask' = [plc_alarm_mask EXCEPT ![m.cell] = {}]
  /\ Processing(m.cell, st_pos[m.cell] = "open")
  /\ UNCHANGED <<vacuum, halted>>

TrayDown(m) ==
  /\ m.cmd = "tray_down" /\ Serve(m, TrayOps(m.cell, FALSE))
  /\ Processing(m.cell, st_pos[m.cell] = "pressed")
  /\ UNCHANGED <<plc_alarm_mask, vacuum, halted>>

\* A time of zero halts the cell with VACUUM_PARA_ABNORMAL; a value that is not
\* a vacuum is refused.
StartVacuum(m) ==
  /\ m.cmd \in {"start_vacuum", "start_vacuum_auto"}
  /\ \/ Serve(m, PumpOps(m.cell)) /\ m_vac_state' = [m_vac_state EXCEPT ![m.cell] = "vac_wait"]
     \/ Serve(m, <<>>) /\ UNCHANGED m_vac_state
  /\ \E zero \in BOOLEAN : halted' = [halted EXCEPT ![m.cell] = @ \/ zero]
  /\ UNCHANGED <<plc_alarm_mask, fire_emergency_flag, told>>

OpenDrain(m) ==
  /\ m.cmd \in {"open_drain", "open_drain_auto"}
  /\ Serve(m, DrainOps(m.cell))
  /\ m_vac_state' = [m_vac_state EXCEPT ![m.cell] = "leak_wait"]
  /\ \E zero \in BOOLEAN : halted' = [halted EXCEPT ![m.cell] = @ \/ zero]
  /\ UNCHANGED <<plc_alarm_mask, fire_emergency_flag, told>>

\* The tests after formation: their parameters may be missing.  In this build no
\* task follows them up.
BlockTest(m) ==
  /\ m.cmd \in {"block_test_manual", "block_test_auto"}
  /\ \/ Serve(m, <<Bit(m.cell, "vac", FALSE, FALSE), Bit(m.cell, "brk", FALSE, FALSE),
                   Bit(m.cell, "block", TRUE, TRUE)>>)
     \/ Serve(m, <<>>)
  /\ UNCHANGED <<plc_alarm_mask, vacuum, cells>>

LeakTest(m) ==
  /\ m.cmd \in {"leak_test_manual", "leak_test_auto"}
  /\ LET press == m.cmd = "leak_test_manual"
         trays == IF press /\ st_tray[m.cell] THEN TrayOps(m.cell, TRUE) ELSE <<>>
         off == <<Bit(m.cell, "vac", FALSE, FALSE), Bit(m.cell, "brk", FALSE, FALSE)>>
     IN  /\ Serve(m, trays \o off) \/ Serve(m, trays)
         /\ Processing(m.cell, press /\ st_pos[m.cell] = "open")
  /\ UNCHANGED <<plc_alarm_mask, vacuum, halted>>

\* FIRE_EMERGENCY_BRAKE: every cell that is not being released already.
Braked == {c \in Cells : m_vac_state[c] # "release"}
Ascending(S) == {f \in [1 .. Cardinality(S) -> S] : \A i, j \in DOMAIN f : i < j => f[i] < f[j]}
DoorOps(f) == [i \in DOMAIN f |-> Word(f[i], {}, {"fork"}, FALSE)]
Brake(m) ==
  /\ m.cmd = "brake"
  /\ \E f \in Ascending(Braked) : Serve(m, DoorOps(f))
  /\ halted' = [c \in Cells |-> halted[c] \/ c \in Braked]
  /\ m_vac_state' = [c \in Cells |-> "release"]
  /\ fire_emergency_flag' = [c \in Cells |-> fire_emergency_flag[c] \/ c \in Braked]
  /\ UNCHANGED <<plc_alarm_mask, told>>

Receive ==
  \E m \in Messages :
    SimpleCommand(m) \/ RegisterCommand(m) \/ DataCommand(m) \/ AlarmSync(m) \/ ClearWarning(m) \/ TrayUp(m) \/ TrayDown(m)
      \/ StartVacuum(m) \/ OpenDrain(m) \/ BlockTest(m) \/ LeakTest(m) \/ Brake(m)

\* Nothing left to read, or the PLC is not connected: the message that was read is
\* dropped and the others stay in the queue.
Messaged ==
  /\ pc = "msg" /\ (inbox = <<>> \/ ~is_plc_connected)
  /\ inbox' = IF inbox = <<>> THEN inbox ELSE Tail(inbox)
  /\ pc' = IF timer_click THEN "status" ELSE "sleep"
  /\ timer_click' = FALSE
  /\ reply' = NoReply
  /\ UNCHANGED <<plc, link, got, shown, alarms, vacuum, not_ack_flag, cell_i, command, cells, outcome, bounds>>

-----------------------------------------------------------------------------
(* One register operation: a read and, unless that fails, one or two       *)
(* writes.  No answer within a second closes the socket.                   *)

Full(o) == (reg[o.cell] \ o.off) \cup o.on
Cleared(o) == reg[o.cell] \ o.first
\* The PLC acts on a bit that rises, external.
Moved(o, r) ==
  LET rise == IF IsTrayOp(o) /\ r = Full(o) THEN o.on ELSE r \ reg[o.cell]
  IN  IF "up" \in rise THEN "pressed" ELSE IF "down" \in rise THEN "open" ELSE goal[o.cell]

\* The operation leaves the bits r, its caller is told ok, the socket stays or not.
Done(o, r, ok, open) ==
  /\ todo' = Tail(todo) /\ sock' = open
  /\ status' = IF o.main THEN ok ELSE status
  /\ reg' = [reg EXCEPT ![o.cell] = r]
  /\ goal' = IF o.cell = Cabinet THEN goal ELSE [goal EXCEPT ![o.cell] = Moved(o, r)]
  /\ outcome' = IF ~IsTrayOp(o) THEN outcome
                ELSE [outcome EXCEPT ![o.cell] = IF ~ok THEN "failed" ELSE IF "up" \in o.on THEN "up" ELSE "down"]
  /\ UNCHANGED <<pos, tray, alarm, line, is_plc_connected, timeoutCnt, got, shown, alarms, vacuum, control,
                 cmd, after, inbox, reply, cells, sent>>

Exchange ==
  /\ pc = "ops" /\ todo # <<>>
  /\ LET o == Head(todo)  same == reg[o.cell]
     IN  \/ ~sock /\ Done(o, same, FALSE, FALSE) /\ UNCHANGED faults
         \/ sock /\ ~line /\ Done(o, same, o.bit, FALSE) /\ UNCHANGED faults
         \/ sock /\ line /\ Done(o, Full(o), TRUE, TRUE) /\ UNCHANGED faults
         \/ sock /\ line /\ Fault
              /\ \/ \E open \in BOOLEAN : Done(o, same, o.bit, open)       \* the read fails
                 \/ o.again \cap same # {} /\ Done(o, Cleared(o), FALSE, FALSE)
                 \/ \E r \in {same, Full(o)} : Done(o, r, FALSE, FALSE)  \* the write does, unseen or not

\* The rest of the handler: pins_ack_reply, or on to the next cell of the task.
Answer ==
  /\ pc = "ops" /\ todo = <<>> /\ pc' = IF after = "reply" THEN "msg" ELSE "vac"
  /\ reply' = IF after = "reply" /\ ~not_ack_flag /\ cmd.cmd \notin Unnamed
                THEN [cmd |-> cmd.cmd, cell |-> cmd.cell, ret |-> IF status THEN 0 ELSE -1] ELSE reply
  /\ cmd' = NoReply /\ status' = FALSE /\ after' = "reply"
  /\ UNCHANGED <<plc, link, got, shown, alarms, vacuum, timer_click, not_ack_flag, cell_i, todo,
                 inbox, cells, outcome, bounds>>

-----------------------------------------------------------------------------
(* Once a second: status_update_handle, then formation_vac_task.           *)

\* The tray's state is published when pins_extend differs from the last look.
EdgeUp(c) == ~last_pins_state[c] /\ got_pos[c] = "pressed"   \* mutant: only when it gets pressed
Edge(c) == last_pins_state[c] # (got_pos[c] = "pressed")
StatusUpdate ==
  /\ pc = "status" /\ pc' = "vac"
  /\ IF is_plc_connected
       THEN /\ st_tray' = got_tray /\ st_pos' = got_pos /\ st_link' = [c \in Cells |-> TRUE]
            /\ last_pins_state' = [c \in Cells |-> got_pos[c] = "pressed"]
            /\ told' = [c \in Cells |-> IF ~Edge(c) THEN told[c]
                                        ELSE IF got_pos[c] = "pressed" THEN "pressed" ELSE "open"]
       ELSE st_link' = [c \in Cells |-> FALSE] /\ UNCHANGED <<st_tray, st_pos, last_pins_state, told>>
  /\ UNCHANGED <<plc, link, got, alarms, vacuum, timer_click, not_ack_flag, cell_i, command, inbox, reply,
                 halted, outcome, bounds>>

\* An acknowledge bit of the PLC; without an answer it is false.
ReadAck(ack) == (ack => sock /\ line) /\ sock' = (sock /\ line)

\* The task of cell_i goes to state s, with operations ops to send.
Task(s, ops) ==
  /\ pc = "vac" /\ cell_i \in Cells /\ cell_i' = cell_i + 1
  /\ m_vac_state' = [m_vac_state EXCEPT ![cell_i] = s]
  /\ todo' = ops /\ after' = IF ops = <<>> THEN after ELSE "vac"
  /\ pc' = IF ops = <<>> THEN pc ELSE "ops"
  /\ UNCHANGED <<plc, is_plc_connected, timeoutCnt, got, shown, is_sudden_stop, reports, stops, timer_click,
                 not_ack_flag, cmd, status, inbox, reply, outcome, bounds>>
InState(s) == cell_i \in Cells /\ m_vac_state[cell_i] = s

TaskIdle ==
  /\ InState("none") \/ InState("end")
  /\ Task(m_vac_state[cell_i], <<>>)
  /\ UNCHANGED <<sock, plc_alarm_mask, fire_emergency_flag, cells>>
VacWait ==
  /\ InState("vac_wait")
  /\ \E ack \in BOOLEAN, s \in {"vac_wait", "err"} :
       ReadAck(ack) /\ Task(IF ack THEN "vac_judge" ELSE s, <<>>)
  /\ UNCHANGED <<plc_alarm_mask, fire_emergency_flag, cells>>
LeakWait ==
  /\ InState("leak_wait") /\ Task("leak_judge", <<>>)
  /\ UNCHANGED <<sock, plc_alarm_mask, fire_emergency_flag, cells>>
\* far: at the time-out the vacuum is far from its set value.
VacJudge ==
  /\ InState("vac_judge")
  /\ \E ack, expired, far \in BOOLEAN :
       LET fails == ~ack /\ expired /\ far
       IN  /\ ReadAck(ack)
           /\ Task(IF fails THEN "release" ELSE IF ack \/ expired THEN "end" ELSE "vac_judge", <<>>)
           /\ halted' = [halted EXCEPT ![cell_i] = @ \/ fails]
           /\ plc_alarm_mask' = [plc_alarm_mask EXCEPT ![cell_i] = IF fails THEN @ \cup {"vac"} ELSE @]
  /\ UNCHANGED <<fire_emergency_flag, told>>
\* The acknowledge counts when it was seen five times; after half the time the
\* command is sent again.
LeakJudge ==
  /\ InState("leak_judge")
  /\ \E ack, expired, far \in BOOLEAN :
       /\ ReadAck(ack)
       /\ \/ Task(IF expired THEN "end" ELSE "leak_judge", <<>>)
          \/ ~ack /\ ~expired /\ far /\ Task("leak_judge", DrainOps(cell_i))
       /\ halted' = [halted EXCEPT ![cell_i] = @ \/ (~ack /\ expired /\ far)]
  /\ UNCHANGED <<plc_alarm_mask, fire_emergency_flag, told>>
\* Mutant: only a tray that is seen to be pressed.
ReleasePressed(c) == IF fire_emergency_flag[c] /\ st_pos[c] = "pressed" THEN TrayOps(c, FALSE) ELSE <<>>
ReleaseOps(c) == IF fire_emergency_flag[c] THEN TrayOps(c, FALSE) ELSE <<>>
Release ==
  /\ InState("release") /\ Task("end", ReleaseOps(cell_i))
  /\ Processing(cell_i, fire_emergency_flag[cell_i] /\ st_pos[cell_i] = "pressed")
  /\ fire_emergency_flag' = [fire_emergency_flag EXCEPT ![cell_i] = FALSE]
  /\ UNCHANGED <<sock, plc_alarm_mask, halted>>
StateErr ==
  /\ InState("err") /\ Task("end", <<>>)
  /\ UNCHANGED <<sock, plc_alarm_mask, fire_emergency_flag, cells>>
VacTask == TaskIdle \/ VacWait \/ LeakWait \/ VacJudge \/ LeakJudge \/ Release \/ StateErr

EndPass ==
  /\ pc = "vac" /\ cell_i = N + 1 /\ pc' = "sleep"
  /\ UNCHANGED <<plc, link, got, shown, alarms, vacuum, timer_click, not_ack_flag, cell_i, command, inbox,
                 reply, cells, outcome, bounds>>

-----------------------------------------------------------------------------
(* External: the PLC, the line, the senders of commands.  The thread reads *)
(* the PLC's state and the queue at the top of a pass and sees no change   *)
(* before the next one, so they change between passes, and the line        *)
(* before whatever is exchanged over it.                                   *)

PlcMove ==
  /\ pc = "sleep"
  /\ \E c \in Cells : pos[c] # goal[c] /\ pos' = [pos EXCEPT ![c] = IF @ = "moving" THEN goal[c] ELSE "moving"]
  /\ UNCHANGED <<reg, goal, tray, alarm, line, link, got, shown, alarms, vacuum, control, command, inbox, reply,
                 cells, outcome, bounds>>
TrayChange ==
  /\ pc = "sleep"
  /\ \E c \in Trays : pos[c] = "open" /\ tray' = [tray EXCEPT ![c] = ~@]
  /\ UNCHANGED <<reg, goal, pos, alarm, line, link, got, shown, alarms, vacuum, control, command, inbox, reply,
                 cells, outcome, bounds>>
AlarmChange ==
  /\ pc = "sleep"
  /\ \E a \in Alarms :
       /\ alarm' = [alarm EXCEPT ![a] = ~@]
       /\ reports' = [reports EXCEPT ![a] = IF alarm[a] THEN @ ELSE 0]
       /\ stops' = IF a = Stop /\ ~alarm[a] THEN 0 ELSE stops
  /\ UNCHANGED <<reg, goal, pos, tray, line, plc_alarm_mask, is_sudden_stop, link, got, shown, vacuum, control,
                 command, inbox, reply, cells, outcome, bounds>>
LineChange ==
  /\ pc \in {"sleep", "ops", "status"} /\ line' = ~line
  /\ UNCHANGED <<reg, goal, pos, tray, alarm, link, got, shown, alarms, vacuum, control, command, inbox, reply,
                 cells, outcome, bounds>>
Send ==
  /\ pc = "sleep" /\ sent < MaxCmds /\ sent' = sent + 1 /\ \E m \in Messages : inbox' = Append(inbox, m)
  /\ UNCHANGED <<plc, link, got, shown, alarms, vacuum, control, command, reply, cells, outcome, faults>>

Poll == Connect(TRUE) \/ PollOk \/ PollFail
Worker ==
  Connect(FALSE) \/ PassOn \/ Poll \/ Receive \/ Messaged \/ Exchange \/ Answer \/ StatusUpdate \/ VacTask \/ EndPass
Environment == PlcMove \/ TrayChange \/ AlarmChange \/ LineChange \/ Send
Next == Worker \/ Environment

Spec == Init /\ [][Next]_vars

\* The thread does not stop, and in some passes a second has gone by.
FairSpec == Spec /\ WF_vars(Worker) /\ SF_vars(Poll)

-----------------------------------------------------------------------------
(* Properties                                                              *)

\* One press of an emergency stop halts the cells once, and one alarm of the PLC is
\* reported once while nobody clears the mask, however often the connection is lost
\* and made again: is_sudden_stop and plc_alarm_mask outlive it.
ReportedOnce == stops <= 1 /\ \A a \in AlarmBits : reports[a] <= 1

\* A tray command is answered with success only if the PLC was told to move the
\* tray that way: the answers of message_handle rest on set_tray_action, whose two
\* writes and read may each fail.
TrayAnswer ==
  [][\A c \in Cells :
       /\ reply' = [cmd |-> "tray_up", cell |-> c, ret |-> 0] /\ reply # reply' => goal[c] = "pressed"
       /\ reply' = [cmd |-> "tray_down", cell |-> c, ret |-> 0] /\ reply # reply' => goal[c] = "open"]_vars

\* What is_plc_connect shows of every cell follows the line: a PLC that stays silent
\* is given up after the second reading without an answer, and one that is there
\* again is connected to and read again.
LinkShown ==
  /\ <>[]line => <>[](\A c \in Cells : st_link[c])
  /\ <>[]~line => <>[](\A c \in Cells : ~st_link[c])

\* While the stop button stays pressed and the PLC can be reached, every cell hears
\* of it.
StopHeard == <>[](alarm[Stop] /\ line) => <>(\A c \in Cells : halted[c])

\* A tray that stays where it is, seen by a thread that stays connected, is never
\* shown to the cell as being at the other end: the cell was told of it, or of a
\* move that has not been seen to end, or of nothing because the unset
\* last_pins_state happened to agree.
Shown(c, p) == <>[](pos[c] = p /\ line) => <>[](told[c] \in {p, "moving", "none"})
TrayShown == \A c \in Cells : Shown(c, "pressed") /\ Shown(c, "open")

\* The emergency brake lowers the tray of every cell, unless the exchange with the
\* PLC fails or a vacuum command takes the cell's task away from it.
Lowered(c) == ~fire_emergency_flag[c] /\ outcome[c] \in {"down", "failed"}
TaskTaken(c) == fire_emergency_flag[c] /\ m_vac_state[c] # "release"
BrakeLowers == \A c \in Cells : fire_emergency_flag[c] ~> (Lowered(c) \/ TaskTaken(c))
=============================================================================
