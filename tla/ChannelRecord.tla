--------------------------- MODULE ChannelRecord ---------------------------
(***************************************************************************)
(* What becomes of the records of one channel: the alarm checks that each  *)
(* record passes, what is stored of it, the verdict (OK or NG, with a      *)
(* reason) that closes a battery's run, and the stop an alarm sends        *)
(* (ChannelServer::handle_reply and what it calls, above all               *)
(* ChannelState::response_record_send).                                    *)
(*                                                                         *)
(* The power module (external) is a process of steps 1 .. Steps that       *)
(* reports its state as often as it likes.  Frames wait in wire until the  *)
(* cell thread takes them; of the records that arrive in one chunk only    *)
(* the last is handled, while error codes of all of them count.  The alarm *)
(* rules are left open: any of them may hold at any record.                *)
(*                                                                         *)
(* A battery is the number of the codes the host has bound to the channel; *)
(* 0 is no codes.  The time stamp of a record is its offset to the time it *)
(* came in, as the code adds some milliseconds to tell copies apart.       *)
(***************************************************************************)
EXTENDS Integers, Sequences, FiniteSets, SequencesExt

CONSTANTS
  Steps,        \* steps of the recipe
  RecFreq,      \* recFreq: one of so many records is stored
  NoRunLimit,   \* idle records before a start has failed (200)
  Rules,        \* kinds of alarm rules that are checked with each record
  MaxWire,      \* bound: frames under way
  MaxRuns,      \* bound: batteries
  MaxStarts,    \* bound: start commands
  MaxAlarms     \* bound: alarms of the module, the pin bed and the rules

ASSUME RecordAssumption ==
  /\ Rules \subseteq {"global", "step"}
  /\ {Steps, RecFreq, NoRunLimit} \subseteq Nat \ {0}
  /\ {MaxWire, MaxRuns, MaxStarts, MaxAlarms} \subseteq Nat

VARIABLES
  mod, wire,                 \* the module: state, step, error; frames under way
  info, bound,               \* the codes bound to the channel; batteries bound so far
  last,                      \* m_last_processData
  reCounter,                 \* records since one was stored
  no_run_time, m_step_start_flag,
  m_err_code, m_last_error,  \* the module's latest error, the one acted upon last
  m_error,                   \* the reason of the next verdict
  alarm_mask,                \* global_alarm_mask and step_alarm_mask
  ERC_happen,                \* an alarm to be acted upon after the record
  start_read,                \* a start command is read and not yet sent
  kept, again,               \* offsets at which last is stored; some offset was used twice
  judged,                    \* the verdicts of each battery
  stale,                     \* batteries bound or started with something left of the run before
  starts, alarms

module == <<mod, wire>>
record == <<last, reCounter>>
start == <<no_run_time, m_step_start_flag>>
error == <<m_err_code, m_last_error>>
ghost == <<kept, again, judged, stale>>
bounds == <<bound, starts, alarms>>
vars == <<module, info, record, start, error, m_error, alarm_mask, ERC_happen,
          start_read, ghost, bounds>>

Batteries == 1 .. MaxRuns
Temp == "temp"                          \* an ultra temperature rule, which ends by itself
Codes == Rules \cup {Temp, "module", "pins"}
None == "none"
NoRun == "no_run"                       \* -2299
\* A reason, with the batteries (the one bound, the one of the last record) it arose for.
Reasons == [code : Codes \cup {None, NoRun}, of : SUBSET (0 .. MaxRuns)]
NoReason == [code |-> None, of |-> {}]
Reason(code) == [code |-> code, of |-> {info, last.info}]
States == {"NO_RUN", "PAUSE", "RUNNING", "FINISH", "START", "WAITING"}
StepNos == 0 .. Steps + 1

TypeOK ==
  /\ mod \in [state : States, step : StepNos, err : BOOLEAN]
  /\ wire \in Seq([state : States, step : StepNos, err : BOOLEAN, code : {None, "module"}])
  /\ info \in 0 .. MaxRuns /\ bound \in 0 .. MaxRuns
  /\ last \in [state : States, step : StepNos, err : BOOLEAN, info : 0 .. MaxRuns,
              off : 0 .. 2]
  /\ reCounter \in 0 .. RecFreq /\ no_run_time \in 0 .. NoRunLimit
  /\ {m_step_start_flag, ERC_happen, start_read, again} \subseteq BOOLEAN
  /\ {m_err_code, m_error} \subseteq Reasons /\ m_last_error \in {None, "module"}
  /\ alarm_mask \subseteq Rules \cup {Temp} /\ kept \subseteq 0 .. 5
  /\ judged \in [Batteries -> Seq([ok : BOOLEAN, reason : Reasons])] /\ stale \subseteq Batteries
  /\ alarms \in 0 .. MaxAlarms /\ starts \in 0 .. MaxStarts

Idle == [state |-> "NO_RUN", step |-> 0, err |-> FALSE]
Init ==
  /\ mod = Idle /\ wire = <<>> /\ info = 0 /\ bound = 0
  /\ last = [state |-> "NO_RUN", step |-> 0, err |-> FALSE, info |-> 0, off |-> 0]
  /\ reCounter = RecFreq
  /\ no_run_time = 0 /\ m_step_start_flag = FALSE
  /\ m_err_code = NoReason /\ m_last_error = None /\ m_error = NoReason
  /\ alarm_mask = {} /\ ERC_happen = FALSE /\ start_read = FALSE
  /\ kept = {} /\ again = FALSE /\ judged = [b \in Batteries |-> <<>>]
  /\ stale = {} /\ starts = 0 /\ alarms = 0

-----------------------------------------------------------------------------
(* ChannelState::response_record_send, part by part.  s holds what it works  *)
(* on: the new record cur, the last one, what is stored of each (new, kept). *)

\* saveCutOffData and saveProcessData of the last record, and of the new one.
SaveLast(s) == [s EXCEPT !.again = @ \/ s.last.off \in s.kept, !.kept = @ \cup {s.last.off}]
SaveCur(s) == [s EXCEPT !.again = @ \/ s.cur.off \in s.new, !.new = @ \cup {s.cur.off}]

\* A stored record with a run_result; the codes of the battery are cleared with it.
Verdict(rec, ok, reason) == [info |-> rec.info, ok |-> ok, reason |-> reason]
NotReset(s) == [s EXCEPT !.flag = FALSE]     \* mutant: no reset_info_code
Closed(s) == [s EXCEPT !.info = 0, !.flag = FALSE]

\* A start takes back the FINISH of the run before.
AfterFinish(s) ==
  IF s.cur.state = "START" /\ s.last.state = "FINISH"
  THEN [s EXCEPT !.last.state = "NO_RUN", !.last.step = 0] ELSE s

\* A started channel that stays idle: its begin and end are made up, with reason -2299.
AbsentPaused(rec) == rec.state = "PAUSE" /\ rec.step = 0 /\ rec.info # 0  \* mutant
Absent(rec) == rec.state = "NO_RUN" /\ rec.step = 0 /\ rec.info # 0
NoRunCheck(s) ==
  IF ~s.flag \/ s.cur.err THEN s
  ELSE IF ~Absent(s.cur) THEN [s EXCEPT !.nrt = 0]
  ELSE IF s.nrt < NoRunLimit THEN [s EXCEPT !.nrt = @ + 1]
  ELSE Closed([s EXCEPT !.new = @ \cup {4, 5}, !.cur.err = TRUE,
                        !.verdict = {Verdict(s.cur, FALSE, Reason(NoRun))}])

\* The record shows another step: the last one is the end of its step, the new one
\* the first of its own.
SameStamp(off) == off         \* mutant
Apart(off) == off + 1
LastOfStep(s) ==
  LET end == [s.last EXCEPT !.state = IF s.cur.state = "FINISH" THEN "FINISH" ELSE @]
      t == [s EXCEPT !.last = end]
      u == IF s.cur.state = "FINISH" THEN Closed(t) ELSE t
  IN  IF s.cur.state = "WAITING" \/ s.last.step = 0 \/ s.last.err THEN u
      ELSE SaveLast([u EXCEPT !.last.off = Apart(@), !.verdict = @ \cup
             IF s.cur.state = "FINISH" THEN {Verdict(s.last, TRUE, NoReason)} ELSE {}])
FirstOfStep(s) ==
  IF s.cur.state \in {"WAITING", "FINISH", "NO_RUN"} THEN s
  ELSE SaveCur(s)
\* The record shows the same step: one of RecFreq is stored.
NeverReset(s) == SaveCur([s EXCEPT !.count = @ + 1])     \* mutant
Sampled(s) ==
  IF s.count + 1 < RecFreq THEN [s EXCEPT !.count = @ + 1]
  ELSE IF s.alarm THEN [s EXCEPT !.count = 0]
  ELSE SaveCur([s EXCEPT !.count = 0])
OfRun(s) == \/ s.cur.state \in {"RUNNING", "FINISH", "START", "WAITING"}
            \/ s.cur.state = "NO_RUN" /\ s.last.state = "RUNNING"
Store(s) ==
  IF ~OfRun(s) \/ s.last.state = "FINISH" THEN s
  ELSE IF s.cur.step # s.last.step THEN FirstOfStep(LastOfStep([s EXCEPT !.count = 0]))
  ELSE Sampled(s)

\* The verdict: of an alarm rule, of an alarm of the module, of a stop.
EndsFinished(rec) == rec.state = "FINISH" /\ rec.step = 0     \* mutant
Ends(rec) == rec.state = "NO_RUN" /\ rec.step = 0
Close(s) ==
  LET t == Closed([s EXCEPT !.error = NoReason])
  IN
  CASE s.alarm /\ s.last.state = "RUNNING" /\ s.cur.step > 0 ->
         SaveCur([t EXCEPT !.cur.state = "NO_RUN", !.cur.off = @ + 2,
                           !.verdict = @ \cup {Verdict(s.cur, FALSE, s.error)}])
    [] ~s.alarm /\ s.cur.err /\ s.last.step > 0 /\ s.cur.step = 0 ->
         SaveLast([t EXCEPT !.last.state = "NO_RUN", !.last.off = @ + 2,
                            !.verdict = @ \cup {Verdict(s.last, FALSE, s.error)}])
    [] s.last.state = "RUNNING" /\ ~s.cur.err /\ Ends(s.cur) ->
         SaveLast([t EXCEPT !.last.state = "NO_RUN", !.last.off = @ + 3,
                            !.verdict = @ \cup {Verdict(s.last, s.error = NoReason, s.error)}])
    [] OTHER -> s

-----------------------------------------------------------------------------
(* handle_reply                                                              *)

\* stop_process of the channel; that the stop may be lost is the subject of ChannelLink.
Halted == [mod EXCEPT !.state = "NO_RUN", !.step = 0]

\* check_lower_error_alarm; then the rules of the record, the step's after the global ones.
\* Mutant: an alarm is reported and the channel not stopped.
AlarmOnly(new) == ERC_happen
Alarmed(new) == ERC_happen \/ new # {}
ErrorAfter(err_code, new) ==
  IF "step" \in new THEN Reason("step") ELSE IF "global" \in new THEN Reason("global")
  ELSE IF err_code # NoReason THEN err_code ELSE m_error

\* The members response_record_send starts from; it is called by do_record_send_task.
Given(f, reason, mask) == AfterFinish(
  [cur |-> [state |-> f.state, step |-> f.step, err |-> f.err \/ mask # {}, info |-> info, off |-> 0],
   last |-> last, alarm |-> mask # {}, error |-> reason, info |-> info,
   count |-> reCounter, nrt |-> no_run_time, flag |-> m_step_start_flag,
   new |-> {}, kept |-> kept, again |-> again, verdict |-> {}])
Response(f, reason, mask) == Close(Store(NoRunCheck(Given(f, reason, mask))))

CodesIn(n) == {wire[i].code : i \in 1 .. n} \ {None}
Handle ==
  \E n \in 1 .. Len(wire), fired \in SUBSET Rules :
    LET err_code == IF CodesIn(n) # {} THEN Reason("module") ELSE m_err_code
        new == fired \ alarm_mask
        low == {err_code.code} \ {None, m_last_error}
        mask == alarm_mask \cup fired
        s == Response(wire[n], ErrorAfter(err_code, new), mask)
        stop == Alarmed(new \cup low)
    IN
    /\ alarms + Cardinality(new) <= MaxAlarms /\ alarms' = alarms + Cardinality(new)
    /\ wire' = SubSeq(wire, n + 1, Len(wire))
    /\ m_err_code' = err_code
    /\ m_last_error' = IF low # {} THEN "module" ELSE m_last_error
    /\ alarm_mask' = mask
    /\ m_error' = s.error
    /\ last' = IF s.cur.state = "WAITING" THEN s.last ELSE s.cur
    /\ kept' = IF s.cur.state = "WAITING" THEN s.kept ELSE s.new
    /\ reCounter' = s.count
    /\ no_run_time' = s.nrt /\ m_step_start_flag' = (s.flag /\ ~stop)
    /\ info' = s.info /\ again' = s.again
    /\ judged' = [b \in Batteries |-> judged[b] \o SetToSeq(
         {[ok |-> v.ok, reason |-> v.reason] : v \in {w \in s.verdict : w.info = b}})]
    \* The cell takes a channel in error out of its start mask (work_logic_handle).
    /\ start_read' = (start_read /\ ~s.cur.err)
    \* do_exception_extra_task
    /\ ERC_happen' = FALSE
    /\ mod' = IF stop THEN Halted ELSE mod
    /\ UNCHANGED <<stale, bound, starts>>

\* The temperature rules, when the box has sent new values.  An ultra temperature that is
\* over clears its alarm; an alarm is acted upon with the next record.
TempTask ==
  /\ \/ /\ Temp \notin alarm_mask /\ alarms < MaxAlarms /\ alarms' = alarms + 1
        /\ alarm_mask' = alarm_mask \cup {Temp} /\ m_error' = Reason(Temp) /\ ERC_happen' = TRUE
     \/ /\ Temp \in alarm_mask /\ alarm_mask' = alarm_mask \ {Temp}
        /\ UNCHANGED <<m_error, ERC_happen, alarms>>
  /\ UNCHANGED <<module, info, record, start, error, start_read, ghost, bound, starts>>

-----------------------------------------------------------------------------
(* The cell's commands.                                                      *)

\* CMD_SET_BATTERY_BARCODE: the old codes go, the channel is stopped, the new ones come.
AtRest ==
  /\ alarm_mask = {} /\ ~ERC_happen
  /\ last.state \in {"NO_RUN", "FINISH"} /\ mod.state = "NO_RUN"
  /\ \A i \in DOMAIN wire : wire[i].state = "NO_RUN" /\ ~wire[i].err
Bind ==
  /\ ~start_read /\ bound < MaxRuns /\ bound' = bound + 1 /\ info' = bound'
  /\ mod' = Halted /\ m_step_start_flag' = FALSE
  /\ stale' = IF AtRest THEN stale ELSE stale \cup {bound'}
  /\ UNCHANGED <<wire, record, no_run_time, error, m_error, alarm_mask, ERC_happen, 
                 start_read, kept, again, judged, starts, alarms>>

\* EXEC_PROCESS is read: refused while an alarm of the rules stands.  The host starts a
\* channel that it sees idle, and binds no new codes to one that is about to start.
ErrorKept == m_error     \* mutant
ErrorReset == NoReason
ReadStart ==
  /\ last.state \in {"NO_RUN", "FINISH"} /\ ~start_read
  /\ alarm_mask = {} /\ starts < MaxStarts /\ starts' = starts + 1
  /\ start_read' = TRUE
  /\ m_error' = ErrorReset
  /\ stale' = IF m_err_code = NoReason THEN stale ELSE stale \cup ({info} \ {0})
  /\ UNCHANGED <<module, info, record, start, error, alarm_mask, ERC_happen, kept, again,
                 judged, bound, alarms>>

\* channel_step_startup, when the pin bed has pressed; the command may be lost.
SendStart ==
  /\ start_read /\ start_read' = FALSE
  /\ m_step_start_flag' = TRUE /\ no_run_time' = 0 /\ reCounter' = RecFreq
  /\ mod' \in {mod, [state |-> "START", step |-> 1, err |-> FALSE]}
  /\ UNCHANGED <<wire, info, last, error, m_error, alarm_mask,
                 ERC_happen, ghost, bounds>>

\* The channel is in the cell's start mask: cell_alarm_set_error_code asks for it.
InProcess == start_read \/ mod.state # "NO_RUN"

\* EXEC_STOP.
Stop ==
  /\ InProcess /\ start_read' = FALSE /\ m_step_start_flag' = FALSE
  /\ mod' = Halted
  /\ UNCHANGED <<wire, info, record, no_run_time, error, m_error, alarm_mask, ERC_happen,
                 ghost, bound, starts, alarms>>

\* SUB_CMD_CLEAR_WARNING
ClearWarning ==
  /\ alarm_mask # {} \/ m_err_code # NoReason
  /\ alarm_mask' = {} /\ ERC_happen' = FALSE /\ m_err_code' = NoReason
  /\ mod' = [mod EXCEPT !.err = FALSE]
  /\ UNCHANGED <<wire, info, record, start, m_last_error, m_error, start_read,
                 ghost, bounds>>

\* An alarm of the pin bed, or its time-out: the reason first, then the stop.
PinsAlarm ==
  /\ InProcess /\ alarms < MaxAlarms /\ alarms' = alarms + 1
  /\ m_error' = Reason("pins") /\ start_read' = FALSE
  /\ mod' = Halted /\ m_step_start_flag' = FALSE
  /\ UNCHANGED <<wire, info, record, no_run_time, error, alarm_mask, ERC_happen, ghost, bound, starts>>

-----------------------------------------------------------------------------
(* External: the power module.                                               *)

ModuleOnly == UNCHANGED <<info, record, start, error, m_error, alarm_mask, ERC_happen, 
                          start_read, ghost, bound, starts>>

Frame(state, code) == [state |-> state.state, step |-> state.step, err |-> state.err, code |-> code]
Tick ==
  /\ Len(wire) < MaxWire
  /\ wire # <<>> => Last(wire) # Frame(mod, None)   \* bound: no record repeated while under way
  /\ wire' = Append(wire, Frame(mod, None))
  /\ ModuleOnly /\ UNCHANGED <<mod, alarms>>

Follows(m) ==
  CASE m.state = "START" -> {<<"RUNNING", 1>>}
    [] m.state = "RUNNING" -> {<<"PAUSE", m.step>>, <<IF m.step = Steps THEN "FINISH" ELSE "WAITING", m.step + 1>>}
    [] m.state \in {"PAUSE", "WAITING"} -> {<<"RUNNING", m.step>>}
    [] m.state = "FINISH" -> {<<"NO_RUN", 0>>}
    [] OTHER -> {}
Progress ==
  /\ \E f \in Follows(mod) : mod' = [mod EXCEPT !.state = f[1], !.step = f[2]]
  /\ Len(wire) < MaxWire /\ wire' = Append(wire, Frame(mod', None))
  /\ ModuleOnly /\ UNCHANGED alarms

\* It stops with an alarm, which it tells first; then its records carry the error.
ModuleAlarm ==
  /\ mod.state # "NO_RUN" /\ alarms < MaxAlarms /\ alarms' = alarms + 1
  /\ mod' = [Idle EXCEPT !.err = TRUE]
  /\ Len(wire) < MaxWire /\ wire' = Append(wire, Frame(mod', "module"))
  /\ ModuleOnly

-----------------------------------------------------------------------------
Next ==
  \/ Handle \/ TempTask
  \/ Bind \/ ReadStart \/ SendStart \/ Stop \/ ClearWarning \/ PinsAlarm
  \/ Tick \/ Progress \/ ModuleAlarm

Spec == Init /\ [][Next]_vars
\* The module reports, and the cell thread takes its reports (only Handle shortens wire).
Taken == \E n \in 1 .. Len(wire) : wire' = SubSeq(wire, n + 1, Len(wire))
FairSpec == Spec /\ WF_vars(Tick) /\ WF_wire(Taken)

-----------------------------------------------------------------------------
(* Properties.                                                               *)

\* A battery is judged once: after an alarm the module's records that are still under way
\* are taken for a new run's, but they no longer carry the battery's codes.  The exception
\* is an alarm of the module that is heard after the verdict: an NG for it follows, once.
FirstOnly(verdicts) ==
  /\ Len(verdicts) = 2 => ~verdicts[2].ok /\ verdicts[2].reason.code = "module"
  /\ Len(verdicts) <= 2
OneVerdict == \A b \in Batteries : FirstOnly(judged[b])

\* An NG verdict gives a reason, and it is an alarm that arose while the battery was in
\* the channel; unless the battery was bound or started with something left of the run
\* before: an error of the module not cleared, a record of it still under way.
OwnReason == \A b \in Batteries \ stale : \A i \in DOMAIN judged[b] :
  judged[b][i].ok \/ b \in judged[b][i].reason.of

\* Of what is stored directly no two records have the same time stamp, though one
\* record may be stored as a sample, as the end of a step and with its verdict.
StampsApart == ~again

\* The codes of a battery go with its verdict, and a run whose end is reported is judged.
EndJudged == [][\A b \in Batteries :
  last.info = b /\ ~last.err /\ last.step # 0 /\ judged' = judged =>
    /\ info = b => info' # 0
    /\ last.state = "RUNNING" /\ alarm_mask' = {} => last'.state \notin {"NO_RUN", "FINISH"}]_vars

\* An alarm of the rules stops the module, unless it is cleared first.
AlarmStops == alarm_mask # {} ~> mod.state = "NO_RUN" \/ alarm_mask = {}

\* A start that never gets to the module is noticed.
NoRunTold == m_step_start_flag /\ info # 0 /\ mod = Idle ~> ~m_step_start_flag \/ mod # Idle
=============================================================================
