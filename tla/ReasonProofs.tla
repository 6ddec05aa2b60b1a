---------------------------- MODULE ReasonProofs ----------------------------
(***************************************************************************)
(* Theorem about ChannelRecord: an NG verdict gives a reason that arose    *)
(* while the battery was in the channel.                                   *)
(*                                                                         *)
(* The reason of a verdict comes from m_error or m_err_code, which outlive *)
(* a run.  The invariant says when they are the battery's own: from the    *)
(* moment a start is read, which resets m_error; before it nothing can     *)
(* close the run, as the channel rests.                                    *)
(***************************************************************************)
EXTENDS VerdictProofs

\* No start is read or sent and the module reports no run.
Resting ==
  /\ ~start_read /\ ~m_step_start_flag /\ mod.state = "NO_RUN"
  /\ last.state \in {"NO_RUN", "FINISH"} /\ \A i \in DOMAIN wire : wire[i].state = "NO_RUN"
\* What is left of reasons arose with b in the channel.
Own(b) == \A q \in {m_err_code, m_error} : q = NoReason \/ b \in q.of
\* An alarm of the rules has left a reason.
Explained == alarm_mask # {} => m_err_code # NoReason \/ m_error # NoReason
Spoilt(b) == b \in {0} \cup stale
ReasonInv ==
  /\ Resting \/ Spoilt(info) \/ (Own(info) /\ Explained)
  /\ last.state = "RUNNING" => Spoilt(last.info) \/ Own(last.info)

\* A step of the channel that has nothing to do with records.
LEMMA OthersReasons ==
  ASSUME TypeOK, ReasonInv, RecordAssumption, Others
  PROVE  ReasonInv'
<1>1. \A c \in Codes : Reason(c) # NoReason /\ info \in Reason(c).of /\ last.info \in Reason(c).of
  BY DEF Reason, NoReason, Codes, None, Temp, RecordAssumption
<1>2. {Temp, "pins"} \subseteq Codes  BY DEF Codes
<1>3. UNCHANGED last
  BY DEF Others, Bind, TempTask, ReadStart, SendStart, Stop, ClearWarning, PinsAlarm, Tick,
         Progress, ModuleAlarm, ModuleOnly, record
<1>4. mod \in [state : States, step : StepNos, err : BOOLEAN]  BY DEF TypeOK
<1>5. Halted.state = "NO_RUN"  BY <1>4 DEF Halted
<1>6. ASSUME UNCHANGED <<info, stale>>, Resting => Resting', Own(info) /\ Explained => Own(info)' /\ Explained',
             Own(last.info) => Own(last.info)'
      PROVE  ReasonInv'
  BY <1>3, <1>6 DEF ReasonInv, Spoilt
<1>7. CASE TempTask
  <2>1. UNCHANGED <<info, stale, m_err_code, module, start, start_read>>
    BY <1>7 DEF TempTask, error, ghost
  <2>2. Resting => Resting'  BY <1>3, <2>1 DEF Resting, module, start
  <2>3. \/ m_error' = Reason(Temp)
        \/ alarm_mask' \subseteq alarm_mask /\ m_error' = m_error
    BY <1>7 DEF TempTask
  <2>4. Own(info) /\ Explained => Own(info)' /\ Explained'
    BY <1>1, <1>2, <2>1, <2>3 DEF Own, Explained
  <2>5. Own(last.info) => Own(last.info)'
    BY <1>1, <1>2, <1>3, <2>1, <2>3 DEF Own
  <2> QED  BY <1>6, <2>1, <2>2, <2>4, <2>5
<1>8. CASE Bind
  <2>1. /\ ~start_read /\ UNCHANGED start_read /\ mod' = Halted /\ m_step_start_flag' = FALSE
        /\ UNCHANGED <<wire, m_err_code, m_error>> /\ stale' = IF AtRest THEN stale ELSE stale \cup {bound'}
        /\ info' = bound'
    BY <1>8 DEF Bind, error
  <2>2. AtRest => Resting'
    BY <1>3, <1>5, <2>1 DEF AtRest, Resting
  <2>3. ~AtRest => Spoilt(info)'  BY <2>1 DEF Spoilt
  <2>4. last.state = "RUNNING" => Spoilt(last.info)' \/ Own(last.info)'
    BY <1>3, <2>1 DEF ReasonInv, Spoilt, Own
  <2> QED  BY <1>3, <2>2, <2>3, <2>4 DEF ReasonInv
<1>9. CASE ReadStart
  <2>1. /\ last.state # "RUNNING" /\ alarm_mask' = {} /\ m_error' = NoReason /\ UNCHANGED <<info, m_err_code>>
        /\ stale' = IF m_err_code = NoReason THEN stale ELSE stale \cup ({info} \ {0})
    BY <1>9 DEF ReadStart, ErrorReset, error
  <2>2. Explained'  BY <2>1 DEF Explained
  <2>3. m_err_code = NoReason => Own(info)'  BY <2>1 DEF Own
  <2>4. m_err_code # NoReason => Spoilt(info)'  BY <2>1 DEF Spoilt
  <2> QED  BY <1>3, <2>1, <2>2, <2>3, <2>4 DEF ReasonInv
<1>10. CASE SendStart
  <2>1. start_read /\ UNCHANGED <<info, stale, m_err_code, m_error, alarm_mask>>
    BY <1>10 DEF SendStart, error, ghost
  <2>2. ~Resting  BY <2>1 DEF Resting
  <2> QED  BY <1>3, <1>6, <2>1, <2>2 DEF Own, Explained
<1>11. CASE Stop
  <2>1. /\ UNCHANGED <<info, stale, m_err_code, m_error, alarm_mask, wire>> /\ mod' = Halted
        /\ start_read' = FALSE /\ m_step_start_flag' = FALSE
    BY <1>11 DEF Stop, error, ghost
  <2>2. Resting => Resting'  BY <1>3, <1>5, <2>1 DEF Resting
  <2> QED  BY <1>3, <1>6, <2>1, <2>2 DEF Own, Explained
<1>12. CASE ClearWarning
  <2>1. /\ UNCHANGED <<info, stale, m_error, wire, start, start_read>> /\ m_err_code' = NoReason
        /\ alarm_mask' = {} /\ mod' = [mod EXCEPT !.err = FALSE]
    BY <1>12 DEF ClearWarning, ghost
  <2>2. mod'.state = mod.state  BY <1>4, <2>1
  <2>3. Resting => Resting'  BY <1>3, <2>1, <2>2 DEF Resting, start
  <2> QED  BY <1>3, <1>6, <2>1, <2>3 DEF Own, Explained
<1>13. CASE PinsAlarm
  <2>1. /\ UNCHANGED <<info, stale, m_err_code, alarm_mask, wire>> /\ m_error' = Reason("pins")
        /\ mod' = Halted /\ start_read' = FALSE /\ m_step_start_flag' = FALSE
    BY <1>13 DEF PinsAlarm, error, ghost
  <2>2. Resting => Resting'  BY <1>3, <1>5, <2>1 DEF Resting
  <2>3. Own(info) => Own(info)'  BY <1>1, <1>2, <2>1 DEF Own
  <2>4. Own(last.info) => Own(last.info)'  BY <1>1, <1>2, <1>3, <2>1 DEF Own
  <2>5. Explained'  BY <1>1, <1>2, <2>1 DEF Explained
  <2> QED  BY <1>6, <2>1, <2>2, <2>3, <2>4, <2>5
<1>14. CASE Tick
  <2>1. /\ UNCHANGED <<info, stale, m_err_code, m_error, alarm_mask, mod, start_read, start>>
        /\ wire' = Append(wire, Frame(mod, None))
    BY <1>14 DEF Tick, ModuleOnly, error, ghost
  <2>2. Resting => Resting'
    <3> DEFINE F == [state : States, step : StepNos, err : BOOLEAN, code : {None, "module"}]
               f == Frame(mod, None)
    <3>1. wire \in Seq(F) /\ f \in F /\ f.state = mod.state  BY <1>4 DEF Frame, TypeOK
    <3> HIDE DEF F, f
    <3>2. /\ DOMAIN wire' = 1 .. Len(wire) + 1 /\ wire'[Len(wire) + 1] = f /\ Len(wire) \in Nat
          /\ DOMAIN wire = 1 .. Len(wire) /\ \A i \in 1 .. Len(wire) : wire'[i] = wire[i]
      BY <2>1, <3>1, AppendProperties, LenProperties DEF f
    <3>3. \A i \in DOMAIN wire' : i = Len(wire) + 1 \/ i \in DOMAIN wire  BY <3>2
    <3> QED  BY <1>3, <2>1, <3>1, <3>2, <3>3 DEF Resting, start
  <2> QED  BY <1>3, <1>6, <2>1, <2>2 DEF Own, Explained
<1>15. CASE Progress \/ ModuleAlarm
  <2>1. UNCHANGED <<info, stale, m_err_code, m_error, alarm_mask>>
    BY <1>15 DEF Progress, ModuleAlarm, ModuleOnly, error, ghost
  <2>2. mod.state # "NO_RUN"
    <3>1. CASE Progress
      <4>1. Follows(mod) # {}  BY <3>1 DEF Progress
      <4> QED  BY <4>1 DEF Follows
    <3>2. CASE ModuleAlarm
      BY <3>2 DEF ModuleAlarm
    <3> QED  BY <1>15, <3>1, <3>2
  <2>3. ~Resting  BY <2>2 DEF Resting
  <2> QED  BY <1>3, <1>6, <2>1, <2>3 DEF Own, Explained
<1> QED  BY <1>7, <1>8, <1>9, <1>10, <1>11, <1>12, <1>13, <1>14, <1>15 DEF Others

\* A battery's own reasons stay its own when a record is handled, and so is the one given.
LEMMA OwnAfter ==
  ASSUME NEW n, NEW g, Before(n, g), After(n, g), NEW b \in {info, last.info}, Own(b)
  PROVE  /\ m_err_code' = NoReason \/ b \in m_err_code'.of
         /\ g.error = NoReason \/ b \in g.error.of
<1>1. m_err_code = NoReason \/ b \in m_err_code.of  BY DEF Own
<1>2. m_error = NoReason \/ b \in m_error.of  BY DEF Own
<1>3. m_err_code' = m_err_code \/ Fresh(m_err_code')  BY DEF Before
<1>4. Fresh(m_err_code') => b \in m_err_code'.of  BY DEF Fresh
<1>5. Fresh(g.error) => b \in g.error.of  BY DEF Fresh
<1>6. \/ Fresh(g.error)
      \/ g.error = m_err_code' /\ m_err_code' # NoReason
      \/ g.error = m_error /\ m_err_code' = NoReason /\ alarm_mask' = alarm_mask
  BY DEF Before
<1>7. m_err_code' = NoReason \/ b \in m_err_code'.of  BY <1>1, <1>3, <1>4
<1> QED  BY <1>2, <1>5, <1>6, <1>7

\* With an alarm of the rules there is a reason.
LEMMA ExplainedAfter ==
  ASSUME NEW n, NEW g, Before(n, g), After(n, g), Explained, alarm_mask' # {}
  PROVE  g.error # NoReason
<1>1. m_err_code' = m_err_code \/ m_err_code' # NoReason  BY DEF Before, Fresh
<1>2. \/ g.error # NoReason
      \/ g.error = m_error /\ m_err_code' = NoReason /\ alarm_mask' = alarm_mask
  BY DEF Before, Fresh
<1> QED  BY <1>1, <1>2 DEF Explained

LEMMA RestingAfter ==
  ASSUME TypeOK, RecordAssumption, NEW n \in 1 .. Len(wire), NEW g \in Works, Before(n, g), After(n, g),
         Resting
  PROVE  Resting'
<1>1. info \in 0 .. MaxRuns /\ last.info \in 0 .. MaxRuns /\ Ready(g)  BY DEF TypeOK, Before
<1>2. wire[n].state = "NO_RUN"
  <2>1. n \in DOMAIN wire  BY LenProperties DEF TypeOK
  <2> QED  BY <2>1 DEF Resting
<1>3. Sent(g).cur.state = "NO_RUN" /\ (Sent(g).flag => m_step_start_flag)
  BY <1>1, <1>2, SentFacts DEF Before
<1>4. last'.state \in {"NO_RUN", "FINISH"}
  <2>1. last'.state = last.state \/ last' = Sent(g).cur  BY LastAfter
  <2> QED  BY <1>3, <2>1 DEF Resting
<1>5. ~start_read' /\ ~m_step_start_flag'  BY <1>3 DEF Resting, After
<1>6. mod'.state = "NO_RUN"
  <2>1. mod' \in {mod, Halted}  BY DEF After
  <2>2. Halted.state = "NO_RUN"  BY DEF Halted, TypeOK
  <2> QED  BY <2>1, <2>2 DEF Resting
<1>7. \A i \in DOMAIN wire' : wire'[i].state = "NO_RUN"
  <2> DEFINE F == [state : States, step : StepNos, err : BOOLEAN, code : {None, "module"}]
  <2>1. wire \in Seq(F) /\ Len(wire) \in Nat /\ DOMAIN wire = 1 .. Len(wire)
    BY LenProperties DEF TypeOK
  <2> HIDE DEF F
  <2>2. wire' = SubSeq(wire, n + 1, Len(wire))  BY DEF After
  <2>3. DOMAIN wire' = 1 .. Len(wire) - n /\ \A i \in 1 .. Len(wire) - n : wire'[i] = wire[n + i]
    BY <2>1, <2>2, RestOf
  <2>4. \A i \in 1 .. Len(wire) - n : n + i \in DOMAIN wire  BY <2>1, Shifted
  <2> QED  BY <2>3, <2>4 DEF Resting
<1> QED  BY <1>4, <1>5, <1>6, <1>7 DEF Resting

LEMMA HandleReasons ==
  ASSUME TypeOK, ReasonInv, RecordAssumption, NEW n \in 1 .. Len(wire), NEW g \in Works,
         Before(n, g), After(n, g)
  PROVE  ReasonInv'
<1>1. info \in 0 .. MaxRuns /\ last.info \in 0 .. MaxRuns /\ Ready(g)  BY DEF TypeOK, Before
<1>2. stale' = stale  BY DEF After
<1>3. /\ info' = (IF Closes(g) THEN 0 ELSE info) /\ m_error' \in {g.error, NoReason}
      /\ ~Closes(g) => m_error' = g.error
  <2>1. /\ Sent(g).info = (IF Closes(g) THEN 0 ELSE g.info)
        /\ Sent(g).error \in {g.error, NoReason} /\ (~Closes(g) => Sent(g).error = g.error)
    BY <1>1, SentFacts
  <2> QED  BY <2>1 DEF Before, After
<1>4. ASSUME NEW b \in {info, last.info}, Own(b)
      PROVE  \A q \in {m_err_code', m_error'} : q = NoReason \/ b \in q.of
  BY <1>3, <1>4, OwnAfter
<1>5. Resting' \/ Spoilt(info)' \/ (Own(info)' /\ Explained')
  <2>1. CASE Closes(g)
    BY <1>3, <2>1 DEF Spoilt
  <2>2. CASE Resting
    BY <2>2, RestingAfter
  <2>3. CASE Spoilt(info) /\ ~Closes(g)
    BY <1>2, <1>3, <2>3 DEF Spoilt
  <2>4. CASE Own(info) /\ Explained /\ ~Closes(g)
    <3>1. Own(info)'  BY <1>3, <1>4, <2>4 DEF Own
    <3>2. Explained'
      <4>1. alarm_mask' # {} => m_error' # NoReason  BY <1>3, <2>4, ExplainedAfter
      <4> QED  BY <4>1 DEF Explained
    <3> QED  BY <3>1, <3>2
  <2> QED  BY <2>1, <2>2, <2>3, <2>4 DEF ReasonInv
<1>6. ASSUME last'.state = "RUNNING"
      PROVE  Spoilt(last.info)' \/ Own(last.info)'
  <2>1. CASE last'.state = last.state /\ last'.info = last.info
    <3>1. Spoilt(last.info) \/ Own(last.info)  BY <1>6, <2>1 DEF ReasonInv
    <3>2. Spoilt(last.info) => Spoilt(last.info)'  BY <1>2, <2>1 DEF Spoilt
    <3>3. Own(last.info) => Own(last.info)'  BY <1>4, <2>1 DEF Own
    <3> QED  BY <3>1, <3>2, <3>3
  <2>2. CASE last' = Sent(g).cur
    <3>1. /\ Sent(g).cur.info = info
          /\ Sent(g).cur.state = (IF Hit(g) THEN "NO_RUN" ELSE wire[n].state)
      BY <1>1, SentFacts DEF Before
    <3>2. wire[n].state = "RUNNING" /\ last'.info = info  BY <1>6, <2>2, <3>1
    <3>3. n \in DOMAIN wire  BY LenProperties DEF TypeOK
    <3>4. ~Resting  BY <3>2, <3>3 DEF Resting
    <3>5. Spoilt(info) \/ Own(info)  BY <3>4 DEF ReasonInv
    <3>6. Spoilt(info) => Spoilt(last.info)'  BY <1>2, <3>2 DEF Spoilt
    <3>7. Own(info) => Own(last.info)'  BY <1>4, <3>2 DEF Own
    <3> QED  BY <3>5, <3>6, <3>7
  <2> QED  BY <2>1, <2>2, LastAfter
<1> QED  BY <1>5, <1>6 DEF ReasonInv

\* What a verdict of no OK gives as its reason.
LEMMA VerdictReason ==
  ASSUME TypeOK, FramesInv, CodesInv, ReasonInv, RecordAssumption, NEW n \in 1 .. Len(wire), NEW g \in Works,
         Before(n, g), After(n, g), NEW v \in VerdictOf(g), ~Spoilt(v.info)
  PROVE  v.ok \/ v.info \in v.reason.of
<1>1. /\ g.cur.info = info /\ g.last.info = last.info /\ g.alarm = (alarm_mask' # {})
      /\ g.last.state = "RUNNING" => last.state = "RUNNING"
  BY DEF Before
<1>2. \A c \in {NoRun, "module"} : info \in Reason(c).of /\ last.info \in Reason(c).of
  BY DEF Reason
<1>3. CASE Idles(g)
  <2>1. v = Verdict(g.cur, FALSE, Reason(NoRun))  BY <1>3 DEF VerdictOf
  <2> QED  BY <1>1, <1>2, <2>1 DEF Verdict
<1>4. CASE ~Idles(g) /\ Finishes(g)
  BY <1>4 DEF VerdictOf, Verdict
<1>5. CASE ~Idles(g) /\ ~Finishes(g) /\ Hit(g)
  <2>1. v = Verdict(g.cur, FALSE, g.error)  BY <1>5 DEF VerdictOf
  <2>2. v.info = info /\ v.reason = g.error  BY <1>1, <2>1 DEF Verdict
  <2>3. last.state = "RUNNING" /\ alarm_mask' # {}  BY <1>1, <1>5 DEF Hit, ByAlarm
  <2>4. ~Resting  BY <2>3 DEF Resting
  <2>5. Own(info) /\ Explained  BY <2>2, <2>4 DEF ReasonInv
  <2>6. g.error # NoReason  BY <2>3, <2>5, ExplainedAfter
  <2>7. g.error = NoReason \/ info \in g.error.of  BY <2>5, OwnAfter
  <2> QED  BY <2>2, <2>6, <2>7
<1>6. CASE ~Idles(g) /\ ~Finishes(g) /\ ~Hit(g) /\ Told(g)
  <2>1. v = Verdict(g.last, FALSE, g.error)  BY <1>6 DEF VerdictOf
  <2>2. g.error = Reason("module")  BY <1>6, ToldCode
  <2> QED  BY <1>1, <1>2, <2>1, <2>2 DEF Verdict
<1>7. CASE ~Idles(g) /\ ~Finishes(g) /\ ~Hit(g) /\ ~Told(g) /\ Stopped(g)
  <2>1. v = Verdict(g.last, g.error = NoReason, g.error)  BY <1>7 DEF VerdictOf
  <2>2. v.info = last.info /\ v.reason = g.error /\ v.ok = (g.error = NoReason)
    BY <1>1, <2>1 DEF Verdict
  <2>3. last.state = "RUNNING"  BY <1>1, <1>7 DEF Stopped, ByStop
  <2>4. Own(last.info)  BY <2>2, <2>3 DEF ReasonInv
  <2>5. g.error = NoReason \/ last.info \in g.error.of  BY <2>4, OwnAfter
  <2> QED  BY <2>2, <2>5
<1> QED  BY <1>3, <1>4, <1>5, <1>6, <1>7 DEF VerdictOf

LEMMA HandleOwn ==
  ASSUME TypeOK, FramesInv, CodesInv, ReasonInv, OwnReason, RecordAssumption, NEW n \in 1 .. Len(wire),
         NEW g \in Works, Before(n, g), After(n, g)
  PROVE  OwnReason'
<1> SUFFICES ASSUME NEW b \in Batteries \ stale', NEW i \in DOMAIN (judged'[b])
             PROVE  judged'[b][i].ok \/ b \in judged'[b][i].reason.of
  BY DEF OwnReason
<1>1. b \in Batteries /\ b \notin stale /\ b # 0  BY DEF After, Batteries
<1>2. judged[b] \in Seq(Judgements)  BY <1>1, JudgedAfter
<1>3. CASE judged'[b] = judged[b]
  BY <1>1, <1>3 DEF OwnReason
<1>4. ASSUME NEW v \in VerdictOf(g), v.info = b, v \in Verdicts, judged'[b] = Append(judged[b], Judgement(v))
      PROVE  judged'[b][i].ok \/ b \in judged'[b][i].reason.of
  <2> DEFINE q == judged[b]
             e == Judgement(v)
  <2>1. e \in Judgements /\ e.ok = v.ok /\ e.reason = v.reason
    BY <1>4 DEF Verdicts, Judgement, Judgements
  <2>2. e.ok \/ b \in e.reason.of
    <3>1. ~Spoilt(v.info)  BY <1>1, <1>4 DEF Spoilt
    <3> QED  BY <1>4, <2>1, <3>1, VerdictReason
  <2>3. \A j \in DOMAIN q : q[j].ok \/ b \in q[j].reason.of  BY <1>1 DEF OwnReason
  <2>4. q \in Seq(Judgements) /\ judged'[b] = Append(q, e)  BY <1>2, <1>4
  <2> HIDE DEF q, e
  <2>5. /\ DOMAIN Append(q, e) = 1 .. Len(q) + 1 /\ Append(q, e)[Len(q) + 1] = e
        /\ DOMAIN q = 1 .. Len(q) /\ Len(q) \in Nat /\ \A j \in 1 .. Len(q) : Append(q, e)[j] = q[j]
    BY <2>1, <2>4, AppendProperties, LenProperties
  <2>6. i \in DOMAIN q \/ i = Len(q) + 1  BY <2>4, <2>5
  <2>7. CASE i \in DOMAIN q
    BY <2>3, <2>4, <2>5, <2>7
  <2>8. CASE i = Len(q) + 1
    BY <2>2, <2>4, <2>5, <2>8
  <2> QED  BY <2>6, <2>7, <2>8
<1> QED  BY <1>1, <1>3, <1>4, JudgedAfter

LEMMA OthersOwn ==
  ASSUME OwnReason, Others
  PROVE  OwnReason'
<1>1. judged' = judged /\ stale \subseteq stale'
  BY DEF Others, Bind, TempTask, ReadStart, SendStart, Stop, ClearWarning, PinsAlarm, Tick,
         Progress, ModuleAlarm, ModuleOnly, ghost
<1> QED  BY <1>1 DEF OwnReason

\* An NG verdict gives a reason, and it arose while the battery was in the channel, unless
\* something of the run before was left when the battery was bound or started.
THEOREM ReasonsOwn == Spec => []OwnReason
<1> DEFINE I == VerdictInv /\ ReasonInv /\ OwnReason
<1>1. Init => I
  <2> SUFFICES ASSUME Init  PROVE I
    OBVIOUS
  <2>1. VerdictInv  BY VerdictInit, RecordAssumption
  <2>2. ReasonInv  BY DEF Init, ReasonInv, Spoilt
  <2>3. OwnReason  BY EmptySeq DEF Init, OwnReason
  <2> QED  BY <2>1, <2>2, <2>3
<1>2. I /\ [Next]_vars => I'
  <2> SUFFICES ASSUME VerdictInv, ReasonInv, OwnReason, [Next]_vars  PROVE I'
    OBVIOUS
  <2>1. TypeOK /\ FramesInv /\ FlagInv /\ CodesInv  BY DEF VerdictInv, BaseInv
  <2>2. VerdictInv'  BY VerdictNext, RecordAssumption
  <2>3. CASE Handle
    <3>1. PICK n \in 1 .. Len(wire), g \in Works : Before(n, g) /\ After(n, g)
      BY <2>1, <2>3, HandleFacts, RecordAssumption
    <3>2. ReasonInv'  BY <2>1, <3>1, HandleReasons, RecordAssumption
    <3>3. OwnReason'  BY <2>1, <3>1, HandleOwn, RecordAssumption
    <3> QED  BY <2>2, <3>2, <3>3
  <2>4. CASE Others
    BY <2>1, <2>2, <2>4, OthersReasons, OthersOwn, RecordAssumption
  <2>5. CASE UNCHANGED vars
    <3>1. UNCHANGED <<start_read, m_step_start_flag, mod, last, wire, m_err_code, m_error, alarm_mask,
                      info, stale, judged>>
      BY <2>5 DEF vars, module, record, start, error, ghost
    <3>2. ReasonInv'  BY <3>1 DEF ReasonInv, Resting, Spoilt, Own, Explained
    <3>3. OwnReason'  BY <3>1 DEF OwnReason
    <3> QED  BY <2>2, <3>2, <3>3
  <2> QED  BY <2>3, <2>4, <2>5 DEF Next, Others
<1>3. I => OwnReason  OBVIOUS
<1> QED  BY <1>1, <1>2, <1>3, PTL DEF Spec
=============================================================================
