--------------------------- MODULE VerdictProofs ---------------------------
(***************************************************************************)
(* Theorems about ChannelRecord: its types, the times of what is stored,   *)
(* that a battery is judged once, and that a run whose end is reported is  *)
(* judged.                                                                 *)
(*                                                                         *)
(* What response_record_send does with a record is four parts in a row;    *)
(* there is a lemma for what each of them makes of each member, and the    *)
(* invariants are proved from these.                                       *)
(***************************************************************************)
EXTENDS ChannelRecord, SequenceTheorems, FiniteSetTheorems, TLAPS

-----------------------------------------------------------------------------
(* Sequences.                                                              *)

\* A set of at most one verdict, put in a row.
LEMMA SetToSeqOfOne ==
  ASSUME NEW S, NEW T \in SUBSET S, \A x, y \in T : x = y
  PROVE  /\ SetToSeq(T) \in Seq(S)
         /\ Len(SetToSeq(T)) = IF T = {} THEN 0 ELSE 1
         /\ T # {} => SetToSeq(T)[1] \in T
<1>1. CASE T = {}
  <2>1. Cardinality(T) = 0  BY <1>1, FS_EmptySet
  <2>2. [i \in 1 .. 0 |-> i] \in [1 .. Cardinality(T) -> T] /\ IsInjective([i \in 1 .. 0 |-> i])
    BY <2>1 DEF IsInjective
  <2>3. SetToSeq(T) \in [1 .. 0 -> T]
    BY <2>1, <2>2 DEF SetToSeq
  <2> QED  BY <1>1, <2>3
<1>2. CASE T # {}
  <2>1. PICK x : T = {x}  BY <1>2
  <2>2. Cardinality(T) = 1  BY <2>1, FS_Singleton
  <2>3. [i \in 1 .. 1 |-> x] \in [1 .. Cardinality(T) -> T] /\ IsInjective([i \in 1 .. 1 |-> x])
    BY <2>1, <2>2 DEF IsInjective
  <2>4. SetToSeq(T) \in [1 .. 1 -> T]
    BY <2>2, <2>3 DEF SetToSeq
  <2> QED  BY <1>2, <2>4
<1> QED  BY <1>1, <1>2

\* What is left of the frames when the first n are taken.
LEMMA RestOf ==
  ASSUME NEW S, NEW q \in Seq(S), NEW n \in 1 .. Len(q)
  PROVE  LET t == SubSeq(q, n + 1, Len(q)) IN
         /\ t \in Seq(S) /\ Len(t) = Len(q) - n /\ DOMAIN t = 1 .. Len(q) - n
         /\ \A i \in 1 .. Len(q) - n : t[i] = q[n + i]
<1> DEFINE t == SubSeq(q, n + 1, Len(q))
           l == Len(q)
<1>1. l \in Nat /\ n \in 1 .. l  BY LenProperties
<1>2. \A i \in n + 1 .. l : q[i] \in S  BY <1>1, ElementOfSeq
<1>3. /\ t \in Seq(S) /\ Len(t) = (IF n + 1 <= l THEN l - (n + 1) + 1 ELSE 0)
      /\ \A i \in 1 .. l - (n + 1) + 1 : t[i] = q[(n + 1) + i - 1]
  BY <1>1, <1>2, SubSeqProperties
<1> HIDE DEF t, l
<1>4. Len(t) = l - n  BY <1>1, <1>3
<1>5. DOMAIN t = 1 .. Len(t)  BY <1>3, LenProperties
<1>6. ASSUME NEW i \in 1 .. l - n  PROVE t[i] = q[n + i]
  <2>1. i \in 1 .. l - (n + 1) + 1 /\ (n + 1) + i - 1 = n + i  BY <1>1
  <2> QED  BY <1>3, <2>1
<1> QED  BY <1>3, <1>4, <1>5, <1>6 DEF t, l

\* Places in what is left of l frames when n of them are taken.
LEMMA Shifted ==
  ASSUME NEW l \in Nat, NEW n \in 1 .. l
  PROVE  /\ \A i \in 1 .. l - n : n + i \in 1 .. l /\ i \in 0 .. l - n
         /\ \A i, j \in 1 .. l - n : i < j => n + i < n + j
         /\ \A i, j \in 0 .. l - n : \A k \in n + i + 1 .. n + j :
              k - n \in i + 1 .. j /\ k - n \in 1 .. l - n /\ n + (k - n) = k
         /\ n \in 1 .. l /\ 0 \in 0 .. l - n /\ l - n \in 0 .. l - n /\ n + (l - n) = l
         /\ 0 + 1 = 1 /\ n + 0 + 1 = n + 1 /\ \A i \in 1 .. l - n : n < n + i
OBVIOUS

-----------------------------------------------------------------------------
(* The parts of response_record_send.                                      *)

Recs == [state : States, step : StepNos, err : BOOLEAN, info : 0 .. MaxRuns, off : Nat]
Verdicts == [info : 0 .. MaxRuns, ok : BOOLEAN, reason : Reasons]
Works == [cur : Recs, last : Recs, alarm : BOOLEAN, error : Reasons, info : 0 .. MaxRuns,
          count : 0 .. RecFreq, nrt : 0 .. NoRunLimit, flag : BOOLEAN,
          new : SUBSET Nat, kept : SUBSET Nat, again : BOOLEAN, verdict : SUBSET Verdicts]

\* The record shows the next step of the run; the last one is stored as the end of its own.
NextStep(s) == OfRun(s) /\ s.last.state # "FINISH" /\ s.cur.step # s.last.step
EndsStep(s) == NextStep(s) /\ s.cur.state # "WAITING" /\ s.last.step # 0 /\ ~s.last.err
EndsRun(s) == NextStep(s) /\ s.cur.state = "FINISH"
Idles(s) == s.flag /\ ~s.cur.err /\ Absent(s.cur) /\ ~(s.nrt < NoRunLimit)

LEMMA ReasonType ==
  ASSUME info \in 0 .. MaxRuns, last.info \in 0 .. MaxRuns, NEW c \in Codes \cup {None, NoRun}
  PROVE  Reason(c) \in Reasons
BY DEF Reason, Reasons

LEMMA NoReasonType == NoReason \in Reasons
BY DEF NoReason, Reasons

\* What saving the last record changes, and the new one.
LEMMA SaveLastFacts ==
  ASSUME NEW s \in Works
  PROVE  /\ SaveLast(s) \in Works
         /\ SaveLast(s) = [s EXCEPT !.again = s.again \/ s.last.off \in s.kept,
                                    !.kept = s.kept \cup {s.last.off}]
BY DEF SaveLast, Works, Recs

LEMMA SaveCurFacts ==
  ASSUME NEW s \in Works
  PROVE  /\ SaveCur(s) \in Works
         /\ SaveCur(s) = [s EXCEPT !.again = s.again \/ s.cur.off \in s.new,
                                   !.new = s.new \cup {s.cur.off}]
BY DEF SaveCur, Works, Recs

\* The check that a started channel runs.
LEMMA NoRunFacts ==
  ASSUME NEW s \in Works, info \in 0 .. MaxRuns, last.info \in 0 .. MaxRuns, RecordAssumption
  PROVE  LET t == NoRunCheck(s) IN
         /\ t \in Works
         /\ t.last = s.last /\ t.alarm = s.alarm /\ t.error = s.error /\ t.kept = s.kept
         /\ t.again = s.again /\ t.count = s.count
         /\ Idles(s) => /\ t.cur = [s.cur EXCEPT !.err = TRUE] /\ t.new = s.new \cup {4, 5}
                        /\ t.info = 0 /\ ~t.flag
                        /\ t.verdict = {Verdict(s.cur, FALSE, Reason(NoRun))}
         /\ ~Idles(s) => /\ t.cur = s.cur /\ t.new = s.new /\ t.info = s.info /\ t.flag = s.flag
                         /\ t.verdict = s.verdict
         /\ t.flag /\ t.nrt > 0 => s.cur.step = 0 \/ (s.cur.err /\ s.nrt > 0)
<1> DEFINE t == NoRunCheck(s)
<1>1. CASE ~s.flag \/ s.cur.err
  <2>1. t = s  BY <1>1 DEF NoRunCheck
  <2>2. t.flag => s.cur.err  BY <1>1, <2>1 DEF Works
  <2> QED  BY <1>1, <2>1, <2>2 DEF Idles
<1>2. CASE s.flag /\ ~s.cur.err /\ ~Absent(s.cur)
  <2>1. t = [s EXCEPT !.nrt = 0]  BY <1>2 DEF NoRunCheck
  <2>2. 0 \in 0 .. NoRunLimit  BY DEF RecordAssumption
  <2>3. t \in Works /\ t.nrt = 0  BY <2>1, <2>2 DEF Works
  <2>4. ~Idles(s)  BY <1>2 DEF Idles
  <2> HIDE DEF t
  <2>5. /\ t.last = s.last /\ t.alarm = s.alarm /\ t.error = s.error /\ t.kept = s.kept
        /\ t.again = s.again /\ t.count = s.count /\ t.cur = s.cur /\ t.new = s.new
        /\ t.info = s.info /\ t.flag = s.flag /\ t.verdict = s.verdict
    BY <2>1 DEF Works
  <2>6. ~(t.nrt > 0)  BY <2>3
  <2> QED  BY <2>3, <2>4, <2>5, <2>6, Zenon DEF t
<1>3. CASE s.flag /\ ~s.cur.err /\ Absent(s.cur) /\ s.nrt < NoRunLimit
  <2>1. t = [s EXCEPT !.nrt = s.nrt + 1]  BY <1>3 DEF NoRunCheck
  <2>2. s.nrt + 1 \in 0 .. NoRunLimit  BY <1>3 DEF RecordAssumption, Works
  <2>3. s.cur.step = 0  BY <1>3 DEF Absent
  <2> QED  BY <1>3, <2>1, <2>2, <2>3 DEF Idles, Works
<1>4. CASE Idles(s)
  <2>1. s.flag /\ ~s.cur.err /\ Absent(s.cur) /\ ~(s.nrt < NoRunLimit)  BY <1>4 DEF Idles
  <2> DEFINE v == Verdict(s.cur, FALSE, Reason(NoRun))
             u == [s EXCEPT !.new = s.new \cup {4, 5}, !.cur.err = TRUE, !.verdict = {v}]
  <2>2. t = [u EXCEPT !.info = 0, !.flag = FALSE]  BY <2>1 DEF NoRunCheck, Closed
  <2>3. v \in Verdicts  BY ReasonType DEF Verdict, Verdicts, Works, Recs
  <2>4. s.cur \in Recs  BY DEF Works
  <2>5. [s.cur EXCEPT !.err = TRUE] \in Recs  BY <2>4 DEF Recs
  <2>6. s.new \cup {4, 5} \in SUBSET Nat /\ 0 \in 0 .. MaxRuns
    BY DEF Works, RecordAssumption
  <2> HIDE DEF v
  <2>7. u \in Works /\ u.cur = [s.cur EXCEPT !.err = TRUE] /\ u.verdict = {v}
        /\ u.new = s.new \cup {4, 5} /\ u.last = s.last /\ u.alarm = s.alarm
        /\ u.error = s.error /\ u.kept = s.kept /\ u.again = s.again /\ u.count = s.count
    BY <2>3, <2>5, <2>6 DEF Works
  <2> HIDE DEF u, t
  <2>8. t \in Works /\ t.cur = u.cur /\ t.verdict = u.verdict
        /\ t.new = u.new /\ t.last = u.last /\ t.alarm = u.alarm
        /\ t.error = u.error /\ t.kept = u.kept /\ t.again = u.again /\ t.count = u.count
        /\ t.info = 0 /\ ~t.flag
    BY <2>2, <2>6, <2>7 DEF Works
  <2> QED  BY <1>4, <2>7, <2>8 DEF v, t
<1> QED  BY <1>1, <1>2, <1>3, <1>4 DEF Idles

\* What is stored of the record and of the one before it.
LEMMA LastOfStepFacts ==
  ASSUME NEW s \in Works, RecordAssumption, NextStep(s)
  PROVE  LET t == LastOfStep(s) IN
         /\ t \in Works
         /\ t.cur = s.cur /\ t.alarm = s.alarm /\ t.error = s.error /\ t.nrt = s.nrt
         /\ t.new = s.new /\ t.count = s.count
         /\ t.last.info = s.last.info /\ t.last.step = s.last.step /\ t.last.err = s.last.err
         /\ t.last.state = IF EndsRun(s) THEN "FINISH" ELSE s.last.state
         /\ t.info = (IF EndsRun(s) THEN 0 ELSE s.info) /\ t.flag = (~EndsRun(s) /\ s.flag)
         /\ EndsStep(s) => /\ t.last.off = s.last.off + 1 /\ t.kept = s.kept \cup {s.last.off + 1}
                           /\ t.again = (s.again \/ s.last.off + 1 \in s.kept)
         /\ ~EndsStep(s) => t.last.off = s.last.off /\ t.kept = s.kept /\ t.again = s.again
         /\ t.verdict = IF EndsStep(s) /\ EndsRun(s)
                        THEN s.verdict \cup {Verdict(s.last, TRUE, NoReason)} ELSE s.verdict
<1> DEFINE e == [s.last EXCEPT !.state = IF s.cur.state = "FINISH" THEN "FINISH" ELSE s.last.state]
           u == IF s.cur.state = "FINISH" THEN [s EXCEPT !.last = e, !.info = 0, !.flag = FALSE]
                ELSE [s EXCEPT !.last = e]
           v == IF s.cur.state = "FINISH" THEN {Verdict(s.last, TRUE, NoReason)} ELSE {}
           w == [u EXCEPT !.last.off = u.last.off + 1, !.verdict = u.verdict \cup v]
           t == LastOfStep(s)
<1>1. t = IF EndsStep(s) THEN SaveLast(w) ELSE u
  BY DEF LastOfStep, Closed, EndsStep, Apart
<1>2. s.last \in Recs /\ s.cur \in Recs  BY DEF Works
<1>3. e \in Recs /\ e.info = s.last.info /\ e.step = s.last.step /\ e.err = s.last.err
      /\ e.off = s.last.off /\ e.state = IF EndsRun(s) THEN "FINISH" ELSE s.last.state
  BY <1>2 DEF Recs, States, EndsRun
<1> HIDE DEF e
<1>4. 0 \in 0 .. MaxRuns  BY DEF RecordAssumption
<1>5. /\ u \in Works /\ u.cur = s.cur /\ u.last = e /\ u.alarm = s.alarm /\ u.error = s.error
      /\ u.nrt = s.nrt /\ u.new = s.new /\ u.count = s.count /\ u.kept = s.kept
      /\ u.again = s.again /\ u.verdict = s.verdict
      /\ u.info = (IF EndsRun(s) THEN 0 ELSE s.info) /\ u.flag = (~EndsRun(s) /\ s.flag)
  <2>1. CASE s.cur.state = "FINISH"
    <3>1. EndsRun(s)  BY <2>1 DEF EndsRun
    <3> QED  BY <2>1, <3>1, <1>3, <1>4 DEF Works
  <2>2. CASE s.cur.state # "FINISH"
    <3>1. ~EndsRun(s)  BY <2>2 DEF EndsRun
    <3> QED  BY <2>2, <3>1, <1>3 DEF Works
  <2> QED  BY <2>1, <2>2
<1>6. v \in SUBSET Verdicts /\ v = IF EndsRun(s) THEN {Verdict(s.last, TRUE, NoReason)} ELSE {}
  <2>1. Verdict(s.last, TRUE, NoReason) \in Verdicts
    BY <1>2, NoReasonType DEF Verdict, Verdicts, Recs
  <2> QED  BY <2>1 DEF EndsRun
<1> HIDE DEF u, v
<1>7. [e EXCEPT !.off = e.off + 1] \in Recs  BY <1>3 DEF Recs
<1>8. /\ w \in Works /\ w.cur = s.cur /\ w.last = [e EXCEPT !.off = e.off + 1]
      /\ w.alarm = s.alarm /\ w.error = s.error /\ w.nrt = s.nrt /\ w.new = s.new
      /\ w.count = s.count /\ w.kept = s.kept /\ w.again = s.again
      /\ w.verdict = s.verdict \cup v /\ w.info = u.info /\ w.flag = u.flag
  BY <1>5, <1>6, <1>7 DEF Works
<1> HIDE DEF w, t
<1>9. CASE EndsStep(s)
  <2>1. t \in Works
        /\ t = [w EXCEPT !.again = w.again \/ w.last.off \in w.kept, !.kept = w.kept \cup {w.last.off}]
    BY <1>1, <1>8, <1>9, SaveLastFacts
  <2>2. w.last.off = s.last.off + 1 /\ w.last.info = s.last.info /\ w.last.step = s.last.step
        /\ w.last.err = s.last.err /\ w.last.state = e.state
    BY <1>3, <1>8 DEF Recs
  <2>3. /\ t.cur = w.cur /\ t.last = w.last /\ t.alarm = w.alarm /\ t.error = w.error
        /\ t.nrt = w.nrt /\ t.new = w.new /\ t.count = w.count /\ t.verdict = w.verdict
        /\ t.info = w.info /\ t.flag = w.flag
        /\ t.kept = w.kept \cup {w.last.off} /\ t.again = (w.again \/ w.last.off \in w.kept)
    BY <2>1, <1>8 DEF Works
  <2> QED  BY <1>3, <1>5, <1>6, <1>8, <1>9, <2>1, <2>2, <2>3 DEF t
<1>10. CASE ~EndsStep(s)
  BY <1>1, <1>3, <1>5, <1>10 DEF t
<1> QED  BY <1>9, <1>10

LEMMA FirstOfStepFacts ==
  ASSUME NEW s \in Works
  PROVE  LET t == FirstOfStep(s) IN
         /\ t \in Works
         /\ t.cur = s.cur /\ t.last = s.last /\ t.alarm = s.alarm /\ t.error = s.error
         /\ t.nrt = s.nrt /\ t.count = s.count /\ t.info = s.info /\ t.flag = s.flag
         /\ t.kept = s.kept /\ t.verdict = s.verdict
         /\ t.new \in {s.new, s.new \cup {s.cur.off}}
         /\ t.again => s.again \/ s.cur.off \in s.new
<1> DEFINE t == FirstOfStep(s)
<1>1. CASE t = s
  BY <1>1
<1>2. CASE t = SaveCur(s)
  <2> DEFINE c == SaveCur(s)
  <2>1. c \in Works /\ c = [s EXCEPT !.again = s.again \/ s.cur.off \in s.new,
                                     !.new = s.new \cup {s.cur.off}]
    BY SaveCurFacts
  <2> HIDE DEF c, t
  <2>2. /\ c.cur = s.cur /\ c.last = s.last /\ c.alarm = s.alarm /\ c.error = s.error
        /\ c.nrt = s.nrt /\ c.count = s.count /\ c.info = s.info /\ c.flag = s.flag
        /\ c.kept = s.kept /\ c.verdict = s.verdict /\ c.new = s.new \cup {s.cur.off}
        /\ c.again = (s.again \/ s.cur.off \in s.new)
    BY <2>1 DEF Works
  <2> QED  BY <1>2, <2>1, <2>2 DEF c, t
<1> QED  BY <1>1, <1>2 DEF FirstOfStep

LEMMA SampledFacts ==
  ASSUME NEW s \in Works, RecordAssumption
  PROVE  LET t == Sampled(s) IN
         /\ t \in Works
         /\ t.cur = s.cur /\ t.last = s.last /\ t.alarm = s.alarm /\ t.error = s.error
         /\ t.nrt = s.nrt /\ t.info = s.info /\ t.flag = s.flag
         /\ t.kept = s.kept /\ t.verdict = s.verdict
         /\ t.new \in {s.new, s.new \cup {s.cur.off}}
         /\ t.again => s.again \/ s.cur.off \in s.new
<1> DEFINE t == Sampled(s)
           z == [s EXCEPT !.count = 0]
           c == SaveCur(z)
<1>1. CASE s.count + 1 < RecFreq
  <2>1. t = [s EXCEPT !.count = s.count + 1]  BY <1>1 DEF Sampled
  <2>2. s.count + 1 \in 0 .. RecFreq  BY <1>1 DEF Works, RecordAssumption
  <2> HIDE DEF t
  <2>3. /\ t \in Works /\ t.cur = s.cur /\ t.last = s.last /\ t.alarm = s.alarm
        /\ t.error = s.error /\ t.nrt = s.nrt /\ t.info = s.info /\ t.flag = s.flag
        /\ t.kept = s.kept /\ t.verdict = s.verdict /\ t.new = s.new /\ t.again = s.again
    BY <2>1, <2>2 DEF Works
  <2> QED  BY <2>3 DEF t
<1>2. CASE ~(s.count + 1 < RecFreq)
  <2>1. t = IF s.alarm THEN z ELSE c  BY <1>2 DEF Sampled
  <2>2. 0 \in 0 .. RecFreq  BY DEF RecordAssumption
  <2>3. /\ z \in Works /\ z.cur = s.cur /\ z.last = s.last /\ z.alarm = s.alarm
        /\ z.error = s.error /\ z.nrt = s.nrt /\ z.info = s.info /\ z.flag = s.flag
        /\ z.kept = s.kept /\ z.verdict = s.verdict /\ z.new = s.new /\ z.again = s.again
    BY <2>2 DEF Works
  <2> HIDE DEF z, t
  <2>4. c \in Works /\ c = [z EXCEPT !.again = z.again \/ z.cur.off \in z.new,
                                     !.new = z.new \cup {z.cur.off}]
    BY <2>3, SaveCurFacts
  <2> HIDE DEF c
  <2>5. /\ c.cur = z.cur /\ c.last = z.last /\ c.alarm = z.alarm /\ c.error = z.error
        /\ c.nrt = z.nrt /\ c.info = z.info /\ c.flag = z.flag
        /\ c.kept = z.kept /\ c.verdict = z.verdict /\ c.new = z.new \cup {z.cur.off}
        /\ c.again = (z.again \/ z.cur.off \in z.new)
    BY <2>3, <2>4 DEF Works
  <2> QED  BY <2>1, <2>3, <2>4, <2>5 DEF t
<1> QED  BY <1>1, <1>2

LEMMA StoreFacts ==
  ASSUME NEW s \in Works, RecordAssumption
  PROVE  LET t == Store(s) IN
         /\ t \in Works
         /\ t.cur = s.cur /\ t.alarm = s.alarm /\ t.error = s.error /\ t.nrt = s.nrt
         /\ t.last.info = s.last.info /\ t.last.step = s.last.step /\ t.last.err = s.last.err
         /\ t.last.state = IF EndsRun(s) THEN "FINISH" ELSE s.last.state
         /\ t.info = (IF EndsRun(s) THEN 0 ELSE s.info) /\ t.flag = (~EndsRun(s) /\ s.flag)
         /\ EndsStep(s) => t.last.off = s.last.off + 1 /\ t.kept = s.kept \cup {s.last.off + 1}
         /\ ~EndsStep(s) => t.last.off = s.last.off /\ t.kept = s.kept
         /\ t.verdict = (IF EndsStep(s) /\ EndsRun(s)
                        THEN s.verdict \cup {Verdict(s.last, TRUE, NoReason)} ELSE s.verdict)
         /\ t.new \in {s.new, s.new \cup {s.cur.off}}
         /\ t.again => \/ s.again \/ s.cur.off \in s.new
                       \/ EndsStep(s) /\ s.last.off + 1 \in s.kept
<1> DEFINE t == Store(s)
           z == [s EXCEPT !.count = 0]
<1>1. CASE NextStep(s)
  <2>1. t = FirstOfStep(LastOfStep(z))  BY <1>1 DEF Store, NextStep
  <2>2. 0 \in 0 .. RecFreq  BY DEF RecordAssumption
  <2>3. /\ z \in Works /\ z.cur = s.cur /\ z.last = s.last /\ z.alarm = s.alarm
        /\ z.error = s.error /\ z.nrt = s.nrt /\ z.info = s.info /\ z.flag = s.flag
        /\ z.kept = s.kept /\ z.verdict = s.verdict /\ z.new = s.new /\ z.again = s.again
    BY <2>2 DEF Works
  <2> HIDE DEF z, t
  <2>4. NextStep(z) /\ (EndsStep(z) <=> EndsStep(s)) /\ (EndsRun(z) <=> EndsRun(s))
    BY <1>1, <2>3 DEF NextStep, OfRun, EndsStep, EndsRun
  <2> DEFINE u == LastOfStep(z)
  <2>5. /\ u \in Works
        /\ u.cur = z.cur /\ u.alarm = z.alarm /\ u.error = z.error /\ u.nrt = z.nrt
        /\ u.new = z.new
        /\ u.last.info = z.last.info /\ u.last.step = z.last.step /\ u.last.err = z.last.err
        /\ u.last.state = IF EndsRun(z) THEN "FINISH" ELSE z.last.state
    BY <2>3, <2>4, LastOfStepFacts
  <2>6. u.info = (IF EndsRun(z) THEN 0 ELSE z.info) /\ u.flag = (~EndsRun(z) /\ z.flag)
    BY <2>3, <2>4, LastOfStepFacts
  <2>7. /\ EndsStep(z) => /\ u.last.off = z.last.off + 1 /\ u.kept = z.kept \cup {z.last.off + 1}
                          /\ u.again = (z.again \/ z.last.off + 1 \in z.kept)
        /\ ~EndsStep(z) => u.last.off = z.last.off /\ u.kept = z.kept /\ u.again = z.again
        /\ u.verdict = IF EndsStep(z) /\ EndsRun(z)
                       THEN z.verdict \cup {Verdict(z.last, TRUE, NoReason)} ELSE z.verdict
    BY <2>3, <2>4, LastOfStepFacts
  <2> HIDE DEF u
  <2>8. /\ t \in Works
        /\ t.cur = u.cur /\ t.last = u.last /\ t.alarm = u.alarm /\ t.error = u.error
        /\ t.nrt = u.nrt /\ t.count = u.count /\ t.info = u.info /\ t.flag = u.flag
        /\ t.kept = u.kept /\ t.verdict = u.verdict
        /\ t.new \in {u.new, u.new \cup {u.cur.off}}
        /\ t.again => u.again \/ u.cur.off \in u.new
    BY <2>1, <2>5, FirstOfStepFacts DEF u
  <2>9. t.again => \/ s.again \/ s.cur.off \in s.new
                   \/ EndsStep(s) /\ s.last.off + 1 \in s.kept
    BY <2>3, <2>4, <2>5, <2>7, <2>8
  <2>10. t.new \in {s.new, s.new \cup {s.cur.off}}
    BY <2>3, <2>5, <2>8
  <2> QED  BY <2>3, <2>4, <2>5, <2>6, <2>7, <2>8, <2>9, <2>10 DEF t
<1>2. CASE ~NextStep(s)
  <2>1. ~EndsStep(s) /\ ~EndsRun(s)  BY <1>2 DEF EndsStep, EndsRun
  <2>2. t = s \/ t = Sampled(s)  BY <1>2 DEF Store, NextStep
  <2> HIDE DEF t
  <2>3. CASE t = s
    <3>1. t.flag = (~EndsRun(s) /\ s.flag)  BY <2>1, <2>3 DEF Works
    <3> QED  BY <2>1, <2>3, <3>1 DEF t
  <2>4. CASE t = Sampled(s)
    <3> DEFINE c == Sampled(s)
    <3>1. /\ c \in Works
          /\ c.cur = s.cur /\ c.last = s.last /\ c.alarm = s.alarm /\ c.error = s.error
          /\ c.nrt = s.nrt /\ c.info = s.info /\ c.flag = s.flag
          /\ c.kept = s.kept /\ c.verdict = s.verdict
          /\ c.new \in {s.new, s.new \cup {s.cur.off}}
          /\ c.again => s.again \/ s.cur.off \in s.new
      BY SampledFacts
    <3>2. t = c  BY <2>4
    <3> HIDE DEF c
    <3>3. t.flag = (~EndsRun(s) /\ s.flag)  BY <2>1, <3>1, <3>2 DEF Works
    <3> QED  BY <2>1, <3>1, <3>2, <3>3 DEF t
  <2> QED  BY <2>2, <2>3, <2>4
<1> QED  BY <1>1, <1>2

\* The verdict, whichever of the three it is.
ByAlarm(s) == s.alarm /\ s.last.state = "RUNNING" /\ s.cur.step > 0
ByModule(s) == ~s.alarm /\ s.cur.err /\ s.last.step > 0 /\ s.cur.step = 0
ByStop(s) == s.last.state = "RUNNING" /\ ~s.cur.err /\ Ends(s.cur)
Judges(s) == ByAlarm(s) \/ ByModule(s) \/ ByStop(s)

LEMMA OneCause ==
  ASSUME NEW s \in Works, RecordAssumption
  PROVE  ~(ByAlarm(s) /\ ByModule(s)) /\ ~(ByAlarm(s) /\ ByStop(s)) /\ ~(ByModule(s) /\ ByStop(s))
BY DEF ByAlarm, ByModule, ByStop, Ends

\* A copy of a record with a time of its own.
LEMMA CloseFacts ==
  ASSUME NEW s \in Works, RecordAssumption
  PROVE  LET t == Close(s) IN
         /\ t \in Works
         /\ t.nrt = s.nrt /\ t.cur.step = s.cur.step /\ t.cur.err = s.cur.err /\ t.cur.info = s.cur.info
         /\ t.info = (IF Judges(s) THEN 0 ELSE s.info) /\ t.flag = (~Judges(s) /\ s.flag)
         /\ t.error \in {s.error, NoReason}
         /\ ByAlarm(s) => /\ t.cur.state = "NO_RUN" /\ t.cur.off = s.cur.off + 2
                          /\ t.new = s.new \cup {s.cur.off + 2}
                          /\ t.again => s.again \/ s.cur.off + 2 \in s.new
                          /\ t.verdict = s.verdict \cup {Verdict(s.cur, FALSE, s.error)}
         /\ ~ByAlarm(s) => t.cur = s.cur /\ t.new = s.new
         /\ ByModule(s) => /\ t.again => s.again \/ s.last.off + 2 \in s.kept
                           /\ t.verdict = s.verdict \cup {Verdict(s.last, FALSE, s.error)}
         /\ ByStop(s) => /\ t.again => s.again \/ s.last.off + 3 \in s.kept
                         /\ t.verdict = s.verdict \cup {Verdict(s.last, s.error = NoReason, s.error)}
         /\ ~Judges(s) => t = s
<1> DEFINE t == Close(s)
           u == Closed([s EXCEPT !.error = NoReason])
           sameRun == /\ t \in Works
                      /\ t.nrt = s.nrt /\ t.cur.step = s.cur.step /\ t.cur.err = s.cur.err
                      /\ t.cur.info = s.cur.info /\ t.error \in {s.error, NoReason}
           codes == t.info = (IF Judges(s) THEN 0 ELSE s.info) /\ t.flag = (~Judges(s) /\ s.flag)
           ofAlarm == /\ t.cur.state = "NO_RUN" /\ t.cur.off = s.cur.off + 2
                      /\ t.new = s.new \cup {s.cur.off + 2}
                      /\ t.again => s.again \/ s.cur.off + 2 \in s.new
                      /\ t.verdict = s.verdict \cup {Verdict(s.cur, FALSE, s.error)}
           curKept == t.cur = s.cur /\ t.new = s.new
           ofModule == /\ t.again => s.again \/ s.last.off + 2 \in s.kept
                       /\ t.verdict = s.verdict \cup {Verdict(s.last, FALSE, s.error)}
           ofStop == /\ t.again => s.again \/ s.last.off + 3 \in s.kept
                     /\ t.verdict = s.verdict \cup {Verdict(s.last, s.error = NoReason, s.error)}
<1>1. s.last \in Recs /\ s.cur \in Recs  BY DEF Works
<1>2. 0 \in 0 .. MaxRuns  BY DEF RecordAssumption
<1>3. u = [s EXCEPT !.error = NoReason, !.info = 0, !.flag = FALSE]  BY DEF Closed
<1> HIDE DEF u
<1>4. /\ u \in Works /\ u.cur = s.cur /\ u.last = s.last /\ u.alarm = s.alarm
      /\ u.nrt = s.nrt /\ u.count = s.count /\ u.error = NoReason /\ u.info = 0 /\ u.flag = FALSE
      /\ u.new = s.new /\ u.kept = s.kept /\ u.again = s.again /\ u.verdict = s.verdict
  BY <1>2, <1>3, NoReasonType DEF Works
<1>5. /\ Verdict(s.cur, FALSE, s.error) \in Verdicts /\ Verdict(s.last, FALSE, s.error) \in Verdicts
      /\ Verdict(s.last, s.error = NoReason, s.error) \in Verdicts
  BY <1>1 DEF Verdict, Verdicts, Recs, Works
<1>6. ASSUME ByAlarm(s)
      PROVE  sameRun /\ codes /\ ofAlarm /\ ~ByModule(s) /\ ~ByStop(s) /\ Judges(s)
  <2> DEFINE r == [s.cur EXCEPT !.state = "NO_RUN", !.off = s.cur.off + 2]
             v == s.verdict \cup {Verdict(s.cur, FALSE, s.error)}
             w == [u EXCEPT !.cur.state = "NO_RUN", !.cur.off = u.cur.off + 2, !.verdict = u.verdict \cup {Verdict(s.cur, FALSE, s.error)}]
  <2>1. s.alarm /\ s.last.state = "RUNNING" /\ s.cur.step > 0  BY <1>6 DEF ByAlarm
  <2>2. ~(~s.alarm /\ s.cur.err /\ s.last.step > 0 /\ s.cur.step = 0)  BY <2>1
  <2>3. ~(s.last.state = "RUNNING" /\ ~s.cur.err /\ Ends(s.cur))  BY <2>1, <1>1 DEF Ends, Recs
  <2>4. t = SaveCur(w)  BY <2>1, <2>2, <2>3 DEF Close, u
  <2>5. /\ r \in Recs /\ r.state = "NO_RUN" /\ r.off = s.cur.off + 2 /\ r.step = s.cur.step
        /\ r.err = s.cur.err /\ r.info = s.cur.info
    <3>1. s.cur.off + 2 \in Nat /\ "NO_RUN" \in States  BY <1>1 DEF Recs, States
    <3> QED  BY <1>1, <3>1 DEF Recs
  <2>6. v \in SUBSET Verdicts  BY <1>5 DEF Works
  <2>7. w = [u EXCEPT !.cur = r, !.verdict = v]  BY <1>4 DEF Works
  <2> HIDE DEF r, v, w, t
  <2>8. /\ w \in Works /\ w.cur = r /\ w.verdict = v /\ w.last = u.last /\ w.alarm = u.alarm
        /\ w.nrt = u.nrt /\ w.count = u.count /\ w.error = u.error /\ w.info = u.info
        /\ w.flag = u.flag /\ w.new = u.new /\ w.kept = u.kept /\ w.again = u.again
    BY <1>4, <2>5, <2>6, <2>7 DEF Works
  <2>9. t \in Works /\ t = [w EXCEPT !.again = w.again \/ w.cur.off \in w.new,
                                     !.new = w.new \cup {w.cur.off}]
    BY <2>4, <2>8, SaveCurFacts
  <2>10. /\ t.cur = w.cur /\ t.verdict = w.verdict /\ t.last = w.last
         /\ t.nrt = w.nrt /\ t.error = w.error /\ t.info = w.info
         /\ t.flag = w.flag /\ t.new = w.new \cup {w.cur.off} /\ t.kept = w.kept
         /\ t.again = (w.again \/ w.cur.off \in w.new)
    BY <2>8, <2>9 DEF Works
  <2>11. Judges(s) /\ ~ByModule(s) /\ ~ByStop(s)  BY <1>6, OneCause DEF Judges
  <2>12. t.cur = r /\ t.again = (s.again \/ s.cur.off + 2 \in s.new) /\ t.new = s.new \cup {s.cur.off + 2}
    BY <1>4, <2>5, <2>8, <2>10
  <2>13. t.verdict = s.verdict \cup {Verdict(s.cur, FALSE, s.error)}  BY <2>8, <2>10 DEF v
  <2>14. /\ t.info = (IF Judges(s) THEN 0 ELSE s.info) /\ t.flag = (~Judges(s) /\ s.flag)
         /\ t.error \in {s.error, NoReason} /\ t.nrt = s.nrt /\ t.cur.step = s.cur.step
         /\ t.cur.err = s.cur.err /\ t.cur.info = s.cur.info
    BY <1>4, <2>5, <2>8, <2>10, <2>11, <2>12
  <2>15. t.cur.state = "NO_RUN" /\ t.cur.off = s.cur.off + 2  BY <2>5, <2>12
  <2>16. sameRun  BY <2>9, <2>14
  <2>17. codes  BY <2>14
  <2>18. ofAlarm  BY <2>12, <2>13, <2>15
  <2> HIDE DEF sameRun, codes, ofAlarm
  <2> QED  BY <2>11, <2>16, <2>17, <2>18
<1>7. ASSUME ByModule(s)
      PROVE  sameRun /\ codes /\ curKept /\ ofModule /\ ~ByAlarm(s) /\ ~ByStop(s) /\ Judges(s)
  <2> DEFINE r == [s.last EXCEPT !.state = "NO_RUN", !.off = s.last.off + 2]
             v == s.verdict \cup {Verdict(s.last, FALSE, s.error)}
             w == [u EXCEPT !.last.state = "NO_RUN", !.last.off = u.last.off + 2, !.verdict = u.verdict \cup {Verdict(s.last, FALSE, s.error)}]
  <2>1. ~s.alarm /\ s.cur.err /\ s.last.step > 0 /\ s.cur.step = 0  BY <1>7 DEF ByModule
  <2>2. t = SaveLast(w)  BY <2>1 DEF Close, u
  <2>3. r \in Recs /\ r.off = s.last.off + 2
    <3>1. s.last.off + 2 \in Nat /\ "NO_RUN" \in States  BY <1>1 DEF Recs, States
    <3> QED  BY <1>1, <3>1 DEF Recs
  <2>4. v \in SUBSET Verdicts  BY <1>5 DEF Works
  <2>5. w = [u EXCEPT !.last = r, !.verdict = v]  BY <1>4 DEF Works
  <2> HIDE DEF r, v, w, t
  <2>6. /\ w \in Works /\ w.cur = u.cur /\ w.verdict = v /\ w.last = r /\ w.alarm = u.alarm
        /\ w.nrt = u.nrt /\ w.count = u.count /\ w.error = u.error /\ w.info = u.info
        /\ w.flag = u.flag /\ w.new = u.new /\ w.kept = u.kept /\ w.again = u.again
    BY <1>4, <2>3, <2>4, <2>5 DEF Works
  <2>7. t \in Works /\ t = [w EXCEPT !.again = w.again \/ w.last.off \in w.kept,
                                     !.kept = w.kept \cup {w.last.off}]
    BY <2>2, <2>6, SaveLastFacts
  <2>8. /\ t.cur = w.cur /\ t.verdict = w.verdict
        /\ t.nrt = w.nrt /\ t.error = w.error /\ t.info = w.info
        /\ t.flag = w.flag /\ t.new = w.new
        /\ t.again = (w.again \/ w.last.off \in w.kept)
    BY <2>6, <2>7 DEF Works
  <2>9. Judges(s) /\ ~ByAlarm(s) /\ ~ByStop(s)  BY <1>7, OneCause DEF Judges
  <2>10. t.again = (s.again \/ s.last.off + 2 \in s.kept)
    BY <1>4, <2>3, <2>6, <2>8
  <2>11. t.verdict = s.verdict \cup {Verdict(s.last, FALSE, s.error)}  BY <2>6, <2>8 DEF v
  <2>12. /\ t.info = (IF Judges(s) THEN 0 ELSE s.info) /\ t.flag = (~Judges(s) /\ s.flag)
         /\ t.error \in {s.error, NoReason} /\ t.nrt = s.nrt /\ t.cur = s.cur /\ t.new = s.new
    BY <1>4, <2>6, <2>8, <2>9
  <2>13. sameRun  BY <2>7, <2>12
  <2>14. codes  BY <2>12
  <2>15. curKept /\ ofModule  BY <2>10, <2>11, <2>12
  <2> HIDE DEF sameRun, codes, curKept, ofModule
  <2> QED  BY <2>9, <2>13, <2>14, <2>15
<1>8. ASSUME ByStop(s)
      PROVE  sameRun /\ codes /\ curKept /\ ofStop /\ ~ByAlarm(s) /\ ~ByModule(s) /\ Judges(s)
  <2> DEFINE r == [s.last EXCEPT !.state = "NO_RUN", !.off = s.last.off + 3]
             v == s.verdict \cup {Verdict(s.last, s.error = NoReason, s.error)}
             w == [u EXCEPT !.last.state = "NO_RUN", !.last.off = u.last.off + 3, !.verdict = u.verdict \cup {Verdict(s.last, s.error = NoReason, s.error)}]
  <2>1. s.last.state = "RUNNING" /\ ~s.cur.err /\ Ends(s.cur)  BY <1>8 DEF ByStop
  <2>2. ~(s.alarm /\ s.last.state = "RUNNING" /\ s.cur.step > 0)  BY <2>1 DEF Ends
  <2>3. t = SaveLast(w)  BY <2>1, <2>2 DEF Close, u
  <2>4. r \in Recs /\ r.off = s.last.off + 3
    <3>1. s.last.off + 3 \in Nat /\ "NO_RUN" \in States  BY <1>1 DEF Recs, States
    <3> QED  BY <1>1, <3>1 DEF Recs
  <2>5. v \in SUBSET Verdicts  BY <1>5 DEF Works
  <2>6. w = [u EXCEPT !.last = r, !.verdict = v]  BY <1>4 DEF Works
  <2> HIDE DEF r, v, w, t
  <2>7. /\ w \in Works /\ w.cur = u.cur /\ w.verdict = v /\ w.last = r /\ w.alarm = u.alarm
        /\ w.nrt = u.nrt /\ w.count = u.count /\ w.error = u.error /\ w.info = u.info
        /\ w.flag = u.flag /\ w.new = u.new /\ w.kept = u.kept /\ w.again = u.again
    BY <1>4, <2>4, <2>5, <2>6 DEF Works
  <2>8. t \in Works /\ t = [w EXCEPT !.again = w.again \/ w.last.off \in w.kept,
                                     !.kept = w.kept \cup {w.last.off}]
    BY <2>3, <2>7, SaveLastFacts
  <2>9. /\ t.cur = w.cur /\ t.verdict = w.verdict
        /\ t.nrt = w.nrt /\ t.error = w.error /\ t.info = w.info
        /\ t.flag = w.flag /\ t.new = w.new
        /\ t.again = (w.again \/ w.last.off \in w.kept)
    BY <2>7, <2>8 DEF Works
  <2>10. Judges(s) /\ ~ByAlarm(s) /\ ~ByModule(s)  BY <1>8, OneCause DEF Judges
  <2>11. t.again = (s.again \/ s.last.off + 3 \in s.kept)
    BY <1>4, <2>4, <2>7, <2>9
  <2>12. t.verdict = s.verdict \cup {Verdict(s.last, s.error = NoReason, s.error)}
    BY <2>7, <2>9 DEF v
  <2>13. /\ t.info = (IF Judges(s) THEN 0 ELSE s.info) /\ t.flag = (~Judges(s) /\ s.flag)
         /\ t.error \in {s.error, NoReason} /\ t.nrt = s.nrt /\ t.cur = s.cur /\ t.new = s.new
    BY <1>4, <2>7, <2>9, <2>10
  <2>14. sameRun  BY <2>8, <2>13
  <2>15. codes  BY <2>13
  <2>16. curKept /\ ofStop  BY <2>11, <2>12, <2>13
  <2> HIDE DEF sameRun, codes, curKept, ofStop
  <2> QED  BY <2>10, <2>14, <2>15, <2>16
<1>9. ASSUME ~Judges(s)
      PROVE  t = s /\ sameRun /\ codes /\ curKept /\ ~ByAlarm(s) /\ ~ByModule(s) /\ ~ByStop(s)
  <2>1. t = s  BY <1>9 DEF Close, Judges, ByAlarm, ByModule, ByStop
  <2>2. ~ByAlarm(s) /\ ~ByModule(s) /\ ~ByStop(s)  BY <1>9 DEF Judges
  <2>3. s.flag = (~Judges(s) /\ s.flag)  BY <1>9 DEF Works
  <2> HIDE DEF t
  <2>4. sameRun /\ curKept  BY <2>1
  <2>5. codes  BY <1>9, <2>1, <2>3
  <2> HIDE DEF sameRun, codes, curKept
  <2> QED  BY <2>1, <2>2, <2>4, <2>5
<1>10. sameRun /\ codes /\ (ByAlarm(s) => ofAlarm) /\ (~ByAlarm(s) => curKept)
       /\ (ByModule(s) => ofModule) /\ (ByStop(s) => ofStop) /\ (~Judges(s) => t = s)
  <2> HIDE DEF t, sameRun, codes, curKept, ofAlarm, ofModule, ofStop
  <2> QED  BY <1>6, <1>7, <1>8, <1>9 DEF Judges
<1> QED  BY <1>10

-----------------------------------------------------------------------------
(* response_record_send as a whole.                                        *)

\* What the call is given; and the four ways to a verdict, besides Idles.
Ready(g) ==
  /\ g.verdict = {} /\ g.new = {} /\ g.cur.off = 0
  /\ g.alarm => g.cur.err
  /\ g.cur.state = "FINISH" => g.cur.step # 0
  /\ g.cur.state = "WAITING" => g.cur.step # 0
  /\ g.last.state = "RUNNING" => g.last.step # 0
  /\ g.flag /\ g.nrt > 0 => g.last.step = 0
Finishes(g) == EndsRun(g) /\ EndsStep(g)
Hit(g) == ByAlarm(g) /\ ~EndsRun(g)
Told(g) == ByModule(g)
Stopped(g) == ByStop(g) /\ ~EndsRun(g)
Closes(g) == Idles(g) \/ EndsRun(g) \/ Hit(g) \/ Told(g) \/ Stopped(g)
VerdictOf(g) ==
  IF Idles(g) THEN {Verdict(g.cur, FALSE, Reason(NoRun))}
  ELSE IF Finishes(g) THEN {Verdict(g.last, TRUE, NoReason)}
  ELSE IF Hit(g) THEN {Verdict(g.cur, FALSE, g.error)}
  ELSE IF Told(g) THEN {Verdict(g.last, FALSE, g.error)}
  ELSE IF Stopped(g) THEN {Verdict(g.last, g.error = NoReason, g.error)}
  ELSE {}
Sent(g) == Close(Store(NoRunCheck(g)))

LEMMA SentType ==
  ASSUME NEW g \in Works, info \in 0 .. MaxRuns, last.info \in 0 .. MaxRuns, RecordAssumption
  PROVE  Sent(g) \in Works
<1>1. NoRunCheck(g) \in Works  BY NoRunFacts
<1> DEFINE p == NoRunCheck(g)
<1> HIDE DEF p
<1>2. Store(p) \in Works  BY <1>1, StoreFacts DEF p
<1> DEFINE q == Store(p)
<1> HIDE DEF q
<1>3. Close(q) \in Works  BY <1>2, CloseFacts DEF q
<1> QED  BY <1>3 DEF Sent, p, q

\* An alarm, an error of the module, a finish, a stop and a start without effect exclude
\* each other.
LEMMA OneOutcome ==
  ASSUME NEW g \in Works, Ready(g), RecordAssumption
  PROVE  /\ Idles(g) => ~EndsRun(g) /\ ~EndsStep(g) /\ ~Hit(g) /\ ~Told(g) /\ ~Stopped(g)
         /\ EndsRun(g) => ~Hit(g) /\ ~Told(g) /\ ~Stopped(g)
         /\ ~(Hit(g) /\ Told(g)) /\ ~(Hit(g) /\ Stopped(g)) /\ ~(Told(g) /\ Stopped(g))
<1>1. Idles(g) => g.last.step = 0 /\ g.cur.state = "NO_RUN" /\ g.flag
  <2> SUFFICES ASSUME Idles(g) PROVE g.last.step = 0 /\ g.cur.state = "NO_RUN" /\ g.flag
    OBVIOUS
  <2>1. g.flag /\ g.cur.state = "NO_RUN" /\ ~(g.nrt < NoRunLimit)  BY DEF Idles, Absent
  <2>2. g.nrt > 0  BY <2>1 DEF Works, RecordAssumption
  <2> QED  BY <2>1, <2>2 DEF Ready
<1>2. g.last.step = 0 => ~EndsStep(g) /\ ~Hit(g) /\ ~Told(g) /\ ~Stopped(g)
  BY DEF Ready, EndsStep, Hit, ByAlarm, Told, ByModule, Stopped, ByStop
<1>3. EndsRun(g) => g.cur.state = "FINISH" /\ ~Told(g) /\ ~Hit(g) /\ ~Stopped(g)
  BY DEF EndsRun, Ready, Told, ByModule, Hit, Stopped
<1>4. ~(Hit(g) /\ Told(g)) /\ ~(Hit(g) /\ Stopped(g)) /\ ~(Told(g) /\ Stopped(g))
  BY OneCause DEF Hit, Told, Stopped
<1> QED  BY <1>1, <1>2, <1>3, <1>4

\* The check for a run and what is stored leave the outcome open.
LEMMA SameOutcome ==
  ASSUME NEW g \in Works, Ready(g), info \in 0 .. MaxRuns, last.info \in 0 .. MaxRuns,
         RecordAssumption
  PROVE  LET p == NoRunCheck(g)
             q == Store(p) IN
         /\ p.cur.state = g.cur.state /\ p.cur.step = g.cur.step /\ p.cur.info = g.cur.info
         /\ p.cur.off = 0 /\ p.cur.err = (g.cur.err \/ Idles(g))
         /\ (EndsRun(p) <=> EndsRun(g)) /\ (EndsStep(p) <=> EndsStep(g))
         /\ (ByAlarm(q) <=> Hit(g)) /\ (ByModule(q) <=> Told(g)) /\ (ByStop(q) <=> Stopped(g))
         /\ (Judges(q) <=> Hit(g) \/ Told(g) \/ Stopped(g))
<1> DEFINE p == NoRunCheck(g)
           q == Store(p)
<1>1. /\ p \in Works
      /\ p.last = g.last /\ p.alarm = g.alarm
      /\ Idles(g) => p.cur = [g.cur EXCEPT !.err = TRUE]
      /\ ~Idles(g) => p.cur = g.cur
  BY NoRunFacts
<1> HIDE DEF p
<1>2. /\ q.cur = p.cur /\ q.alarm = p.alarm /\ q.last.step = p.last.step
      /\ q.last.state = IF EndsRun(p) THEN "FINISH" ELSE p.last.state
  BY <1>1, StoreFacts
<1> HIDE DEF q
<1>3. g.cur \in Recs /\ g.last \in Recs  BY DEF Works
<1>4. /\ p.cur.state = g.cur.state /\ p.cur.step = g.cur.step /\ p.cur.info = g.cur.info
      /\ p.cur.off = 0 /\ p.cur.err = (g.cur.err \/ Idles(g))
  <2>1. CASE Idles(g)
    BY <1>1, <1>3, <2>1 DEF Recs, Ready
  <2>2. CASE ~Idles(g)
    BY <1>1, <1>3, <2>2 DEF Recs, Ready
  <2> QED  BY <2>1, <2>2
<1>5. (EndsRun(p) <=> EndsRun(g)) /\ (EndsStep(p) <=> EndsStep(g))
  BY <1>1, <1>4 DEF EndsRun, EndsStep, NextStep, OfRun
<1>6. (ByAlarm(q) <=> Hit(g)) /\ (ByModule(q) <=> Told(g)) /\ (ByStop(q) <=> Stopped(g))
  <2>1. /\ q.cur.state = g.cur.state /\ q.cur.step = g.cur.step /\ q.alarm = g.alarm
        /\ q.cur.err = (g.cur.err \/ Idles(g)) /\ q.last.step = g.last.step
        /\ q.last.state = IF EndsRun(g) THEN "FINISH" ELSE g.last.state
    BY <1>1, <1>2, <1>4, <1>5
  <2>2. Idles(g) => g.last.step = 0 /\ g.last.state # "RUNNING"
    <3> SUFFICES ASSUME Idles(g) PROVE g.last.step = 0 /\ g.last.state # "RUNNING"
      OBVIOUS
    <3>1. g.flag /\ ~(g.nrt < NoRunLimit)  BY DEF Idles, Absent
    <3>2. g.nrt > 0  BY <3>1 DEF Works, RecordAssumption
    <3> QED  BY <3>1, <3>2 DEF Ready
  <2>3. ByAlarm(q) <=> Hit(g)  BY <2>1 DEF ByAlarm, Hit
  <2>4. ByModule(q) <=> Told(g)
    <3>1. Idles(g) => ~ByModule(q) /\ ~Told(g)  BY <2>1, <2>2 DEF ByModule, Told
    <3>2. ~Idles(g) => (ByModule(q) <=> Told(g))  BY <2>1 DEF ByModule, Told
    <3> QED  BY <3>1, <3>2
  <2>5. ByStop(q) <=> Stopped(g)
    <3>1. Idles(g) => ~ByStop(q) /\ ~Stopped(g)  BY <2>1, <2>2 DEF ByStop, Stopped
    <3>2. ~Idles(g) => (ByStop(q) <=> Stopped(g))  BY <2>1 DEF ByStop, Stopped, Ends
    <3> QED  BY <3>1, <3>2
  <2> QED  BY <2>3, <2>4, <2>5
<1>7. Judges(q) <=> Hit(g) \/ Told(g) \/ Stopped(g)  BY <1>6 DEF Judges
<1> QED  BY <1>4, <1>5, <1>6, <1>7 DEF p, q

\* What it makes of the record, of the codes, and of what is stored.
LEMMA SentFacts ==
  ASSUME NEW g \in Works, Ready(g), info \in 0 .. MaxRuns, last.info \in 0 .. MaxRuns,
         RecordAssumption
  PROVE  LET r == Sent(g) IN
         /\ r.cur.step = g.cur.step /\ r.cur.info = g.cur.info
         /\ r.cur.err = (g.cur.err \/ Idles(g))
         /\ r.cur.state = (IF Hit(g) THEN "NO_RUN" ELSE g.cur.state)
         /\ r.cur.off = (IF Hit(g) THEN 2 ELSE 0)
         /\ r.info = (IF Closes(g) THEN 0 ELSE g.info) /\ r.flag = (~Closes(g) /\ g.flag)
         /\ r.flag /\ r.nrt > 0 => g.cur.step = 0 \/ (g.cur.err /\ g.nrt > 0)
         /\ r.verdict = VerdictOf(g)
         /\ r.error \in {g.error, NoReason} /\ (~Closes(g) => r.error = g.error)
<1> DEFINE p == NoRunCheck(g)
           q == Store(p)
           r == Close(q)
<1>1. /\ p \in Works
      /\ p.last = g.last /\ p.alarm = g.alarm /\ p.error = g.error /\ p.kept = g.kept
      /\ p.again = g.again
      /\ Idles(g) => /\ p.cur = [g.cur EXCEPT !.err = TRUE] /\ p.new = g.new \cup {4, 5}
                     /\ p.info = 0 /\ ~p.flag
                     /\ p.verdict = {Verdict(g.cur, FALSE, Reason(NoRun))}
      /\ ~Idles(g) => /\ p.cur = g.cur /\ p.new = g.new /\ p.info = g.info /\ p.flag = g.flag
                      /\ p.verdict = g.verdict
      /\ p.flag /\ p.nrt > 0 => g.cur.step = 0 \/ (g.cur.err /\ g.nrt > 0)
  BY NoRunFacts
<1> HIDE DEF p
<1>2. /\ q \in Works
      /\ q.cur = p.cur /\ q.alarm = p.alarm /\ q.error = p.error /\ q.nrt = p.nrt
      /\ q.last.info = p.last.info /\ q.last.step = p.last.step /\ q.last.err = p.last.err
      /\ q.last.state = IF EndsRun(p) THEN "FINISH" ELSE p.last.state
      /\ q.info = (IF EndsRun(p) THEN 0 ELSE p.info) /\ q.flag = (~EndsRun(p) /\ p.flag)
      /\ q.verdict = (IF EndsStep(p) /\ EndsRun(p)
                      THEN p.verdict \cup {Verdict(p.last, TRUE, NoReason)} ELSE p.verdict)
  BY <1>1, StoreFacts
<1> HIDE DEF q
<1>3. /\ r.nrt = q.nrt /\ r.cur.step = q.cur.step /\ r.cur.err = q.cur.err /\ r.cur.info = q.cur.info
      /\ r.info = (IF Judges(q) THEN 0 ELSE q.info) /\ r.flag = (~Judges(q) /\ q.flag)
      /\ r.error \in {q.error, NoReason}
      /\ ByAlarm(q) => /\ r.cur.state = "NO_RUN" /\ r.cur.off = q.cur.off + 2
                       /\ r.verdict = q.verdict \cup {Verdict(q.cur, FALSE, q.error)}
      /\ ~ByAlarm(q) => r.cur = q.cur
      /\ ByModule(q) => r.verdict = q.verdict \cup {Verdict(q.last, FALSE, q.error)}
      /\ ByStop(q) => r.verdict = q.verdict \cup {Verdict(q.last, q.error = NoReason, q.error)}
      /\ ~Judges(q) => r = q
  BY <1>2, CloseFacts
<1> HIDE DEF r
<1>4. /\ p.cur.state = g.cur.state /\ p.cur.step = g.cur.step /\ p.cur.info = g.cur.info
      /\ p.cur.off = 0 /\ p.cur.err = (g.cur.err \/ Idles(g))
      /\ (EndsRun(p) <=> EndsRun(g)) /\ (EndsStep(p) <=> EndsStep(g))
      /\ (ByAlarm(q) <=> Hit(g)) /\ (ByModule(q) <=> Told(g)) /\ (ByStop(q) <=> Stopped(g))
      /\ (Judges(q) <=> Hit(g) \/ Told(g) \/ Stopped(g))
  BY SameOutcome DEF p, q
<1>5. r.cur.step = g.cur.step /\ r.cur.info = g.cur.info /\ r.cur.err = (g.cur.err \/ Idles(g))
  BY <1>2, <1>3, <1>4
<1>6. /\ r.cur.state = (IF Hit(g) THEN "NO_RUN" ELSE g.cur.state)
      /\ r.cur.off = (IF Hit(g) THEN 2 ELSE 0)
  <2>1. q.cur.state = g.cur.state /\ q.cur.off = 0  BY <1>2, <1>4 DEF Ready
  <2>2. Hit(g) => r.cur.state = "NO_RUN" /\ r.cur.off = 2  BY <1>3, <1>4, <2>1
  <2>3. ~Hit(g) => r.cur = q.cur  BY <1>3, <1>4
  <2> QED  BY <2>1, <2>2, <2>3
<1>7. r.info = (IF Closes(g) THEN 0 ELSE g.info)
  BY <1>1, <1>2, <1>3, <1>4 DEF Closes
<1>8. r.flag = (~Closes(g) /\ g.flag)
  <2>1. g.flag \in BOOLEAN /\ p.flag \in BOOLEAN  BY <1>1 DEF Works
  <2> QED  BY <2>1, <1>1, <1>2, <1>3, <1>4 DEF Closes
<1>9. r.flag /\ r.nrt > 0 => g.cur.step = 0 \/ (g.cur.err /\ g.nrt > 0)
  BY <1>1, <1>2, <1>3
<1>10. r.verdict = VerdictOf(g)
  <2>1. /\ Idles(g) => ~EndsRun(g) /\ ~EndsStep(g) /\ ~Hit(g) /\ ~Told(g) /\ ~Stopped(g)
        /\ EndsRun(g) => ~Hit(g) /\ ~Told(g) /\ ~Stopped(g)
        /\ ~(Hit(g) /\ Told(g)) /\ ~(Hit(g) /\ Stopped(g)) /\ ~(Told(g) /\ Stopped(g))
    BY OneOutcome
  <2>2. /\ Verdict(p.last, TRUE, NoReason) = Verdict(g.last, TRUE, NoReason)
        /\ Verdict(q.cur, FALSE, q.error) = Verdict(g.cur, FALSE, g.error)
        /\ Verdict(q.last, FALSE, q.error) = Verdict(g.last, FALSE, g.error)
        /\ Verdict(q.last, q.error = NoReason, q.error) = Verdict(g.last, g.error = NoReason, g.error)
    BY <1>1, <1>2, <1>4 DEF Verdict
  <2>3. CASE Idles(g)
    BY <2>1, <2>3, <1>1, <1>2, <1>3, <1>4 DEF VerdictOf
  <2>4. CASE ~Idles(g) /\ EndsRun(g)
    <3>1. q.verdict = IF EndsStep(g) THEN {Verdict(g.last, TRUE, NoReason)} ELSE {}
      BY <2>2, <2>4, <1>1, <1>2, <1>4 DEF Ready
    <3>2. r.verdict = q.verdict  BY <2>1, <2>4, <1>3, <1>4
    <3> QED  BY <2>1, <2>4, <3>1, <3>2 DEF VerdictOf, Finishes
  <2>5. CASE ~Idles(g) /\ ~EndsRun(g)
    <3>1. q.verdict = {}  BY <2>5, <1>1, <1>2, <1>4 DEF Ready
    <3>2. ~Finishes(g)  BY <2>5 DEF Finishes
    <3>3. CASE Hit(g)
      BY <2>2, <2>5, <1>3, <1>4, <3>1, <3>2, <3>3 DEF VerdictOf
    <3>4. CASE Told(g)
      BY <2>1, <2>2, <2>5, <1>3, <1>4, <3>1, <3>2, <3>4 DEF VerdictOf
    <3>5. CASE Stopped(g)
      BY <2>1, <2>2, <2>5, <1>3, <1>4, <3>1, <3>2, <3>5 DEF VerdictOf
    <3>6. CASE ~Hit(g) /\ ~Told(g) /\ ~Stopped(g)
      BY <2>5, <1>3, <1>4, <3>1, <3>2, <3>6 DEF VerdictOf
    <3> QED  BY <3>3, <3>4, <3>5, <3>6
  <2> QED  BY <2>3, <2>4, <2>5
<1>11. r.error \in {g.error, NoReason} /\ (~Closes(g) => r.error = g.error)
  <2>1. ~Closes(g) => ~Judges(q)  BY <1>4 DEF Closes
  <2> QED  BY <2>1, <1>1, <1>2, <1>3
<1>12. Sent(g) = r  BY DEF Sent, p, q, r
<1> HIDE DEF Sent
<1> QED  BY <1>5, <1>6, <1>7, <1>8, <1>9, <1>10, <1>11, <1>12, Zenon

LEMMA SentStored ==
  ASSUME NEW g \in Works, Ready(g), info \in 0 .. MaxRuns, last.info \in 0 .. MaxRuns,
         RecordAssumption
  PROVE  LET r == Sent(g) IN
         /\ r.new \subseteq {0} \cup (IF Idles(g) THEN {4, 5} ELSE IF Hit(g) THEN {2} ELSE {})
         /\ g.cur.state = "WAITING" /\ ~Hit(g) => r.last = g.last /\ r.kept = g.kept
         /\ r.again => \/ g.again
                       \/ EndsStep(g) /\ g.last.off + 1 \in g.kept
                       \/ Told(g) /\ ~EndsStep(g) /\ g.last.off + 2 \in g.kept
                       \/ Told(g) /\ EndsStep(g) /\ g.last.off + 3 \in g.kept
                       \/ Stopped(g) /\ ~EndsStep(g) /\ g.last.off + 3 \in g.kept
                       \/ Stopped(g) /\ EndsStep(g) /\ g.last.off + 4 \in g.kept
<1> DEFINE p == NoRunCheck(g)
           q == Store(p)
           r == Close(q)
<1>1. /\ p \in Works
      /\ p.last = g.last /\ p.alarm = g.alarm /\ p.kept = g.kept /\ p.again = g.again
      /\ Idles(g) => p.cur = [g.cur EXCEPT !.err = TRUE] /\ p.new = g.new \cup {4, 5}
      /\ ~Idles(g) => p.cur = g.cur /\ p.new = g.new
  BY NoRunFacts
<1> HIDE DEF p
<1>2. /\ q \in Works
      /\ q.cur = p.cur /\ q.alarm = p.alarm
      /\ q.last.info = p.last.info /\ q.last.step = p.last.step /\ q.last.err = p.last.err
      /\ q.last.state = IF EndsRun(p) THEN "FINISH" ELSE p.last.state
      /\ EndsStep(p) => q.last.off = p.last.off + 1 /\ q.kept = p.kept \cup {p.last.off + 1}
      /\ ~EndsStep(p) => q.last.off = p.last.off /\ q.kept = p.kept
      /\ q.new \in {p.new, p.new \cup {p.cur.off}}
      /\ q.again => \/ p.again \/ p.cur.off \in p.new
                    \/ EndsStep(p) /\ p.last.off + 1 \in p.kept
  BY <1>1, StoreFacts
<1> HIDE DEF q
<1>3. /\ r \in Works
      /\ ByAlarm(q) => /\ r.new = q.new \cup {q.cur.off + 2}
                       /\ r.again => q.again \/ q.cur.off + 2 \in q.new
      /\ ~ByAlarm(q) => r.new = q.new
      /\ ByModule(q) => (r.again => q.again \/ q.last.off + 2 \in q.kept)
      /\ ByStop(q) => (r.again => q.again \/ q.last.off + 3 \in q.kept)
      /\ ~Judges(q) => r = q
  BY <1>2, CloseFacts
<1> HIDE DEF r
<1>4. /\ p.cur.state = g.cur.state /\ p.cur.step = g.cur.step /\ p.cur.info = g.cur.info
      /\ p.cur.off = 0 /\ p.cur.err = (g.cur.err \/ Idles(g))
      /\ (EndsRun(p) <=> EndsRun(g)) /\ (EndsStep(p) <=> EndsStep(g))
      /\ (ByAlarm(q) <=> Hit(g)) /\ (ByModule(q) <=> Told(g)) /\ (ByStop(q) <=> Stopped(g))
      /\ (Judges(q) <=> Hit(g) \/ Told(g) \/ Stopped(g))
  BY SameOutcome DEF p, q
<1>5. q.new \subseteq {0} \cup (IF Idles(g) THEN {4, 5} ELSE {})
  BY <1>1, <1>2, <1>4 DEF Ready
<1>6. r.new \subseteq {0} \cup (IF Idles(g) THEN {4, 5} ELSE IF Hit(g) THEN {2} ELSE {})
  <2>1. CASE Hit(g)
    <3>1. ~Idles(g)  BY <2>1, OneOutcome
    <3>2. q.cur.off = 0  BY <1>2, <1>4
    <3> QED  BY <2>1, <3>1, <3>2, <1>3, <1>4, <1>5
  <2>2. CASE ~Hit(g)
    BY <2>2, <1>3, <1>4, <1>5
  <2> QED  BY <2>1, <2>2
<1>7. q.again => g.again \/ (EndsStep(g) /\ g.last.off + 1 \in g.kept)
  <2>1. 0 \notin p.new  BY <1>1 DEF Ready
  <2> QED  BY <2>1, <1>1, <1>2, <1>4
<1>8. r.again => \/ g.again
                 \/ EndsStep(g) /\ g.last.off + 1 \in g.kept
                 \/ Told(g) /\ ~EndsStep(g) /\ g.last.off + 2 \in g.kept
                 \/ Told(g) /\ EndsStep(g) /\ g.last.off + 3 \in g.kept
                 \/ Stopped(g) /\ ~EndsStep(g) /\ g.last.off + 3 \in g.kept
                 \/ Stopped(g) /\ EndsStep(g) /\ g.last.off + 4 \in g.kept
  <2>1. g.last.off \in Nat  BY DEF Works, Recs
  <2>2. /\ EndsStep(g) => q.last.off = g.last.off + 1 /\ q.kept = g.kept \cup {g.last.off + 1}
        /\ ~EndsStep(g) => q.last.off = g.last.off /\ q.kept = g.kept
    BY <1>1, <1>2, <1>4
  <2>3. CASE Hit(g)
    <3>1. ~Idles(g)  BY <2>3, OneOutcome
    <3>2. q.cur.off + 2 \notin q.new  BY <3>1, <1>2, <1>4, <1>5
    <3> QED  BY <3>2, <2>3, <1>3, <1>4, <1>7
  <2>4. CASE Told(g)
    <3>1. r.again => q.again \/ q.last.off + 2 \in q.kept  BY <2>4, <1>3, <1>4
    <3>2. EndsStep(g) => (q.last.off + 2 \in q.kept => g.last.off + 3 \in g.kept)
      BY <2>1, <2>2
    <3> QED  BY <2>2, <2>4, <3>1, <3>2, <1>7
  <2>5. CASE Stopped(g)
    <3>1. r.again => q.again \/ q.last.off + 3 \in q.kept  BY <2>5, <1>3, <1>4
    <3>2. EndsStep(g) => (q.last.off + 3 \in q.kept => g.last.off + 4 \in g.kept)
      BY <2>1, <2>2
    <3> QED  BY <2>2, <2>5, <3>1, <3>2, <1>7
  <2>6. CASE ~Hit(g) /\ ~Told(g) /\ ~Stopped(g)
    BY <2>6, <1>3, <1>4, <1>7
  <2> QED  BY <2>3, <2>4, <2>5, <2>6
<1>9. g.cur.state = "WAITING" /\ ~Hit(g) => r.last = g.last /\ r.kept = g.kept
  <2> SUFFICES ASSUME g.cur.state = "WAITING", ~Hit(g)  PROVE r.last = g.last /\ r.kept = g.kept
    OBVIOUS
  <2>1. ~EndsStep(g) /\ ~EndsRun(g)  BY DEF EndsStep, EndsRun
  <2>2. ~Told(g) /\ ~Stopped(g)  BY DEF Told, ByModule, Stopped, ByStop, Ends, Ready
  <2>3. r = q  BY <2>2, <1>3, <1>4
  <2>4. /\ q.last.info = g.last.info /\ q.last.step = g.last.step /\ q.last.err = g.last.err
        /\ q.last.state = g.last.state /\ q.last.off = g.last.off /\ q.kept = g.kept
    BY <2>1, <1>1, <1>2, <1>4
  <2>5. q.last \in Recs /\ g.last \in Recs  BY <1>2 DEF Works
  <2>6. q.last = g.last  BY <2>4, <2>5 DEF Recs
  <2> QED  BY <2>3, <2>4, <2>6
<1>10. Sent(g) = r  BY DEF Sent, p, q, r
<1> HIDE DEF Sent
<1> QED  BY <1>6, <1>8, <1>9, <1>10, Zenon

-----------------------------------------------------------------------------
(* The verdicts of a battery.                                              *)

Judgements == [ok : BOOLEAN, reason : Reasons]
Judgement(v) == [ok |-> v.ok, reason |-> v.reason]

\* There is one verdict at most, and it goes to the battery's own.
LEMMA OneVerdictAtOnce ==
  ASSUME NEW g \in Works, NEW v \in VerdictOf(g), NEW w \in VerdictOf(g)
  PROVE  v = w
<1>1. CASE Idles(g)
  BY <1>1 DEF VerdictOf
<1>2. CASE ~Idles(g) /\ Finishes(g)
  BY <1>2 DEF VerdictOf
<1>3. CASE ~Idles(g) /\ ~Finishes(g) /\ Hit(g)
  BY <1>3 DEF VerdictOf
<1>4. CASE ~Idles(g) /\ ~Finishes(g) /\ ~Hit(g) /\ Told(g)
  BY <1>4 DEF VerdictOf
<1>5. CASE ~Idles(g) /\ ~Finishes(g) /\ ~Hit(g) /\ ~Told(g)
  BY <1>5 DEF VerdictOf
<1> QED  BY <1>1, <1>2, <1>3, <1>4, <1>5

LEMMA JudgedAppend ==
  ASSUME NEW g \in Works, Ready(g), info \in 0 .. MaxRuns, last.info \in 0 .. MaxRuns,
         RecordAssumption, NEW b, NEW q \in Seq(Judgements)
  PROVE  LET t == q \o SetToSeq({Judgement(v) : v \in {w \in VerdictOf(g) : w.info = b}}) IN
         /\ \A v \in VerdictOf(g) : v.info = b => v \in Verdicts /\ t = Append(q, Judgement(v))
         /\ (\A v \in VerdictOf(g) : v.info # b) => t = q
<1> DEFINE T == {Judgement(v) : v \in {w \in VerdictOf(g) : w.info = b}}
<1>1. VerdictOf(g) \subseteq Verdicts
  <2>1. Sent(g) \in Works /\ Sent(g).verdict = VerdictOf(g)  BY SentType, SentFacts
  <2> QED  BY <2>1 DEF Works
<1>2. \A v \in Verdicts : Judgement(v) \in Judgements
  BY DEF Verdicts, Judgement, Judgements
<1>3. T \in SUBSET Judgements  BY <1>1, <1>2
<1>4. \A x, y \in T : x = y  BY OneVerdictAtOnce
<1> DEFINE u == SetToSeq(T)
<1>5. u \in Seq(Judgements) /\ Len(u) = (IF T = {} THEN 0 ELSE 1) /\ (T # {} => u[1] \in T)
  BY <1>3, <1>4, SetToSeqOfOne
<1>6. ASSUME NEW v \in VerdictOf(g), v.info = b  PROVE q \o u = Append(q, Judgement(v))
  <2>1. T = {Judgement(v)}  BY <1>6, OneVerdictAtOnce
  <2>2. Len(u) = 1 /\ u[1] = Judgement(v) /\ Judgement(v) \in Judgements  BY <2>1, <1>3, <1>5
  <2> HIDE DEF u, T
  <2>3. u = <<Judgement(v)>>  BY <2>2, <1>5
  <2> QED  BY <2>2, <2>3, AppendIsConcat
<1>7. ASSUME \A v \in VerdictOf(g) : v.info # b  PROVE q \o u = q
  <2>1. T = {}  BY <1>7
  <2>2. Len(u) = 0  BY <2>1, <1>5
  <2> HIDE DEF u, T
  <2>3. u = <<>>  BY <2>2, <1>5
  <2> QED  BY <2>3, ConcatEmptySeq
<1> QED  BY <1>1, <1>6, <1>7

-----------------------------------------------------------------------------
(* What a record is handled to.                                            *)

\* An error of the module ends it, and only a finished one has step Steps + 1.
Shaped(f) ==
  /\ f.err => f.state = "NO_RUN"
  /\ f.state = "NO_RUN" => f.step = 0
  /\ f.state \in {"START", "RUNNING", "PAUSE", "WAITING"} => f.step \in 1 .. Steps
  /\ f.state = "FINISH" => f.step = Steps + 1
FramesInv ==
  /\ Shaped(mod) /\ \A i \in DOMAIN wire : Shaped(wire[i])
  /\ last.state = "RUNNING" => last.step \in 1 .. Steps

\* A start is not sent over an alarm that was not acted upon; a channel that is counted
\* as not running has shown no step.
FlagInv ==
  /\ m_step_start_flag \/ start_read => alarm_mask = {} \/ ERC_happen
  /\ m_step_start_flag /\ no_run_time > 0 => last.step = 0

\* The last of n frames is handled: g is what response_record_send is given.  Its reason is
\* one that arises now, or the module's error, or else what m_error has.
Fresh(q) == q.of = {info, last.info} /\ q # NoReason
Before(n, g) ==
  /\ g \in Works /\ Ready(g) /\ n \in 1 .. Len(wire)
  /\ g.cur.state = wire[n].state /\ g.cur.step = wire[n].step /\ g.cur.info = info
  /\ g.cur.err = (wire[n].err \/ alarm_mask' # {}) /\ g.alarm = (alarm_mask' # {})
  /\ g.info = info /\ g.flag = m_step_start_flag /\ g.nrt = no_run_time
  /\ g.kept = kept /\ g.again = again
  /\ g.last.info = last.info /\ g.last.err = last.err /\ g.last.off = last.off
  /\ \/ g.last.state = last.state /\ g.last.step = last.step
     \/ /\ g.last.state = "NO_RUN" /\ g.last.step = 0
        /\ last.state = "FINISH" /\ g.cur.state = "START"
  /\ alarm_mask' = {} /\ CodesIn(n) # {} => g.error = Reason("module")
  /\ m_err_code' = m_err_code \/ Fresh(m_err_code')
  /\ \/ Fresh(g.error)
     \/ g.error = m_err_code' /\ m_err_code' # NoReason
     \/ g.error = m_error /\ m_err_code' = NoReason /\ alarm_mask' = alarm_mask
After(n, g) ==
  LET r == Sent(g) IN
  /\ wire' = SubSeq(wire, n + 1, Len(wire))
  /\ last' = IF r.cur.state = "WAITING" THEN r.last ELSE r.cur
  /\ kept' = IF r.cur.state = "WAITING" THEN r.kept ELSE r.new
  /\ reCounter' = r.count /\ no_run_time' = r.nrt
  /\ info' = r.info /\ again' = r.again /\ m_error' = r.error
  /\ judged' = [b \in Batteries |-> judged[b] \o
       SetToSeq({Judgement(v) : v \in {w \in VerdictOf(g) : w.info = b}})]
  /\ m_step_start_flag' \in BOOLEAN /\ (m_step_start_flag' => r.flag)
  /\ m_step_start_flag' => ~ERC_happen /\ alarm_mask' = alarm_mask
  /\ start_read' \in BOOLEAN /\ (start_read' => start_read /\ ~r.cur.err)
  /\ ERC_happen' = FALSE /\ mod' \in {mod, Halted}
  /\ m_err_code' \in Reasons /\ m_last_error' \in {None, "module"}
  /\ alarm_mask' \subseteq Rules \cup {Temp} /\ alarm_mask \subseteq alarm_mask'
  /\ alarms' \in 0 .. MaxAlarms
  /\ UNCHANGED <<stale, bound, starts>>

LEMMA HandleFacts ==
  ASSUME TypeOK, FramesInv, FlagInv, RecordAssumption, Handle
  PROVE  \E n \in 1 .. Len(wire), g \in Works : Before(n, g) /\ After(n, g)
<1>1. PICK n \in 1 .. Len(wire), fired \in SUBSET Rules :
    LET err_code == IF CodesIn(n) # {} THEN Reason("module") ELSE m_err_code
        new == fired \ alarm_mask
        low == {err_code.code} \ {None, m_last_error}
        mask == alarm_mask \cup fired
        s == Response(wire[n], ErrorAfter(err_code, new), mask)
        stop == Alarmed(new \cup low)
    IN
    /\ alarms + Cardinality(new) <= MaxAlarms /\ alarms' = alarms + Cardinality(new)
    /\ wire' = SubSeq(wire, n + 1, Len(wire))
    /\ m_err_code' = err_code
    /\ m_last_error' = IF low # {} THEN "module" ELSE m_last_error
    /\ alarm_mask' = mask
    /\ m_error' = s.error
    /\ last' = IF s.cur.state = "WAITING" THEN s.last ELSE s.cur
    /\ kept' = IF s.cur.state = "WAITING" THEN s.kept ELSE s.new
    /\ reCounter' = s.count
    /\ no_run_time' = s.nrt /\ m_step_start_flag' = (s.flag /\ ~stop)
    /\ info' = s.info /\ again' = s.again
    /\ judged' = [b \in Batteries |-> judged[b] \o SetToSeq(
         {[ok |-> v.ok, reason |-> v.reason] : v \in {w \in s.verdict : w.info = b}})]
    /\ start_read' = (start_read /\ ~s.cur.err)
    /\ ERC_happen' = FALSE
    /\ mod' = IF stop THEN Halted ELSE mod
    /\ UNCHANGED <<stale, bound, starts>>
  BY DEF Handle
<1> DEFINE err_code == IF CodesIn(n) # {} THEN Reason("module") ELSE m_err_code
           new == fired \ alarm_mask
           low == {err_code.code} \ {None, m_last_error}
           mask == alarm_mask \cup fired
           reason == ErrorAfter(err_code, new)
           g == Given(wire[n], reason, mask)
           stop == Alarmed(new \cup low)
<1>2. /\ alarms + Cardinality(new) <= MaxAlarms /\ alarms' = alarms + Cardinality(new)
      /\ wire' = SubSeq(wire, n + 1, Len(wire))
      /\ m_err_code' = err_code
      /\ m_last_error' = IF low # {} THEN "module" ELSE m_last_error
      /\ alarm_mask' = mask
      /\ m_error' = Sent(g).error
      /\ last' = IF Sent(g).cur.state = "WAITING" THEN Sent(g).last ELSE Sent(g).cur
      /\ kept' = IF Sent(g).cur.state = "WAITING" THEN Sent(g).kept ELSE Sent(g).new
      /\ reCounter' = Sent(g).count
      /\ no_run_time' = Sent(g).nrt /\ m_step_start_flag' = (Sent(g).flag /\ ~stop)
      /\ info' = Sent(g).info /\ again' = Sent(g).again
      /\ judged' = [b \in Batteries |-> judged[b] \o SetToSeq(
           {Judgement(v) : v \in {w \in Sent(g).verdict : w.info = b}})]
      /\ start_read' = (start_read /\ ~Sent(g).cur.err)
      /\ ERC_happen' = FALSE
      /\ mod' = IF stop THEN Halted ELSE mod
      /\ UNCHANGED <<stale, bound, starts>>
  BY <1>1 DEF Response, Sent, Judgement
<1> HIDE DEF g, reason
<1>3. info \in 0 .. MaxRuns /\ last.info \in 0 .. MaxRuns /\ m_err_code \in Reasons /\ m_error \in Reasons
      /\ m_last_error \in {None, "module"} /\ alarm_mask \subseteq Rules \cup {Temp}
      /\ ERC_happen \in BOOLEAN /\ start_read \in BOOLEAN /\ alarms \in 0 .. MaxAlarms
      /\ m_step_start_flag \in BOOLEAN
  BY DEF TypeOK
<1>4. err_code \in Reasons /\ reason \in Reasons
  <2>1. Reason("module") \in Reasons  BY <1>3, ReasonType DEF Codes
  <2>2. "step" \in new => Reason("step") \in Reasons  BY <1>3, ReasonType DEF Codes
  <2>3. "global" \in new => Reason("global") \in Reasons  BY <1>3, ReasonType DEF Codes
  <2> QED  BY <2>1, <2>2, <2>3, <1>3 DEF ErrorAfter, reason
<1>5. /\ wire[n].state \in States /\ wire[n].step \in StepNos /\ wire[n].err \in BOOLEAN
      /\ Shaped(wire[n])
  <2>1. n \in DOMAIN wire  BY LenProperties DEF TypeOK
  <2>2. wire[n] \in [state : States, step : StepNos, err : BOOLEAN, code : {None, "module"}]
    <3> DEFINE F == [state : States, step : StepNos, err : BOOLEAN, code : {None, "module"}]
    <3>1. wire \in Seq(F)  BY DEF TypeOK
    <3> HIDE DEF F
    <3>2. wire[n] \in F  BY <3>1, ElementOfSeq
    <3> QED  BY <3>2 DEF F
  <2> QED  BY <2>1, <2>2 DEF FramesInv
<1> DEFINE cur == [state |-> wire[n].state, step |-> wire[n].step,
                   err |-> wire[n].err \/ mask # {}, info |-> info, off |-> 0]
           g0 == [cur |-> cur, last |-> last, alarm |-> mask # {}, error |-> reason, info |-> info,
                  count |-> reCounter, nrt |-> no_run_time, flag |-> m_step_start_flag,
                  new |-> {}, kept |-> kept, again |-> again, verdict |-> {}]
<1>6. g = AfterFinish(g0)  BY DEF g, Given
<1>7. cur \in Recs  BY <1>3, <1>5 DEF Recs
<1>8. last \in Recs
  <2>1. last \in [state : States, step : StepNos, err : BOOLEAN, info : 0 .. MaxRuns, off : 0 .. 2]
    BY DEF TypeOK
  <2> QED  BY <2>1 DEF Recs
<1>9. /\ reCounter \in 0 .. RecFreq /\ no_run_time \in 0 .. NoRunLimit /\ again \in BOOLEAN
      /\ kept \in SUBSET Nat
  BY DEF TypeOK
<1> DEFINE l == [last EXCEPT !.state = "NO_RUN", !.step = 0]
           back == cur.state = "START" /\ last.state = "FINISH"
<1>10. l \in Recs /\ l.state = "NO_RUN" /\ l.step = 0 /\ l.info = last.info /\ l.err = last.err
       /\ l.off = last.off
  <2>1. "NO_RUN" \in States /\ 0 \in StepNos  BY DEF States, StepNos, RecordAssumption
  <2> QED  BY <1>8, <2>1 DEF Recs
<1>11. g0 \in Works
  <2> HIDE DEF cur, mask
  <2>1. (mask # {}) \in BOOLEAN /\ {} \in SUBSET Nat /\ {} \in SUBSET Verdicts  OBVIOUS
  <2> QED  BY <2>1, <1>3, <1>4, <1>7, <1>8, <1>9 DEF Works
<1>12. /\ g \in Works /\ g.cur = cur /\ g.last = (IF back THEN l ELSE last)
       /\ g.alarm = (mask # {}) /\ g.error = reason
       /\ g.info = info /\ g.count = reCounter /\ g.nrt = no_run_time /\ g.flag = m_step_start_flag
       /\ g.new = {} /\ g.kept = kept /\ g.again = again /\ g.verdict = {}
  <2> HIDE DEF cur, mask
  <2>1. /\ g0.cur = cur /\ g0.last = last /\ g0.alarm = (mask # {}) /\ g0.error = reason
        /\ g0.info = info /\ g0.count = reCounter /\ g0.nrt = no_run_time /\ g0.flag = m_step_start_flag
        /\ g0.new = {} /\ g0.kept = kept /\ g0.again = again /\ g0.verdict = {}
    OBVIOUS
  <2> HIDE DEF g0
  <2>2. CASE back
    <3> DEFINE h == [g0 EXCEPT !.last = l]
    <3>1. h \in Works /\ h.cur = g0.cur /\ h.last = l /\ h.alarm = g0.alarm /\ h.error = g0.error
          /\ h.info = g0.info /\ h.count = g0.count /\ h.nrt = g0.nrt /\ h.flag = g0.flag
          /\ h.new = g0.new /\ h.kept = g0.kept /\ h.again = g0.again /\ h.verdict = g0.verdict
      <4> HIDE DEF l
      <4> QED  BY <1>10, <1>11 DEF Works
    <3>2. g = h
      <4>1. g = [g0 EXCEPT !.last.state = "NO_RUN", !.last.step = 0]
        BY <1>6, <2>1, <2>2 DEF AfterFinish
      <4> QED  BY <1>11, <2>1, <4>1 DEF Works
    <3> HIDE DEF h, l, back
    <3> QED  BY <2>1, <2>2, <3>1, <3>2
  <2>3. CASE ~back
    <3>1. g = g0  BY <1>6, <2>1, <2>3 DEF AfterFinish
    <3> HIDE DEF l, back
    <3> QED  BY <1>11, <2>1, <2>3, <3>1
  <2> QED  BY <2>2, <2>3
<1>13. Ready(g)
  <2>1. g.verdict = {} /\ g.new = {} /\ g.cur.off = 0 /\ (g.alarm => g.cur.err)
    <3> HIDE DEF mask
    <3>1. cur.off = 0 /\ (mask # {} => cur.err)  OBVIOUS
    <3> HIDE DEF cur
    <3> QED  BY <1>12, <3>1
  <2>2. (g.cur.state = "FINISH" => g.cur.step # 0) /\ (g.cur.state = "WAITING" => g.cur.step # 0)
    BY <1>5, <1>12 DEF Shaped, RecordAssumption
  <2>3. g.last.state = "RUNNING" => g.last.step # 0
    BY <1>10, <1>12 DEF FramesInv, RecordAssumption
  <2>4. g.flag /\ g.nrt > 0 => g.last.step = 0
    BY <1>10, <1>12 DEF FlagInv
  <2> QED  BY <2>1, <2>2, <2>3, <2>4 DEF Ready
<1>14. Before(n, g)
  <2>1. mask = {} /\ CodesIn(n) # {} => reason = Reason("module")
    <3>1. Reason("module") # NoReason  BY DEF Reason, NoReason, None
    <3> QED  BY <3>1 DEF reason, ErrorAfter
  <2>2. alarm_mask' = mask  BY <1>2
  <2> HIDE DEF mask
  <2>3. /\ \/ g.last.state = last.state /\ g.last.step = last.step
           \/ /\ g.last.state = "NO_RUN" /\ g.last.step = 0
              /\ last.state = "FINISH" /\ g.cur.state = "START"
        /\ g.last.info = last.info /\ g.last.err = last.err /\ g.last.off = last.off
    BY <1>10, <1>12
  <2>4. /\ m_err_code' = m_err_code \/ Fresh(m_err_code')
        /\ \/ Fresh(reason)
           \/ reason = m_err_code' /\ m_err_code' # NoReason
           \/ reason = m_error /\ m_err_code' = NoReason /\ alarm_mask' = alarm_mask
    <3>1. \A c \in {"module", "step", "global"} : Fresh(Reason(c))
      BY DEF Fresh, Reason, NoReason, None
    <3>2. m_err_code' = err_code /\ (err_code = m_err_code \/ Fresh(err_code))  BY <1>2, <3>1
    <3>3. \/ Fresh(reason)
          \/ "step" \notin new /\ "global" \notin new
             /\ reason = IF err_code # NoReason THEN err_code ELSE m_error
      BY <3>1 DEF reason, ErrorAfter
    <3>4. "step" \notin new /\ "global" \notin new => alarm_mask' = alarm_mask
      BY <1>2 DEF mask, RecordAssumption
    <3> HIDE DEF err_code, new
    <3> QED  BY <3>2, <3>3, <3>4
  <2> HIDE DEF back, l
  <2>5. g.error = reason  BY <1>12
  <2> QED  BY <1>12, <1>13, <2>1, <2>2, <2>3, <2>4, <2>5 DEF Before
<1>15. IsFiniteSet(new) /\ Cardinality(new) \in Nat
  <2>1. new \in SUBSET {"global", "step"}  BY DEF RecordAssumption
  <2>2. IsFiniteSet({"global", "step"})
    <3>1. IsFiniteSet({"global"})  BY FS_Singleton, Zenon
    <3>2. IsFiniteSet({"global"} \cup {"step"})  BY <3>1, FS_AddElement, Zenon
    <3>3. {"global", "step"} = {"global"} \cup {"step"}  OBVIOUS
    <3> QED  BY <3>2, <3>3, Zenon
  <2> QED  BY <2>1, <2>2, FS_Subset, FS_CardinalityType
<1>16. alarms' \in 0 .. MaxAlarms
  <2>1. alarms + Cardinality(new) <= MaxAlarms /\ alarms' = alarms + Cardinality(new)  BY <1>2
  <2>2. alarms \in 0 .. MaxAlarms /\ MaxAlarms \in Nat /\ Cardinality(new) \in Nat
    BY <1>3, <1>15 DEF RecordAssumption
  <2> HIDE DEF new
  <2> QED  BY <2>1, <2>2
<1>17. m_step_start_flag' => ~ERC_happen /\ alarm_mask' = alarm_mask
  <2>1. m_step_start_flag' => ~stop  BY <1>2
  <2>2. ~stop => ~ERC_happen /\ new = {}  BY DEF Alarmed
  <2> QED  BY <2>1, <2>2, <1>2
<1>18. Sent(g) \in Works /\ Sent(g).verdict = VerdictOf(g)
  BY <1>3, <1>12, <1>13, SentType, SentFacts
<1>19. After(n, g)
  <2> DEFINE r == Sent(g)
  <2>1. r.flag \in BOOLEAN /\ r.cur.err \in BOOLEAN  BY <1>18 DEF Works, Recs
  <2> HIDE DEF r
  <2>2. m_step_start_flag' \in BOOLEAN /\ (m_step_start_flag' => r.flag)
    BY <1>2, <2>1 DEF r
  <2>3. start_read' \in BOOLEAN /\ (start_read' => start_read /\ ~r.cur.err)
    BY <1>2, <1>3, <2>1 DEF r
  <2>4. mod' \in {mod, Halted} /\ m_err_code' \in Reasons /\ m_last_error' \in {None, "module"}
    BY <1>2, <1>3, <1>4
  <2>5. alarm_mask' \subseteq Rules \cup {Temp} /\ alarm_mask \subseteq alarm_mask'
    BY <1>2, <1>3
  <2> QED  BY <1>2, <1>16, <1>17, <1>18, <2>2, <2>3, <2>4, <2>5 DEF After, r
<1> QED  BY <1>12, <1>14, <1>19

\* A record of a pause between steps is not kept as the last one.
LEMMA LastAfter ==
  ASSUME TypeOK, RecordAssumption, NEW n \in 1 .. Len(wire), NEW g \in Works, Before(n, g), After(n, g)
  PROVE  \/ /\ wire[n].state = "WAITING" /\ ~Hit(g)
            /\ last'.state = last.state /\ last'.step = last.step /\ last'.err = last.err
            /\ last'.off = last.off /\ last'.info = last.info /\ kept' = kept
            /\ g.last.state = last.state /\ g.last.step = last.step
         \/ last' = Sent(g).cur /\ kept' = Sent(g).new /\ Sent(g).cur.state # "WAITING"
<1> DEFINE r == Sent(g)
<1>1. info \in 0 .. MaxRuns /\ last.info \in 0 .. MaxRuns  BY DEF TypeOK
<1>2. Ready(g)  BY DEF Before
<1>3. r.cur.state = (IF Hit(g) THEN "NO_RUN" ELSE g.cur.state)
  BY <1>1, <1>2, SentFacts
<1>4. g.cur.state = "WAITING" /\ ~Hit(g) => r.last = g.last /\ r.kept = g.kept
  BY <1>1, <1>2, SentStored
<1>5. /\ last' = IF r.cur.state = "WAITING" THEN r.last ELSE r.cur
      /\ kept' = IF r.cur.state = "WAITING" THEN r.kept ELSE r.new
  BY DEF After
<1> HIDE DEF r
<1>6. CASE r.cur.state = "WAITING"
  <2>1. g.cur.state = "WAITING" /\ ~Hit(g)  BY <1>3, <1>6
  <2>2. last' = g.last /\ kept' = g.kept  BY <1>4, <1>5, <1>6, <2>1
  <2>3. g.last.state = last.state /\ g.last.step = last.step  BY <2>1 DEF Before
  <2> QED  BY <2>1, <2>2, <2>3 DEF Before
<1>7. CASE r.cur.state # "WAITING"
  BY <1>5, <1>7 DEF r
<1> QED  BY <1>6, <1>7

-----------------------------------------------------------------------------
(* Types, and the times of what is stored.                                 *)

\* The last record is stored at 0, as it came, with the two made up for a start without
\* effect, or with its verdict for an alarm; what is stored of it next is at another time.
StampInv ==
  /\ ~again /\ last.off \in {0, 2}
  /\ last.off = 0 => \/ kept \subseteq {0}
                     \/ kept \subseteq {0, 4, 5} /\ last.step = 0 /\ last.state # "RUNNING"
  /\ last.off = 2 => kept \subseteq {0, 2} /\ last.err /\ last.state # "RUNNING"
BaseInv == TypeOK /\ FramesInv /\ FlagInv /\ StampInv

LEMMA BaseInit ==
  ASSUME RecordAssumption, Init
  PROVE  BaseInv
<1> USE DEF Init
<1>1. last = [state |-> "NO_RUN", step |-> 0, err |-> FALSE, info |-> 0, off |-> 0]
  OBVIOUS
<1>2. TypeOK
  <2>1. mod \in [state : States, step : StepNos, err : BOOLEAN]
    BY DEF Idle, States, StepNos, RecordAssumption
  <2>2. last \in [state : States, step : StepNos, err : BOOLEAN, info : 0 .. MaxRuns, off : 0 .. 2]
    BY DEF States, StepNos, RecordAssumption
  <2>3. wire \in Seq([state : States, step : StepNos, err : BOOLEAN, code : {None, "module"}])
    BY EmptySeq
  <2>4. reCounter \in 0 .. RecFreq /\ no_run_time \in 0 .. NoRunLimit
        /\ info \in 0 .. MaxRuns /\ bound \in 0 .. MaxRuns
        /\ alarms \in 0 .. MaxAlarms /\ starts \in 0 .. MaxStarts
    BY DEF RecordAssumption
  <2>5. {m_err_code, m_error} \subseteq Reasons /\ m_last_error \in {None, "module"}
    BY NoReasonType
  <2>6. judged \in [Batteries -> Seq([ok : BOOLEAN, reason : Reasons])]
    BY EmptySeq
  <2> QED  BY <2>1, <2>2, <2>3, <2>4, <2>5, <2>6 DEF TypeOK
<1>3. FramesInv
  BY EmptySeq DEF FramesInv, Shaped, Idle
<1>4. FlagInv
  BY DEF FlagInv
<1>5. StampInv
  BY DEF StampInv
<1> QED  BY <1>2, <1>3, <1>4, <1>5 DEF BaseInv

\* What the four parts leave of the invariant.
LEMMA HandleStamps ==
  ASSUME TypeOK, StampInv, RecordAssumption, NEW n \in 1 .. Len(wire), NEW g \in Works,
         Before(n, g), After(n, g)
  PROVE  StampInv'
<1> DEFINE r == Sent(g)
<1>1. info \in 0 .. MaxRuns /\ last.info \in 0 .. MaxRuns  BY DEF TypeOK
<1>2. Ready(g)  BY DEF Before
<1>3. /\ r.cur.step = g.cur.step /\ r.cur.err = (g.cur.err \/ Idles(g))
      /\ r.cur.state = (IF Hit(g) THEN "NO_RUN" ELSE g.cur.state)
      /\ r.cur.off = (IF Hit(g) THEN 2 ELSE 0)
  BY <1>1, <1>2, SentFacts
<1>4. /\ r.new \subseteq {0} \cup (IF Idles(g) THEN {4, 5} ELSE IF Hit(g) THEN {2} ELSE {})
      /\ r.again => \/ g.again
                    \/ EndsStep(g) /\ g.last.off + 1 \in g.kept
                    \/ Told(g) /\ ~EndsStep(g) /\ g.last.off + 2 \in g.kept
                    \/ Told(g) /\ EndsStep(g) /\ g.last.off + 3 \in g.kept
                    \/ Stopped(g) /\ ~EndsStep(g) /\ g.last.off + 3 \in g.kept
                    \/ Stopped(g) /\ EndsStep(g) /\ g.last.off + 4 \in g.kept
  BY <1>1, <1>2, SentStored
<1>5. again' = r.again  BY DEF After
<1> HIDE DEF r
<1>6. /\ ~g.again /\ g.last.off \in {0, 2}
      /\ g.last.off = 0 => \/ g.kept \subseteq {0}
                           \/ g.kept \subseteq {0, 4, 5} /\ g.last.step = 0 /\ g.last.state # "RUNNING"
      /\ g.last.off = 2 => g.kept \subseteq {0, 2} /\ g.last.err /\ g.last.state # "RUNNING"
  BY DEF Before, StampInv
<1>7. ~again'
  <2>1. EndsStep(g) => g.last.off = 0 /\ g.kept \subseteq {0}  BY <1>6 DEF EndsStep
  <2>2. Stopped(g) => g.last.off = 0 /\ g.kept \subseteq {0}  BY <1>6 DEF Stopped, ByStop
  <2>3. Told(g) => g.last.step # 0  BY DEF Told, ByModule
  <2>4. Told(g) => \/ g.last.off = 0 /\ g.kept \subseteq {0}
                   \/ g.last.off = 2 /\ g.kept \subseteq {0, 2}
    BY <1>6, <2>3
  <2>5. g.last.off = 0 /\ g.kept \subseteq {0}
        => g.last.off + 1 \notin g.kept /\ g.last.off + 2 \notin g.kept /\ g.last.off + 3 \notin g.kept
           /\ g.last.off + 4 \notin g.kept
    OBVIOUS
  <2>6. g.last.off = 2 /\ g.kept \subseteq {0, 2}
        => g.last.off + 2 \notin g.kept /\ g.last.off + 3 \notin g.kept
    OBVIOUS
  <2> QED  BY <1>4, <1>5, <1>6, <2>1, <2>2, <2>4, <2>5, <2>6
<1>8. CASE last' = r.cur /\ kept' = r.new
  <2>1. Idles(g) => ~Hit(g)  BY <1>2, OneOutcome
  <2>2. Idles(g) => g.cur.step = 0 /\ g.cur.state = "NO_RUN"  BY DEF Idles, Absent
  <2>3. Hit(g) => g.cur.err  BY <1>2 DEF Ready, Hit, ByAlarm
  <2>4. CASE Hit(g)
    <3>1. ~Idles(g)  BY <2>1, <2>4
    <3> QED  BY <1>3, <1>4, <1>7, <1>8, <2>3, <2>4, <3>1 DEF StampInv
  <2>5. CASE ~Hit(g)
    BY <1>3, <1>4, <1>7, <1>8, <2>2, <2>5 DEF StampInv
  <2> QED  BY <2>4, <2>5
<1>9. CASE /\ last'.state = last.state /\ last'.step = last.step /\ last'.err = last.err
           /\ last'.off = last.off /\ kept' = kept
  BY <1>7, <1>9 DEF StampInv
<1> QED  BY <1>8, <1>9, LastAfter DEF r

LEMMA HandleFrames ==
  ASSUME TypeOK, FramesInv, RecordAssumption, NEW n \in 1 .. Len(wire), NEW g \in Works,
         Before(n, g), After(n, g)
  PROVE  FramesInv'
<1> DEFINE F == [state : States, step : StepNos, err : BOOLEAN, code : {None, "module"}]
<1>1. wire \in Seq(F) /\ n \in 1 .. Len(wire) /\ Len(wire) \in Nat
  BY LenProperties DEF TypeOK
<1> HIDE DEF F
<1>2. wire' = SubSeq(wire, n + 1, Len(wire)) /\ mod' \in {mod, Halted}
  BY DEF After
<1>3. \A i \in DOMAIN wire' : n + i \in DOMAIN wire /\ wire'[i] = wire[n + i]
  <2>1. DOMAIN wire' = 1 .. Len(wire) - n /\ \A i \in 1 .. Len(wire) - n : wire'[i] = wire[n + i]
    BY <1>1, <1>2, RestOf
  <2>2. \A i \in 1 .. Len(wire) - n : n + i \in 1 .. Len(wire)  BY <1>1, Shifted
  <2>3. DOMAIN wire = 1 .. Len(wire)  BY <1>1, LenProperties
  <2> QED  BY <2>1, <2>2, <2>3
<1>4. Shaped(mod')
  <2>1. Shaped(mod)  BY DEF FramesInv
  <2>2. Shaped(Halted)
    <3>1. Halted.state = "NO_RUN" /\ Halted.step = 0  BY DEF Halted, TypeOK
    <3> QED  BY <3>1 DEF Shaped
  <2> QED  BY <1>2, <2>1, <2>2
<1>5. last'.state = "RUNNING" => last'.step \in 1 .. Steps
  <2>1. info \in 0 .. MaxRuns /\ last.info \in 0 .. MaxRuns  BY DEF TypeOK
  <2>2. Ready(g)  BY DEF Before
  <2> DEFINE r == Sent(g)
  <2>3. r.cur.step = g.cur.step /\ r.cur.state \in {"NO_RUN", g.cur.state}
    BY <2>1, <2>2, SentFacts
  <2> HIDE DEF r
  <2>4. n \in DOMAIN wire  BY <1>1
  <2>5. Shaped(wire[n])  BY <2>4 DEF FramesInv
  <2>6. CASE last' = r.cur
    BY <2>3, <2>5, <2>6 DEF Before, Shaped
  <2>7. CASE last'.state = last.state /\ last'.step = last.step
    BY <2>7 DEF FramesInv
  <2> QED  BY <2>6, <2>7, LastAfter DEF r
<1> QED  BY <1>3, <1>4, <1>5 DEF FramesInv

LEMMA HandleFlags ==
  ASSUME TypeOK, FramesInv, FlagInv, RecordAssumption, NEW n \in 1 .. Len(wire), NEW g \in Works,
         Before(n, g), After(n, g)
  PROVE  FlagInv'
<1> DEFINE r == Sent(g)
<1>1. info \in 0 .. MaxRuns /\ last.info \in 0 .. MaxRuns  BY DEF TypeOK
<1>2. Ready(g)  BY DEF Before
<1>3. /\ r.cur.step = g.cur.step /\ r.cur.err = (g.cur.err \/ Idles(g))
      /\ r.flag = (~Closes(g) /\ g.flag)
      /\ r.flag /\ r.nrt > 0 => g.cur.step = 0 \/ (g.cur.err /\ g.nrt > 0)
  BY <1>1, <1>2, SentFacts
<1>4. /\ no_run_time' = r.nrt /\ (m_step_start_flag' => r.flag)
      /\ (m_step_start_flag' => ~ERC_happen /\ alarm_mask' = alarm_mask)
      /\ (start_read' => start_read /\ ~r.cur.err) /\ ERC_happen' = FALSE
  BY DEF After
<1> HIDE DEF r
<1>5. start_read' => alarm_mask' = {}
  BY <1>3, <1>4 DEF Before
<1>6. m_step_start_flag' => alarm_mask' = {}
  BY <1>3, <1>4 DEF Before, FlagInv
<1>7. m_step_start_flag' /\ no_run_time' > 0 => last'.step = 0
  <2> SUFFICES ASSUME m_step_start_flag', no_run_time' > 0  PROVE last'.step = 0
    OBVIOUS
  <2>2. n \in DOMAIN wire  BY LenProperties DEF TypeOK
  <2>3. Shaped(wire[n])  BY <2>2 DEF FramesInv
  <2>4. g.cur.step = 0
    <3>1. CASE g.cur.err
      <4>1. wire[n].err  BY <1>6, <3>1 DEF Before
      <4> QED  BY <2>3, <4>1 DEF Shaped, Before
    <3> QED  BY <1>3, <1>4, <3>1
  <2>5. wire[n].state # "WAITING"
    BY <2>3, <2>4 DEF Shaped, Before, RecordAssumption
  <2>6. last' = Sent(g).cur  BY <2>5, LastAfter
  <2> QED  BY <1>3, <2>4, <2>6 DEF r
<1> QED  BY <1>4, <1>5, <1>6, <1>7 DEF FlagInv

LEMMA HandleTypes ==
  ASSUME TypeOK, StampInv', RecordAssumption, NEW n \in 1 .. Len(wire), NEW g \in Works,
         Before(n, g), After(n, g)
  PROVE  TypeOK'
<1> DEFINE r == Sent(g)
           F == [state : States, step : StepNos, err : BOOLEAN, code : {None, "module"}]
<1>1. info \in 0 .. MaxRuns /\ last.info \in 0 .. MaxRuns  BY DEF TypeOK
<1>2. Ready(g)  BY DEF Before
<1>3. r \in Works  BY <1>1, SentType
<1>4. /\ reCounter' = r.count /\ no_run_time' = r.nrt
      /\ info' = r.info /\ again' = r.again /\ m_error' = r.error
  BY DEF After
<1>5. wire' \in Seq(F)
  <2>1. wire \in Seq(F) /\ wire' = SubSeq(wire, n + 1, Len(wire))  BY DEF TypeOK, After
  <2> HIDE DEF F
  <2>2. Len(wire) \in Nat /\ \A i \in n + 1 .. Len(wire) : wire[i] \in F
    BY <2>1, LenProperties, ElementOfSeq
  <2> QED  BY <2>1, <2>2, SubSeqProperties
<1>6. last' \in [state : States, step : StepNos, err : BOOLEAN, info : 0 .. MaxRuns, off : 0 .. 2]
  <2>1. r.last \in Recs /\ r.cur \in Recs  BY <1>3 DEF Works
  <2>2. last' = IF r.cur.state = "WAITING" THEN r.last ELSE r.cur  BY DEF After
  <2> HIDE DEF r
  <2>3. last' \in Recs  BY <2>1, <2>2
  <2>4. last'.off \in 0 .. 2  BY DEF StampInv
  <2> QED  BY <2>3, <2>4 DEF Recs
<1>7. kept' \subseteq 0 .. 5
  BY DEF StampInv
<1>8. judged' \in [Batteries -> Seq([ok : BOOLEAN, reason : Reasons])]
  <2>1. judged \in [Batteries -> Seq(Judgements)]  BY DEF TypeOK, Judgements
  <2>2. judged' = [b \in Batteries |-> judged[b] \o
          SetToSeq({Judgement(v) : v \in {w \in VerdictOf(g) : w.info = b}})]
    BY DEF After
  <2>3. ASSUME NEW b \in Batteries
        PROVE  judged[b] \o SetToSeq({Judgement(v) : v \in {w \in VerdictOf(g) : w.info = b}})
                 \in Seq(Judgements)
    <3> DEFINE t == judged[b] \o SetToSeq({Judgement(v) : v \in {w \in VerdictOf(g) : w.info = b}})
    <3>1. judged[b] \in Seq(Judgements)  BY <2>1
    <3>2. /\ \A v \in VerdictOf(g) : v.info = b => v \in Verdicts /\ t = Append(judged[b], Judgement(v))
          /\ (\A v \in VerdictOf(g) : v.info # b) => t = judged[b]
      BY <1>1, <1>2, <3>1, JudgedAppend
    <3> HIDE DEF t
    <3>3. \A v \in Verdicts : Judgement(v) \in Judgements
      BY DEF Verdicts, Judgement, Judgements
    <3>4. CASE \E v \in VerdictOf(g) : v.info = b
      <4>1. PICK v \in VerdictOf(g) : v.info = b  BY <3>4
      <4>2. t = Append(judged[b], Judgement(v)) /\ Judgement(v) \in Judgements
        BY <4>1, <3>2, <3>3
      <4>3. t \in Seq(Judgements)  BY <4>2, <3>1, AppendProperties
      <4> QED  BY <4>3 DEF t
    <3>5. CASE \A v \in VerdictOf(g) : v.info # b
      <4>1. t = judged[b]  BY <3>2, <3>5
      <4> QED  BY <3>1, <4>1 DEF t
    <3> QED  BY <3>4, <3>5
  <2> QED  BY <2>2, <2>3 DEF Judgements
<1>9. /\ info' \in 0 .. MaxRuns /\ reCounter' \in 0 .. RecFreq /\ no_run_time' \in 0 .. NoRunLimit
      /\ again' \in BOOLEAN /\ m_error' \in Reasons
  BY <1>3, <1>4 DEF Works
<1>10. mod' \in [state : States, step : StepNos, err : BOOLEAN]
  <2>1. "NO_RUN" \in States /\ 0 \in StepNos  BY DEF States, StepNos, RecordAssumption
  <2> QED  BY <2>1 DEF After, TypeOK, Halted
<1>11. /\ bound' \in 0 .. MaxRuns /\ starts' \in 0 .. MaxStarts /\ stale' \subseteq Batteries
  BY DEF After, TypeOK
<1>12. /\ m_step_start_flag' \in BOOLEAN /\ start_read' \in BOOLEAN /\ ERC_happen' \in BOOLEAN
       /\ m_err_code' \in Reasons /\ m_last_error' \in {None, "module"}
       /\ alarm_mask' \subseteq Rules \cup {Temp} /\ alarms' \in 0 .. MaxAlarms
  BY DEF After
<1> QED  BY <1>5, <1>6, <1>7, <1>8, <1>9, <1>10, <1>11, <1>12 DEF TypeOK

\* The other actions: those of the cell's commands and of the module.
Others ==
  \/ TempTask
  \/ Bind \/ ReadStart \/ SendStart \/ Stop \/ ClearWarning \/ PinsAlarm
  \/ Tick \/ Progress \/ ModuleAlarm

\* The module's next state, and the frame that tells of it.
LEMMA ProgressFacts ==
  ASSUME TypeOK, FramesInv, RecordAssumption, Progress
  PROVE  /\ mod' \in [state : States, step : StepNos, err : BOOLEAN] /\ Shaped(mod')
         /\ ~mod'.err /\ wire' = Append(wire, Frame(mod', None))
<1>1. PICK f \in Follows(mod) : mod' = [mod EXCEPT !.state = f[1], !.step = f[2]]
  BY DEF Progress
<1>2. mod \in [state : States, step : StepNos, err : BOOLEAN] /\ Shaped(mod)
  BY DEF TypeOK, FramesInv
<1>3. mod.state # "NO_RUN" /\ ~mod.err
  BY <1>1, <1>2 DEF Follows, Shaped
<1>4. f[1] \in States /\ f[2] \in StepNos /\ f[1] # "START"
      /\ (f[1] = "NO_RUN" => f[2] = 0) /\ (f[1] \in {"RUNNING", "PAUSE", "WAITING"} => f[2] \in 1 .. Steps)
      /\ (f[1] = "FINISH" => f[2] = Steps + 1)
  <2>1. CASE mod.state = "START"
    BY <1>1, <2>1 DEF Follows, States, StepNos, RecordAssumption
  <2>2. CASE mod.state = "RUNNING"
    <3>1. mod.step \in 1 .. Steps  BY <1>2, <2>2 DEF Shaped
    <3>2. f \in {<<"PAUSE", mod.step>>, <<IF mod.step = Steps THEN "FINISH" ELSE "WAITING", mod.step + 1>>}
      BY <1>1, <2>2 DEF Follows
    <3>3. CASE f = <<"PAUSE", mod.step>>
      BY <3>1, <3>3 DEF States, StepNos, RecordAssumption
    <3>4. CASE f = <<IF mod.step = Steps THEN "FINISH" ELSE "WAITING", mod.step + 1>>
      BY <3>1, <3>4 DEF States, StepNos, RecordAssumption
    <3> QED  BY <3>2, <3>3, <3>4
  <2>3. CASE mod.state \in {"PAUSE", "WAITING"}
    <3>1. mod.step \in 1 .. Steps  BY <1>2, <2>3 DEF Shaped
    <3>2. f = <<"RUNNING", mod.step>>  BY <1>1, <2>3 DEF Follows
    <3> QED  BY <3>1, <3>2 DEF States, StepNos, RecordAssumption
  <2>4. CASE mod.state = "FINISH"
    BY <1>1, <2>4 DEF Follows, States, StepNos, RecordAssumption
  <2> QED  BY <1>2, <1>3, <2>1, <2>2, <2>3, <2>4 DEF States
<1>5. /\ mod' \in [state : States, step : StepNos, err : BOOLEAN]
      /\ mod'.state = f[1] /\ mod'.step = f[2] /\ ~mod'.err
  BY <1>1, <1>2, <1>3, <1>4
<1>6. wire' = Append(wire, Frame(mod', None))  BY DEF Progress
<1> QED  BY <1>4, <1>5, <1>6 DEF Shaped

LEMMA OthersTypes ==
  ASSUME TypeOK, FramesInv, RecordAssumption, Others
  PROVE  TypeOK'
<1> DEFINE M == [state : States, step : StepNos, err : BOOLEAN]
           F == [state : States, step : StepNos, err : BOOLEAN, code : {None, "module"}]
<1>1. /\ "NO_RUN" \in States /\ "START" \in States /\ 0 \in StepNos /\ 1 \in StepNos
      /\ 0 \in 0 .. NoRunLimit /\ RecFreq \in 0 .. RecFreq
      /\ {RecFreq, NoRunLimit, Steps} \subseteq Nat \ {0}
      /\ {MaxWire, MaxRuns, MaxStarts, MaxAlarms} \subseteq Nat
  BY DEF States, StepNos, RecordAssumption
<1>2. /\ info \in 0 .. MaxRuns /\ last.info \in 0 .. MaxRuns /\ alarms \in 0 .. MaxAlarms
      /\ alarm_mask \subseteq Rules \cup {Temp} /\ m_error \in Reasons /\ ERC_happen \in BOOLEAN
  BY DEF TypeOK
<1>3. Halted \in M  BY <1>1 DEF TypeOK, Halted
<1>4. \A c \in Codes : Reason(c) \in Reasons  BY <1>2, ReasonType
<1>5. wire \in Seq(F) /\ mod \in M  BY DEF TypeOK
<1>6. \A m \in M, c \in {None, "module"} : Append(wire, Frame(m, c)) \in Seq(F)
  <2>1. \A m \in M, c \in {None, "module"} : Frame(m, c) \in F  BY DEF Frame
  <2> HIDE DEF F, M
  <2> QED  BY <1>5, <2>1, AppendProperties
<1> HIDE DEF F, M
<1>7. CASE TempTask
  <2>1. Reason(Temp) \in Reasons  BY <1>4 DEF Codes
  <2>2. /\ alarms' \in 0 .. MaxAlarms /\ alarm_mask' \subseteq Rules \cup {Temp}
        /\ m_error' \in Reasons /\ ERC_happen' \in BOOLEAN
    <3>1. CASE /\ alarms < MaxAlarms /\ alarms' = alarms + 1
               /\ alarm_mask' = alarm_mask \cup {Temp} /\ m_error' = Reason(Temp) /\ ERC_happen' = TRUE
      <4>1. alarms' \in 0 .. MaxAlarms  BY <1>1, <1>2, <3>1
      <4> QED  BY <1>2, <2>1, <3>1, <4>1
    <3>2. CASE alarm_mask' = alarm_mask \ {Temp} /\ UNCHANGED <<m_error, ERC_happen, alarms>>
      BY <1>2, <3>2
    <3> QED  BY <1>7, <3>1, <3>2 DEF TempTask
  <2> QED  BY <1>7, <2>2 DEF TempTask, TypeOK, module, record, start, error, ghost
<1>8. CASE Bind
  <2>1. bound \in 0 .. MaxRuns /\ MaxRuns \in Nat /\ stale \subseteq Batteries
    BY <1>1 DEF TypeOK
  <2>2. bound < MaxRuns /\ bound' = bound + 1 /\ info' = bound' /\ stale' \subseteq stale \cup {bound'}
    BY <1>8 DEF Bind
  <2>3. bound' \in 1 .. MaxRuns /\ bound' \in 0 .. MaxRuns  BY <2>1, <2>2
  <2>4. bound' \in Batteries /\ info' \in 0 .. MaxRuns /\ stale' \subseteq Batteries
    BY <2>1, <2>2, <2>3 DEF Batteries
  <2>5. mod' \in M  BY <1>3, <1>8 DEF Bind
  <2> QED  BY <1>8, <2>3, <2>4, <2>5 DEF Bind, TypeOK, record, error, M
<1>9. CASE ReadStart
  <2>1. starts' \in 0 .. MaxStarts /\ stale' \subseteq Batteries
    <3>1. starts \in 0 .. MaxStarts /\ MaxStarts \in Nat /\ stale \subseteq Batteries
          /\ info \in 0 .. MaxRuns
      BY <1>1 DEF TypeOK
    <3>2. starts < MaxStarts /\ starts' = starts + 1 /\ stale' \subseteq stale \cup ({info} \ {0})
      BY <1>9 DEF ReadStart
    <3>3. starts' \in 0 .. MaxStarts  BY <3>1, <3>2
    <3>4. {info} \ {0} \subseteq Batteries  BY <3>1 DEF Batteries
    <3> QED  BY <3>1, <3>2, <3>3, <3>4
  <2>2. m_error' \in Reasons  BY <1>9, NoReasonType DEF ReadStart, ErrorReset
  <2> QED  BY <1>9, <2>1, <2>2 DEF ReadStart, TypeOK, module, record, start, error
<1>10. CASE SendStart
  <2>1. [state |-> "START", step |-> 1, err |-> FALSE] \in M  BY <1>1 DEF M
  <2>2. mod' \in M  BY <1>5, <1>10, <2>1 DEF SendStart
  <2>3. no_run_time' \in 0 .. NoRunLimit /\ reCounter' \in 0 .. RecFreq
        /\ {m_step_start_flag', start_read'} \subseteq BOOLEAN
    BY <1>1, <1>10 DEF SendStart
  <2>4. UNCHANGED <<wire, info, last, error, m_error, alarm_mask, ERC_happen, ghost, bounds>>
    BY <1>10 DEF SendStart
  <2> QED  BY <2>2, <2>3, <2>4 DEF TypeOK, error, ghost, bounds, M
<1>11. CASE Stop
  <2>1. mod' \in M  BY <1>3, <1>11 DEF Stop
  <2> QED  BY <1>11, <2>1 DEF Stop, TypeOK, ghost, record, error, M
<1>12. CASE ClearWarning
  <2>1. mod' \in M  BY <1>5, <1>12 DEF ClearWarning, M
  <2> QED  BY <1>12, <2>1, NoReasonType DEF ClearWarning, TypeOK, record, start, ghost, bounds, M
<1>13. CASE PinsAlarm
  <2>1. mod' \in M  BY <1>3, <1>13 DEF PinsAlarm
  <2>2. Reason("pins") \in Reasons  BY <1>4 DEF Codes
  <2>3. alarms' \in 0 .. MaxAlarms  BY <1>1, <1>2, <1>13 DEF PinsAlarm
  <2> QED  BY <1>13, <2>1, <2>2, <2>3 DEF PinsAlarm, TypeOK, record, error, ghost, M
<1>14. CASE Tick
  <2>1. wire' \in Seq(F)  BY <1>5, <1>6, <1>14 DEF Tick
  <2> QED  BY <1>14, <2>1 DEF Tick, ModuleOnly, TypeOK, record, start, error, ghost, F
<1>15. CASE Progress
  <2>1. mod' \in M /\ wire' = Append(wire, Frame(mod', None))  BY <1>15, ProgressFacts DEF M
  <2>2. wire' \in Seq(F)  BY <1>6, <2>1
  <2> QED  BY <1>15, <2>1, <2>2 DEF Progress, ModuleOnly, TypeOK, record, start, error, ghost, F, M
<1>16. CASE ModuleAlarm
  <2>1. mod' \in M  BY <1>1, <1>16 DEF ModuleAlarm, Idle, M
  <2>2. wire' \in Seq(F)  BY <1>6, <1>16, <2>1 DEF ModuleAlarm
  <2>3. alarms' \in 0 .. MaxAlarms  BY <1>1, <1>2, <1>16 DEF ModuleAlarm
  <2> QED  BY <1>16, <2>1, <2>2, <2>3 DEF ModuleAlarm, ModuleOnly, TypeOK, record, start, error, ghost, F, M
<1> QED  BY <1>7, <1>8, <1>9, <1>10, <1>11, <1>12, <1>13, <1>14, <1>15, <1>16 DEF Others

\* A frame more.
LEMMA FrameShapes ==
  ASSUME TypeOK, FramesInv, NEW m \in [state : States, step : StepNos, err : BOOLEAN], Shaped(m),
         NEW c \in {None, "module"}, wire' = Append(wire, Frame(m, c)), mod' = m, UNCHANGED last
  PROVE  FramesInv'
<1> DEFINE F == [state : States, step : StepNos, err : BOOLEAN, code : {None, "module"}]
<1>1. wire \in Seq(F)  BY DEF TypeOK
<1>2. Frame(m, c) \in F /\ Shaped(Frame(m, c))  BY DEF Frame, Shaped
<1> HIDE DEF F
<1>3. DOMAIN wire' = 1 .. Len(wire) + 1 /\ DOMAIN wire = 1 .. Len(wire) /\ Len(wire) \in Nat
  BY <1>1, <1>2, AppendProperties, LenProperties
<1>4. \A i \in DOMAIN wire' : wire'[i] = IF i \in DOMAIN wire THEN wire[i] ELSE Frame(m, c)
  BY <1>1, <1>2, <1>3, AppendProperties
<1>5. \A i \in DOMAIN wire' : Shaped(wire'[i])
  BY <1>2, <1>4 DEF FramesInv
<1> QED  BY <1>5 DEF FramesInv

LEMMA OthersFrames ==
  ASSUME TypeOK, FramesInv, RecordAssumption, Others
  PROVE  FramesInv'
<1>1. mod \in [state : States, step : StepNos, err : BOOLEAN] /\ Shaped(mod)
  BY DEF TypeOK, FramesInv
<1>2. Shaped(Halted)  BY <1>1 DEF Halted, Shaped
<1>3. CASE TempTask \/ ReadStart
  BY <1>3 DEF TempTask, ReadStart, FramesInv, module, record
<1>4. CASE Bind \/ Stop \/ PinsAlarm
  <2>1. mod' = Halted /\ UNCHANGED <<wire, last>>
    BY <1>4 DEF Bind, Stop, PinsAlarm, record
  <2> QED  BY <1>2, <2>1 DEF FramesInv
<1>5. CASE SendStart
  <2>1. Shaped([state |-> "START", step |-> 1, err |-> FALSE])  BY DEF Shaped, RecordAssumption
  <2>2. Shaped(mod')  BY <1>1, <1>5, <2>1 DEF SendStart
  <2> QED  BY <1>5, <2>2 DEF SendStart, FramesInv
<1>6. CASE ClearWarning
  <2>1. Shaped(mod')  BY <1>1, <1>6 DEF ClearWarning, Shaped
  <2> QED  BY <1>6, <2>1 DEF ClearWarning, FramesInv, record
<1>7. CASE Tick
  <2>1. wire' = Append(wire, Frame(mod, None)) /\ UNCHANGED <<mod, last>>
    BY <1>7 DEF Tick, ModuleOnly, record
  <2> QED  BY <1>1, <2>1, FrameShapes
<1>8. CASE Progress
  <2>1. UNCHANGED last  BY <1>8 DEF Progress, ModuleOnly, record
  <2> QED  BY <1>8, <2>1, ProgressFacts, FrameShapes
<1>9. CASE ModuleAlarm
  <2>1. mod' = [Idle EXCEPT !.err = TRUE] /\ wire' = Append(wire, Frame(mod', "module"))
        /\ UNCHANGED last
    BY <1>9 DEF ModuleAlarm, ModuleOnly, record
  <2>2. mod' = [state |-> "NO_RUN", step |-> 0, err |-> TRUE]  BY <2>1 DEF Idle
  <2>3. "NO_RUN" \in States /\ 0 \in StepNos  BY DEF States, StepNos, RecordAssumption
  <2>4. mod' \in [state : States, step : StepNos, err : BOOLEAN] /\ Shaped(mod')
    BY <2>2, <2>3 DEF Shaped
  <2> QED  BY <2>1, <2>4, FrameShapes
<1> QED  BY <1>3, <1>4, <1>5, <1>6, <1>7, <1>8, <1>9 DEF Others

LEMMA OthersFlags ==
  ASSUME TypeOK, FlagInv, Others
  PROVE  FlagInv'
<1>1. CASE TempTask
  BY <1>1 DEF TempTask, FlagInv, start, record
<1>2. CASE Bind \/ ReadStart \/ SendStart \/ Stop
  BY <1>2 DEF Bind, ReadStart, SendStart, Stop, FlagInv, start, record, ghost, bounds
<1>3. CASE ClearWarning \/ PinsAlarm
  BY <1>3 DEF ClearWarning, PinsAlarm, FlagInv, start, record, ghost, bounds
<1>4. CASE Tick \/ Progress \/ ModuleAlarm
  <2>1. UNCHANGED <<start, last, alarm_mask, ERC_happen, start_read>>
    BY <1>4 DEF Tick, Progress, ModuleAlarm, ModuleOnly, record
  <2> QED  BY <2>1 DEF FlagInv, start
<1> QED  BY <1>1, <1>2, <1>3, <1>4 DEF Others

LEMMA OthersStamps ==
  ASSUME StampInv, Others
  PROVE  StampInv'
<1>1. UNCHANGED <<again, last, kept>>
  BY DEF Others, TempTask, Bind, ReadStart, SendStart, Stop, ClearWarning, PinsAlarm, Tick, Progress,
         ModuleAlarm, ModuleOnly, record, ghost
<1> QED  BY <1>1 DEF StampInv

LEMMA BaseNext ==
  ASSUME RecordAssumption, BaseInv, [Next]_vars
  PROVE  BaseInv'
<1> USE DEF BaseInv
<1>1. CASE Handle
  <2>1. PICK n \in 1 .. Len(wire), g \in Works : Before(n, g) /\ After(n, g)
    BY <1>1, HandleFacts
  <2>2. StampInv'  BY <2>1, HandleStamps
  <2> QED  BY <2>1, <2>2, HandleTypes, HandleFrames, HandleFlags
<1>2. CASE Others
  BY <1>2, OthersTypes, OthersFrames, OthersFlags, OthersStamps
<1>3. CASE UNCHANGED vars
  <2>1. TypeOK'
    BY <1>3 DEF vars, module, record, start, error, ghost, bounds, TypeOK
  <2>2. FramesInv' /\ FlagInv' /\ StampInv'
    BY <1>3 DEF vars, module, record, start, error, ghost, bounds, FramesInv, FlagInv, StampInv
  <2> QED  BY <2>1, <2>2
<1> QED  BY <1>1, <1>2, <1>3 DEF Next, Others

\* Every variable of ChannelRecord keeps to its type.
THEOREM RecordTypes == Spec => []TypeOK
<1>1. Init => BaseInv  BY BaseInit, RecordAssumption
<1>2. BaseInv /\ [Next]_vars => BaseInv'  BY BaseNext, RecordAssumption
<1>3. BaseInv => TypeOK  BY DEF BaseInv
<1> QED  BY <1>1, <1>2, <1>3, PTL DEF Spec

\* No two of the records that are stored directly have the same time stamp.
THEOREM TimesApart == Spec => []StampsApart
<1>1. Init => BaseInv  BY BaseInit, RecordAssumption
<1>2. BaseInv /\ [Next]_vars => BaseInv'  BY BaseNext, RecordAssumption
<1>3. BaseInv => StampsApart  BY DEF BaseInv, StampInv, StampsApart
<1> QED  BY <1>1, <1>2, <1>3, PTL DEF Spec

-----------------------------------------------------------------------------
(* The module tells an alarm before its records carry the error.           *)

\* None of the frames of q from the i-th to the j-th tells an alarm.
Untold(q, i, j) == \A k \in i .. j : q[k].code = None
CodesInv ==
  /\ \A i, j \in DOMAIN wire : i < j /\ wire[j].err /\ Untold(wire, i + 1, j) => wire[i].err
  /\ \A j \in DOMAIN wire : wire[j].err /\ Untold(wire, 1, j) => last.step = 0
  /\ \A i \in DOMAIN wire : mod.err /\ Untold(wire, i + 1, Len(wire)) => wire[i].err
  /\ mod.err /\ Untold(wire, 1, Len(wire)) => last.step = 0

LEMMA HandleCodes ==
  ASSUME TypeOK, FramesInv, CodesInv, RecordAssumption, NEW n \in 1 .. Len(wire), NEW g \in Works,
         Before(n, g), After(n, g)
  PROVE  CodesInv'
<1> DEFINE F == [state : States, step : StepNos, err : BOOLEAN, code : {None, "module"}]
<1>1. wire \in Seq(F) /\ DOMAIN wire = 1 .. Len(wire) /\ Len(wire) \in Nat
  BY LenProperties DEF TypeOK
<1> HIDE DEF F
<1>2. wire' = SubSeq(wire, n + 1, Len(wire)) /\ mod' \in {mod, Halted}
  BY DEF After
<1>3. /\ Len(wire') = Len(wire) - n /\ DOMAIN wire' = 1 .. Len(wire) - n
      /\ \A i \in 1 .. Len(wire) - n : wire'[i] = wire[n + i]
  BY <1>1, <1>2, RestOf
<1>4. mod'.err = mod.err
  BY <1>2 DEF Halted, TypeOK
<1>5. \A i, j \in 0 .. Len(wire) - n : Untold(wire', i + 1, j) => Untold(wire, n + i + 1, n + j)
  <2> SUFFICES ASSUME NEW i \in 0 .. Len(wire) - n, NEW j \in 0 .. Len(wire) - n, Untold(wire', i + 1, j),
                      NEW k \in n + i + 1 .. n + j
               PROVE  wire[k].code = None
    BY DEF Untold
  <2>1. k - n \in i + 1 .. j /\ k - n \in 1 .. Len(wire) - n /\ n + (k - n) = k  BY <1>1, Shifted
  <2>2. wire'[k - n].code = None  BY <2>1 DEF Untold
  <2> QED  BY <1>3, <2>1, <2>2
<1>6. wire[n].err => last'.step = 0
  <2> SUFFICES ASSUME wire[n].err  PROVE last'.step = 0
    OBVIOUS
  <2>1. wire[n].state = "NO_RUN" /\ wire[n].step = 0  BY <1>1 DEF FramesInv, Shaped
  <2>2. last' = Sent(g).cur  BY <2>1, LastAfter
  <2>3. Sent(g).cur.step = g.cur.step  BY SentFacts DEF TypeOK, Before
  <2> QED  BY <2>1, <2>2, <2>3 DEF Before
<1>7. ASSUME NEW i \in DOMAIN wire', NEW j \in DOMAIN wire', i < j, wire'[j].err, Untold(wire', i + 1, j)
      PROVE  wire'[i].err
  <2>1. i \in 1 .. Len(wire) - n /\ j \in 1 .. Len(wire) - n  BY <1>3
  <2>2. i \in 0 .. Len(wire) - n /\ j \in 0 .. Len(wire) - n  BY <1>1, <2>1, Shifted
  <2>3. Untold(wire, n + i + 1, n + j)  BY <1>5, <1>7, <2>2
  <2>4. n + i \in DOMAIN wire /\ n + j \in DOMAIN wire /\ n + i < n + j
    BY <1>1, <1>7, <2>1, Shifted
  <2>5. wire'[i] = wire[n + i] /\ wire'[j] = wire[n + j]  BY <1>3, <2>1
  <2> QED  BY <1>7, <2>3, <2>4, <2>5 DEF CodesInv
<1>8. ASSUME NEW j \in DOMAIN wire', wire'[j].err, Untold(wire', 1, j)
      PROVE  last'.step = 0
  <2>1. j \in 1 .. Len(wire) - n  BY <1>3
  <2>2. j \in 0 .. Len(wire) - n /\ 0 \in 0 .. Len(wire) - n /\ 0 + 1 = 1 /\ n + 0 + 1 = n + 1
    BY <1>1, <2>1, Shifted
  <2>3. Untold(wire, n + 1, n + j)  BY <1>5, <1>8, <2>2
  <2>4. n \in DOMAIN wire /\ n + j \in DOMAIN wire /\ n < n + j  BY <1>1, <2>1, Shifted
  <2>5. wire'[j] = wire[n + j]  BY <1>3, <2>1
  <2>6. wire[n].err  BY <1>8, <2>3, <2>4, <2>5 DEF CodesInv
  <2> QED  BY <1>6, <2>6
<1>9. ASSUME NEW i \in DOMAIN wire', mod'.err, Untold(wire', i + 1, Len(wire'))
      PROVE  wire'[i].err
  <2>1. i \in 1 .. Len(wire) - n /\ Len(wire') = Len(wire) - n  BY <1>3
  <2>2. /\ i \in 0 .. Len(wire) - n /\ Len(wire) - n \in 0 .. Len(wire) - n
        /\ n + (Len(wire) - n) = Len(wire) /\ n + i \in DOMAIN wire
    BY <1>1, <2>1, Shifted
  <2>3. Untold(wire', i + 1, Len(wire) - n)  BY <1>9, <2>1
  <2>4. Untold(wire, n + i + 1, n + (Len(wire) - n))  BY <1>5, <2>2, <2>3
  <2>5. Untold(wire, n + i + 1, Len(wire))  BY <2>2, <2>4
  <2>6. wire'[i] = wire[n + i]  BY <1>3, <2>1
  <2> QED  BY <1>4, <1>9, <2>2, <2>5, <2>6 DEF CodesInv
<1>10. ASSUME mod'.err, Untold(wire', 1, Len(wire'))
       PROVE  last'.step = 0
  <2>1. Untold(wire', 1, Len(wire) - n)  BY <1>3, <1>10
  <2>2. /\ Len(wire) - n \in 0 .. Len(wire) - n /\ 0 \in 0 .. Len(wire) - n
        /\ 0 + 1 = 1 /\ n + 0 + 1 = n + 1 /\ n + (Len(wire) - n) = Len(wire) /\ n \in DOMAIN wire
    BY <1>1, Shifted
  <2>3. Untold(wire, n + 1, n + (Len(wire) - n))  BY <1>5, <2>1, <2>2
  <2>4. Untold(wire, n + 1, Len(wire))  BY <2>2, <2>3
  <2>5. wire[n].err  BY <1>4, <1>10, <2>2, <2>4 DEF CodesInv
  <2> QED  BY <1>6, <2>5
<1> QED  BY <1>7, <1>8, <1>9, <1>10 DEF CodesInv

\* A frame more: one with the error follows another one, or tells the alarm.
LEMMA FrameCodes ==
  ASSUME TypeOK, CodesInv, NEW m \in [state : States, step : StepNos, err : BOOLEAN],
         NEW c \in {None, "module"}, wire' = Append(wire, Frame(m, c)), mod' = m, UNCHANGED last,
         m.err /\ c = None => m = mod
  PROVE  CodesInv'
<1> DEFINE F == [state : States, step : StepNos, err : BOOLEAN, code : {None, "module"}]
           k == Len(wire) + 1
<1>1. wire \in Seq(F) /\ DOMAIN wire = 1 .. Len(wire) /\ Len(wire) \in Nat
  BY LenProperties DEF TypeOK
<1>2. Frame(m, c) \in F /\ Frame(m, c).err = m.err /\ Frame(m, c).code = c  BY DEF Frame
<1> HIDE DEF F
<1>3. /\ Len(wire') = k /\ DOMAIN wire' = 1 .. k /\ wire'[k] = Frame(m, c)
      /\ \A i \in 1 .. Len(wire) : wire'[i] = wire[i]
  BY <1>1, <1>2, AppendProperties, LenProperties
<1>4. \A i \in 1 .. k, j \in 0 .. Len(wire) : Untold(wire', i, j) => Untold(wire, i, j)
  BY <1>1, <1>3 DEF Untold
<1>5. \A i \in 1 .. k : Untold(wire', i, k) => c = None /\ Untold(wire, i, Len(wire))
  <2> SUFFICES ASSUME NEW i \in 1 .. k, Untold(wire', i, k)  PROVE c = None /\ Untold(wire, i, Len(wire))
    OBVIOUS
  <2>1. k \in i .. k /\ \A j \in i .. Len(wire) : j \in i .. k /\ j \in 1 .. Len(wire)  BY <1>1
  <2>2. wire'[k].code = None  BY <2>1 DEF Untold
  <2>3. \A j \in i .. Len(wire) : wire'[j].code = None  BY <2>1 DEF Untold
  <2> QED  BY <1>2, <1>3, <2>1, <2>2, <2>3 DEF Untold
<1>6. ASSUME NEW i \in DOMAIN wire', m.err, Untold(wire', i + 1, k), i # k
      PROVE  wire'[i].err
  <2>1. i + 1 \in 1 .. k /\ i \in 1 .. Len(wire)  BY <1>1, <1>3, <1>6
  <2>2. mod.err /\ Untold(wire, i + 1, Len(wire))  BY <1>5, <1>6, <2>1
  <2> QED  BY <1>1, <1>3, <2>1, <2>2 DEF CodesInv
<1>7. ASSUME m.err, Untold(wire', 1, k)
      PROVE  last'.step = 0
  <2>1. 1 \in 1 .. k  BY <1>1
  <2>2. mod.err /\ Untold(wire, 1, Len(wire))  BY <1>5, <1>7, <2>1
  <2> QED  BY <2>2 DEF CodesInv
<1>8. ASSUME NEW i \in DOMAIN wire', NEW j \in DOMAIN wire', i < j, wire'[j].err, Untold(wire', i + 1, j)
      PROVE  wire'[i].err
  <2>1. CASE j = k
    <3>1. m.err /\ i # k  BY <1>1, <1>2, <1>3, <1>8, <2>1
    <3> QED  BY <1>6, <1>8, <2>1, <3>1
  <2>2. CASE j # k
    <3>1. i \in 1 .. Len(wire) /\ j \in 1 .. Len(wire) /\ i + 1 \in 1 .. k /\ j \in 0 .. Len(wire)
      BY <1>1, <1>3, <1>8, <2>2
    <3>2. Untold(wire, i + 1, j)  BY <1>4, <1>8, <3>1
    <3> QED  BY <1>1, <1>3, <1>8, <3>1, <3>2 DEF CodesInv
  <2> QED  BY <2>1, <2>2
<1>9. ASSUME NEW j \in DOMAIN wire', wire'[j].err, Untold(wire', 1, j)
      PROVE  last'.step = 0
  <2>1. CASE j = k
    BY <1>2, <1>3, <1>7, <1>9, <2>1
  <2>2. CASE j # k
    <3>1. j \in 1 .. Len(wire) /\ 1 \in 1 .. k /\ j \in 0 .. Len(wire)  BY <1>1, <1>3, <2>2
    <3>2. Untold(wire, 1, j)  BY <1>4, <1>9, <3>1
    <3> QED  BY <1>1, <1>3, <1>9, <3>1, <3>2 DEF CodesInv
  <2> QED  BY <2>1, <2>2
<1>10. ASSUME NEW i \in DOMAIN wire', mod'.err, Untold(wire', i + 1, Len(wire'))
       PROVE  wire'[i].err
  <2>1. CASE i = k
    BY <1>2, <1>3, <1>10, <2>1
  <2>2. CASE i # k
    BY <1>3, <1>6, <1>10, <2>2
  <2> QED  BY <2>1, <2>2
<1>11. mod'.err /\ Untold(wire', 1, Len(wire')) => last'.step = 0
  BY <1>3, <1>7
<1> QED  BY <1>8, <1>9, <1>10, <1>11 DEF CodesInv

LEMMA OthersCodes ==
  ASSUME TypeOK, FramesInv, CodesInv, RecordAssumption, Others
  PROVE  CodesInv'
<1>1. mod \in [state : States, step : StepNos, err : BOOLEAN]  BY DEF TypeOK
<1>2. CASE Tick
  <2>1. wire' = Append(wire, Frame(mod, None)) /\ UNCHANGED <<mod, last>>
    BY <1>2 DEF Tick, ModuleOnly, record
  <2> QED  BY <1>1, <2>1, FrameCodes
<1>3. CASE Progress
  <2>1. UNCHANGED last  BY <1>3 DEF Progress, ModuleOnly, record
  <2> QED  BY <1>3, <2>1, ProgressFacts, FrameCodes
<1>4. CASE ModuleAlarm
  <2>1. mod' = [Idle EXCEPT !.err = TRUE] /\ wire' = Append(wire, Frame(mod', "module"))
        /\ UNCHANGED last
    BY <1>4 DEF ModuleAlarm, ModuleOnly, record
  <2>2. mod' = [state |-> "NO_RUN", step |-> 0, err |-> TRUE]  BY <2>1 DEF Idle
  <2>3. "NO_RUN" \in States /\ 0 \in StepNos  BY DEF States, StepNos, RecordAssumption
  <2>4. mod' \in [state : States, step : StepNos, err : BOOLEAN]
    BY <2>2, <2>3
  <2>5. "module" # None  BY DEF None
  <2> QED  BY <2>1, <2>4, <2>5, FrameCodes
<1>5. CASE TempTask \/ Bind \/ ReadStart \/ SendStart \/ Stop \/ ClearWarning \/ PinsAlarm
  <2>1. UNCHANGED <<wire, last>>
    BY <1>5 DEF TempTask, Bind, ReadStart, SendStart, Stop, ClearWarning, PinsAlarm, module, record
  <2>2. mod'.err => mod.err
    <3>1. Halted.err = mod.err  BY <1>1 DEF Halted
    <3>2. CASE TempTask \/ ReadStart
      BY <3>2 DEF TempTask, ReadStart, module
    <3>3. CASE Bind \/ Stop \/ PinsAlarm
      BY <3>1, <3>3 DEF Bind, Stop, PinsAlarm
    <3>4. CASE SendStart
      BY <3>4 DEF SendStart
    <3>5. CASE ClearWarning
      BY <1>1, <3>5 DEF ClearWarning
    <3> QED  BY <1>5, <3>2, <3>3, <3>4, <3>5
  <2>3. \A i, j : Untold(wire', i, j) <=> Untold(wire, i, j)  BY <2>1 DEF Untold
  <2> QED  BY <2>1, <2>2, <2>3 DEF CodesInv
<1> QED  BY <1>2, <1>3, <1>4, <1>5 DEF Others

-----------------------------------------------------------------------------
(* A battery is judged once.                                               *)

\* A last record that no verdict but one for an alarm of the module can follow.
Over(l) ==
  \/ l.state = "NO_RUN" /\ l.step = 0
  \/ l.state = "FINISH"
  \/ l.state = "NO_RUN" /\ l.err
JudgedInv ==
  /\ info <= bound /\ last.info <= bound
  /\ \A b \in Batteries :
       /\ b > bound => judged[b] = <<>>
       /\ judged[b] # <<>> => info # b
       /\ judged[b] # <<>> /\ last.info = b => Len(judged[b]) = 1 /\ Over(last)
       /\ FirstOnly(judged[b])

\* A verdict for an alarm of the module is given with the code that told the alarm.
LEMMA ToldCode ==
  ASSUME TypeOK, FramesInv, CodesInv, RecordAssumption, NEW n \in 1 .. Len(wire), NEW g \in Works,
         Before(n, g), Told(g)
  PROVE  wire[n].state = "NO_RUN" /\ g.error = Reason("module")
<1>1. n \in DOMAIN wire  BY LenProperties DEF TypeOK
<1>2. ~g.alarm /\ g.cur.err /\ g.last.step > 0 /\ g.cur.step = 0  BY DEF Told, ByModule
<1>3. wire[n].err /\ alarm_mask' = {}  BY <1>2 DEF Before
<1>4. wire[n].state = "NO_RUN"  BY <1>1, <1>3 DEF FramesInv, Shaped
<1>5. last.step # 0
  <2>1. g.last.step = last.step  BY <1>2 DEF Before
  <2> QED  BY <1>2, <2>1
<1>6. ~Untold(wire, 1, n)  BY <1>1, <1>3, <1>5 DEF CodesInv
<1>7. CodesIn(n) # {}  BY <1>6 DEF Untold, CodesIn
<1> QED  BY <1>3, <1>4, <1>7 DEF Before

\* A verdict takes the codes from the channel; what is kept as the last record is of the
\* battery that was bound, and is over.  A verdict on a record that is over is for an alarm
\* of the module.
LEMMA VerdictFacts ==
  ASSUME TypeOK, FramesInv, CodesInv, RecordAssumption, NEW n \in 1 .. Len(wire), NEW g \in Works,
         Before(n, g), After(n, g), NEW v \in VerdictOf(g)
  PROVE  /\ info' = 0 /\ last'.info = info /\ Over(last') /\ v.info \in {info, last.info}
         /\ v.info # info /\ Over(last) => ~v.ok /\ v.reason = Reason("module")
<1> DEFINE r == Sent(g)
<1>1. info \in 0 .. MaxRuns /\ last.info \in 0 .. MaxRuns  BY DEF TypeOK
<1>2. Ready(g)  BY DEF Before
<1>3. /\ r.cur.step = g.cur.step /\ r.cur.info = g.cur.info /\ r.cur.err = (g.cur.err \/ Idles(g))
      /\ r.cur.state = (IF Hit(g) THEN "NO_RUN" ELSE g.cur.state)
      /\ r.info = (IF Closes(g) THEN 0 ELSE g.info)
  BY <1>1, <1>2, SentFacts
<1>4. info' = r.info  BY DEF After
<1> HIDE DEF r
<1>5. n \in DOMAIN wire  BY LenProperties DEF TypeOK
<1>6. Shaped(wire[n])  BY <1>5 DEF FramesInv
<1>7. /\ g.cur.state = wire[n].state /\ g.cur.step = wire[n].step /\ g.cur.info = info
      /\ g.cur.err = (wire[n].err \/ alarm_mask' # {}) /\ g.alarm = (alarm_mask' # {})
      /\ g.last.info = last.info
  BY DEF Before
<1>8. Over(last) => Over(g.last)
  <2>1. CASE g.last.state = last.state /\ g.last.step = last.step
    BY <2>1 DEF Over, Before
  <2>2. CASE g.last.state = "NO_RUN" /\ g.last.step = 0
    BY <2>2 DEF Over
  <2> QED  BY <2>1, <2>2 DEF Before
<1>9. ASSUME wire[n].state # "WAITING" \/ Hit(g)
      PROVE  last' = r.cur
  BY <1>9, LastAfter DEF r
<1>10. CASE Idles(g)
  <2>1. v = Verdict(g.cur, FALSE, Reason(NoRun))  BY <1>10 DEF VerdictOf
  <2>2. g.cur.state = "NO_RUN" /\ g.cur.step = 0 /\ ~Hit(g)
    BY <1>2, <1>10, OneOutcome DEF Idles, Absent
  <2>3. last' = r.cur  BY <1>7, <1>9, <2>2
  <2> QED  BY <1>3, <1>4, <1>7, <1>10, <2>1, <2>2, <2>3 DEF Over, Verdict, Closes
<1>11. CASE ~Idles(g) /\ Finishes(g)
  <2>1. v = Verdict(g.last, TRUE, NoReason)  BY <1>11 DEF VerdictOf
  <2>2. g.cur.state = "FINISH" /\ ~Hit(g) /\ EndsRun(g)  BY <1>11 DEF Finishes, EndsRun, Hit
  <2>3. last' = r.cur  BY <1>7, <1>9, <2>2
  <2>4. ~Over(g.last)  BY <1>11 DEF Finishes, EndsStep, NextStep, Over
  <2> QED  BY <1>3, <1>4, <1>7, <1>8, <2>1, <2>2, <2>3, <2>4 DEF Over, Verdict, Closes
<1>12. CASE ~Idles(g) /\ ~Finishes(g) /\ Hit(g)
  <2>1. v = Verdict(g.cur, FALSE, g.error)  BY <1>12 DEF VerdictOf
  <2>2. last' = r.cur  BY <1>9, <1>12
  <2>3. r.cur.err  BY <1>2, <1>3, <1>12 DEF Ready, Hit, ByAlarm
  <2> QED  BY <1>3, <1>4, <1>7, <1>12, <2>1, <2>2, <2>3 DEF Over, Verdict, Closes
<1>13. CASE ~Idles(g) /\ ~Finishes(g) /\ ~Hit(g) /\ Told(g)
  <2>1. v = Verdict(g.last, FALSE, g.error)  BY <1>13 DEF VerdictOf
  <2>2. g.cur.err /\ g.cur.step = 0  BY <1>13 DEF Told, ByModule
  <2>3. wire[n].state = "NO_RUN" /\ g.error = Reason("module")  BY <1>13, ToldCode
  <2>4. last' = r.cur  BY <1>9, <2>3
  <2> QED  BY <1>3, <1>4, <1>7, <1>13, <2>1, <2>2, <2>3, <2>4 DEF Over, Verdict, Closes
<1>14. CASE ~Idles(g) /\ ~Finishes(g) /\ ~Hit(g) /\ ~Told(g) /\ Stopped(g)
  <2>1. v = Verdict(g.last, g.error = NoReason, g.error)  BY <1>14 DEF VerdictOf
  <2>2. g.last.state = "RUNNING" /\ g.cur.state = "NO_RUN" /\ g.cur.step = 0
    BY <1>14 DEF Stopped, ByStop, Ends
  <2>3. last' = r.cur  BY <1>7, <1>9, <2>2
  <2>4. ~Over(g.last)  BY <2>2 DEF Over
  <2> QED  BY <1>3, <1>4, <1>7, <1>8, <1>14, <2>1, <2>2, <2>3, <2>4 DEF Over, Verdict, Closes
<1>15. Idles(g) \/ Finishes(g) \/ Hit(g) \/ Told(g) \/ Stopped(g)
  BY DEF VerdictOf
<1> QED  BY <1>10, <1>11, <1>12, <1>13, <1>14, <1>15

\* The verdicts of one battery after a record.
LEMMA JudgedAfter ==
  ASSUME TypeOK, RecordAssumption, NEW n \in 1 .. Len(wire), NEW g \in Works, Before(n, g), After(n, g),
         NEW b \in Batteries
  PROVE  /\ judged[b] \in Seq(Judgements)
         /\ \/ judged'[b] = judged[b] /\ \A v \in VerdictOf(g) : v.info # b
            \/ \E v \in VerdictOf(g) : v.info = b /\ v \in Verdicts /\ judged'[b] = Append(judged[b], Judgement(v))
<1>1. info \in 0 .. MaxRuns /\ last.info \in 0 .. MaxRuns /\ Ready(g)  BY DEF TypeOK, Before
<1>2. judged[b] \in Seq(Judgements)  BY DEF TypeOK, Judgements
<1>3. judged'[b] = judged[b] \o SetToSeq({Judgement(v) : v \in {w \in VerdictOf(g) : w.info = b}})
  BY DEF After
<1> DEFINE t == judged[b] \o SetToSeq({Judgement(v) : v \in {w \in VerdictOf(g) : w.info = b}})
<1>4. /\ \A v \in VerdictOf(g) : v.info = b => v \in Verdicts /\ t = Append(judged[b], Judgement(v))
      /\ (\A v \in VerdictOf(g) : v.info # b) => t = judged[b]
  BY <1>1, <1>2, JudgedAppend
<1>5. judged'[b] = t  BY <1>3
<1> HIDE DEF t
<1> QED  BY <1>2, <1>4, <1>5

LEMMA HandleJudged ==
  ASSUME TypeOK, FramesInv, CodesInv, JudgedInv, RecordAssumption, NEW n \in 1 .. Len(wire),
         NEW g \in Works, Before(n, g), After(n, g)
  PROVE  JudgedInv'
<1>1. info \in 0 .. MaxRuns /\ last.info \in 0 .. MaxRuns /\ Ready(g)  BY DEF TypeOK, Before
<1>2. info' \in {0, info} /\ bound' = bound
  BY <1>1, SentFacts DEF After, Before
<1>3. last'.info \in {info, last.info}
      /\ (last'.info # info => last'.state = last.state /\ last'.step = last.step /\ last'.err = last.err)
  <2>1. Sent(g).cur.info = info  BY <1>1, SentFacts DEF Before
  <2>2. \/ last'.state = last.state /\ last'.step = last.step /\ last'.err = last.err /\ last'.info = last.info
        \/ last' = Sent(g).cur
    BY LastAfter
  <2> QED  BY <2>1, <2>2
<1>4. info' <= bound' /\ last'.info <= bound'
  <2>1. bound \in Nat /\ info \in Nat  BY DEF TypeOK
  <2>2. info <= bound /\ last.info <= bound  BY DEF JudgedInv
  <2> QED  BY <1>2, <1>3, <2>1, <2>2
<1>5. ASSUME NEW b \in Batteries
      PROVE  /\ b > bound' => judged'[b] = <<>>
             /\ judged'[b] # <<>> => info' # b
             /\ judged'[b] # <<>> /\ last'.info = b => Len(judged'[b]) = 1 /\ Over(last')
             /\ FirstOnly(judged'[b])
  <2>1. judged[b] \in Seq(Judgements)  BY JudgedAfter
  <2>2. b # 0 /\ b \in Nat  BY DEF Batteries
  <2>3. CASE judged'[b] = judged[b]
    <3>1. judged[b] # <<>> => info' # b  BY <1>2, <2>2 DEF JudgedInv
    <3>2. judged[b] # <<>> /\ last'.info = b => Len(judged[b]) = 1 /\ Over(last')
      <4>1. judged[b] # <<>> /\ last'.info = b => last'.info # info /\ last.info = b
        BY <1>3 DEF JudgedInv
      <4>2. Over(last) /\ last'.info # info => Over(last')  BY <1>3 DEF Over
      <4> QED  BY <4>1, <4>2 DEF JudgedInv
    <3> QED  BY <1>2, <2>3, <3>1, <3>2 DEF JudgedInv
  <2>4. CASE judged'[b] # judged[b]
    <3>1. PICK v \in VerdictOf(g) : v.info = b /\ v \in Verdicts /\ judged'[b] = Append(judged[b], Judgement(v))
      BY <2>4, JudgedAfter
    <3>2. Judgement(v) \in Judgements /\ Judgement(v).ok = v.ok /\ Judgement(v).reason = v.reason
      BY <3>1 DEF Verdicts, Judgement, Judgements
    <3>3. /\ Len(judged'[b]) = Len(judged[b]) + 1 /\ judged'[b][Len(judged[b]) + 1] = Judgement(v)
          /\ Len(judged[b]) \in Nat
      <4> DEFINE q == judged[b]
                 e == Judgement(v)
      <4>1. q \in Seq(Judgements) /\ e \in Judgements /\ judged'[b] = Append(q, e)
        BY <2>1, <3>1, <3>2
      <4> HIDE DEF q, e
      <4>2. Len(Append(q, e)) = Len(q) + 1 /\ Append(q, e)[Len(q) + 1] = e /\ Len(q) \in Nat
        BY <4>1, AppendProperties, LenProperties
      <4> QED  BY <4>1, <4>2 DEF q, e
    <3>4. /\ info' = 0 /\ last'.info = info /\ Over(last') /\ v.info \in {info, last.info}
          /\ v.info # info /\ Over(last) => ~v.ok /\ v.reason = Reason("module")
      BY VerdictFacts
    <3>5. ~(b > bound')
      <4>1. info <= bound /\ last.info <= bound /\ b \in {info, last.info}  BY <3>1, <3>4 DEF JudgedInv
      <4>2. bound \in Nat /\ info \in Nat /\ last.info \in Nat  BY DEF TypeOK
      <4> QED  BY <1>2, <4>1, <4>2
    <3>6. CASE judged[b] = <<>>
      <4>1. Len(judged'[b]) = 1  BY <3>3, <3>6
      <4> QED  BY <2>2, <3>4, <3>5, <4>1 DEF FirstOnly
    <3>7. CASE judged[b] # <<>>
      <4>1. info # b /\ last.info = b  BY <3>1, <3>4, <3>7 DEF JudgedInv
      <4>2. Len(judged[b]) = 1 /\ Over(last)  BY <3>7, <4>1 DEF JudgedInv
      <4>3. Len(judged'[b]) = 2 /\ judged'[b][2] = Judgement(v)  BY <3>3, <4>2
      <4>4. ~v.ok /\ v.reason.code = "module"  BY <3>1, <3>4, <4>1, <4>2 DEF Reason
      <4>5. FirstOnly(judged'[b])  BY <3>2, <4>3, <4>4 DEF FirstOnly
      <4> QED  BY <2>2, <3>4, <3>5, <4>1, <4>5
    <3> QED  BY <3>6, <3>7
  <2> QED  BY <2>3, <2>4
<1> QED  BY <1>4, <1>5 DEF JudgedInv

LEMMA OthersJudged ==
  ASSUME TypeOK, JudgedInv, RecordAssumption, Others
  PROVE  JudgedInv'
<1>1. CASE Bind
  <2>1. bound' = bound + 1 /\ info' = bound + 1 /\ UNCHANGED <<last, judged>>
    BY <1>1 DEF Bind, record
  <2>2. info \in Nat /\ bound \in Nat /\ last.info \in Nat  BY DEF TypeOK
  <2>3. info' <= bound' /\ last'.info <= bound'  BY <2>1, <2>2 DEF JudgedInv
  <2>4. ASSUME NEW b \in Batteries
        PROVE  (b > bound' => judged[b] = <<>>) /\ (judged[b] # <<>> => info' # b)
    <3>1. b \in Nat  BY DEF Batteries
    <3>2. b > bound => judged[b] = <<>>  BY DEF JudgedInv
    <3> QED  BY <2>1, <2>2, <3>1, <3>2
  <2> QED  BY <2>1, <2>3, <2>4 DEF JudgedInv
<1>2. CASE Others /\ ~Bind
  <2>1. UNCHANGED <<last, judged, bound, info>>
    BY <1>2 DEF Others, TempTask, ReadStart, SendStart, Stop, ClearWarning, PinsAlarm, Tick, Progress,
           ModuleAlarm, ModuleOnly, record, ghost, bounds
  <2> QED  BY <2>1 DEF JudgedInv
<1> QED  BY <1>1, <1>2

VerdictInv == BaseInv /\ CodesInv /\ JudgedInv

LEMMA VerdictInit ==
  ASSUME RecordAssumption, Init
  PROVE  VerdictInv
<1>1. BaseInv  BY BaseInit
<1>2. CodesInv
  BY EmptySeq DEF Init, CodesInv, Idle
<1>3. JudgedInv
  BY EmptySeq DEF Init, JudgedInv, FirstOnly, RecordAssumption
<1> QED  BY <1>1, <1>2, <1>3 DEF VerdictInv

LEMMA VerdictNext ==
  ASSUME RecordAssumption, VerdictInv, [Next]_vars
  PROVE  VerdictInv'
<1> USE DEF VerdictInv
<1>1. BaseInv'  BY BaseNext
<1>2. TypeOK /\ FramesInv /\ FlagInv  BY DEF BaseInv
<1>3. CASE Handle
  <2>1. PICK n \in 1 .. Len(wire), g \in Works : Before(n, g) /\ After(n, g)
    BY <1>2, <1>3, HandleFacts
  <2> QED  BY <1>1, <1>2, <2>1, HandleCodes, HandleJudged
<1>4. CASE Others
  BY <1>1, <1>2, <1>4, OthersCodes, OthersJudged
<1>5. CASE UNCHANGED vars
  <2>1. UNCHANGED <<mod, wire, last, info, bound, judged>>
    BY <1>5 DEF vars, module, record, ghost, bounds
  <2> QED  BY <1>1, <2>1 DEF CodesInv, JudgedInv
<1> QED  BY <1>3, <1>4, <1>5 DEF Next, Others

\* A battery has one verdict, and a second one only for an alarm of the module that was
\* heard after the first.
THEOREM JudgedOnce == Spec => []OneVerdict
<1>1. Init => VerdictInv  BY VerdictInit, RecordAssumption
<1>2. VerdictInv /\ [Next]_vars => VerdictInv'  BY VerdictNext, RecordAssumption
<1>3. VerdictInv => OneVerdict  BY DEF VerdictInv, JudgedInv, OneVerdict
<1> QED  BY <1>1, <1>2, <1>3, PTL DEF Spec

-----------------------------------------------------------------------------
(* A run whose end is reported is judged.                                  *)

\* Each of the five ways to a verdict has its own.
LEMMA Outcomes ==
  ASSUME NEW g \in Works, Ready(g), RecordAssumption
  PROVE  /\ Idles(g) => Verdict(g.cur, FALSE, Reason(NoRun)) \in VerdictOf(g)
         /\ Finishes(g) => Verdict(g.last, TRUE, NoReason) \in VerdictOf(g)
         /\ Hit(g) => Verdict(g.cur, FALSE, g.error) \in VerdictOf(g)
         /\ Told(g) => Verdict(g.last, FALSE, g.error) \in VerdictOf(g)
         /\ Stopped(g) => Verdict(g.last, g.error = NoReason, g.error) \in VerdictOf(g)
<1>1. /\ Idles(g) => ~EndsRun(g) /\ ~Hit(g) /\ ~Told(g) /\ ~Stopped(g)
      /\ EndsRun(g) => ~Hit(g) /\ ~Told(g) /\ ~Stopped(g)
      /\ ~(Hit(g) /\ Told(g)) /\ ~(Hit(g) /\ Stopped(g)) /\ ~(Told(g) /\ Stopped(g))
  BY OneOutcome
<1>2. Finishes(g) => EndsRun(g)  BY DEF Finishes
<1>3. Idles(g) => Verdict(g.cur, FALSE, Reason(NoRun)) \in VerdictOf(g)  BY DEF VerdictOf
<1>4. Finishes(g) => Verdict(g.last, TRUE, NoReason) \in VerdictOf(g)  BY <1>1, <1>2 DEF VerdictOf
<1>5. Hit(g) => Verdict(g.cur, FALSE, g.error) \in VerdictOf(g)  BY <1>1, <1>2 DEF VerdictOf
<1>6. Told(g) => Verdict(g.last, FALSE, g.error) \in VerdictOf(g)  BY <1>1, <1>2 DEF VerdictOf
<1>7. Stopped(g) => Verdict(g.last, g.error = NoReason, g.error) \in VerdictOf(g)
  BY <1>1, <1>2 DEF VerdictOf
<1> QED  BY <1>3, <1>4, <1>5, <1>6, <1>7

LEMMA HandleEnds ==
  ASSUME TypeOK, FramesInv, RecordAssumption, NEW n \in 1 .. Len(wire), NEW g \in Works,
         Before(n, g), After(n, g), NEW b \in Batteries,
         last.info = b, ~last.err, last.step # 0, judged' = judged
  PROVE  /\ info = b => info' # 0
         /\ last.state = "RUNNING" /\ alarm_mask' = {} => last'.state \notin {"NO_RUN", "FINISH"}
<1>1. info \in 0 .. MaxRuns /\ last.info \in 0 .. MaxRuns /\ last.step \in StepNos  BY DEF TypeOK
<1>2. Ready(g)  BY DEF Before
<1>3. \A v \in VerdictOf(g) : v.info # b
  <2>1. judged[b] \in Seq(Judgements)  BY JudgedAfter
  <2>2. ASSUME NEW v \in Verdicts, judged[b] = Append(judged[b], Judgement(v))  PROVE FALSE
    <3>1. Judgement(v) \in Judgements  BY DEF Verdicts, Judgement, Judgements
    <3>2. Len(judged[b]) = Len(judged[b]) + 1 /\ Len(judged[b]) \in Nat
      BY <2>1, <2>2, <3>1, AppendProperties, LenProperties
    <3> QED  BY <3>2
  <2> QED  BY <2>2, JudgedAfter
<1>4. /\ g.cur.state = wire[n].state /\ g.cur.step = wire[n].step /\ g.cur.info = info
      /\ g.info = info /\ g.last.info = b /\ g.last.err = last.err /\ g.alarm = (alarm_mask' # {})
  BY DEF Before
<1>5. ~Finishes(g) /\ ~Told(g) /\ ~Stopped(g)
  <2>1. Finishes(g) => Verdict(g.last, TRUE, NoReason).info # b  BY <1>2, <1>3, Outcomes
  <2>2. Told(g) => Verdict(g.last, FALSE, g.error).info # b  BY <1>2, <1>3, Outcomes
  <2>3. Stopped(g) => Verdict(g.last, g.error = NoReason, g.error).info # b
    BY <1>2, <1>3, Outcomes
  <2> QED  BY <1>4, <2>1, <2>2, <2>3 DEF Verdict
<1>6. info = b => ~Idles(g) /\ ~Hit(g)
  <2>1. Idles(g) => Verdict(g.cur, FALSE, Reason(NoRun)).info # b  BY <1>2, <1>3, Outcomes
  <2>2. Hit(g) => Verdict(g.cur, FALSE, g.error).info # b  BY <1>2, <1>3, Outcomes
  <2> QED  BY <1>4, <2>1, <2>2 DEF Verdict
<1>7. ~EndsRun(g)
  <2> SUFFICES ASSUME EndsRun(g)  PROVE FALSE
    OBVIOUS
  <2>1. NextStep(g) /\ g.cur.state = "FINISH"  BY DEF EndsRun
  <2>2. g.last.step # 0  BY <2>1 DEF Before
  <2>3. EndsStep(g)  BY <1>4, <2>1, <2>2 DEF EndsStep
  <2> QED  BY <1>5, <2>3 DEF Finishes
<1>8. info = b => info' # 0
  <2>1. info' = (IF Closes(g) THEN 0 ELSE g.info)
    <3>1. Sent(g).info = (IF Closes(g) THEN 0 ELSE g.info)  BY <1>1, <1>2, SentFacts
    <3> QED  BY <3>1 DEF After
  <2>2. info = b => ~Closes(g)  BY <1>5, <1>6, <1>7 DEF Closes
  <2>3. b # 0  BY DEF Batteries
  <2> QED  BY <1>4, <2>1, <2>2, <2>3
<1>9. ASSUME last.state = "RUNNING", alarm_mask' = {}, last'.state \in {"NO_RUN", "FINISH"}
      PROVE  FALSE
  <2>1. g.last.state = "RUNNING" /\ g.last.step = last.step  BY <1>9 DEF Before
  <2>2. last' = Sent(g).cur  BY <1>9, LastAfter
  <2>3. ~Hit(g)  BY <1>4, <1>9 DEF Hit, ByAlarm
  <2>4. last'.state = g.cur.state
    <3>1. Sent(g).cur.state = (IF Hit(g) THEN "NO_RUN" ELSE g.cur.state)  BY <1>1, <1>2, SentFacts
    <3> QED  BY <2>2, <2>3, <3>1
  <2>5. Shaped(wire[n])
    <3>1. n \in DOMAIN wire  BY LenProperties DEF TypeOK
    <3> QED  BY <3>1 DEF FramesInv
  <2>6. CASE g.cur.state = "NO_RUN"
    <3>1. g.cur.step = 0  BY <1>4, <2>5, <2>6 DEF Shaped
    <3>2. g.cur.err => Told(g)
      <4>1. g.last.step > 0  BY <1>1, <2>1 DEF StepNos, RecordAssumption
      <4> QED  BY <1>4, <1>9, <3>1, <4>1 DEF Told, ByModule
    <3>3. ~g.cur.err => Stopped(g)
      BY <1>7, <2>1, <2>6, <3>1 DEF Stopped, ByStop, Ends
    <3> QED  BY <1>5, <3>2, <3>3
  <2>7. CASE g.cur.state = "FINISH"
    <3>1. g.cur.step = Steps + 1  BY <1>4, <2>5, <2>7 DEF Shaped
    <3>2. last.step \in 1 .. Steps  BY <1>9 DEF FramesInv
    <3>3. g.cur.step # g.last.step  BY <2>1, <3>1, <3>2 DEF RecordAssumption
    <3>4. EndsRun(g)  BY <2>1, <2>7, <3>3 DEF EndsRun, NextStep, OfRun
    <3> QED  BY <1>7, <3>4
  <2> QED  BY <1>9, <2>4, <2>6, <2>7
<1> QED  BY <1>8, <1>9

\* The codes of a battery go with its verdict, and a run whose end is reported is judged.
THEOREM RunsJudged == Spec => EndJudged
<1> DEFINE A == \A b \in Batteries :
      last.info = b /\ ~last.err /\ last.step # 0 /\ judged' = judged =>
        /\ info = b => info' # 0
        /\ last.state = "RUNNING" /\ alarm_mask' = {} => last'.state \notin {"NO_RUN", "FINISH"}
<1>1. BaseInv /\ [Next]_vars => [A]_vars
  <2> SUFFICES ASSUME BaseInv, Next  PROVE A
    OBVIOUS
  <2>1. TypeOK /\ FramesInv /\ FlagInv  BY DEF BaseInv
  <2>2. CASE Handle
    <3>1. PICK n \in 1 .. Len(wire), g \in Works : Before(n, g) /\ After(n, g)
      BY <2>1, <2>2, HandleFacts, RecordAssumption
    <3> QED  BY <2>1, <3>1, HandleEnds, RecordAssumption
  <2>3. CASE Others
    <3>1. UNCHANGED last
      BY <2>3 DEF Others, Bind, TempTask, ReadStart, SendStart, Stop, ClearWarning, PinsAlarm, Tick,
             Progress, ModuleAlarm, ModuleOnly, record
    <3>2. Bind => info' # 0
      <4>1. bound \in Nat  BY <2>1 DEF TypeOK
      <4> QED  BY <4>1 DEF Bind
    <3>3. ~Bind => info' = info
      BY <2>3 DEF Others, TempTask, ReadStart, SendStart, Stop, ClearWarning, PinsAlarm, Tick,
             Progress, ModuleAlarm, ModuleOnly
    <3>4. \A b \in Batteries : b # 0  BY DEF Batteries
    <3> QED  BY <3>1, <3>2, <3>3, <3>4
  <2> QED  BY <2>2, <2>3 DEF Next, Others
<1>2. Init => BaseInv  BY BaseInit, RecordAssumption
<1>3. BaseInv /\ [Next]_vars => BaseInv'  BY BaseNext, RecordAssumption
<1> HIDE DEF A
<1>4. Spec => [][A]_vars  BY <1>1, <1>2, <1>3, PTL DEF Spec
<1> QED  BY <1>4 DEF EndJudged, A
=============================================================================
