----------------------------- MODULE StepRecipe -----------------------------
(***************************************************************************)
(* How the recipe of one channel is carried out in the grading build: the  *)
(* power module holds the step it runs and one more, and the cell gives it *)
(* the next one when a record shows that it has begun another             *)
(* (channel_step_execute).  Loops are steps of the recipe that send        *)
(* nothing; the cell counts their turns (loop_workstep_jump).  A module    *)
(* that has run dry says so, and the cell looks the step up from there;    *)
(* after a restart it goes on from the saved step and loop number.         *)
(*                                                                         *)
(* External: the power module, which runs the steps it is given, and the   *)
(* link, on which the records of a step's first seconds may be lost.  A    *)
(* run starts with step 1; the host jumps while a step is under way that   *)
(* the cell has seen begin.                                                *)
(* Module Cell has the rest of the process: the masks, stops, alarms.  The *)
(* running number StepSum, the protections and the record frequency of a   *)
(* step are left out.                                                      *)
(***************************************************************************)
EXTENDS Integers, Sequences, FiniteSets, SequencesExt

CONSTANTS
  Recipes,    \* the recipes, sequences of steps
  MaxLost,    \* bound: steps whose first records are lost
  MaxCrash,   \* bound: restarts
  MaxJumps    \* bound: jumps to another step

\* A step goes on to next, 0 if it is the last; one with turns is a Loop (CycleCount)
\* that goes back to from (CycleFrom).  Between two loops there is a step, and a loop is
\* of two steps or more: the code counts others wrong (README).
Works(r) == {i \in DOMAIN r : r[i].turns = 0}
IsStep(r, i) ==
  /\ r[i].next \in 0 .. Len(r)
  /\ i \notin Works(r) => r[i].from \in Works(r) /\ r[i].from < i - 1 /\ i - 1 \in Works(r)
ASSUME RecipeAssumption ==
  /\ Recipes \subseteq Seq([turns : Nat, from : Nat, next : Nat])
  /\ \A r \in Recipes : 1 \in Works(r) /\ \A i \in DOMAIN r : IsStep(r, i)
  /\ MaxLost \in Nat /\ MaxCrash \in Nat /\ MaxJumps \in Nat

VARIABLES
  recipe,
  active, StepNo, JumpTo, finish, LoopNo,  \* runStatus; finish is Finish
  loop_flag, loop_finish, loop_clear_delay,
  multiLoopStep,           \* the turns counted of a loop that was met
  m_state,                 \* is the cell in S_STEP_EXEC
  step_no, m_last_step_no, \* of the last record; of the last one that began a step
  stepcache_empty,         \* the module has said that it waits
  saved,                   \* the status file
  cmds,                    \* steps on their way to the module
  mod, cache, fresh,       \* the module: what it does; the step it holds ready; no record of its step seen yet
  ran, lost, crashes, jumps  \* the steps it has begun; faults so far

status == <<active, StepNo, JumpTo, finish, LoopNo, loop_flag, loop_finish, loop_clear_delay, multiLoopStep>>
reported == <<step_no, m_last_step_no, stepcache_empty>>
module == <<mod, cache, fresh, ran>>
vars == <<recipe, status, m_state, reported, saved, cmds, module, lost, crashes, jumps>>

Steps == 1 .. Len(recipe)
End == Len(recipe) + 1          \* the step that says there are no more
None == 0
NotSaved == [active |-> FALSE, StepNo |-> 0, JumpTo |-> 0, LoopNo |-> 0]

Init ==
  /\ recipe \in Recipes
  /\ active = FALSE /\ StepNo = 0 /\ JumpTo = 0 /\ finish = FALSE /\ LoopNo = 0
  /\ loop_flag = FALSE /\ loop_finish = FALSE /\ loop_clear_delay = 0 /\ multiLoopStep = <<>>
  /\ m_state = FALSE /\ step_no = 0 /\ m_last_step_no = 0 /\ stepcache_empty = FALSE
  /\ saved = NotSaved /\ cmds = <<>>
  /\ mod = [state |-> "idle", step |-> 0] /\ cache = None /\ fresh = FALSE
  /\ ran = <<>> /\ lost = 0 /\ crashes = 0 /\ jumps = 0

-----------------------------------------------------------------------------
(* The cell.                                                               *)

\* channel_step_execute has something to do.
DueFinish == active /\ m_state /\ finish      \* mutant
Due == active /\ m_state /\ (finish \/ stepcache_empty)

Set(i) == [to |-> "set", step |-> i]     \* CMD_SET_STEP
Go(i) == [to |-> "go", step |-> i]       \* EXEC_PROCESS, EXEC_JUMP

\* channel_step_startup and channel_step_active: EXEC_PROCESS begins with the first
\* step and forgets the loops, EXEC_JUMP goes on where the host says.
Active(i) ==
  /\ active' = TRUE /\ StepNo' = i /\ JumpTo' = recipe[i].next /\ finish' = FALSE
  /\ cmds' = cmds \o <<Set(i), Go(i)>> /\ m_state' = TRUE
  /\ UNCHANGED <<recipe, loop_flag, loop_finish, loop_clear_delay, module, lost, crashes>>
Start ==
  /\ mod.state = "idle" /\ ~active /\ crashes = 0 /\ Active(1)
  /\ LoopNo' = 0 /\ multiLoopStep' = <<>>
  /\ stepcache_empty' = FALSE /\ saved' = [saved EXCEPT !.active = TRUE]
  /\ UNCHANGED <<step_no, m_last_step_no, jumps>>
Jump ==
  /\ mod.state = "running" /\ ~fresh /\ cmds = <<>> /\ ~Due
  /\ active /\ m_state /\ jumps < MaxJumps /\ jumps' = jumps + 1
  /\ \E i \in Works(recipe) : Active(i)
  /\ saved' = [saved EXCEPT !.active = TRUE]
  /\ UNCHANGED <<LoopNo, multiLoopStep, reported>>

\* A module that has run dry: its step is looked up, and the one after it
\* (get_next_workstepNo).
Dry == stepcache_empty /\ ~finish
Here == IF Dry THEN step_no ELSE StepNo
AheadGiven == JumpTo     \* mutant
Ahead == IF Dry THEN recipe[step_no].next ELSE JumpTo

\* The loop number follows one step late, and is cleared one step after that.
ClearLoopNo == finish /\ loop_finish /\ loop_clear_delay <= 0
LoopNoEach == IF ClearLoopNo THEN 0 ELSE IF finish THEN LoopNo + 1 ELSE LoopNo     \* mutant
LoopNoNow == IF ClearLoopNo THEN 0 ELSE IF finish /\ loop_flag THEN LoopNo + 1 ELSE LoopNo

\* loop_workstep_jump: the turns of loop i, this one included.  A loop that was not met
\* yet while LoopNo is not 0 is taken for one from before a restart.
Known(i) == i \in DOMAIN multiLoopStep
Turn(i) == IF Known(i) THEN multiLoopStep[i] + 1 ELSE LoopNoNow + 1
Counted(i, n) == [k \in DOMAIN multiLoopStep \cup {i} |-> IF k = i THEN n ELSE multiLoopStep[k]]
CountKept(i, n) == multiLoopStep' = Counted(i, Turn(i))     \* mutant
SetCount(i, n) == multiLoopStep' = Counted(i, n)

\* A work step, found ahead or by going round a loop, is given to the module.
Give(i, flag) ==
  /\ StepNo' = i /\ JumpTo' = recipe[i].next
  /\ finish' = FALSE
  /\ cmds' = Append(cmds, Set(i))
  /\ LoopNo' = LoopNoNow /\ loop_flag' = (flag \/ (loop_flag /\ ~finish))
  /\ loop_finish' = (loop_finish /\ ~ClearLoopNo)
  /\ loop_clear_delay' = IF finish /\ loop_finish THEN loop_clear_delay - 1 ELSE loop_clear_delay
  /\ UNCHANGED active
NextStep ==
  /\ Ahead \in Works(recipe) /\ Give(Ahead, FALSE) /\ UNCHANGED multiLoopStep
NextTurn ==
  /\ Ahead \in Steps \ Works(recipe) /\ Turn(Ahead) < recipe[Ahead].turns
  /\ SetCount(Ahead, Turn(Ahead)) /\ Give(recipe[Ahead].from, TRUE)
\* The loop is done: nothing is sent, and finish stays for the next pass.
LeaveLoop ==
  /\ Ahead \in Steps \ Works(recipe) /\ Turn(Ahead) >= recipe[Ahead].turns
  /\ SetCount(Ahead, 0)
  /\ StepNo' = Ahead /\ JumpTo' = recipe[Ahead].next
  /\ LoopNo' = LoopNoNow /\ loop_flag' = (loop_flag /\ ~finish)
  /\ loop_finish' = (JumpTo' > 0 \/ (loop_finish /\ ~ClearLoopNo))
  /\ loop_clear_delay' = IF JumpTo' > 0 THEN 1
                         ELSE IF finish /\ loop_finish THEN loop_clear_delay - 1 ELSE loop_clear_delay
  /\ UNCHANGED <<active, finish, cmds>>
SendEnd ==
  /\ Ahead = 0 /\ StepNo' = Here /\ JumpTo' = -1 /\ finish' = FALSE
  /\ cmds' = Append(cmds, Set(End))
  /\ UNCHANGED <<active, LoopNo, loop_flag, loop_finish, loop_clear_delay, multiLoopStep>>
Completed ==
  /\ Ahead < 0 /\ active' = FALSE /\ StepNo' = 0 /\ JumpTo' = 0 /\ finish' = FALSE
  /\ LoopNo' = 0 /\ loop_flag' = FALSE /\ loop_finish' = FALSE /\ loop_clear_delay' = 0
  /\ UNCHANGED <<multiLoopStep, cmds>>

\* channel_step_execute; update_saveStatus_stepinfo
Execute ==
  /\ Due
  /\ IF Dry /\ step_no = 0 THEN UNCHANGED <<status, cmds, saved>>
     ELSE /\ NextStep \/ NextTurn \/ LeaveLoop \/ SendEnd \/ Completed
          /\ saved' = IF finish' THEN saved
                      ELSE [active |-> active', StepNo |-> StepNo', JumpTo |-> JumpTo', LoopNo |-> LoopNo']
  /\ stepcache_empty' = FALSE
  /\ UNCHANGED <<recipe, m_state, step_no, m_last_step_no, module, lost, crashes, jumps>>

\* ack_process_data_reply, charge_discharge_check: a record of the step's first seconds,
\* or a later one.
Record ==
  /\ mod.state # "idle" /\ (mod.state = "waiting" => cmds = <<>> /\ ~Due)
  /\ step_no' = mod.step /\ fresh' = FALSE
  /\ m_last_step_no' = IF fresh \/ mod.state = "waiting" THEN mod.step ELSE m_last_step_no
  /\ finish' = (finish \/ (fresh /\ mod.step # m_last_step_no))
  /\ stepcache_empty' = (stepcache_empty \/ mod.state = "waiting")
  /\ m_state' = (m_state \/ mod.state = "running")
  /\ UNCHANGED <<recipe, active, StepNo, JumpTo, LoopNo, loop_flag, loop_finish, loop_clear_delay,
                 multiLoopStep, saved, cmds, mod, cache, ran, lost, crashes, jumps>>

\* work_logic_init after a restart.  It takes longer than the first seconds of a step.
Restart ==
  /\ crashes < MaxCrash /\ crashes' = crashes + 1
  /\ active' = saved.active /\ StepNo' = saved.StepNo /\ JumpTo' = saved.JumpTo
  /\ LoopNo' = saved.LoopNo /\ finish' = FALSE
  /\ loop_flag' = FALSE /\ loop_finish' = FALSE /\ loop_clear_delay' = 0 /\ multiLoopStep' = <<>>
  /\ m_state' = FALSE /\ step_no' = 0 /\ m_last_step_no' = 0 /\ stepcache_empty' = FALSE
  /\ cmds' = <<>> /\ fresh' = FALSE
  /\ UNCHANGED <<recipe, saved, mod, cache, ran, lost, jumps>>

-----------------------------------------------------------------------------
(* External: the power module and the link.                                *)

Begin(i) ==
  /\ mod' = [state |-> IF i = End THEN "finish" ELSE "running", step |-> i] /\ fresh' = TRUE
  /\ ran' = Append(ran, i)
Environment == UNCHANGED <<recipe, status, m_state, reported, saved, crashes, jumps>>

Take ==
  /\ cmds # <<>> /\ cmds' = Tail(cmds)
  /\ LET m == Head(cmds)
     IN  \/ m.to = "go" /\ Begin(m.step) /\ cache' = None
         \/ m.to = "set" /\ mod.state = "waiting" /\ Begin(m.step) /\ cache' = None
         \/ m.to = "set" /\ mod.state = "running" /\ cache' = m.step /\ UNCHANGED <<mod, fresh, ran>>
         \/ m.to = "set" /\ mod.state \in {"idle", "finish"} /\ UNCHANGED <<mod, cache, fresh, ran>>
  /\ Environment /\ UNCHANGED lost

\* A step takes seconds: the cell has acted on its records.
StepOver ==
  /\ mod.state = "running" /\ ~fresh /\ cmds = <<>> /\ ~Due
  /\ cache' = None
  /\ IF cache = None THEN mod' = [mod EXCEPT !.state = "waiting"] /\ UNCHANGED <<fresh, ran>> ELSE Begin(cache)
  /\ Environment /\ UNCHANGED <<cmds, lost>>

Lose ==
  /\ mod.state = "running" /\ fresh /\ fresh' = FALSE /\ lost < MaxLost /\ lost' = lost + 1
  /\ Environment /\ UNCHANGED <<cmds, mod, cache, ran>>

Next == Start \/ Jump \/ Execute \/ Record \/ Restart \/ Take \/ StepOver \/ Lose

Spec == Init /\ [][Next]_vars
FairSpec == Spec /\ WF_vars(Start) /\ WF_vars(Execute) /\ WF_vars(Record) /\ WF_vars(Take) /\ SF_vars(StepOver)

-----------------------------------------------------------------------------
(* Properties                                                              *)

\* The recipes whose steps stand in the order in which they are run.
InARow == \A r \in Recipes : \A i \in DOMAIN r : r[i].next \in {i + 1, None}
\* Those that end with their last step and nowhere else.
ToTheEnd == \A r \in Recipes : \A i \in DOMAIN r : r[i].next = None => i = Len(r)
NoFault == lost = 0 /\ crashes = 0 /\ jumps = 0
Times(s, i) == Cardinality({k \in DOMAIN s : s[k] = i})

\* The reference: the step that comes after the steps s of recipe r.  A loop goes back
\* until its last step has been run as often as the loop says, each time the loop is
\* come to; an outer loop comes to it anew.
Following(r, s) ==
  LET i == Last(s)
      p == r[i].next
      Onto(q) == IF q = None THEN Len(r) + 1 ELSE q
  IN  IF p = None \/ p \in Works(r) THEN Onto(p)
      ELSE IF Times(s, i) % r[p].turns # 0 THEN r[p].from ELSE Onto(r[p].next)

\* Undisturbed, the module runs the recipe as it is written, the steps of nested and of
\* successive loops as often as they say: the counts that loop_workstep_jump keeps start
\* anew with each outer turn.
AsWritten ==
  NoFault => \A k \in DOMAIN ran : ran[k] = IF k = 1 THEN 1 ELSE Following(recipe, SubSeq(ran, 1, k - 1))

\* With one loop at most, no restart and no lost record makes the module run a step less
\* often than the recipe says: the saved LoopNo stands in for the lost count.
NoneMissing ==
  mod.state = "finish" /\ jumps = 0 /\ (\A k, l \in Steps \ Works(recipe) : k = l) =>
    /\ \A i \in Works(recipe) : Times(ran, i) >= 1
    /\ \A l \in Steps \ Works(recipe) : \A i \in recipe[l].from .. l - 1 : Times(ran, i) >= recipe[l].turns

\* Whatever is lost, the module goes from a step only to one the recipe allows after it:
\* the step, or a further turn of the loop, that comes after none or some loops whose
\* turns are over.  A jump is not saved, so a restart after it is left out.
JumpSaved == jumps = 0 \/ crashes = 0
Jumping == \E k \in DOMAIN cmds : cmds[k].to = "go"
Passed(r, p) ==
  LET places == DOMAIN r \cup {None}
      Closed(C) == \A l \in C \ (Works(r) \cup {None}) : r[l].next \in C
  IN  {q \in places : \A C \in SUBSET places : p \in C /\ Closed(C) => q \in C}
LeadsTo(r, p) == IF p = None THEN Len(r) + 1 ELSE IF p \in Works(r) THEN p ELSE r[p].from
After(r, i) == {LeadsTo(r, p) : p \in Passed(r, r[i].next)}
Follows ==
  [][ran' # ran /\ ran # <<>> /\ JumpSaved /\ ~Jumping => Last(ran') \in After(recipe, Last(ran))]_vars

\* The module gets to the end of the recipe: a step whose begin or whose command was lost
\* is made up for when the module runs dry.  After a restart the cell does nothing until
\* it sees the module run.
Ends == active /\ m_state ~> mod.state = "finish" \/ ~m_state \/ ~JumpSaved
=============================================================================
