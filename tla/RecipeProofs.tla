--------------------------- MODULE RecipeProofs ---------------------------
(***************************************************************************)
(* Theorems about StepRecipe: from a step the module goes only to one that *)
(* the recipe allows after it, whatever records are lost and whenever the  *)
(* cell restarts; undisturbed it never waits for a step and runs the       *)
(* recipe as it is written; disturbed, with one loop, it runs no step less *)
(* often than it should.                                                   *)
(*                                                                         *)
(* The argument for the first: the module begins a step only from its      *)
(* cache, from a command while it waits, or by EXEC_PROCESS or EXEC_JUMP.  *)
(* The first two are given by the cell for the step that is under way,     *)
(* because finish, which lets the cell go on, stands only for the begin of *)
(* that step, and a module that waits is asked for its step (Dry).         *)
(* FlowInv says how JumpTo, the queue, the cache and the saved status      *)
(* agree on the step that is under way, at each moment of this.  On top of *)
(* it come the counts of a loop: exact where nothing is disturbed          *)
(* (CountInv, WrittenInv), never too high where something is (MissInv).    *)
(***************************************************************************)
EXTENDS StepRecipe, FiniteSetTheorems, SequenceTheorems, TLAPS

Going(i) == cmds = <<Set(i), Go(i)>> \/ cmds = <<Go(i)>>
\* What JumpTo is once step i has been given.
Onward(r, i) == IF i = Len(r) + 1 THEN -1 ELSE r[i].next

RecipeTypes ==
  /\ finish \in BOOLEAN /\ fresh \in BOOLEAN /\ stepcache_empty \in BOOLEAN
  /\ mod \in [state : {"idle", "running", "waiting", "finish"}, step : Nat]
  /\ cache \in Works(recipe) \cup {None, End}
  /\ ran \in Seq(Nat)

\* What the module does is the last step it has begun.
UnderWay ==
  /\ mod.state = "idle" => ran = <<>> /\ mod.step = 0 /\ cache = None /\ ~fresh /\ ~finish /\ ~stepcache_empty
  /\ mod.state # "idle" => ran # <<>> /\ mod.step = Last(ran)
  /\ mod.state \in {"running", "waiting"} => mod.step \in Works(recipe)
  /\ mod.state = "finish" => mod.step = End

\* A start or a jump is on its way: nothing else happens until it is there.
GoingOn ==
  /\ active /\ ~finish /\ ~fresh /\ ~stepcache_empty
  /\ mod.state = "idle" \/ (mod.state = "running" /\ jumps > 0)
  /\ \E i \in Works(recipe) : Going(i) /\ JumpTo = recipe[i].next

\* The step that was given follows the one under way, and JumpTo is the one after it,
\* in the status file too.
Given(g) ==
  /\ g \in After(recipe, mod.step) /\ JumpTo = Onward(recipe, g) /\ saved.JumpTo = JumpTo
  /\ ~finish /\ ~fresh /\ ~stepcache_empty
Queued ==
  cmds # <<>> =>
    /\ mod.state \in {"running", "waiting"} /\ cache = None
    /\ \E g \in Works(recipe) \cup {End} : cmds = <<Set(g)>> /\ Given(g)
Cached == cache # None => mod.state = "running" /\ cmds = <<>> /\ Given(cache)

\* The begin of the step under way is to be reported, or acted on.
Begun ==
  /\ finish => ~fresh
  /\ finish \/ fresh =>
       IF mod.step = End THEN JumpTo = -1 ELSE JumpTo \in Passed(recipe, recipe[mod.step].next)
\* The module has run dry.
RunDry == stepcache_empty => mod.state = "waiting" /\ step_no = mod.step /\ ~fresh

FlowInv ==
  /\ RecipeTypes /\ UnderWay
  /\ Jumping => GoingOn
  /\ ~Jumping => Queued /\ Cached /\ Begun /\ RunDry
FollowInv == recipe \in Recipes /\ crashes \in Nat /\ jumps \in Nat /\ (JumpSaved => FlowInv)

-----------------------------------------------------------------------------
(* A recipe, and what comes after a step.                                  *)

LEMMA RecipeFacts ==
  ASSUME NEW r \in Recipes
  PROVE  /\ Len(r) \in Nat /\ DOMAIN r = 1 .. Len(r) /\ 1 \in Works(r) /\ Works(r) \subseteq DOMAIN r
         /\ \A i \in DOMAIN r : r[i].next \in DOMAIN r \cup {None}
         /\ \A i \in DOMAIN r \ Works(r) : r[i].from \in Works(r)
         /\ Len(r) + 1 \notin DOMAIN r \cup {None, -1} /\ None \notin DOMAIN r /\ -1 \notin DOMAIN r \cup {None}
<1>1. r \in Seq([turns : Nat, from : Nat, next : Nat]) /\ 1 \in Works(r) /\ \A i \in DOMAIN r : IsStep(r, i)
  BY RecipeAssumption
<1>2. Len(r) \in Nat /\ DOMAIN r = 1 .. Len(r)
  BY <1>1
<1> QED  BY <1>1, <1>2 DEF IsStep, Works, None

LEMMA PassedFacts ==
  ASSUME NEW r \in Recipes, NEW p \in DOMAIN r \cup {None}
  PROVE  /\ p \in Passed(r, p) /\ Passed(r, p) \subseteq DOMAIN r \cup {None}
         /\ \A q \in Passed(r, p) : q \in DOMAIN r \ Works(r) => r[q].next \in Passed(r, p)
<1>1. p \in Passed(r, p) /\ Passed(r, p) \subseteq DOMAIN r \cup {None}
  BY DEF Passed
<1>2. ASSUME NEW q \in Passed(r, p), q \in DOMAIN r \ Works(r)
      PROVE  r[q].next \in Passed(r, p)
  BY <1>2, RecipeFacts DEF Passed
<1> QED  BY <1>1, <1>2

LEMMA AfterTypes ==
  ASSUME NEW r \in Recipes, NEW i \in DOMAIN r
  PROVE  After(r, i) \subseteq Works(r) \cup {Len(r) + 1}
BY RecipeFacts, PassedFacts DEF After, LeadsTo

\* What the cell finds ahead, on the way on from step i, and gives.
LEMMA GivenAfter ==
  ASSUME NEW r \in Recipes, NEW i \in DOMAIN r, NEW p \in Passed(r, r[i].next)
  PROVE  /\ p \in Works(r) => p \in After(r, i)
         /\ p \in DOMAIN r \ Works(r) => r[p].from \in After(r, i) /\ r[p].next \in Passed(r, r[i].next)
         /\ p = None => Len(r) + 1 \in After(r, i)
<1>1. LeadsTo(r, p) \in After(r, i)
  BY DEF After
<1>2. p \in DOMAIN r \ Works(r) => r[p].next \in Passed(r, r[i].next)
  BY RecipeFacts, PassedFacts
<1> QED  BY <1>1, <1>2, RecipeFacts DEF LeadsTo

LEMMA RecipeInit == Init => FollowInv
<1> SUFFICES ASSUME Init PROVE FollowInv
  OBVIOUS
<1>1. recipe \in Recipes /\ cmds = <<>>
  BY DEF Init
<1>2. ~Jumping
  BY <1>1 DEF Jumping
<1>3. RecipeTypes
  <2>1. mod \in [state : {"idle", "running", "waiting", "finish"}, step : Nat]
    BY DEF Init
  <2>2. ran \in Seq(Nat) /\ cache = None
    BY DEF Init
  <2> QED  BY <2>1, <2>2 DEF Init, RecipeTypes
<1> QED  BY <1>1, <1>2, <1>3 DEF Init, FollowInv, UnderWay, FlowInv, Queued, Cached, Begun, RunDry

-----------------------------------------------------------------------------
(* The steps of the cell.                                                  *)

LEMMA Steady ==
  ASSUME crashes \in Nat, jumps \in Nat, [Next]_vars
  PROVE  UNCHANGED recipe /\ crashes' \in {crashes, crashes + 1} /\ jumps' \in {jumps, jumps + 1}
<1>1. CASE Start
  BY <1>1 DEF Start, Active
<1>2. CASE Jump
  BY <1>2 DEF Jump, Active
<1>3. CASE Execute \/ Record
  BY <1>3 DEF Execute, Record
<1>4. CASE Restart
  BY <1>4 DEF Restart
<1>5. CASE Take \/ StepOver \/ Lose
  BY <1>5 DEF Take, StepOver, Lose, Environment
<1>6. CASE UNCHANGED vars
  BY <1>6 DEF vars
<1> QED  BY <1>1, <1>2, <1>3, <1>4, <1>5, <1>6 DEF Next

\* A step that keeps FlowInv where no jump is lost keeps FollowInv.
LEMMA WhileSaved ==
  ASSUME FollowInv, [Next]_vars, JumpSaved /\ FlowInv => (JumpSaved => FlowInv)'
  PROVE  FollowInv'
<1>1. UNCHANGED recipe /\ crashes' \in {crashes, crashes + 1} /\ jumps' \in {jumps, jumps + 1}
  BY Steady DEF FollowInv
<1>2. JumpSaved' => JumpSaved
  BY <1>1 DEF FollowInv, JumpSaved
<1> QED  BY <1>1, <1>2 DEF FollowInv

LEMMA WorksFacts ==
  ASSUME recipe \in Recipes, UnderWay
  PROVE  /\ Steps = DOMAIN recipe /\ End \notin DOMAIN recipe \cup {None, -1} /\ 0 \notin Works(recipe)
         /\ Works(recipe) \subseteq Nat /\ End \in Nat
         /\ mod.step \in Works(recipe) => mod.state \in {"running", "waiting"} \/ mod.state \notin {"idle", "finish"}
BY RecipeFacts DEF Steps, End, UnderWay, None

\* What the cell finds ahead when it has something to do.
LEMMA AheadFacts ==
  ASSUME recipe \in Recipes, FlowInv, Due
  PROVE  /\ cmds = <<>> /\ cache = None /\ ~fresh /\ ~Jumping
         /\ \/ mod.step = End /\ finish /\ Ahead = -1
            \/ /\ mod.step \in Works(recipe) /\ mod.state \in {"running", "waiting"}
               /\ Ahead \in Passed(recipe, recipe[mod.step].next)
<1>1. finish \/ stepcache_empty
  BY DEF Due
<1>2. ~Jumping
  BY <1>1 DEF FlowInv, GoingOn
<1>3. Queued /\ Cached /\ Begun /\ RunDry /\ RecipeTypes /\ UnderWay
  BY <1>2 DEF FlowInv
<1>4. cmds = <<>> /\ cache = None
  BY <1>1, <1>3 DEF Queued, Cached, Given
<1>5. ~fresh
  BY <1>1, <1>3 DEF Begun, RunDry
<1>6. CASE finish
  <2>1. Ahead = JumpTo
    BY <1>6 DEF Ahead, Dry
  <2>2. CASE mod.step = End
    BY <1>2, <1>3, <1>4, <1>5, <1>6, <2>1, <2>2 DEF Begun
  <2>3. CASE mod.step # End
    <3>1. mod.state \in {"running", "waiting"} /\ mod.step \in Works(recipe)
      BY <1>3, <1>6, <2>3 DEF UnderWay, RecipeTypes
    <3>2. JumpTo \in Passed(recipe, recipe[mod.step].next)
      BY <1>3, <1>6, <2>3 DEF Begun
    <3> QED  BY <1>2, <1>4, <1>5, <2>1, <3>1, <3>2
  <2> QED  BY <2>2, <2>3
<1>7. CASE ~finish
  <2>1. mod.state = "waiting" /\ step_no = mod.step /\ Dry
    BY <1>1, <1>3, <1>7 DEF RunDry, Dry
  <2>2. mod.step \in Works(recipe) /\ Ahead = recipe[mod.step].next
    BY <1>3, <2>1 DEF UnderWay, Ahead
  <2>3. recipe[mod.step].next \in Passed(recipe, recipe[mod.step].next)
    BY <2>2, RecipeFacts, PassedFacts
  <2> QED  BY <1>2, <1>4, <1>5, <2>1, <2>2, <2>3
<1> QED  BY <1>6, <1>7

LEMMA ExecuteFollows == ASSUME recipe \in Recipes, FlowInv, Execute PROVE FlowInv'
<1>1. /\ cmds = <<>> /\ cache = None /\ ~fresh /\ ~Jumping
      /\ \/ mod.step = End /\ finish /\ Ahead = -1
         \/ /\ mod.step \in Works(recipe) /\ mod.state \in {"running", "waiting"}
            /\ Ahead \in Passed(recipe, recipe[mod.step].next)
  BY AheadFacts DEF Execute
<1>2. RecipeTypes /\ UnderWay /\ Begun
  BY <1>1 DEF FlowInv
<1>3. UNCHANGED <<recipe, mod, cache, fresh, ran, step_no>> /\ stepcache_empty' = FALSE
  BY DEF Execute, module
<1>4. finish' \in BOOLEAN
  BY <1>2 DEF Execute, RecipeTypes, NextStep, NextTurn, LeaveLoop, SendEnd, Completed, Give, status
<1>5. RecipeTypes'
  BY <1>2, <1>3, <1>4 DEF RecipeTypes, End
<1>6. finish' => finish
  BY DEF Execute, NextStep, NextTurn, LeaveLoop, SendEnd, Completed, Give, status
<1>7. UnderWay'
  BY <1>2, <1>3, <1>6 DEF UnderWay, End
\* A step is given.
<1>8. ASSUME NEW g \in Works(recipe) \cup {End}, g \in After(recipe, mod.step), cmds' = Append(cmds, Set(g)),
             mod.step \in Works(recipe), mod.state \in {"running", "waiting"},
             ~finish', JumpTo' = Onward(recipe, g), saved'.JumpTo = JumpTo'
      PROVE  FlowInv'
  <2>1. cmds' = <<Set(g)>> /\ ~Jumping'
    BY <1>1, <1>8 DEF Jumping, Set
  <2>2. Given(g)'
    BY <1>1, <1>3, <1>8 DEF Given
  <2>3. Queued'
    BY <1>1, <1>3, <1>8, <2>1, <2>2 DEF Queued, End
  <2>4. Cached' /\ Begun' /\ RunDry'
    BY <1>1, <1>3, <1>8 DEF Cached, Begun, RunDry
  <2> QED  BY <1>5, <1>7, <2>1, <2>3, <2>4 DEF FlowInv
\* Nothing is given.
<1>9. ASSUME UNCHANGED cmds,
             finish' => IF mod.step = End THEN JumpTo' = -1 ELSE JumpTo' \in Passed(recipe, recipe[mod.step].next)
      PROVE  FlowInv'
  <2>1. cmds' = <<>> /\ ~Jumping' /\ Queued'
    BY <1>1, <1>9 DEF Jumping, Queued
  <2>2. Cached' /\ Begun' /\ RunDry'
    BY <1>1, <1>3, <1>9 DEF Cached, Begun, RunDry, End
  <2> QED  BY <1>5, <1>7, <2>1, <2>2 DEF FlowInv
<1>10. /\ DOMAIN recipe = Steps /\ End \notin Steps \cup {None, -1} /\ -1 \notin Steps \cup {None}
       /\ Works(recipe) \subseteq Steps /\ End = Len(recipe) + 1 /\ None = 0
  BY RecipeFacts DEF Steps, End, None
<1>11. CASE UNCHANGED <<status, cmds>>
  BY <1>2, <1>9, <1>11 DEF status, Begun
<1>12. CASE ~UNCHANGED <<status, cmds>>
  <2>1. /\ NextStep \/ NextTurn \/ LeaveLoop \/ SendEnd \/ Completed
        /\ ~finish' => saved'.JumpTo = JumpTo'
    BY <1>12 DEF Execute
  <2>2. Ahead # -1 => /\ mod.step \in Works(recipe) /\ mod.state \in {"running", "waiting"}
                      /\ mod.step \in DOMAIN recipe /\ Ahead \in Passed(recipe, recipe[mod.step].next)
    BY <1>1, <1>10
  <2>3. CASE NextStep
    <3>1. Ahead \in Works(recipe) /\ JumpTo' = recipe[Ahead].next /\ ~finish' /\ cmds' = Append(cmds, Set(Ahead))
      BY <2>3 DEF NextStep, Give
    <3>2. Ahead \in After(recipe, mod.step)
      BY <1>10, <2>2, <3>1, GivenAfter
    <3>3. JumpTo' = Onward(recipe, Ahead)
      BY <1>10, <3>1 DEF Onward
    <3> QED  BY <1>8, <1>10, <2>1, <2>2, <3>1, <3>2, <3>3
  <2>4. CASE NextTurn
    <3> DEFINE g == recipe[Ahead].from
    <3>1. /\ Ahead \in Steps \ Works(recipe) /\ JumpTo' = recipe[g].next /\ ~finish'
          /\ cmds' = Append(cmds, Set(g))
      BY <2>4 DEF NextTurn, Give
    <3>2. g \in After(recipe, mod.step) /\ g \in Works(recipe)
      BY <1>10, <2>2, <3>1, GivenAfter, RecipeFacts
    <3>3. JumpTo' = Onward(recipe, g)
      BY <1>10, <3>1, <3>2 DEF Onward
    <3> QED  BY <1>8, <1>10, <2>1, <2>2, <3>1, <3>2, <3>3
  <2>5. CASE LeaveLoop
    <3>1. Ahead \in Steps \ Works(recipe) /\ JumpTo' = recipe[Ahead].next /\ UNCHANGED cmds
      BY <2>5 DEF LeaveLoop
    <3>2. JumpTo' \in Passed(recipe, recipe[mod.step].next) /\ mod.step # End
      BY <1>10, <2>2, <3>1, GivenAfter
    <3> QED  BY <1>9, <3>1, <3>2
  <2>6. CASE SendEnd
    <3>1. Ahead = 0 /\ JumpTo' = -1 /\ ~finish' /\ cmds' = Append(cmds, Set(End))
      BY <2>6 DEF SendEnd
    <3>2. End \in After(recipe, mod.step) /\ JumpTo' = Onward(recipe, End)
      BY <1>10, <2>2, <3>1, GivenAfter DEF Onward
    <3> QED  BY <1>8, <2>1, <2>2, <3>1, <3>2
  <2>7. CASE Completed
    BY <1>9, <2>7 DEF Completed
  <2> QED  BY <2>1, <2>3, <2>4, <2>5, <2>6, <2>7
<1> QED  BY <1>11, <1>12

LEMMA RecordFollows == ASSUME recipe \in Recipes, FlowInv, Record PROVE FlowInv'
<1>1. /\ UNCHANGED <<recipe, active, JumpTo, saved, cmds, mod, cache, ran, jumps>> /\ mod.state # "idle"
      /\ mod.state = "waiting" => cmds = <<>>
      /\ step_no' = mod.step /\ fresh' = FALSE
  BY DEF Record
<1>2. /\ finish' \in BOOLEAN /\ (finish' => finish \/ fresh) /\ stepcache_empty' \in BOOLEAN
      /\ stepcache_empty' => stepcache_empty \/ mod.state = "waiting"
  BY DEF Record, FlowInv, RecipeTypes
<1>3. RecipeTypes' /\ UnderWay'
  BY <1>1, <1>2 DEF FlowInv, RecipeTypes, UnderWay, End
<1>4. CASE Jumping
  <2>1. GoingOn'
    BY <1>1, <1>2, <1>4 DEF FlowInv, GoingOn, Going
  <2> QED  BY <1>1, <1>3, <1>4, <2>1 DEF FlowInv, Jumping
<1>5. CASE ~Jumping
  <2>1. Queued /\ Cached /\ Begun /\ RunDry
    BY <1>5 DEF FlowInv
  <2>2. Queued'
    BY <1>1, <1>2, <2>1 DEF Queued, Given, RunDry, End
  <2>3. Cached'
    BY <1>1, <1>2, <2>1 DEF Cached, Given
  <2>4. Begun'
    BY <1>1, <1>2, <2>1 DEF Begun, End
  <2>5. RunDry'
    BY <1>1, <1>2, <2>1 DEF RunDry
  <2> QED  BY <1>1, <1>3, <1>5, <2>2, <2>3, <2>4, <2>5 DEF FlowInv, Jumping
<1> QED  BY <1>4, <1>5

\* A start or a jump is sent.
LEMMA GoingFollows == ASSUME recipe \in Recipes, jumps \in Nat, FlowInv, Start \/ Jump PROVE FlowInv'
<1>1. RecipeTypes /\ UnderWay
  BY DEF FlowInv
<1>2. cmds = <<>> /\ ~finish /\ ~fresh /\ ~stepcache_empty
  <2>1. CASE Start
    BY <1>1, <2>1 DEF Start, FlowInv, GoingOn, Queued, UnderWay
  <2>2. CASE Jump
    BY <1>1, <2>2 DEF Jump, Due, RecipeTypes
  <2> QED  BY <2>1, <2>2
<1>3. /\ UNCHANGED <<recipe, mod, cache, fresh, ran>> /\ ~finish' /\ ~stepcache_empty' /\ active'
      /\ finish' = FALSE /\ stepcache_empty' = FALSE
      /\ mod.state = "idle" \/ (mod.state = "running" /\ jumps' > 0)
  BY <1>2 DEF Start, Jump, Active, module, reported
<1>4. PICK i \in Works(recipe) : cmds' = cmds \o <<Set(i), Go(i)>> /\ JumpTo' = recipe[i].next
  BY RecipeFacts DEF Start, Jump, Active
<1>5. cmds' = <<Set(i), Go(i)>>
  BY <1>2, <1>4
<1>6. GoingOn'
  BY <1>2, <1>3, <1>4, <1>5 DEF GoingOn, Going
<1>7. Jumping'
  BY <1>5 DEF Jumping, Go
<1>8. RecipeTypes' /\ UnderWay'
  BY <1>1, <1>3 DEF RecipeTypes, UnderWay, End
<1> QED  BY <1>6, <1>7, <1>8 DEF FlowInv

LEMMA RestartFollows ==
  ASSUME recipe \in Recipes, crashes \in Nat, jumps \in Nat, FlowInv, Restart, JumpSaved' PROVE FlowInv'
<1>1. /\ UNCHANGED <<recipe, saved, mod, cache, ran>> /\ JumpTo' = saved.JumpTo /\ cmds' = <<>>
      /\ finish' = FALSE /\ fresh' = FALSE /\ stepcache_empty' = FALSE
  BY DEF Restart
<1>2. ~Jumping'
  BY <1>1 DEF Jumping
<1>3. Jumping => mod.state = "idle"
  BY DEF FlowInv, GoingOn, Restart, JumpSaved
<1>4. RecipeTypes' /\ UnderWay'
  BY <1>1 DEF FlowInv, RecipeTypes, UnderWay, End
<1>5. Cached'
  <2>1. cache # None => ~Jumping
    BY <1>3 DEF FlowInv, UnderWay
  <2> QED  BY <1>1, <2>1 DEF FlowInv, Cached, Given
<1>6. Queued' /\ Begun' /\ RunDry'
  BY <1>1 DEF Queued, Begun, RunDry
<1> QED  BY <1>2, <1>4, <1>5, <1>6 DEF FlowInv

-----------------------------------------------------------------------------
(* The steps of the module and of the link.                                *)

\* The module begins the step that was given.
LEMMA BeginFollows ==
  ASSUME recipe \in Recipes, RecipeTypes, NEW g \in Works(recipe) \cup {End}, Begin(g),
         UNCHANGED <<recipe, JumpTo, finish, stepcache_empty>>, cmds' = <<>>, cache' = None,
         JumpTo = Onward(recipe, g), ~finish, ~stepcache_empty
  PROVE  FlowInv'
<1>1. /\ g \in Nat /\ End \notin Works(recipe) /\ End' = End /\ End = Len(recipe) + 1
      /\ g \in Works(recipe) => g \in DOMAIN recipe
  BY RecipeFacts DEF End
<1>2. /\ mod'.step = g /\ fresh' = TRUE /\ ran' = Append(ran, g)
      /\ mod'.state = IF g = End THEN "finish" ELSE "running"
      /\ mod' \in [state : {"idle", "running", "waiting", "finish"}, step : Nat]
  BY <1>1 DEF Begin
<1>3. ran' # <<>> /\ Last(ran') = g /\ ran' \in Seq(Nat)
  BY <1>1, <1>2 DEF RecipeTypes, Last
<1>4. RecipeTypes'
  BY <1>1, <1>2, <1>3 DEF RecipeTypes
<1>5. UnderWay'
  BY <1>1, <1>2, <1>3 DEF UnderWay
<1>6. Begun'
  <2>1. CASE g = End
    BY <1>1, <1>2, <2>1 DEF Begun, Onward
  <2>2. CASE g # End
    <3>1. recipe[g].next \in Passed(recipe, recipe[g].next) /\ JumpTo = recipe[g].next
      BY <1>1, <2>2, RecipeFacts, PassedFacts DEF Onward
    <3> QED  BY <1>1, <1>2, <2>2, <3>1 DEF Begun
  <2> QED  BY <2>1, <2>2
<1>7. ~Jumping' /\ Queued' /\ Cached' /\ RunDry'
  BY DEF Jumping, Queued, Cached, RunDry, None
<1> QED  BY <1>4, <1>5, <1>6, <1>7 DEF FlowInv

\* The command on its way to a module that does not jump.
LEMMA QueuedStep ==
  ASSUME FlowInv, ~Jumping, Take
  PROVE  /\ mod.state \in {"running", "waiting"} /\ cmds' = <<>> /\ cache = None
         /\ \E g \in Works(recipe) \cup {End} :
              /\ Given(g)
              /\ \/ mod.state = "waiting" /\ Begin(g) /\ cache' = None
                 \/ mod.state = "running" /\ cache' = g /\ UNCHANGED <<mod, fresh, ran>>
<1>1. mod.state \in {"running", "waiting"} /\ cache = None
  BY DEF FlowInv, Queued, Take
<1>2. PICK g \in Works(recipe) \cup {End} : cmds = <<Set(g)>> /\ Given(g)
  BY DEF FlowInv, Queued, Take
<1>3. cmds' = <<>> /\ Head(cmds).to = "set" /\ Head(cmds).step = g
  BY <1>2 DEF Take, Set
<1>4. \/ mod.state = "waiting" /\ Begin(g) /\ cache' = None
      \/ mod.state = "running" /\ cache' = g /\ UNCHANGED <<mod, fresh, ran>>
  BY <1>1, <1>3 DEF Take
<1> QED  BY <1>1, <1>2, <1>3, <1>4

LEMMA TakeFollows == ASSUME recipe \in Recipes, FlowInv, Take PROVE FlowInv'
<1>1. UNCHANGED <<recipe, active, JumpTo, finish, stepcache_empty, step_no, saved, jumps>>
  BY DEF Take, Environment, status, reported
<1>2. RecipeTypes /\ UnderWay
  BY DEF FlowInv
<1>3. CASE Jumping
  <2>1. GoingOn
    BY <1>3 DEF FlowInv
  <2>2. PICK i \in Works(recipe) : Going(i) /\ JumpTo = recipe[i].next
    BY <2>1 DEF GoingOn
  <2>3. CASE cmds = <<Go(i)>>
    <3>1. Head(cmds).to = "go" /\ Head(cmds).step = i /\ cmds' = <<>>
      BY <2>3 DEF Take, Go
    <3>2. Begin(i) /\ cache' = None
      BY <3>1 DEF Take
    <3>3. JumpTo = Onward(recipe, i)
      BY <2>2, RecipeFacts DEF Onward
    <3> QED  BY <1>1, <1>2, <2>1, <3>1, <3>2, <3>3, BeginFollows DEF GoingOn
  <2>4. CASE cmds = <<Set(i), Go(i)>>
    <3>1. Head(cmds).to = "set" /\ Head(cmds).step = i /\ cmds' = <<Go(i)>>
      BY <2>4 DEF Take, Set
    <3>2. /\ UNCHANGED <<mod, fresh, ran>>
          /\ cache' = cache \/ (cache' = i /\ mod.state = "running")
      BY <2>1, <3>1 DEF Take, GoingOn
    <3>3. Jumping' /\ Going(i)'
      BY <3>1 DEF Jumping, Going, Go
    <3>4. GoingOn'
      BY <1>1, <2>1, <2>2, <3>2, <3>3 DEF GoingOn
    <3>5. RecipeTypes' /\ UnderWay'
      BY <1>1, <1>2, <3>2 DEF RecipeTypes, UnderWay, End
    <3> QED  BY <3>3, <3>4, <3>5 DEF FlowInv
  <2> QED  BY <2>2, <2>3, <2>4 DEF Going
<1>4. CASE ~Jumping
  <2>1. cmds' = <<>> /\ cache = None
    BY <1>4, QueuedStep
  <2>2. PICK g \in Works(recipe) \cup {End} :
          /\ Given(g)
          /\ \/ mod.state = "waiting" /\ Begin(g) /\ cache' = None
             \/ mod.state = "running" /\ cache' = g /\ UNCHANGED <<mod, fresh, ran>>
    BY <1>4, QueuedStep
  <2>3. CASE Begin(g) /\ cache' = None
    BY <1>1, <1>2, <2>1, <2>2, <2>3, BeginFollows DEF Given
  <2>4. CASE mod.state = "running" /\ cache' = g /\ UNCHANGED <<mod, fresh, ran>>
    <3>1. RecipeTypes' /\ UnderWay'
      BY <1>1, <1>2, <2>4 DEF RecipeTypes, UnderWay, End
    <3>2. Given(g)'
      BY <1>1, <2>2, <2>4 DEF Given
    <3>3. ~Jumping' /\ Queued' /\ Cached'
      BY <2>1, <2>4, <3>2 DEF Jumping, Queued, Cached
    <3>4. Begun' /\ RunDry'
      BY <1>1, <2>2, <2>4 DEF Given, Begun, RunDry
    <3> QED  BY <3>1, <3>3, <3>4 DEF FlowInv
  <2> QED  BY <2>2, <2>3, <2>4
<1> QED  BY <1>3, <1>4

LEMMA StepOverFollows == ASSUME recipe \in Recipes, FlowInv, StepOver PROVE FlowInv'
<1>1. /\ UNCHANGED <<recipe, JumpTo, finish, stepcache_empty, step_no, cmds>> /\ cmds = <<>>
      /\ mod.state = "running" /\ ~fresh /\ cache' = None
  BY DEF StepOver, Environment, status, reported
<1>2. RecipeTypes /\ UnderWay /\ ~Jumping /\ ~Jumping'
  BY <1>1 DEF FlowInv, Jumping
<1>3. Cached /\ Begun /\ RunDry
  BY <1>2 DEF FlowInv
<1>4. CASE cache = None
  <2>1. mod' = [mod EXCEPT !.state = "waiting"] /\ UNCHANGED <<fresh, ran>>
    BY <1>4 DEF StepOver
  <2>2. /\ mod'.state = "waiting" /\ mod'.step = mod.step
        /\ mod' \in [state : {"idle", "running", "waiting", "finish"}, step : Nat]
    BY <1>2, <2>1 DEF RecipeTypes
  <2>3. RecipeTypes'
    BY <1>1, <1>2, <2>1, <2>2 DEF RecipeTypes
  <2>4. UnderWay'
    BY <1>1, <1>2, <2>1, <2>2 DEF UnderWay
  <2>5. Queued' /\ Cached' /\ RunDry'
    BY <1>1, <1>3, <1>4 DEF Queued, Cached, RunDry
  <2>6. Begun'
    BY <1>1, <1>3, <2>1, <2>2 DEF Begun, End
  <2> QED  BY <1>2, <2>3, <2>4, <2>5, <2>6 DEF FlowInv
<1>5. CASE cache # None
  <2>1. Begin(cache) /\ Given(cache) /\ cache \in Works(recipe) \cup {End}
    BY <1>2, <1>3, <1>5 DEF StepOver, Cached, RecipeTypes
  <2> QED  BY <1>1, <1>2, <2>1, BeginFollows DEF Given
<1> QED  BY <1>4, <1>5

LEMMA LoseFollows == ASSUME recipe \in Recipes, FlowInv, Lose PROVE FlowInv'
<1>1. /\ UNCHANGED <<recipe, JumpTo, finish, stepcache_empty, step_no, cmds, mod, cache, ran>>
      /\ fresh /\ fresh' = FALSE
  BY DEF Lose, Environment, status, reported
<1>2. RecipeTypes /\ UnderWay /\ ~Jumping
  BY <1>1 DEF FlowInv, GoingOn
<1>3. Queued /\ Cached /\ Begun /\ RunDry
  BY <1>2 DEF FlowInv
<1>4. cmds = <<>> /\ cache = None
  BY <1>1, <1>3 DEF Queued, Cached, Given
<1>5. RecipeTypes' /\ UnderWay' /\ ~Jumping'
  BY <1>1, <1>2 DEF RecipeTypes, UnderWay, Jumping, End
<1>6. Queued' /\ Cached' /\ RunDry'
  BY <1>1, <1>3, <1>4 DEF Queued, Cached, RunDry
<1>7. Begun'
  BY <1>1, <1>3 DEF Begun, End
<1> QED  BY <1>5, <1>6, <1>7 DEF FlowInv

LEMMA StutterFollows == ASSUME FlowInv, UNCHANGED vars PROVE FlowInv'
<1>1. UNCHANGED <<recipe, active, JumpTo, finish, stepcache_empty, step_no, saved, cmds, mod, cache, fresh, ran, jumps>>
  BY DEF vars, status, reported, module
<1>2. RecipeTypes' /\ UnderWay' /\ Jumping' = Jumping
  BY <1>1 DEF FlowInv, RecipeTypes, UnderWay, Jumping, End
<1>3. GoingOn => GoingOn'
  BY <1>1 DEF GoingOn, Going
<1>4. (Queued => Queued') /\ (Cached => Cached')
  BY <1>1 DEF Queued, Cached, Given, End
<1>5. (Begun => Begun') /\ (RunDry => RunDry')
  BY <1>1 DEF Begun, RunDry, End
<1> QED  BY <1>2, <1>3, <1>4, <1>5 DEF FlowInv

-----------------------------------------------------------------------------
LEMMA FollowNext == FollowInv /\ [Next]_vars => FollowInv'
<1> SUFFICES ASSUME FollowInv, [Next]_vars PROVE FollowInv'
  OBVIOUS
<1>1. ASSUME JumpSaved, FlowInv, JumpSaved' PROVE FlowInv'
  <2>1. recipe \in Recipes /\ crashes \in Nat /\ jumps \in Nat
    BY DEF FollowInv
  <2> QED  BY <1>1, <2>1, GoingFollows, ExecuteFollows, RecordFollows, RestartFollows, TakeFollows, StepOverFollows,
              LoseFollows, StutterFollows DEF Next
<1> QED  BY <1>1, WhileSaved

LEMMA FollowSafe == Spec => []FollowInv
BY RecipeInit, FollowNext, PTL DEF Spec

LEMMA FollowStep ==
  FollowInv /\ [Next]_vars
    => [ran' # ran /\ ran # <<>> /\ JumpSaved /\ ~Jumping => Last(ran') \in After(recipe, Last(ran))]_vars
<1> SUFFICES ASSUME FollowInv, Next, ran' # ran, ran # <<>>, JumpSaved, ~Jumping
             PROVE  Last(ran') \in After(recipe, Last(ran))
  OBVIOUS
<1>1. FlowInv /\ RecipeTypes /\ UnderWay /\ Cached
  BY DEF FollowInv, FlowInv
<1>2. mod.step = Last(ran)
  BY <1>1 DEF UnderWay
<1>3. ASSUME NEW g \in Works(recipe) \cup {End}, Given(g), Begin(g) PROVE Last(ran') \in After(recipe, Last(ran))
  <2>1. ran' = Append(ran, g) /\ g \in After(recipe, Last(ran))
    BY <1>2, <1>3 DEF Begin, Given
  <2> QED  BY <1>1, <2>1 DEF RecipeTypes, Last
<1>4. CASE Take
  BY <1>1, <1>3, <1>4, QueuedStep
<1>5. CASE StepOver
  BY <1>1, <1>3, <1>5 DEF StepOver, Cached, RecipeTypes
<1>6. CASE Start \/ Jump
  BY <1>6 DEF Start, Jump, Active, module
<1>7. CASE Execute \/ Record \/ Restart \/ Lose
  BY <1>7 DEF Execute, Record, Restart, Lose, module
<1> QED  BY <1>4, <1>5, <1>6, <1>7 DEF Next

\* Whatever records are lost and whenever the cell restarts, the module goes from a step
\* only to one the recipe allows after it (channel_step_execute, loop_workstep_jump,
\* get_next_workstepNo), for every recipe and any number of faults, and of jumps where
\* the cell does not restart.
THEOREM FollowsThm == Spec => Follows
<1>1. FollowInv /\ [Next]_vars
        => [ran' # ran /\ ran # <<>> /\ JumpSaved /\ ~Jumping => Last(ran') \in After(recipe, Last(ran))]_vars
  BY FollowStep
<1> QED  BY <1>1, FollowSafe, PTL DEF Spec, Follows

-----------------------------------------------------------------------------
(* Undisturbed: the module is given each step in time, and each loop is    *)
(* counted from nothing.                                                   *)

\* The module never waits.  While a step runs the next one is on its way, or is going to
\* be, for the begin of a step is always told from the record before.
Supplied ==
  /\ ~stepcache_empty /\ mod.state # "waiting"
  /\ Jumping => m_state
  /\ mod.state = "running" =>
       active /\ m_state /\ (cmds # <<>> \/ cache # None \/ finish \/ fresh)
  /\ mod.state = "idle" => m_last_step_no = 0
  /\ mod.state # "idle" => (fresh <=> m_last_step_no # mod.step)

\* The loops before the step that was given, and those below a known one, are known.  LoopNo
\* counts turns of a loop the cell is still in, or is about to be cleared.
Loops(r) == DOMAIN r \ Works(r)
Counting ==
  /\ active => /\ StepNo \in Steps /\ JumpTo \in {-1, recipe[StepNo].next}
               /\ \A l \in Loops(recipe) : l <= StepNo => Known(l)
               /\ \A k, l \in Loops(recipe) : l < k /\ Known(k) => Known(l)
  /\ active /\ JumpTo > 0 /\ ~loop_finish /\ (LoopNo # 0 \/ loop_flag) =>
       \E k \in Loops(recipe) : Known(k) /\ k > StepNo
  /\ active /\ loop_finish =>
       loop_clear_delay <= 0 \/ (loop_clear_delay = 1 /\ StepNo \notin Works(recipe))
  /\ ~active => ~loop_flag /\ ~loop_finish
LoopFlags == loop_flag \in BOOLEAN /\ loop_finish \in BOOLEAN /\ loop_clear_delay \in Int

CountInv == lost \in Nat /\ (NoFault => Supplied /\ Counting /\ LoopFlags)

LEMMA LoopFacts ==
  ASSUME NEW r \in Recipes, NEW l \in Loops(r)
  PROVE  /\ l \in DOMAIN r /\ l \in Nat /\ l \notin Works(r) /\ r[l].from \in Works(r) /\ r[l].from < l - 1
         /\ l - 1 \in Works(r)
<1>1. IsStep(r, l)
  BY RecipeAssumption DEF Loops
<1> QED  BY <1>1, RecipeFacts DEF IsStep, Loops

LEMMA LoopTurns ==
  ASSUME NEW r \in Recipes, NEW l \in Loops(r)
  PROVE  r[l].turns \in Nat \ {0} /\ r[l].turns > 0 /\ l - 1 \in DOMAIN r /\ l - 1 \in Nat
<1>1. r \in Seq([turns : Nat, from : Nat, next : Nat]) /\ l \in DOMAIN r
  BY RecipeAssumption DEF Loops
<1>2. r[l] \in [turns : Nat, from : Nat, next : Nat]
  <2>1. l \in 1 .. Len(r)
    BY <1>1, RecipeFacts
  <2> QED  BY <1>1, <2>1, ElementOfSeq, Zenon
<1>3. r[l].turns # 0
  BY <1>1 DEF Loops, Works
<1> QED  BY <1>2, <1>3, LoopFacts, RecipeFacts

\* No step comes after itself, so that the begin of each shows in the records.
LEMMA NotItself ==
  ASSUME InARow, NEW r \in Recipes, NEW i \in DOMAIN r
  PROVE  i \notin After(r, i)
<1> DEFINE C == {None} \cup {p \in DOMAIN r : p = i + 1 \/ (p = i + 2 /\ i + 1 \notin Works(r))}
<1>1. i \in Nat /\ r[i].next \in {i + 1, None} /\ r[i].next \in DOMAIN r \cup {None}
  BY RecipeFacts DEF InARow
<1>2. C \in SUBSET (DOMAIN r \cup {None}) /\ r[i].next \in C
  BY <1>1
<1>3. ASSUME NEW l \in C \ (Works(r) \cup {None}) PROVE l = i + 1 /\ r[l].next \in C
  <2>1. l \in Loops(r) /\ l \in {i + 1, i + 2}
    BY <1>3 DEF Loops
  <2>2. l - 1 \in Works(r)
    BY <2>1, LoopFacts
  <2>3. l = i + 1
    BY <1>1, <1>3, <2>1, <2>2
  <2>4. r[l].next \in {l + 1, None} /\ r[l].next \in DOMAIN r \cup {None}
    BY <2>1, RecipeFacts DEF InARow, Loops
  <2>5. i + 2 = l + 1
    BY <1>1, <2>3
  <2> QED  BY <1>3, <2>3, <2>4, <2>5
<1>4. Passed(r, r[i].next) \subseteq C
  BY <1>2, <1>3 DEF Passed
<1>5. ASSUME NEW p \in C PROVE LeadsTo(r, p) # i
  <2>1. CASE p = None
    BY <1>1, <2>1, RecipeFacts DEF LeadsTo
  <2>2. CASE p # None /\ p \in Works(r)
    BY <1>1, <2>2 DEF LeadsTo
  <2>3. CASE p # None /\ p \notin Works(r)
    <3>1. p = i + 1 /\ p \in Loops(r)
      BY <1>3, <2>3 DEF Loops
    <3>2. r[p].from < p - 1 /\ r[p].from \in Nat
      BY <3>1, LoopFacts, RecipeFacts
    <3> QED  BY <1>1, <2>3, <3>1, <3>2 DEF LeadsTo
  <2> QED  BY <2>1, <2>2, <2>3
<1> QED  BY <1>4, <1>5 DEF After

LEMMA CountInit == Init => CountInv
<1> SUFFICES ASSUME Init PROVE CountInv
  OBVIOUS
<1>1. Supplied
  BY DEF Init, Supplied, Jumping
<1>2. active = FALSE /\ loop_flag = FALSE /\ loop_finish = FALSE /\ loop_clear_delay = 0
  BY DEF Init
<1>3. Counting
  BY <1>2 DEF Counting
<1>4. LoopFlags
  <2>1. loop_flag \in BOOLEAN /\ loop_finish \in BOOLEAN
    BY <1>2
  <2>2. loop_clear_delay \in Int
    BY <1>2
  <2> QED  BY <2>1, <2>2 DEF LoopFlags
<1> QED  BY <1>1, <1>3, <1>4 DEF Init, CountInv

\* The steps of the cell.
LEMMA StartCounts ==
  ASSUME recipe \in Recipes, FlowInv, Supplied, Counting, LoopFlags, Start
  PROVE  Supplied' /\ Counting' /\ LoopFlags'
<1>1. Supplied'
  BY DEF Supplied, Start, Active, module
<1>2. /\ UNCHANGED <<recipe, loop_flag, loop_finish, loop_clear_delay>> /\ ~loop_flag /\ ~loop_finish
      /\ active' /\ StepNo' = 1 /\ JumpTo' = recipe[1].next /\ LoopNo' = 0 /\ DOMAIN multiLoopStep' = {}
  BY DEF Start, Active, Counting
<1>3. \A l \in Loops(recipe) : ~(l <= 1)
  BY RecipeFacts, LoopFacts
<1>4. 1 \in Steps
  BY RecipeFacts DEF Steps
<1>5. Counting'
  BY <1>2, <1>3, <1>4 DEF Counting, Known, Steps, Loops, Works
<1> QED  BY <1>1, <1>2, <1>5 DEF LoopFlags

LEMMA DueFinishes ==
  ASSUME Supplied, Due
  PROVE  active /\ m_state /\ finish /\ ~Dry /\ Ahead = JumpTo /\ Here = StepNo
BY DEF Supplied, Due, Dry, Ahead, Here

LEMMA ExecuteSupplies == ASSUME recipe \in Recipes, FlowInv, Supplied, Execute PROVE Supplied'
<1>1. active /\ m_state /\ finish /\ ~Dry /\ cmds = <<>>
  BY DueFinishes, AheadFacts DEF Execute
<1>2. UNCHANGED <<m_state, mod, cache, fresh, m_last_step_no>> /\ stepcache_empty' = FALSE
  BY DEF Execute, module
<1>3. NextStep \/ NextTurn \/ LeaveLoop \/ SendEnd \/ Completed
  BY <1>1 DEF Execute
<1>4. CASE mod.state = "running"
  <2>1. mod.step \in Works(recipe) /\ mod.step # End
    BY <1>4, RecipeFacts DEF FlowInv, UnderWay, End
  <2>2. Ahead \in DOMAIN recipe \cup {None}
    BY <2>1, AheadFacts, RecipeFacts, PassedFacts DEF Execute
  <2>3. ~Completed
    BY <2>2, RecipeFacts DEF Completed, None
  <2>4. active' /\ (cmds' # <<>> \/ finish')
    <3>1. \A x : Append(<<>>, Set(x)) # <<>>
      BY DEF Set
    <3>2. CASE NextStep \/ NextTurn
      BY <1>1, <3>1, <3>2 DEF NextStep, NextTurn, Give
    <3>3. CASE LeaveLoop
      BY <1>1, <3>3 DEF LeaveLoop
    <3>4. CASE SendEnd
      BY <1>1, <3>1, <3>4 DEF SendEnd
    <3> QED  BY <1>3, <2>3, <3>2, <3>3, <3>4
  <2> QED  BY <1>1, <1>2, <2>4 DEF Supplied
<1>5. CASE mod.state # "running"
  BY <1>1, <1>2, <1>5 DEF Supplied
<1> QED  BY <1>4, <1>5

LEMMA RecordSupplies == ASSUME FlowInv, Supplied, Record PROVE Supplied'
<1>1. /\ UNCHANGED <<active, cmds, mod, cache>> /\ mod.state \notin {"idle", "waiting"} /\ fresh' = FALSE
      /\ m_last_step_no' = (IF fresh THEN mod.step ELSE m_last_step_no)
      /\ finish' = (finish \/ (fresh /\ mod.step # m_last_step_no))
      /\ stepcache_empty' = FALSE
  BY DEF Record, Supplied
<1>2. m_state => m_state'
  BY DEF Record
<1>3. m_last_step_no' = mod.step
  BY <1>1 DEF Supplied
<1>4. fresh => finish'
  BY <1>1 DEF Supplied
<1>5. finish => finish'
  BY <1>1
<1> QED  BY <1>1, <1>2, <1>3, <1>4, <1>5 DEF Supplied, Jumping

\* What the cell finds ahead comes directly behind the step that was given last.
LEMMA AheadNext ==
  ASSUME InARow, recipe \in Recipes, Counting, Supplied, Due, Ahead \in Steps
  PROVE  StepNo \in Steps /\ StepNo \in Nat /\ Ahead = StepNo + 1 /\ JumpTo > 0
<1>1. active /\ Ahead = JumpTo
  BY DueFinishes
<1>2. StepNo \in Steps /\ JumpTo \in {-1, recipe[StepNo].next} /\ DOMAIN recipe = Steps /\ Len(recipe) \in Nat
  BY <1>1, RecipeFacts DEF Counting, Steps
<1>3. Ahead \in Nat /\ Ahead > 0 /\ StepNo \in Nat
  BY <1>2 DEF Steps
<1> QED  BY <1>1, <1>2, <1>3 DEF InARow, None

\* A loop that is not known is met with a LoopNo of 0.
LEMMA Anew ==
  ASSUME InARow, recipe \in Recipes, Counting, LoopFlags, Supplied, Due, Ahead \in Loops(recipe)
  PROVE  /\ loop_finish => loop_clear_delay <= 0
         /\ ~Known(Ahead) => LoopNoNow = 0
<1>1. active /\ finish
  BY DueFinishes
<1>2. Ahead \in Steps /\ Ahead \in Nat
  BY RecipeFacts, LoopFacts DEF Steps
<1>3. StepNo \in Steps /\ StepNo \in Nat /\ Ahead = StepNo + 1 /\ JumpTo > 0
  BY <1>2, AheadNext
<1>4. StepNo \in Works(recipe)
  <2>1. Ahead - 1 \in Works(recipe)
    BY LoopFacts
  <2> QED  BY <1>3, <2>1
<1>5. loop_finish => loop_clear_delay <= 0
  BY <1>1, <1>4 DEF Counting
<1>6. ASSUME ~Known(Ahead) PROVE LoopNoNow = 0
  <2>1. CASE loop_finish
    BY <1>1, <1>5, <2>1 DEF LoopNoNow, ClearLoopNo
  <2>2. CASE ~loop_finish
    <3>1. ASSUME NEW k \in Loops(recipe), Known(k), k > StepNo PROVE FALSE
      <4>1. k \in Nat /\ k # Ahead
        BY <1>6, <3>1, LoopFacts
      <4>2. Ahead < k
        BY <1>3, <3>1, <4>1
      <4> QED  BY <1>1, <1>6, <3>1, <4>2 DEF Counting
    <3>2. LoopNo = 0 /\ ~loop_flag
      BY <1>1, <1>3, <2>2, <3>1 DEF Counting
    <3> QED  BY <2>2, <3>2 DEF LoopNoNow, ClearLoopNo
  <2> QED  BY <2>1, <2>2
<1> QED  BY <1>5, <1>6

\* What is known when loop l is met, and i is the step that is taken to be under way.
LEMMA MetLoop ==
  ASSUME recipe \in Recipes, active, Counting, NEW l \in Loops(recipe), l = StepNo + 1, NEW n,
         SetCount(l, n), UNCHANGED recipe, NEW i \in Steps, i <= l
  PROVE  /\ Known(l)' /\ \A k \in Loops(recipe) : k <= i => Known(k)'
         /\ \A k, m \in Loops(recipe) : m < k /\ Known(k)' => Known(m)'
<1>1. DOMAIN multiLoopStep' = DOMAIN multiLoopStep \cup {l}
  BY DEF SetCount, Counted
<1>2. l \in Nat /\ StepNo \in Nat /\ i \in Nat
  BY LoopFacts, RecipeFacts DEF Counting, Steps
<1>3. \A k \in Loops(recipe) : k \in Nat
  BY LoopFacts
<1>4. ASSUME NEW k \in Loops(recipe), k <= l PROVE Known(k)'
  <2>1. k \in DOMAIN multiLoopStep' <=> k = l \/ Known(k)
    BY <1>1 DEF Known
  <2>2. k # l => k <= StepNo
    BY <1>2, <1>3, <1>4
  <2>3. k # l => Known(k)
    BY <2>2 DEF Counting
  <2> QED  BY <2>1, <2>3 DEF Known
<1>5. ASSUME NEW k \in Loops(recipe), k <= i PROVE Known(k)'
  BY <1>2, <1>3, <1>4, <1>5
<1>6. ASSUME NEW k \in Loops(recipe), NEW m \in Loops(recipe), m < k, Known(k)' PROVE Known(m)'
  <2>1. CASE k = l
    BY <1>2, <1>3, <1>4, <1>6, <2>1
  <2>2. CASE k # l
    BY <1>1, <1>6, <2>2 DEF Counting, Known
  <2> QED  BY <2>1, <2>2
<1> QED  BY <1>1, <1>5, <1>6 DEF Known

LEMMA ExecuteCounts ==
  ASSUME InARow, recipe \in Recipes, FlowInv, Supplied, Counting, LoopFlags, Execute
  PROVE  Counting' /\ LoopFlags'
<1>1. active /\ m_state /\ finish /\ ~Dry /\ Ahead = JumpTo /\ Here = StepNo /\ Due
  BY DueFinishes DEF Execute
<1>2. /\ UNCHANGED recipe
      /\ NextStep \/ NextTurn \/ LeaveLoop \/ SendEnd \/ Completed
  BY <1>1 DEF Execute
<1>3. DOMAIN recipe = Steps /\ Steps' = Steps /\ Works(recipe) \subseteq Steps /\ Steps \subseteq Nat
  BY <1>2, RecipeFacts DEF Steps
<1>4. \A l \in Loops(recipe) : l \in Nat /\ l \in Steps
  BY <1>3 DEF Loops
<1>5. CASE NextStep
  <2>1. Ahead \in Works(recipe) /\ StepNo \in Steps /\ Ahead = StepNo + 1 /\ JumpTo > 0
    BY <1>1, <1>3, <1>5, AheadNext DEF NextStep
  <2>2. /\ active' = active /\ StepNo' = Ahead /\ JumpTo' = recipe[Ahead].next /\ LoopNo' = LoopNoNow
        /\ loop_flag' = (loop_flag /\ ~finish) /\ loop_finish' = (loop_finish /\ ~ClearLoopNo)
        /\ loop_clear_delay' = (IF finish /\ loop_finish THEN loop_clear_delay - 1 ELSE loop_clear_delay)
        /\ UNCHANGED multiLoopStep
    BY <1>5 DEF NextStep, Give
  <2>3. loop_flag' = FALSE
    BY <1>1, <2>2
  <2>4. \A l \in Loops(recipe) : l # Ahead /\ (l <= Ahead => l <= StepNo) /\ (l > StepNo => l > Ahead)
    BY <1>3, <1>4, <2>1 DEF Loops
  <2>5. \A l \in Loops(recipe) : l <= Ahead => Known(l)
    BY <1>1, <2>4 DEF Counting
  <2>6. ASSUME ~loop_finish', LoopNo' # 0 PROVE \E k \in Loops(recipe) : Known(k) /\ k > Ahead
    <3>1. ~ClearLoopNo
      BY <2>2, <2>6 DEF LoopNoNow
    <3>2. ~loop_finish /\ (LoopNo # 0 \/ loop_flag)
      BY <2>2, <2>6, <3>1 DEF LoopNoNow
    <3> QED  BY <1>1, <2>1, <2>4, <3>2 DEF Counting
  <2>7. loop_finish' => loop_clear_delay' <= 0
    BY <1>1, <2>2 DEF Counting, LoopFlags, ClearLoopNo
  <2>8. \A k, l \in Loops(recipe) : l < k /\ Known(k) => Known(l)
    BY <1>1 DEF Counting
  <2>9. Counting'
    BY <1>1, <1>2, <1>3, <2>1, <2>2, <2>3, <2>5, <2>6, <2>7, <2>8 DEF Counting, Known
  <2> QED  BY <2>2, <2>3, <2>9 DEF LoopFlags
<1>6. CASE NextTurn
  <2>1. PICK l : l = Ahead /\ l \in Loops(recipe) /\ l \in Steps
    BY <1>3, <1>6 DEF NextTurn, Loops
  <2>2. StepNo \in Steps /\ l = StepNo + 1 /\ (loop_finish => loop_clear_delay <= 0)
    BY <1>1, <2>1, AheadNext, Anew
  <2>3. PICK g : g = recipe[l].from /\ g \in Steps /\ g < l /\ g <= l
    <3>1. recipe[l].from \in Works(recipe) /\ recipe[l].from < l - 1 /\ l \in Nat
      BY <2>1, LoopFacts
    <3>2. recipe[l].from \in Steps /\ recipe[l].from \in Nat
      BY <1>3, <3>1
    <3> QED  BY <3>1, <3>2
  <2>4. /\ active' = active /\ StepNo' = g /\ JumpTo' = recipe[g].next
        /\ loop_flag' = TRUE /\ loop_finish' = (loop_finish /\ ~ClearLoopNo)
        /\ loop_clear_delay' \in {loop_clear_delay - 1, loop_clear_delay}
    BY <1>6, <2>1, <2>3 DEF NextTurn, Give
  <2>5. loop_finish' = FALSE
    BY <1>1, <2>2, <2>4 DEF LoopFlags, ClearLoopNo
  <2>6. PICK n : SetCount(l, n)
    BY <1>6, <2>1 DEF NextTurn
  <2>7. /\ Known(l)' /\ \A k \in Loops(recipe) : k <= g => Known(k)'
        /\ \A k, m \in Loops(recipe) : m < k /\ Known(k)' => Known(m)'
    BY <1>1, <1>2, <2>1, <2>2, <2>3, <2>6, MetLoop
  <2>8. Counting'
    BY <1>1, <1>2, <1>3, <2>1, <2>3, <2>4, <2>5, <2>7 DEF Counting
  <2> QED  BY <2>4, <2>5, <2>8 DEF LoopFlags
<1>7. CASE LeaveLoop
  <2>1. PICK l : l = Ahead /\ l \in Loops(recipe) /\ l \in Steps
    BY <1>3, <1>7 DEF LeaveLoop, Loops
  <2>2. StepNo \in Steps /\ l = StepNo + 1 /\ (loop_finish => loop_clear_delay <= 0)
    BY <1>1, <2>1, AheadNext, Anew
  <2>3. /\ active' = active /\ StepNo' = l /\ JumpTo' = recipe[l].next
        /\ loop_flag' = (loop_flag /\ ~finish)
        /\ loop_finish' = (JumpTo' > 0 \/ (loop_finish /\ ~ClearLoopNo))
        /\ loop_clear_delay' = (IF JumpTo' > 0 THEN 1
                                ELSE IF finish /\ loop_finish THEN loop_clear_delay - 1 ELSE loop_clear_delay)
        /\ SetCount(l, 0)
    BY <1>7, <2>1 DEF LeaveLoop
  <2>4. loop_flag' = FALSE /\ (loop_finish' <=> JumpTo' > 0) /\ loop_finish' \in BOOLEAN
    BY <1>1, <2>2, <2>3 DEF LoopFlags, ClearLoopNo
  <2>5. l <= l /\ l \notin Works(recipe)
    BY <1>3, <2>1 DEF Loops
  <2>6. /\ Known(l)' /\ \A k \in Loops(recipe) : k <= l => Known(k)'
        /\ \A k, m \in Loops(recipe) : m < k /\ Known(k)' => Known(m)'
    BY <1>1, <1>2, <2>1, <2>2, <2>3, <2>5, MetLoop
  <2>7. Counting'
    BY <1>1, <1>2, <1>3, <2>1, <2>3, <2>4, <2>5, <2>6 DEF Counting
  <2> QED  BY <2>3, <2>4, <2>7 DEF LoopFlags
<1>8. CASE SendEnd
  BY <1>1, <1>2, <1>3, <1>8 DEF SendEnd, Counting, LoopFlags, Known
<1>9. CASE Completed
  <2>1. active' = FALSE /\ loop_flag' = FALSE /\ loop_finish' = FALSE /\ loop_clear_delay' = 0
    BY <1>9 DEF Completed
  <2>2. Counting'
    BY <2>1 DEF Counting
  <2>3. loop_flag' \in BOOLEAN /\ loop_finish' \in BOOLEAN
    BY <2>1
  <2>4. loop_clear_delay' \in Int
    BY <2>1
  <2> QED  BY <2>2, <2>3, <2>4 DEF LoopFlags
<1> QED  BY <1>2, <1>5, <1>6, <1>7, <1>8, <1>9

\* The steps of the module.
LEMMA TakeSupplies == ASSUME recipe \in Recipes, jumps = 0, FlowInv, Supplied, Take PROVE Supplied'
<1>1. UNCHANGED <<active, m_state, finish, stepcache_empty, m_last_step_no>>
  BY DEF Take, Environment, status, reported
<1>2. CASE Jumping
  <2>1. GoingOn /\ mod.state = "idle" /\ active /\ m_state /\ m_last_step_no = 0
    BY <1>2 DEF FlowInv, GoingOn, Supplied
  <2>2. PICK i \in Works(recipe) : Going(i)
    BY <2>1 DEF GoingOn
  <2>3. CASE cmds = <<Go(i)>>
    <3>1. Head(cmds).to = "go" /\ Head(cmds).step = i
      BY <2>3 DEF Go
    <3>2. Begin(i) /\ i # 0 /\ i # End
      BY <3>1, RecipeFacts DEF Take, End, None
    <3>3. mod'.state = "running" /\ mod'.step = i /\ fresh' = TRUE
      BY <3>2 DEF Begin
    <3> QED  BY <1>1, <2>1, <3>2, <3>3 DEF Supplied
  <2>4. CASE cmds = <<Set(i), Go(i)>>
    <3>1. Head(cmds).to = "set"
      BY <2>4 DEF Set
    <3>2. UNCHANGED <<mod, fresh>>
      BY <2>1, <3>1 DEF Take
    <3> QED  BY <1>1, <2>1, <3>2 DEF Supplied
  <2> QED  BY <2>2, <2>3, <2>4 DEF Going
<1>3. CASE ~Jumping
  <2>1. /\ mod.state = "running" /\ cmds' = <<>>
        /\ \E g \in Works(recipe) \cup {End} : cache' = g /\ UNCHANGED <<mod, fresh, ran>>
    BY <1>3, QueuedStep DEF Supplied
  <2>2. 0 \notin Works(recipe) \cup {End}
    BY RecipeFacts DEF End, None
  <2>3. cache' # None /\ UNCHANGED <<mod, fresh>> /\ ~Jumping'
    BY <2>1, <2>2 DEF None, Jumping
  <2> QED  BY <1>1, <2>1, <2>3 DEF Supplied
<1> QED  BY <1>2, <1>3

LEMMA StepOverSupplies == ASSUME InARow, recipe \in Recipes, FlowInv, Supplied, StepOver PROVE Supplied'
<1>1. /\ UNCHANGED <<active, m_state, finish, stepcache_empty, m_last_step_no, cmds>>
      /\ cmds = <<>> /\ mod.state = "running" /\ ~fresh /\ ~Due
  BY DEF StepOver, Environment, status, reported
<1>2. active /\ m_state /\ cache # None /\ m_last_step_no = mod.step
  BY <1>1 DEF Supplied, Due
<1>3. ~Jumping /\ ~Jumping'
  BY <1>1 DEF Jumping
<1>4. mod.step \in DOMAIN recipe /\ cache \in After(recipe, mod.step) /\ Begin(cache)
  BY <1>1, <1>2, <1>3, RecipeFacts DEF FlowInv, UnderWay, Cached, Given, StepOver
<1>5. cache # mod.step
  BY <1>4, NotItself
<1>6. mod'.state \in {"running", "finish"} /\ mod'.step = cache /\ fresh' = TRUE
  BY <1>4 DEF Begin
<1> QED  BY <1>1, <1>2, <1>3, <1>5, <1>6 DEF Supplied

LEMMA OthersCount ==
  ASSUME Counting, LoopFlags,
         UNCHANGED <<recipe, active, StepNo, JumpTo, LoopNo, loop_flag, loop_finish, loop_clear_delay, multiLoopStep>>
  PROVE  Counting' /\ LoopFlags'
BY DEF Counting, LoopFlags, Known, Steps

-----------------------------------------------------------------------------
LEMMA LostSteady == ASSUME lost \in Nat, [Next]_vars PROVE lost' \in {lost, lost + 1}
<1>1. CASE Start \/ Jump
  BY <1>1 DEF Start, Jump, Active
<1>2. CASE Execute \/ Record \/ Restart
  BY <1>2 DEF Execute, Record, Restart
<1>3. CASE Take \/ StepOver \/ Lose
  BY <1>3 DEF Take, StepOver, Lose
<1>4. CASE UNCHANGED vars
  BY <1>4 DEF vars
<1> QED  BY <1>1, <1>2, <1>3, <1>4 DEF Next

LEMMA CountNext == InARow /\ FollowInv /\ CountInv /\ [Next]_vars => CountInv'
<1> SUFFICES ASSUME InARow, FollowInv, CountInv, [Next]_vars PROVE CountInv'
  OBVIOUS
<1>1. crashes' \in {crashes, crashes + 1} /\ jumps' \in {jumps, jumps + 1} /\ crashes \in Nat /\ jumps \in Nat
  BY Steady DEF FollowInv
<1>2. lost \in Nat /\ lost' \in {lost, lost + 1}
  BY LostSteady DEF CountInv
<1>3. ASSUME NoFault' PROVE Supplied' /\ Counting' /\ LoopFlags'
  <2>1. NoFault /\ jumps' = jumps /\ crashes' = crashes /\ lost' = lost
    BY <1>1, <1>2, <1>3 DEF NoFault
  <2>2. Supplied /\ Counting /\ LoopFlags /\ recipe \in Recipes /\ FlowInv /\ jumps = 0
    BY <2>1 DEF CountInv, FollowInv, NoFault, JumpSaved
  <2>3. CASE Start
    BY <2>2, <2>3, StartCounts
  <2>4. CASE Execute
    BY <2>2, <2>4, ExecuteSupplies, ExecuteCounts
  <2>5. CASE Record
    BY <2>2, <2>5, RecordSupplies, OthersCount DEF Record
  <2>6. CASE Take
    BY <2>2, <2>6, TakeSupplies, OthersCount DEF Take, Environment, status
  <2>7. CASE StepOver
    BY <2>2, <2>7, StepOverSupplies, OthersCount DEF StepOver, Environment, status
  <2>8. CASE UNCHANGED vars
    <3>1. UNCHANGED <<cmds, m_state, active, cache, finish, fresh, stepcache_empty, mod, m_last_step_no>>
      BY <2>8 DEF vars, status, reported, module
    <3>2. Supplied'
      BY <2>2, <3>1 DEF Supplied, Jumping
    <3> QED  BY <2>2, <2>8, <3>2, OthersCount DEF vars, status
  <2>9. ~Jump /\ ~Restart /\ ~Lose
    BY <2>1, <1>3 DEF Jump, Restart, Lose, NoFault
  <2> QED  BY <2>3, <2>4, <2>5, <2>6, <2>7, <2>8, <2>9 DEF Next
<1> QED  BY <1>2, <1>3 DEF CountInv

LEMMA CountSafe == ASSUME InARow PROVE Spec => [](FollowInv /\ CountInv)
<1>1. CountInv /\ FollowInv /\ [Next]_vars => CountInv'
  BY CountNext
<1> QED  BY <1>1, CountInit, RecipeInit, FollowNext, PTL DEF Spec

\* Undisturbed, the cell gives each step in time: channel_step_execute goes on at the begin
\* of each, for a step whose number is that of the one before never comes.
NeverDry == NoFault => mod.state # "waiting" /\ ~stepcache_empty
THEOREM NeverDryThm == ASSUME InARow PROVE Spec => []NeverDry
<1>1. FollowInv /\ CountInv => NeverDry
  BY DEF CountInv, Supplied, NeverDry
<1> QED  BY <1>1, CountSafe, PTL

\* Undisturbed, a loop that is met for the first time has had one turn, however many loops
\* were gone through before: LoopNo, which loop_workstep_jump takes for the turns of before a
\* restart, has been cleared in time.
NewTurn ==
  [][\A l \in Loops(recipe) :
       NoFault /\ ~Known(l) /\ Known(l)' => multiLoopStep'[l] = IF recipe[l].turns > 1 THEN 1 ELSE 0]_vars
THEOREM CountsAnew == ASSUME InARow PROVE Spec => NewTurn
<1>1. FollowInv /\ CountInv /\ [Next]_vars
        => [\A l \in Loops(recipe) :
              NoFault /\ ~Known(l) /\ Known(l)' => multiLoopStep'[l] = IF recipe[l].turns > 1 THEN 1 ELSE 0]_vars
  <2> SUFFICES ASSUME FollowInv, CountInv, Next, NEW l \in Loops(recipe), NoFault, ~Known(l), Known(l)'
               PROVE  multiLoopStep'[l] = IF recipe[l].turns > 1 THEN 1 ELSE 0
    BY DEF Known
  <2>1. Supplied /\ Counting /\ LoopFlags /\ recipe \in Recipes
    BY DEF CountInv, FollowInv
  <2>2. ~UNCHANGED multiLoopStep /\ DOMAIN multiLoopStep' # {}
    BY DEF Known
  <2>3. Execute
    BY <2>2 DEF Next, Start, Jump, Record, Restart, Take, StepOver, Lose, Environment, status
  <2>4. Due /\ ~Dry
    BY <2>1, <2>3, DueFinishes DEF Execute
  <2>5. NextTurn \/ LeaveLoop
    BY <2>2, <2>3, <2>4 DEF Execute, NextStep, SendEnd, Completed
  <2>6. PICK n : /\ SetCount(Ahead, n) /\ Ahead \in Loops(recipe)
                 /\ \/ n = Turn(Ahead) /\ Turn(Ahead) < recipe[Ahead].turns
                    \/ n = 0 /\ Turn(Ahead) >= recipe[Ahead].turns
    BY <2>1, <2>5, RecipeFacts DEF NextTurn, LeaveLoop, Loops, Steps
  <2>7. DOMAIN multiLoopStep' = DOMAIN multiLoopStep \cup {Ahead} /\ multiLoopStep'[Ahead] = n
    BY <2>6 DEF SetCount, Counted
  <2>8. l = Ahead /\ ~Known(Ahead)
    BY <2>7 DEF Known
  <2>9. Turn(Ahead) = 1
    BY <2>1, <2>4, <2>6, <2>8, Anew DEF Turn
  <2>10. recipe[l].turns \in Nat
    BY <2>1, LoopTurns
  <2> QED  BY <2>6, <2>7, <2>8, <2>9, <2>10
<1> QED  BY <1>1, CountSafe, PTL DEF Spec, NewTurn

-----------------------------------------------------------------------------
(* Undisturbed: what the module runs is the recipe as it is written.       *)

\* The turns counted of loop l are those since it was come to last, the one under way
\* not counted before the loop is met.
Count(l) == IF Known(l) THEN multiLoopStep[l] ELSE 0
ToMeet(l) == mod.step = l - 1 /\ (fresh \/ finish) /\ JumpTo = l
Turning ==
  \A l \in Loops(recipe) : recipe[l - 1].next = l =>
    LET turns == Times(ran, l - 1)
    IN  IF ToMeet(l) THEN turns \in Nat \ {0} /\ Count(l) = (turns - 1) % recipe[l].turns
        ELSE turns \in Nat /\ Count(l) = turns % recipe[l].turns

\* The cell looks behind the step under way, or behind its loop when the turns are over.
Heading ==
  fresh \/ finish =>
    \/ mod.step = End
    \/ JumpTo = recipe[mod.step].next
    \/ \E l \in Loops(recipe) :
         /\ l = recipe[mod.step].next /\ JumpTo = recipe[l].next
         /\ Times(ran, l - 1) % recipe[l].turns = 0

\* What is given is what follows, and a run begins with step 1.
Giving ==
  /\ Jumping => Going(1)
  /\ ~Jumping => \A g \in Works(recipe) \cup {End} : cmds = <<Set(g)>> \/ cache = g => g = Following(recipe, ran)

\* AsWritten, under NoFault.
InOrder == \A k \in DOMAIN ran : ran[k] = IF k = 1 THEN 1 ELSE Following(recipe, SubSeq(ran, 1, k - 1))
WrittenInv == NoFault => Turning /\ Heading /\ Giving /\ InOrder

LEMMA NextRemainder ==
  ASSUME NEW n \in Nat, NEW t \in Nat \ {0}
  PROVE  (n + 1) % t = IF (n % t) + 1 = t THEN 0 ELSE (n % t) + 1
<1>1. \A m, q \in Nat : \A p \in 0 .. t - 1 : m = t * q + p => m % t = p
  OBVIOUS
<1>2. PICK q \in Nat, p \in 0 .. t - 1 : n = t * q + p /\ p = n % t
  <2>1. n \div t \in Nat /\ n % t \in 0 .. t - 1 /\ n = t * (n \div t) + (n % t)
    OBVIOUS
  <2> QED  BY <2>1
<1>3. CASE p + 1 = t
  <2>1. t * (q + 1) = t * q + t
    OBVIOUS
  <2>2. n + 1 \in Nat /\ q + 1 \in Nat /\ 0 \in 0 .. t - 1 /\ n + 1 = t * (q + 1) + 0
    BY <1>2, <1>3, <2>1
  <2>3. (n + 1) % t = 0
    BY <1>1, <2>2
  <2> QED  BY <1>2, <1>3, <2>3
<1>4. CASE p + 1 # t
  <2>1. n + 1 \in Nat /\ p + 1 \in 0 .. t - 1 /\ n + 1 = t * q + (p + 1)
    BY <1>2, <1>4
  <2>2. (n + 1) % t = p + 1
    BY <1>1, <2>1
  <2> QED  BY <1>2, <1>4, <2>2
<1> QED  BY <1>3, <1>4

LEMMA TimesFacts ==
  ASSUME NEW s \in Seq(Nat), NEW g \in Nat, NEW i
  PROVE  /\ Times(s, i) \in Nat /\ Times(<<>>, i) = 0
         /\ Times(Append(s, g), i) = IF g = i THEN Times(s, i) + 1 ELSE Times(s, i)
<1> DEFINE S == {k \in DOMAIN s : s[k] = i}
           n == Len(s) + 1
<1>1. DOMAIN s = 1 .. Len(s) /\ Len(s) \in Nat /\ n \notin S
  OBVIOUS
<1>2. IsFiniteSet(S)
  <2>1. IsFiniteSet(1 .. Len(s))
    BY <1>1, FS_Interval
  <2> QED  BY <1>1, <2>1, FS_Subset
<1>3. {k \in DOMAIN Append(s, g) : Append(s, g)[k] = i} = IF g = i THEN S \cup {n} ELSE S
  <2>1. /\ DOMAIN Append(s, g) = 1 .. n /\ Append(s, g)[n] = g
        /\ \A k \in 1 .. Len(s) : Append(s, g)[k] = s[k]
    OBVIOUS
  <2>2. 1 .. n = (1 .. Len(s)) \cup {n}
    BY <1>1
  <2> QED  BY <1>1, <2>1, <2>2
<1>4. Cardinality(S \cup {n}) = Cardinality(S) + 1
  BY <1>1, <1>2, FS_AddElement
<1>5. Cardinality(S) \in Nat
  BY <1>2, FS_CardinalityType
<1>6. Times(<<>>, i) = 0
  <2>1. {k \in DOMAIN <<>> : <<>>[k] = i} = {}
    OBVIOUS
  <2> QED  BY <2>1, FS_EmptySet DEF Times
<1> QED  BY <1>3, <1>4, <1>5, <1>6 DEF Times

LEMMA WrittenInit == Init => WrittenInv
<1> SUFFICES ASSUME Init PROVE Turning /\ Heading /\ Giving /\ InOrder
  BY DEF WrittenInv
<1>1. /\ recipe \in Recipes /\ ran = <<>> /\ multiLoopStep = <<>> /\ cmds = <<>> /\ cache = None
      /\ ~fresh /\ ~finish
  BY DEF Init
<1>2. ASSUME NEW l \in Loops(recipe)
      PROVE  Times(ran, l - 1) = 0 /\ Count(l) = 0 /\ 0 % recipe[l].turns = 0 /\ ~ToMeet(l)
  <2>1. recipe[l].turns \in Nat \ {0}
    BY <1>1, LoopTurns
  <2>2. Times(<<>>, l - 1) = 0
    <3>1. <<>> \in Seq(Nat) /\ 0 \in Nat
      OBVIOUS
    <3> QED  BY <3>1, TimesFacts
  <2> QED  BY <1>1, <2>1, <2>2 DEF Count, Known, ToMeet
<1>3. Turning
  BY <1>2 DEF Turning
<1>4. 0 \notin Works(recipe) \cup {End}
  BY <1>1, RecipeFacts DEF End, None
<1>5. Giving /\ Heading /\ InOrder
  BY <1>1, <1>4 DEF Giving, Heading, InOrder, Jumping, None
<1> QED  BY <1>3, <1>5

\* The module begins what follows.
LEMMA BeginInOrder ==
  ASSUME ran \in Seq(Nat), NEW g \in Nat, ran' = Append(ran, g), UNCHANGED recipe, InOrder,
         IF ran = <<>> THEN g = 1 ELSE g = Following(recipe, ran)
  PROVE  InOrder'
<1> SUFFICES ASSUME NEW k \in DOMAIN ran'
             PROVE  ran'[k] = IF k = 1 THEN 1 ELSE Following(recipe, SubSeq(ran', 1, k - 1))
  BY DEF InOrder
<1>1. DOMAIN ran = 1 .. Len(ran) /\ Len(ran) \in Nat /\ DOMAIN ran' = 1 .. Len(ran) + 1 /\ k \in Nat
  OBVIOUS
<1>2. CASE k <= Len(ran)
  <2>1. ran'[k] = ran[k] /\ k \in DOMAIN ran
    BY <1>1, <1>2
  <2>2. SubSeq(ran', 1, k - 1) = SubSeq(ran, 1, k - 1)
    <3>1. \A j \in 1 .. k - 1 : ran'[j] = ran[j]
      BY <1>1, <1>2
    <3> QED  BY <1>1, <1>2, <3>1
  <2> QED  BY <2>1, <2>2 DEF InOrder
<1>3. CASE k = Len(ran) + 1
  <2>1. ran'[k] = g
    BY <1>3
  <2>2. SubSeq(ran', 1, k - 1) = ran
    <3>1. \A j \in 1 .. Len(ran) : ran'[j] = ran[j]
      BY <1>1
    <3> QED  BY <1>1, <1>3, <3>1
  <2>3. k = 1 <=> ran = <<>>
    BY <1>1, <1>3
  <2> QED  BY <2>1, <2>2, <2>3
<1> QED  BY <1>1, <1>2, <1>3

LEMMA BeginWritten ==
  ASSUME recipe \in Recipes, RecipeTypes, Turning, InOrder, NEW g \in Works(recipe) \cup {End}, Begin(g),
         UNCHANGED <<recipe, JumpTo, finish, multiLoopStep>>, cmds' = <<>>, cache' = None,
         JumpTo = Onward(recipe, g), ~finish, ~fresh,
         IF ran = <<>> THEN g = 1 ELSE g = Following(recipe, ran)
  PROVE  Turning' /\ Heading' /\ Giving' /\ InOrder'
<1>1. /\ g \in Nat /\ End \notin DOMAIN recipe /\ End' = End /\ End = Len(recipe) + 1
      /\ g \in Works(recipe) => g \in DOMAIN recipe
      /\ 0 \notin Works(recipe) \cup {End}
  BY RecipeFacts DEF End, None
<1>2. mod'.step = g /\ fresh' = TRUE /\ ran' = Append(ran, g) /\ ran \in Seq(Nat)
  BY DEF Begin, RecipeTypes
<1>3. ASSUME NEW l \in Loops(recipe), recipe[l - 1].next = l
      PROVE  IF ToMeet(l)' THEN /\ Times(ran', l - 1) \in Nat \ {0}
                                /\ Count(l)' = (Times(ran', l - 1) - 1) % recipe[l].turns
             ELSE Times(ran', l - 1) \in Nat /\ Count(l)' = Times(ran', l - 1) % recipe[l].turns
  <2>1. ~ToMeet(l) /\ l - 1 \in DOMAIN recipe
    BY LoopTurns DEF ToMeet
  <2>2. Times(ran, l - 1) \in Nat /\ Count(l) = Times(ran, l - 1) % recipe[l].turns
    BY <1>3, <2>1 DEF Turning
  <2>3. Count(l)' = Count(l)
    BY DEF Count, Known
  <2>4. Times(ran', l - 1) = IF g = l - 1 THEN Times(ran, l - 1) + 1 ELSE Times(ran, l - 1)
    BY <1>1, <1>2, TimesFacts
  <2>5. CASE g = l - 1
    <3>1. JumpTo = l
      BY <1>1, <1>3, <2>1, <2>5 DEF Onward
    <3>2. ToMeet(l)'
      BY <1>2, <2>5, <3>1 DEF ToMeet
    <3>3. Times(ran', l - 1) \in Nat \ {0} /\ Times(ran', l - 1) - 1 = Times(ran, l - 1)
      BY <2>2, <2>4, <2>5
    <3> QED  BY <2>2, <2>3, <3>2, <3>3
  <2>6. CASE g # l - 1
    <3>1. ~ToMeet(l)'
      BY <1>2, <2>6 DEF ToMeet
    <3> QED  BY <2>2, <2>3, <2>4, <2>6, <3>1
  <2> QED  BY <2>5, <2>6
<1>4. Turning'
  BY <1>3 DEF Turning
<1>5. Heading'
  BY <1>1, <1>2 DEF Heading, Onward
<1>6. Giving'
  BY <1>1 DEF Giving, Jumping, None
<1>7. InOrder'
  BY <1>1, <1>2, BeginInOrder
<1> QED  BY <1>4, <1>5, <1>6, <1>7

\* A step that leaves the counts and the module as they are.
LEMMA StillWritten ==
  ASSUME Turning, Heading, InOrder, UNCHANGED <<recipe, mod, ran, JumpTo, multiLoopStep>>,
         (fresh \/ finish)' <=> fresh \/ finish
  PROVE  Turning' /\ Heading' /\ InOrder'
<1>1. \A l : ToMeet(l)' = ToMeet(l) /\ Count(l)' = Count(l)
  BY DEF ToMeet, Count, Known
<1>2. Turning'
  BY <1>1 DEF Turning
<1>3. Heading' /\ InOrder'
  BY DEF Heading, InOrder, End
<1> QED  BY <1>2, <1>3

\* The loop that is met: it is the one behind the step under way, and its turn is the
\* one that has just been run.
LEMMA LoopMet ==
  ASSUME InARow, recipe \in Recipes, FlowInv, Supplied, Counting, LoopFlags, Turning, Heading, Due,
         NEW l \in Loops(recipe), Ahead = l
  PROVE  /\ mod.step = l - 1 /\ recipe[mod.step].next = l /\ JumpTo = l
         /\ \E n \in Nat : /\ Times(ran, l - 1) = n + 1 /\ Count(l) = n % recipe[l].turns
                           /\ Turn(l) = (n % recipe[l].turns) + 1
<1>1. finish /\ Ahead = JumpTo
  BY DueFinishes
<1>2. l \in Nat /\ l - 1 \in Nat /\ l \in DOMAIN recipe /\ l - 1 \in Works(recipe)
  BY LoopFacts, LoopTurns
<1>3. mod.step \in Works(recipe) /\ mod.step \in DOMAIN recipe /\ mod.step # End /\ mod.step \in Nat
  BY <1>2, AheadFacts, RecipeFacts DEF End
<1>4. JumpTo = recipe[mod.step].next
  <2> SUFFICES ASSUME NEW k \in Loops(recipe), JumpTo = recipe[k].next PROVE FALSE
    BY <1>1, <1>3 DEF Heading
  <2>1. k \in DOMAIN recipe /\ k \in Nat /\ k \notin Works(recipe) /\ recipe[k].next \in {k + 1, None}
    BY LoopFacts DEF InARow
  <2>2. l = k + 1
    BY <1>1, <1>2, <2>1, RecipeFacts
  <2> QED  BY <1>2, <2>1, <2>2
<1>5. mod.step = l - 1
  <2>1. recipe[mod.step].next \in {mod.step + 1, None}
    BY <1>3 DEF InARow
  <2> QED  BY <1>1, <1>2, <1>3, <1>4, <2>1, RecipeFacts
<1>6. Times(ran, l - 1) \in Nat \ {0} /\ Count(l) = (Times(ran, l - 1) - 1) % recipe[l].turns
  BY <1>1, <1>4, <1>5 DEF Turning, ToMeet
<1>7. Turn(l) = Count(l) + 1
  <2>1. ~Known(l) => LoopNoNow = 0
    BY Anew
  <2> QED  BY <2>1 DEF Turn, Count
<1> QED  BY <1>1, <1>4, <1>5, <1>6, <1>7

LEMMA FollowingFacts ==
  ASSUME NEW r, NEW s, None \notin Works(r)
  PROVE  /\ r[Last(s)].next = None => Following(r, s) = Len(r) + 1
         /\ r[Last(s)].next \in Works(r) => Following(r, s) = r[Last(s)].next
         /\ \A l : l = r[Last(s)].next /\ l # None /\ l \notin Works(r) =>
              /\ Times(s, Last(s)) % r[l].turns # 0 => Following(r, s) = r[l].from
              /\ Times(s, Last(s)) % r[l].turns = 0 =>
                   Following(r, s) = IF r[l].next = None THEN Len(r) + 1 ELSE r[l].next
BY DEF Following

LEMMA ExecuteWritten ==
  ASSUME InARow, recipe \in Recipes, FlowInv, Supplied, Counting, LoopFlags, Turning, Heading, InOrder, Execute
  PROVE  Turning' /\ Heading' /\ Giving' /\ InOrder'
<1>1. Due /\ finish /\ ~Dry /\ Ahead = JumpTo /\ cmds = <<>> /\ cache = None /\ ~fresh
  BY DueFinishes, AheadFacts DEF Execute
<1>2. /\ UNCHANGED <<recipe, mod, cache, fresh, ran>> /\ End' = End
      /\ NextStep \/ NextTurn \/ LeaveLoop \/ SendEnd \/ Completed
  BY <1>1 DEF Execute, module, End
<1>3. /\ 0 \notin Works(recipe) \cup {End} /\ End = Len(recipe) + 1 /\ None = 0
      /\ Works(recipe) \subseteq DOMAIN recipe
      /\ \A l \in Loops(recipe) : l \in DOMAIN recipe /\ l \in Nat /\ l # 0 /\ l \notin Works(recipe)
  BY RecipeFacts, LoopFacts DEF End, None
<1>4. InOrder'
  BY <1>2 DEF InOrder
<1>5. \A g : Set(g).to # "go"
  BY DEF Set
<1>6. ASSUME UNCHANGED cmds PROVE Giving'
  BY <1>1, <1>2, <1>3, <1>6 DEF Giving, Jumping
<1>7. ASSUME NEW g, cmds' = Append(cmds, Set(g)), g = Following(recipe, ran) PROVE Giving'
  <2>1. cmds' = <<Set(g)>>
    BY <1>1, <1>7
  <2>2. ~Jumping'
    BY <1>5, <2>1 DEF Jumping
  <2>3. \A h : cmds' = <<Set(h)>> => h = g
    BY <2>1 DEF Set
  <2> QED  BY <1>1, <1>2, <1>3, <1>7, <2>2, <2>3 DEF Giving
\* No loop is met: the counts stay as they are.
<1>8. ASSUME UNCHANGED multiLoopStep, finish' = FALSE, JumpTo \notin Loops(recipe) PROVE Turning' /\ Heading'
  <2>1. \A l : Count(l)' = Count(l)
    BY <1>8 DEF Count, Known
  <2>2. \A l \in Loops(recipe) : ~ToMeet(l) /\ ~ToMeet(l)'
    BY <1>1, <1>2, <1>8 DEF ToMeet
  <2> QED  BY <1>1, <1>2, <1>8, <2>1, <2>2 DEF Turning, Heading
<1>9. ASSUME JumpTo \in Works(recipe) \cup {None}
      PROVE  Following(recipe, ran) = IF JumpTo = None THEN End ELSE JumpTo
  <2>1. mod.step # End /\ Last(ran) = mod.step
    <3>1. mod.step \in Works(recipe)
      BY <1>1, <1>3, <1>9, AheadFacts, RecipeFacts
    <3> QED  BY <3>1, RecipeFacts DEF FlowInv, UnderWay, End
  <2>2. CASE JumpTo = recipe[mod.step].next
    BY <1>3, <1>9, <2>1, <2>2, FollowingFacts
  <2>3. CASE \E l \in Loops(recipe) : /\ l = recipe[mod.step].next /\ JumpTo = recipe[l].next
                                      /\ Times(ran, l - 1) % recipe[l].turns = 0
    <3>1. PICK l \in Loops(recipe) : /\ l = recipe[mod.step].next /\ JumpTo = recipe[l].next
                                     /\ Times(ran, l - 1) % recipe[l].turns = 0
      BY <2>3
    <3>2. mod.step \in DOMAIN recipe /\ mod.step \in Nat
      BY <1>1, <1>3, <1>9, AheadFacts, RecipeFacts
    <3>3. mod.step = l - 1
      <4>1. recipe[mod.step].next \in {mod.step + 1, None}
        BY <3>2 DEF InARow
      <4>2. l # None /\ l \in Nat
        BY <1>3
      <4> QED  BY <3>1, <3>2, <4>1, <4>2
    <3>4. /\ l = recipe[Last(ran)].next /\ l # None /\ l \notin Works(recipe)
          /\ Times(ran, Last(ran)) % recipe[l].turns = 0
      BY <1>3, <2>1, <3>1, <3>3
    <3> QED  BY <1>3, <3>1, <3>4, FollowingFacts
  <2> QED  BY <1>1, <2>1, <2>2, <2>3 DEF Heading
<1>10. CASE NextStep
  <2>1. JumpTo \in Works(recipe) /\ UNCHANGED multiLoopStep /\ finish' = FALSE /\ cmds' = Append(cmds, Set(JumpTo))
    BY <1>1, <1>10 DEF NextStep, Give
  <2>2. JumpTo \notin Loops(recipe)
    BY <2>1 DEF Loops
  <2> QED  BY <1>3, <1>4, <1>7, <1>8, <1>9, <2>1, <2>2
<1>11. CASE SendEnd
  <2>1. JumpTo = None /\ UNCHANGED multiLoopStep /\ finish' = FALSE /\ cmds' = Append(cmds, Set(End))
    BY <1>1, <1>11 DEF SendEnd, None
  <2> QED  BY <1>3, <1>4, <1>7, <1>8, <1>9, <2>1
<1>12. CASE Completed
  <2>1. JumpTo < 0 /\ UNCHANGED <<multiLoopStep, cmds>> /\ finish' = FALSE
    BY <1>1, <1>12 DEF Completed
  <2>2. JumpTo \notin Loops(recipe)
    BY <1>3, <2>1
  <2> QED  BY <1>4, <1>6, <1>8, <2>1, <2>2
<1>13. ASSUME NextTurn \/ LeaveLoop PROVE Turning' /\ Heading' /\ Giving'
  <2>1. PICK l \in Loops(recipe) : l = Ahead
    BY <1>13, RecipeFacts DEF NextTurn, LeaveLoop, Loops, Steps
  <2>2. mod.step = l - 1 /\ recipe[mod.step].next = l /\ JumpTo = l
    BY <1>1, <2>1, LoopMet
  <2>3. PICK n \in Nat : /\ Times(ran, l - 1) = n + 1 /\ Count(l) = n % recipe[l].turns
                         /\ Turn(l) = (n % recipe[l].turns) + 1
    BY <1>1, <2>1, LoopMet
  <2>4. PICK t \in Nat \ {0} : t = recipe[l].turns
    BY LoopTurns
  <2>5. PICK u, m : /\ u = n % t /\ m = (n + 1) % t /\ u \in 0 .. t - 1
                    /\ m = IF u + 1 = t THEN 0 ELSE u + 1
    <3>1. n % t \in 0 .. t - 1
      OBVIOUS
    <3>2. (n + 1) % t = IF (n % t) + 1 = t THEN 0 ELSE (n % t) + 1
      BY NextRemainder
    <3> QED  BY <3>1, <3>2
  <2>6. /\ NextTurn => u + 1 < t /\ multiLoopStep' = Counted(l, u + 1)
        /\ LeaveLoop => u + 1 >= t /\ multiLoopStep' = Counted(l, 0)
    BY <2>1, <2>3, <2>4, <2>5 DEF NextTurn, LeaveLoop, SetCount
  <2>7. /\ NextTurn => m = u + 1 /\ m # 0
        /\ LeaveLoop => m = 0
        /\ multiLoopStep' = Counted(l, m)
    BY <1>13, <2>5, <2>6
  <2>8. Count(l)' = m /\ \A k \in Loops(recipe) : k # l => Count(k)' = Count(k)
    BY <2>7 DEF Counted, Count, Known
  <2>9. \A k \in Loops(recipe) : k # l => ~ToMeet(k)
    BY <1>3, <2>2 DEF ToMeet
  <2>10. \A k \in Loops(recipe) : ~ToMeet(k)'
    <3>1. CASE NextTurn
      BY <1>1, <1>2, <3>1 DEF ToMeet, NextTurn, Give
    <3>2. CASE LeaveLoop
      <4>1. JumpTo' = recipe[l].next /\ recipe[l].next # l
        BY <1>3, <2>1, <3>2 DEF LeaveLoop, InARow
      <4>2. \A k \in Loops(recipe) : mod.step = k - 1 => k = l
        BY <1>3, <2>2
      <4> QED  BY <1>2, <4>1, <4>2 DEF ToMeet
    <3> QED  BY <1>13, <3>1, <3>2
  <2>11. Turning'
    <3> SUFFICES ASSUME NEW k \in Loops(recipe), recipe[k - 1].next = k
                 PROVE  Times(ran, k - 1) \in Nat /\ Count(k)' = Times(ran, k - 1) % recipe[k].turns
      BY <1>2, <2>10 DEF Turning
    <3>1. CASE k = l
      BY <2>3, <2>4, <2>5, <2>8, <3>1
    <3>2. CASE k # l
      BY <2>8, <2>9, <3>2 DEF Turning
    <3> QED  BY <3>1, <3>2
  <2>12. CASE NextTurn
    <3>1. finish' = FALSE /\ cmds' = Append(cmds, Set(recipe[l].from))
      BY <2>1, <2>12 DEF NextTurn, Give
    <3>2. Last(ran) = l - 1 /\ m # 0
      <4>1. l - 1 \in Works(recipe)
        BY LoopFacts
      <4> QED  BY <2>2, <2>7, <2>12, <4>1, RecipeFacts DEF FlowInv, UnderWay, End
    <3>3. Following(recipe, ran) = recipe[l].from
      BY <1>3, <2>2, <2>3, <2>4, <2>5, <3>2 DEF Following
    <3> QED  BY <1>1, <1>2, <1>7, <2>11, <3>1, <3>3 DEF Heading
  <2>13. CASE LeaveLoop
    <3>1. JumpTo' = recipe[l].next /\ UNCHANGED cmds
      BY <2>1, <2>13 DEF LeaveLoop
    <3>2. m = 0
      BY <2>7, <2>13
    <3>3. Times(ran, l - 1) % recipe[l].turns = 0
      BY <2>3, <2>4, <2>5, <3>2
    <3>4. Heading'
      BY <1>2, <2>2, <3>1, <3>3 DEF Heading
    <3> QED  BY <1>6, <2>11, <3>1, <3>4
  <2> QED  BY <1>13, <2>12, <2>13
<1> QED  BY <1>2, <1>4, <1>10, <1>11, <1>12, <1>13

LEMMA StartWritten ==
  ASSUME recipe \in Recipes, jumps \in Nat, FlowInv, InOrder, Start
  PROVE  Turning' /\ Heading' /\ Giving' /\ InOrder'
<1>1. ran = <<>> /\ cache = None /\ ~fresh /\ UNCHANGED <<recipe, ran, cache, fresh>>
  BY DEF FlowInv, UnderWay, Start, Active, module
<1>2. multiLoopStep' = <<>> /\ finish' = FALSE
  BY DEF Start, Active
<1>3. ASSUME NEW l \in Loops(recipe)
      PROVE  Times(ran, l - 1) = 0 /\ Count(l)' = 0 /\ 0 % recipe[l].turns = 0 /\ ~ToMeet(l)'
  <2>1. recipe[l].turns \in Nat \ {0}
    BY LoopTurns
  <2>2. Times(<<>>, l - 1) = 0
    <3>1. <<>> \in Seq(Nat) /\ 0 \in Nat
      OBVIOUS
    <3> QED  BY <3>1, TimesFacts
  <2> QED  BY <1>1, <1>2, <2>1, <2>2 DEF Count, Known, ToMeet
<1>4. Turning'
  BY <1>1, <1>3 DEF Turning
<1>5. cmds = <<>>
  BY DEF Start, FlowInv, GoingOn, Queued
<1>6. cmds' = <<Set(1), Go(1)>>
  BY <1>5 DEF Start, Active
<1>7. Jumping'
  BY <1>6 DEF Jumping, Go
<1>8. Giving'
  BY <1>6, <1>7 DEF Giving, Going, Set, Go
<1>9. Heading' /\ InOrder'
  BY <1>1, <1>2 DEF Heading, InOrder
<1> QED  BY <1>4, <1>8, <1>9

\* The last command of a start.
LEMMA GoTaken ==
  ASSUME Jumping, FlowInv, jumps = 0, Going(1), Take
  PROVE  /\ ran = <<>> /\ mod.state = "idle" /\ cache = None
         /\ \/ cmds' = <<Go(1)>> /\ UNCHANGED <<mod, cache, fresh, ran>>
            \/ cmds' = <<>> /\ Begin(1) /\ cache' = None
<1>1. mod.state = "idle" /\ ran = <<>> /\ cache = None
  BY DEF FlowInv, GoingOn, UnderWay
<1>2. CASE cmds = <<Set(1), Go(1)>>
  <2>1. Head(cmds).to = "set" /\ cmds' = <<Go(1)>>
    BY <1>2 DEF Take, Set
  <2> QED  BY <1>1, <2>1 DEF Take
<1>3. CASE cmds = <<Go(1)>>
  <2>1. Head(cmds).to = "go" /\ Head(cmds).step = 1 /\ cmds' = <<>>
    BY <1>3 DEF Take, Go
  <2> QED  BY <1>1, <2>1 DEF Take
<1> QED  BY <1>2, <1>3 DEF Going

LEMMA TakeWritten ==
  ASSUME recipe \in Recipes, jumps = 0, FlowInv, Supplied, Turning, Heading, Giving, InOrder, Take
  PROVE  Turning' /\ Heading' /\ Giving' /\ InOrder'
<1>1. UNCHANGED <<recipe, JumpTo, finish, multiLoopStep>>
  BY DEF Take, Environment, status
<1>2. RecipeTypes
  BY DEF FlowInv
<1>3. CASE Jumping
  <2>1. Going(1)
    BY <1>3 DEF Giving
  <2>2. CASE cmds' = <<Go(1)>> /\ UNCHANGED <<mod, cache, fresh, ran>>
    <3>1. Jumping'
      BY <2>2 DEF Jumping, Go
    <3>2. Giving'
      BY <2>2, <3>1 DEF Giving, Going, Go
    <3> QED  BY <1>1, <2>2, <3>2, StillWritten
  <2>3. CASE cmds' = <<>> /\ Begin(1) /\ cache' = None
    <3>1. ran = <<>> /\ ~finish /\ ~fresh /\ 1 \in Works(recipe)
      BY <1>3, <2>1, GoTaken, RecipeFacts DEF FlowInv, GoingOn
    <3>2. PICK i \in Works(recipe) : Going(i) /\ JumpTo = recipe[i].next
      BY <1>3 DEF FlowInv, GoingOn
    <3>3. i = 1
      BY <2>1, <3>2 DEF Going, Set, Go
    <3>4. JumpTo = Onward(recipe, 1)
      BY <3>2, <3>3, RecipeFacts DEF Onward
    <3> QED  BY <1>1, <1>2, <2>3, <3>1, <3>4, BeginWritten
  <2> QED  BY <1>3, <2>1, <2>2, <2>3, GoTaken
<1>4. CASE ~Jumping
  <2>1. mod.state = "running" /\ cmds' = <<>>
    BY <1>4, QueuedStep DEF Supplied
  <2>2. PICK g \in Works(recipe) \cup {End} : cmds = <<Set(g)>> /\ Given(g)
    BY <1>4 DEF FlowInv, Queued, Take
  <2>3. Head(cmds).to = "set" /\ Head(cmds).step = g
    BY <2>2 DEF Set
  <2>4. cache' = g /\ UNCHANGED <<mod, fresh, ran>>
    BY <2>1, <2>3 DEF Take
  <2>5. g = Following(recipe, ran)
    BY <1>4, <2>2 DEF Giving
  <2>6. Giving'
    BY <1>1, <2>1, <2>4, <2>5 DEF Giving, Jumping, End
  <2> QED  BY <1>1, <2>4, <2>6, StillWritten
<1> QED  BY <1>3, <1>4

LEMMA StepOverWritten ==
  ASSUME recipe \in Recipes, FlowInv, Supplied, Turning, InOrder, Giving, StepOver
  PROVE  Turning' /\ Heading' /\ Giving' /\ InOrder'
<1>1. /\ UNCHANGED <<recipe, JumpTo, finish, multiLoopStep, cmds>> /\ cmds = <<>> /\ cache' = None
      /\ mod.state = "running" /\ ~fresh /\ ~Due
  BY DEF StepOver, Environment, status
<1>2. ~finish /\ cache # None /\ ~Jumping
  BY <1>1 DEF Supplied, Due, Jumping
<1>3. RecipeTypes /\ Given(cache) /\ Begin(cache) /\ cache \in Works(recipe) \cup {End}
  BY <1>2 DEF FlowInv, Cached, StepOver, RecipeTypes
<1>4. ran # <<>> /\ cache = Following(recipe, ran)
  BY <1>1, <1>2, <1>3 DEF FlowInv, UnderWay, Giving
<1> QED  BY <1>1, <1>2, <1>3, <1>4, BeginWritten DEF Given

LEMMA WrittenNext == InARow /\ FollowInv /\ CountInv /\ WrittenInv /\ [Next]_vars => WrittenInv'
<1> SUFFICES ASSUME InARow, FollowInv, CountInv, WrittenInv, [Next]_vars, NoFault'
             PROVE  Turning' /\ Heading' /\ Giving' /\ InOrder'
  BY DEF WrittenInv
<1>1. NoFault /\ UNCHANGED <<crashes, jumps, lost>>
  <2>1. crashes' \in {crashes, crashes + 1} /\ jumps' \in {jumps, jumps + 1} /\ crashes \in Nat /\ jumps \in Nat
    BY Steady DEF FollowInv
  <2>2. lost \in Nat /\ lost' \in {lost, lost + 1}
    BY LostSteady DEF CountInv
  <2> QED  BY <2>1, <2>2 DEF NoFault
<1>2. /\ Supplied /\ Counting /\ LoopFlags /\ recipe \in Recipes /\ FlowInv /\ jumps = 0
      /\ Turning /\ Heading /\ Giving /\ InOrder
  BY <1>1 DEF CountInv, FollowInv, WrittenInv, NoFault, JumpSaved
<1>3. CASE Start
  BY <1>2, <1>3, StartWritten DEF FollowInv
<1>4. CASE Execute
  BY <1>2, <1>4, ExecuteWritten
<1>5. CASE Record
  <2>1. /\ UNCHANGED <<recipe, mod, ran, JumpTo, multiLoopStep, cmds, cache>> /\ fresh' = FALSE
        /\ finish' = (finish \/ (fresh /\ mod.step # m_last_step_no)) /\ mod.state # "idle"
    BY <1>5 DEF Record
  <2>2. (fresh \/ finish)' <=> fresh \/ finish
    BY <1>2, <2>1 DEF Supplied
  <2>3. Giving'
    BY <1>2, <2>1 DEF Giving, Jumping, Going, End
  <2> QED  BY <1>2, <2>1, <2>2, <2>3, StillWritten
<1>6. CASE Take
  BY <1>2, <1>6, TakeWritten
<1>7. CASE StepOver
  BY <1>2, <1>7, StepOverWritten
<1>8. CASE UNCHANGED vars
  <2>1. UNCHANGED <<recipe, mod, ran, JumpTo, multiLoopStep, cmds, cache, fresh, finish>>
    BY <1>8 DEF vars, status, module
  <2>2. Giving'
    BY <1>2, <2>1 DEF Giving, Jumping, Going, End
  <2> QED  BY <1>2, <2>1, <2>2, StillWritten
<1>9. ~Jump /\ ~Restart /\ ~Lose
  BY <1>1 DEF NoFault, Jump, Restart, Lose
<1> QED  BY <1>3, <1>4, <1>5, <1>6, <1>7, <1>8, <1>9 DEF Next

\* Undisturbed, the module runs the recipe as it is written (channel_step_execute,
\* loop_workstep_jump), for every recipe whose steps stand in a row: whatever loops it has,
\* within one another, behind one another or overlapping, and however many turns.
THEOREM AsWrittenThm == ASSUME InARow PROVE Spec => []AsWritten
<1>1. FollowInv /\ CountInv /\ WrittenInv /\ [Next]_vars => WrittenInv'
  BY WrittenNext
<1>2. WrittenInv => AsWritten
  BY DEF WrittenInv, InOrder, AsWritten
<1> QED  BY <1>1, <1>2, WrittenInit, CountSafe, PTL DEF Spec

-----------------------------------------------------------------------------
(* Disturbed, with one loop: no step is left out.                          *)

OneLoop == \A k, l \in Loops(recipe) : k = l
Round(l) == Times(ran, l - 1)         \* the turns the module has run
Flagged == IF loop_flag THEN LoopNo + 1 ELSE LoopNo

LoopTypes ==
  /\ LoopNo \in Nat /\ saved.LoopNo \in Nat /\ loop_flag \in BOOLEAN
  /\ \A l \in Loops(recipe) : Known(l) => multiLoopStep[l] \in Nat

\* The steps up to the one under way have been run.
Behind == \A i \in Works(recipe) : i <= mod.step => Times(ran, i) >= 1

\* The cell never counts a turn that the module has not run, and while it has not answered
\* the end of a turn, it has not counted that one either; nor is it in the status file.
NotAhead ==
  \A l \in Loops(recipe) :
    LET before == IF mod.step = l - 1 THEN Round(l) - 1 ELSE Round(l)
        counted == IF cmds = <<>> /\ cache = None THEN before ELSE Round(l)
    IN  /\ Known(l) => multiLoopStep[l] <= counted
        /\ Flagged <= counted
        /\ saved.LoopNo <= before

\* Behind the loop only when its turns are over.
TurnsOver ==
  \A l \in Loops(recipe) :
    \/ Round(l) >= recipe[l].turns
    \/ /\ mod.step < l
       /\ \A g \in Works(recipe) \cup {End} : cmds = <<Set(g)>> \/ cache = g => g < l
       /\ mod.step = l - 1 /\ (fresh \/ finish) => JumpTo = l

\* The steps of the loop have been run in each turn, and in this one up to the one under way.
Body ==
  \A l \in Loops(recipe) : \A i \in recipe[l].from .. l - 1 :
    Times(ran, i) >= IF i <= mod.step /\ mod.step < l - 1 THEN Round(l) + 1 ELSE Round(l)

MissInv == jumps = 0 /\ OneLoop => LoopTypes /\ (Jumping => Going(1)) /\ Behind /\ NotAhead /\ TurnsOver /\ Body

\* Where a recipe in a row goes on from a work step: to the next one, round the loop or
\* behind it.
LEMMA PassedInARow ==
  ASSUME InARow, NEW r \in Recipes, NEW i \in Works(r), NEW p \in Passed(r, r[i].next)
  PROVE  p = r[i].next \/ (r[i].next = i + 1 /\ i + 1 \in Loops(r) /\ p = r[i + 1].next)
<1> DEFINE C == {r[i].next} \cup {q \in DOMAIN r \cup {None} : i + 1 \in Loops(r) /\ r[i].next = i + 1 /\ q = r[i + 1].next}
<1>1. i \in Nat /\ r[i].next \in {i + 1, None} /\ r[i].next \in DOMAIN r \cup {None}
  BY RecipeFacts DEF InARow
<1>2. C \in SUBSET (DOMAIN r \cup {None}) /\ r[i].next \in C
  BY <1>1
<1>3. ASSUME NEW l \in C \ (Works(r) \cup {None}) PROVE r[l].next \in C
  <2>1. l \in Loops(r) /\ l \in Nat /\ l - 1 \in Works(r)
    BY <1>2, <1>3, LoopFacts DEF Loops
  <2>2. CASE l = r[i].next
    <3>1. l = i + 1
      BY <1>1, <1>3, <2>2
    <3> QED  BY <2>1, <2>2, <3>1, RecipeFacts DEF Loops
  <2>3. CASE i + 1 \in Loops(r) /\ l = r[i + 1].next
    <3>1. l \in {i + 2, None}
      BY <1>1, <2>3, RecipeFacts DEF InARow, Loops
    <3>2. i + 1 \in Works(r)
      BY <1>1, <1>3, <2>1, <3>1
    <3> QED  BY <2>3, <3>2 DEF Loops
  <2> QED  BY <1>3, <2>2, <2>3
<1>4. Passed(r, r[i].next) \subseteq C
  BY <1>2, <1>3 DEF Passed
<1> QED  BY <1>4

LEMMA AfterInARow ==
  ASSUME InARow, ToTheEnd, NEW r \in Recipes, NEW i \in Works(r), NEW g \in After(r, i)
  PROVE  /\ i \in Nat /\ g \in Nat
         /\ g = i + 1 \/ (i + 1 \in Loops(r) /\ (g = i + 2 \/ g = r[i + 1].from))
<1>1. PICK p \in Passed(r, r[i].next) : g = LeadsTo(r, p)
  BY DEF After
<1>2. p = r[i].next \/ (r[i].next = i + 1 /\ i + 1 \in Loops(r) /\ p = r[i + 1].next)
  BY PassedInARow
<1>3. i \in DOMAIN r /\ DOMAIN r = 1 .. Len(r) /\ Len(r) \in Nat /\ i \in Nat /\ Works(r) \subseteq DOMAIN r
  BY RecipeFacts
<1>4. g \in Nat
  BY <1>3, AfterTypes
<1>5. \A k \in DOMAIN r : r[k].next = k + 1 \/ (r[k].next = None /\ k = Len(r))
  BY DEF InARow, ToTheEnd
<1>6. CASE p = r[i].next
  <2>1. CASE p = None
    <3>1. i = Len(r)
      BY <1>3, <1>6, <2>1 DEF ToTheEnd
    <3> QED  BY <1>1, <1>3, <1>4, <2>1, <3>1 DEF LeadsTo
  <2>2. CASE p # None
    <3>1. p = i + 1 /\ p \in DOMAIN r
      BY <1>3, <1>5, <1>6, <2>2, RecipeFacts
    <3> QED  BY <1>1, <1>3, <1>4, <2>2, <3>1 DEF LeadsTo, Loops
  <2> QED  BY <2>1, <2>2
<1>7. CASE i + 1 \in Loops(r) /\ p = r[i + 1].next
  <2>1. i + 1 \in DOMAIN r /\ i + 1 \in Nat
    BY <1>3, <1>7, LoopFacts
  <2>2. CASE p = None
    <3>1. i + 1 = Len(r)
      BY <1>7, <2>1, <2>2 DEF ToTheEnd
    <3> QED  BY <1>1, <1>3, <1>4, <1>7, <2>2, <3>1 DEF LeadsTo
  <2>3. CASE p # None
    <3>1. p = i + 2 /\ p \in DOMAIN r
      BY <1>3, <1>5, <1>7, <2>1, <2>3, RecipeFacts
    <3>2. p \in Works(r)
      BY <1>3, <1>7, <3>1, LoopFacts DEF Loops
    <3> QED  BY <1>1, <1>3, <1>4, <1>7, <2>3, <3>1, <3>2 DEF LeadsTo
  <2> QED  BY <2>2, <2>3
<1> QED  BY <1>2, <1>3, <1>4, <1>6, <1>7

LEMMA MissInit == Init => MissInv
<1> SUFFICES ASSUME Init PROVE LoopTypes /\ (Jumping => Going(1)) /\ Behind /\ NotAhead /\ TurnsOver /\ Body
  BY DEF MissInv
<1>1. /\ recipe \in Recipes /\ ran = <<>> /\ multiLoopStep = <<>> /\ cmds = <<>> /\ cache = None
      /\ fresh = FALSE /\ finish = FALSE /\ LoopNo = 0 /\ saved.LoopNo = 0 /\ mod.step = 0
  BY DEF Init, NotSaved
<1>2. loop_flag = FALSE
  BY DEF Init
<1>3. \A i : Times(ran, i) = 0
  <2>1. <<>> \in Seq(Nat) /\ 0 \in Nat
    OBVIOUS
  <2> QED  BY <1>1, <2>1, TimesFacts
<1>4. \A l \in Loops(recipe) : l \in Nat /\ l > 2 /\ l - 1 # 0 /\ ~Known(l) /\ Round(l) = 0
  <2> SUFFICES ASSUME NEW l \in Loops(recipe) PROVE l \in Nat /\ l > 2 /\ ~Known(l) /\ Round(l) = 0
    OBVIOUS
  <2>1. l \in Nat /\ recipe[l].from < l - 1 /\ recipe[l].from \in Nat /\ recipe[l].from > 0
    BY <1>1, LoopFacts, RecipeFacts
  <2> QED  BY <1>1, <1>3, <2>1 DEF Known, Round
<1>5. LoopTypes
  <2>1. loop_flag \in BOOLEAN
    BY <1>2
  <2> QED  BY <1>1, <1>4, <2>1 DEF LoopTypes
<1>6. (Jumping => Going(1)) /\ Behind
  <2>1. \A i \in Works(recipe) : i \in Nat /\ i > 0
    BY <1>1, RecipeFacts
  <2> QED  BY <1>1, <2>1 DEF Jumping, Behind
<1>7. NotAhead
  <2>1. Flagged = 0
    BY <1>1, <1>2 DEF Flagged
  <2> QED  BY <1>1, <1>4, <2>1 DEF NotAhead
<1>8. TurnsOver
  <2>1. 0 \notin Works(recipe) \cup {End}
    BY <1>1, RecipeFacts DEF End, None
  <2> QED  BY <1>1, <1>4, <2>1 DEF TurnsOver, None
<1>9. Body
  <2> SUFFICES ASSUME NEW l \in Loops(recipe), NEW i \in recipe[l].from .. l - 1 PROVE i \in Nat /\ i > 0
    BY <1>1, <1>3, <1>4 DEF Body
  <2>1. recipe[l].from \in Nat /\ recipe[l].from > 0 /\ l \in Nat
    BY <1>1, LoopFacts, RecipeFacts
  <2> QED  BY <2>1
<1> QED  BY <1>5, <1>6, <1>7, <1>8, <1>9

\* A step of the program that leaves what is counted, given and run as it is.
LEMMA StillMissing ==
  ASSUME recipe \in Recipes, LoopTypes, Behind, NotAhead, TurnsOver, Body,
         UNCHANGED <<recipe, ran, JumpTo, LoopNo, loop_flag, multiLoopStep, saved>>, mod'.step = mod.step,
         (cmds' = <<>> /\ cache' = None) <=> (cmds = <<>> /\ cache = None),
         \A g \in Works(recipe) \cup {End} : cmds' = <<Set(g)>> \/ cache' = g => cmds = <<Set(g)>> \/ cache = g,
         (fresh \/ finish)' => fresh \/ finish
  PROVE  LoopTypes' /\ Behind' /\ NotAhead' /\ TurnsOver' /\ Body'
<1>1. \A l : Round(l)' = Round(l) /\ Known(l)' = Known(l)
  BY DEF Round, Known
<1>2. Flagged' = Flagged /\ End' = End
  BY DEF Flagged, End
<1>3. LoopTypes'
  BY <1>1 DEF LoopTypes
<1>4. Behind' /\ Body'
  BY <1>1 DEF Behind, Body
<1>5. NotAhead'
  BY <1>1, <1>2 DEF NotAhead
<1>6. TurnsOver'
  BY <1>1, <1>2 DEF TurnsOver
<1> QED  BY <1>3, <1>4, <1>5, <1>6

LEMMA MissBegin ==
  ASSUME InARow, ToTheEnd, recipe \in Recipes, OneLoop, RecipeTypes,
         LoopTypes, Behind, NotAhead, TurnsOver, Body,
         NEW g \in Works(recipe) \cup {End}, Begin(g), JumpTo = Onward(recipe, g),
         UNCHANGED <<recipe, JumpTo, LoopNo, loop_flag, multiLoopStep, saved>>, cmds' = <<>>, cache' = None,
         \/ g = 1 /\ mod.step = 0
         \/ mod.step \in Works(recipe) /\ g \in After(recipe, mod.step) /\ (cmds = <<Set(g)>> \/ cache = g)
  PROVE  LoopTypes' /\ Behind' /\ NotAhead' /\ TurnsOver' /\ Body'
<1>1. /\ DOMAIN recipe = 1 .. Len(recipe) /\ Len(recipe) \in Nat /\ End = Len(recipe) + 1 /\ End' = End
      /\ Works(recipe) \subseteq DOMAIN recipe /\ None = 0
  BY RecipeFacts DEF End, None
<1>2. g \in Nat /\ mod'.step = g /\ ran \in Seq(Nat) /\ ran' = Append(ran, g) /\ mod.step \in Nat
  BY <1>1 DEF Begin, RecipeTypes
<1>3. \A i : /\ Times(ran, i) \in Nat
             /\ Times(ran', i) = IF g = i THEN Times(ran, i) + 1 ELSE Times(ran, i)
  BY <1>2, TimesFacts
<1>4. PICK s \in Nat : s = mod.step
  BY <1>2
<1>5. \/ g = 1 /\ s = 0
      \/ g = s + 1
      \/ s + 1 \in Loops(recipe) /\ (g = s + 2 \/ g = recipe[s + 1].from)
  BY <1>4, AfterInARow
<1>6. LoopTypes'
  BY DEF LoopTypes, Known
<1>7. Behind'
  <2> SUFFICES ASSUME NEW i \in Works(recipe), i <= g PROVE Times(ran', i) >= 1
    BY <1>2 DEF Behind
  <2>1. i \in Nat /\ i > 0 /\ (i <= s => Times(ran, i) >= 1)
    BY <1>1, <1>4 DEF Behind
  <2>2. CASE i = g
    BY <1>3, <2>2
  <2>3. CASE i # g
    <3>1. i <= s
      <4>1. CASE s + 1 \in Loops(recipe) /\ g = recipe[s + 1].from
        <5>1. g < s
          BY <1>4, <4>1, LoopFacts
        <5> QED  BY <1>2, <2>1, <5>1
      <4>2. CASE s + 1 \in Loops(recipe) /\ g = s + 2
        <5>1. i # s + 1
          BY <4>2 DEF Loops
        <5> QED  BY <2>1, <2>3, <4>2, <5>1
      <4>3. CASE g = s + 1
        BY <2>1, <2>3, <4>3
      <4>4. CASE g = 1 /\ s = 0
        BY <2>1, <2>3, <4>4
      <4> QED  BY <1>5, <4>1, <4>2, <4>3, <4>4
    <3> QED  BY <1>3, <2>1, <2>3, <3>1
  <2> QED  BY <2>2, <2>3
<1>8. ASSUME NEW l \in Loops(recipe)
      PROVE  /\ l \in Nat /\ l \in DOMAIN recipe /\ recipe[l].from \in Nat /\ recipe[l].from > 0 /\ recipe[l].from < l - 1
             /\ recipe[l].turns \in Nat
             /\ Round(l) \in Nat /\ Round(l)' = IF g = l - 1 THEN Round(l) + 1 ELSE Round(l)
             /\ s + 1 \in Loops(recipe) => s + 1 = l
  <2>1. recipe[l].from \in Works(recipe)
    BY LoopFacts
  <2> QED  BY <1>1, <1>3, <2>1, LoopFacts, LoopTurns DEF Round, OneLoop
<1>9. NotAhead'
  <2> SUFFICES ASSUME NEW l \in Loops(recipe)
               PROVE  LET before == IF g = l - 1 THEN Round(l)' - 1 ELSE Round(l)'
                      IN  (Known(l)' => multiLoopStep'[l] <= before) /\ Flagged' <= before /\ saved'.LoopNo <= before
    BY <1>2 DEF NotAhead
  <2>1. (Known(l) => multiLoopStep[l] \in Nat) /\ Flagged \in Nat /\ saved.LoopNo \in Nat
    BY DEF LoopTypes, Flagged
  <2>2. /\ Known(l) => multiLoopStep[l] <= Round(l)
        /\ Flagged <= Round(l) /\ saved.LoopNo <= Round(l)
    BY <1>8, <2>1 DEF NotAhead
  <2>3. Flagged' = Flagged /\ Known(l)' = Known(l)
    BY DEF Flagged, Known
  <2> QED  BY <1>8, <2>2, <2>3
<1>10. TurnsOver'
  <2> SUFFICES ASSUME NEW l \in Loops(recipe), ~(Round(l)' >= recipe[l].turns)
               PROVE  g < l /\ (g = l - 1 => JumpTo = l)
    <3>1. 0 \notin Works(recipe) \cup {End}
      BY <1>1
    <3> QED  BY <1>1, <1>2, <3>1 DEF TurnsOver
  <2>1. ~(Round(l) >= recipe[l].turns)
    BY <1>8
  <2>2. g < l
    BY <1>8, <2>1 DEF TurnsOver
  <2>3. ASSUME g = l - 1 PROVE JumpTo = l
    <3>1. g \in DOMAIN recipe /\ g # Len(recipe) /\ g # Len(recipe) + 1
      BY <1>1, <1>2, <1>8, <2>3, LoopTurns
    <3>2. recipe[g].next = g + 1
      BY <1>8, <3>1 DEF InARow, ToTheEnd
    <3> QED  BY <1>8, <2>3, <3>1, <3>2 DEF Onward
  <2> QED  BY <2>2, <2>3
<1>11. Body'
  <2> SUFFICES ASSUME NEW l \in Loops(recipe), NEW i \in recipe[l].from .. l - 1
               PROVE  Times(ran', i) >= IF i <= g /\ g < l - 1 THEN Round(l)' + 1 ELSE Round(l)'
    BY <1>2 DEF Body
  <2>1. Times(ran, i) >= IF i <= s /\ s < l - 1 THEN Round(l) + 1 ELSE Round(l)
    BY <1>4 DEF Body
  <2>2. PICK t \in Nat, f \in Nat : t = Round(l) /\ f = recipe[l].from /\ f > 0 /\ f < l - 1 /\ l \in Nat /\ i \in f .. l - 1
    BY <1>8
  <2>3. PICK n \in Nat : n = Times(ran, i) /\ Times(ran', i) = IF g = i THEN n + 1 ELSE n
    BY <1>3
  <2>4. \/ g = 1 /\ s = 0
        \/ g = s + 1
        \/ s + 1 = l /\ (g = l + 1 \/ g = f)
    <3>1. CASE s + 1 \in Loops(recipe) /\ (g = s + 2 \/ g = recipe[s + 1].from)
      BY <1>8, <2>2, <3>1
    <3> QED  BY <1>5, <3>1
  <2>5. CASE g = l - 1
    <3>1. Round(l)' = t + 1
      BY <1>8, <2>2, <2>5
    <3>2. CASE i = l - 1
      <4>1. n = t
        BY <2>2, <2>3, <3>2 DEF Round
      <4> QED  BY <2>3, <2>5, <3>1, <3>2, <4>1
    <3>3. CASE i # l - 1
      <4>1. i <= s /\ s < l - 1
        BY <1>2, <2>2, <2>4, <2>5, <3>3
      <4>2. n >= t + 1
        BY <2>1, <2>2, <2>3, <4>1
      <4> QED  BY <2>2, <2>3, <2>5, <3>1, <3>3, <4>2
    <3> QED  BY <3>2, <3>3
  <2>6. CASE g # l - 1
    <3>1. Round(l)' = t /\ n >= t
      BY <1>8, <2>1, <2>2, <2>3, <2>6
    <3>2. CASE i <= g /\ g < l - 1 /\ i # g
      <4>1. i <= s /\ s < l - 1
        BY <1>2, <2>2, <2>4, <3>2
      <4>2. n >= t + 1
        BY <2>1, <2>2, <2>3, <4>1
      <4> QED  BY <2>2, <2>3, <3>1, <3>2, <4>2
    <3>3. CASE i = g
      BY <2>2, <2>3, <3>1, <3>3
    <3>4. CASE ~(i <= g /\ g < l - 1) /\ i # g
      BY <2>2, <2>3, <3>1, <3>4
    <3> QED  BY <3>2, <3>3, <3>4
  <2> QED  BY <2>5, <2>6
<1> QED  BY <1>6, <1>7, <1>9, <1>10, <1>11

LEMMA MissStart ==
  ASSUME recipe \in Recipes, jumps = 0, FlowInv, LoopTypes, Behind, NotAhead, TurnsOver, Body, Start
  PROVE  LoopTypes' /\ (Jumping => Going(1))' /\ Behind' /\ NotAhead' /\ TurnsOver' /\ Body'
<1>1. mod.step = 0 /\ cache = None /\ fresh' = FALSE /\ UNCHANGED <<recipe, ran, mod, cache, saved.LoopNo, loop_flag>>
  BY DEF FlowInv, RecipeTypes, UnderWay, Start, Active, module
<1>2. LoopNo' = 0 /\ multiLoopStep' = <<>> /\ finish' = FALSE
  BY DEF Start, Active
<1>3. cmds = <<>>
  BY DEF Start, FlowInv, GoingOn, Queued
<1>4. cmds' = <<Set(1), Go(1)>>
  BY <1>3 DEF Start, Active
<1>5. (Jumping => Going(1))'
  BY <1>4 DEF Going
<1>6. \A l : Round(l)' = Round(l) /\ ~Known(l)'
  BY <1>1, <1>2 DEF Round, Known
<1>7. LoopTypes'
  BY <1>1, <1>2, <1>6 DEF LoopTypes
<1>8. Behind' /\ Body'
  BY <1>1, <1>6 DEF Behind, Body
<1>9. NotAhead'
  <2>1. Flagged' <= Flagged /\ Flagged \in Nat /\ Flagged' \in Nat
    BY <1>1, <1>2 DEF LoopTypes, Flagged
  <2>2. ASSUME NEW l \in Loops(recipe) PROVE mod.step # l - 1
    <3>1. l - 1 \in Works(recipe)
      BY LoopFacts
    <3> QED  BY <1>1, <3>1, RecipeFacts
  <2>3. ASSUME NEW l \in Loops(recipe) PROVE Flagged <= Round(l) /\ saved.LoopNo <= Round(l)
    BY <1>1, <1>3, <2>2 DEF NotAhead
  <2>4. ASSUME NEW l \in Loops(recipe) PROVE Round(l) \in Nat
    BY TimesFacts DEF Round, FlowInv, RecipeTypes
  <2>5. ASSUME NEW l \in Loops(recipe) PROVE Flagged' <= Round(l)
    BY <2>1, <2>3, <2>4
  <2> QED  BY <1>1, <1>4, <1>6, <2>2, <2>3, <2>5 DEF NotAhead
<1>10. TurnsOver'
  <2>1. \A g : cmds' # <<Set(g)>>
    BY <1>4
  <2>2. End' = End
    BY <1>1 DEF End
  <2> QED  BY <1>1, <1>2, <1>6, <2>1, <2>2 DEF TurnsOver
<1> QED  BY <1>5, <1>7, <1>8, <1>9, <1>10

LEMMA MissRestart ==
  ASSUME recipe \in Recipes, FlowInv, LoopTypes, Behind, NotAhead, TurnsOver, Body, Restart
  PROVE  LoopTypes' /\ (Jumping => Going(1))' /\ Behind' /\ NotAhead' /\ TurnsOver' /\ Body'
<1>1. /\ UNCHANGED <<recipe, ran, mod, cache, saved>> /\ cmds' = <<>> /\ fresh' = FALSE /\ finish' = FALSE
      /\ LoopNo' = saved.LoopNo /\ multiLoopStep' = <<>> /\ loop_flag' = FALSE
  BY DEF Restart
<1>2. \A l : Round(l)' = Round(l) /\ ~Known(l)'
  BY <1>1 DEF Round, Known
<1>3. LoopTypes'
  <2>1. loop_flag' \in BOOLEAN
    BY <1>1
  <2> QED  BY <1>1, <1>2, <2>1 DEF LoopTypes
<1>4. ~Jumping'
  BY <1>1 DEF Jumping
<1>5. Behind' /\ Body'
  BY <1>1, <1>2 DEF Behind, Body
<1>6. NotAhead'
  <2>1. Flagged' = saved.LoopNo
    BY <1>1 DEF Flagged
  <2>2. ASSUME NEW l \in Loops(recipe) PROVE Round(l) \in Nat /\ saved.LoopNo \in Nat
    BY TimesFacts DEF Round, FlowInv, RecipeTypes, LoopTypes
  <2>3. ASSUME NEW l \in Loops(recipe) PROVE saved.LoopNo <= Round(l)
    BY <2>2 DEF NotAhead
  <2> QED  BY <1>1, <1>2, <2>1, <2>3 DEF NotAhead
<1>7. TurnsOver'
  <2>1. \A g : cmds' # <<Set(g)>>
    BY <1>1
  <2>2. End' = End
    BY <1>1 DEF End
  <2> QED  BY <1>1, <1>2, <2>1, <2>2 DEF TurnsOver
<1> QED  BY <1>3, <1>4, <1>5, <1>6, <1>7

\* What the cell finds ahead of a step before the end of a loop, and at it.
LEMMA AheadOfLoop ==
  ASSUME InARow, ToTheEnd, recipe \in Recipes, OneLoop, FlowInv, TurnsOver, Due,
         NEW l \in Loops(recipe), ~(Round(l) >= recipe[l].turns)
  PROVE  Ahead \in DOMAIN recipe /\ (Ahead = l \/ (Ahead \in Works(recipe) /\ Ahead < l))
<1>1. l \in Nat /\ l \in DOMAIN recipe /\ DOMAIN recipe = 1 .. Len(recipe) /\ Len(recipe) \in Nat /\ None = 0
  BY RecipeFacts, LoopFacts DEF None
<1>2. mod.step < l /\ (mod.step = l - 1 /\ finish => JumpTo = l)
  BY DEF TurnsOver
<1>3. /\ mod.step \in Works(recipe) /\ mod.step \in DOMAIN recipe /\ mod.step \in Nat
      /\ Ahead \in Passed(recipe, recipe[mod.step].next)
  <2>1. mod.step # End
    BY <1>1, <1>2 DEF End
  <2> QED  BY <1>1, <2>1, AheadFacts, RecipeFacts
<1>4. recipe[mod.step].next = mod.step + 1
  <2>1. mod.step # Len(recipe)
    BY <1>1, <1>2, <1>3
  <2> QED  BY <1>3, <2>1 DEF InARow, ToTheEnd
<1>5. CASE mod.step = l - 1
  <2>1. Dry => step_no = mod.step
    BY AheadFacts DEF Dry, FlowInv, RunDry
  <2>2. Ahead = l
    BY <1>1, <1>2, <1>3, <1>4, <1>5, <2>1 DEF Ahead, Dry, Due
  <2> QED  BY <1>1, <2>2
<1>6. CASE mod.step # l - 1
  <2>1. mod.step + 1 \notin Loops(recipe)
    BY <1>1, <1>3, <1>6 DEF OneLoop
  <2>2. Ahead = mod.step + 1
    BY <1>3, <1>4, <2>1, PassedInARow
  <2>3. Ahead \in DOMAIN recipe
    BY <1>1, <1>2, <1>3, <2>2
  <2> QED  BY <1>1, <1>2, <1>3, <1>6, <2>1, <2>2, <2>3 DEF Loops
<1> QED  BY <1>5, <1>6

\* The loop that is met, whatever has been lost: its turns are no more than were run.
LEMMA TurnsRun ==
  ASSUME InARow, recipe \in Recipes, FlowInv, LoopTypes, Behind, NotAhead, Due,
         NEW l \in Loops(recipe), Ahead = l
  PROVE  /\ mod.step = l - 1 /\ Round(l) \in Nat \ {0}
         /\ LoopNoNow \in Nat /\ LoopNoNow <= Flagged /\ Flagged <= Round(l) - 1
         /\ Turn(l) \in Nat /\ Turn(l) <= Round(l)
<1>1. l \in Nat /\ l - 1 \in Works(recipe) /\ l - 1 \in Nat /\ l \in DOMAIN recipe /\ l \notin Works(recipe) /\ None = 0
  BY LoopFacts, LoopTurns DEF None
<1>2. cmds = <<>> /\ cache = None
  BY AheadFacts
<1>3. mod.step \in Works(recipe) /\ mod.step \in Nat /\ Ahead \in Passed(recipe, recipe[mod.step].next)
  BY <1>1, AheadFacts, RecipeFacts
<1>4. mod.step = l - 1
  <2>1. recipe[mod.step].next \in {mod.step + 1, None}
    BY <1>3, RecipeFacts DEF InARow
  <2>2. CASE l = recipe[mod.step].next
    BY <1>1, <1>3, <2>1, <2>2
  <2>3. CASE mod.step + 1 \in Loops(recipe) /\ l = recipe[mod.step + 1].next
    <3>1. l \in {mod.step + 2, None}
      BY <1>3, <2>3 DEF InARow, Loops
    <3>2. mod.step + 1 = l - 1
      BY <1>1, <1>3, <3>1
    <3> QED  BY <1>1, <2>3, <3>2 DEF Loops
  <2> QED  BY <1>3, <2>2, <2>3, PassedInARow
<1>5. Round(l) \in Nat /\ Round(l) >= 1
  <2>1. Round(l) \in Nat
    BY TimesFacts DEF Round, FlowInv, RecipeTypes
  <2>2. l - 1 <= mod.step
    BY <1>1, <1>4
  <2> QED  BY <1>1, <2>1, <2>2 DEF Behind, Round
<1>6. LoopNoNow \in Nat /\ Flagged \in Nat /\ LoopNoNow <= Flagged
  BY DEF LoopTypes, LoopNoNow, Flagged
<1>7. Flagged <= Round(l) - 1 /\ (Known(l) => multiLoopStep[l] <= Round(l) - 1)
  BY <1>2, <1>4 DEF NotAhead
<1>8. Known(l) => multiLoopStep[l] \in Nat
  BY DEF LoopTypes
<1>9. Turn(l) \in Nat /\ Turn(l) <= Round(l)
  <2>1. CASE Known(l)
    BY <1>5, <1>7, <1>8, <2>1 DEF Turn
  <2>2. CASE ~Known(l)
    BY <1>5, <1>6, <1>7, <2>2 DEF Turn
  <2> QED  BY <2>1, <2>2
<1> QED  BY <1>4, <1>5, <1>6, <1>7, <1>9

LEMMA MissExecute ==
  ASSUME InARow, ToTheEnd, recipe \in Recipes, OneLoop, FlowInv,
         LoopTypes, Behind, NotAhead, TurnsOver, Body, Execute
  PROVE  LoopTypes' /\ (Jumping => Going(1))' /\ Behind' /\ NotAhead' /\ TurnsOver' /\ Body'
<1>1. Due /\ cmds = <<>> /\ cache = None /\ ~fresh /\ UNCHANGED <<recipe, mod, cache, fresh, ran>>
  BY AheadFacts DEF Execute, module
<1>2. \A l : Round(l)' = Round(l)
  BY <1>1 DEF Round
<1>3. Behind' /\ Body' /\ End' = End
  BY <1>1, <1>2 DEF Behind, Body, End
<1>4. /\ LoopNo \in Nat /\ LoopNoNow \in Nat /\ Flagged \in Nat /\ LoopNo <= Flagged /\ LoopNoNow <= Flagged
      /\ saved.LoopNo \in Nat
  BY DEF LoopTypes, LoopNoNow, Flagged
<1>5. ASSUME NEW l \in Loops(recipe)
      PROVE  \E b \in Nat : /\ b = (IF mod.step = l - 1 THEN Round(l) - 1 ELSE Round(l)) /\ b <= Round(l)
                            /\ Flagged <= b /\ saved.LoopNo <= b /\ (Known(l) => multiLoopStep[l] <= b)
                            /\ Round(l) \in Nat
  <2>1. Round(l) \in Nat
    BY TimesFacts DEF Round, FlowInv, RecipeTypes
  <2>2. LET b == IF mod.step = l - 1 THEN Round(l) - 1 ELSE Round(l)
        IN  Flagged <= b /\ saved.LoopNo <= b /\ (Known(l) => multiLoopStep[l] <= b)
    BY <1>1 DEF NotAhead
  <2> QED  BY <1>4, <2>1, <2>2
\* What it takes: LoopNo and the status file no more than before, unless a turn is given.
<1>6. ASSUME LoopTypes', Flagged' <= Flagged, saved'.LoopNo = saved.LoopNo \/ saved'.LoopNo <= Flagged,
             \A l \in Loops(recipe) : Known(l)' => (Known(l) /\ multiLoopStep'[l] = multiLoopStep[l]) \/ multiLoopStep'[l] = 0
      PROVE  NotAhead'
  <2> SUFFICES ASSUME NEW l \in Loops(recipe)
               PROVE  LET before == IF mod.step = l - 1 THEN Round(l) - 1 ELSE Round(l)
                          counted == IF cmds' = <<>> /\ cache' = None THEN before ELSE Round(l)
                      IN  /\ Known(l)' => multiLoopStep'[l] <= counted
                          /\ Flagged' <= counted
                          /\ saved'.LoopNo <= before
    BY <1>1, <1>2 DEF NotAhead
  <2>1. PICK b \in Nat : /\ b = (IF mod.step = l - 1 THEN Round(l) - 1 ELSE Round(l)) /\ b <= Round(l)
                         /\ Flagged <= b /\ saved.LoopNo <= b /\ (Known(l) => multiLoopStep[l] <= b)
                         /\ Round(l) \in Nat
    BY <1>5
  <2>2. saved'.LoopNo <= b /\ Flagged' <= b /\ Flagged' <= Round(l)
    <3>1. saved'.LoopNo \in Nat /\ Flagged' \in Nat
      BY <1>6 DEF LoopTypes, Flagged
    <3> QED  BY <1>4, <1>6, <2>1, <3>1
  <2>3. Known(l)' => multiLoopStep'[l] <= b /\ multiLoopStep'[l] <= Round(l)
    <3>1. Known(l)' => multiLoopStep'[l] \in Nat
      BY <1>1, <1>6 DEF LoopTypes
    <3>2. Known(l)' => multiLoopStep'[l] <= b
      BY <1>6, <2>1
    <3> QED  BY <2>1, <3>1, <3>2
  <2> QED  BY <2>1, <2>2, <2>3
<1>7. /\ \A g, h : Append(<<>>, Set(g)) = <<Set(h)>> => g = h
      /\ \A g : cmds' = <<>> \/ cmds' = Append(<<>>, Set(g)) => ~Jumping'
  BY DEF Set, Jumping
\* And what is given: a step before the loop or in it, or its turns are over.
<1>8. ASSUME \A l \in Loops(recipe) :
               Round(l) >= recipe[l].turns \/ (finish' = FALSE /\ \A g : cmds' = <<Set(g)>> => g < l)
      PROVE  TurnsOver'
  <2> SUFFICES ASSUME NEW l \in Loops(recipe), ~(Round(l) >= recipe[l].turns)
               PROVE  /\ mod.step < l
                      /\ \A g \in Works(recipe) \cup {End} : cmds' = <<Set(g)>> \/ cache = g => g < l
                      /\ ~(fresh \/ finish')
    BY <1>1, <1>2, <1>3 DEF TurnsOver
  <2> QED  BY <1>1, <1>8 DEF TurnsOver
<1>9. ASSUME LoopNo' \in Nat, loop_flag' \in BOOLEAN, saved' = saved \/ saved'.LoopNo \in Nat,
             UNCHANGED multiLoopStep \/ (\E l \in Loops(recipe), n \in Nat : SetCount(l, n))
      PROVE  LoopTypes'
  BY <1>1, <1>9 DEF LoopTypes, SetCount, Counted, Known
<1>10. CASE UNCHANGED <<status, cmds, saved>>
  <2>1. UNCHANGED <<LoopNo, loop_flag, multiLoopStep, JumpTo, finish, saved, cmds>>
    BY <1>10 DEF status
  <2>2. (Jumping => Going(1))'
    BY <1>1, <1>7, <2>1
  <2> QED  BY <1>1, <2>1, <2>2, StillMissing
<1>11. \/ UNCHANGED <<status, cmds, saved>>
       \/ /\ NextStep \/ NextTurn \/ LeaveLoop \/ SendEnd \/ Completed
          /\ saved' = saved \/ saved'.LoopNo = LoopNo'
          /\ finish' = FALSE => saved'.LoopNo = LoopNo'
  BY DEF Execute
<1>12. loop_flag \in BOOLEAN
  BY DEF LoopTypes
\* What Give and LeaveLoop make of LoopNo without a new turn.
<1>13. ASSUME LoopNo' = LoopNoNow, loop_flag' = (loop_flag /\ ~finish)
       PROVE  Flagged' <= Flagged /\ loop_flag' \in BOOLEAN /\ LoopNo' \in Nat
  <2>1. loop_flag' \in BOOLEAN
    BY <1>13
  <2>2. Flagged' <= Flagged
    <3>1. CASE finish
      BY <1>4, <1>13, <3>1 DEF Flagged
    <3>2. CASE ~finish
      <4>1. LoopNo' = LoopNo
        BY <1>13, <3>2 DEF LoopNoNow, ClearLoopNo
      <4>2. loop_flag' => loop_flag
        BY <1>13
      <4> QED  BY <1>4, <4>1, <4>2 DEF Flagged
    <3> QED  BY <3>1, <3>2
  <2> QED  BY <1>4, <1>13, <2>1, <2>2
<1>14. CASE saved' = saved \/ saved'.LoopNo = LoopNo'
  <2>1. CASE NextStep
    <3>1. /\ Ahead \in Works(recipe) /\ LoopNo' = LoopNoNow /\ loop_flag' = (loop_flag /\ ~finish)
          /\ finish' = FALSE /\ cmds' = Append(cmds, Set(Ahead)) /\ UNCHANGED multiLoopStep
      BY <2>1 DEF NextStep, Give
    <3>2. LoopTypes'
      BY <1>4, <1>9, <1>13, <1>14, <3>1
    <3>3. NotAhead'
      BY <1>4, <1>6, <1>13, <1>14, <3>1, <3>2 DEF Known
    <3>4. TurnsOver'
      <4>1. \A l \in Loops(recipe) : l \notin Works(recipe)
        BY LoopFacts
      <4> QED  BY <1>1, <1>7, <1>8, <3>1, <4>1, AheadOfLoop
    <3> QED  BY <1>1, <1>3, <1>7, <3>1, <3>2, <3>3, <3>4
  <2>2. CASE NextTurn
    <3>1. PICK l \in Loops(recipe) : l = Ahead
      BY <2>2, RecipeFacts DEF NextTurn, Loops, Steps
    <3>2. PICK n \in Nat : n = Turn(l) /\ n <= Round(l) /\ LoopNoNow <= Round(l) - 1 /\ Round(l) \in Nat /\ mod.step = l - 1
      BY <1>1, <1>4, <3>1, TurnsRun
    <3>3. /\ SetCount(l, n) /\ LoopNo' = LoopNoNow /\ loop_flag' = TRUE /\ finish' = FALSE
          /\ cmds' = Append(cmds, Set(recipe[l].from))
      BY <2>2, <3>1, <3>2 DEF NextTurn, Give
    <3>4. LoopTypes'
      <4>1. loop_flag' \in BOOLEAN
        BY <3>3
      <4> QED  BY <1>4, <1>9, <1>14, <3>1, <3>3, <4>1
    <3>5. \A k \in Loops(recipe) : k = l
      BY DEF OneLoop
    <3>6. NotAhead'
      <4>1. cmds' # <<>> /\ multiLoopStep'[l] = n /\ Flagged' = LoopNoNow + 1
        BY <1>1, <3>3 DEF SetCount, Counted, Flagged
      <4>2. Flagged' <= Round(l)
        BY <1>4, <3>2, <4>1
      <4>3. saved'.LoopNo <= Round(l) - 1
        <5>1. saved.LoopNo <= Round(l) - 1
          BY <3>2 DEF NotAhead
        <5> QED  BY <1>14, <3>2, <3>3, <5>1
      <4> QED  BY <1>1, <1>2, <3>2, <3>5, <4>1, <4>2, <4>3 DEF NotAhead
    <3>7. TurnsOver'
      <4>1. recipe[l].from < l
        BY <1>1, LoopFacts, RecipeFacts
      <4>2. \A g : cmds' = <<Set(g)>> => g = recipe[l].from
        BY <1>1, <1>7, <3>3
      <4> QED  BY <1>8, <3>3, <3>5, <4>1, <4>2
    <3> QED  BY <1>1, <1>3, <1>7, <3>3, <3>4, <3>6, <3>7
  <2>3. CASE LeaveLoop
    <3>1. PICK l \in Loops(recipe) : l = Ahead
      BY <2>3, RecipeFacts DEF LeaveLoop, Loops, Steps
    <3>2. Turn(l) \in Nat /\ Turn(l) <= Round(l) /\ Round(l) \in Nat
      BY <1>1, <3>1, TurnsRun
    <3>3. /\ Turn(l) >= recipe[l].turns /\ SetCount(l, 0) /\ UNCHANGED cmds
          /\ LoopNo' = LoopNoNow /\ loop_flag' = (loop_flag /\ ~finish)
      BY <2>3, <3>1 DEF LeaveLoop
    <3>4. LoopTypes'
      BY <1>4, <1>9, <1>13, <1>14, <3>1, <3>3
    <3>5. NotAhead'
      <4>1. \A k \in Loops(recipe) : Known(k)' => multiLoopStep'[k] = 0
        BY <3>3 DEF OneLoop, SetCount, Counted
      <4> QED  BY <1>4, <1>6, <1>13, <1>14, <3>3, <3>4, <4>1
    <3>6. TurnsOver'
      <4>1. Round(l) >= recipe[l].turns
        BY <3>2, <3>3, LoopTurns
      <4> QED  BY <1>8, <4>1 DEF OneLoop
    <3> QED  BY <1>1, <1>3, <1>7, <3>3, <3>4, <3>5, <3>6
  <2>4. CASE SendEnd
    <3>1. /\ Ahead = 0 /\ UNCHANGED <<LoopNo, loop_flag, multiLoopStep>> /\ finish' = FALSE
          /\ cmds' = Append(cmds, Set(End))
      BY <2>4 DEF SendEnd
    <3>2. LoopTypes'
      BY <1>4, <1>9, <1>12, <1>14, <3>1
    <3>3. NotAhead'
      <4>1. Flagged' = Flagged
        BY <3>1 DEF Flagged
      <4> QED  BY <1>4, <1>6, <1>14, <3>1, <3>2, <4>1 DEF Known
    <3>4. TurnsOver'
      <4>1. \A l \in Loops(recipe) : Round(l) >= recipe[l].turns
        BY <1>1, <3>1, AheadOfLoop, RecipeFacts DEF None
      <4> QED  BY <1>8, <4>1
    <3> QED  BY <1>1, <1>3, <1>7, <3>1, <3>2, <3>3, <3>4
  <2>5. CASE Completed
    <3>1. Ahead < 0 /\ LoopNo' = 0 /\ loop_flag' = FALSE /\ UNCHANGED <<multiLoopStep, cmds>>
      BY <2>5 DEF Completed
    <3>2. LoopTypes'
      <4>1. loop_flag' \in BOOLEAN
        BY <3>1
      <4> QED  BY <1>4, <1>9, <1>14, <3>1, <4>1
    <3>3. NotAhead'
      <4>1. Flagged' = 0
        BY <3>1 DEF Flagged
      <4>2. Flagged' <= Flagged /\ 0 <= Flagged
        BY <1>4, <4>1
      <4> QED  BY <1>6, <1>14, <3>1, <3>2, <4>2 DEF Known
    <3>4. TurnsOver'
      <4>1. \A l \in Loops(recipe) : Round(l) >= recipe[l].turns
        BY <1>1, <3>1, AheadOfLoop, RecipeFacts
      <4> QED  BY <1>8, <4>1
    <3> QED  BY <1>1, <1>3, <1>7, <3>1, <3>2, <3>3, <3>4
  <2> QED  BY <1>10, <1>11, <2>1, <2>2, <2>3, <2>4, <2>5
<1> QED  BY <1>10, <1>11, <1>14

LEMMA MissTake ==
  ASSUME InARow, ToTheEnd, recipe \in Recipes, jumps = 0, OneLoop, FlowInv,
         LoopTypes, Jumping => Going(1), Behind, NotAhead, TurnsOver, Body, Take
  PROVE  LoopTypes' /\ (Jumping => Going(1))' /\ Behind' /\ NotAhead' /\ TurnsOver' /\ Body'
<1>1. UNCHANGED <<recipe, JumpTo, finish, LoopNo, loop_flag, multiLoopStep, saved>> /\ cmds # <<>>
  BY DEF Take, Environment, status
<1>2. RecipeTypes /\ UnderWay /\ None \notin Works(recipe) \cup {End}
  BY RecipeFacts DEF FlowInv, End, None
<1>3. CASE Jumping
  <2>1. Going(1) /\ ran = <<>> /\ mod.state = "idle" /\ cache = None /\ mod.step = 0
    BY <1>2, <1>3, GoTaken DEF UnderWay
  <2>2. CASE cmds' = <<Go(1)>> /\ UNCHANGED <<mod, cache, fresh, ran>>
    <3>1. \A g : cmds' # <<Set(g)>>
      BY <2>2 DEF Set, Go
    <3>2. (Jumping => Going(1))' /\ cmds' # <<>>
      BY <2>2 DEF Going, Go
    <3> QED  BY <1>1, <2>2, <3>1, <3>2, StillMissing
  <2>3. CASE cmds' = <<>> /\ Begin(1) /\ cache' = None
    <3>1. PICK i \in Works(recipe) : Going(i) /\ JumpTo = recipe[i].next
      BY <1>3 DEF FlowInv, GoingOn
    <3>2. i = 1
      BY <2>1, <3>1 DEF Going, Set, Go
    <3>3. JumpTo = Onward(recipe, 1) /\ 1 \in Works(recipe)
      BY <3>1, <3>2, RecipeFacts DEF Onward
    <3>4. ~Jumping'
      BY <2>3 DEF Jumping
    <3> QED  BY <1>1, <1>2, <2>1, <2>3, <3>3, <3>4, MissBegin
  <2> QED  BY <1>3, <2>1, <2>2, <2>3, GoTaken
<1>4. CASE ~Jumping
  <2>1. mod.state \in {"running", "waiting"} /\ cmds' = <<>> /\ cache = None
    BY <1>4, QueuedStep
  <2>2. PICK g \in Works(recipe) \cup {End} : cmds = <<Set(g)>> /\ Given(g)
    BY <1>1, <1>4 DEF FlowInv, Queued
  <2>3. Head(cmds).to = "set" /\ Head(cmds).step = g /\ ~Jumping'
    BY <2>1, <2>2 DEF Set, Jumping
  <2>4. CASE mod.state = "waiting"
    <3>1. Begin(g) /\ cache' = None
      BY <2>3, <2>4 DEF Take
    <3>2. mod.step \in Works(recipe)
      BY <1>2, <2>1 DEF UnderWay
    <3> QED  BY <1>1, <1>2, <2>1, <2>2, <2>3, <3>1, <3>2, MissBegin DEF Given
  <2>5. CASE mod.state = "running"
    <3>1. cache' = g /\ UNCHANGED <<mod, fresh, ran>>
      BY <2>3, <2>5 DEF Take
    <3>2. cache' # None
      BY <1>2, <3>1
    <3>3. \A h : cmds' = <<Set(h)>> \/ cache' = h => cmds = <<Set(h)>>
      BY <2>1, <2>2, <3>1
    <3> QED  BY <1>1, <2>3, <3>1, <3>2, <3>3, StillMissing
  <2> QED  BY <2>1, <2>4, <2>5
<1> QED  BY <1>3, <1>4

LEMMA MissStepOver ==
  ASSUME InARow, ToTheEnd, recipe \in Recipes, OneLoop, FlowInv,
         LoopTypes, Behind, NotAhead, TurnsOver, Body, StepOver
  PROVE  LoopTypes' /\ (Jumping => Going(1))' /\ Behind' /\ NotAhead' /\ TurnsOver' /\ Body'
<1>1. /\ UNCHANGED <<recipe, JumpTo, finish, LoopNo, loop_flag, multiLoopStep, saved, cmds>>
      /\ cmds = <<>> /\ cache' = None /\ mod.state = "running"
  BY DEF StepOver, Environment, status
<1>2. RecipeTypes /\ UnderWay /\ ~Jumping /\ ~Jumping' /\ Cached
  BY <1>1 DEF FlowInv, Jumping
<1>3. CASE cache = None
  <2>1. mod'.step = mod.step /\ UNCHANGED <<fresh, ran>>
    BY <1>2, <1>3 DEF StepOver, RecipeTypes
  <2> QED  BY <1>1, <1>2, <1>3, <2>1, StillMissing
<1>4. CASE cache # None
  <2>1. Begin(cache) /\ Given(cache) /\ cache \in Works(recipe) \cup {End} /\ mod.step \in Works(recipe)
    BY <1>1, <1>2, <1>4 DEF StepOver, Cached, RecipeTypes, UnderWay
  <2> QED  BY <1>1, <1>2, <2>1, MissBegin DEF Given
<1> QED  BY <1>3, <1>4

LEMMA MissNext == InARow /\ ToTheEnd /\ FollowInv /\ MissInv /\ [Next]_vars => MissInv'
<1> SUFFICES ASSUME InARow, ToTheEnd, FollowInv, MissInv, [Next]_vars, jumps' = 0, OneLoop'
             PROVE  LoopTypes' /\ (Jumping => Going(1))' /\ Behind' /\ NotAhead' /\ TurnsOver' /\ Body'
  BY DEF MissInv
<1>1. jumps = 0 /\ UNCHANGED <<recipe, jumps>>
  BY Steady DEF FollowInv
<1>2. recipe \in Recipes /\ FlowInv /\ OneLoop
  BY <1>1 DEF FollowInv, JumpSaved, OneLoop
<1>3. LoopTypes /\ (Jumping => Going(1)) /\ Behind /\ NotAhead /\ TurnsOver /\ Body
  BY <1>1, <1>2 DEF MissInv
<1>4. CASE Start
  BY <1>1, <1>2, <1>3, <1>4, MissStart
<1>5. CASE Execute
  BY <1>2, <1>3, <1>5, MissExecute
<1>6. CASE Restart
  BY <1>2, <1>3, <1>6, MissRestart
<1>7. CASE Take
  BY <1>1, <1>2, <1>3, <1>7, MissTake
<1>8. CASE StepOver
  BY <1>2, <1>3, <1>8, MissStepOver
<1>9. CASE Record \/ Lose \/ UNCHANGED vars
  <2>1. UNCHANGED <<recipe, ran, JumpTo, LoopNo, loop_flag, multiLoopStep, saved, mod, cmds, cache>>
    BY <1>9 DEF Record, Lose, Environment, status, vars, module
  <2>2. (fresh \/ finish)' => fresh \/ finish
    <3>1. CASE Record
      BY <3>1 DEF Record
    <3>2. CASE Lose
      BY <3>2 DEF Lose, Environment, status
    <3>3. CASE UNCHANGED vars
      BY <3>3 DEF vars, status, module
    <3> QED  BY <1>9, <3>1, <3>2, <3>3
  <2>3. (Jumping => Going(1))'
    BY <1>3, <2>1 DEF Jumping, Going
  <2> QED  BY <1>2, <1>3, <2>1, <2>2, <2>3, StillMissing
<1>10. ~Jump
  BY <1>1 DEF Jump
<1> QED  BY <1>4, <1>5, <1>6, <1>7, <1>8, <1>9, <1>10 DEF Next

\* With one loop at most, no restart and no lost record makes the module run a step less
\* often than the recipe says (channel_step_execute, loop_workstep_jump, work_logic_init),
\* for every recipe in a row and any number of lost records and restarts.
THEOREM NoneMissingThm == ASSUME InARow, ToTheEnd PROVE Spec => []NoneMissing
<1>1. FollowInv /\ MissInv /\ [Next]_vars => MissInv'
  BY MissNext
<1>2. FollowInv /\ MissInv => NoneMissing
  <2> SUFFICES ASSUME FollowInv, MissInv, mod.state = "finish", jumps = 0, \A k, l \in Steps \ Works(recipe) : k = l
               PROVE  /\ \A i \in Works(recipe) : Times(ran, i) >= 1
                      /\ \A l \in Steps \ Works(recipe) :
                           \A i \in recipe[l].from .. l - 1 : Times(ran, i) >= recipe[l].turns
    BY DEF NoneMissing
  <2>1. recipe \in Recipes /\ FlowInv
    BY DEF FollowInv, JumpSaved
  <2>2. /\ mod.step = End /\ DOMAIN recipe = 1 .. Len(recipe) /\ Len(recipe) \in Nat /\ End = Len(recipe) + 1
        /\ Steps = DOMAIN recipe /\ Works(recipe) \subseteq DOMAIN recipe
    BY <2>1, RecipeFacts DEF FlowInv, UnderWay, End, Steps
  <2>3. Behind /\ TurnsOver /\ Body
    BY <2>2 DEF MissInv, OneLoop, Loops
  <2>4. ASSUME NEW i \in Works(recipe) PROVE Times(ran, i) >= 1
    BY <2>2, <2>3 DEF Behind
  <2>5. ASSUME NEW l \in Steps \ Works(recipe), NEW i \in recipe[l].from .. l - 1
        PROVE  Times(ran, i) >= recipe[l].turns
    <3>1. l \in Loops(recipe) /\ l \in Nat
      BY <2>2 DEF Loops
    <3>2. Round(l) >= recipe[l].turns
      BY <2>2, <2>3, <3>1 DEF TurnsOver
    <3>3. Times(ran, i) >= Round(l)
      BY <2>2, <2>3, <3>1 DEF Body
    <3>4. Round(l) \in Nat /\ Times(ran, i) \in Nat /\ recipe[l].turns \in Nat
      BY <2>1, <3>1, TimesFacts, LoopTurns DEF Round, FlowInv, RecipeTypes
    <3> QED  BY <3>2, <3>3, <3>4
  <2> QED  BY <2>4, <2>5
<1> QED  BY <1>1, <1>2, MissInit, FollowSafe, PTL DEF Spec
=============================================================================
