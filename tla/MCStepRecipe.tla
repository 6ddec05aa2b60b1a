---------------------------- MODULE MCStepRecipe ----------------------------
(***************************************************************************)
(* StepRecipe for TLC: the values of its constants, and a test of the      *)
(* reference its properties use against the recipe written out.            *)
(***************************************************************************)
EXTENDS StepRecipe

Work(next) == [turns |-> 0, from |-> 0, next |-> next]
Loop(from, turns, next) == [turns |-> turns, from |-> from, next |-> next]

OneLoop == <<Work(2), Work(3), Loop(1, 3, 4), Work(0)>>
Nested == <<Work(2), Work(3), Loop(1, 2, 4), Work(5), Loop(1, 2, 6), Work(0)>>
TwoLoops == <<Work(2), Work(3), Loop(1, 2, 4), Work(5), Work(6), Loop(4, 3, 0)>>
Loops == {OneLoop, Nested, TwoLoops}

-----------------------------------------------------------------------------
\* The recipe written out: the steps of a loop as often as it says, its inner loops within.
Unrolled(r) ==
  LET U[first \in 1 .. Len(r) + 1, end \in 0 .. Len(r)] ==
        LET loops == {l \in first .. end : l \notin Works(r) /\ r[l].from >= first}
            outer == CHOOSE l \in loops : \A k \in loops : k <= l
            Turns[n \in Nat] == IF n = 0 THEN <<>> ELSE Turns[n - 1] \o U[r[outer].from, outer - 1]
        IN  IF loops = {} THEN [i \in 1 .. end - first + 1 |-> first + i - 1]
            ELSE U[first, r[outer].from - 1] \o Turns[r[outer].turns] \o U[outer + 1, end]
  IN  U[1, Len(r)] \o <<Len(r) + 1>>

\* The recipes of n steps whose loops lie within one another or one behind the other.
NestedRecipes(n) ==
  LET places == {L \in SUBSET (3 .. n) : \A l \in L : l - 1 \notin L}
      StepAt(i, L, from, turns) ==
        [turns |-> IF i \in L THEN turns[i] ELSE 0, from |-> IF i \in L THEN from[i] ELSE 0,
         next |-> IF i = n THEN None ELSE i + 1]
      Of(L) == {[i \in 1 .. n |-> StepAt(i, L, from, turns)] : from \in [L -> 1 .. n], turns \in [L -> 1 .. 2]}
  IN  {r \in UNION {Of(L) : L \in places} :
         /\ \A i \in 1 .. n : IsStep(r, i)
         /\ \A i, k \in DOMAIN r \ Works(r) : k < i => r[i].from <= r[k].from \/ r[i].from > k}
TestRecipes == Loops \cup UNION {NestedRecipes(n) : n \in 1 .. 7}

\* Following leads through the recipe as it is written out, and the counts that NoneMissing
\* asks for are those of the recipe written out.
ASSUME InARow /\ ToTheEnd
ASSUME \A r \in TestRecipes :
  LET written == Unrolled(r)
  IN  \A k \in 2 .. Len(written) : written[k] = Following(r, SubSeq(written, 1, k - 1))
ASSUME \A r \in TestRecipes : \A l \in DOMAIN r \ Works(r) :
  DOMAIN r \ Works(r) = {l} =>
    \A i \in Works(r) : Times(Unrolled(r), i) = IF i \in r[l].from .. l - 1 THEN r[l].turns ELSE 1
=============================================================================
