----------------------------- MODULE LinkProofs -----------------------------
(***************************************************************************)
(* Theorems about ChannelLink: its types; a module that beats is not cut   *)
(* off; and a command is carried out at most once while the line holds.    *)
(*                                                                         *)
(* The last two rest on IdInv, which orders the commands of a channel from *)
(* the reply under way to the last one pushed: the frames on the wire, the *)
(* resend list and the ids the module has carried out.                     *)
(*                                                                         *)
(* StillOpen is a recursive function; that it exists, and what it returns, *)
(* is proved by induction on naturals, which the library's induction       *)
(* theorems cannot be cited for: CountingUp derives it from the fact that  *)
(* less-than is well founded.                                              *)
(***************************************************************************)
EXTENDS ChannelLink, SequenceTheorems, WellFoundedInduction, FiniteSetTheorems, TLAPS

-----------------------------------------------------------------------------
(* Induction, and what StillOpen keeps of a resend list.                   *)


LEMMA Descent == \E R : IsWellFoundedOn(R, Nat) /\ \A a, b \in Nat : a < b => <<a, b>> \in R
<1>1. \A a, b \in Nat : a < b => <<a, b>> \in OpToRel(<, Nat)
  BY DEF OpToRel
<1>2. IsWellFoundedOn(OpToRel(<, Nat), Nat)
  BY NatLessThanWellFounded
<1>3. \A R : R = OpToRel(<, Nat)
              => IsWellFoundedOn(R, Nat) /\ \A a, b \in Nat : a < b => <<a, b>> \in R
  BY <1>1, <1>2, Zenon
<1> QED  BY <1>3, Zenon

LEMMA Least ==
  ASSUME NEW D \in SUBSET Nat, NEW x \in D
  PROVE  \E m \in D : \A n \in D : m <= n
<1>1. PICK R : IsWellFoundedOn(R, Nat) /\ \A a, b \in Nat : a < b => <<a, b>> \in R
  BY Descent
<1>2. D \subseteq Nat /\ D # {}
  OBVIOUS
<1>3. PICK m \in D : \A n \in D : ~(<<n, m>> \in R)
  <2>1. IsWellFoundedOn(R, Nat)
    BY <1>1
  <2> QED  BY <1>2, <2>1, WFMin
<1>4. ASSUME NEW n \in D PROVE m <= n
  <2>1. m \in Nat /\ n \in Nat
    BY <1>2, Zenon
  <2>2. ~(n < m)
    BY <1>1, <1>3, <2>1, Zenon
  <2> QED  BY <2>1, <2>2
<1> QED  BY <1>4, Zenon

LEMMA CountingUp ==
  ASSUME NEW T \in SUBSET Nat, 0 \in T, \A n \in T : n + 1 \in T
  PROVE  T = Nat
<1>1. ASSUME NEW x \in Nat, x \notin T PROVE FALSE
  <2>1. PICK m \in Nat \ T : \A n \in Nat \ T : m <= n
    BY <1>1, Least
  <2>2. m # 0 /\ m - 1 \in Nat /\ ~(m <= m - 1) /\ (m - 1) + 1 = m
    BY <2>1
  <2>3. m - 1 \in T
    BY <2>1, <2>2
  <2> QED  BY <2>1, <2>2, <2>3
<1>2. \A x \in Nat : x \in T
  BY <1>1, Zenon
<1>3. \A x \in T : x \in Nat
  OBVIOUS
<1> QED  BY <1>2, <1>3, Zenon

EntryAt(c, i) == [reSendList[c][i] EXCEPT !.age = 2]
After(c, f, i) ==
  IF i = 0 THEN <<>>
  ELSE IF Acked(c, reSendList[c][i]) THEN f[i - 1] ELSE Append(f[i - 1], EntryAt(c, i))

LEMMA OpenExists ==
  ASSUME NEW c
  PROVE  \A n \in Nat : \E f : f = [i \in 0..n |-> After(c, f, i)]
<1> DEFINE T == {n \in Nat : \E f : f = [i \in 0..n |-> After(c, f, i)]}
<1>1. 0 \in T
  <2> DEFINE g == [i \in 0..0 |-> <<>>]
  <2>1. g = [i \in 0..0 |-> After(c, g, i)]
    BY DEF After
  <2> QED  BY <2>1
<1>2. ASSUME NEW n \in T PROVE n + 1 \in T
  <2>1. PICK f : f = [i \in 0..n |-> After(c, f, i)]
    OBVIOUS
  <2> DEFINE next == IF Acked(c, reSendList[c][n + 1]) THEN f[n] ELSE Append(f[n], EntryAt(c, n + 1))
             g == [i \in 0..(n + 1) |-> IF i = n + 1 THEN next ELSE f[i]]
  <2>2. \A i \in 0..n : g[i] = f[i]
    OBVIOUS
  <2>3. ASSUME NEW i \in 0..(n + 1) PROVE g[i] = After(c, g, i)
    <3>1. CASE i = n + 1
      <4>1. g[n] = f[n] /\ (n + 1) - 1 = n /\ g[n + 1] = next /\ n + 1 # 0
        BY <2>2
      <4> HIDE DEF g
      <4> QED  BY <3>1, <4>1 DEF After
    <3>2. CASE i \in 0..n
      <4>1. g[i] = f[i] /\ f[i] = After(c, f, i)
        BY <2>1, <2>2, <3>2
      <4>2. i = 0 \/ (i - 1 \in 0..n /\ g[i - 1] = f[i - 1])
        BY <2>2, <3>2
      <4> HIDE DEF g
      <4> QED  BY <4>1, <4>2 DEF After
    <3> QED  BY <3>1, <3>2
  <2>4. g = [i \in 0..(n + 1) |-> g[i]]
    OBVIOUS
  <2> HIDE DEF g
  <2>5. g = [i \in 0..(n + 1) |-> After(c, g, i)]
    BY <2>3, <2>4
  <2> QED  BY <2>5
<1> HIDE DEF T
<1>3. T \in SUBSET Nat
  BY DEF T
<1>4. T = Nat
  BY <1>1, <1>2, <1>3, CountingUp, Zenon
<1> QED  BY <1>4 DEF T

LEMMA StillOpenIs ==
  ASSUME NEW c, reSendList[c] \in Seq(Entry)
  PROVE  StillOpen(c) = [i \in 0..Len(reSendList[c]) |-> After(c, StillOpen(c), i)]
<1> DEFINE n == Len(reSendList[c])
<1>1. n \in Nat
  OBVIOUS
<1>2. \E f : f = [i \in 0..n |-> After(c, f, i)]
  BY <1>1, OpenExists
<1> QED  BY <1>2 DEF StillOpen, After, EntryAt

-----------------------------------------------------------------------------
(* Types.                                                                   *)

LEMMA ConstantTypes ==
  /\ IsFiniteSet(Chans) /\ First \in Chans
  /\ BeatMax \in Nat /\ FeatMod \in Nat /\ FeatMod # 0 /\ MaxLag \in Nat
  /\ MaxCmds \in Nat /\ MaxStops \in Nat /\ MaxSilent \in Nat
  /\ \A kind \in CmdKinds : kind \in AllKinds
  /\ \A S \in SUBSET Chans : IsFiniteSet(S) /\ Cardinality(S) \in Nat
BY LinkAssumption, FS_Subset, FS_CardinalityType

LEMMA NextFeatType ==
  ASSUME NEW feat \in Feat, NEW n \in Nat
  PROVE  NextFeat(feat, n) \in Feat
<1>1. feat + n \in Nat
  BY ConstantTypes DEF Feat
<1> QED  BY <1>1, ConstantTypes DEF NextFeat, Feat

\* What a Transmit puts on the wire.
FrameOf(cmd, num, c) == Reply(cmd[c], NextFeat(cellfeat, num[c]))

Sendable(S, cmd, num) ==
  \A c \in S : /\ cmd[c].kind \in AllKinds \cup {"BEAT"} /\ cmd[c].id \in 0..MaxCmds
               /\ num[c] \in Nat

LEMMA TransmitWire ==
  ASSUME NEW S \in SUBSET Chans, NEW cmd, NEW num, Transmit(S, cmd, num),
         cellfeat \in Feat, wire \in [Chans -> Seq(Answer)], Sendable(S, cmd, num)
  PROVE  /\ cellfeat' \in Feat
         /\ wire' \in [Chans -> Seq(Answer)]
         /\ \A c \in Chans : wire'[c] = wire[c] \/ (c \in S /\ Heard)
         /\ \A c \in S : FrameOf(cmd, num, c) \in Answer
<1>1. cellfeat' \in Feat
  BY NextFeatType, ConstantTypes DEF Transmit
<1>2. ASSUME NEW c \in S PROVE Reply(cmd[c], NextFeat(cellfeat, num[c])) \in Answer
  BY <1>2, NextFeatType DEF Reply, Answer, Sendable
<1>3. \A c \in Chans : wire'[c] = IF c \in S /\ Heard
        THEN Append(wire[c], Reply(cmd[c], NextFeat(cellfeat, num[c]))) ELSE wire[c]
  BY DEF Transmit
<1>4. wire' = [c \in Chans |-> wire'[c]]
  BY DEF Transmit
<1>5. ASSUME NEW c \in Chans PROVE wire'[c] \in Seq(Answer)
  <2>1. CASE c \in S /\ Heard
    <3>1. PICK a \in Answer : wire'[c] = Append(wire[c], a)
      BY <1>2, <1>3, <2>1
    <3>2. wire[c] \in Seq(Answer)
      OBVIOUS
    <3>3. Append(wire[c], a) \in Seq(Answer)
      BY <3>2, AppendProperties
    <3> QED  BY <3>1, <3>3
  <2> QED  BY <1>3, <2>1
<1> QED  BY <1>1, <1>2, <1>3, <1>4, <1>5 DEF FrameOf

\* Its use for one frame of one channel.
LEMMA SingleWire ==
  ASSUME NEW c \in Chans, NEW kind \in AllKinds \cup {"BEAT"}, Single(c, kind),
         cellfeat \in Feat, wire \in [Chans -> Seq(Answer)]
  PROVE  /\ cellfeat' \in Feat
         /\ wire' \in [Chans -> Seq(Answer)]
         /\ \A d \in Chans : wire'[d] = wire[d] \/ (d = c /\ Heard)
         /\ \E a \in Answer : /\ a.kind = kind /\ a.id = 0
                              /\ Heard => wire'[c] = Append(wire[c], a)
<1> DEFINE cmd == [d \in {c} |-> [kind |-> kind, id |-> 0]]
           num == [d \in {c} |-> 1]
           a == FrameOf(cmd, num, c)
<1>1. Transmit({c}, cmd, num) /\ {c} \in SUBSET Chans
  BY DEF Single
<1>2. /\ cmd[c].kind = kind /\ cmd[c].id = 0 /\ num[c] \in Nat
      /\ cmd[c].kind \in AllKinds \cup {"BEAT"} /\ cmd[c].id \in 0..MaxCmds
  BY ConstantTypes
<1>3. a.kind = kind /\ a.id = 0
  BY <1>2 DEF FrameOf, Reply
<1> HIDE DEF cmd, num
<1>4. Sendable({c}, cmd, num)
  BY <1>2 DEF Sendable
<1>5. /\ cellfeat' \in Feat
      /\ wire' \in [Chans -> Seq(Answer)]
      /\ \A d \in Chans : wire'[d] = wire[d] \/ (d \in {c} /\ Heard)
      /\ \A d \in {c} : FrameOf(cmd, num, d) \in Answer
  BY <1>1, <1>4, TransmitWire
<1>6. \A d \in {c} : Heard => wire'[d] = Append(wire[d], FrameOf(cmd, num, d))
  BY <1>1 DEF Transmit, FrameOf
<1> QED  BY <1>3, <1>5, <1>6

LEMMA TypesInit == Init => TypeOK
<1> SUFFICES ASSUME Init PROVE TypeOK
  OBVIOUS
<1>1. /\ m_cmd_queue \in [Chans -> Seq(Command)] /\ reSendList \in [Chans -> Seq(Entry)]
      /\ wire \in [Chans -> Seq(Answer)]
  BY EmptySeq DEF Init
<1>2. cellfeat \in Feat /\ m_heartbeat_cnt \in 0..(BeatMax + 1)
  BY ConstantTypes DEF Init, Feat
<1>3. m_heartbeat_tick \in [Chans -> 0..CheckTick] /\ m_ack_info \in [Chans -> SUBSET Ack]
  BY ConstantTypes DEF Init, CheckTick
<1>4. /\ answered \subseteq 1..MaxCmds
      /\ cmds \in 0..MaxCmds /\ stops \in 0..MaxStops /\ silences \in 0..MaxSilent
  BY ConstantTypes DEF Init
<1>5. /\ pc \in {"link", "beat", "msg", "send", "reply", "resend"}
      /\ state \in {"NoConnect", "NewConnect", "Connected", "DisConnect"}
      /\ m_is_connected \in [Chans -> BOOLEAN] /\ silent \in BOOLEAN
  BY DEF Init
<1> QED  BY <1>1, <1>2, <1>3, <1>4, <1>5 DEF TypeOK

\* The entries grow older by one heartbeat.
LEMMA AgedEntries ==
  ASSUME NEW list \in Seq(Entry)
  PROVE  /\ Aged(list) \in Seq(Entry) /\ Len(Aged(list)) = Len(list)
         /\ \A i \in 1..Len(list) :
              /\ Aged(list)[i].id = list[i].id /\ Aged(list)[i].kind = list[i].kind
              /\ Aged(list)[i].feat = list[i].feat
              /\ Aged(list)[i].age = IF list[i].age < 2 THEN list[i].age + 1 ELSE 2
<1>1. Len(list) \in Nat /\ DOMAIN list = 1..Len(list)
  OBVIOUS
<1> DEFINE e(i) == [list[i] EXCEPT !.age = IF @ < 2 THEN @ + 1 ELSE 2]
<1>2. ASSUME NEW i \in 1..Len(list)
      PROVE  /\ e(i) \in Entry
             /\ e(i).id = list[i].id /\ e(i).kind = list[i].kind /\ e(i).feat = list[i].feat
             /\ e(i).age = IF list[i].age < 2 THEN list[i].age + 1 ELSE 2
  <2>1. list[i] \in Entry
    OBVIOUS
  <2> QED  BY <2>1 DEF Entry
<1>3. Aged(list) = [i \in 1..Len(list) |-> e(i)]
  BY <1>1 DEF Aged
<1> HIDE DEF e
<1>4. Aged(list) \in [1..Len(list) -> Entry]
  BY <1>2, <1>3
<1>5. Aged(list) \in Seq(Entry) /\ Len(Aged(list)) = Len(list)
  BY <1>1, <1>4
<1>6. \A i \in 1..Len(list) : Aged(list)[i] = e(i)
  BY <1>3
<1> QED  BY <1>2, <1>5, <1>6

\* What check_ack_response leaves of the first i entries: late entries without an
\* answer, in the order of the list.
Sorted(s) == \A i, j \in 1..Len(s) : i < j => s[i].id < s[j].id
LeftOf(c, i, s) ==
  /\ s \in Seq(Entry)
  /\ \A j \in 1..Len(s) : \E k \in 1..i :
       s[j] = EntryAt(c, k) /\ ~Acked(c, reSendList[c][k])
  /\ Sorted(reSendList[c]) => Sorted(s)

LEMMA EntryAtType ==
  ASSUME NEW c, reSendList[c] \in Seq(Entry), NEW k \in 1..Len(reSendList[c])
  PROVE  /\ EntryAt(c, k) \in Entry /\ EntryAt(c, k).age = 2
         /\ EntryAt(c, k).id = reSendList[c][k].id /\ EntryAt(c, k).kind = reSendList[c][k].kind
         /\ EntryAt(c, k).feat = reSendList[c][k].feat
<1>1. reSendList[c][k] \in Entry
  OBVIOUS
<1> QED  BY <1>1 DEF EntryAt, Entry

LEMMA LeftStep ==
  ASSUME NEW c, reSendList[c] \in Seq(Entry), NEW n \in Nat, n + 1 <= Len(reSendList[c]),
         NEW s, LeftOf(c, n, s), NEW t,
         t = IF Acked(c, reSendList[c][n + 1]) THEN s ELSE Append(s, EntryAt(c, n + 1))
  PROVE  LeftOf(c, n + 1, t)
<1> DEFINE e == EntryAt(c, n + 1)
<1>1. /\ s \in Seq(Entry) /\ (Sorted(reSendList[c]) => Sorted(s))
      /\ \A j \in 1..Len(s) : \E k \in 1..n : s[j] = EntryAt(c, k) /\ ~Acked(c, reSendList[c][k])
  BY DEF LeftOf
<1>2. \A k \in 1..n : k \in 1..(n + 1) /\ k < n + 1 /\ k \in 1..Len(reSendList[c])
  OBVIOUS
<1>3. CASE Acked(c, reSendList[c][n + 1])
  BY <1>1, <1>2, <1>3 DEF LeftOf
<1>4. CASE ~Acked(c, reSendList[c][n + 1])
  <2>1. n + 1 \in 1..Len(reSendList[c]) /\ n + 1 \in 1..(n + 1)
    OBVIOUS
  <2>2. e \in Entry /\ e.id = reSendList[c][n + 1].id
    BY <2>1, EntryAtType
  <2>3. t = Append(s, e)
    BY <1>4
  <2> HIDE DEF e
  <2>4. /\ t \in Seq(Entry) /\ Len(t) = Len(s) + 1 /\ Len(s) \in Nat
        /\ t[Len(s) + 1] = e /\ \A j \in 1..Len(s) : t[j] = s[j]
    BY <1>1, <2>2, <2>3, AppendProperties
  <2>5. ASSUME NEW j \in 1..Len(t)
        PROVE  \E k \in 1..(n + 1) : t[j] = EntryAt(c, k) /\ ~Acked(c, reSendList[c][k])
    <3>1. CASE j = Len(s) + 1
      BY <1>4, <2>1, <2>4, <3>1 DEF e
    <3>2. CASE j \in 1..Len(s)
      BY <1>1, <1>2, <2>4, <3>2
    <3> QED  BY <2>4, <3>1, <3>2
  <2>6. ASSUME Sorted(reSendList[c]), NEW i \in 1..Len(t), NEW j \in 1..Len(t), i < j
        PROVE  t[i].id < t[j].id
    <3>1. i \in 1..Len(s) /\ t[i] = s[i]
      BY <2>4, <2>6
    <3>2. CASE j \in 1..Len(s)
      BY <1>1, <2>4, <2>6, <3>1, <3>2 DEF Sorted
    <3>3. CASE j = Len(s) + 1
      <4>1. PICK k \in 1..n : s[i] = EntryAt(c, k)
        BY <1>1, <3>1
      <4>2. s[i].id = reSendList[c][k].id
        BY <1>2, <4>1, EntryAtType
      <4>3. reSendList[c][k].id < reSendList[c][n + 1].id
        BY <1>2, <2>1, <2>6 DEF Sorted
      <4> QED  BY <2>2, <2>4, <3>1, <3>3, <4>2, <4>3
    <3> QED  BY <2>4, <3>2, <3>3
  <2> QED  BY <2>4, <2>5, <2>6 DEF LeftOf, Sorted
<1> QED  BY <1>3, <1>4

LEMMA StillOpenLeft ==
  ASSUME NEW c, reSendList[c] \in Seq(Entry)
  PROVE  \A n \in 0..Len(reSendList[c]) : LeftOf(c, n, StillOpen(c)[n])
<1> DEFINE T == {n \in Nat : n <= Len(reSendList[c]) => LeftOf(c, n, StillOpen(c)[n])}
<1>1. Len(reSendList[c]) \in Nat
  OBVIOUS
<1>2. \A n \in 0..Len(reSendList[c]) : StillOpen(c)[n] = After(c, StillOpen(c), n)
  BY StillOpenIs
<1>3. 0 \in T
  <2>1. StillOpen(c)[0] = <<>>
    BY <1>1, <1>2 DEF After
  <2>2. LeftOf(c, 0, <<>>)
    BY EmptySeq DEF LeftOf, Sorted
  <2> QED  BY <2>1, <2>2
<1>4. ASSUME NEW n \in T PROVE n + 1 \in T
  <2>1. n \in Nat /\ n + 1 \in Nat /\ (n + 1) - 1 = n /\ n + 1 # 0
    OBVIOUS
  <2>2. CASE n + 1 <= Len(reSendList[c])
    <3>1. LeftOf(c, n, StillOpen(c)[n])
      BY <1>1, <1>4, <2>1, <2>2
    <3>2. StillOpen(c)[n + 1] = IF Acked(c, reSendList[c][n + 1])
                               THEN StillOpen(c)[n] ELSE Append(StillOpen(c)[n], EntryAt(c, n + 1))
      <4>1. n + 1 \in 0..Len(reSendList[c])
        BY <1>1, <2>1, <2>2
      <4> QED  BY <1>2, <2>1, <4>1 DEF After
    <3>3. LeftOf(c, n + 1, StillOpen(c)[n + 1])
      BY <2>1, <2>2, <3>1, <3>2, LeftStep
    <3> QED  BY <2>1, <3>3
  <2> QED  BY <2>1, <2>2
<1> HIDE DEF T
<1>5. T \in SUBSET Nat
  BY DEF T
<1>6. T = Nat
  BY <1>3, <1>4, <1>5, CountingUp
<1> QED  BY <1>1, <1>6 DEF T

\* An entry of what check_ack_response leaves is an entry of the list: a late one that
\* has no answer, or one that is not looked at.
LEMMA UnansweredLeft ==
  ASSUME NEW c, reSendList[c] \in Seq(Entry), NEW n \in 0..Len(reSendList[c])
  PROVE  LET u == Unanswered(c, n)
         IN  /\ u \in Seq(Entry)
             /\ \A j \in 1..Len(u) : \E k \in 1..Len(reSendList[c]) :
                  \/ k <= n /\ u[j] = EntryAt(c, k) /\ ~Acked(c, reSendList[c][k])
                  \/ k > n /\ u[j] = reSendList[c][k]
             /\ Sorted(reSendList[c]) => Sorted(u)
<1> DEFINE list == reSendList[c]
           s == StillOpen(c)[n]
           t == SubSeq(list, n + 1, Len(list))
           u == Unanswered(c, n)
<1>1. Len(list) \in Nat /\ n \in Nat /\ n <= Len(list) /\ \A i \in 1..Len(list) : list[i] \in Entry
  OBVIOUS
<1>2. LeftOf(c, n, s)
  BY StillOpenLeft
<1>3. /\ s \in Seq(Entry)
      /\ \A j \in 1..Len(s) : \E k \in 1..n : s[j] = EntryAt(c, k) /\ ~Acked(c, list[k])
      /\ Sorted(list) => Sorted(s)
  BY <1>2 DEF LeftOf
<1>4. t \in Seq(Entry) /\ Len(t) = Len(list) - n /\ \A i \in 1..(Len(list) - n) : t[i] = list[n + i]
  <2>1. n + 1 \in Int /\ Len(list) \in Int /\ \A i \in (n + 1)..Len(list) : list[i] \in Entry
    BY <1>1
  <2>2. /\ t \in Seq(Entry) /\ Len(t) = IF n + 1 <= Len(list) THEN Len(list) - (n + 1) + 1 ELSE 0
        /\ \A i \in 1..(Len(list) - (n + 1) + 1) : t[i] = list[(n + 1) + i - 1]
    BY <2>1, SubSeqProperties
  <2> HIDE DEF list, t
  <2>3. Len(t) = Len(list) - n
    BY <1>1, <2>2
  <2>4. ASSUME NEW i \in 1..(Len(list) - n) PROVE t[i] = list[n + i]
    <3>1. i \in 1..(Len(list) - (n + 1) + 1) /\ (n + 1) + i - 1 = n + i
      BY <1>1
    <3> QED  BY <2>2, <3>1
  <2> QED  BY <2>2, <2>3, <2>4
<1>5. u = s \o t
  BY DEF Unanswered
<1> HIDE DEF s, t, u
<1>6. /\ u \in Seq(Entry) /\ Len(u) = Len(s) + Len(t) /\ Len(s) \in Nat
      /\ \A i \in 1..(Len(s) + Len(t)) : u[i] = IF i <= Len(s) THEN s[i] ELSE t[i - Len(s)]
  <2>1. s \in Seq(Entry) /\ t \in Seq(Entry)
    BY <1>3, <1>4
  <2>2. /\ s \o t \in Seq(Entry) /\ Len(s \o t) = Len(s) + Len(t)
        /\ \A i \in 1..(Len(s) + Len(t)) : (s \o t)[i] = IF i <= Len(s) THEN s[i] ELSE t[i - Len(s)]
    BY <2>1, ConcatProperties
  <2>3. Len(s) \in Nat
    BY <2>1
  <2> QED  BY <1>5, <2>2, <2>3
<1>7. ASSUME NEW j \in 1..Len(s)
      PROVE  /\ u[j] = s[j]
             /\ \E k \in 1..Len(list) : k <= n /\ u[j] = EntryAt(c, k) /\ ~Acked(c, list[k])
  <2>1. j \in 1..(Len(s) + Len(t)) /\ j <= Len(s)
    BY <1>1, <1>4, <1>6
  <2>2. u[j] = s[j]
    BY <1>6, <2>1
  <2>3. PICK k \in 1..n : s[j] = EntryAt(c, k) /\ ~Acked(c, list[k])
    BY <1>3
  <2>4. k \in 1..Len(list) /\ k <= n
    BY <1>1
  <2> QED  BY <2>2, <2>3, <2>4
<1>8. ASSUME NEW j \in 1..Len(u), j > Len(s)
      PROVE  \E k \in 1..Len(list) : k > n /\ k = n + (j - Len(s)) /\ u[j] = list[k]
  <2>0. j \in 1..(Len(s) + Len(t)) /\ ~(j <= Len(s))
    BY <1>1, <1>4, <1>6, <1>8
  <2>1. j - Len(s) \in 1..(Len(list) - n) /\ u[j] = t[j - Len(s)]
    BY <1>1, <1>4, <1>6, <2>0
  <2>2. n + (j - Len(s)) \in 1..Len(list) /\ n + (j - Len(s)) > n
    BY <1>1, <2>1
  <2> QED  BY <1>4, <2>1, <2>2
<1>9. ASSUME Sorted(list), NEW i \in 1..Len(u), NEW j \in 1..Len(u), i < j
      PROVE  u[i].id < u[j].id
  <2>1. CASE j <= Len(s)
    <3>1. i \in 1..Len(s) /\ j \in 1..Len(s)
      BY <1>6, <1>9, <2>1
    <3> QED  BY <1>3, <1>7, <1>9, <3>1 DEF Sorted
  <2>2. CASE j > Len(s)
    <3>1. PICK k \in 1..Len(list) : k > n /\ k = n + (j - Len(s)) /\ u[j] = list[k]
      BY <1>8, <2>2
    <3>2. CASE i <= Len(s)
      <4>1. i \in 1..Len(s)
        BY <1>6, <3>2
      <4>2. PICK l \in 1..Len(list) : l <= n /\ u[i] = EntryAt(c, l)
        BY <1>7, <4>1
      <4>3. u[i].id = list[l].id
        BY <4>2, EntryAtType
      <4>4. l < k
        BY <1>1, <3>1, <4>2
      <4> QED  BY <1>9, <3>1, <4>3, <4>4 DEF Sorted
    <3>3. CASE i > Len(s)
      <4>1. PICK l \in 1..Len(list) : l > n /\ l = n + (i - Len(s)) /\ u[i] = list[l]
        BY <1>8, <3>3
      <4>2. l < k
        BY <1>6, <1>9, <3>1, <4>1
      <4> QED  BY <1>9, <3>1, <4>1, <4>2 DEF Sorted
    <3> QED  BY <1>6, <3>2, <3>3
  <2> QED  BY <1>6, <2>1, <2>2
<1>10. \A j \in 1..Len(u) : \E k \in 1..Len(list) :
         \/ k <= n /\ u[j] = EntryAt(c, k) /\ ~Acked(c, list[k])
         \/ k > n /\ u[j] = list[k]
  BY <1>6, <1>7, <1>8
<1>11. Sorted(list) => Sorted(u)
  BY <1>9 DEF Sorted
<1> QED  BY <1>6, <1>10, <1>11 DEF u

\* One lemma per action.
LEMMA SilenceTypes == ASSUME TypeOK, Silence PROVE TypeOK'
<1>1. Lost \in [Chans -> Seq(Answer)]
  BY EmptySeq DEF Lost
<1>2. wire' \in [Chans -> Seq(Answer)]
  BY <1>1 DEF Silence, TypeOK
<1>3. silences' \in 0..MaxSilent
  BY ConstantTypes DEF Silence, TypeOK
<1> QED  BY <1>2, <1>3 DEF Silence, TypeOK, conn, lists, beat

LEMMA ConnectTypes == ASSUME TypeOK, Connect PROVE TypeOK'
BY DEF TypeOK, Connect, lists, beat, count

LEMMA LinkUpdateTypes == ASSUME TypeOK, LinkUpdate PROVE TypeOK'
<1> DEFINE Goal == /\ m_heartbeat_cnt' \in 0..(BeatMax + 1)
                   /\ state' \in {"NoConnect", "NewConnect", "Connected", "DisConnect"}
                   /\ m_is_connected' \in [Chans -> BOOLEAN]
<1>1. ASSUME state = "NewConnect" PROVE Goal
  <2>1. state' = "Connected" /\ m_is_connected' = [c \in Chans |-> TRUE] /\ m_heartbeat_cnt' = 0
    BY <1>1 DEF LinkUpdate, SetFd
  <2> QED  BY <2>1, ConstantTypes
<1>2. ASSUME state = "DisConnect" PROVE Goal
  <2>1. state' = "NoConnect" /\ m_is_connected' = [c \in Chans |-> FALSE] /\ m_heartbeat_cnt' = 0
    BY <1>2 DEF LinkUpdate, SetFd
  <2> QED  BY <2>1, ConstantTypes
<1>3. ASSUME state # "NewConnect", state # "DisConnect" PROVE Goal
  <2>1. UNCHANGED <<state, m_is_connected, m_heartbeat_cnt>>
    BY <1>3 DEF LinkUpdate, conn
  <2> QED  BY <2>1 DEF TypeOK
<1>4. Goal
  BY <1>1, <1>2, <1>3
<1> QED  BY <1>4 DEF TypeOK, LinkUpdate, lists, count

LEMMA BeatTypes == ASSUME TypeOK, Beat PROVE TypeOK'
<1>1. First \in Chans /\ wire \in [Chans -> Seq(Answer)] /\ cellfeat \in Feat
  BY ConstantTypes DEF TypeOK
<1>2. cellfeat' \in Feat /\ wire' \in [Chans -> Seq(Answer)] /\ m_heartbeat_cnt' \in 0..(BeatMax + 1)
  <2>1. CASE Timeout
    <3>1. Lost \in [Chans -> Seq(Answer)]
      BY EmptySeq DEF Lost
    <3> QED  BY <1>1, <2>1, <3>1, ConstantTypes DEF Beat
  <2>2. CASE ~Timeout
    <3>1. Single(First, "BEAT") /\ m_heartbeat_cnt' = Counted
      BY <2>2 DEF Beat
    <3>2. cellfeat' \in Feat /\ wire' \in [Chans -> Seq(Answer)]
      BY <1>1, <3>1, SingleWire
    <3>3. m_heartbeat_cnt' \in 0..(BeatMax + 1)
      BY <2>2, <3>1, ConstantTypes DEF TypeOK, Timeout, Counted
    <3> QED  BY <3>2, <3>3
  <2> QED  BY <2>1, <2>2
<1>3. /\ state' \in {"NoConnect", "NewConnect", "Connected", "DisConnect"}
      /\ m_is_connected' \in [Chans -> BOOLEAN]
  BY DEF TypeOK, Beat, conn
<1>4. reSendList' \in [Chans -> Seq(Entry)]
  <2>1. \A c \in Chans : Aged(reSendList[c]) \in Seq(Entry)
    BY AgedEntries DEF TypeOK
  <2> QED  BY <2>1 DEF Beat
<1> QED  BY <1>2, <1>3, <1>4 DEF TypeOK, Beat, count

LEMMA NotDueTypes == ASSUME TypeOK, NotDue \/ Drained PROVE TypeOK'
BY DEF TypeOK, NotDue, Drained, conn, lists, beat, count

LEMMA PushTypes ==
  ASSUME TypeOK, NEW c \in Chans, NEW kind \in CmdKinds, PushCommand(c, kind) PROVE TypeOK'
<1>1. cmds' \in 1..MaxCmds /\ cmds' \in 0..MaxCmds
  BY ConstantTypes DEF TypeOK, PushCommand
<1> DEFINE r == [kind |-> kind, id |-> cmds']
<1>2. r \in Command
  BY <1>1, ConstantTypes DEF Command
<1>3. m_cmd_queue' = [m_cmd_queue EXCEPT ![c] = Append(@, r)]
  BY DEF PushCommand
<1> HIDE DEF r
<1>4. m_cmd_queue[c] \in Seq(Command)
  BY DEF TypeOK
<1>5. Append(m_cmd_queue[c], r) \in Seq(Command)
  BY <1>2, <1>4, AppendProperties
<1>6. m_cmd_queue' \in [Chans -> Seq(Command)]
  BY <1>3, <1>5 DEF TypeOK
<1> QED  BY <1>1, <1>6 DEF TypeOK, PushCommand, conn, beat

LEMMA StopTypes == ASSUME TypeOK, NEW c \in Chans, StopProcess(c) PROVE TypeOK'
<1>1. Single(c, "EXEC_STOP") /\ wire \in [Chans -> Seq(Answer)] /\ cellfeat \in Feat
  BY DEF TypeOK, StopProcess
<1>2. cellfeat' \in Feat /\ wire' \in [Chans -> Seq(Answer)]
  BY <1>1, SingleWire DEF AllKinds
<1>3. stops' \in 0..MaxStops
  BY ConstantTypes DEF TypeOK, StopProcess
<1> QED  BY <1>2, <1>3 DEF TypeOK, StopProcess, conn, lists, beat

\* The parts of Execute, for the numbering it takes.
Ready == {c \in Chans : m_is_connected[c] /\ m_cmd_queue[c] # <<>>}
HeadCmd(c) == Head(m_cmd_queue[c])
NewEntry(c, num) == Sent(HeadCmd(c), NextFeat(cellfeat, num[c]))

LEMMA NumberingTypes ==
  ASSUME NEW S \in SUBSET Chans, NEW num \in Numberings(S)
  PROVE  \A c \in S : num[c] \in Nat
<1>1. Cardinality(S) \in Nat
  BY ConstantTypes
<1> QED  BY <1>1 DEF Numberings

LEMMA ExecuteParts ==
  ASSUME TypeOK, Execute
  PROVE  /\ cellfeat' \in Feat /\ wire' \in [Chans -> Seq(Answer)]
         /\ \A c \in Chans : /\ wire'[c] = wire[c] \/ (c \in Ready /\ Heard)
                             /\ c \notin Ready => UNCHANGED <<m_cmd_queue[c], reSendList[c], m_heartbeat_tick[c]>>
         /\ \A c \in Ready : \E feat \in Feat :
              LET e == Sent(HeadCmd(c), feat)
                  a == Reply(HeadCmd(c), feat)
              IN  /\ HeadCmd(c) \in Command /\ e \in Entry /\ a \in Answer
                  /\ Heard => wire'[c] = Append(wire[c], a)
                  /\ reSendList'[c] = Append(reSendList[c], e)
                  /\ m_cmd_queue'[c] = Tail(m_cmd_queue[c])
                  /\ m_heartbeat_tick'[c] = CheckTick
<1>1. PICK S, cmd : S = Ready /\ cmd = [c \in S |-> Head(m_cmd_queue[c])]
  OBVIOUS
<1>2. PICK num \in Numberings(S) :
        /\ Transmit(S, cmd, num)
        /\ reSendList' = [c \in Chans |-> IF c \in S
             THEN Append(reSendList[c], Sent(cmd[c], NextFeat(cellfeat, num[c])))
             ELSE reSendList[c]]
  BY <1>1 DEF Execute, Ready
<1>3. \A c \in S : num[c] \in Nat
  BY <1>1, NumberingTypes DEF Ready
<1>4. \A c \in S : cmd[c] = HeadCmd(c)
  BY <1>1 DEF HeadCmd
<1>5. ASSUME NEW c \in S PROVE HeadCmd(c) \in Command
  BY <1>1, HeadTailProperties DEF Ready, HeadCmd, TypeOK
<1>6. cellfeat \in Feat /\ wire \in [Chans -> Seq(Answer)] /\ S \in SUBSET Chans
  BY <1>1 DEF TypeOK, Ready
<1>7. Sendable(S, cmd, num)
  BY <1>3, <1>4, <1>5, ConstantTypes DEF Sendable, Command
<1>8. /\ cellfeat' \in Feat
      /\ wire' \in [Chans -> Seq(Answer)]
      /\ \A c \in Chans : wire'[c] = wire[c] \/ (c \in S /\ Heard)
      /\ \A c \in S : FrameOf(cmd, num, c) \in Answer
  BY <1>2, <1>6, <1>7, TransmitWire
<1>9. \A c \in S : Heard => wire'[c] = Append(wire[c], FrameOf(cmd, num, c))
  BY <1>2, <1>6 DEF Transmit, FrameOf
<1>10. ASSUME NEW c \in S
      PROVE  /\ NextFeat(cellfeat, num[c]) \in Feat
             /\ Sent(HeadCmd(c), NextFeat(cellfeat, num[c])) \in Entry
  BY <1>3, <1>5, <1>6, NextFeatType DEF Sent, Command, Entry
<1>11. \A c \in Chans :
        /\ m_cmd_queue'[c] = IF c \in S THEN Tail(m_cmd_queue[c]) ELSE m_cmd_queue[c]
        /\ m_heartbeat_tick'[c] = IF c \in S THEN CheckTick ELSE m_heartbeat_tick[c]
        /\ reSendList'[c] = IF c \in S
             THEN Append(reSendList[c], Sent(cmd[c], NextFeat(cellfeat, num[c]))) ELSE reSendList[c]
  BY <1>1, <1>2 DEF Execute, Ready
<1>12. \A c \in S : FrameOf(cmd, num, c) = Reply(HeadCmd(c), NextFeat(cellfeat, num[c]))
  BY <1>4 DEF FrameOf
<1>13. ASSUME NEW c \in Chans
       PROVE  /\ wire'[c] = wire[c] \/ (c \in S /\ Heard)
              /\ c \notin S => UNCHANGED <<m_cmd_queue[c], reSendList[c], m_heartbeat_tick[c]>>
  BY <1>8, <1>11
<1>14. ASSUME NEW c \in S
       PROVE  \E feat \in Feat :
                LET e == Sent(HeadCmd(c), feat)
                    a == Reply(HeadCmd(c), feat)
                IN  /\ HeadCmd(c) \in Command /\ e \in Entry /\ a \in Answer
                    /\ Heard => wire'[c] = Append(wire[c], a)
                    /\ reSendList'[c] = Append(reSendList[c], e)
                    /\ m_cmd_queue'[c] = Tail(m_cmd_queue[c])
                    /\ m_heartbeat_tick'[c] = CheckTick
  <2>1. c \in Chans
    BY <1>6
  <2>2. /\ m_cmd_queue'[c] = Tail(m_cmd_queue[c]) /\ m_heartbeat_tick'[c] = CheckTick
        /\ reSendList'[c] = Append(reSendList[c], Sent(HeadCmd(c), NextFeat(cellfeat, num[c])))
    BY <1>4, <1>11, <2>1
  <2>3. /\ Reply(HeadCmd(c), NextFeat(cellfeat, num[c])) \in Answer
        /\ Heard => wire'[c] = Append(wire[c], Reply(HeadCmd(c), NextFeat(cellfeat, num[c])))
    BY <1>8, <1>9, <1>12
  <2> QED  BY <1>5, <1>10, <2>2, <2>3
<1> QED  BY <1>1, <1>8, <1>13, <1>14

LEMMA ExecuteTypes == ASSUME TypeOK, Execute PROVE TypeOK'
<1>1. ASSUME NEW c \in Chans
      PROVE  /\ reSendList'[c] \in Seq(Entry) /\ m_cmd_queue'[c] \in Seq(Command)
             /\ m_heartbeat_tick'[c] \in 0..CheckTick
  <2>1. /\ reSendList[c] \in Seq(Entry) /\ m_cmd_queue[c] \in Seq(Command)
        /\ m_heartbeat_tick[c] \in 0..CheckTick
    BY DEF TypeOK
  <2>2. CASE c \in Ready
    <3>1. PICK e \in Entry : reSendList'[c] = Append(reSendList[c], e)
      BY <2>2, ExecuteParts
    <3>2. m_cmd_queue'[c] = Tail(m_cmd_queue[c]) /\ m_heartbeat_tick'[c] = CheckTick
      BY <2>2, ExecuteParts
    <3>3. Append(reSendList[c], e) \in Seq(Entry)
      BY <2>1, AppendProperties
    <3>4. Tail(m_cmd_queue[c]) \in Seq(Command)
      BY <2>1, <2>2, HeadTailProperties DEF Ready
    <3> QED  BY <3>1, <3>2, <3>3, <3>4, ConstantTypes DEF CheckTick
  <2>3. CASE c \notin Ready
    BY <2>1, <2>3, ExecuteParts
  <2> QED  BY <2>2, <2>3
<1>2. /\ reSendList' \in [Chans -> Seq(Entry)] /\ m_cmd_queue' \in [Chans -> Seq(Command)]
      /\ m_heartbeat_tick' \in [Chans -> 0..CheckTick]
  BY <1>1 DEF Execute
<1>3. cellfeat' \in Feat /\ wire' \in [Chans -> Seq(Answer)]
  BY ExecuteParts
<1> QED  BY <1>2, <1>3 DEF TypeOK, Execute, conn, count

LEMMA ReplyTypes == ASSUME TypeOK, NEW c \in Chans, HandleReply(c) PROVE TypeOK'
<1> DEFINE a == Head(wire[c])
<1>1. wire[c] \in Seq(Answer) /\ wire[c] # <<>>
  BY DEF TypeOK, HandleReply
<1>2. a \in Answer /\ Tail(wire[c]) \in Seq(Answer)
  BY <1>1, HeadTailProperties
<1>3. [feat |-> a.feat, func |-> Func(a.kind)] \in Ack
  BY <1>2 DEF Answer, Ack, Func
<1>4. a.id \in 0..MaxCmds
  BY <1>2 DEF Answer
<1>5. /\ wire' = [wire EXCEPT ![c] = Tail(@)]
      /\ m_ack_info' = [m_ack_info EXCEPT ![c] = @ \cup {[feat |-> a.feat, func |-> Func(a.kind)]}]
      /\ answered' = answered \cup ({a.id} \ {0})
  BY DEF HandleReply
<1>6. /\ m_heartbeat_cnt' \in {0, m_heartbeat_cnt}
      /\ m_heartbeat_tick' \in {m_heartbeat_tick, [m_heartbeat_tick EXCEPT ![c] = Nearer(@)]}
  BY DEF HandleReply, beat
<1> HIDE DEF a
<1>7. wire' \in [Chans -> Seq(Answer)]
  BY <1>2, <1>5 DEF TypeOK
<1>8. m_ack_info' \in [Chans -> SUBSET Ack]
  BY <1>3, <1>5 DEF TypeOK
<1>9. answered' \subseteq 1..MaxCmds
  <2>1. a.id = 0 \/ a.id \in 1..MaxCmds
    BY <1>4, ConstantTypes
  <2>2. answered \subseteq 1..MaxCmds
    BY DEF TypeOK
  <2> QED  BY <1>5, <2>1, <2>2
<1>10. m_heartbeat_cnt' \in 0..(BeatMax + 1)
  BY <1>6, ConstantTypes DEF TypeOK
<1>11. m_heartbeat_tick' \in [Chans -> 0..CheckTick]
  <2>1. m_heartbeat_tick \in [Chans -> 0..CheckTick] /\ CheckTick \in Nat
    BY ConstantTypes DEF TypeOK, CheckTick
  <2>2. Nearer(m_heartbeat_tick[c]) \in 0..CheckTick
    BY <2>1 DEF Nearer
  <2> QED  BY <1>6, <2>1, <2>2
<1> QED  BY <1>7, <1>8, <1>9, <1>10, <1>11 DEF TypeOK, HandleReply, conn, count

LEMMA ClosedTypes == ASSUME TypeOK, Closed PROVE TypeOK'
<1>1. Lost \in [Chans -> Seq(Answer)]
  BY EmptySeq DEF Lost
<1> QED  BY <1>1 DEF TypeOK, Closed, lists, beat, count

\* The parts of CheckAcks.
LEMMA CheckAcksParts ==
  ASSUME TypeOK, CheckAcks
  PROVE  \A c \in Chans : \E n \in 0..Len(reSendList[c]) :
           /\ \A i \in 1..Len(reSendList[c]) : reSendList[c][i].age = 2 => i <= n
           /\ reSendList'[c] = Unanswered(c, n)
           /\ m_ack_info'[c] = m_ack_info[c] \/ (m_ack_info'[c] = {} /\ n = Len(reSendList[c]))
<1> SUFFICES ASSUME NEW c \in Chans
             PROVE \E n \in 0..Len(reSendList[c]) :
           /\ \A i \in 1..Len(reSendList[c]) : reSendList[c][i].age = 2 => i <= n
           /\ reSendList'[c] = Unanswered(c, n)
           /\ m_ack_info'[c] = m_ack_info[c] \/ (m_ack_info'[c] = {} /\ n = Len(reSendList[c]))
  OBVIOUS
<1>1. PICK n \in [Chans -> 0..MaxCmds] :
        /\ n[c] \in LateCounts(reSendList[c])
        /\ reSendList'[c] = Unanswered(c, n[c])
        /\ m_ack_info'[c] = IF reSendList[c] # <<>> /\ n[c] = Len(reSendList[c]) THEN {} ELSE m_ack_info[c]
  BY DEF CheckAcks
<1>2. DOMAIN reSendList[c] = 1..Len(reSendList[c])
  BY DEF TypeOK
<1> QED  BY <1>1, <1>2 DEF LateCounts

LEMMA CheckAcksTypes == ASSUME TypeOK, CheckAcks PROVE TypeOK'
<1>1. ASSUME NEW c \in Chans PROVE reSendList'[c] \in Seq(Entry) /\ m_ack_info'[c] \in SUBSET Ack
  <2>1. reSendList[c] \in Seq(Entry) /\ m_ack_info[c] \in SUBSET Ack
    BY DEF TypeOK
  <2>2. PICK n \in 0..Len(reSendList[c]) :
           /\ reSendList'[c] = Unanswered(c, n)
           /\ m_ack_info'[c] = m_ack_info[c] \/ m_ack_info'[c] = {}
    BY CheckAcksParts
  <2>3. Unanswered(c, n) \in Seq(Entry)
    BY <2>1, UnansweredLeft
  <2> QED  BY <2>1, <2>2, <2>3
<1>2. /\ reSendList' = [c \in Chans |-> reSendList'[c]]
      /\ m_ack_info' = [c \in Chans |-> m_ack_info'[c]]
  BY DEF CheckAcks
<1>3. reSendList' \in [Chans -> Seq(Entry)] /\ m_ack_info' \in [Chans -> SUBSET Ack]
  BY <1>1, <1>2
<1> QED  BY <1>3 DEF TypeOK, CheckAcks, conn, beat, count

\* The parts of ResendTask.
LEMMA ResendParts ==
  ASSUME TypeOK, ResendTask
  PROVE  /\ Resent \in SUBSET Chans
         /\ cellfeat' \in Feat /\ wire' \in [Chans -> Seq(Answer)]
         /\ \A c \in Chans : /\ wire'[c] = wire[c] \/ (c \in Resent /\ Heard)
                             /\ c \notin Resent => reSendList'[c] = reSendList[c]
         /\ \A c \in Resent :
              /\ reSendList[c] # <<>> /\ reSendList'[c] = Tail(reSendList[c])
              /\ \E a \in Answer : /\ a.id = Head(reSendList[c]).id /\ a.kind = Head(reSendList[c]).kind
                                   /\ Heard => wire'[c] = Append(wire[c], a)
<1>1. PICK S, cmd : S = Resent /\ cmd = [c \in S |-> Head(reSendList[c])]
  OBVIOUS
<1>2. PICK num \in Numberings(S) : Transmit(S, cmd, num)
  BY <1>1 DEF ResendTask
<1>3. \A c \in Chans : reSendList'[c] = IF c \in S THEN Tail(reSendList[c]) ELSE reSendList[c]
  BY <1>1 DEF ResendTask
<1>4. S \in SUBSET Chans /\ \A c \in S : reSendList[c] # <<>>
  BY <1>1 DEF Resent
<1>5. ASSUME NEW c \in S PROVE Head(reSendList[c]) \in Entry
  BY <1>4, HeadTailProperties DEF TypeOK
<1>6. cellfeat \in Feat /\ wire \in [Chans -> Seq(Answer)] /\ S \in SUBSET Chans
  BY <1>1 DEF TypeOK, Resent
<1>7. \A c \in S : cmd[c] = Head(reSendList[c])
  BY <1>1
<1>8. \A c \in S : num[c] \in Nat
  BY <1>4, NumberingTypes
<1>9. Sendable(S, cmd, num)
  BY <1>5, <1>7, <1>8, ConstantTypes DEF Sendable, Entry
<1>10. /\ cellfeat' \in Feat
       /\ wire' \in [Chans -> Seq(Answer)]
       /\ \A c \in Chans : wire'[c] = wire[c] \/ (c \in S /\ Heard)
       /\ \A c \in S : FrameOf(cmd, num, c) \in Answer
  BY <1>2, <1>6, <1>9, TransmitWire
<1>11. \A c \in S : Heard => wire'[c] = Append(wire[c], FrameOf(cmd, num, c))
  BY <1>2, <1>6 DEF Transmit, FrameOf
<1>12. ASSUME NEW c \in S
       PROVE  \E a \in Answer : /\ a.id = Head(reSendList[c]).id /\ a.kind = Head(reSendList[c]).kind
                                /\ Heard => wire'[c] = Append(wire[c], a)
  <2> DEFINE a == FrameOf(cmd, num, c)
  <2>1. a.id = cmd[c].id /\ a.kind = cmd[c].kind
    BY DEF FrameOf, Reply
  <2>2. a \in Answer /\ (Heard => wire'[c] = Append(wire[c], a))
    BY <1>10, <1>11
  <2> HIDE DEF a
  <2> QED  BY <1>7, <2>1, <2>2
<1> QED  BY <1>1, <1>3, <1>4, <1>10, <1>12

LEMMA ResendTypes == ASSUME TypeOK, ResendTask PROVE TypeOK'
<1>1. ASSUME NEW c \in Chans PROVE reSendList'[c] \in Seq(Entry)
  <2>1. reSendList[c] \in Seq(Entry)
    BY DEF TypeOK
  <2>2. CASE c \in Resent
    BY <2>1, <2>2, ResendParts, HeadTailProperties
  <2>3. CASE c \notin Resent
    BY <2>1, <2>3, ResendParts
  <2> QED  BY <2>2, <2>3
<1>2. reSendList' = [c \in Chans |-> reSendList'[c]]
  BY DEF ResendTask
<1>3. reSendList' \in [Chans -> Seq(Entry)] /\ cellfeat' \in Feat /\ wire' \in [Chans -> Seq(Answer)]
  BY <1>1, <1>2, ResendParts
<1> QED  BY <1>3 DEF TypeOK, ResendTask, conn, beat, count

LEMMA TypesNext == TypeOK /\ [Next]_vars => TypeOK'
<1> SUFFICES ASSUME TypeOK, [Next]_vars PROVE TypeOK'
  OBVIOUS
<1>1. CASE UNCHANGED vars
  BY <1>1 DEF TypeOK, vars, conn, lists, beat, count
<1>2. CASE Loop
  BY <1>2, LinkUpdateTypes, NotDueTypes, ExecuteTypes, CheckAcksTypes, ResendTypes DEF Loop
<1>3. CASE Silence \/ Connect \/ Beat \/ Closed
  BY <1>3, SilenceTypes, ConnectTypes, BeatTypes, ClosedTypes
<1>4. CASE \E c \in Chans : StopProcess(c) \/ HandleReply(c) \/ \E kind \in CmdKinds : PushCommand(c, kind)
  BY <1>4, StopTypes, ReplyTypes, PushTypes
<1> QED  BY <1>1, <1>2, <1>3, <1>4 DEF Next

\* The state of a module's connection and of its channels' commands stays within its
\* types: queues and resend lists hold commands, the feature code is one byte, and the
\* heartbeat counter is never beyond the first value that closes the connection.
THEOREM LinkTypes == Spec => []TypeOK
<1>1. TypeOK /\ [Next]_vars => TypeOK'
  BY TypesNext
<1> QED  BY <1>1, TypesInit, PTL DEF Spec

-----------------------------------------------------------------------------
(* Heartbeats under way.                                                    *)

Beats(s) == {i \in DOMAIN s : s[i].kind = "BEAT"}
NumBeats(s) == Cardinality(Beats(s))

LEMMA BeatsFinite ==
  ASSUME NEW s \in Seq(Answer)
  PROVE  /\ Beats(s) \subseteq 1..Len(s) /\ IsFiniteSet(Beats(s)) /\ NumBeats(s) \in Nat
<1>1. Len(s) \in Nat /\ DOMAIN s = 1..Len(s)
  OBVIOUS
<1>2. IsFiniteSet(1..Len(s))
  BY <1>1, FS_Interval
<1>3. Beats(s) \in SUBSET (1..Len(s))
  BY <1>1 DEF Beats
<1>4. IsFiniteSet(Beats(s))
  BY <1>2, <1>3, FS_Subset
<1> QED  BY <1>3, <1>4, FS_CardinalityType DEF NumBeats

LEMMA BeatsNone == NumBeats(<<>>) = 0
<1>1. Beats(<<>>) = {}
  BY DEF Beats
<1> QED  BY <1>1, FS_EmptySet DEF NumBeats

LEMMA BeatsAppend ==
  ASSUME NEW s \in Seq(Answer), NEW a \in Answer
  PROVE  NumBeats(Append(s, a)) = IF a.kind = "BEAT" THEN NumBeats(s) + 1 ELSE NumBeats(s)
<1> DEFINE t == Append(s, a)
<1>1. /\ Len(s) \in Nat /\ DOMAIN s = 1..Len(s) /\ DOMAIN t = 1..(Len(s) + 1)
      /\ t[Len(s) + 1] = a /\ \A i \in 1..Len(s) : t[i] = s[i]
  BY AppendProperties
<1> HIDE DEF t
<1>2. Len(s) + 1 \notin Beats(s)
  BY <1>1 DEF Beats
<1>3. CASE a.kind = "BEAT"
  <2>1. Beats(t) = Beats(s) \cup {Len(s) + 1}
    BY <1>1, <1>3 DEF Beats
  <2> QED  BY <1>2, <1>3, <2>1, BeatsFinite, FS_AddElement DEF NumBeats, t
<1>4. CASE a.kind # "BEAT"
  <2>1. Beats(t) = Beats(s)
    BY <1>1, <1>4 DEF Beats
  <2> QED  BY <1>4, <2>1 DEF NumBeats, t
<1> QED  BY <1>3, <1>4

LEMMA BeatsTail ==
  ASSUME NEW s \in Seq(Answer), s # <<>>
  PROVE  NumBeats(Tail(s)) = IF Head(s).kind = "BEAT" THEN NumBeats(s) - 1 ELSE NumBeats(s)
<1> DEFINE t == Tail(s)
           f == [i \in Beats(t) |-> i + 1]
<1>1. /\ Len(s) \in Nat /\ Len(s) >= 1 /\ DOMAIN s = 1..Len(s) /\ DOMAIN t = 1..(Len(s) - 1)
      /\ t \in Seq(Answer) /\ Head(s) = s[1]
      /\ \A i \in 1..(Len(s) - 1) : t[i] = s[i + 1]
  BY HeadTailProperties
<1> HIDE DEF t
<1>2. ASSUME NEW i \in Beats(t) PROVE i \in Nat /\ i + 1 \in Beats(s) \ {1}
  BY <1>1 DEF Beats
<1>3. ASSUME NEW j \in Beats(s) \ {1} PROVE j - 1 \in Beats(t) /\ (j - 1) + 1 = j
  BY <1>1 DEF Beats
<1>4. f \in Injection(Beats(t), Beats(s) \ {1}) /\ f \in Surjection(Beats(t), Beats(s) \ {1})
  <2>1. f \in [Beats(t) -> Beats(s) \ {1}]
    BY <1>2
  <2>2. \A a, b \in Beats(t) : f[a] = f[b] => a = b
    BY <1>2
  <2>3. ASSUME NEW j \in Beats(s) \ {1} PROVE \E i \in Beats(t) : f[i] = j
    BY <1>3
  <2> HIDE DEF f
  <2>4. f \in Injection(Beats(t), Beats(s) \ {1})
    BY <2>1, <2>2 DEF Injection, IsInjective
  <2>5. f \in Surjection(Beats(t), Beats(s) \ {1})
    BY <2>1, <2>3 DEF Surjection
  <2> QED  BY <2>4, <2>5
<1> HIDE DEF f
<1>5. IsFiniteSet(Beats(s)) /\ IsFiniteSet(Beats(s) \ {1}) /\ NumBeats(s) \in Nat
  BY BeatsFinite, FS_RemoveElement
<1>6. NumBeats(t) = Cardinality(Beats(s) \ {1})
  BY <1>4, <1>5, FS_Injection DEF NumBeats
<1>7. 1 \in Beats(s) <=> Head(s).kind = "BEAT"
  BY <1>1 DEF Beats
<1>8. Cardinality(Beats(s) \ {1}) = IF 1 \in Beats(s) THEN NumBeats(s) - 1 ELSE NumBeats(s)
  BY <1>5, FS_RemoveElement DEF NumBeats
<1> QED  BY <1>6, <1>7, <1>8 DEF t

-----------------------------------------------------------------------------
(* A module that answers in time is never taken for dead.                   *)

\* The heartbeats under way are never more than a live module may leave unanswered; on a
\* connection that works all that are counted are under way; and what the cell thread
\* has closed it has taken over before it looks at the heartbeat.
Under == NumBeats(wire[First])
Lag == Under <= MaxLag
Live == state = "Connected" /\ ~silent => m_heartbeat_cnt <= Under
Closing == pc = "beat" => state # "DisConnect"
AliveInv == TypeOK /\ Lag /\ Live /\ Closing

LEMMA AliveTypes ==
  ASSUME TypeOK
  PROVE  /\ First \in Chans /\ wire[First] \in Seq(Answer) /\ Under \in Nat
         /\ m_heartbeat_cnt \in Nat /\ MaxLag \in Nat /\ BeatMax \in Nat
<1>1. First \in Chans /\ wire[First] \in Seq(Answer)
  BY ConstantTypes DEF TypeOK
<1>2. m_heartbeat_cnt \in Nat
  BY ConstantTypes DEF TypeOK
<1> QED  BY <1>1, <1>2, BeatsFinite, ConstantTypes DEF Under

LEMMA LostNone == (wire' = Lost) => Under' = 0
BY ConstantTypes, BeatsNone DEF Lost, Under

\* Frames that are no heartbeats do not count.
LEMMA OtherFrames ==
  ASSUME TypeOK, wire'[First] = wire[First] \/ \E a \in Answer : a.kind # "BEAT" /\ wire'[First] = Append(wire[First], a)
  PROVE  Under' = Under
BY AliveTypes, BeatsAppend DEF Under

LEMMA AliveInit == Init => AliveInv
<1> SUFFICES ASSUME Init PROVE AliveInv
  OBVIOUS
<1>1. wire[First] = <<>>
  BY ConstantTypes DEF Init
<1>2. Under = 0
  BY <1>1, BeatsNone DEF Under
<1>3. Lag
  BY <1>2, ConstantTypes DEF Lag
<1> QED  BY <1>3, TypesInit DEF AliveInv, Live, Closing, Init

LEMMA StopUnder == ASSUME TypeOK, NEW c \in Chans, StopProcess(c) PROVE Under' = Under
<1>1. Single(c, "EXEC_STOP") /\ wire \in [Chans -> Seq(Answer)] /\ cellfeat \in Feat
  BY DEF StopProcess, TypeOK
<1>2. "EXEC_STOP" \in AllKinds \cup {"BEAT"} /\ "EXEC_STOP" # "BEAT"
  BY DEF AllKinds
<1>3. \A d \in Chans : wire'[d] = wire[d] \/ (d = c /\ Heard)
  BY <1>1, <1>2, SingleWire
<1>4. \E a \in Answer : /\ a.kind = "EXEC_STOP" /\ a.id = 0
                        /\ Heard => wire'[c] = Append(wire[c], a)
  BY <1>1, <1>2, SingleWire
<1>5. \/ wire'[First] = wire[First]
      \/ \E a \in Answer : a.kind # "BEAT" /\ wire'[First] = Append(wire[First], a)
  BY <1>2, <1>3, <1>4, ConstantTypes
<1> QED  BY <1>5, OtherFrames

LEMMA ExecuteUnder == ASSUME TypeOK, Execute PROVE Under' = Under
<1>1. CASE First \in Ready /\ Heard
  <2>1. PICK feat \in Feat : LET a == Reply(HeadCmd(First), feat)
                            IN  /\ HeadCmd(First) \in Command /\ a \in Answer
                                /\ wire'[First] = Append(wire[First], a)
    BY <1>1, ExecuteParts
  <2>2. Reply(HeadCmd(First), feat).kind # "BEAT"
    BY <2>1 DEF Reply, Command, AllKinds
  <2> QED  BY <2>1, <2>2, OtherFrames
<1>2. CASE ~(First \in Ready /\ Heard)
  BY <1>2, ExecuteParts, ConstantTypes, OtherFrames
<1> QED  BY <1>1, <1>2

LEMMA ResendUnder == ASSUME TypeOK, ResendTask PROVE Under' = Under
<1>1. CASE First \in Resent /\ Heard
  <2>1. PICK a \in Answer : /\ a.id = Head(reSendList[First]).id /\ a.kind = Head(reSendList[First]).kind
                            /\ Heard => wire'[First] = Append(wire[First], a)
    BY <1>1, ResendParts
  <2>2. reSendList[First] # <<>> /\ reSendList[First] \in Seq(Entry)
    BY <1>1, ResendParts, ConstantTypes DEF TypeOK
  <2>3. Head(reSendList[First]) \in Entry
    BY <2>2, HeadTailProperties
  <2>4. Head(reSendList[First]).kind \in AllKinds
    BY <2>3 DEF Entry
  <2>5. a.kind # "BEAT"
    BY <2>1, <2>4 DEF AllKinds
  <2>6. \E b \in Answer : b.kind # "BEAT" /\ wire'[First] = Append(wire[First], b)
    BY <1>1, <2>1, <2>5
  <2> QED  BY <2>6, OtherFrames
<1>2. CASE ~(First \in Resent /\ Heard)
  BY <1>2, ResendParts, ConstantTypes, OtherFrames
<1> QED  BY <1>1, <1>2

LEMMA ReplyUnder ==
  ASSUME TypeOK, NEW c \in Chans, HandleReply(c)
  PROVE  LET got == c = First /\ Head(wire[c]).kind = "BEAT"
         IN  /\ Under' = IF got THEN Under - 1 ELSE Under
             /\ got => m_heartbeat_cnt' = 0
             /\ m_heartbeat_cnt' \in {0, m_heartbeat_cnt}
<1>1. /\ wire[c] # <<>> /\ wire' = [wire EXCEPT ![c] = Tail(@)]
      /\ IF Head(wire[c]).kind = "BEAT" THEN m_heartbeat_cnt' = 0 ELSE m_heartbeat_cnt' = m_heartbeat_cnt
  BY DEF HandleReply, beat
<1>2. wire[c] \in Seq(Answer) /\ wire'[c] = Tail(wire[c]) /\ \A d \in Chans : d # c => wire'[d] = wire[d]
  BY <1>1 DEF TypeOK
<1>3. CASE c = First
  BY <1>1, <1>2, <1>3, BeatsTail DEF Under
<1>4. CASE c # First
  <2>1. Under' = Under
    BY <1>2, <1>4, ConstantTypes DEF Under
  <2> QED  BY <1>1, <1>4, <2>1
<1> QED  BY <1>3, <1>4

\* Sending a heartbeat: one more is counted, and on a working connection one more is
\* under way.
LEMMA BeatUnder ==
  ASSUME AliveInv, Beat, ~Timeout
  PROVE  /\ m_heartbeat_cnt' = m_heartbeat_cnt + 1 /\ UNCHANGED <<state, silent>>
         /\ Heard => Under' = Under + 1 /\ Under < MaxLag
         /\ ~Heard => Under' = Under
<1>1. /\ silent \/ ~Lagging
      /\ m_heartbeat_cnt' = m_heartbeat_cnt + 1
      /\ Single(First, "BEAT") /\ UNCHANGED <<state, silent>>
  BY DEF Beat, Counted, conn
<1>2. wire \in [Chans -> Seq(Answer)] /\ cellfeat \in Feat /\ TypeOK
  BY DEF AliveInv, TypeOK
<1> DEFINE kind == "BEAT"
<1>3. First \in Chans /\ Single(First, kind) /\ kind \in AllKinds \cup {"BEAT"}
  BY <1>1, ConstantTypes
<1> HIDE DEF kind
<1>4. PICK a \in Answer : /\ a.kind = kind /\ a.id = 0
                          /\ Heard => wire'[First] = Append(wire[First], a)
  BY <1>3, <1>2, SingleWire
<1>5. ~Heard => wire'[First] = wire[First]
  BY <1>3, <1>2, SingleWire
<1>6. Heard => Under' = Under + 1
  <2>1. wire[First] \in Seq(Answer) /\ a.kind = "BEAT"
    BY <1>2, <1>4, AliveTypes DEF kind
  <2>2. NumBeats(Append(wire[First], a)) = NumBeats(wire[First]) + 1
    BY <2>1, BeatsAppend
  <2> QED  BY <1>4, <2>2 DEF Under
<1>7. Heard => ~(Under >= MaxLag)
  BY <1>1 DEF Heard, Lagging, Under, NumBeats, Beats
<1> QED  BY <1>1, <1>2, <1>5, <1>6, <1>7, AliveTypes DEF Under

LEMMA AliveStep == AliveInv /\ [Next]_vars => AliveInv'
<1> SUFFICES ASSUME AliveInv, [Next]_vars PROVE Lag' /\ Live' /\ Closing'
  BY TypesNext DEF AliveInv
<1>1. TypeOK /\ Lag /\ Live /\ Closing /\ TypeOK'
  BY TypesNext DEF AliveInv
<1>2. /\ Under \in Nat /\ m_heartbeat_cnt \in Nat /\ Under' \in Nat
      /\ m_heartbeat_cnt' \in Nat /\ MaxLag \in Nat
  <2>1. First \in Chans /\ wire'[First] \in Seq(Answer) /\ m_heartbeat_cnt' \in Nat
    BY <1>1, ConstantTypes DEF TypeOK
  <2>2. Under' \in Nat
    BY <2>1, BeatsFinite DEF Under
  <2> QED  BY <1>1, <2>1, <2>2, AliveTypes
<1>3. ASSUME UNCHANGED <<wire, state, silent, m_heartbeat_cnt>>, pc' # "beat" \/ pc' = pc
      PROVE  Lag' /\ Live' /\ Closing'
  <2>1. Under' = Under
    BY <1>3 DEF Under
  <2> QED  BY <1>1, <1>3, <2>1 DEF Lag, Live, Closing
<1>4. ASSUME Under' = Under, UNCHANGED <<state, silent, m_heartbeat_cnt>>, pc' # "beat" \/ pc' = pc
      PROVE  Lag' /\ Live' /\ Closing'
  BY <1>1, <1>4 DEF Lag, Live, Closing
<1>5. CASE UNCHANGED vars
  BY <1>3, <1>5 DEF vars, conn, beat
<1>6. CASE Silence
  <2>1. silent' /\ wire' \in {wire, Lost} /\ UNCHANGED <<pc, state>>
    BY <1>6 DEF Silence, conn
  <2>2. Under' \in {Under, 0}
    BY <2>1, LostNone DEF Under
  <2> QED  BY <1>1, <1>2, <2>1, <2>2 DEF Lag, Live, Closing
<1>7. CASE Connect
  <2>1. state' = "NewConnect" /\ wire' = wire
    BY <1>7 DEF Connect
  <2> QED  BY <1>1, <2>1 DEF Lag, Live, Closing, Under
<1>8. CASE Beat
  <2>1. pc' = "msg" /\ silent' = silent
    BY <1>8 DEF Beat
  <2>2. CASE Timeout
    <3>1. m_heartbeat_cnt' = 0 /\ wire' = Lost
      BY <1>8, <2>2 DEF Beat
    <3> QED  BY <1>2, <2>1, <3>1, LostNone DEF Lag, Live, Closing
  <2>3. CASE ~Timeout
    <3>1. /\ m_heartbeat_cnt' = m_heartbeat_cnt + 1 /\ UNCHANGED <<state, silent>>
          /\ Heard => Under' = Under + 1 /\ Under < MaxLag
          /\ ~Heard => Under' = Under
      BY <1>8, <2>3, BeatUnder
    <3> QED  BY <1>1, <1>2, <2>1, <3>1 DEF Lag, Live, Closing, Heard
  <2> QED  BY <2>2, <2>3
<1>9. CASE Closed
  <2>1. wire' = Lost /\ state' = "DisConnect" /\ pc' = "reply"
    BY <1>9 DEF Closed
  <2> QED  BY <1>2, <2>1, LostNone DEF Lag, Live, Closing
<1>10. CASE LinkUpdate
  <2>1. wire' = wire /\ silent' = silent
    BY <1>10 DEF LinkUpdate
  <2>2. Under' = Under
    BY <2>1 DEF Under
  <2>3. /\ state' # "DisConnect"
        /\ m_heartbeat_cnt' = 0 \/ UNCHANGED <<state, m_heartbeat_cnt>>
    BY <1>10 DEF LinkUpdate, SetFd, conn
  <2> QED  BY <1>1, <1>2, <2>1, <2>2, <2>3 DEF Lag, Live, Closing
<1>11. CASE NotDue \/ Drained
  BY <1>3, <1>11 DEF NotDue, Drained, conn, beat
<1>12. CASE Execute
  <2>1. UNCHANGED <<state, silent, m_heartbeat_cnt>> /\ pc' = "reply"
    BY <1>12 DEF Execute, conn
  <2> QED  BY <1>1, <1>4, <1>12, <2>1, ExecuteUnder
<1>13. CASE CheckAcks
  BY <1>3, <1>13 DEF CheckAcks, conn, beat
<1>14. CASE ResendTask
  <2>1. UNCHANGED <<state, silent, m_heartbeat_cnt>> /\ pc' = "link"
    BY <1>14 DEF ResendTask, conn, beat
  <2> QED  BY <1>1, <1>4, <1>14, <2>1, ResendUnder
<1>15. ASSUME NEW c \in Chans, StopProcess(c) PROVE Lag' /\ Live' /\ Closing'
  <2>1. UNCHANGED <<pc, state, silent, m_heartbeat_cnt>>
    BY <1>15 DEF StopProcess, conn, beat
  <2> QED  BY <1>1, <1>4, <1>15, <2>1, StopUnder
<1>16. ASSUME NEW c \in Chans, HandleReply(c) PROVE Lag' /\ Live' /\ Closing'
  <2>1. UNCHANGED <<pc, state, silent>>
    BY <1>16 DEF HandleReply, conn
  <2>2. /\ Under' = Under \/ (Under' = Under - 1 /\ m_heartbeat_cnt' = 0)
        /\ m_heartbeat_cnt' \in {0, m_heartbeat_cnt}
    BY <1>1, <1>16, ReplyUnder
  <2> QED  BY <1>1, <1>2, <2>1, <2>2 DEF Lag, Live, Closing
<1>17. ASSUME NEW c \in Chans, NEW kind \in CmdKinds, PushCommand(c, kind) PROVE Lag' /\ Live' /\ Closing'
  BY <1>3, <1>17 DEF PushCommand, conn, beat
<1> QED  BY <1>5, <1>6, <1>7, <1>8, <1>9, <1>10, <1>11, <1>12, <1>13, <1>14, <1>15, <1>16, <1>17
         DEF Next, Loop

\* A module that answers in time, that is one that leaves at most BeatMax heartbeats
\* unanswered, is never taken for dead: when hearbeat_detect closes the connection,
\* the module has gone silent.
THEOREM AliveKeptThm == ASSUME MaxLag <= BeatMax PROVE Spec => AliveKept
<1>1. AliveInv /\ [Next]_vars => AliveInv'
  BY AliveStep
<1>2. AliveInv /\ [Next]_vars => [Timeout /\ pc = "beat" /\ state' = "DisConnect" => silent]_vars
  <2> SUFFICES ASSUME AliveInv, Next, Timeout, pc = "beat", state' = "DisConnect", ~silent PROVE FALSE
    OBVIOUS
  <2>1. Under \in Nat /\ m_heartbeat_cnt \in Nat /\ MaxLag \in Nat /\ BeatMax \in Nat
    BY AliveTypes DEF AliveInv
  <2>2. Lag /\ Live /\ state # "DisConnect"
    BY DEF AliveInv, Closing
  <2>3. state # "Connected"
    BY <2>1, <2>2 DEF Lag, Live, Timeout
  <2>4. state' \in {state, "NewConnect"}
    BY <2>3 DEF Next, Loop, Silence, Connect, Beat, Closed, LinkUpdate, NotDue, Drained, Execute,
                CheckAcks, ResendTask, StopProcess, HandleReply, PushCommand, conn
  <2> QED  BY <2>2, <2>4
<1> QED  BY <1>1, <1>2, AliveInit, PTL DEF Spec, AliveKept

-----------------------------------------------------------------------------
(* The commands on their way: where an id may be.                           *)

IdsOf(s) == {s[i].id : i \in 1..Len(s)}

LEMMA IdsAppend ==
  ASSUME NEW S, NEW s \in Seq(S), NEW e \in S
  PROVE  /\ IdsOf(Append(s, e)) = IdsOf(s) \cup {e.id}
         /\ Sorted(s) /\ (\A x \in IdsOf(s) : x < e.id) => Sorted(Append(s, e))
<1> DEFINE t == Append(s, e)
<1>1. /\ Len(s) \in Nat /\ Len(t) = Len(s) + 1 /\ t[Len(s) + 1] = e
      /\ \A i \in 1..Len(s) : t[i] = s[i]
  BY AppendProperties
<1> HIDE DEF t
<1>2. \A i \in 1..Len(t) : i \in 1..Len(s) \/ i = Len(s) + 1
  BY <1>1
<1>3. ASSUME NEW x \in IdsOf(t) PROVE x \in IdsOf(s) \cup {e.id}
  BY <1>1, <1>2 DEF IdsOf
<1>4. ASSUME NEW x \in IdsOf(s) \cup {e.id} PROVE x \in IdsOf(t)
  <2>1. 1..Len(s) \subseteq 1..Len(t) /\ Len(s) + 1 \in 1..Len(t)
    BY <1>1
  <2> QED  BY <1>1, <2>1 DEF IdsOf
<1>5. IdsOf(t) = IdsOf(s) \cup {e.id}
  BY <1>3, <1>4
<1>6. ASSUME Sorted(s), \A x \in IdsOf(s) : x < e.id, NEW i \in 1..Len(t), NEW j \in 1..Len(t), i < j
      PROVE  t[i].id < t[j].id
  <2>1. i \in 1..Len(s) /\ t[i].id \in IdsOf(s)
    BY <1>1, <1>6 DEF IdsOf
  <2>2. CASE j = Len(s) + 1
    BY <1>1, <1>6, <2>1, <2>2
  <2>3. CASE j \in 1..Len(s)
    BY <1>1, <1>6, <2>1, <2>3 DEF Sorted
  <2> QED  BY <1>2, <2>2, <2>3
<1> QED  BY <1>5, <1>6 DEF Sorted, t

LEMMA IdsTail ==
  ASSUME NEW S, NEW s \in Seq(S), s # <<>>
  PROVE  /\ IdsOf(Tail(s)) \subseteq IdsOf(s) /\ Head(s).id \in IdsOf(s)
         /\ Sorted(s) => Sorted(Tail(s)) /\ \A x \in IdsOf(Tail(s)) : Head(s).id < x
<1> DEFINE t == Tail(s)
<1>1. /\ Len(s) \in Nat /\ Len(s) >= 1 /\ Len(t) = Len(s) - 1 /\ Head(s) = s[1]
      /\ \A i \in 1..Len(t) : t[i] = s[i + 1]
  BY HeadTailProperties
<1> HIDE DEF t
<1>2. \A i \in 1..Len(t) : i + 1 \in 1..Len(s) /\ 1 < i + 1
  BY <1>1
<1>3. 1 \in 1..Len(s)
  BY <1>1
<1>4. IdsOf(t) \subseteq IdsOf(s)
  BY <1>1, <1>2 DEF IdsOf
<1>5. Head(s).id \in IdsOf(s)
  BY <1>1, <1>3 DEF IdsOf
<1>6. ASSUME Sorted(s), NEW i \in 1..Len(t), NEW j \in 1..Len(t), i < j PROVE t[i].id < t[j].id
  <2>1. i + 1 < j + 1
    BY <1>6
  <2> QED  BY <1>1, <1>2, <1>6, <2>1 DEF Sorted
<1>7. ASSUME Sorted(s), NEW x \in IdsOf(t) PROVE Head(s).id < x
  <2>1. PICK i \in 1..Len(t) : x = t[i].id
    BY DEF IdsOf
  <2> QED  BY <1>1, <1>2, <1>3, <1>7, <2>1 DEF Sorted
<1> QED  BY <1>4, <1>5, <1>6, <1>7 DEF Sorted, t

Queued(c) == IdsOf(m_cmd_queue[c])
Listed(c) == IdsOf(reSendList[c])
Replied(c) == IdsOf(wire[c]) \ {0}
Ids(c) == Queued(c) \cup Listed(c) \cup Replied(c)

\* An id has been given out, and belongs to one channel; what is queued is younger than
\* what was sent and has no answer yet; queue and resend list are in the order of the ids.
Own == /\ \A c \in Chans : \A x \in Ids(c) : x \in 1..cmds
       /\ \A c, d \in Chans : \A x \in Ids(c) : x \in Ids(d) => c = d
       /\ answered \subseteq 1..cmds
Younger == \A c \in Chans : \A x \in Queued(c) :
             x \notin answered /\ \A y \in Listed(c) \cup Replied(c) : y < x
InOrder == \A c \in Chans : Sorted(m_cmd_queue[c]) /\ Sorted(reSendList[c])

\* An answer under way has the feature code of the entry of its command, and an entry
\* whose command has been answered finds that answer.
Matching ==
  \A c \in Chans : \A i \in 1..Len(wire[c]), j \in 1..Len(reSendList[c]) :
    wire[c][i].id = reSendList[c][j].id
      => wire[c][i].feat = reSendList[c][j].feat /\ wire[c][i].kind = reSendList[c][j].kind
Told ==
  \A c \in Chans : \A j \in 1..Len(reSendList[c]) :
    reSendList[c][j].id \in answered => Acked(c, reSendList[c][j])
IdInv == TypeOK /\ Own /\ Younger /\ InOrder /\ Matching /\ Told

LEMMA SeqTypes ==
  ASSUME TypeOK, NEW c \in Chans
  PROVE  /\ m_cmd_queue[c] \in Seq(Command) /\ reSendList[c] \in Seq(Entry) /\ wire[c] \in Seq(Answer)
         /\ Len(m_cmd_queue[c]) \in Nat /\ Len(reSendList[c]) \in Nat /\ Len(wire[c]) \in Nat
         /\ DOMAIN wire[c] = 1..Len(wire[c])
         /\ \A i \in 1..Len(m_cmd_queue[c]) : m_cmd_queue[c][i] \in Command
         /\ \A i \in 1..Len(reSendList[c]) : reSendList[c][i] \in Entry
         /\ \A i \in 1..Len(wire[c]) : wire[c][i] \in Answer
<1>1. m_cmd_queue[c] \in Seq(Command) /\ reSendList[c] \in Seq(Entry) /\ wire[c] \in Seq(Answer)
  BY DEF TypeOK
<1> QED  BY <1>1

\* Many steps move no command: a queue or a list changes nothing but ages, and the wire
\* only loses answers or gets one that is to no command.
SameEntry(e, f) == e.id = f.id /\ e.kind = f.kind /\ e.feat = f.feat
Tame ==
  /\ UNCHANGED <<m_cmd_queue, m_ack_info, answered, cmds>>
  /\ \A c \in Chans :
       /\ Len(reSendList'[c]) = Len(reSendList[c])
       /\ \A j \in 1..Len(reSendList[c]) : SameEntry(reSendList'[c][j], reSendList[c][j])
       /\ \A i \in 1..Len(wire'[c]) : \/ wire'[c][i].id = 0
                                      \/ \E k \in 1..Len(wire[c]) : wire'[c][i] = wire[c][k]

LEMMA TameKeeps == ASSUME IdInv, TypeOK', Tame PROVE IdInv'
<1>1. ASSUME NEW c \in Chans
      PROVE  Queued(c)' = Queued(c) /\ Listed(c)' = Listed(c) /\ Replied(c)' \subseteq Replied(c)
  <2>1. Queued(c)' = Queued(c)
    BY DEF Queued, Tame
  <2>2. Listed(c)' = Listed(c)
    BY DEF Listed, IdsOf, Tame, SameEntry
  <2>3. Replied(c)' \subseteq Replied(c)
    BY DEF Replied, IdsOf, Tame
  <2> QED  BY <2>1, <2>2, <2>3
<1>2. Own'
  <2>1. \A c \in Chans : Ids(c)' \subseteq Ids(c)
    BY <1>1 DEF Ids
  <2>2. cmds' = cmds /\ answered' = answered
    BY DEF Tame
  <2> QED  BY <2>1, <2>2 DEF IdInv, Own
<1>3. Younger'
  <2>1. answered' = answered
    BY DEF Tame
  <2> QED  BY <1>1, <2>1 DEF IdInv, Younger
<1>4. InOrder'
  <2>1. ASSUME NEW c \in Chans PROVE Sorted(m_cmd_queue'[c]) /\ Sorted(reSendList'[c])
    <3>1. Sorted(m_cmd_queue[c]) /\ Sorted(reSendList[c])
      BY DEF IdInv, InOrder
    <3>2. Len(reSendList'[c]) = Len(reSendList[c]) /\ m_cmd_queue'[c] = m_cmd_queue[c]
      BY DEF Tame
    <3>3. \A j \in 1..Len(reSendList[c]) : reSendList'[c][j].id = reSendList[c][j].id
      BY DEF Tame, SameEntry
    <3> QED  BY <3>1, <3>2, <3>3 DEF Sorted
  <2> QED  BY <2>1 DEF InOrder
<1>5. Matching'
  <2> SUFFICES ASSUME NEW c \in Chans, NEW i \in 1..Len(wire'[c]), NEW j \in 1..Len(reSendList'[c]),
                      wire'[c][i].id = reSendList'[c][j].id
               PROVE  wire'[c][i].feat = reSendList'[c][j].feat /\ wire'[c][i].kind = reSendList'[c][j].kind
    BY DEF Matching
  <2>1. j \in 1..Len(reSendList[c]) /\ SameEntry(reSendList'[c][j], reSendList[c][j])
    BY DEF Tame
  <2>2. reSendList[c][j].id # 0
    <3>1. reSendList[c][j] \in Entry
      BY <2>1, SeqTypes DEF IdInv
    <3> QED  BY <3>1, ConstantTypes DEF Entry
  <2>3. PICK k \in 1..Len(wire[c]) : wire'[c][i] = wire[c][k]
    BY <2>1, <2>2 DEF Tame, SameEntry
  <2> QED  BY <2>1, <2>3 DEF IdInv, Matching, SameEntry
<1>6. Told'
  <2> SUFFICES ASSUME NEW c \in Chans, NEW j \in 1..Len(reSendList'[c]),
                      reSendList'[c][j].id \in answered'
               PROVE  Acked(c, reSendList[c][j])'
    BY DEF Told
  <2>1. j \in 1..Len(reSendList[c]) /\ SameEntry(reSendList'[c][j], reSendList[c][j])
    BY DEF Tame
  <2>2. answered' = answered /\ m_ack_info' = m_ack_info
    BY DEF Tame
  <2>3. Acked(c, reSendList[c][j])
    BY <2>1, <2>2 DEF IdInv, Told, SameEntry
  <2> QED  BY <2>1, <2>2, <2>3 DEF Acked, SameEntry
<1> QED  BY <1>2, <1>3, <1>4, <1>5, <1>6 DEF IdInv

\* A step that moves no command and puts nothing, or loses all, on the wire.
LEMMA QuietTame ==
  ASSUME TypeOK, UNCHANGED <<m_cmd_queue, reSendList, m_ack_info, answered, cmds>>, wire' \in {wire, Lost}
  PROVE  Tame
<1>1. ASSUME NEW c \in Chans, NEW i \in 1..Len(wire'[c]) PROVE \E k \in 1..Len(wire[c]) : wire'[c][i] = wire[c][k]
  <2>1. CASE wire' = wire
    BY <2>1
  <2>2. CASE wire' = Lost
    <3>1. Len(wire'[c]) = 0
      BY <2>2 DEF Lost
    <3> QED  BY <3>1
  <2> QED  BY <2>1, <2>2
<1> QED  BY <1>1 DEF Tame, SameEntry

\* A frame of its own, that is in no list.
LEMMA SingleTame ==
  ASSUME TypeOK, NEW c \in Chans, NEW kind \in AllKinds \cup {"BEAT"}, Single(c, kind),
         NEW d \in Chans, NEW i \in 1..Len(wire'[d])
  PROVE  wire'[d][i].id = 0 \/ \E k \in 1..Len(wire[d]) : wire'[d][i] = wire[d][k]
<1>1. cellfeat \in Feat /\ wire \in [Chans -> Seq(Answer)] /\ wire[d] \in Seq(Answer)
  BY DEF TypeOK
<1>2. wire'[d] = wire[d] \/ (d = c /\ Heard)
  BY <1>1, SingleWire
<1>3. PICK a \in Answer : /\ a.kind = kind /\ a.id = 0
                          /\ Heard => wire'[c] = Append(wire[c], a)
  BY <1>1, SingleWire
<1>4. CASE wire'[d] = wire[d]
  BY <1>4
<1>5. CASE wire'[d] # wire[d]
  <2>1. wire'[d] = Append(wire[d], a)
    BY <1>2, <1>3, <1>5
  <2>2. /\ Len(wire[d]) \in Nat /\ Len(wire'[d]) = Len(wire[d]) + 1 /\ wire'[d][Len(wire[d]) + 1] = a
        /\ \A k \in 1..Len(wire[d]) : wire'[d][k] = wire[d][k]
    BY <1>1, <2>1, AppendProperties
  <2>3. i \in 1..Len(wire[d]) \/ i = Len(wire[d]) + 1
    BY <2>2
  <2> QED  BY <1>3, <2>2, <2>3
<1> QED  BY <1>4, <1>5

LEMMA StopTame == ASSUME TypeOK, NEW c \in Chans, StopProcess(c) PROVE Tame
<1>1. Single(c, "EXEC_STOP") /\ UNCHANGED <<m_cmd_queue, reSendList, m_ack_info, answered, cmds>>
  BY DEF StopProcess, lists
<1>2. "EXEC_STOP" \in AllKinds \cup {"BEAT"}
  BY DEF AllKinds
<1> QED  BY <1>1, <1>2, SingleTame DEF Tame, SameEntry

LEMMA BeatTame == ASSUME TypeOK, Beat PROVE Tame
<1>1. UNCHANGED <<m_cmd_queue, m_ack_info, answered, cmds>> /\ reSendList' = [c \in Chans |-> Aged(reSendList[c])]
  BY DEF Beat, count
<1>2. ASSUME NEW c \in Chans
      PROVE  /\ Len(reSendList'[c]) = Len(reSendList[c])
             /\ \A j \in 1..Len(reSendList[c]) : SameEntry(reSendList'[c][j], reSendList[c][j])
  <2>1. reSendList'[c] = Aged(reSendList[c]) /\ reSendList[c] \in Seq(Entry)
    BY <1>1, SeqTypes
  <2> QED  BY <2>1, AgedEntries DEF SameEntry
<1>3. ASSUME NEW c \in Chans, NEW i \in 1..Len(wire'[c])
      PROVE  wire'[c][i].id = 0 \/ \E k \in 1..Len(wire[c]) : wire'[c][i] = wire[c][k]
  <2>1. CASE Timeout
    <3>1. Len(wire'[c]) = 0
      BY <2>1 DEF Beat, Lost
    <3> QED  BY <3>1
  <2>2. CASE ~Timeout
    <3>1. Single(First, "BEAT") /\ First \in Chans
      BY <2>2, ConstantTypes DEF Beat
    <3> QED  BY <3>1, SingleTame
  <2> QED  BY <2>1, <2>2
<1> QED  BY <1>1, <1>2, <1>3 DEF Tame

LEMMA OtherTame ==
  ASSUME TypeOK, Silence \/ Connect \/ LinkUpdate \/ NotDue \/ Drained \/ Closed \/ UNCHANGED vars
  PROVE  Tame
<1>1. UNCHANGED <<m_cmd_queue, reSendList, m_ack_info, answered, cmds>> /\ wire' \in {wire, Lost}
  BY DEF Silence, Connect, LinkUpdate, NotDue, Drained, Closed, vars, lists, count
<1> QED  BY <1>1, QuietTame

\* What a step leaves of a channel's commands: no id comes from elsewhere.
LEMMA PushIds ==
  ASSUME IdInv, TypeOK', NEW c \in Chans, NEW kind \in CmdKinds, PushCommand(c, kind)
  PROVE  IdInv'
<1> DEFINE r == [kind |-> kind, id |-> cmds']
<1>1. /\ cmds' = cmds + 1 /\ m_cmd_queue' = [m_cmd_queue EXCEPT ![c] = Append(@, r)]
      /\ UNCHANGED <<reSendList, m_ack_info, wire, answered>>
  BY DEF PushCommand
<1>2. TypeOK /\ Own /\ Younger /\ InOrder /\ Matching /\ Told
  BY DEF IdInv
<1>3. cmds \in Nat /\ cmds' \in 1..MaxCmds
  BY <1>1, <1>2, ConstantTypes DEF TypeOK, PushCommand
<1>4. r \in Command /\ r.id = cmds'
  BY <1>3, ConstantTypes DEF Command
<1> HIDE DEF r
<1>5. m_cmd_queue[c] \in Seq(Command) /\ m_cmd_queue'[c] = Append(m_cmd_queue[c], r)
      /\ \A d \in Chans : d # c => m_cmd_queue'[d] = m_cmd_queue[d]
  BY <1>1, <1>2 DEF TypeOK
<1>6. \A x \in Queued(c) : x < r.id
  BY <1>1, <1>2, <1>3, <1>4 DEF Own, Ids
<1>7. /\ Queued(c)' = Queued(c) \cup {cmds'}
      /\ Sorted(m_cmd_queue'[c])
  BY <1>2, <1>4, <1>5, <1>6, IdsAppend DEF Queued, InOrder
<1>8. \A d \in Chans : /\ d # c => Queued(d)' = Queued(d)
                       /\ Listed(d)' = Listed(d) /\ Replied(d)' = Replied(d)
  BY <1>1, <1>5 DEF Queued, Listed, Replied
<1>9. \A d \in Chans : Ids(d)' \subseteq Ids(d) \cup (IF d = c THEN {cmds'} ELSE {})
  BY <1>7, <1>8 DEF Ids
<1>10. \A d \in Chans : cmds' \notin Ids(d)
  BY <1>1, <1>2, <1>3 DEF Own
<1>11. Own'
  <2>1. ASSUME NEW d \in Chans, NEW x \in Ids(d)' PROVE x \in 1..cmds'
    BY <1>1, <1>2, <1>3, <1>9, <2>1 DEF Own
  <2>2. ASSUME NEW d \in Chans, NEW e \in Chans, NEW x \in Ids(d)', x \in Ids(e)' PROVE d = e
    <3>1. CASE x = cmds'
      BY <1>9, <1>10, <2>2, <3>1
    <3>2. CASE x # cmds'
      <4>1. x \in Ids(d) /\ x \in Ids(e)
        BY <1>9, <2>2, <3>2
      <4> QED  BY <1>2, <4>1 DEF Own
    <3> QED  BY <3>1, <3>2
  <2>3. answered' \subseteq 1..cmds'
    BY <1>1, <1>2, <1>3 DEF Own
  <2> QED  BY <2>1, <2>2, <2>3 DEF Own
<1>12. Younger'
  <2>1. cmds' \notin answered /\ \A y \in Listed(c) \cup Replied(c) : y < cmds'
    BY <1>1, <1>2, <1>3 DEF Own, Ids
  <2> QED  BY <1>1, <1>2, <1>7, <1>8, <2>1 DEF Younger
<1>13. InOrder'
  BY <1>1, <1>2, <1>5, <1>7 DEF InOrder
<1>14. Matching' /\ Told'
  BY <1>1, <1>2 DEF Matching, Told, Acked
<1> QED  BY <1>11, <1>12, <1>13, <1>14 DEF IdInv

\* An answer taken in.
LEMMA ReplyIds == ASSUME IdInv, TypeOK', NEW c \in Chans, HandleReply(c) PROVE IdInv'
<1> DEFINE a == Head(wire[c])
           ack == [feat |-> a.feat, func |-> Func(a.kind)]
<1>1. /\ wire[c] # <<>> /\ wire' = [wire EXCEPT ![c] = Tail(@)]
      /\ m_ack_info' = [m_ack_info EXCEPT ![c] = @ \cup {ack}]
      /\ answered' = answered \cup ({a.id} \ {0})
      /\ UNCHANGED <<m_cmd_queue, reSendList, cmds>>
  BY DEF HandleReply, count
<1>2. TypeOK /\ Own /\ Younger /\ InOrder /\ Matching /\ Told
  BY DEF IdInv
<1>3. /\ wire[c] \in Seq(Answer) /\ wire'[c] = Tail(wire[c])
      /\ \A d \in Chans : d # c => wire'[d] = wire[d]
  BY <1>1, <1>2 DEF TypeOK
<1>4. /\ Len(wire[c]) \in Nat /\ Len(wire[c]) >= 1 /\ a = wire[c][1] /\ Len(wire'[c]) = Len(wire[c]) - 1
      /\ \A i \in 1..Len(wire'[c]) : i + 1 \in 1..Len(wire[c]) /\ wire'[c][i] = wire[c][i + 1]
  <2>1. Len(wire[c]) \in Nat /\ Len(wire[c]) >= 1
    BY <1>1, <1>3
  <2>2. a = wire[c][1]
    BY <1>1, <1>3, HeadTailProperties
  <2>3. /\ Len(Tail(wire[c])) = Len(wire[c]) - 1
        /\ \A i \in 1..Len(Tail(wire[c])) : Tail(wire[c])[i] = wire[c][i + 1]
    BY <1>1, <1>3, HeadTailProperties
  <2> HIDE DEF a
  <2>4. \A i \in 1..Len(wire'[c]) : i + 1 \in 1..Len(wire[c])
    BY <1>3, <2>1, <2>3
  <2> QED  BY <1>3, <2>1, <2>2, <2>3, <2>4
<1>5. /\ m_ack_info[c] \subseteq m_ack_info'[c] /\ ack \in m_ack_info'[c]
      /\ \A d \in Chans : d # c => m_ack_info'[d] = m_ack_info[d]
  BY <1>1, <1>2 DEF TypeOK
<1>6. a.id \in IdsOf(wire[c])
  BY <1>4 DEF IdsOf
<1> HIDE DEF a
<1>7. ASSUME NEW d \in Chans
      PROVE  Queued(d)' = Queued(d) /\ Listed(d)' = Listed(d) /\ Replied(d)' \subseteq Replied(d)
  <2>1. IdsOf(wire'[d]) \subseteq IdsOf(wire[d])
    BY <1>1, <1>3, IdsTail
  <2> QED  BY <1>1, <2>1 DEF Queued, Listed, Replied
<1>8. Own'
  <2>1. \A d \in Chans : Ids(d)' \subseteq Ids(d)
    BY <1>7 DEF Ids
  <2>2. answered' \subseteq 1..cmds /\ cmds' = cmds
    BY <1>1, <1>2, <1>6 DEF Own, Ids, Replied
  <2> QED  BY <1>2, <2>1, <2>2 DEF Own
<1>9. Younger'
  <2> SUFFICES ASSUME NEW d \in Chans, NEW x \in Queued(d)'
               PROVE  x \notin answered' /\ \A y \in Listed(d)' \cup Replied(d)' : y < x
    BY DEF Younger
  <2>1. x \in Queued(d) /\ x \notin answered /\ \A y \in Listed(d) \cup Replied(d) : y < x
    BY <1>2, <1>7 DEF Younger
  <2>2. ASSUME a.id = x, x # 0 PROVE FALSE
    <3>1. x \in Replied(c)
      BY <1>6, <2>2 DEF Replied
    <3>2. c = d
      BY <1>2, <2>1, <3>1 DEF Own, Ids
    <3>3. x < x /\ x \in 1..cmds
      BY <1>2, <2>1, <3>1, <3>2 DEF Own, Ids
    <3>4. cmds \in Nat
      BY <1>2, ConstantTypes DEF TypeOK
    <3> QED  BY <3>3, <3>4
  <2> QED  BY <1>1, <1>7, <2>1, <2>2
<1>10. InOrder'
  BY <1>1, <1>2 DEF InOrder
<1>11. Matching'
  <2> SUFFICES ASSUME NEW d \in Chans, NEW i \in 1..Len(wire'[d]), NEW j \in 1..Len(reSendList'[d]),
                      wire'[d][i].id = reSendList'[d][j].id
               PROVE  /\ wire'[d][i].feat = reSendList'[d][j].feat
                      /\ wire'[d][i].kind = reSendList'[d][j].kind
    BY DEF Matching
  <2>1. reSendList' = reSendList
    BY <1>1
  <2>2. PICK k \in 1..Len(wire[d]) : wire'[d][i] = wire[d][k]
    BY <1>3, <1>4
  <2>3. j \in 1..Len(reSendList[d]) /\ wire[d][k].id = reSendList[d][j].id
    BY <2>1, <2>2
  <2>4. wire[d][k].feat = reSendList[d][j].feat /\ wire[d][k].kind = reSendList[d][j].kind
    BY <1>2, <2>3 DEF Matching
  <2> QED  BY <2>1, <2>2, <2>4
<1>12. Told'
  <2> SUFFICES ASSUME NEW d \in Chans, NEW j \in 1..Len(reSendList[d]), reSendList[d][j].id \in answered'
               PROVE  [feat |-> reSendList[d][j].feat, func |-> Func(reSendList[d][j].kind)] \in m_ack_info'[d]
    BY <1>1 DEF Told, Acked
  <2>1. CASE reSendList[d][j].id \in answered
    BY <1>2, <1>5, <2>1 DEF Told, Acked
  <2>2. CASE reSendList[d][j].id = a.id /\ a.id # 0
    <3>1. a.id \in Ids(c) /\ a.id \in Ids(d)
      BY <1>6, <2>2 DEF Ids, Replied, Listed, IdsOf
    <3>2. c = d
      BY <1>2, <3>1 DEF Own
    <3>3. 1 \in 1..Len(wire[c]) /\ a = wire[c][1]
      BY <1>4
    <3>4. a.feat = reSendList[d][j].feat /\ a.kind = reSendList[d][j].kind
      BY <1>2, <2>2, <3>2, <3>3 DEF Matching
    <3> QED  BY <1>5, <3>2, <3>4
  <2> QED  BY <1>1, <2>1, <2>2
<1> QED  BY <1>8, <1>9, <1>10, <1>11, <1>12 DEF IdInv

LEMMA AppendIndex ==
  ASSUME NEW S, NEW s \in Seq(S), NEW e \in S, NEW i \in 1..Len(Append(s, e))
  PROVE  (i \in 1..Len(s) /\ Append(s, e)[i] = s[i]) \/ Append(s, e)[i] = e
<1> DEFINE t == Append(s, e)
<1>1. /\ Len(s) \in Nat /\ Len(t) = Len(s) + 1 /\ t[Len(s) + 1] = e
      /\ \A k \in 1..Len(s) : t[k] = s[k]
  BY AppendProperties
<1> HIDE DEF t
<1>2. i \in 1..Len(t)
  BY DEF t
<1>3. i \in 1..Len(s) \/ i = Len(s) + 1
  BY <1>1, <1>2
<1>4. (i \in 1..Len(s) /\ t[i] = s[i]) \/ t[i] = e
  BY <1>1, <1>3
<1> QED  BY <1>4 DEF t

\* What Execute does to one channel that has a command waiting.
ExecuteOf(c, e) ==
  /\ e \in Entry /\ e.id \in Queued(c)
  /\ reSendList'[c] = Append(reSendList[c], e)
  /\ \/ wire'[c] = wire[c]
     \/ \E a \in Answer : wire'[c] = Append(wire[c], a) /\ SameEntry(a, e)
  /\ Queued(c)' \subseteq Queued(c) /\ \A x \in Queued(c)' : e.id < x
  /\ Sorted(m_cmd_queue'[c])

LEMMA ExecuteChannel ==
  ASSUME TypeOK, InOrder, Execute, NEW c \in Ready
  PROVE  \E e : ExecuteOf(c, e)
<1> DEFINE h == HeadCmd(c)
<1>1. c \in Chans /\ m_cmd_queue[c] # <<>> /\ m_cmd_queue[c] \in Seq(Command) /\ Sorted(m_cmd_queue[c])
  BY SeqTypes DEF Ready, InOrder
<1>2. PICK feat \in Feat : /\ Sent(h, feat) \in Entry /\ Reply(h, feat) \in Answer
                           /\ Heard => wire'[c] = Append(wire[c], Reply(h, feat))
                           /\ reSendList'[c] = Append(reSendList[c], Sent(h, feat))
                           /\ m_cmd_queue'[c] = Tail(m_cmd_queue[c])
  BY ExecuteParts
<1>3. wire'[c] = wire[c] \/ Heard
  BY <1>1, ExecuteParts
<1>4. /\ IdsOf(Tail(m_cmd_queue[c])) \subseteq IdsOf(m_cmd_queue[c])
      /\ h.id \in IdsOf(m_cmd_queue[c])
      /\ Sorted(Tail(m_cmd_queue[c])) /\ \A x \in IdsOf(Tail(m_cmd_queue[c])) : h.id < x
  BY <1>1, IdsTail DEF HeadCmd
<1> HIDE DEF h
<1>5. Sent(h, feat).id = h.id /\ SameEntry(Reply(h, feat), Sent(h, feat))
  BY DEF Sent, Reply, SameEntry
<1>6. PICK e, a : e = Sent(h, feat) /\ a = Reply(h, feat)
  OBVIOUS
<1>7. e \in Entry /\ a \in Answer /\ e.id = h.id /\ SameEntry(a, e)
  BY <1>2, <1>5, <1>6
<1>8. wire'[c] = wire[c] \/ \E b \in Answer : wire'[c] = Append(wire[c], b) /\ SameEntry(b, e)
  BY <1>2, <1>3, <1>6, <1>7
<1> QED  BY <1>2, <1>4, <1>6, <1>7, <1>8 DEF ExecuteOf, Queued

LEMMA ExecuteIds == ASSUME IdInv, TypeOK', Execute PROVE IdInv'
<1>1. TypeOK /\ Own /\ Younger /\ InOrder /\ Matching /\ Told /\ cmds \in Nat
  BY ConstantTypes DEF IdInv, TypeOK
<1>2. UNCHANGED <<m_ack_info, answered, cmds>>
  BY DEF Execute, count
<1>3. \A c \in Chans : c \notin Ready => UNCHANGED <<m_cmd_queue[c], reSendList[c], wire[c]>>
  BY <1>1, ExecuteParts
<1>4. \A c \in Ready : c \in Chans /\ \E e : ExecuteOf(c, e)
  BY <1>1, ExecuteChannel DEF Ready
<1>5. ASSUME NEW c \in Chans, NEW e, ExecuteOf(c, e)
      PROVE  /\ Listed(c)' = Listed(c) \cup {e.id} /\ Replied(c)' \subseteq Replied(c) \cup {e.id}
             /\ Sorted(reSendList'[c])
             /\ e.id \notin answered /\ \A y \in Listed(c) \cup Replied(c) : y < e.id
  <2>1. e.id \notin answered /\ \A y \in Listed(c) \cup Replied(c) : y < e.id
    BY <1>1, <1>5 DEF Younger, ExecuteOf
  <2>2. reSendList[c] \in Seq(Entry) /\ wire[c] \in Seq(Answer) /\ Sorted(reSendList[c])
    BY <1>1, SeqTypes DEF InOrder
  <2>3. Listed(c)' = Listed(c) \cup {e.id} /\ Sorted(reSendList'[c])
    BY <1>5, <2>1, <2>2, IdsAppend DEF ExecuteOf, Listed
  <2>4. Replied(c)' \subseteq Replied(c) \cup {e.id}
    <3>1. CASE wire'[c] = wire[c]
      BY <3>1 DEF Replied
    <3>2. ASSUME NEW a \in Answer, wire'[c] = Append(wire[c], a), SameEntry(a, e)
          PROVE  Replied(c)' \subseteq Replied(c) \cup {e.id}
      <4>1. IdsOf(wire'[c]) = IdsOf(wire[c]) \cup {a.id}
        BY <2>2, <3>2, IdsAppend
      <4> QED  BY <3>2, <4>1 DEF Replied, SameEntry
    <3> QED  BY <1>5, <3>1, <3>2 DEF ExecuteOf
  <2> QED  BY <2>1, <2>3, <2>4
<1>6. ASSUME NEW c \in Chans
      PROVE  /\ Ids(c)' \subseteq Ids(c) /\ Sorted(m_cmd_queue'[c]) /\ Sorted(reSendList'[c])
             /\ \A x \in Queued(c)' : x \in Queued(c) /\ \A y \in Listed(c)' \cup Replied(c)' : y < x
  <2>1. CASE c \notin Ready
    <3>1. Queued(c)' = Queued(c) /\ Listed(c)' = Listed(c) /\ Replied(c)' = Replied(c)
      BY <1>3, <2>1 DEF Queued, Listed, Replied
    <3>2. Sorted(m_cmd_queue'[c]) /\ Sorted(reSendList'[c])
      BY <1>1, <1>3, <2>1 DEF InOrder
    <3> QED  BY <1>1, <3>1, <3>2 DEF Ids, Younger
  <2>2. CASE c \in Ready
    <3>1. PICK e : ExecuteOf(c, e)
      BY <1>4, <2>2
    <3>2. /\ Listed(c)' = Listed(c) \cup {e.id} /\ Replied(c)' \subseteq Replied(c) \cup {e.id}
          /\ Sorted(reSendList'[c])
      BY <1>5, <3>1
    <3>3. /\ e.id \in Queued(c) /\ Queued(c)' \subseteq Queued(c) /\ \A x \in Queued(c)' : e.id < x
          /\ Sorted(m_cmd_queue'[c])
      BY <3>1 DEF ExecuteOf
    <3>4. Ids(c)' \subseteq Ids(c)
      BY <3>2, <3>3 DEF Ids
    <3>5. ASSUME NEW x \in Queued(c)', NEW y \in Listed(c)' \cup Replied(c)' PROVE y < x
      <4>1. y = e.id \/ y \in Listed(c) \cup Replied(c)
        BY <3>2
      <4> QED  BY <1>1, <3>3, <4>1 DEF Younger
    <3> QED  BY <3>2, <3>3, <3>4, <3>5
  <2> QED  BY <2>1, <2>2
<1>7. Own'
  BY <1>1, <1>2, <1>6 DEF Own
<1>8. Younger'
  BY <1>1, <1>2, <1>6 DEF Younger
<1>9. InOrder'
  BY <1>6 DEF InOrder
<1>10. Matching'
  <2> SUFFICES ASSUME NEW c \in Chans, NEW i \in 1..Len(wire'[c]), NEW j \in 1..Len(reSendList'[c]),
                      wire'[c][i].id = reSendList'[c][j].id
               PROVE  /\ wire'[c][i].feat = reSendList'[c][j].feat
                      /\ wire'[c][i].kind = reSendList'[c][j].kind
    BY DEF Matching
  <2>1. CASE c \notin Ready
    BY <1>1, <1>3, <2>1 DEF Matching
  <2>2. CASE c \in Ready
    <3>1. PICK e : ExecuteOf(c, e)
      BY <1>4, <2>2
    <3>2. reSendList[c] \in Seq(Entry) /\ wire[c] \in Seq(Answer) /\ e \in Entry
      BY <1>1, <3>1, SeqTypes DEF ExecuteOf
    <3>3. e.id \in 1..MaxCmds /\ \A y \in Listed(c) \cup Replied(c) : y < e.id
      BY <1>5, <3>1, <3>2 DEF Entry
    <3>4. e.id # 0 /\ ~(e.id < e.id)
      BY <3>3, ConstantTypes
    <3>5. \/ j \in 1..Len(reSendList[c]) /\ reSendList'[c][j] = reSendList[c][j]
          \/ reSendList'[c][j] = e
      BY <3>1, <3>2, AppendIndex DEF ExecuteOf
    <3>6. \/ i \in 1..Len(wire[c]) /\ wire'[c][i] = wire[c][i]
          \/ SameEntry(wire'[c][i], e)
      <4>1. CASE wire'[c] = wire[c]
        BY <4>1
      <4>2. ASSUME NEW a \in Answer, wire'[c] = Append(wire[c], a), SameEntry(a, e)
            PROVE  \/ i \in 1..Len(wire[c]) /\ wire'[c][i] = wire[c][i]
                   \/ SameEntry(wire'[c][i], e)
        BY <3>2, <4>2, AppendIndex
      <4> QED  BY <3>1, <4>1, <4>2 DEF ExecuteOf
    <3>7. ASSUME j \in 1..Len(reSendList[c]), reSendList'[c][j] = reSendList[c][j]
          PROVE  reSendList'[c][j].id < e.id
      BY <3>3, <3>7 DEF Listed, IdsOf
    <3>8. ASSUME i \in 1..Len(wire[c]), wire'[c][i] = wire[c][i], wire'[c][i].id = e.id
          PROVE  FALSE
      <4>1. e.id \in Replied(c)
        BY <3>4, <3>8 DEF Replied, IdsOf
      <4> QED  BY <3>3, <3>4, <4>1
    <3>9. CASE reSendList'[c][j] = e
      BY <3>6, <3>8, <3>9 DEF SameEntry
    <3>10. CASE reSendList'[c][j] # e
      <4>1. j \in 1..Len(reSendList[c]) /\ reSendList'[c][j] = reSendList[c][j] /\ reSendList'[c][j].id < e.id
        BY <3>5, <3>7, <3>10
      <4>2. ~SameEntry(wire'[c][i], e)
        BY <3>4, <4>1 DEF SameEntry
      <4> QED  BY <1>1, <3>6, <4>1, <4>2 DEF Matching
    <3> QED  BY <3>9, <3>10
  <2> QED  BY <2>1, <2>2
<1>11. Told'
  <2> SUFFICES ASSUME NEW c \in Chans, NEW j \in 1..Len(reSendList'[c]),
                      reSendList'[c][j].id \in answered'
               PROVE  Acked(c, reSendList[c][j])'
    BY DEF Told
  <2>1. \/ j \in 1..Len(reSendList[c]) /\ reSendList'[c][j] = reSendList[c][j]
        \/ reSendList'[c][j].id \notin answered
    <3>1. CASE c \notin Ready
      BY <1>3, <3>1
    <3>2. CASE c \in Ready
      <4>1. PICK e : ExecuteOf(c, e)
        BY <1>4, <3>2
      <4>2. reSendList[c] \in Seq(Entry) /\ e \in Entry /\ e.id \notin answered
        BY <1>1, <1>5, <4>1, SeqTypes DEF ExecuteOf
      <4> QED  BY <4>1, <4>2, AppendIndex DEF ExecuteOf
    <3> QED  BY <3>1, <3>2
  <2>2. j \in 1..Len(reSendList[c]) /\ reSendList'[c][j] = reSendList[c][j]
    BY <1>2, <2>1
  <2>3. Acked(c, reSendList[c][j])
    BY <1>1, <1>2, <2>2 DEF Told
  <2> QED  BY <1>2, <2>2, <2>3 DEF Acked
<1> QED  BY <1>7, <1>8, <1>9, <1>10, <1>11 DEF IdInv

\* A resend list that loses entries, and ages: nothing new is in it.
Thinned(c) ==
  /\ \A j \in 1..Len(reSendList'[c]) : \E k \in 1..Len(reSendList[c]) :
       SameEntry(reSendList'[c][j], reSendList[c][k])
  /\ Sorted(reSendList'[c])

LEMMA CheckAcksChannel ==
  ASSUME TypeOK, InOrder, Told, CheckAcks, NEW c \in Chans
  PROVE  /\ Thinned(c)
         /\ \A j \in 1..Len(reSendList'[c]) : reSendList'[c][j].id \in answered
              => Acked(c, reSendList[c][j])'
<1>1. reSendList[c] \in Seq(Entry) /\ Len(reSendList[c]) \in Nat /\ Sorted(reSendList[c])
      /\ \A k \in 1..Len(reSendList[c]) : reSendList[c][k] \in Entry
  BY SeqTypes DEF InOrder
<1>2. PICK n \in 0..Len(reSendList[c]) :
        /\ reSendList'[c] = Unanswered(c, n)
        /\ m_ack_info'[c] = m_ack_info[c] \/ n = Len(reSendList[c])
  BY CheckAcksParts
<1>3. /\ \A j \in 1..Len(reSendList'[c]) : \E k \in 1..Len(reSendList[c]) :
            \/ k <= n /\ reSendList'[c][j] = EntryAt(c, k) /\ ~Acked(c, reSendList[c][k])
            \/ k > n /\ reSendList'[c][j] = reSendList[c][k]
      /\ Sorted(reSendList'[c])
  <2> DEFINE u == Unanswered(c, n)
  <2>1. /\ \A j \in 1..Len(u) : \E k \in 1..Len(reSendList[c]) :
             \/ k <= n /\ u[j] = EntryAt(c, k) /\ ~Acked(c, reSendList[c][k])
             \/ k > n /\ u[j] = reSendList[c][k]
        /\ Sorted(u)
    BY <1>1, UnansweredLeft
  <2>2. reSendList'[c] = u
    BY <1>2
  <2> HIDE DEF u
  <2> QED  BY <2>1, <2>2
<1>4. \A k \in 1..Len(reSendList[c]) : SameEntry(EntryAt(c, k), reSendList[c][k])
  BY <1>1 DEF EntryAt, SameEntry, Entry
<1>5. ASSUME NEW j \in 1..Len(reSendList'[c])
      PROVE  /\ \E k \in 1..Len(reSendList[c]) : SameEntry(reSendList'[c][j], reSendList[c][k])
             /\ reSendList'[c][j].id \in answered
                  => [feat |-> reSendList'[c][j].feat, func |-> Func(reSendList'[c][j].kind)] \in m_ack_info'[c]
  <2>1. PICK k \in 1..Len(reSendList[c]) :
            \/ k <= n /\ reSendList'[c][j] = EntryAt(c, k) /\ ~Acked(c, reSendList[c][k])
            \/ k > n /\ reSendList'[c][j] = reSendList[c][k]
    BY <1>3
  <2>2. SameEntry(reSendList'[c][j], reSendList[c][k])
    BY <1>4, <2>1 DEF SameEntry
  <2>3. reSendList[c][k].id \in answered => Acked(c, reSendList[c][k])
    BY DEF Told
  <2>4. CASE reSendList[c][k].id \in answered
    <3>1. k > n /\ reSendList'[c][j] = reSendList[c][k]
      BY <2>1, <2>3, <2>4
    <3>2. n # Len(reSendList[c])
      BY <1>1, <3>1
    <3>3. m_ack_info'[c] = m_ack_info[c]
      BY <1>2, <3>2
    <3> QED  BY <2>2, <2>3, <2>4, <3>1, <3>3 DEF Acked
  <2>5. CASE reSendList[c][k].id \notin answered
    BY <2>2, <2>5 DEF SameEntry
  <2> QED  BY <2>4, <2>5
<1>6. Thinned(c)
  BY <1>3, <1>5 DEF Thinned
<1> QED  BY <1>5, <1>6 DEF Acked

LEMMA CheckAcksIds == ASSUME IdInv, TypeOK', CheckAcks PROVE IdInv'
<1>1. TypeOK /\ Own /\ Younger /\ InOrder /\ Matching /\ Told
  BY DEF IdInv
<1>2. UNCHANGED <<m_cmd_queue, wire, answered, cmds>>
  BY DEF CheckAcks, count
<1>3. \A c \in Chans : Thinned(c)
  BY <1>1, CheckAcksChannel
<1>4. \A c \in Chans : Queued(c)' = Queued(c) /\ Listed(c)' \subseteq Listed(c) /\ Replied(c)' = Replied(c)
  BY <1>2, <1>3 DEF Queued, Listed, Replied, IdsOf, Thinned, SameEntry
<1>5. Own'
  <2>1. \A c \in Chans : Ids(c)' \subseteq Ids(c)
    BY <1>4 DEF Ids
  <2> QED  BY <1>1, <1>2, <2>1 DEF Own
<1>6. Younger'
  BY <1>1, <1>2, <1>4 DEF Younger
<1>7. InOrder'
  BY <1>1, <1>2, <1>3 DEF InOrder, Thinned
<1>8. Matching'
  <2> SUFFICES ASSUME NEW c \in Chans, NEW i \in 1..Len(wire'[c]), NEW j \in 1..Len(reSendList'[c]),
                      wire'[c][i].id = reSendList'[c][j].id
               PROVE  /\ wire'[c][i].feat = reSendList'[c][j].feat
                      /\ wire'[c][i].kind = reSendList'[c][j].kind
    BY DEF Matching
  <2>1. PICK k \in 1..Len(reSendList[c]) : SameEntry(reSendList'[c][j], reSendList[c][k])
    BY <1>3 DEF Thinned
  <2> QED  BY <1>1, <1>2, <2>1 DEF Matching, SameEntry
<1>9. Told'
  <2>1. ASSUME NEW c \in Chans, NEW j \in 1..Len(reSendList'[c]), reSendList'[c][j].id \in answered'
        PROVE  Acked(c, reSendList[c][j])'
    BY <1>1, <1>2, <2>1, CheckAcksChannel
  <2> QED  BY <2>1 DEF Told
<1> QED  BY <1>5, <1>6, <1>7, <1>8, <1>9 DEF IdInv

\* What ResendTask does to one channel that has an entry to send again.
ResendOf(c) ==
  /\ \A j \in 1..Len(reSendList'[c]) : j + 1 \in 1..Len(reSendList[c]) /\ reSendList'[c][j] = reSendList[c][j + 1]
  /\ \A x \in Listed(c)' : x \in Listed(c) /\ Head(reSendList[c]).id < x
  /\ Head(reSendList[c]).id \in Listed(c) /\ Sorted(reSendList'[c])
  /\ \/ wire'[c] = wire[c]
     \/ \E a \in Answer : wire'[c] = Append(wire[c], a) /\ a.id = Head(reSendList[c]).id

LEMMA ResendChannel ==
  ASSUME TypeOK, InOrder, ResendTask, NEW c \in Resent
  PROVE  c \in Chans /\ ResendOf(c)
<1> DEFINE h == Head(reSendList[c])
<1>1. c \in Chans /\ reSendList[c] # <<>> /\ reSendList[c] \in Seq(Entry) /\ Sorted(reSendList[c])
      /\ Len(reSendList[c]) \in Nat
  BY SeqTypes DEF Resent, InOrder
<1>2. reSendList'[c] = Tail(reSendList[c])
  BY ResendParts
<1>3. /\ IdsOf(Tail(reSendList[c])) \subseteq IdsOf(reSendList[c]) /\ h.id \in IdsOf(reSendList[c])
      /\ Sorted(Tail(reSendList[c])) /\ \A x \in IdsOf(Tail(reSendList[c])) : h.id < x
  BY <1>1, IdsTail
<1>4. /\ Len(Tail(reSendList[c])) = Len(reSendList[c]) - 1
      /\ \A j \in 1..Len(Tail(reSendList[c])) : Tail(reSendList[c])[j] = reSendList[c][j + 1]
  BY <1>1, HeadTailProperties
<1>5. \A j \in 1..Len(reSendList'[c]) : j + 1 \in 1..Len(reSendList[c])
  BY <1>1, <1>2, <1>4
<1>6. wire'[c] = wire[c] \/ \E a \in Answer : wire'[c] = Append(wire[c], a) /\ a.id = h.id
  BY <1>1, ResendParts
<1> QED  BY <1>1, <1>2, <1>3, <1>4, <1>5, <1>6 DEF ResendOf, Listed

LEMMA ResendIds == ASSUME IdInv, TypeOK', ResendTask PROVE IdInv'
<1>1. TypeOK /\ Own /\ Younger /\ InOrder /\ Matching /\ Told
  BY DEF IdInv
<1>2. UNCHANGED <<m_cmd_queue, m_ack_info, answered, cmds>>
  BY DEF ResendTask, count
<1>3. \A c \in Chans : c \notin Resent => UNCHANGED <<reSendList[c], wire[c]>>
  BY <1>1, ResendParts
<1>4. \A c \in Resent : ResendOf(c)
  BY <1>1, ResendChannel
<1>5. ASSUME NEW c \in Chans, ResendOf(c)
      PROVE  Replied(c)' \subseteq Replied(c) \cup {Head(reSendList[c]).id}
  <2>1. CASE wire'[c] = wire[c]
    BY <2>1 DEF Replied
  <2>2. ASSUME NEW a \in Answer, wire'[c] = Append(wire[c], a), a.id = Head(reSendList[c]).id
        PROVE  Replied(c)' \subseteq Replied(c) \cup {Head(reSendList[c]).id}
    <3>1. IdsOf(wire'[c]) = IdsOf(wire[c]) \cup {a.id}
      BY <1>1, <2>2, IdsAppend, SeqTypes
    <3> QED  BY <2>2, <3>1 DEF Replied
  <2> QED  BY <1>5, <2>1, <2>2 DEF ResendOf
<1>6. ASSUME NEW c \in Chans
      PROVE  /\ Queued(c)' = Queued(c) /\ Listed(c)' \subseteq Listed(c)
             /\ Replied(c)' \subseteq Replied(c) \cup Listed(c) /\ Sorted(reSendList'[c])
  <2>1. CASE c \notin Resent
    BY <1>1, <1>2, <1>3, <2>1 DEF Queued, Listed, Replied, InOrder
  <2>2. CASE c \in Resent
    <3>1. ResendOf(c)
      BY <1>4, <2>2
    <3>2. Replied(c)' \subseteq Replied(c) \cup {Head(reSendList[c]).id}
      BY <1>5, <3>1
    <3>3. Listed(c)' \subseteq Listed(c) /\ Head(reSendList[c]).id \in Listed(c) /\ Sorted(reSendList'[c])
      BY <3>1 DEF ResendOf
    <3> QED  BY <1>2, <3>2, <3>3 DEF Queued
  <2> QED  BY <2>1, <2>2
<1>7. Own'
  <2>1. \A c \in Chans : Ids(c)' \subseteq Ids(c)
    BY <1>6 DEF Ids
  <2> QED  BY <1>1, <1>2, <2>1 DEF Own
<1>8. Younger'
  <2>1. ASSUME NEW c \in Chans, NEW x \in Queued(c)'
        PROVE  x \notin answered' /\ \A y \in Listed(c)' \cup Replied(c)' : y < x
    <3>1. x \in Queued(c) /\ Listed(c)' \cup Replied(c)' \subseteq Listed(c) \cup Replied(c)
      BY <1>6, <2>1
    <3> QED  BY <1>1, <1>2, <3>1 DEF Younger
  <2> QED  BY <2>1 DEF Younger
<1>9. InOrder'
  BY <1>1, <1>2, <1>6 DEF InOrder
<1>10. ASSUME NEW c \in Chans, NEW j \in 1..Len(reSendList'[c])
       PROVE  \E k \in 1..Len(reSendList[c]) : reSendList'[c][j] = reSendList[c][k]
  <2>1. CASE c \notin Resent
    BY <1>3, <2>1
  <2>2. CASE c \in Resent
    BY <1>4, <2>2 DEF ResendOf
  <2> QED  BY <2>1, <2>2
<1>11. Matching'
  <2> SUFFICES ASSUME NEW c \in Chans, NEW i \in 1..Len(wire'[c]), NEW j \in 1..Len(reSendList'[c]),
                      wire'[c][i].id = reSendList'[c][j].id
               PROVE  /\ wire'[c][i].feat = reSendList'[c][j].feat
                      /\ wire'[c][i].kind = reSendList'[c][j].kind
    BY DEF Matching
  <2>1. i \in 1..Len(wire[c]) /\ wire'[c][i] = wire[c][i]
    <3>1. CASE wire'[c] = wire[c]
      BY <3>1
    <3>2. CASE wire'[c] # wire[c]
      <4>1. ResendOf(c)
        BY <1>3, <1>4, <3>2
      <4>2. PICK a \in Answer : wire'[c] = Append(wire[c], a) /\ a.id = Head(reSendList[c]).id
        BY <3>2, <4>1 DEF ResendOf
      <4>3. reSendList'[c][j].id \in Listed(c)' /\ Listed(c)' \subseteq Listed(c)
        BY <1>6 DEF Listed, IdsOf
      <4>4. Head(reSendList[c]).id < reSendList'[c][j].id /\ reSendList'[c][j].id \in 1..cmds
        BY <1>1, <4>1, <4>3 DEF ResendOf, Own, Ids
      <4>5. Head(reSendList[c]).id \in 1..cmds
        BY <1>1, <4>1 DEF ResendOf, Own, Ids
      <4>6. cmds \in Nat
        BY <1>1, ConstantTypes DEF TypeOK
      <4>7. wire'[c][i] # a
        BY <4>2, <4>4, <4>5, <4>6
      <4>8. wire[c] \in Seq(Answer)
        BY <1>1, SeqTypes
      <4> QED  BY <4>2, <4>7, <4>8, AppendIndex
    <3> QED  BY <3>1, <3>2
  <2>2. PICK k \in 1..Len(reSendList[c]) : reSendList'[c][j] = reSendList[c][k]
    BY <1>10
  <2> QED  BY <1>1, <2>1, <2>2 DEF Matching
<1>12. Told'
  <2> SUFFICES ASSUME NEW c \in Chans, NEW j \in 1..Len(reSendList'[c]),
                      reSendList'[c][j].id \in answered'
               PROVE  Acked(c, reSendList[c][j])'
    BY DEF Told
  <2>1. PICK k \in 1..Len(reSendList[c]) : reSendList'[c][j] = reSendList[c][k]
    BY <1>10
  <2>2. Acked(c, reSendList[c][k])
    BY <1>1, <1>2, <2>1 DEF Told
  <2> QED  BY <1>2, <2>1, <2>2 DEF Acked
<1> QED  BY <1>7, <1>8, <1>9, <1>11, <1>12 DEF IdInv

LEMMA IdsInit == Init => IdInv
<1> SUFFICES ASSUME Init PROVE IdInv
  OBVIOUS
<1>1. \A c \in Chans : m_cmd_queue[c] = <<>> /\ reSendList[c] = <<>> /\ wire[c] = <<>>
  BY DEF Init
<1>2. cmds = 0 /\ answered = {}
  BY DEF Init
<1>3. \A c \in Chans : Queued(c) = {} /\ Listed(c) = {} /\ Replied(c) = {}
  BY <1>1 DEF Queued, Listed, Replied, IdsOf
<1>4. InOrder /\ Matching /\ Told
  BY <1>1 DEF InOrder, Matching, Told, Sorted
<1> QED  BY <1>2, <1>3, <1>4, TypesInit DEF IdInv, Own, Younger, Ids

LEMMA IdsNext == IdInv /\ [Next]_vars => IdInv'
<1> SUFFICES ASSUME IdInv, [Next]_vars PROVE IdInv'
  OBVIOUS
<1>1. TypeOK /\ TypeOK'
  BY TypesNext DEF IdInv
<1>2. CASE Silence \/ Connect \/ LinkUpdate \/ NotDue \/ Drained \/ Closed \/ UNCHANGED vars
  BY <1>1, <1>2, OtherTame, TameKeeps
<1>3. CASE Beat
  BY <1>1, <1>3, BeatTame, TameKeeps
<1>4. CASE Execute
  BY <1>1, <1>4, ExecuteIds
<1>5. CASE CheckAcks
  BY <1>1, <1>5, CheckAcksIds
<1>6. CASE ResendTask
  BY <1>1, <1>6, ResendIds
<1>7. ASSUME NEW c \in Chans, StopProcess(c) PROVE IdInv'
  BY <1>1, <1>7, StopTame, TameKeeps
<1>8. ASSUME NEW c \in Chans, HandleReply(c) PROVE IdInv'
  BY <1>1, <1>8, ReplyIds
<1>9. ASSUME NEW c \in Chans, NEW kind \in CmdKinds, PushCommand(c, kind) PROVE IdInv'
  BY <1>1, <1>9, PushIds
<1> QED  BY <1>2, <1>3, <1>4, <1>5, <1>6, <1>7, <1>8, <1>9 DEF Next, Loop

-----------------------------------------------------------------------------
(* A command that has been answered is not sent again.                      *)

\* As long as an entry of the first channel may still be waited for, the gate is shut by
\* more answers than are under way: two of them come only after two heartbeat periods.
Pace ==
  \A j \in 1..Len(reSendList[First]) : reSendList[First][j].age < 2
     => m_heartbeat_tick[First] + reSendList[First][j].age >= 2 + Under
\* So with the gate open check_ack_response has just taken out all that were answered.
Cleared == pc = "resend" /\ m_heartbeat_tick[First] = 0 => Listed(First) \cap answered = {}
ClearInv == AliveInv /\ IdInv /\ Pace /\ Cleared

LEMMA PaceTypes ==
  ASSUME TypeOK
  PROVE  /\ Under \in Nat /\ m_heartbeat_tick[First] \in 0..CheckTick
         /\ CheckTick = BeatMax + 2 /\ BeatMax \in Nat /\ MaxLag \in Nat
         /\ reSendList[First] \in Seq(Entry) /\ Len(reSendList[First]) \in Nat
         /\ \A j \in 1..Len(reSendList[First]) : reSendList[First][j].age \in 0..2
<1>1. First \in Chans
  BY ConstantTypes
<1>2. /\ reSendList[First] \in Seq(Entry) /\ Len(reSendList[First]) \in Nat
      /\ \A j \in 1..Len(reSendList[First]) : reSendList[First][j] \in Entry
  BY <1>1, SeqTypes
<1>3. m_heartbeat_tick[First] \in 0..CheckTick
  BY <1>1 DEF TypeOK
<1> QED  BY <1>2, <1>3, AliveTypes DEF Entry, CheckTick

LEMMA PaceTypesNext == ASSUME TypeOK' PROVE Under' \in Nat /\ m_heartbeat_tick'[First] \in Nat
<1>1. First \in Chans /\ wire'[First] \in Seq(Answer)
  BY ConstantTypes DEF TypeOK
<1>2. m_heartbeat_tick'[First] \in 0..CheckTick /\ CheckTick \in Nat
  BY <1>1, ConstantTypes DEF TypeOK, CheckTick
<1> QED  BY <1>1, <1>2, BeatsFinite DEF Under

LEMMA FurtherOff ==
  ASSUME NEW tick \in Nat, NEW nextTick \in Nat, NEW under \in Nat, NEW nextUnder \in Nat, NEW age \in Nat,
         nextTick >= tick, nextUnder <= under, tick + age >= 2 + under
  PROVE  nextTick + age >= 2 + nextUnder
OBVIOUS

\* The gate does not come nearer and no answer comes on its way: it stays far enough when
\* the entries that are left were there before, with the same age or too old to count.
LEMMA PaceKept ==
  ASSUME TypeOK, TypeOK', Pace,
         m_heartbeat_tick'[First] >= m_heartbeat_tick[First], Under' <= Under,
         \A j \in 1..Len(reSendList'[First]) :
            reSendList'[First][j].age < 2
              => \E k \in 1..Len(reSendList[First]) : reSendList'[First][j].age = reSendList[First][k].age
  PROVE  Pace'
<1>1. Under' \in Nat /\ m_heartbeat_tick'[First] \in Nat
  BY PaceTypesNext
<1>2. ASSUME NEW j \in 1..Len(reSendList'[First]), reSendList'[First][j].age < 2
      PROVE  m_heartbeat_tick'[First] + reSendList'[First][j].age >= 2 + Under'
  <2>1. PICK k \in 1..Len(reSendList[First]) : reSendList'[First][j].age = reSendList[First][k].age
    BY <1>2
  <2>2. m_heartbeat_tick[First] + reSendList[First][k].age >= 2 + Under
    BY <1>2, <2>1 DEF Pace
  <2>3. reSendList[First][k].age \in Nat /\ Under \in Nat /\ m_heartbeat_tick[First] \in Nat
    <3>1. /\ reSendList[First][k].age \in 0..2 /\ Under \in Nat
          /\ m_heartbeat_tick[First] \in 0..CheckTick /\ CheckTick \in Nat
      BY PaceTypes
    <3> QED  BY <3>1
  <2>4. m_heartbeat_tick'[First] + reSendList[First][k].age >= 2 + Under'
    BY <1>1, <2>2, <2>3, FurtherOff
  <2> QED  BY <2>1, <2>4
<1> QED  BY <1>2 DEF Pace

LEMMA PaceExecute ==
  ASSUME TypeOK, TypeOK', Lag, Pace, Execute, MaxLag <= BeatMax
  PROVE  Pace'
<1>1. First \in Chans /\ Under' = Under
  BY ConstantTypes, ExecuteUnder
<1>2. CASE First \notin Ready
  <2>1. reSendList'[First] = reSendList[First] /\ m_heartbeat_tick'[First] = m_heartbeat_tick[First]
    BY <1>1, <1>2, ExecuteParts
  <2> QED  BY <1>1, <2>1, PaceKept, PaceTypes
<1>3. CASE First \in Ready
  <2>1. PICK feat \in Feat : /\ Sent(HeadCmd(First), feat) \in Entry
                             /\ reSendList'[First] = Append(reSendList[First], Sent(HeadCmd(First), feat))
                             /\ m_heartbeat_tick'[First] = CheckTick
    BY <1>3, ExecuteParts
  <2>2. PICK e \in Entry : reSendList'[First] = Append(reSendList[First], e) /\ e.age = 0
    BY <2>1 DEF Sent
  <2>3. ASSUME NEW j \in 1..Len(reSendList'[First]), reSendList'[First][j].age < 2
        PROVE  m_heartbeat_tick'[First] + reSendList'[First][j].age >= 2 + Under'
    <3>1. \/ j \in 1..Len(reSendList[First]) /\ reSendList'[First][j] = reSendList[First][j]
          \/ reSendList'[First][j] = e
      BY <2>2, PaceTypes, AppendIndex
    <3>2. reSendList'[First][j].age \in 0..2
      <4>1. CASE reSendList'[First][j] = e
        BY <2>2, <4>1
      <4>2. CASE j \in 1..Len(reSendList[First]) /\ reSendList'[First][j] = reSendList[First][j]
        BY <4>2, PaceTypes
      <4> QED  BY <3>1, <4>1, <4>2
    <3>3. /\ Under \in Nat /\ Under <= MaxLag /\ MaxLag \in Nat /\ BeatMax \in Nat
          /\ m_heartbeat_tick'[First] = BeatMax + 2
      BY <2>1, PaceTypes DEF Lag
    <3>4. ASSUME NEW under \in Nat, NEW lag \in Nat, NEW max \in Nat, NEW age \in 0..2, under <= lag, lag <= max
          PROVE  (max + 2) + age >= 2 + under
      BY <3>4
    <3>5. (BeatMax + 2) + reSendList'[First][j].age >= 2 + Under
      BY <3>2, <3>3, <3>4
    <3> QED  BY <1>1, <3>3, <3>5
  <2> QED  BY <2>3 DEF Pace
<1> QED  BY <1>2, <1>3

LEMMA PaceBeat ==
  ASSUME AliveInv, TypeOK', Pace, Beat
  PROVE  Pace'
<1>1. TypeOK /\ First \in Chans /\ UNCHANGED m_heartbeat_tick
      /\ reSendList' = [c \in Chans |-> Aged(reSendList[c])]
  BY ConstantTypes DEF AliveInv, Beat
<1>2. Under' \in Nat /\ Under' <= Under + 1
  <2>1. CASE Timeout
    BY <1>1, <2>1, LostNone, PaceTypes DEF Beat
  <2>2. CASE ~Timeout
    <3>1. Under' = Under + 1 \/ Under' = Under
      BY <2>2, BeatUnder
    <3> QED  BY <1>1, <3>1, PaceTypes
  <2> QED  BY <2>1, <2>2
<1>3. ASSUME NEW j \in 1..Len(reSendList'[First]), reSendList'[First][j].age < 2
      PROVE  m_heartbeat_tick'[First] + reSendList'[First][j].age >= 2 + Under'
  <2>1. /\ reSendList'[First] = [i \in DOMAIN reSendList[First] |->
              [reSendList[First][i] EXCEPT !.age = IF @ < 2 THEN @ + 1 ELSE 2]]
        /\ DOMAIN reSendList[First] = 1..Len(reSendList[First])
        /\ reSendList[First] \in Seq(Entry)
    BY <1>1, PaceTypes DEF Aged
  <2>2. Len(reSendList'[First]) = Len(reSendList[First])
    BY <1>1, AgedEntries, PaceTypes
  <2>3. j \in 1..Len(reSendList[First]) /\ reSendList[First][j] \in Entry
    BY <2>1, <2>2
  <2>4. reSendList'[First][j].age = IF reSendList[First][j].age < 2 THEN reSendList[First][j].age + 1 ELSE 2
    BY <2>1, <2>3 DEF Entry
  <2>5. reSendList[First][j].age < 2 /\ reSendList'[First][j].age = reSendList[First][j].age + 1
    BY <1>3, <2>4
  <2>6. m_heartbeat_tick[First] + reSendList[First][j].age >= 2 + Under
    BY <2>3, <2>5 DEF Pace
  <2>7. reSendList[First][j].age \in 0..2 /\ Under \in Nat /\ m_heartbeat_tick[First] \in 0..CheckTick
        /\ CheckTick \in Nat
    BY <1>1, <2>3, PaceTypes
  <2>8. m_heartbeat_tick'[First] = m_heartbeat_tick[First]
    BY <1>1
  <2> QED  BY <1>2, <2>5, <2>6, <2>7, <2>8
<1> QED  BY <1>3 DEF Pace

LEMMA PaceReply ==
  ASSUME TypeOK, TypeOK', Pace, NEW c \in Chans, HandleReply(c)
  PROVE  Pace'
<1>1. First \in Chans /\ UNCHANGED reSendList
      /\ m_heartbeat_tick \in [Chans -> 0..CheckTick]
      /\ IF Head(wire[c]).kind = "BEAT"
         THEN m_heartbeat_tick' = [m_heartbeat_tick EXCEPT ![c] = Nearer(@)]
         ELSE m_heartbeat_tick' = m_heartbeat_tick
  BY ConstantTypes DEF HandleReply, beat, TypeOK
<1>2. CASE c = First /\ Head(wire[c]).kind = "BEAT"
  <2>1. Under' = Under - 1
    BY <1>2, ReplyUnder
  <2>2. Under' \in Nat
    BY PaceTypesNext
  <2>3. m_heartbeat_tick'[First] = Nearer(m_heartbeat_tick[First])
    BY <1>1, <1>2
  <2>4. ASSUME NEW j \in 1..Len(reSendList[First]), reSendList[First][j].age < 2
        PROVE  m_heartbeat_tick'[First] + reSendList[First][j].age >= 2 + Under'
    <3>1. m_heartbeat_tick[First] + reSendList[First][j].age >= 2 + Under
      BY <2>4 DEF Pace
    <3>2. reSendList[First][j].age \in 0..2 /\ Under \in Nat /\ m_heartbeat_tick[First] \in 0..CheckTick
          /\ CheckTick \in Nat
      BY PaceTypes
    <3>3. m_heartbeat_tick[First] > 0
      BY <2>1, <2>2, <2>4, <3>1, <3>2
    <3>4. m_heartbeat_tick'[First] = m_heartbeat_tick[First] - 1
      BY <2>3, <3>3 DEF Nearer
    <3> DEFINE t == m_heartbeat_tick[First]  a == reSendList[First][j].age  u == Under
    <3>5. t \in Nat /\ a \in Nat /\ u \in Nat /\ t + a >= 2 + u
      BY <3>1, <3>2
    <3>6. m_heartbeat_tick'[First] = t - 1 /\ Under' = u - 1
      BY <2>1, <3>4
    <3> HIDE DEF t, u
    <3> QED  BY <3>5, <3>6
  <2> QED  BY <1>1, <2>4 DEF Pace
<1>3. CASE ~(c = First /\ Head(wire[c]).kind = "BEAT")
  <2>1. Under' = Under /\ m_heartbeat_tick'[First] = m_heartbeat_tick[First]
    BY <1>1, <1>3, ReplyUnder
  <2> QED  BY <1>1, <2>1, PaceKept, PaceTypes
<1> QED  BY <1>2, <1>3

LEMMA PaceNext == ASSUME AliveInv, TypeOK', InOrder, Pace, [Next]_vars, MaxLag <= BeatMax PROVE Pace'
<1>1. TypeOK /\ Lag /\ First \in Chans
  BY ConstantTypes DEF AliveInv
<1>2. ASSUME UNCHANGED <<reSendList, m_heartbeat_tick>>, Under' <= Under PROVE Pace'
  BY <1>1, <1>2, PaceKept, PaceTypes
<1>3. ASSUME UNCHANGED <<reSendList, m_heartbeat_tick>>, wire' \in {wire, Lost} PROVE Pace'
  <2>1. Under' \in {Under, 0}
    BY <1>3, LostNone DEF Under
  <2> QED  BY <1>1, <1>2, <1>3, <2>1, PaceTypes
<1>4. CASE Silence \/ Connect \/ LinkUpdate \/ NotDue \/ Drained \/ Closed \/ UNCHANGED vars
  <2>1. UNCHANGED <<reSendList, m_heartbeat_tick>> /\ wire' \in {wire, Lost}
    BY <1>4 DEF Silence, Connect, LinkUpdate, NotDue, Drained, Closed, vars, lists, beat
  <2> QED  BY <1>3, <2>1
<1>5. ASSUME NEW c \in Chans, StopProcess(c) PROVE Pace'
  <2>1. UNCHANGED <<reSendList, m_heartbeat_tick>> /\ Under' = Under
    BY <1>1, <1>5, StopUnder DEF StopProcess, lists, beat
  <2> QED  BY <1>1, <1>2, <2>1, PaceTypes
<1>6. ASSUME NEW c \in Chans, NEW kind \in CmdKinds, PushCommand(c, kind) PROVE Pace'
  <2>1. UNCHANGED <<reSendList, m_heartbeat_tick, wire>>
    BY <1>6 DEF PushCommand, beat
  <2> QED  BY <1>3, <2>1
<1>7. ASSUME UNCHANGED <<m_heartbeat_tick>>, Under' = Under,
             \A j \in 1..Len(reSendList'[First]) : reSendList'[First][j].age < 2
               => \E k \in 1..Len(reSendList[First]) : reSendList'[First][j].age = reSendList[First][k].age
      PROVE  Pace'
  BY <1>1, <1>7, PaceKept, PaceTypes
<1>8. CASE CheckAcks
  <2>1. UNCHANGED m_heartbeat_tick /\ Under' = Under
    BY <1>8 DEF CheckAcks, beat, Under
  <2>2. PICK n \in 0..Len(reSendList[First]) : reSendList'[First] = Unanswered(First, n)
    BY <1>1, <1>8, CheckAcksParts
  <2>3. ASSUME NEW j \in 1..Len(reSendList'[First]), reSendList'[First][j].age < 2
        PROVE  \E k \in 1..Len(reSendList[First]) : reSendList'[First][j].age = reSendList[First][k].age
    <3>1. PICK k \in 1..Len(reSendList[First]) :
            reSendList'[First][j] = EntryAt(First, k) \/ reSendList'[First][j] = reSendList[First][k]
      BY <1>1, <2>2, UnansweredLeft, PaceTypes
    <3>2. reSendList[First][k] \in Entry
      BY <1>1, SeqTypes
    <3>3. EntryAt(First, k).age = 2
      BY <3>2 DEF EntryAt, Entry
    <3> QED  BY <2>3, <3>1, <3>3
  <2> QED  BY <1>7, <2>1, <2>3
<1>9. CASE ResendTask
  <2>1. UNCHANGED m_heartbeat_tick /\ Under' = Under
    BY <1>1, <1>9, ResendUnder DEF ResendTask, beat
  <2>2. ASSUME NEW j \in 1..Len(reSendList'[First])
        PROVE  \E k \in 1..Len(reSendList[First]) : reSendList'[First][j] = reSendList[First][k]
    <3>1. CASE First \notin Resent
      BY <1>1, <1>9, <3>1, ResendParts
    <3>2. CASE First \in Resent
      <4>1. ResendOf(First)
        BY <1>1, <1>9, <3>2, ResendChannel
      <4> QED  BY <4>1 DEF ResendOf
    <3> QED  BY <3>1, <3>2
  <2> QED  BY <1>7, <2>1, <2>2
<1>10. CASE Beat
  BY <1>10, PaceBeat
<1>11. CASE Execute
  BY <1>1, <1>11, PaceExecute
<1>12. ASSUME NEW c \in Chans, HandleReply(c) PROVE Pace'
  BY <1>1, <1>12, PaceReply
<1> QED  BY <1>4, <1>5, <1>6, <1>8, <1>9, <1>10, <1>11, <1>12 DEF Next, Loop

\* With the gate open every entry is late, and check_ack_response takes out the answered.
LEMMA ClearedNext == ASSUME AliveInv, IdInv, Pace, Cleared, [Next]_vars PROVE Cleared'
<1> SUFFICES ASSUME pc' = "resend", m_heartbeat_tick'[First] = 0 PROVE (Listed(First) \cap answered = {})'
  BY DEF Cleared
<1>1. TypeOK /\ Told /\ First \in Chans
  BY ConstantTypes DEF IdInv
<1>2. CASE CheckAcks
  <2>1. UNCHANGED <<m_heartbeat_tick, answered>>
    BY <1>2 DEF CheckAcks, beat
  <2>2. \A k \in 1..Len(reSendList[First]) : reSendList[First][k].age = 2
    <3>1. ASSUME NEW k \in 1..Len(reSendList[First]), reSendList[First][k].age < 2 PROVE FALSE
      <4>1. m_heartbeat_tick[First] + reSendList[First][k].age >= 2 + Under
        BY <3>1 DEF Pace
      <4>2. reSendList[First][k].age \in 0..2 /\ Under \in Nat /\ m_heartbeat_tick[First] = 0
        BY <1>1, <2>1, PaceTypes
      <4> DEFINE a == reSendList[First][k].age  u == Under
      <4>3. a \in Nat /\ u \in Nat /\ a < 2 /\ a >= 2 + u
        BY <3>1, <4>1, <4>2
      <4> HIDE DEF a, u
      <4> QED  BY <4>3
    <3> QED  BY <1>1, <3>1, PaceTypes
  <2>3. PICK n \in 0..Len(reSendList[First]) :
          /\ \A i \in 1..Len(reSendList[First]) : reSendList[First][i].age = 2 => i <= n
          /\ reSendList'[First] = Unanswered(First, n)
    BY <1>1, <1>2, CheckAcksParts
  <2>4. ASSUME NEW j \in 1..Len(reSendList'[First]) PROVE reSendList'[First][j].id \notin answered
    <3>1. PICK k \in 1..Len(reSendList[First]) :
            \/ k <= n /\ reSendList'[First][j] = EntryAt(First, k) /\ ~Acked(First, reSendList[First][k])
            \/ k > n /\ reSendList'[First][j] = reSendList[First][k]
      <4> DEFINE u == Unanswered(First, n)
      <4>1. \A i \in 1..Len(u) : \E k \in 1..Len(reSendList[First]) :
              \/ k <= n /\ u[i] = EntryAt(First, k) /\ ~Acked(First, reSendList[First][k])
              \/ k > n /\ u[i] = reSendList[First][k]
        <5>1. reSendList[First] \in Seq(Entry)
          BY <1>1, PaceTypes
        <5> QED  BY <5>1, UnansweredLeft
      <4>2. reSendList'[First] = u
        BY <2>3
      <4> HIDE DEF u
      <4> QED  BY <4>1, <4>2
    <3>2. k <= n /\ ~(k > n)
      <4>1. k <= n
        BY <2>2, <2>3
      <4> QED  BY <1>1, <4>1, PaceTypes
    <3>3. reSendList'[First][j] = EntryAt(First, k) /\ ~Acked(First, reSendList[First][k])
      BY <3>1, <3>2
    <3>4. reSendList[First][k] \in Entry
      BY <1>1, SeqTypes
    <3>5. reSendList'[First][j].id = reSendList[First][k].id
      BY <3>3, <3>4 DEF EntryAt, Entry
    <3> QED  BY <1>1, <3>3, <3>5 DEF Told
  <2> QED  BY <2>1, <2>4 DEF Listed, IdsOf
<1>3. CASE ~CheckAcks
  <2>1. pc = "resend" /\ UNCHANGED <<reSendList, answered, m_heartbeat_tick>>
    BY <1>3 DEF Next, Loop, Silence, Connect, Beat, Closed, LinkUpdate, NotDue, Drained, Execute,
                ResendTask, StopProcess, HandleReply, PushCommand, vars, lists, beat
  <2> QED  BY <2>1 DEF Cleared, Listed
<1> QED  BY <1>2, <1>3

LEMMA ClearInit == Init => ClearInv
<1> SUFFICES ASSUME Init PROVE ClearInv
  OBVIOUS
<1>1. reSendList[First] = <<>> /\ pc = "link"
  BY ConstantTypes DEF Init
<1> QED  BY <1>1, AliveInit, IdsInit DEF ClearInv, Pace, Cleared

LEMMA ClearStep == ASSUME MaxLag <= BeatMax PROVE ClearInv /\ [Next]_vars => ClearInv'
<1> SUFFICES ASSUME ClearInv, [Next]_vars PROVE ClearInv'
  OBVIOUS
<1>1. AliveInv /\ IdInv /\ Pace /\ Cleared
  BY DEF ClearInv
<1>2. AliveInv' /\ IdInv'
  BY <1>1, AliveStep, IdsNext
<1>3. InOrder /\ TypeOK'
  BY <1>1, <1>2 DEF IdInv
<1>4. Pace'
  BY <1>1, <1>3, PaceNext
<1>5. Cleared'
  BY <1>1, ClearedNext
<1> QED  BY <1>2, <1>4, <1>5 DEF ClearInv

\* However many channels the module has: a command of its first channel whose answer has
\* come in is not sent again.
FirstNotDoubled ==
  [][pc = "resend" /\ reSendList'[First] # reSendList[First]
       => Head(reSendList[First]).id \notin answered]_vars

THEOREM FirstOnce == ASSUME MaxLag <= BeatMax PROVE Spec => FirstNotDoubled
<1>1. ClearInv /\ [Next]_vars => ClearInv'
  BY ClearStep
<1>2. ClearInv /\ [Next]_vars
        => [pc = "resend" /\ reSendList'[First] # reSendList[First]
              => Head(reSendList[First]).id \notin answered]_vars
  <2> SUFFICES ASSUME ClearInv, [Next]_vars, pc = "resend", reSendList'[First] # reSendList[First]
               PROVE  Head(reSendList[First]).id \notin answered
    OBVIOUS
  <2>1. AliveInv /\ TypeOK /\ InOrder /\ Cleared /\ First \in Chans
    BY ConstantTypes DEF ClearInv, IdInv
  <2>2. ResendTask
    BY DEF Next, Loop, Silence, Connect, Beat, Closed, LinkUpdate, NotDue, Drained, Execute,
           CheckAcks, StopProcess, HandleReply, PushCommand, vars, lists
  <2>3. First \in Resent
    BY <2>1, <2>2, ResendParts
  <2>4. m_heartbeat_tick[First] = 0
    BY <2>3 DEF Resent, GateOpen
  <2>5. Head(reSendList[First]).id \in Listed(First)
    BY <2>1, <2>2, <2>3, ResendChannel DEF ResendOf
  <2> QED  BY <2>1, <2>4, <2>5 DEF Cleared
<1> QED  BY <1>1, <1>2, ClearInit, PTL DEF Spec, FirstNotDoubled

\* A module with one channel sends no command again whose answer has come in.
THEOREM NoDoubleThm == ASSUME MaxLag <= BeatMax, Chans = {First} PROVE Spec => NoDouble
<1>1. FirstNotDoubled => NoDouble
  <2>1. [pc = "resend" /\ reSendList'[First] # reSendList[First]
           => Head(reSendList[First]).id \notin answered]_vars
        => [\A c \in Chans : pc = "resend" /\ reSendList'[c] # reSendList[c]
              => Head(reSendList[c]).id \notin answered]_vars
    OBVIOUS
  <2> QED  BY <2>1, PTL DEF FirstNotDoubled, NoDouble
<1> QED  BY <1>1, FirstOnce, PTL
=============================================================================
