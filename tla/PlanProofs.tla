----------------------------- MODULE PlanProofs -----------------------------
(***************************************************************************)
(* Proofs about PlanPipeline, for every situation, every plan the schema    *)
(* lets through and every limit.                                            *)
(*                                                                          *)
(* The compilation is a recursion over the steps of the plan, and what it   *)
(* makes of them is a fact about every one of its stages: Compiling says    *)
(* what holds of the steps compiled so far, of the side a return would take *)
(* and of the first compiled step, and CompiledPlan shows it of the whole   *)
(* plan by the least stage at which it could fail.  What the planner does   *)
(* with a request is a case analysis on the behaviour it may choose         *)
(* (ChosenForIntent) and on the steps it puts around it (ExpandedSteps).    *)
(* PipeInv carries these facts from stage to stage.                         *)
(***************************************************************************)
EXTENDS PlanPipeline, FiniteSetTheorems, SequenceTheorems, WellFoundedInduction, TLAPS

-----------------------------------------------------------------------------
(* Lists, and the compilation as a list of its stages.                      *)

\* A nonempty set of natural numbers has a least element.
LEMMA LeastNatural ==
  ASSUME NEW S \in SUBSET Nat, S # {}
  PROVE  \E m \in S : \A k \in S : m <= k
PROOF
<1> DEFINE Less == OpToRel(<, Nat)
<1>1. IsWellFoundedOn(Less, Nat)
  BY NatLessThanWellFounded, Zenon
<1>2. Less = {ss \in Nat \X Nat : ss[1] < ss[2]}
  BY Zenon DEF OpToRel
<1> HIDE DEF Less
<1>3. PICK m \in S : \A k \in S : ~(<<k, m>> \in Less)
  BY <1>1, WFMin, Zenon
<1>4. \A k \in S : ~(k < m)
  BY <1>2, <1>3
<1>5. QED BY <1>4

\* A finite sequence, of whatever.
IsList(s) == \E X : s \in Seq(X)

\* What is in two lists put together, and where.
LEMMA Joined ==
  ASSUME NEW s, NEW t, IsList(s), IsList(t)
  PROVE  /\ IsList(s \o t) /\ Len(s) \in Nat /\ Len(t) \in Nat /\ Len(s \o t) = Len(s) + Len(t)
         /\ DOMAIN s = 1..Len(s) /\ DOMAIN t = 1..Len(t) /\ DOMAIN (s \o t) = 1..(Len(s) + Len(t))
         /\ \A i \in 1..Len(s) : (s \o t)[i] = s[i]
         /\ \A i \in 1..Len(t) : (s \o t)[Len(s) + i] = t[i]
PROOF
<1>1. PICK X : s \in Seq(X)
  BY DEF IsList
<1>2. PICK Y : t \in Seq(Y)
  BY DEF IsList
<1> DEFINE Z == X \cup Y
<1>3. s \in Seq(Z) /\ t \in Seq(Z)
  <2>1. s \in Seq(Z)
    BY <1>1
  <2>2. t \in Seq(Z)
    BY <1>2
  <2>3. QED BY <2>1, <2>2
<1> HIDE DEF Z
<1>4. s \o t \in Seq(Z)
  BY <1>3, ConcatProperties
<1>5. /\ Len(s) \in Nat /\ Len(t) \in Nat /\ DOMAIN s = 1..Len(s) /\ DOMAIN t = 1..Len(t)
  BY <1>3, LenProperties
<1>6. /\ Len(s \o t) = Len(s) + Len(t)
      /\ \A i \in 1..(Len(s) + Len(t)) : (s \o t)[i] = IF i <= Len(s) THEN s[i] ELSE t[i - Len(s)]
  BY <1>3, ConcatProperties
<1>7. DOMAIN (s \o t) = 1..(Len(s) + Len(t))
  BY <1>4, <1>6, LenProperties
<1>8. \A i \in 1..Len(s) : (s \o t)[i] = s[i]
  BY <1>5, <1>6
<1>9. \A i \in 1..Len(t) : (s \o t)[Len(s) + i] = t[i]
  <2> SUFFICES ASSUME NEW i \in 1..Len(t) PROVE (s \o t)[Len(s) + i] = t[i]
    OBVIOUS
  <2>1. Len(s) + i \in 1..(Len(s) + Len(t)) /\ ~(Len(s) + i <= Len(s)) /\ (Len(s) + i) - Len(s) = i
    BY <1>5
  <2>2. QED BY <1>6, <2>1
<1>10. QED BY <1>4, <1>5, <1>6, <1>7, <1>8, <1>9 DEF IsList

\* Short lists.
LEMMA ShortLists ==
  ASSUME NEW a, NEW b, NEW c, NEW d
  PROVE  /\ IsList(<<>>) /\ IsList(<<a>>) /\ IsList(<<a, b>>) /\ IsList(<<a, b, c>>)
         /\ IsList(<<a, b, c, d>>)
         /\ Len(<<>>) = 0 /\ Len(<<a>>) = 1 /\ Len(<<a, b>>) = 2 /\ Len(<<a, b, c>>) = 3
         /\ Len(<<a, b, c, d>>) = 4
PROOF
<1>1. <<>> \in Seq({}) /\ <<a>> \in Seq({a}) /\ <<a, b>> \in Seq({a, b})
  OBVIOUS
<1>2. <<a, b, c>> \in Seq({a, b, c}) /\ <<a, b, c, d>> \in Seq({a, b, c, d})
  OBVIOUS
<1>3. /\ Len(<<>>) = 0 /\ Len(<<a>>) = 1 /\ Len(<<a, b>>) = 2 /\ Len(<<a, b, c>>) = 3
      /\ Len(<<a, b, c, d>>) = 4
  OBVIOUS
<1>4. QED BY <1>1, <1>2, <1>3 DEF IsList

\* A list is indexed from 1.
LEMMA ListDomain ==
  ASSUME NEW s, IsList(s)
  PROVE  Len(s) \in Nat /\ DOMAIN s = 1..Len(s)
PROOF
<1>1. PICK X : s \in Seq(X)
  BY DEF IsList
<1>2. QED BY <1>1, LenProperties

\* What the compiler starts from.
Start == [ok |-> TRUE, steps |-> <<>>, back |-> None]

\* The recursion of the compiler has a solution: its stages follow from one another.
LEMMA CompilationStages ==
  ASSUME NEW list, Len(list) \in Nat, NEW road
  PROVE  /\ Compilation(list, road)[0] = Start
         /\ \A n \in 1..Len(list) :
              Compilation(list, road)[n] = AddStep(Compilation(list, road)[n - 1], list[n], road)
PROOF
<1> DEFINE Next(f, n) == IF n = 0 THEN Start ELSE AddStep(f[n - 1], list[n], road)
           Solved(N) == \E f : f = [n \in 0..N |-> Next(f, n)]
<1>1. \A N \in Nat : Solved(N)
  <2> DEFINE Unsolved == {N \in Nat : ~Solved(N)}
  <2>1. SUFFICES Unsolved = {}
    OBVIOUS
  <2>2. SUFFICES ASSUME Unsolved # {} PROVE FALSE
    OBVIOUS
  <2>3. PICK m \in Unsolved : \A k \in Unsolved : m <= k
    <3>1. Unsolved \in SUBSET Nat
      OBVIOUS
    <3> HIDE DEF Unsolved
    <3>2. QED BY <2>2, <3>1, LeastNatural
  <2>4. m \in Nat /\ ~Solved(m) /\ \A k \in Nat : k < m => Solved(k)
    <3>1. m \in Nat /\ ~Solved(m)
      BY <2>3
    <3>2. \A k \in Nat : ~Solved(k) => k \in Unsolved
      OBVIOUS
    <3> HIDE DEF Unsolved, Solved
    <3>3. QED BY <2>3, <3>1, <3>2
  <2>5. CASE m = 0
    <3> DEFINE g == [n \in 0..0 |-> Start]
    <3>1. g = [n \in 0..0 |-> Next(g, n)]
      OBVIOUS
    <3>2. Solved(0)
      BY <3>1
    <3>3. QED BY <2>4, <2>5, <3>2
  <2>6. CASE m # 0
    <3>1. m - 1 \in Nat /\ m - 1 < m
      BY <2>4, <2>6
    <3>2. Solved(m - 1)
      <4> HIDE DEF Solved
      <4>1. QED BY <2>4, <3>1
    <3>3. PICK f : f = [n \in 0..(m - 1) |-> Next(f, n)]
      BY <3>2
    <3> DEFINE g == [n \in 0..m |-> Next(f, n)]
    <3>4. \A n \in 0..m : Next(g, n) = Next(f, n)
      <4>1. ASSUME NEW n \in 0..m, n # 0 PROVE g[n - 1] = f[n - 1]
        <5>1. n - 1 \in 0..(m - 1) /\ n - 1 \in 0..m
          BY <2>4, <4>1
        <5>2. f[n - 1] = Next(f, n - 1)
          BY <3>3, <5>1
        <5>3. g[n - 1] = Next(f, n - 1)
          BY <5>1
        <5>4. QED BY <5>2, <5>3
      <4>2. ASSUME NEW n \in 0..m PROVE Next(g, n) = Next(f, n)
        <5> HIDE DEF g
        <5>1. CASE n = 0
          BY <5>1
        <5>2. CASE n # 0
          <6>1. g[n - 1] = f[n - 1]
            BY <4>1, <5>2
          <6>2. QED BY <6>1, <5>2
        <5>3. QED BY <5>1, <5>2
      <4> HIDE DEF g, Next
      <4>3. QED BY <4>2
    <3>5. g = [n \in 0..m |-> Next(g, n)]
      BY <3>4
    <3>6. Solved(m)
      BY <3>5
    <3>7. QED BY <2>4, <3>6
  <2>7. QED BY <2>5, <2>6
<1>2. Compilation(list, road) = CHOOSE f : f = [n \in 0..Len(list) |-> Next(f, n)]
  BY Zenon DEF Compilation, Start
<1>3. Compilation(list, road) = [n \in 0..Len(list) |-> Next(Compilation(list, road), n)]
  BY <1>1, <1>2
<1> HIDE DEF Start
<1>4. QED
  BY <1>3

-----------------------------------------------------------------------------
(* What a list of compiled steps may be, and that it stays so when the      *)
(* steps of one more behaviour are put behind it.                           *)

\* Every lane change directly follows a wait for its gap.
GapsWaited(s) ==
  \A i \in DOMAIN s : \A side \in Directions : s[i].behaviour = Change(side) =>
    i > 1 /\ s[i - 1].behaviour = "WAIT_SAFE_GAP" /\ Gap(side) \subseteq s[i - 1].pre
\* The lane change that comes back, and the step that passes what was avoided.
Returns(step) == Unsided(step.behaviour) = "CHANGE_LANE" /\ step.lane = "CURRENT"
Passes(step) == step.behaviour = "PASS_TARGET"

\* Every return goes to the other side than the target that was passed last.
WaysBack(s) ==
  \A j \in DOMAIN s : Returns(s[j]) =>
    \E i \in 1..(j - 1) :
      /\ Passes(s[i]) /\ s[i].lane # Adjacent(Side(s[j].behaviour))
      /\ \A k \in (i + 1)..(j - 1) : ~Passes(s[k])

\* The target passed last was passed on this side.
LastPassed(s, side) ==
  \E i \in DOMAIN s :
    Passes(s[i]) /\ s[i].lane = Adjacent(side) /\ \A k \in DOMAIN s : k > i => ~Passes(s[k])

\* Two lists that wait for their gaps still do one after the other.
LEMMA GapsWaitedJoin ==
  ASSUME NEW s, NEW m, IsList(s), IsList(m), GapsWaited(s), GapsWaited(m)
  PROVE  GapsWaited(s \o m)
PROOF
<1> SUFFICES ASSUME NEW j \in DOMAIN (s \o m), NEW side \in Directions, (s \o m)[j].behaviour = Change(side)
             PROVE  /\ j > 1 /\ (s \o m)[j - 1].behaviour = "WAIT_SAFE_GAP"
                    /\ Gap(side) \subseteq (s \o m)[j - 1].pre
  BY DEF GapsWaited
<1>1. /\ Len(s) \in Nat /\ Len(m) \in Nat /\ DOMAIN s = 1..Len(s) /\ DOMAIN m = 1..Len(m)
      /\ j \in 1..(Len(s) + Len(m))
      /\ \A i \in 1..Len(s) : (s \o m)[i] = s[i]
      /\ \A i \in 1..Len(m) : (s \o m)[Len(s) + i] = m[i]
  BY Joined
<1>2. CASE j <= Len(s)
  <2>1. j \in 1..Len(s) /\ s[j].behaviour = Change(side)
    BY <1>1, <1>2
  <2>2. j > 1 /\ s[j - 1].behaviour = "WAIT_SAFE_GAP" /\ Gap(side) \subseteq s[j - 1].pre
    BY <1>1, <2>1 DEF GapsWaited
  <2>3. j - 1 \in 1..Len(s)
    BY <1>1, <2>1, <2>2
  <2>4. (s \o m)[j - 1] = s[j - 1]
    BY <1>1, <2>3
  <2>5. QED BY <2>2, <2>4
<1>3. CASE ~(j <= Len(s))
  <2> DEFINE i == j - Len(s)
  <2>1. i \in 1..Len(m) /\ Len(s) + i = j /\ i \in Int
    BY <1>1, <1>3
  <2>2. m[i].behaviour = Change(side)
    BY <1>1, <2>1
  <2>3. i > 1 /\ m[i - 1].behaviour = "WAIT_SAFE_GAP" /\ Gap(side) \subseteq m[i - 1].pre
    BY <1>1, <2>1, <2>2 DEF GapsWaited
  <2>4. i - 1 \in 1..Len(m) /\ Len(s) + (i - 1) = j - 1
    BY <1>1, <2>1, <2>3
  <2>5. (s \o m)[j - 1] = m[i - 1]
    BY <1>1, <2>4
  <2>6. QED BY <1>1, <2>3, <2>5
<1>4. QED BY <1>2, <1>3

\* The target passed last stays the last one, or another is passed.
LEMMA LastPassedJoin ==
  ASSUME NEW s, NEW m, IsList(s), IsList(m), NEW side,
         \/ LastPassed(s, side) /\ \A i \in DOMAIN m : ~Passes(m[i])
         \/ LastPassed(m, side)
  PROVE  LastPassed(s \o m, side)
PROOF
<1>1. /\ Len(s) \in Nat /\ Len(m) \in Nat /\ DOMAIN s = 1..Len(s) /\ DOMAIN m = 1..Len(m)
      /\ DOMAIN (s \o m) = 1..(Len(s) + Len(m))
      /\ \A i \in 1..Len(s) : (s \o m)[i] = s[i]
      /\ \A i \in 1..Len(m) : (s \o m)[Len(s) + i] = m[i]
  BY Joined
<1>2. CASE LastPassed(s, side) /\ \A i \in DOMAIN m : ~Passes(m[i])
  <2>1. PICK i \in 1..Len(s) : /\ Passes(s[i]) /\ s[i].lane = Adjacent(side)
                               /\ \A k \in 1..Len(s) : k > i => ~Passes(s[k])
    BY <1>1, <1>2 DEF LastPassed
  <2>2. i \in DOMAIN (s \o m) /\ Passes((s \o m)[i]) /\ (s \o m)[i].lane = Adjacent(side)
    BY <1>1, <2>1
  <2>3. ASSUME NEW k \in DOMAIN (s \o m), k > i PROVE ~Passes((s \o m)[k])
    <3>1. CASE k <= Len(s)
      <4>1. k \in 1..Len(s)
        BY <1>1, <3>1
      <4>2. QED BY <1>1, <2>1, <2>3, <4>1
    <3>2. CASE ~(k <= Len(s))
      <4>1. k - Len(s) \in 1..Len(m) /\ Len(s) + (k - Len(s)) = k
        BY <1>1, <3>2
      <4>2. (s \o m)[k] = m[k - Len(s)]
        BY <1>1, <4>1
      <4>3. QED BY <1>1, <1>2, <4>1, <4>2
    <3>3. QED BY <3>1, <3>2
  <2>4. QED BY <2>2, <2>3 DEF LastPassed
<1>3. CASE LastPassed(m, side)
  <2>1. PICK i \in 1..Len(m) : /\ Passes(m[i]) /\ m[i].lane = Adjacent(side)
                               /\ \A k \in 1..Len(m) : k > i => ~Passes(m[k])
    BY <1>1, <1>3 DEF LastPassed
  <2>2. Len(s) + i \in DOMAIN (s \o m) /\ (s \o m)[Len(s) + i] = m[i]
    BY <1>1, <2>1
  <2>3. ASSUME NEW k \in DOMAIN (s \o m), k > Len(s) + i PROVE ~Passes((s \o m)[k])
    <3>1. k - Len(s) \in 1..Len(m) /\ Len(s) + (k - Len(s)) = k /\ k - Len(s) > i
      BY <1>1, <2>1, <2>3
    <3>2. (s \o m)[k] = m[k - Len(s)]
      BY <1>1, <3>1
    <3>3. QED BY <2>1, <3>1, <3>2
  <2>4. QED BY <2>1, <2>2, <2>3 DEF LastPassed
<1>4. QED BY <1>2, <1>3

\* A return may follow when its side is the other one than that of the target passed last.
LEMMA WaysBackJoin ==
  ASSUME NEW s, NEW m, IsList(s), IsList(m), WaysBack(s),
         \/ \A j \in DOMAIN m : ~Returns(m[j])
         \/ /\ \A j \in DOMAIN m : ~Passes(m[j])
            /\ \E side \in Directions :
                 /\ LastPassed(s, Opposite(side))
                 /\ \A j \in DOMAIN m : Returns(m[j]) => Side(m[j].behaviour) = side
  PROVE  WaysBack(s \o m)
PROOF
<1> DEFINE r == s \o m
<1> SUFFICES ASSUME NEW j \in DOMAIN r, Returns(r[j])
             PROVE  \E i \in 1..(j - 1) : /\ Passes(r[i]) /\ r[i].lane # Adjacent(Side(r[j].behaviour))
                                          /\ \A k \in (i + 1)..(j - 1) : ~Passes(r[k])
  BY DEF WaysBack
<1>1. /\ Len(s) \in Nat /\ Len(m) \in Nat /\ DOMAIN s = 1..Len(s) /\ DOMAIN m = 1..Len(m)
      /\ j \in 1..(Len(s) + Len(m))
      /\ \A i \in 1..Len(s) : r[i] = s[i]
      /\ \A i \in 1..Len(m) : r[Len(s) + i] = m[i]
  BY Joined
<1> HIDE DEF r
<1>2. CASE j <= Len(s)
  <2>1. j \in 1..Len(s) /\ Returns(s[j]) /\ r[j] = s[j]
    BY <1>1, <1>2
  <2>2. PICK i \in 1..(j - 1) : /\ Passes(s[i]) /\ s[i].lane # Adjacent(Side(s[j].behaviour))
                                /\ \A k \in (i + 1)..(j - 1) : ~Passes(s[k])
    BY <1>1, <2>1 DEF WaysBack
  <2>3. \A k \in 1..(j - 1) : r[k] = s[k]
    BY <1>1, <2>1
  <2>4. \A k \in (i + 1)..(j - 1) : k \in 1..(j - 1)
    BY <1>1, <2>2
  <2>5. QED BY <2>1, <2>2, <2>3, <2>4
<1>3. CASE ~(j <= Len(s))
  <2>1. j - Len(s) \in 1..Len(m) /\ Len(s) + (j - Len(s)) = j
    BY <1>1, <1>3
  <2>2. r[j] = m[j - Len(s)]
    BY <1>1, <2>1
  <2>3. PICK side \in Directions :
          /\ \A i \in DOMAIN m : ~Passes(m[i])
          /\ LastPassed(s, Opposite(side))
          /\ \A i \in DOMAIN m : Returns(m[i]) => Side(m[i].behaviour) = side
    BY <1>1, <2>1, <2>2
  <2>4. PICK i \in 1..Len(s) : /\ Passes(s[i]) /\ s[i].lane = Adjacent(Opposite(side))
                               /\ \A k \in 1..Len(s) : k > i => ~Passes(s[k])
    BY <1>1, <2>3 DEF LastPassed
  <2>5. Side(r[j].behaviour) = side
    BY <1>1, <2>1, <2>2, <2>3
  <2>6. Adjacent(Opposite(side)) # Adjacent(side)
    BY DEF Adjacent, Opposite, Directions
  <2>7. i \in 1..(j - 1) /\ Passes(r[i]) /\ r[i].lane # Adjacent(Side(r[j].behaviour))
    BY <1>1, <1>3, <2>4, <2>5, <2>6
  <2>8. ASSUME NEW k \in (i + 1)..(j - 1) PROVE ~Passes(r[k])
    <3>1. CASE k <= Len(s)
      <4>1. k \in 1..Len(s) /\ k > i
        BY <1>1, <2>4, <2>8, <3>1
      <4>2. QED BY <1>1, <2>4, <4>1
    <3>2. CASE ~(k <= Len(s))
      <4>1. k - Len(s) \in 1..Len(m) /\ Len(s) + (k - Len(s)) = k
        BY <1>1, <2>4, <2>8, <3>2
      <4>2. r[k] = m[k - Len(s)]
        BY <1>1, <4>1
      <4>3. QED BY <1>1, <2>3, <4>1, <4>2
    <3>3. QED BY <3>1, <3>2
  <2>9. QED BY <2>7, <2>8
<1>4. QED BY <1>2, <1>3

-----------------------------------------------------------------------------
(* What one behaviour is compiled to.                                       *)

\* Every step that leaves the lane keeps to one side.
Sided(s, side) == \A i \in DOMAIN s : s[i].lane # "CURRENT" => Side(s[i].behaviour) \in {None, side}
\* The behaviours that are more than one step for the vehicle.
Expanding == {"AVOID_OBSTACLE", "RETURN_TO_LANE", "CHANGE_LANE_LEFT", "CHANGE_LANE_RIGHT"}

\* Every step is one of these behaviours.
Only(s, B) == \A i \in DOMAIN s : s[i].behaviour \in B

\* The strings are strings and no None.
LEMMA Names ==
  /\ None \notin Int /\ None # "LEFT" /\ None # "RIGHT" /\ Directions = {"LEFT", "RIGHT"}
  /\ None \notin Directions
PROOF
<1>1. QED BY NoneApart DEF Directions

\* An avoidance slows down, waits for the gap, leaves the lane and passes the target.
LEMMA AvoidPiece ==
  ASSUME NEW step, NEW side \in Directions
  PROVE  /\ IsList(CompileAvoid(step, side)) /\ Len(CompileAvoid(step, side)) = 4
         /\ DOMAIN CompileAvoid(step, side) = 1..4
         /\ GapsWaited(CompileAvoid(step, side)) /\ LastPassed(CompileAvoid(step, side), side)
         /\ \A j \in 1..4 : ~Returns(CompileAvoid(step, side)[j])
         /\ Sided(CompileAvoid(step, side), side)
PROOF
<1> DEFINE m == CompileAvoid(step, side)
<1>1. IsList(m) /\ Len(m) = 4 /\ DOMAIN m = 1..4
  <2>1. IsList(m) /\ Len(m) = 4
    BY ShortLists, Zenon DEF CompileAvoid
  <2>2. QED BY <2>1, ListDomain
<1>2. /\ m[1].behaviour = "SLOW_DOWN" /\ m[2].behaviour = "WAIT_SAFE_GAP"
      /\ m[3].behaviour = Change(side) /\ m[4].behaviour = "PASS_TARGET"
      /\ \A j \in 1..4 : m[j].lane = Adjacent(side)
      /\ Gap(side) \subseteq m[2].pre
  <2> DEFINE go == [Copy(step) EXCEPT !.lane = Adjacent(side)]
             gated == step.pre \cup Gap(side)
  <2>1. go = [behaviour |-> step.behaviour, target |-> step.target, lane |-> Adjacent(side),
              speed |-> step.speed, pre |-> step.pre, done |-> step.done]
    BY DEF Copy
  <2>2. /\ m[1] = [go EXCEPT !.behaviour = "SLOW_DOWN", !.speed = IF step.speed = None THEN 3 ELSE step.speed,
                            !.pre = step.pre \cup {"PERCEPTION_FRESH"}, !.done = "SPEED_BELOW"]
        /\ m[2] = [go EXCEPT !.behaviour = "WAIT_SAFE_GAP", !.pre = gated, !.done = "HOLD_FRAMES"]
        /\ m[3] = [go EXCEPT !.behaviour = Change(side), !.pre = gated, !.done = "LANE_CENTERED"]
        /\ m[4] = [go EXCEPT !.behaviour = "PASS_TARGET", !.done = "TARGET_PASSED",
                            !.pre = {"PERCEPTION_FRESH", "TARGET_VISIBLE", "NO_EMERGENCY_RISK"}]
    BY DEF CompileAvoid
  <2> HIDE DEF m, go
  <2>3. m[1].behaviour = "SLOW_DOWN" /\ m[1].lane = Adjacent(side)
    BY <2>1, <2>2
  <2>4. /\ m[2].behaviour = "WAIT_SAFE_GAP" /\ m[2].lane = Adjacent(side)
        /\ m[2].pre = gated
    BY <2>1, <2>2
  <2>5. m[3].behaviour = Change(side) /\ m[3].lane = Adjacent(side)
    BY <2>1, <2>2
  <2>6. m[4].behaviour = "PASS_TARGET" /\ m[4].lane = Adjacent(side)
    BY <2>1, <2>2
  <2>7. \A j \in 1..4 : j = 1 \/ j = 2 \/ j = 3 \/ j = 4
    OBVIOUS
  <2>8. \A j \in 1..4 : m[j].lane = Adjacent(side)
    BY <2>3, <2>4, <2>5, <2>6, <2>7
  <2>9. QED BY <2>3, <2>4, <2>5, <2>6, <2>8
<1> HIDE DEF m
<1>3. \A j \in 1..4 : j = 1 \/ j = 2 \/ j = 3 \/ j = 4
  OBVIOUS
<1>4. /\ side \in {"LEFT", "RIGHT"} /\ None # "LEFT" /\ None # "RIGHT"
      /\ Change("LEFT") = "CHANGE_LANE_LEFT" /\ Change("RIGHT") = "CHANGE_LANE_RIGHT"
      /\ Adjacent(side) # "CURRENT"
  BY Names DEF Directions, Change, Adjacent
<1>5. \A s \in {"LEFT", "RIGHT"}, j \in 1..4 : m[j].behaviour = Change(s) => j = 3 /\ s = side
  BY <1>2, <1>3, <1>4
<1>6. GapsWaited(m)
  BY <1>1, <1>2, <1>4, <1>5 DEF GapsWaited, Directions
<1>7. \A j \in 1..4 : ~Returns(m[j])
  BY <1>2, <1>4 DEF Returns
<1>8. LastPassed(m, side)
  <2>1. 4 \in DOMAIN m /\ Passes(m[4]) /\ m[4].lane = Adjacent(side) /\ \A k \in DOMAIN m : ~(k > 4)
    BY <1>1, <1>2 DEF Passes
  <2>2. QED BY <2>1 DEF LastPassed
<1>9. Sided(m, side)
  <2>1. /\ Side("SLOW_DOWN") = None /\ Side("WAIT_SAFE_GAP") = None /\ Side("PASS_TARGET") = None
        /\ Side(Change(side)) = side
    BY <1>4 DEF Side
  <2>2. \A j \in 1..4 : Side(m[j].behaviour) \in {None, side}
    BY <1>2, <1>3, <2>1
  <2>3. QED BY <1>1, <2>2 DEF Sided
<1>10. QED BY <1>1, <1>6, <1>7, <1>8, <1>9 DEF m

\* A return waits for the gap and goes back to the lane it came from.
LEMMA ReturnPiece ==
  ASSUME NEW step, NEW side \in Directions
  PROVE  /\ IsList(CompileReturn(step, side)) /\ Len(CompileReturn(step, side)) = 2
         /\ DOMAIN CompileReturn(step, side) = 1..2
         /\ GapsWaited(CompileReturn(step, side))
         /\ \A j \in 1..2 : /\ ~Passes(CompileReturn(step, side)[j])
                            /\ CompileReturn(step, side)[j].lane = "CURRENT"
                            /\ Returns(CompileReturn(step, side)[j])
                                 => Side(CompileReturn(step, side)[j].behaviour) = side
PROOF
<1> DEFINE m == CompileReturn(step, side)
<1>1. IsList(m) /\ Len(m) = 2 /\ DOMAIN m = 1..2
  <2>1. IsList(m) /\ Len(m) = 2
    BY ShortLists, Zenon DEF CompileReturn
  <2>2. QED BY <2>1, ListDomain
<1>2. /\ m[1].behaviour = "WAIT_SAFE_GAP" /\ m[2].behaviour = Change(side)
      /\ m[1].lane = "CURRENT" /\ m[2].lane = "CURRENT" /\ Gap(side) \subseteq m[1].pre
  BY DEF CompileReturn, Copy
<1> HIDE DEF m
<1>3. \A j \in 1..2 : j = 1 \/ j = 2
  OBVIOUS
<1>4. /\ side \in {"LEFT", "RIGHT"} /\ None # "LEFT" /\ None # "RIGHT"
      /\ Change("LEFT") = "CHANGE_LANE_LEFT" /\ Change("RIGHT") = "CHANGE_LANE_RIGHT"
  BY Names DEF Directions, Change
<1>5. \A s \in {"LEFT", "RIGHT"}, j \in 1..2 : m[j].behaviour = Change(s) => j = 2 /\ s = side
  BY <1>2, <1>3, <1>4
<1>6. GapsWaited(m)
  BY <1>1, <1>2, <1>4, <1>5 DEF GapsWaited, Directions
<1>7. \A j \in 1..2 : ~Passes(m[j]) /\ m[j].lane = "CURRENT"
  BY <1>2, <1>3, <1>4 DEF Passes
<1>8. \A j \in 1..2 : Returns(m[j]) => Side(m[j].behaviour) = side
  <2>1. Unsided("WAIT_SAFE_GAP") = "WAIT_SAFE_GAP" /\ Side(Change(side)) = side
    BY <1>4 DEF Unsided, Side
  <2>2. QED BY <1>2, <1>3, <2>1 DEF Returns
<1>9. QED BY <1>1, <1>6, <1>7, <1>8 DEF m

\* An ordinary lane change waits for the gap on its side.
LEMMA ChangePiece ==
  ASSUME NEW step, step.behaviour \in {"CHANGE_LANE_LEFT", "CHANGE_LANE_RIGHT"}
  PROVE  /\ IsList(CompileChange(step)) /\ Len(CompileChange(step)) = 2
         /\ DOMAIN CompileChange(step) = 1..2
         /\ GapsWaited(CompileChange(step)) /\ Sided(CompileChange(step), Side(step.behaviour))
         /\ \A j \in 1..2 : ~Passes(CompileChange(step)[j]) /\ ~Returns(CompileChange(step)[j])
PROOF
<1> DEFINE m == CompileChange(step)
           side == Side(step.behaviour)
<1>1. IsList(m) /\ Len(m) = 2 /\ DOMAIN m = 1..2
  <2>1. IsList(m) /\ Len(m) = 2
    BY ShortLists, Zenon DEF CompileChange
  <2>2. QED BY <2>1, ListDomain
<1>2. /\ m[1].behaviour = "WAIT_SAFE_GAP" /\ m[2].behaviour = step.behaviour
      /\ m[1].lane = Adjacent(side) /\ m[2].lane = Adjacent(side) /\ Gap(side) \subseteq m[1].pre
  BY DEF CompileChange, Copy
<1> HIDE DEF m
<1>3. \A j \in 1..2 : j = 1 \/ j = 2
  OBVIOUS
<1>4. /\ side \in {"LEFT", "RIGHT"} /\ None # "LEFT" /\ None # "RIGHT"
      /\ Change("LEFT") = "CHANGE_LANE_LEFT" /\ Change("RIGHT") = "CHANGE_LANE_RIGHT"
      /\ step.behaviour = Change(side) /\ Adjacent(side) # "CURRENT"
  BY Names DEF Change, Side, Adjacent
<1>5. \A s \in {"LEFT", "RIGHT"}, j \in 1..2 : m[j].behaviour = Change(s) => j = 2 /\ s = side
  BY <1>2, <1>3, <1>4
<1> HIDE DEF side
<1>6. GapsWaited(m)
  BY <1>1, <1>2, <1>4, <1>5 DEF GapsWaited, Directions
<1>7. \A j \in 1..2 : ~Passes(m[j]) /\ ~Returns(m[j])
  BY <1>2, <1>3, <1>4 DEF Passes, Returns
<1>8. Sided(m, side)
  <2>1. Side("WAIT_SAFE_GAP") = None /\ Side(step.behaviour) = side
    BY DEF side, Side
  <2>2. QED BY <1>1, <1>2, <1>3, <2>1 DEF Sided
<1>9. QED BY <1>1, <1>6, <1>7, <1>8 DEF m, side

\* Any other behaviour is copied, and is none of those.
LEMMA CopyPiece ==
  ASSUME NEW step, step.behaviour \in Codes \ Expanding
  PROVE  /\ IsList(<<Copy(step)>>) /\ Len(<<Copy(step)>>) = 1 /\ DOMAIN <<Copy(step)>> = 1..1
         /\ GapsWaited(<<Copy(step)>>) /\ <<Copy(step)>>[1] = Copy(step)
         /\ \A j \in 1..1 : ~Passes(<<Copy(step)>>[j]) /\ ~Returns(<<Copy(step)>>[j])
         /\ Copy(step).behaviour = step.behaviour
PROOF
<1> DEFINE m == <<Copy(step)>>
<1>1. IsList(m) /\ Len(m) = 1 /\ DOMAIN m = 1..1 /\ m[1] = Copy(step)
  <2>1. IsList(m) /\ Len(m) = 1
    BY ShortLists, Zenon
  <2>2. m[1] = Copy(step)
    OBVIOUS
  <2>3. QED BY <2>1, <2>2, ListDomain
<1>2. Copy(step).behaviour = step.behaviour
  BY DEF Copy
<1> HIDE DEF m
<1>3. \A j \in 1..1 : j = 1
  OBVIOUS
<1>4. /\ step.behaviour # "CHANGE_LANE_LEFT" /\ step.behaviour # "CHANGE_LANE_RIGHT"
      /\ step.behaviour # "PASS_TARGET" /\ Unsided(step.behaviour) # "CHANGE_LANE"
  BY DEF Codes, Expanding, Unsided
<1>5. GapsWaited(m)
  BY <1>1, <1>2, <1>3, <1>4 DEF GapsWaited, Directions, Change
<1>6. \A j \in 1..1 : ~Passes(m[j]) /\ ~Returns(m[j])
  BY <1>1, <1>2, <1>3, <1>4 DEF Passes, Returns
<1>7. QED BY <1>1, <1>2, <1>5, <1>6 DEF m

-----------------------------------------------------------------------------
(* The compilation of a list of known behaviours.                           *)

\* The steps of a plan, before they are compiled.
IsPlanned(list) == IsList(list) /\ \A i \in DOMAIN list : list[i].behaviour \in Codes

\* Nothing planned leads to the other side.
Meets(step, side) ==
  /\ Side(step.behaviour) \in {None, side}
  /\ step.behaviour = "AVOID_OBSTACLE" => step.lane = Adjacent(side)

\* Every avoidance has a side and every return follows one.
Answered(list, n, road) ==
  \A i \in 1..n :
    /\ list[i].behaviour = "AVOID_OBSTACLE" => AvoidSide(list[i], road) # None
    /\ list[i].behaviour = "RETURN_TO_LANE" => i > 1 /\ list[i - 1].behaviour = "AVOID_OBSTACLE"

\* The first compiled step, given that there is one.
Opening(step, road) ==
  IF step.behaviour = "AVOID_OBSTACLE" THEN CompileAvoid(step, AvoidSide(step, road))[1]
  ELSE IF step.behaviour \in {"CHANGE_LANE_LEFT", "CHANGE_LANE_RIGHT"} THEN CompileChange(step)[1]
  ELSE Copy(step)

\* What holds of the compilation after n steps of the list.
Formed(acc) ==
  /\ acc = [ok |-> acc.ok, steps |-> acc.steps, back |-> acc.back]
  /\ acc.ok \in BOOLEAN /\ IsList(acc.steps) /\ acc.back \in Directions \cup {None}
\* Lane changes wait and return, and a return yet to come knows its side.
Guarded(acc) ==
  /\ GapsWaited(acc.steps) /\ WaysBack(acc.steps)
  /\ acc.back # None => LastPassed(acc.steps, Opposite(acc.back))
\* The first compiled step is that of the first step.
Opened(acc, list, n, road) ==
  /\ n = 0 => acc = Start
  /\ n >= 1 /\ acc.ok => Len(acc.steps) >= 1 /\ acc.steps[1] = Opening(list[1], road)
\* Behaviours and sides of a plan are kept.
Kept(acc, list, n) ==
  /\ \A B \in SUBSET (Codes \ Expanding) : (\A i \in 1..n : list[i].behaviour \in B) => Only(acc.steps, B)
  /\ \A side \in Directions : (\A i \in 1..n : Meets(list[i], side)) => Sided(acc.steps, side)
\* Nothing is raised where every avoidance has a side and every return follows one.
Complete(acc, list, n, road) ==
  Answered(list, n, road) =>
    acc.ok /\ (n >= 1 /\ list[n].behaviour = "AVOID_OBSTACLE" => acc.back # None)
Compiling(acc, list, n, road) ==
  Formed(acc) /\ Guarded(acc) /\ Opened(acc, list, n, road) /\ Kept(acc, list, n) /\ Complete(acc, list, n, road)

\* What holds of every element of two lists holds of every element of both together.
LEMMA OnlyJoin ==
  ASSUME NEW s, NEW m, NEW B, IsList(s), IsList(m), Only(s, B), Only(m, B)
  PROVE  Only(s \o m, B)
PROOF
<1>1. /\ Len(s) \in Nat /\ Len(m) \in Nat /\ DOMAIN s = 1..Len(s) /\ DOMAIN m = 1..Len(m)
      /\ DOMAIN (s \o m) = 1..(Len(s) + Len(m))
      /\ \A i \in 1..Len(s) : (s \o m)[i] = s[i]
      /\ \A i \in 1..Len(m) : (s \o m)[Len(s) + i] = m[i]
  BY Joined
<1>2. SUFFICES ASSUME NEW j \in 1..(Len(s) + Len(m))
               PROVE  (s \o m)[j].behaviour \in B
  BY <1>1 DEF Only
<1>3. CASE j <= Len(s)
  <2>1. j \in 1..Len(s)
    BY <1>1, <1>2, <1>3
  <2>2. QED BY <1>1, <2>1 DEF Only
<1>4. CASE ~(j <= Len(s))
  <2>1. j - Len(s) \in 1..Len(m) /\ Len(s) + (j - Len(s)) = j
    BY <1>1, <1>2, <1>4
  <2>2. (s \o m)[j] = m[j - Len(s)]
    BY <1>1, <2>1
  <2>3. QED BY <1>1, <2>1, <2>2 DEF Only
<1>5. QED BY <1>3, <1>4

\* Two lists that keep to one side still do one after the other.
LEMMA SidedJoin ==
  ASSUME NEW s, NEW m, NEW side, IsList(s), IsList(m), Sided(s, side), Sided(m, side)
  PROVE  Sided(s \o m, side)
PROOF
<1>1. /\ Len(s) \in Nat /\ Len(m) \in Nat /\ DOMAIN s = 1..Len(s) /\ DOMAIN m = 1..Len(m)
      /\ DOMAIN (s \o m) = 1..(Len(s) + Len(m))
      /\ \A i \in 1..Len(s) : (s \o m)[i] = s[i]
      /\ \A i \in 1..Len(m) : (s \o m)[Len(s) + i] = m[i]
  BY Joined
<1>2. SUFFICES ASSUME NEW j \in 1..(Len(s) + Len(m)), (s \o m)[j].lane # "CURRENT"
               PROVE  Side((s \o m)[j].behaviour) \in {None, side}
  BY <1>1 DEF Sided
<1>3. CASE j <= Len(s)
  <2>1. j \in 1..Len(s)
    BY <1>1, <1>2, <1>3
  <2>2. QED BY <1>1, <1>2, <2>1 DEF Sided
<1>4. CASE ~(j <= Len(s))
  <2>1. j - Len(s) \in 1..Len(m) /\ Len(s) + (j - Len(s)) = j
    BY <1>1, <1>2, <1>4
  <2>2. (s \o m)[j] = m[j - Len(s)]
    BY <1>1, <2>1
  <2>3. QED BY <1>1, <1>2, <2>1, <2>2 DEF Sided
<1>5. QED BY <1>3, <1>4

\* A piece put behind a good compilation makes a good one, when the piece is right for
\* the step it was made from.
LEMMA Grown ==
  ASSUME NEW list, IsPlanned(list), NEW n \in 1..Len(list), NEW road,
         NEW acc, Compiling(acc, list, n - 1, road), acc.ok,
         NEW m, IsList(m), Len(m) >= 1, GapsWaited(m), NEW back \in Directions \cup {None},
         \/ \A j \in DOMAIN m : ~Returns(m[j])
         \/ /\ \A j \in DOMAIN m : ~Passes(m[j])
            /\ acc.back # None /\ \A j \in DOMAIN m : Returns(m[j]) => Side(m[j].behaviour) = acc.back,
         \/ back = None
         \/ LastPassed(m, Opposite(back))
         \/ back = acc.back /\ \A i \in DOMAIN m : ~Passes(m[i]),
         \A B \in SUBSET (Codes \ Expanding) : list[n].behaviour \in B => Only(m, B),
         \A side \in Directions : Meets(list[n], side) => Sided(m, side),
         n = 1 => m[1] = Opening(list[1], road),
         list[n].behaviour = "AVOID_OBSTACLE" => back # None
  PROVE  Compiling([ok |-> TRUE, steps |-> acc.steps \o m, back |-> back], list, n, road)
PROOF
<1> DEFINE new == [ok |-> TRUE, steps |-> acc.steps \o m, back |-> back]
           s == acc.steps
<1>1. IsList(s) /\ new.steps = s \o m /\ new.back = back /\ new.ok = TRUE
      /\ IsList(s \o m) /\ acc.back \in Directions \cup {None}
  BY Joined DEF Compiling, Formed
<1>2. n \in Nat /\ n - 1 \in Nat /\ n >= 1 /\ \A i \in 1..(n - 1) : i \in 1..n
  <2>1. Len(list) \in Nat
    BY ListDomain DEF IsPlanned
  <2>2. QED BY <2>1
<1>3. Formed(new)
  BY <1>1 DEF Formed
<1>4. Guarded(new)
  <2>1. GapsWaited(s \o m)
    BY <1>1, GapsWaitedJoin DEF Compiling, Guarded
  <2>2. WaysBack(s \o m)
    <3>1. WaysBack(s) /\ (acc.back # None => LastPassed(s, Opposite(acc.back)))
      BY DEF Compiling, Guarded
    <3>2. CASE \A j \in DOMAIN m : ~Returns(m[j])
      BY <1>1, <3>1, <3>2, WaysBackJoin
    <3>3. CASE /\ \A j \in DOMAIN m : ~Passes(m[j])
               /\ acc.back # None /\ \A j \in DOMAIN m : Returns(m[j]) => Side(m[j].behaviour) = acc.back
      <4>1. acc.back \in Directions /\ LastPassed(s, Opposite(acc.back))
        BY <1>1, <3>1, <3>3
      <4>2. QED BY <1>1, <3>1, <3>3, <4>1, WaysBackJoin
    <3>4. QED BY <3>2, <3>3
  <2>3. ASSUME back # None PROVE LastPassed(s \o m, Opposite(back))
    <3>1. CASE LastPassed(m, Opposite(back))
      BY <1>1, <3>1, LastPassedJoin
    <3>2. CASE back = acc.back /\ \A i \in DOMAIN m : ~Passes(m[i])
      <4>1. LastPassed(s, Opposite(back))
        BY <2>3, <3>2 DEF Compiling, Guarded
      <4>2. QED BY <1>1, <3>2, <4>1, LastPassedJoin
    <3>3. QED BY <2>3, <3>1, <3>2
  <2>4. QED BY <1>1, <2>1, <2>2, <2>3 DEF Guarded
<1>5. Opened(new, list, n, road)
  <2>1. /\ Len(s) \in Nat /\ Len(m) \in Nat /\ Len(s \o m) = Len(s) + Len(m)
        /\ \A i \in 1..Len(s) : (s \o m)[i] = s[i]
        /\ \A i \in 1..Len(m) : (s \o m)[Len(s) + i] = m[i]
    BY <1>1, Joined
  <2>2. CASE n = 1
    <3>1. acc = Start
      BY <2>2 DEF Compiling, Opened
    <3>2. s = <<>> /\ Len(s) = 0
      BY <3>1 DEF Start
    <3>3. 1 \in 1..Len(m) /\ Len(s) + 1 = 1
      BY <2>1, <3>2
    <3>4. (s \o m)[1] = m[1]
      BY <2>1, <3>3
    <3>5. Len(s \o m) >= 1
      BY <2>1, <3>2
    <3>6. QED BY <1>1, <1>2, <2>2, <3>4, <3>5 DEF Opened
  <2>3. CASE n # 1
    <3>1. Len(s) >= 1 /\ s[1] = Opening(list[1], road)
      BY <1>2, <2>3 DEF Compiling, Opened
    <3>2. (s \o m)[1] = s[1] /\ Len(s \o m) >= 1
      BY <2>1, <3>1
    <3>3. QED BY <1>1, <1>2, <3>1, <3>2 DEF Opened
  <2>4. QED BY <2>2, <2>3
<1>6. Kept(new, list, n)
  <2>1. ASSUME NEW B \in SUBSET (Codes \ Expanding), \A i \in 1..n : list[i].behaviour \in B
        PROVE  Only(s \o m, B)
    <3>1. Only(s, B)
      BY <1>2, <2>1 DEF Compiling, Kept
    <3>2. Only(m, B)
      BY <1>2, <2>1
    <3>3. QED BY <1>1, <3>1, <3>2, OnlyJoin
  <2>2. ASSUME NEW side \in Directions, \A i \in 1..n : Meets(list[i], side) PROVE Sided(s \o m, side)
    <3>1. Sided(s, side)
      BY <1>2, <2>2 DEF Compiling, Kept
    <3>2. Sided(m, side)
      BY <1>2, <2>2
    <3>3. QED BY <1>1, <3>1, <3>2, SidedJoin
  <2>3. QED BY <1>1, <2>1, <2>2 DEF Kept
<1>7. Complete(new, list, n, road)
  BY <1>1 DEF Complete
<1>8. QED BY <1>3, <1>4, <1>5, <1>6, <1>7 DEF Compiling

\* Nothing but the four behaviours that expand is a lane change or an avoidance.
LEMMA OtherBehaviours ==
  ASSUME NEW b \in Codes \ Expanding
  PROVE  /\ b # "AVOID_OBSTACLE" /\ b # "RETURN_TO_LANE" /\ b # "CHANGE_LANE_LEFT" /\ b # "CHANGE_LANE_RIGHT"
         /\ Unsided(b) # "CHANGE_LANE"
PROOF
  BY DEF Codes, Expanding, Unsided

\* One more step of the plan.
LEMMA CompilesOn ==
  ASSUME NEW list, IsPlanned(list), NEW n \in 1..Len(list), NEW road,
         NEW acc, Compiling(acc, list, n - 1, road)
  PROVE  Compiling(AddStep(acc, list[n], road), list, n, road)
PROOF
<1> DEFINE step == list[n]
           new == AddStep(acc, step, road)
           side == IF step.behaviour = "AVOID_OBSTACLE" THEN AvoidSide(step, road) ELSE acc.back
<1>0. Len(list) \in Nat /\ DOMAIN list = 1..Len(list) /\ step.behaviour \in Codes
  BY ListDomain DEF IsPlanned
<1>1. /\ acc = [ok |-> acc.ok, steps |-> acc.steps, back |-> acc.back]
      /\ acc.ok \in BOOLEAN /\ IsList(acc.steps) /\ acc.back \in Directions \cup {None}
  BY DEF Compiling, Formed
<1>2. n \in Nat /\ n - 1 \in Nat /\ n >= 1 /\ \A i \in 1..(n - 1) : i \in 1..n
  BY <1>0
<1>3. n = 1 => acc = Start
  BY DEF Compiling, Opened
<1>4. side \in Directions \cup {None}
  BY <1>1, Names DEF AvoidSide
<1>5. Answered(list, n, road) => Answered(list, n - 1, road)
  BY <1>2 DEF Answered
<1>7. CASE ~acc.ok
  <2>1. new = acc
    BY <1>7 DEF AddStep
  <2>2. Formed(acc) /\ Guarded(acc)
    BY DEF Compiling
  <2>3. n # 1
    BY <1>3, <1>7 DEF Start
  <2>4. Opened(acc, list, n, road)
    BY <1>2, <1>7 DEF Opened
  <2>5. Kept(acc, list, n)
    BY <1>2 DEF Compiling, Kept
  <2>6. Complete(acc, list, n, road)
    BY <1>5, <1>7 DEF Compiling, Complete
  <2>7. QED BY <2>1, <2>2, <2>4, <2>5, <2>6 DEF Compiling
<1>8. CASE acc.ok /\ step.behaviour \in {"AVOID_OBSTACLE", "RETURN_TO_LANE"} /\ side = None
  <2>1. new = [ok |-> FALSE, steps |-> acc.steps, back |-> acc.back]
    BY <1>8 DEF AddStep, Unsided
  <2>2. new = [ok |-> FALSE, steps |-> acc.steps, back |-> acc.back]
    BY <1>1, <2>1
  <2> HIDE DEF new
  <2>3. Formed(new) /\ Guarded(new)
    BY <1>1, <2>2 DEF Compiling, Formed, Guarded
  <2>4. Opened(new, list, n, road)
    BY <1>2, <2>2 DEF Opened
  <2>5. Kept(new, list, n)
    BY <1>2, <2>2 DEF Compiling, Kept
  <2>6. ~Answered(list, n, road)
    <3>1. SUFFICES ASSUME Answered(list, n, road) PROVE FALSE
      OBVIOUS
    <3>2. n \in 1..n
      BY <1>2
    <3>3. CASE step.behaviour = "AVOID_OBSTACLE"
      BY <1>8, <3>1, <3>2, <3>3 DEF Answered
    <3>4. CASE step.behaviour = "RETURN_TO_LANE"
      <4>1. n > 1 /\ list[n - 1].behaviour = "AVOID_OBSTACLE"
        BY <3>1, <3>2, <3>4 DEF Answered
      <4>2. acc.back # None
        BY <1>2, <1>5, <3>1, <4>1 DEF Compiling, Complete
      <4>3. QED BY <1>8, <3>4, <4>2
    <3>5. QED BY <1>8, <3>3, <3>4
  <2>7. QED BY <2>3, <2>4, <2>5, <2>6 DEF Compiling, Complete, new
<1>9. CASE acc.ok /\ step.behaviour = "AVOID_OBSTACLE" /\ side # None
  <2> DEFINE m == CompileAvoid(step, side)
             back == Opposite(side)
  <2>1. side \in Directions /\ back \in Directions /\ Opposite(back) = side /\ back # None
    BY <1>4, <1>9, Names DEF Opposite
  <2>2. new = [ok |-> TRUE, steps |-> acc.steps \o m, back |-> back]
    BY <1>9 DEF AddStep, Unsided
  <2>3. /\ IsList(m) /\ Len(m) = 4 /\ DOMAIN m = 1..4 /\ GapsWaited(m) /\ LastPassed(m, side)
        /\ \A j \in 1..4 : ~Returns(m[j])
        /\ Sided(m, side)
    BY <2>1, AvoidPiece
  <2>4. "AVOID_OBSTACLE" \in Expanding
    BY DEF Expanding
  <2>5. ASSUME NEW d \in Directions, Meets(step, d) PROVE Sided(m, d)
    <3>1. step.lane = Adjacent(d)
      BY <1>9, <2>5 DEF Meets
    <3>2. side = d
      BY <1>9, <2>5, <3>1 DEF AvoidSide, Adjacent, Directions
    <3>3. QED BY <2>3, <3>2
  <2>6. n = 1 => m[1] = Opening(list[1], road)
    BY <1>9 DEF Opening
  <2> HIDE DEF new, m, back, side
  <2>7. Len(m) >= 1 /\ LastPassed(m, Opposite(back))
    BY <2>1, <2>3
  <2>8. Compiling([ok |-> TRUE, steps |-> acc.steps \o m, back |-> back], list, n, road)
    BY <1>9, <2>1, <2>3, <2>4, <2>5, <2>6, <2>7, Grown
  <2>9. QED BY <2>2, <2>8 DEF new
<1>10. CASE acc.ok /\ step.behaviour = "RETURN_TO_LANE" /\ side # None
  <2> DEFINE m == CompileReturn(step, side)
  <2>1. side \in Directions /\ side = acc.back
    BY <1>4, <1>10
  <2>2. new = [ok |-> TRUE, steps |-> acc.steps \o m, back |-> None]
    BY <1>10 DEF AddStep, Unsided
  <2>3. /\ IsList(m) /\ Len(m) = 2 /\ DOMAIN m = 1..2 /\ GapsWaited(m)
        /\ \A j \in 1..2 : ~Passes(m[j]) /\ m[j].lane = "CURRENT" /\ (Returns(m[j]) => Side(m[j].behaviour) = side)
    BY <2>1, ReturnPiece
  <2>4. "RETURN_TO_LANE" \in Expanding
    BY DEF Expanding
  <2>5. \A d \in Directions : Sided(m, d)
    BY <2>3 DEF Sided
  <2>6. n # 1
    BY <1>3, <1>10, <2>1, Names DEF Start
  <2> HIDE DEF new, m, side
  <2>7. Len(m) >= 1 /\ acc.back # None /\ None \in Directions \cup {None}
    BY <2>1, <2>3, Names
  <2>8. Compiling([ok |-> TRUE, steps |-> acc.steps \o m, back |-> None], list, n, road)
    BY <1>10, <2>1, <2>3, <2>4, <2>5, <2>6, <2>7, Grown
  <2>9. QED BY <2>2, <2>8 DEF new
<1>11. CASE acc.ok /\ step.behaviour \in {"CHANGE_LANE_LEFT", "CHANGE_LANE_RIGHT"}
  <2> DEFINE m == CompileChange(step)
  <2>1. Side(step.behaviour) # None /\ Unsided(step.behaviour) = "CHANGE_LANE"
    BY <1>11, Names DEF Side, Unsided
  <2>2. new = [ok |-> TRUE, steps |-> acc.steps \o m, back |-> acc.back]
    BY <1>11, <2>1 DEF AddStep
  <2>3. /\ IsList(m) /\ Len(m) = 2 /\ DOMAIN m = 1..2 /\ GapsWaited(m) /\ Sided(m, Side(step.behaviour))
        /\ \A j \in 1..2 : ~Passes(m[j]) /\ ~Returns(m[j])
    BY <1>11, ChangePiece
  <2>4. step.behaviour \in Expanding /\ step.behaviour # "AVOID_OBSTACLE"
    BY <1>11 DEF Expanding
  <2>5. ASSUME NEW d \in Directions, Meets(step, d) PROVE Sided(m, d)
    <3>1. Side(step.behaviour) = d
      BY <2>1, <2>5 DEF Meets
    <3>2. QED BY <2>3, <3>1
  <2>6. n = 1 => m[1] = Opening(list[1], road)
    BY <1>11, <2>4 DEF Opening
  <2> HIDE DEF new, m, side
  <2>7. Len(m) >= 1
    BY <2>3
  <2>8. Compiling([ok |-> TRUE, steps |-> acc.steps \o m, back |-> acc.back], list, n, road)
    BY <1>1, <1>11, <2>3, <2>4, <2>5, <2>6, <2>7, Grown
  <2>9. QED BY <2>2, <2>8 DEF new
<1>12. CASE acc.ok /\ step.behaviour \notin Expanding
  <2> DEFINE m == <<Copy(step)>>
  <2>1. step.behaviour \in Codes \ Expanding
    BY <1>0, <1>12
  <2>2. new = [ok |-> TRUE, steps |-> acc.steps \o m, back |-> acc.back]
    BY <1>12, <2>1, OtherBehaviours DEF AddStep
  <2>3. /\ IsList(m) /\ Len(m) = 1 /\ DOMAIN m = 1..1 /\ GapsWaited(m) /\ m[1] = Copy(step)
        /\ \A j \in 1..1 : ~Passes(m[j]) /\ ~Returns(m[j])
        /\ Copy(step).behaviour = step.behaviour
    BY <2>1, CopyPiece
  <2>4. step.behaviour # "AVOID_OBSTACLE" /\ (n = 1 => m[1] = Opening(list[1], road))
    <3>1. step.behaviour # "AVOID_OBSTACLE" /\ step.behaviour \notin {"CHANGE_LANE_LEFT", "CHANGE_LANE_RIGHT"}
      BY <2>1, OtherBehaviours
    <3>2. QED BY <2>3, <3>1 DEF Opening
  <2> HIDE DEF new, m, side
  <2>5. \A B : step.behaviour \in B => Only(m, B)
    BY <2>3 DEF Only
  <2>6. ASSUME NEW d \in Directions, Meets(step, d) PROVE Sided(m, d)
    BY <2>3, <2>6 DEF Meets, Sided
  <2>7. Len(m) >= 1
    BY <2>3
  <2>8. Compiling([ok |-> TRUE, steps |-> acc.steps \o m, back |-> acc.back], list, n, road)
    BY <1>1, <1>12, <2>3, <2>4, <2>5, <2>6, <2>7, Grown
  <2>9. QED BY <2>2, <2>8 DEF new
<1>13. QED
  BY <1>1, <1>7, <1>8, <1>9, <1>10, <1>11, <1>12 DEF Expanding

\* So it holds of the whole plan.
LEMMA CompiledPlan ==
  ASSUME NEW list, IsPlanned(list), NEW road
  PROVE  Compiling(Compiled(list, road), list, Len(list), road)
PROOF
<1> DEFINE good(n) == Compiling(Compilation(list, road)[n], list, n, road)
           Bad == {n \in 0..Len(list) : ~good(n)}
<1>1. Len(list) \in Nat
  BY ListDomain DEF IsPlanned
<1>2. /\ Compilation(list, road)[0] = Start
      /\ \A n \in 1..Len(list) : Compilation(list, road)[n] = AddStep(Compilation(list, road)[n - 1], list[n], road)
  BY <1>1, CompilationStages
<1>3. good(0)
  <2>1. Start.ok = TRUE /\ Start.steps = <<>> /\ Start.back = None
    BY DEF Start
  <2>2. IsList(<<>>) /\ DOMAIN <<>> = {}
    <3>1. IsList(<<>>)
      BY ShortLists, Zenon
    <3>2. DOMAIN <<>> = {}
      OBVIOUS
    <3>3. QED BY <3>1, <3>2
  <2>3. Formed(Start)
    BY <2>1, <2>2 DEF Formed, Start
  <2>4. Guarded(Start)
    BY <2>1, <2>2 DEF Guarded, GapsWaited, WaysBack
  <2>5. Opened(Start, list, 0, road)
    BY DEF Opened
  <2>6. Kept(Start, list, 0)
    BY <2>1, <2>2 DEF Kept, Only, Sided
  <2>7. Complete(Start, list, 0, road)
    BY <2>1 DEF Complete
  <2>8. QED BY <1>2, <2>3, <2>4, <2>5, <2>6, <2>7 DEF Compiling
<1>4. \A n \in 1..Len(list) : good(n - 1) => good(n)
  BY <1>2, CompilesOn
<1> HIDE DEF good
<1>5. Bad = {}
  <2>1. SUFFICES ASSUME Bad # {} PROVE FALSE
    OBVIOUS
  <2>2. Bad \in SUBSET Nat
    BY <1>1
  <2>3. PICK n \in Bad : \A k \in Bad : n <= k
    BY <2>1, <2>2, LeastNatural
  <2>4. n \in 0..Len(list) /\ ~good(n)
    BY <2>3
  <2>5. n \in 1..Len(list) /\ n - 1 \in 0..Len(list)
    BY <1>1, <1>3, <2>4
  <2>6. good(n - 1)
    <3>1. ASSUME ~good(n - 1) PROVE FALSE
      <4>1. n - 1 \in Bad
        BY <2>5, <3>1
      <4>2. QED BY <1>1, <2>3, <2>4, <4>1
    <3>2. QED BY <3>1
  <2>7. QED BY <1>4, <2>4, <2>5, <2>6
<1>6. good(Len(list))
  BY <1>1, <1>5
<1>7. QED BY <1>6 DEF good, Compiled

-----------------------------------------------------------------------------
(* The request.                                                             *)

\* Every place in the order of the distances is some object's.
LEMMA PlacesTaken ==
  ASSUME NEW s, IsList(s.objects), \A i \in DOMAIN s.objects : s.objects[i].distance \in Int,
         NEW n \in 1..Len(s.objects)
  PROVE  \E i \in DOMAIN s.objects : Place(s, i) = n
PROOF
<1> DEFINE L == Len(s.objects)
           D == 1..L
           far(i) == s.objects[i].distance
           Before(i) == {j \in D : far(j) < far(i) \/ (far(j) = far(i) /\ j <= i)}
<1>1. L \in Nat /\ DOMAIN s.objects = D
  BY ListDomain
<1>2. \A i \in D : far(i) \in Int /\ i \in Int
  BY <1>1
<1>3. IsFiniteSet(D) /\ Cardinality(D) = L
  BY <1>1, FS_Interval
<1>4. ASSUME NEW i \in D
      PROVE  Place(s, i) = Cardinality(Before(i)) /\ Place(s, i) \in D
  <2>1. Place(s, i) = Cardinality(Before(i))
    BY <1>1 DEF Place
  <2>2. Before(i) \subseteq D /\ i \in Before(i)
    BY <1>2
  <2> HIDE DEF Before
  <2>3. IsFiniteSet(Before(i)) /\ Cardinality(Before(i)) <= L
    BY <1>3, <2>2, FS_Subset
  <2>4. Cardinality(Before(i)) \in Nat /\ Cardinality(Before(i)) # 0
    BY <2>2, <2>3, FS_CardinalityType, FS_EmptySet
  <2>5. QED BY <1>1, <2>1, <2>3, <2>4
<1>5. ASSUME NEW i \in D, NEW k \in D, i # k PROVE Place(s, i) # Place(s, k)
  <2>1. \/ Before(i) \subseteq Before(k) /\ k \notin Before(i) /\ k \in Before(k)
        \/ Before(k) \subseteq Before(i) /\ i \notin Before(k) /\ i \in Before(i)
    <3>1. CASE far(i) < far(k) \/ (far(i) = far(k) /\ i < k)
      BY <1>2, <3>1
    <3>2. CASE ~(far(i) < far(k) \/ (far(i) = far(k) /\ i < k))
      <4>1. far(k) < far(i) \/ (far(i) = far(k) /\ k < i)
        BY <1>2, <1>5, <3>2
      <4>2. QED BY <1>2, <4>1
    <3>3. QED BY <3>1, <3>2
  <2>2. IsFiniteSet(Before(i)) /\ IsFiniteSet(Before(k))
    BY <1>3, FS_Subset
  <2> HIDE DEF Before
  <2>3. Cardinality(Before(i)) # Cardinality(Before(k))
    BY <2>1, <2>2, FS_Subset
  <2>4. QED BY <1>4, <2>3
<1> HIDE DEF D
<1>6. SUFFICES ASSUME \A i \in D : Place(s, i) # n PROVE FALSE
  BY <1>1
<1> DEFINE f == [i \in D |-> Place(s, i)]
           T == D \ {n}
<1>7. n \in D
  BY DEF D
<1>8. IsFiniteSet(T) /\ Cardinality(T) < Cardinality(D)
  <2>1. IsFiniteSet(T) /\ Cardinality(T) = Cardinality(D) - 1
    BY <1>3, <1>7, FS_RemoveElement
  <2>2. QED BY <1>1, <1>3, <2>1
<1>9. f \in [D -> T]
  BY <1>4, <1>6
<1>10. PICK x \in D, y \in D : x # y /\ f[x] = f[y]
  <2> HIDE DEF f, T
  <2>1. QED BY <1>3, <1>8, <1>9, FS_PigeonHole, Zenon
<1>11. QED BY <1>5, <1>10

\* The targets of a request are objects of the scene.
LEMMA TargetsSeen ==
  ASSUME NEW s, IsList(s.objects), \A i \in DOMAIN s.objects : s.objects[i].distance \in Int,
         NEW K \in Nat
  PROVE  /\ IsList(Targets(s, K))
         /\ \A n \in DOMAIN Targets(s, K) : \E i \in DOMAIN s.objects : Targets(s, K)[n] = s.objects[i]
PROOF
<1> DEFINE L == Len(s.objects)
           X == {s.objects[i] : i \in DOMAIN s.objects}
           sorted == [n \in 1..L |-> s.objects[CHOOSE i \in DOMAIN s.objects : Place(s, i) = n]]
           most == IF L < K THEN L ELSE K
<1>1. L \in Nat /\ DOMAIN s.objects = 1..L
  BY ListDomain
<1>2. most \in Nat /\ most <= L
  BY <1>1
<1>3. \A n \in 1..L : sorted[n] \in X
  <2> SUFFICES ASSUME NEW n \in 1..L PROVE sorted[n] \in X
    OBVIOUS
  <2>1. \E i \in DOMAIN s.objects : Place(s, i) = n
    BY PlacesTaken
  <2>2. (CHOOSE i \in DOMAIN s.objects : Place(s, i) = n) \in DOMAIN s.objects
    BY <2>1
  <2>3. QED BY <2>2
<1>4. Targets(s, K) = SubSeq(sorted, 1, most)
  BY DEF Targets
<1> HIDE DEF sorted, most, X
<1>5. SubSeq(sorted, 1, most) \in Seq(X)
  <2>1. \A n \in 1..most : sorted[n] \in X
    BY <1>1, <1>2, <1>3
  <2>2. QED BY <1>2, <2>1, SubSeqProperties
<1>6. IsList(Targets(s, K)) /\ \A n \in DOMAIN Targets(s, K) : Targets(s, K)[n] \in X
  <2>1. Targets(s, K) \in Seq(X)
    BY <1>4, <1>5
  <2>2. QED BY <2>1 DEF IsList
<1>7. QED BY <1>6 DEF X

\* The request made of a situation.
Request(g) ==
  ModelRequest(g.command, g.scene, Road(g.lanes, g.scene, g.command.target), TopK, MaxSpeed)
\* What a situation demands: a stop, a confirmation.
Must(g) == MustStop(g.command, g.scene, Road(g.lanes, g.scene, g.command.target))
Asks(g) == g.command.confirm \/ Disposition(g.command, g.scene) = "CONFIRM_SAFE"

\* What a request says.
LEMMA RequestFields ==
  ASSUME NEW g \in Situations, NEW r, r = Request(g)
  PROVE  /\ r.intent = g.command.intent /\ r.direction = g.command.direction
         /\ r.speed = g.command.speed /\ r.target = g.command.target /\ r.words = g.command.words
         /\ r.light = g.scene.light /\ r.risk = g.scene.risk /\ r.targets = Targets(g.scene, TopK)
         /\ r.road = Road(g.lanes, g.scene, g.command.target) /\ r.limit = g.scene.limit
         /\ r.maxSpeed = SpeedLimit(g.scene, MaxSpeed) /\ r.mustStop = Must(g)
         /\ r.allowed = IF Asks(g) /\ ~Must(g) THEN {"STOP"}
                        ELSE WithStop(Allowed(g.command, Must(g)), g.scene.light)
         /\ r.disposition = IF Asks(g) THEN "CONFIRM_SAFE" ELSE Disposition(g.command, g.scene)
PROOF
<1>1. QED BY DEF Request, ModelRequest, Must, Asks

\* Its types.
LEMMA RequestTypes ==
  ASSUME NEW g \in Situations, NEW r, r = Request(g)
  PROVE  /\ r.maxSpeed \in Nat /\ r.speed \in Int \cup {None} /\ Must(g) \in BOOLEAN
         /\ r.direction \in Directions \cup {"STRAIGHT", None}
         /\ r.intent \in AtomicIntents \cup ManeuverIntents \cup {"UNKNOWN"}
         /\ ~r.road.observed => ~r.road.left /\ ~r.road.right
         /\ IsList(g.scene.objects) /\ \A i \in DOMAIN g.scene.objects : g.scene.objects[i].distance \in Int
         /\ r.limit \in Nat \cup {None} /\ MaxSpeed \in Nat /\ TopK \in Nat
PROOF
<1>1. /\ g.command.intent \in AtomicIntents \cup ManeuverIntents \cup {"UNKNOWN"}
      /\ g.command.direction \in Directions \cup {"STRAIGHT", None} /\ g.command.speed \in Nat \cup {None}
      /\ g.scene.limit \in Nat \cup {None}
      /\ g.scene.objects \in Seq(Range(g.scene.objects)) /\ \A o \in Range(g.scene.objects) : o.distance \in Int
      /\ g.lanes.observed \in BOOLEAN /\ (~g.lanes.observed => ~g.lanes.left /\ ~g.lanes.right)
  BY SituationAssumption
<1>2. /\ r.intent = g.command.intent /\ r.direction = g.command.direction
      /\ r.speed = g.command.speed /\ r.road = Road(g.lanes, g.scene, g.command.target)
      /\ r.limit = g.scene.limit /\ r.maxSpeed = SpeedLimit(g.scene, MaxSpeed)
  BY RequestFields
<1>3. MaxSpeed \in Nat /\ TopK \in Nat
  BY LimitAssumption
<1>4. SpeedLimit(g.scene, MaxSpeed) \in Nat
  BY <1>1, <1>3 DEF SpeedLimit
<1>5. \A i \in DOMAIN g.scene.objects : g.scene.objects[i].distance \in Int
  <2>1. \A i \in DOMAIN g.scene.objects : g.scene.objects[i] \in Range(g.scene.objects)
    BY DEF Range
  <2>2. QED BY <1>1, <2>1
<1>6. ~r.road.observed => ~r.road.left /\ ~r.road.right
  BY <1>1, <1>2 DEF Road
<1>7. IsList(g.scene.objects)
  BY <1>1 DEF IsList
<1>8. Must(g) \in BOOLEAN
  BY DEF Must, MustStop
<1>9. r.speed \in Int \cup {None}
  BY <1>1, <1>2
<1>10. QED BY <1>1, <1>2, <1>3, <1>4, <1>5, <1>6, <1>7, <1>8, <1>9

\* Where a stop or a confirmation is asked for nothing else is allowed, and at a red light
\* a stop always is.
LEMMA StopsAllowed ==
  ASSUME NEW g \in Situations, NEW r, r = Request(g)
  PROVE  /\ r.mustStop \/ r.disposition = "CONFIRM_SAFE" => r.allowed = {"STOP"}
         /\ r.mustStop \/ r.light = "RED" => "STOP" \in r.allowed
PROOF
<1>1. /\ r.light = g.scene.light /\ r.mustStop = Must(g)
      /\ r.allowed = IF Asks(g) /\ ~Must(g) THEN {"STOP"}
                     ELSE WithStop(Allowed(g.command, Must(g)), g.scene.light)
      /\ r.disposition = IF Asks(g) THEN "CONFIRM_SAFE" ELSE Disposition(g.command, g.scene)
  BY RequestFields
<1>2. Must(g) => r.allowed = {"STOP"}
  <2>1. Must(g) => Allowed(g.command, Must(g)) = {"STOP"}
    BY DEF Allowed
  <2>2. QED BY <1>1, <2>1 DEF WithStop
<1>3. r.disposition = "CONFIRM_SAFE" => Asks(g)
  BY <1>1 DEF Asks
<1>4. r.light = "RED" => "STOP" \in r.allowed
  BY <1>1 DEF WithStop
<1>5. QED BY <1>1, <1>2, <1>3, <1>4

\* What a command that need not stop or be confirmed allows.
LEMMA IntentAllowed ==
  ASSUME NEW g \in Situations, NEW r, r = Request(g), ~r.mustStop, r.disposition # "CONFIRM_SAFE",
         r.intent \in Configured
  PROVE  /\ r.intent \in r.allowed /\ r.intent \notin {"STOP", "RETURN_TO_LANE"}
         /\ r.intent = "AVOID_OBSTACLE" =>
              "SLOW_DOWN" \in r.allowed /\ ("pedestrian" \in r.words => "YIELD" \in r.allowed)
PROOF
<1> DEFINE c == g.command
<1>1. /\ r.intent = c.intent /\ r.words = c.words /\ ~Must(g) /\ ~Asks(g)
      /\ r.allowed = WithStop(Allowed(c, Must(g)), g.scene.light)
  <2>1. /\ r.intent = c.intent /\ r.words = c.words /\ r.mustStop = Must(g)
        /\ r.allowed = IF Asks(g) /\ ~Must(g) THEN {"STOP"}
                       ELSE WithStop(Allowed(c, Must(g)), g.scene.light)
        /\ r.disposition = IF Asks(g) THEN "CONFIRM_SAFE" ELSE Disposition(c, g.scene)
    BY RequestFields
  <2>2. QED BY <2>1
<1>2. Must(g) = FALSE
  BY <1>1, RequestTypes
<1>3. Allowed(c, FALSE) \subseteq r.allowed
  BY <1>1, <1>2 DEF WithStop
<1>4. c.intent # "STOP" /\ c.intent # "RETURN_TO_LANE"
  <2>1. c.intent # "STOP"
    BY <1>1 DEF Must, MustStop, CommandStops
  <2>2. c.intent # "RETURN_TO_LANE"
    BY SituationAssumption DEF AtomicIntents, ManeuverIntents
  <2>3. QED BY <2>1, <2>2
<1> HIDE DEF c
<1>5. c.intent \in Allowed(c, FALSE)
  <2>1. c.intent \in Configured
    BY <1>1
  <2>2. CASE RequiresManeuver(c)
    BY <2>1, <2>2 DEF Allowed, Narrowed, Configured
  <2>3. CASE ~RequiresManeuver(c)
    BY <2>1, <2>3 DEF Allowed, Narrowed, Configured
  <2>4. QED BY <2>2, <2>3
<1>6. ASSUME c.intent = "AVOID_OBSTACLE"
      PROVE  "SLOW_DOWN" \in Allowed(c, FALSE) /\ ("pedestrian" \in c.words => "YIELD" \in Allowed(c, FALSE))
  <2>1. RequiresManeuver(c)
    BY <1>6 DEF RequiresManeuver, ManeuverIntents
  <2>2. QED BY <1>6, <2>1 DEF Allowed, Narrowed, Configured
<1>7. QED BY <1>1, <1>3, <1>4, <1>5, <1>6

-----------------------------------------------------------------------------
(* The production backend's plan.                                           *)

\* A step as the backend builds it for a behaviour, whatever its preconditions are.
Built(step, r, b, named, asked) ==
  /\ step.behaviour = b /\ step.target = Bound(r, b, named) /\ step.lane = Wheresoever(r, b)
  /\ step.speed = Pace(r, b, asked) /\ step.done = Ending(r, b, Bound(r, b, named))
  /\ step.valued = Step(r, b, named, asked).valued /\ step.laned = Step(r, b, named, asked).laned
  /\ step.pre \cap Facts = {}

\* The conditions of the careful steps, and the speed to resume at.
Careful == {"PERCEPTION_FRESH", "NO_EMERGENCY_RISK"}
Cruise(r) == IF r.maxSpeed = 0 THEN 3 ELSE r.maxSpeed

\* The service's steps are built from the request alone, the careful ones too.
LEMMA StepsAreBuilt ==
  ASSUME NEW r, NEW b, NEW named, NEW asked
  PROVE  /\ Built(Step(r, b, named, asked), r, b, named, asked)
         /\ Built([Step(r, b, named, asked) EXCEPT !.pre = Careful], r, b, named, asked)
PROOF
<1> DEFINE step == Step(r, b, named, asked)
           more == [step EXCEPT !.pre = Careful]
           v == step.valued
           l == step.laned
<1>1. step = [behaviour |-> b, target |-> Bound(r, b, named), lane |-> Wheresoever(r, b),
              speed |-> Pace(r, b, asked), done |-> Ending(r, b, Bound(r, b, named)),
              valued |-> v, laned |-> l, pre |-> {"PERCEPTION_FRESH"}]
  BY DEF Step
<1>2. v = step.valued /\ l = step.laned
  OBVIOUS
<1> HIDE DEF step, v, l
<1>3. more = [behaviour |-> b, target |-> Bound(r, b, named), lane |-> Wheresoever(r, b),
              speed |-> Pace(r, b, asked), done |-> Ending(r, b, Bound(r, b, named)),
              valued |-> v, laned |-> l, pre |-> Careful]
  BY <1>1
<1> HIDE DEF more
<1>4. {"PERCEPTION_FRESH"} \cap Facts = {} /\ Careful \cap Facts = {}
  BY DEF Facts, Careful
<1>5. Built(step, r, b, named, asked)
  BY <1>1, <1>4 DEF Built, step
<1>6. Built(more, r, b, named, asked)
  <2>1. /\ more.behaviour = b /\ more.target = Bound(r, b, named) /\ more.lane = Wheresoever(r, b)
        /\ more.speed = Pace(r, b, asked) /\ more.done = Ending(r, b, Bound(r, b, named))
        /\ more.valued = v /\ more.laned = l /\ more.pre = Careful
    BY <1>3
  <2>2. QED BY <1>4, <2>1 DEF Built, step, v, l
<1>7. QED BY <1>5, <1>6 DEF step, more

\* The steps of the plan for a behaviour.
IsStep(step, r, b) ==
  \/ Built(step, r, b, r.target, r.speed)
  \/ b = "AVOID_OBSTACLE" /\ "pedestrian" \in r.words /\ Built(step, r, "YIELD", Walker(r), r.speed)
  \/ b = "AVOID_OBSTACLE" /\ Built(step, r, "RETURN_TO_LANE", r.target, r.speed)
  \/ b \in {"AVOID_OBSTACLE", "SLOW_DOWN", "YIELD"} /\ Built(step, r, "KEEP_LANE", None, Cruise(r))

\* What the plan for a behaviour consists of.
LEMMA ExpandedSteps ==
  ASSUME NEW r, NEW b, NEW E, E = Expanded(r, b)
  PROVE  /\ IsList(E) /\ Len(E) >= 1 /\ DOMAIN E = 1..Len(E)
         /\ \A i \in DOMAIN E : IsStep(E[i], r, b)
         /\ \/ Built(E[1], r, b, r.target, r.speed)
            \/ /\ b = "AVOID_OBSTACLE" /\ "pedestrian" \in r.words
               /\ Built(E[1], r, "YIELD", Walker(r), r.speed)
         /\ \E i \in DOMAIN E : E[i].behaviour = b
         /\ \A i \in DOMAIN E : E[i].behaviour = "RETURN_TO_LANE" =>
              b = "RETURN_TO_LANE" \/ (i > 1 /\ E[i - 1].behaviour = "AVOID_OBSTACLE")
PROOF
<1> DEFINE yields == b = "AVOID_OBSTACLE" /\ {"pedestrian", "overtake", "order"} \subseteq r.words
           resumes == b \in {"AVOID_OBSTACLE", "SLOW_DOWN", "YIELD"} /\ "resume" \in r.words
           main == Step(r, b, r.target, r.speed)
           yield == Step(r, "YIELD", Walker(r), r.speed)
           after == [main EXCEPT !.pre = Careful]
           back == Step(r, "RETURN_TO_LANE", r.target, r.speed)
           on == [Step(r, "KEEP_LANE", None, Cruise(r)) EXCEPT !.pre = Careful]
           P == IF yields THEN <<yield, after>> ELSE <<main>>
           Q == IF b = "AVOID_OBSTACLE" THEN <<back>> ELSE <<>>
           S == IF resumes THEN <<on>> ELSE <<>>
<1>1. E = P \o Q \o S
  BY Zenon DEF Expanded, Careful, Cruise
<1>2. /\ Built(main, r, b, r.target, r.speed) /\ Built(after, r, b, r.target, r.speed)
      /\ Built(yield, r, "YIELD", Walker(r), r.speed)
      /\ Built(back, r, "RETURN_TO_LANE", r.target, r.speed)
      /\ Built(on, r, "KEEP_LANE", None, Cruise(r))
  BY StepsAreBuilt
<1> HIDE DEF main, yield, after, back, on
<1>3. /\ main.behaviour = b /\ after.behaviour = b /\ yield.behaviour = "YIELD"
      /\ back.behaviour = "RETURN_TO_LANE" /\ on.behaviour = "KEEP_LANE"
  BY <1>2 DEF Built
<1>4. /\ IsList(P) /\ Len(P) \in {1, 2} /\ DOMAIN P = 1..Len(P) /\ P[Len(P)].behaviour = b
      /\ (~yields => Len(P) = 1 /\ P[1] = main) /\ (yields => Len(P) = 2 /\ P[1] = yield /\ P[2] = after)
  <2>1. CASE yields
    <3>1. IsList(<<yield, after>>) /\ Len(<<yield, after>>) = 2
      BY ShortLists, Zenon
    <3>2. P = <<yield, after>>
      BY <2>1
    <3>3. P[1] = yield /\ P[2] = after
      BY <3>2
    <3> HIDE DEF P
    <3>4. IsList(P) /\ Len(P) = 2
      BY <3>1, <3>2
    <3>5. DOMAIN P = 1..Len(P)
      BY <3>4, ListDomain
    <3>6. QED BY <1>3, <2>1, <3>3, <3>4, <3>5
  <2>2. CASE ~yields
    <3>1. IsList(<<main>>) /\ Len(<<main>>) = 1
      BY ShortLists, Zenon
    <3>2. P = <<main>>
      BY <2>2
    <3>3. P[1] = main
      BY <3>2
    <3> HIDE DEF P
    <3>4. IsList(P) /\ Len(P) = 1
      BY <3>1, <3>2
    <3>5. DOMAIN P = 1..Len(P)
      BY <3>4, ListDomain
    <3>6. QED BY <1>3, <2>2, <3>3, <3>4, <3>5
  <2>3. QED BY <2>1, <2>2
<1>5. /\ IsList(Q) /\ DOMAIN Q = 1..Len(Q)
      /\ (b = "AVOID_OBSTACLE" => Len(Q) = 1 /\ Q[1] = back) /\ (b # "AVOID_OBSTACLE" => Len(Q) = 0)
  <2>1. IsList(<<back>>) /\ Len(<<back>>) = 1 /\ IsList(<<>>) /\ Len(<<>>) = 0
    BY ShortLists, Zenon
  <2>2. <<back>>[1] = back
    OBVIOUS
  <2>3. IsList(Q)
    BY <2>1, Zenon
  <2>4. DOMAIN Q = 1..Len(Q)
    <3> HIDE DEF Q
    <3>1. QED BY <2>3, ListDomain
  <2>5. b = "AVOID_OBSTACLE" => Len(Q) = 1 /\ Q[1] = back
    BY <2>1, <2>2
  <2>6. b # "AVOID_OBSTACLE" => Len(Q) = 0
    BY <2>1
  <2>7. QED BY <2>3, <2>4, <2>5, <2>6
<1>6. /\ IsList(S) /\ DOMAIN S = 1..Len(S)
      /\ (resumes => Len(S) = 1 /\ S[1] = on) /\ (~resumes => Len(S) = 0)
  <2>1. IsList(<<on>>) /\ Len(<<on>>) = 1 /\ IsList(<<>>) /\ Len(<<>>) = 0
    BY ShortLists, Zenon
  <2>2. <<on>>[1] = on
    OBVIOUS
  <2>3. IsList(S)
    BY <2>1, Zenon
  <2>4. DOMAIN S = 1..Len(S)
    <3> HIDE DEF S
    <3>1. QED BY <2>3, ListDomain
  <2>5. resumes => Len(S) = 1 /\ S[1] = on
    BY <2>1, <2>2
  <2>6. ~resumes => Len(S) = 0
    BY <2>1
  <2>7. QED BY <2>3, <2>4, <2>5, <2>6
<1> DEFINE p == Len(P)
           q == Len(Q)
           z == Len(S)
<1>7. yields \in BOOLEAN /\ resumes \in BOOLEAN /\ (yields => b = "AVOID_OBSTACLE" /\ "pedestrian" \in r.words)
      /\ (resumes => b \in {"AVOID_OBSTACLE", "SLOW_DOWN", "YIELD"})
  OBVIOUS
<1> HIDE DEF P, Q, S, yields, resumes
<1>8. /\ IsList(P \o Q) /\ Len(P \o Q) = p + q /\ p \in Nat /\ q \in Nat
      /\ \A i \in 1..p : (P \o Q)[i] = P[i]
      /\ \A i \in 1..q : (P \o Q)[p + i] = Q[i]
  BY <1>4, <1>5, Joined
<1>9. /\ IsList(E) /\ Len(E) = p + q + z /\ z \in Nat /\ DOMAIN E = 1..(p + q + z)
      /\ \A i \in 1..(p + q) : E[i] = (P \o Q)[i]
      /\ \A i \in 1..z : E[p + q + i] = S[i]
  <2> DEFINE F == P \o Q
  <2>1. E = F \o S /\ IsList(F) /\ Len(F) = p + q
    BY <1>1, <1>8
  <2> HIDE DEF F, p, q, z
  <2>2. /\ IsList(F \o S) /\ Len(F \o S) = Len(F) + Len(S) /\ Len(S) \in Nat
        /\ DOMAIN (F \o S) = 1..(Len(F) + Len(S))
        /\ \A i \in 1..Len(F) : (F \o S)[i] = F[i]
        /\ \A i \in 1..Len(S) : (F \o S)[Len(F) + i] = S[i]
    BY <1>6, <2>1, Joined
  <2>3. QED BY <2>1, <2>2 DEF F, z
<1>10. /\ \A i \in 1..p : E[i] = P[i]
       /\ b = "AVOID_OBSTACLE" => q = 1 /\ E[p + 1] = back
       /\ b # "AVOID_OBSTACLE" => q = 0
       /\ resumes => z = 1 /\ E[p + q + 1] = on
       /\ ~resumes => z = 0
  <2>1. \A i \in 1..p : E[i] = P[i]
    BY <1>8, <1>9
  <2>2. ASSUME b = "AVOID_OBSTACLE" PROVE q = 1 /\ E[p + 1] = back
    <3>1. q = 1 /\ Q[1] = back
      BY <1>5, <2>2
    <3>2. (P \o Q)[p + 1] = Q[1]
      BY <1>8, <3>1
    <3>3. p + 1 \in 1..(p + q)
      BY <1>8, <3>1
    <3>4. QED BY <1>9, <3>1, <3>2, <3>3
  <2>3. ASSUME resumes PROVE z = 1 /\ E[p + q + 1] = on
    BY <1>6, <1>9, <2>3
  <2>4. QED BY <1>5, <1>6, <2>1, <2>2, <2>3
<1> HIDE DEF p, q, z
<1>11. /\ p \in {1, 2} /\ E[p].behaviour = b
       /\ ~yields => p = 1 /\ E[1] = main
       /\ yields => p = 2 /\ E[1] = yield /\ E[2] = after
  BY <1>4, <1>10 DEF p
<1>12. \A i \in DOMAIN E : \/ i = p /\ E[i].behaviour = b /\ E[i] \in {main, after}
                           \/ yields /\ i = 1 /\ E[i] = yield
                           \/ b = "AVOID_OBSTACLE" /\ i = p + 1 /\ E[i] = back
                           \/ resumes /\ E[i] = on
  <2> SUFFICES ASSUME NEW i \in DOMAIN E
               PROVE  \/ i = p /\ E[i].behaviour = b /\ E[i] \in {main, after}
                      \/ yields /\ i = 1 /\ E[i] = yield
                      \/ b = "AVOID_OBSTACLE" /\ i = p + 1 /\ E[i] = back
                      \/ resumes /\ E[i] = on
    OBVIOUS
  <2>1. i \in 1..(p + q + z) /\ p \in Nat /\ q \in Nat /\ z \in Nat
    BY <1>8, <1>9
  <2>2. CASE i <= p
    BY <1>11, <2>1, <2>2
  <2>3. CASE i > p /\ i <= p + q
    BY <1>10, <2>1, <2>3
  <2>4. CASE i > p + q
    BY <1>10, <2>1, <2>4
  <2>5. QED BY <2>1, <2>2, <2>3, <2>4
<1>13. \A i \in DOMAIN E : IsStep(E[i], r, b)
  BY <1>2, <1>7, <1>12 DEF IsStep
<1>14. Len(E) >= 1 /\ DOMAIN E = 1..Len(E) /\ p \in DOMAIN E
  BY <1>8, <1>9, <1>11
<1>15. \/ Built(E[1], r, b, r.target, r.speed)
       \/ b = "AVOID_OBSTACLE" /\ "pedestrian" \in r.words /\ Built(E[1], r, "YIELD", Walker(r), r.speed)
  BY <1>2, <1>7, <1>11
<1>16. ASSUME NEW i \in DOMAIN E, E[i].behaviour = "RETURN_TO_LANE", b # "RETURN_TO_LANE"
       PROVE  i > 1 /\ E[i - 1].behaviour = "AVOID_OBSTACLE"
  <2>1. b = "AVOID_OBSTACLE" /\ i = p + 1
    BY <1>3, <1>12, <1>16
  <2>2. i - 1 = p /\ i > 1
    BY <1>11, <2>1
  <2>3. QED BY <1>11, <2>1, <2>2
<1>17. QED BY <1>9, <1>11, <1>13, <1>14, <1>15, <1>16

\* The faults of form, which the scene has no part in.
FormFaults ==
  {"TARGET_SPEED_REQUIRED", "SPEED_LIMIT_EXCEEDED", "TARGET_LANE_MISMATCH",
   "COMPLETION_VALUE_REQUIRED", "COMPLETION_LANE_REQUIRED", "COMPLETION_BEHAVIOR_MISMATCH"}

\* Which faults a step has.
LEMMA FaultsAre ==
  ASSUME NEW step, NEW setting, NEW f
  PROVE  f \in StepFaults(step, setting) <=>
           \/ f = "MUST_STOP_PROPULSION_FORBIDDEN" /\ setting.mustStop /\ step.behaviour \in Advancing
           \/ f = "TARGET_NOT_FOUND" /\ step.target # None /\ step.target \notin setting.targets
           \/ f = "TARGET_REQUIRED" /\ step.behaviour \in {"FOLLOW", "AVOID_OBSTACLE"} /\ step.target = None
           \/ f = "SPEED_LIMIT_EXCEEDED" /\ step.speed # None /\ step.speed > setting.limit
           \/ /\ f = "TARGET_SPEED_REQUIRED" /\ step.speed = None
              /\ step.behaviour \in {"SET_SPEED", "SLOW_DOWN", "FOLLOW"}
           \/ /\ f = "TARGET_LANE_MISMATCH" /\ step.behaviour \in {"CHANGE_LANE_LEFT", "CHANGE_LANE_RIGHT"}
              /\ step.lane # Adjacent(Side(step.behaviour))
           \/ /\ f = "LANE_CONTEXT_MISSING" /\ setting.lanes = None
              /\ step.lane \in {"LEFT_ADJACENT", "RIGHT_ADJACENT", "SHOULDER"}
           \/ /\ f = "TARGET_LANE_UNAVAILABLE" /\ setting.lanes # None /\ step.lane \notin setting.lanes
              /\ step.lane \in {"LEFT_ADJACENT", "RIGHT_ADJACENT", "SHOULDER"}
           \/ f = "PRECONDITION_UNOBSERVABLE" /\ (step.pre \cap Facts) \ setting.facts # {}
           \/ f \in EndingFaults(step)
PROOF
<1>1. QED BY DEF StepFaults

\* Which faults a plan has.
LEMMA PlanFaultsAre ==
  ASSUME NEW p, NEW setting, NEW mayAsk, NEW f
  PROVE  f \in PlanFaults(p, setting, mayAsk) <=>
           \/ f = "PLAN_CONFIRMATION_REQUIRED" /\ ~mayAsk /\ (~p.sure \/ p.confirm)
           \/ f = "PERCEPTION_STALE" /\ setting.stale
           \/ \E i \in DOMAIN p.steps : f \in StepFaults(p.steps[i], setting)
PROOF
<1>1. f \in UNION {StepFaults(p.steps[i], setting) : i \in DOMAIN p.steps}
      <=> \E i \in DOMAIN p.steps : f \in StepFaults(p.steps[i], setting)
  OBVIOUS
<1>2. QED BY <1>1 DEF PlanFaults

\* The speed of a step the backend builds.
LEMMA PaceBounds ==
  ASSUME NEW r, r.maxSpeed \in Nat, NEW asked \in Int \cup {None}, NEW b
  PROVE  /\ Pace(r, b, asked) \in Int \cup {None}
         /\ Pace(r, b, asked) # None => Pace(r, b, asked) <= r.maxSpeed
         /\ b # "SET_SPEED" \/ asked # None => Pace(r, b, asked) \in Int
         /\ b \in {"STOP", "HOLD", "PULL_OVER", "YIELD"} => Pace(r, b, asked) = 0
PROOF
<1>1. \A n \in Int : Within(r, n) \in Int /\ Within(r, n) <= r.maxSpeed
  BY DEF Within, Least
<1>2. CASE b \in {"STOP", "HOLD", "PULL_OVER", "YIELD"}
  <2>1. Pace(r, b, asked) = 0
    BY <1>2 DEF Pace
  <2>2. QED BY <1>2, <2>1
<1>3. CASE b = "SLOW_DOWN"
  <2>1. \E n \in Int : Pace(r, b, asked) = Within(r, n)
    BY <1>3 DEF Pace
  <2>2. QED BY <1>1, <1>3, <2>1
<1>4. CASE b = "SET_SPEED" /\ asked = None
  <2>1. Pace(r, b, asked) = None
    BY <1>4 DEF Pace
  <2>2. QED BY <1>4, <2>1
<1>5. CASE b \notin {"STOP", "HOLD", "PULL_OVER", "YIELD", "SLOW_DOWN"} /\ ~(b = "SET_SPEED" /\ asked = None)
  <2>1. \E n \in Int : Pace(r, b, asked) = Within(r, n)
    BY <1>5 DEF Pace
  <2>2. QED BY <1>1, <1>5, <2>1
<1>6. QED BY <1>2, <1>3, <1>4, <1>5

\* The form of a step the backend builds is never a fault of it.
LEMMA BuiltWell ==
  ASSUME NEW r, r.maxSpeed \in Nat, NEW asked \in Int \cup {None}, NEW b \in Codes, NEW named, NEW step,
         b = "SET_SPEED" => asked # None, Built(step, r, b, named, asked),
         NEW setting, setting.limit = r.maxSpeed
  PROVE  StepFaults(step, setting) \cap FormFaults = {}
PROOF
<1>1. step.behaviour = b /\ step.lane = Wheresoever(r, b) /\ step.speed = Pace(r, b, asked)
  BY DEF Built
<1>2. step.speed \in Int /\ step.speed # None /\ step.speed <= r.maxSpeed
  <2>1. step.speed \in Int
    BY <1>1, PaceBounds
  <2>2. step.speed # None
    BY <2>1, Names
  <2>3. QED BY <1>1, <2>1, <2>2, PaceBounds
<1>3. b \in {"CHANGE_LANE_LEFT", "CHANGE_LANE_RIGHT"} => step.lane = Adjacent(Side(b))
  BY <1>1 DEF Wheresoever
<1>4. EndingFaults(step) = {}
  <2> DEFINE target == Bound(r, b, named)
             done == Ending(r, b, target)
             pace == Pace(r, b, asked)
  <2>1. step.done = done /\ pace # None
    BY <1>1, <1>2 DEF Built
  <2>2. /\ step.valued = \/ done \in {"STOPPED", "TARGET_GAP_REACHED", "SPEED_BELOW"}
                         \/ done = "SPEED_REACHED" /\ pace # None
                         \/ done = "TARGET_PASSED" /\ b = "SLOW_DOWN"
        /\ step.laned = (done = "LANE_CENTERED")
    BY DEF Built, Step
  <2> HIDE DEF target
  <2>3. done \in EndingsOf(b)
    BY DEF Ending, EndingsOf, Codes
  <2> HIDE DEF done, pace
  <2>4. ~(step.done \in {"SPEED_BELOW", "SPEED_REACHED", "TARGET_GAP_REACHED"} /\ ~step.valued)
    BY <2>1, <2>2
  <2>5. ~(step.done = "LANE_CENTERED" /\ ~step.laned)
    BY <2>1, <2>2
  <2>6. step.done \in EndingsOf(step.behaviour)
    BY <1>1, <2>1, <2>3
  <2> HIDE DEF EndingsOf
  <2>7. QED BY <2>4, <2>5, <2>6 DEF EndingFaults
<1>5. SUFFICES ASSUME NEW f \in FormFaults, f \in StepFaults(step, setting) PROVE FALSE
  OBVIOUS
<1>6. \/ f = "SPEED_LIMIT_EXCEEDED" /\ step.speed # None /\ step.speed > setting.limit
      \/ /\ f = "TARGET_SPEED_REQUIRED" /\ step.speed = None
         /\ step.behaviour \in {"SET_SPEED", "SLOW_DOWN", "FOLLOW"}
      \/ /\ f = "TARGET_LANE_MISMATCH" /\ step.behaviour \in {"CHANGE_LANE_LEFT", "CHANGE_LANE_RIGHT"}
         /\ step.lane # Adjacent(Side(step.behaviour))
      \/ f \in EndingFaults(step)
  BY <1>5, FaultsAre DEF FormFaults
<1>7. QED BY <1>1, <1>2, <1>3, <1>4, <1>6

\* What the service and the worker judge a plan by differs only in what the scene adds.
LEMMA SettingsAgree ==
  ASSUME NEW g \in Situations, NEW r, r = Request(g), NEW step,
         StepFaults(step, ServiceSetting(r, MaxSpeed)) = {}
  PROVE  StepFaults(step, WorkerSetting(r, g.scene)) = {}
PROOF
<1> DEFINE S == ServiceSetting(r, MaxSpeed)
           W == WorkerSetting(r, g.scene)
<1>1. /\ S.targets = {r.targets[i].id : i \in DOMAIN r.targets} \cup r.road.grounded
      /\ W.targets = {g.scene.objects[i].id : i \in DOMAIN g.scene.objects} \cup r.road.grounded
      /\ S.lanes = W.lanes /\ S.facts = W.facts
      /\ S.mustStop = (r.mustStop \/ r.risk = "EMERGENCY")
      /\ W.mustStop = (r.mustStop \/ g.scene.risk = "EMERGENCY")
      /\ S.limit = (IF r.limit = None THEN MaxSpeed ELSE Least(r.limit, MaxSpeed))
      /\ W.limit = r.maxSpeed
  BY DEF ServiceSetting, WorkerSetting
<1>2. /\ r.risk = g.scene.risk /\ r.targets = Targets(g.scene, TopK) /\ r.limit = g.scene.limit
      /\ r.maxSpeed = SpeedLimit(g.scene, MaxSpeed)
  BY RequestFields
<1>3. /\ IsList(g.scene.objects) /\ \A i \in DOMAIN g.scene.objects : g.scene.objects[i].distance \in Int
      /\ r.limit \in Nat \cup {None} /\ MaxSpeed \in Nat /\ TopK \in Nat
  BY RequestTypes
<1>4. S.limit = W.limit
  BY <1>1, <1>2, <1>3 DEF SpeedLimit, Least
<1>5. S.targets \subseteq W.targets
  <2>1. \A n \in DOMAIN r.targets : \E i \in DOMAIN g.scene.objects : r.targets[n] = g.scene.objects[i]
    BY <1>2, <1>3, TargetsSeen
  <2>2. QED BY <1>1, <2>1
<1>6. S.mustStop = W.mustStop
  BY <1>1, <1>2
<1> HIDE DEF S, W
<1>7. ASSUME NEW f, f \in StepFaults(step, W) PROVE f \in StepFaults(step, S)
  <2>1. f \in StepFaults(step, W) <=>
           \/ f = "MUST_STOP_PROPULSION_FORBIDDEN" /\ W.mustStop /\ step.behaviour \in Advancing
           \/ f = "TARGET_NOT_FOUND" /\ step.target # None /\ step.target \notin W.targets
           \/ f = "TARGET_REQUIRED" /\ step.behaviour \in {"FOLLOW", "AVOID_OBSTACLE"} /\ step.target = None
           \/ f = "SPEED_LIMIT_EXCEEDED" /\ step.speed # None /\ step.speed > W.limit
           \/ /\ f = "TARGET_SPEED_REQUIRED" /\ step.speed = None
              /\ step.behaviour \in {"SET_SPEED", "SLOW_DOWN", "FOLLOW"}
           \/ /\ f = "TARGET_LANE_MISMATCH" /\ step.behaviour \in {"CHANGE_LANE_LEFT", "CHANGE_LANE_RIGHT"}
              /\ step.lane # Adjacent(Side(step.behaviour))
           \/ /\ f = "LANE_CONTEXT_MISSING" /\ W.lanes = None
              /\ step.lane \in {"LEFT_ADJACENT", "RIGHT_ADJACENT", "SHOULDER"}
           \/ /\ f = "TARGET_LANE_UNAVAILABLE" /\ W.lanes # None /\ step.lane \notin W.lanes
              /\ step.lane \in {"LEFT_ADJACENT", "RIGHT_ADJACENT", "SHOULDER"}
           \/ f = "PRECONDITION_UNOBSERVABLE" /\ (step.pre \cap Facts) \ W.facts # {}
           \/ f \in EndingFaults(step)
    BY FaultsAre
  <2>2. CASE f = "TARGET_NOT_FOUND" /\ step.target # None /\ step.target \notin W.targets
    BY <1>5, <2>2, FaultsAre
  <2>3. CASE ~(f = "TARGET_NOT_FOUND" /\ step.target # None /\ step.target \notin W.targets)
    BY <1>1, <1>4, <1>6, <1>7, <2>1, <2>3, FaultsAre
  <2>4. QED BY <2>2, <2>3
<1>8. QED BY <1>7 DEF S, W

\* A list that is not empty has a first element.
LEMMA NonEmpty ==
  ASSUME NEW s, IsList(s), s # <<>>
  PROVE  Len(s) >= 1
PROOF
<1>1. PICK X : s \in Seq(X)
  BY DEF IsList
<1>2. Len(s) \in Nat /\ Len(s) # 0
  BY <1>1, EmptySeq, LenProperties
<1>3. QED BY <1>2

\* A side as behaviours have it.
LEMMA Sides ==
  /\ \A b \in Codes : Unsided(b) \in Configured \cup {"HOLD"} /\ Side(b) \in Directions \cup {None}
  /\ \A d \in Directions : /\ Change(d) \in Codes /\ Turn(d) \in Codes /\ Side(Change(d)) = d /\ Side(Turn(d)) = d
                           /\ Unsided(Change(d)) = "CHANGE_LANE" /\ Unsided(Turn(d)) = "TURN"
  /\ \A i \in Configured \ {"CHANGE_LANE", "TURN"} : i \in Codes /\ Unsided(i) = i /\ Side(i) = None
PROOF
<1>1. \A b \in Codes : Unsided(b) \in Configured \cup {"HOLD"} /\ Side(b) \in Directions \cup {None}
  BY DEF Codes, Configured, Unsided, Side, Directions
<1>2. \A d \in Directions :
        /\ Change(d) \in Codes /\ Turn(d) \in Codes /\ Side(Change(d)) = d /\ Side(Turn(d)) = d
        /\ Unsided(Change(d)) = "CHANGE_LANE" /\ Unsided(Turn(d)) = "TURN"
  BY DEF Codes, Directions, Change, Turn, Unsided, Side
<1>3. \A i \in Configured \ {"CHANGE_LANE", "TURN"} : i \in Codes /\ Unsided(i) = i /\ Side(i) = None
  BY DEF Codes, Configured, Unsided, Side
<1>4. QED BY <1>1, <1>2, <1>3

\* What the model may be left with.
Left(r) ==
  {b \in Codes : Permits(r, b) /\ Meant(r, b) /\ (r.direction \notin Directions \/ Side(b) \in {None, r.direction})}
\* The service offers a stop at a red light and where nothing else is left.
LEMMA OfferedIs ==
  ASSUME NEW r
  PROVE  Offered(r) = IF r.light = "RED" \/ Left(r) = {} THEN {"STOP"} ELSE Left(r)
PROOF
<1>1. QED BY Zenon DEF Offered, Left

\* A token of the model is a known behaviour, and so is what the backend makes of it.
LEMMA ChosenCode ==
  ASSUME NEW r, NEW token \in Offered(r)
  PROVE  token \in Codes /\ Chosen(r, token) \in Codes /\ Chosen(r, token) \in {"STOP", "HOLD", token}
PROOF
<1>1. "STOP" \in Codes /\ "HOLD" \in Codes /\ Left(r) \subseteq Codes
  BY DEF Codes, Left
<1>2. token \in Codes
  BY <1>1, OfferedIs
<1>3. Chosen(r, token) \in {"STOP", "HOLD", token}
  BY DEF Chosen
<1>4. QED BY <1>1, <1>2, <1>3

\* A command that must end in a stop gets one; one to be confirmed gets a stop or a wait.
LEMMA ChosenStops ==
  ASSUME NEW g \in Situations, NEW r, r = Request(g), NEW token \in Offered(r)
  PROVE  /\ r.mustStop \/ r.light = "RED" => Chosen(r, token) = "STOP" /\ ~PlannerFails(r, token)
         /\ r.mustStop \/ r.disposition = "CONFIRM_SAFE" => Chosen(r, token) \in {"STOP", "HOLD"}
PROOF
<1>1. ASSUME r.mustStop \/ r.light = "RED" PROVE Chosen(r, token) = "STOP" /\ ~PlannerFails(r, token)
  <2>1. Chosen(r, token) = "STOP"
    BY <1>1 DEF Chosen
  <2>2. Permits(r, "STOP")
    BY <1>1, StopsAllowed DEF Permits
  <2>3. QED BY <2>1, <2>2 DEF PlannerFails
<1>2. ASSUME r.disposition = "CONFIRM_SAFE" PROVE Chosen(r, token) \in {"STOP", "HOLD"}
  <2>1. r.allowed = {"STOP"}
    BY <1>2, StopsAllowed
  <2>2. \A b \in Codes : Permits(r, b) => b = "STOP"
    BY <2>1 DEF Permits, Codes, Unsided
  <2>3. token = "STOP"
    BY <2>2, OfferedIs DEF Left
  <2>4. QED BY <2>3, ChosenCode
<1>3. QED BY <1>1, <1>2

\* A clear intent leaves the model the behaviours of that intent, on the side it names.
LEMMA IntentLeft ==
  ASSUME NEW g \in Situations, NEW r, r = Request(g), r.intent \in Configured, ~r.mustStop,
         r.disposition # "CONFIRM_SAFE"
  PROVE  Left(r) # {}
PROOF
<1>1. r.intent \in r.allowed
  BY IntentAllowed
<1>2. CASE r.intent \notin {"CHANGE_LANE", "TURN"}
  <2>1. r.intent \in Codes /\ Unsided(r.intent) = r.intent /\ Side(r.intent) = None
    BY <1>2, Sides
  <2>2. Permits(r, r.intent) /\ Meant(r, r.intent)
    BY <1>1, <2>1 DEF Permits, Meant
  <2>3. r.intent \in Left(r)
    BY <2>1, <2>2 DEF Left
  <2>4. QED BY <2>3
<1>3. CASE r.intent \in {"CHANGE_LANE", "TURN"}
  <2> DEFINE d == IF r.direction \in Directions THEN r.direction ELSE "LEFT"
             b == IF r.intent = "TURN" THEN Turn(d) ELSE Change(d)
  <2>1. d \in Directions /\ (r.direction \in Directions => d = r.direction)
    BY DEF Directions
  <2>2. b \in Codes /\ Unsided(b) = r.intent /\ Side(b) = d
    BY <1>3, <2>1, Sides
  <2> HIDE DEF d, b
  <2>3. Permits(r, b) /\ Meant(r, b)
    BY <1>1, <2>2 DEF Permits, Meant
  <2>4. b \in Left(r)
    BY <2>1, <2>2, <2>3 DEF Left
  <2>5. QED BY <2>4
<1>4. QED BY <1>2, <1>3

\* What the backend does with a clear intent: it carries it out, stops or waits.
Follows(r, b) ==
  /\ Unsided(b) = r.intent /\ ~r.mustStop /\ r.disposition # "CONFIRM_SAFE" /\ Permits(r, b)
  /\ r.direction \in Directions => Side(b) \in {None, r.direction}

\* Of a request with a clear intent the backend follows the intent, stops or waits, and it only
\* stops or waits where the request itself asks for care.
LEMMA ChosenForIntent ==
  ASSUME NEW g \in Situations, NEW r, r = Request(g), r.intent \in Configured,
         NEW token \in Offered(r)
  PROVE  /\ ~PlannerFails(r, token)
         /\ Chosen(r, token) \in {"STOP", "HOLD"} \/ Follows(r, Chosen(r, token))
         /\ ~r.mustStop /\ r.light # "RED" /\ r.disposition # "CONFIRM_SAFE" /\ r.risk # "EMERGENCY"
              => Follows(r, Chosen(r, token))
PROOF
<1>1. CASE r.mustStop \/ r.light = "RED"
  BY <1>1, ChosenStops
<1>2. CASE ~(r.mustStop \/ r.light = "RED") /\ r.disposition = "CONFIRM_SAFE"
  <2>1. Chosen(r, token) \in {"STOP", "HOLD"}
    BY <1>2, ChosenStops
  <2>2. r.allowed = {"STOP"}
    BY <1>2, StopsAllowed
  <2>3. Permits(r, "STOP")
    BY <2>2 DEF Permits
  <2>4. ~PlannerFails(r, token)
    BY <2>1, <2>3 DEF PlannerFails
  <2>5. QED BY <1>2, <2>1, <2>4
<1>3. CASE ~(r.mustStop \/ r.light = "RED") /\ r.disposition # "CONFIRM_SAFE"
  <2>1. Chosen(r, token) = token
    BY <1>3 DEF Chosen
  <2>2. token \in Left(r)
    BY <1>3, IntentLeft, OfferedIs
  <2>3. Permits(r, token) /\ Meant(r, token) /\ (r.direction \notin Directions \/ Side(token) \in {None, r.direction})
    BY <2>2 DEF Left
  <2>4. ~PlannerFails(r, token)
    BY <2>1, <2>3 DEF PlannerFails
  <2>5. Unsided(token) = r.intent \/ (token = "STOP" /\ r.risk = "EMERGENCY")
    BY <1>3, <2>3 DEF Meant
  <2>6. QED BY <1>3, <2>1, <2>3, <2>4, <2>5 DEF Follows
<1>4. QED BY <1>1, <1>2, <1>3

-----------------------------------------------------------------------------
(* The rules' plan.                                                         *)

\* A step of the rules says what it is for, whatever is put before it.
LEMMA RuledBehaviour ==
  ASSUME NEW b, NEW speed, NEW target, NEW lane, NEW done, NEW valued, NEW more
  PROVE  /\ Ruled(b, speed, target, lane, done, valued).behaviour = b
         /\ [Ruled(b, speed, target, lane, done, valued) EXCEPT !.pre = @ \cup more].behaviour = b
PROOF
<1>1. QED BY DEF Ruled

\* Short plans of known behaviours.
LEMMA ShortPlans ==
  ASSUME NEW x, NEW y, x.behaviour \in Codes
  PROVE  IsPlanned(<<x>>) /\ (y.behaviour \in Codes => IsPlanned(<<x, y>>))
PROOF
<1>1. IsPlanned(<<x>>)
  <2>1. IsList(<<x>>)
    BY ShortLists, Zenon
  <2>2. \A i \in DOMAIN <<x>> : <<x>>[i] = x
    OBVIOUS
  <2>3. QED BY <2>1, <2>2 DEF IsPlanned
<1>2. ASSUME y.behaviour \in Codes PROVE IsPlanned(<<x, y>>)
  <2>1. IsList(<<x, y>>)
    BY ShortLists, Zenon
  <2>2. \A i \in DOMAIN <<x, y>> : <<x, y>>[i] = x \/ <<x, y>>[i] = y
    OBVIOUS
  <2>3. QED BY <1>2, <2>1, <2>2 DEF IsPlanned
<1>3. QED BY <1>1, <1>2

\* Two plans one after the other.
LEMMA PlansJoin ==
  ASSUME NEW s, NEW m, IsPlanned(s), IsPlanned(m)
  PROVE  IsPlanned(s \o m)
PROOF
<1>1. IsList(s \o m) /\ Only(s \o m, Codes)
  BY Joined, OnlyJoin DEF IsPlanned, Only
<1>2. QED BY <1>1 DEF IsPlanned, Only

\* The rules plan in the planner's own vocabulary.
LEMMA RuledStepsPlanned ==
  ASSUME NEW r
  PROVE  IsPlanned(RuledSteps(r))
PROOF
<1> DEFINE most == IF r.maxSpeed = 0 THEN 4 ELSE r.maxSpeed
           slow == Least(3, most)
           asked == IF r.speed = None THEN Least(4, most) ELSE Least(r.speed, most)
           closest == IF r.targets = <<>> THEN None ELSE r.targets[1].id
           lane(side) == side \in Directions /\ (IF side = "LEFT" THEN r.road.left ELSE r.road.right)
           wanted == IF r.direction \in Directions THEN r.direction ELSE "LEFT"
           either == IF r.road.left THEN "LEFT" ELSE IF r.road.right THEN "RIGHT" ELSE None
           needs(step, more) == [step EXCEPT !.pre = @ \cup more]
           around(side, speed, more) ==
             <<needs(Ruled("AVOID_OBSTACLE", slow, closest, Adjacent(side), "TARGET_PASSED", FALSE), more),
               Ruled("RETURN_TO_LANE", speed, None, "CURRENT", "LANE_CENTERED", FALSE)>>
           turn(side) == needs(Ruled(Turn(side), slow, None, "ROUTE_BRANCH", "JUNCTION_EXITED", FALSE),
                               {"ROUTE_AVAILABLE", "INTERSECTION_AHEAD"})
           cruise == Ruled("SET_SPEED", Least(4, most), None, "CURRENT", "SPEED_REACHED", TRUE)
<1>1. {"STOP", "KEEP_LANE", "SET_SPEED", "SLOW_DOWN", "AVOID_OBSTACLE", "RETURN_TO_LANE", "FOLLOW"} \subseteq Codes
  BY DEF Codes
<1>2. \A d \in Directions : Change(d) \in Codes /\ Turn(d) \in Codes
  BY Sides
<1>3. \A b, speed, target, side, done, valued :
        b \in Codes => Ruled(b, speed, target, side, done, valued).behaviour \in Codes
  BY RuledBehaviour
<1>4. \A b, speed, target, side, done, valued, more :
        b \in Codes => needs(Ruled(b, speed, target, side, done, valued), more).behaviour \in Codes
  BY RuledBehaviour
<1> HIDE DEF needs
<1>5. IsPlanned(<<Ruled("STOP", 0, None, "CURRENT", "STOPPED", FALSE)>>)
  BY <1>1, <1>3, ShortPlans
<1>6. IsPlanned(<<Ruled("KEEP_LANE", asked, None, "CURRENT", "HOLD_FRAMES", FALSE)>>)
  BY <1>1, <1>3, ShortPlans
<1>7. IsPlanned(<<Ruled("SET_SPEED", asked, None, "CURRENT", "SPEED_REACHED", TRUE)>>)
  BY <1>1, <1>3, ShortPlans
<1>8. IsPlanned(<<Ruled("SLOW_DOWN", Least(asked, slow), None, "CURRENT", "SPEED_BELOW", TRUE)>>)
  BY <1>1, <1>3, ShortPlans
<1>9. lane(r.direction) =>
        IsPlanned(<<Ruled(Change(r.direction), asked, None, Adjacent(r.direction), "LANE_CENTERED", FALSE)>>)
  BY <1>2, <1>3, ShortPlans
<1>10. \A side, speed, more : IsPlanned(around(side, speed, more))
  BY <1>1, <1>3, <1>4, ShortPlans
<1>11. IsPlanned(<<turn("LEFT")>>)
  BY <1>2, <1>4, ShortPlans DEF Directions
<1>12. IsPlanned(<<>>)
  <2>1. IsList(<<>>)
    BY ShortLists, Zenon
  <2>2. QED BY <2>1 DEF IsPlanned
<1>13. IsPlanned(<<Ruled("SLOW_DOWN", slow, None, "CURRENT", "SPEED_BELOW", TRUE), turn("RIGHT")>>
                 \o (IF "pace" \in r.words THEN <<cruise>> ELSE <<>>))
  <2>1. IsPlanned(<<Ruled("SLOW_DOWN", slow, None, "CURRENT", "SPEED_BELOW", TRUE), turn("RIGHT")>>)
    BY <1>1, <1>2, <1>3, <1>4, ShortPlans DEF Directions
  <2>2. IsPlanned(<<cruise>>)
    BY <1>1, <1>3, ShortPlans
  <2>3. IsPlanned(IF "pace" \in r.words THEN <<cruise>> ELSE <<>>)
    BY <1>12, <2>2, Zenon
  <2>4. QED BY <2>1, <2>3, PlansJoin
<1>14. IsPlanned(<<needs(Ruled("FOLLOW", Least(4, most), closest, "CURRENT", "TARGET_GAP_REACHED", TRUE),
                         {"TARGET_VISIBLE"})>>)
  BY <1>1, <1>4, ShortPlans
<1>15. QED
  BY <1>5, <1>6, <1>7, <1>8, <1>9, <1>10, <1>11, <1>12, <1>13, <1>14, Zenon DEF RuledSteps, needs

\* Whatever the rules answer is a nonempty list of known behaviours.
LEMMA RuledIsPlanned ==
  ASSUME NEW r
  PROVE  IsPlanned(RuledPlan(r).steps) /\ Len(RuledPlan(r).steps) >= 1
PROOF
<1> DEFINE hold == Ruled("HOLD", None, None, "CURRENT", "HOLD_FRAMES", FALSE)
<1>1. CASE RuledSteps(r) = <<>>
  <2>1. RuledPlan(r).steps = <<hold>>
    BY <1>1 DEF RuledPlan
  <2>2. hold.behaviour = "HOLD" /\ "HOLD" \in Codes
    BY DEF Ruled, Codes
  <2> HIDE DEF hold
  <2>3. Len(<<hold>>) = 1
    BY ShortLists, Zenon
  <2>4. IsPlanned(<<hold>>)
    BY <2>2, ShortPlans
  <2>5. QED BY <2>1, <2>3, <2>4
<1>2. CASE RuledSteps(r) # <<>>
  <2>1. RuledPlan(r).steps = RuledSteps(r)
    BY <1>2 DEF RuledPlan
  <2>2. IsPlanned(RuledSteps(r))
    BY RuledStepsPlanned
  <2>3. Len(RuledSteps(r)) >= 1
    BY <1>2, <2>2, NonEmpty DEF IsPlanned
  <2>4. QED BY <2>1, <2>2, <2>3
<1>3. QED BY <1>1, <1>2

-----------------------------------------------------------------------------
(* The inductive invariant: what each stage knows of the ones before.       *)

\* What each stage holds: the request, the plan, its faults, the steps, the order.
Requested == request = Request(given)
Planned ==
  /\ Requested
  /\ \/ /\ given.backend = "vllm"
        /\ \E token \in Offered(request) :
             ~PlannerFails(request, token) /\ plan = PlannerAnswers(request, token)
     \/ given.backend = "rules" /\ plan = RuledPlan(request)
     \/ given.backend = "free" /\ plan \in FreePlans
ServiceFaults == PlanFaults(plan, ServiceSetting(request, MaxSpeed), TRUE)
WorkerFaults == PlanFaults(plan, WorkerSetting(request, given.scene), FALSE)
Served == Planned /\ ServiceFaults = {}
Compilable == Served /\ WorkerFaults = {}
Accepted ==
  /\ Compilable /\ Compiled(plan.steps, request.road).ok
  /\ steps = Compiled(plan.steps, request.road).steps
Ready ==
  /\ Accepted /\ control = PlanControl(steps[1], request) /\ ~Forbidden(request, control.behaviour)

\* How a command came out, and why.
Ended ==
  \/ /\ outcome = "MODEL_ERROR" /\ faults = {} /\ Requested /\ given.backend = "vllm"
     /\ \E token \in Offered(request) : PlannerFails(request, token)
  \/ outcome = "QWEN_ERROR" /\ Planned /\ faults = ServiceFaults /\ faults # {}
  \/ /\ outcome = "QWEN_ERROR" /\ Compilable /\ ~Compiled(plan.steps, request.road).ok
     /\ faults = {"NO_DIRECTION"}
  \/ outcome = "QWEN_PLAN_REJECTED" /\ Served /\ faults = WorkerFaults /\ faults # {}
  \/ /\ outcome = "QWEN_PLAN_INFEASIBLE" /\ Accepted /\ faults = {"NOT_ALLOWED"}
     /\ Forbidden(request, PlanControl(steps[1], request).behaviour)
  \/ outcome = "QWEN_TARGET_STALE" /\ Ready /\ faults = {} /\ control.behaviour \notin {"STOP", "HOLD"}
  \/ outcome = "QWEN_BEHAVIOR_UNSUPPORTED" /\ Ready /\ faults = {} /\ Envelope(control) = None
  \/ /\ outcome = "DISPATCHED" /\ Ready /\ faults = {} /\ Envelope(control) # None
     /\ told = Envelope(control)

\* What every reachable state satisfies, stage by stage.
PipeInv ==
  /\ given \in Situations
  /\ stage \in {"spoken", "asked", "planned", "served", "accepted", "ready", "done"}
  /\ stage = "asked" => Requested
  /\ stage = "planned" => Planned
  /\ stage = "served" => Served
  /\ stage = "accepted" => Accepted
  /\ stage = "ready" => Ready
  /\ steps # None => Accepted
  /\ stage \in {"spoken", "asked", "planned", "served"} => steps = None
  /\ IF stage = "done" THEN Ended ELSE outcome = None /\ faults = {}

\* Every stage finds what the one before it left.
THEOREM PipeInvCorrect == PipeSpec => []PipeInv
PROOF
<1>1. PipeInit => PipeInv
  BY DEF PipeInit, PipeInv
<1>2. PipeInv /\ [PipeNext]_pipeVars => PipeInv'
  <2> SUFFICES ASSUME PipeInv, [PipeNext]_pipeVars PROVE PipeInv'
    OBVIOUS
  <2>1. CASE Ask
    <3>1. /\ stage = "spoken" /\ stage' = "asked" /\ request' = Request(given)
          /\ UNCHANGED <<given, plan, steps, control, faults, outcome, told>>
      BY <2>1 DEF Ask, Request
    <3>2. steps' = None /\ given' \in Situations /\ outcome' = None /\ faults' = {}
      BY <3>1 DEF PipeInv
    <3>3. Requested'
      BY <3>1 DEF Requested, Request
    <3>4. QED BY <3>1, <3>2, <3>3 DEF PipeInv
  <2>2. ASSUME NEW answer, Take(answer), stage = "asked", Requested,
               \/ /\ given.backend = "vllm"
                  /\ \E token \in Offered(request) :
                       ~PlannerFails(request, token) /\ answer = PlannerAnswers(request, token)
               \/ given.backend = "rules" /\ answer = RuledPlan(request)
               \/ given.backend = "free" /\ answer \in FreePlans
        PROVE  PipeInv'
    <3>1. /\ stage' = "planned" /\ plan' = answer
          /\ UNCHANGED <<given, request, steps, control, faults, outcome, told>>
      BY <2>2 DEF Take
    <3>2. steps' = None /\ given' \in Situations /\ outcome' = None /\ faults' = {}
      BY <2>2, <3>1 DEF PipeInv
    <3>3. Planned'
      BY <2>2, <3>1 DEF Planned, Requested, Request
    <3>4. QED BY <3>1, <3>2, <3>3 DEF PipeInv
  <2>3. CASE PlannerReplies
    <3>1. stage = "asked" /\ given.backend = "vllm" /\ Requested
      BY <2>3 DEF PlannerReplies, PipeInv
    <3>2. PICK token \in Offered(request) :
            IF PlannerFails(request, token)
            THEN End("MODEL_ERROR", {}) /\ UNCHANGED <<given, request, plan, steps, control, told>>
            ELSE Take(PlannerAnswers(request, token))
      BY <2>3 DEF PlannerReplies
    <3>3. CASE PlannerFails(request, token)
      <4>1. /\ stage' = "done" /\ outcome' = "MODEL_ERROR" /\ faults' = {}
            /\ UNCHANGED <<given, request, plan, steps, control, told>>
        BY <3>2, <3>3 DEF End
      <4>2. steps' = None /\ given' \in Situations
        BY <3>1, <4>1 DEF PipeInv
      <4>3. Ended'
        BY <3>1, <3>3, <4>1 DEF Ended, Requested
      <4>4. QED BY <4>1, <4>2, <4>3 DEF PipeInv
    <3>4. CASE ~PlannerFails(request, token)
      BY <2>2, <3>1, <3>2, <3>4
    <3>5. QED BY <3>3, <3>4
  <2>4. CASE RulesReply
    BY <2>2, <2>4 DEF RulesReply, PipeInv
  <2>5. CASE ModelWrites
    BY <2>2, <2>5 DEF ModelWrites, PipeInv
  <2>6. CASE Serve
    <3>1. stage = "planned" /\ Planned /\ UNCHANGED <<given, request, plan, steps, control, told>>
      BY <2>6 DEF Serve, PipeInv
    <3>2. steps' = None /\ given' \in Situations
      BY <3>1 DEF PipeInv
    <3>3. Planned' /\ ServiceFaults' = ServiceFaults
      BY <3>1 DEF Planned, Requested, ServiceFaults
    <3>4. CASE ServiceFaults # {}
      <4>1. stage' = "done" /\ outcome' = "QWEN_ERROR" /\ faults' = ServiceFaults
        BY <2>6, <3>4 DEF Serve, End, ServiceFaults
      <4>2. Ended'
        BY <3>3, <3>4, <4>1 DEF Ended
      <4>3. QED BY <3>2, <4>1, <4>2 DEF PipeInv
    <3>5. CASE ServiceFaults = {}
      <4>1. stage' = "served" /\ UNCHANGED <<faults, outcome>>
        BY <2>6, <3>5 DEF Serve, ServiceFaults
      <4>2. Served' /\ outcome' = None /\ faults' = {}
        BY <3>1, <3>3, <3>5, <4>1 DEF Served, PipeInv
      <4>3. QED BY <3>2, <4>1, <4>2 DEF PipeInv
    <3>6. QED BY <3>4, <3>5
  <2>7. CASE Accept
    <3>1. stage = "served" /\ Served /\ UNCHANGED <<given, request, plan, control, told>>
      BY <2>7 DEF Accept, PipeInv
    <3>2. steps = None /\ given' \in Situations
      BY <3>1 DEF PipeInv
    <3>3. Served' /\ WorkerFaults' = WorkerFaults
      BY <3>1 DEF Served, Planned, Requested, ServiceFaults, WorkerFaults
    <3>4. CASE WorkerFaults # {}
      <4>1. stage' = "done" /\ outcome' = "QWEN_PLAN_REJECTED" /\ faults' = WorkerFaults /\ steps' = steps
        BY <2>7, <3>4 DEF Accept, End, WorkerFaults
      <4>2. Ended'
        BY <3>3, <3>4, <4>1 DEF Ended
      <4>3. QED BY <3>2, <4>1, <4>2 DEF PipeInv
    <3>5. CASE WorkerFaults = {} /\ ~Compiled(plan.steps, request.road).ok
      <4>1. stage' = "done" /\ outcome' = "QWEN_ERROR" /\ faults' = {"NO_DIRECTION"} /\ steps' = steps
        BY <2>7, <3>5 DEF Accept, End, WorkerFaults
      <4>2. Compilable' /\ ~Compiled(plan.steps, request.road).ok'
        BY <3>1, <3>3, <3>5 DEF Compilable
      <4>3. Ended'
        BY <4>1, <4>2 DEF Ended
      <4>4. QED BY <3>2, <4>1, <4>3 DEF PipeInv
    <3>6. CASE WorkerFaults = {} /\ Compiled(plan.steps, request.road).ok
      <4>1. /\ stage' = "accepted" /\ steps' = Compiled(plan.steps, request.road).steps
            /\ UNCHANGED <<faults, outcome>>
        BY <2>7, <3>6 DEF Accept, WorkerFaults
      <4>2. Accepted'
        BY <3>1, <3>3, <3>6, <4>1 DEF Accepted, Compilable
      <4>3. outcome' = None /\ faults' = {}
        BY <3>1, <4>1 DEF PipeInv
      <4>4. QED BY <3>2, <4>1, <4>2, <4>3 DEF PipeInv
    <3>7. QED BY <3>4, <3>5, <3>6
  <2>8. CASE Consume
    <3> DEFINE order == PlanControl(steps[1], request)
    <3>1. stage = "accepted" /\ Accepted /\ UNCHANGED <<given, request, plan, steps, told>>
      BY <2>8 DEF Consume, PipeInv
    <3>2. Accepted' /\ given' \in Situations
      BY <3>1 DEF Accepted, Compilable, Served, Planned, Requested, ServiceFaults, WorkerFaults, PipeInv
    <3>3. CASE Forbidden(request, order.behaviour)
      <4>1. /\ stage' = "done" /\ outcome' = "QWEN_PLAN_INFEASIBLE" /\ faults' = {"NOT_ALLOWED"}
            /\ Forbidden(request, PlanControl(steps[1], request).behaviour)'
        BY <2>8, <3>1, <3>3 DEF Consume, End
      <4>2. Ended'
        BY <3>2, <4>1 DEF Ended
      <4>3. QED BY <3>2, <4>1, <4>2 DEF PipeInv
    <3>4. CASE ~Forbidden(request, order.behaviour)
      <4>1. stage' = "ready" /\ control' = order /\ UNCHANGED <<faults, outcome>>
        BY <2>8, <3>4 DEF Consume
      <4>2. Ready'
        BY <3>1, <3>2, <3>4, <4>1 DEF Ready
      <4>3. outcome' = None /\ faults' = {}
        BY <3>1, <4>1 DEF PipeInv
      <4>4. QED BY <3>2, <4>1, <4>2, <4>3 DEF PipeInv
    <3>5. QED BY <3>3, <3>4
  <2>9. CASE Dispatch
    <3>1. stage = "ready" /\ Ready /\ UNCHANGED <<given, request, plan, steps, control>>
      BY <2>9 DEF Dispatch, PipeInv
    <3>2. Ready' /\ given' \in Situations
      BY <3>1 DEF Ready, Accepted, Compilable, Served, Planned, Requested, ServiceFaults, WorkerFaults, PipeInv
    <3>3. PICK seen \in Sightings :
            LET lost == /\ control.behaviour \notin {"STOP", "HOLD"} /\ control.target # None
                        /\ control.target \notin seen \cup request.road.grounded
            IN  /\ End(CASE lost -> "QWEN_TARGET_STALE"
                             [] ~lost /\ Envelope(control) = None -> "QWEN_BEHAVIOR_UNSUPPORTED"
                             [] OTHER -> "DISPATCHED", {})
                /\ told' = IF outcome' = "DISPATCHED" THEN Envelope(control) ELSE None
      BY <2>9 DEF Dispatch
    <3> DEFINE lost == /\ control.behaviour \notin {"STOP", "HOLD"} /\ control.target # None
                       /\ control.target \notin seen \cup request.road.grounded
    <3>4. stage' = "done" /\ faults' = {}
      BY <3>3 DEF End
    <3>5. CASE lost
      <4>1. outcome' = "QWEN_TARGET_STALE"
        BY <3>3, <3>5 DEF End
      <4>2. Ended'
        BY <3>1, <3>2, <3>4, <3>5, <4>1 DEF Ended
      <4>3. QED BY <3>2, <3>4, <4>2 DEF PipeInv, Ready
    <3>6. CASE ~lost /\ Envelope(control) = None
      <4>1. outcome' = "QWEN_BEHAVIOR_UNSUPPORTED" /\ Envelope(control)' = None
        BY <3>1, <3>3, <3>6 DEF End
      <4>2. Ended'
        BY <3>2, <3>4, <4>1 DEF Ended
      <4>3. QED BY <3>2, <3>4, <4>2 DEF PipeInv, Ready
    <3>7. CASE ~lost /\ Envelope(control) # None
      <4>1. outcome' = "DISPATCHED"
        BY <3>3, <3>7 DEF End
      <4>2. told' = Envelope(control) /\ Envelope(control)' = Envelope(control)
        BY <3>1, <3>3, <4>1
      <4>3. Ended'
        BY <3>2, <3>4, <3>7, <4>1, <4>2 DEF Ended
      <4>4. QED BY <3>2, <3>4, <4>3 DEF PipeInv, Ready
    <3>8. QED BY <3>5, <3>6, <3>7
  <2>10. CASE UNCHANGED pipeVars
    <3>1. UNCHANGED <<given, stage, request, plan, steps, control, faults, outcome, told>>
      BY <2>10 DEF pipeVars
    <3>2. /\ Requested' = Requested /\ Planned' = Planned /\ ServiceFaults' = ServiceFaults
          /\ WorkerFaults' = WorkerFaults
      BY <3>1 DEF Planned, Requested, ServiceFaults, WorkerFaults
    <3>3. Served' = Served /\ Compilable' = Compilable
      BY <3>2 DEF Served, Compilable
    <3>4. Accepted' = Accepted
      BY <3>1, <3>3 DEF Accepted
    <3>5. Ready' = Ready
      BY <3>1, <3>4 DEF Ready
    <3>6. Ended' = Ended
      BY <3>1, <3>2, <3>3, <3>4, <3>5 DEF Ended
    <3>7. QED BY <3>1, <3>2, <3>3, <3>4, <3>5, <3>6 DEF PipeInv
  <2>11. QED
    BY <2>1, <2>3, <2>4, <2>5, <2>6, <2>7, <2>8, <2>9, <2>10 DEF PipeNext
<1>3. QED BY <1>1, <1>2, PTL DEF PipeSpec

-----------------------------------------------------------------------------
(* What the invariant says of the steps and of the order made of the first. *)

\* The production backend's plan, its behaviour and the steps of it.
LEMMA ModelPlan ==
  ASSUME given \in Situations, Planned, given.backend = "vllm"
  PROVE  \E token \in Offered(request) :
           /\ ~PlannerFails(request, token) /\ plan.sure = TRUE /\ plan.confirm = FALSE
           /\ plan.steps = Expanded(request, Chosen(request, token))
PROOF
<1>1. PICK token \in Offered(request) :
        ~PlannerFails(request, token) /\ plan = PlannerAnswers(request, token)
  BY DEF Planned
<1>2. QED BY <1>1 DEF PlannerAnswers

\* The steps of the plan for a known behaviour are of known behaviours.
LEMMA ExpandedPlanned ==
  ASSUME NEW r, NEW b \in Codes
  PROVE  IsPlanned(Expanded(r, b)) /\ Len(Expanded(r, b)) >= 1
PROOF
<1> DEFINE E == Expanded(r, b)
<1>1. IsList(E) /\ Len(E) >= 1 /\ \A i \in DOMAIN E : IsStep(E[i], r, b)
  BY ExpandedSteps
<1> HIDE DEF E
<1>2. \A i \in DOMAIN E : E[i].behaviour \in {b, "YIELD", "RETURN_TO_LANE", "KEEP_LANE"}
  BY <1>1 DEF IsStep, Built
<1>3. {b, "YIELD", "RETURN_TO_LANE", "KEEP_LANE"} \subseteq Codes
  BY DEF Codes
<1>4. QED BY <1>1, <1>2, <1>3 DEF IsPlanned, E

\* Whoever answered, the answer is a plan.
LEMMA AnswersArePlans ==
  ASSUME given \in Situations, Planned
  PROVE  IsPlanned(plan.steps) /\ Len(plan.steps) >= 1
PROOF
<1>1. CASE given.backend = "vllm"
  <2>1. PICK token \in Offered(request) : plan.steps = Expanded(request, Chosen(request, token))
    BY <1>1, ModelPlan
  <2>2. Chosen(request, token) \in Codes
    BY ChosenCode
  <2>3. QED BY <2>1, <2>2, ExpandedPlanned
<1>2. CASE plan = RuledPlan(request)
  BY <1>2, RuledIsPlanned
<1>3. CASE plan \in FreePlans
  <2>1. plan.steps \in Seq(Range(plan.steps)) \ {<<>>} /\ \A step \in Range(plan.steps) : step.behaviour \in Codes
    BY <1>3, PlanAssumption
  <2>2. IsList(plan.steps) /\ plan.steps # <<>>
    BY <2>1 DEF IsList
  <2>3. \A i \in DOMAIN plan.steps : plan.steps[i].behaviour \in Codes
    <3>1. \A i \in DOMAIN plan.steps : plan.steps[i] \in Range(plan.steps)
      BY DEF Range
    <3>2. QED BY <2>1, <3>1
  <2>4. QED BY <2>2, <2>3, NonEmpty DEF IsPlanned
<1>4. QED BY <1>1, <1>2, <1>3 DEF Planned

\* What is accepted is a compiled plan.
LEMMA AcceptedSteps ==
  ASSUME given \in Situations, Accepted
  PROVE  /\ GapsWaited(steps) /\ WaysBack(steps)
         /\ steps[1] = Opening(plan.steps[1], request.road)
         /\ \A B \in SUBSET (Codes \ Expanding) :
              (\A i \in DOMAIN plan.steps : plan.steps[i].behaviour \in B) => Only(steps, B)
         /\ \A side \in Directions :
              (\A i \in DOMAIN plan.steps : Meets(plan.steps[i], side)) => Sided(steps, side)
PROOF
<1> DEFINE P == plan.steps
           acc == Compiled(P, request.road)
<1>1. IsPlanned(P) /\ Len(P) >= 1
  BY AnswersArePlans DEF Accepted, Compilable, Served
<1>2. acc.ok /\ steps = acc.steps
  BY DEF Accepted
<1>3. Len(P) \in Nat /\ DOMAIN P = 1..Len(P)
  BY <1>1, ListDomain DEF IsPlanned
<1> HIDE DEF P
<1>4. Compiling(acc, P, Len(P), request.road)
  BY <1>1, CompiledPlan
<1> HIDE DEF acc
<1>5. GapsWaited(steps) /\ WaysBack(steps)
  BY <1>2, <1>4 DEF Compiling, Guarded
<1>6. steps[1] = Opening(P[1], request.road)
  BY <1>1, <1>2, <1>4 DEF Compiling, Opened
<1>7. \A B \in SUBSET (Codes \ Expanding) :
        (\A i \in DOMAIN P : P[i].behaviour \in B) => Only(steps, B)
  BY <1>2, <1>3, <1>4 DEF Compiling, Kept
<1>8. \A side \in Directions : (\A i \in DOMAIN P : Meets(P[i], side)) => Sided(steps, side)
  BY <1>2, <1>3, <1>4 DEF Compiling, Kept
<1>9. QED BY <1>5, <1>6, <1>7, <1>8 DEF P

\* The order to stand still, as the vehicle runtime is told it.
StandStill == [intent |-> "STOP", speed |-> None, direction |-> None]
\* A stop and a hold are one order to the vehicle runtime.
LEMMA OrdersToStand ==
  ASSUME control.behaviour \in {"STOP", "HOLD"}
  PROVE  Envelope(control) = StandStill
PROOF
<1>1. QED BY DEF Envelope, StandStill

\* Where only a stop is allowed the vehicle is told to stand still.
LEMMA OnlyStopAllowed ==
  ASSUME Ready, request.allowed = {"STOP"}
  PROVE  control.behaviour \in {"STOP", "HOLD"}
PROOF
<1>1. control.behaviour \in {"STOP", "HOLD"} \/ Permits(request, control.behaviour)
  BY DEF Ready, Forbidden
<1>2. ASSUME NEW b, Permits(request, b) PROVE b = "STOP"
  BY <1>2 DEF Permits, Unsided
<1>3. QED BY <1>1, <1>2

\* An order that is no None.
LEMMA OrdersAreSomething ==
  ASSUME NEW intent \in Configured, NEW speed \in Int \cup {None}, NEW side \in Directions \cup {None}
  PROVE  [intent |-> intent, speed |-> speed, direction |-> side] # None
PROOF
<1>1. [intent |-> intent, speed |-> speed, direction |-> side]
        \in [intent : Configured, speed : Int \cup {None}, direction : Directions \cup {None}]
  OBVIOUS
<1>2. QED BY <1>1, NoneApart

\* The invariant read at the end.
LEMMA HowItEnded ==
  ASSUME PipeInv
  PROVE  /\ given \in Situations /\ (outcome # None => stage = "done" /\ Ended)
         /\ faults # {} => stage = "done" /\ Ended
         /\ outcome = "DISPATCHED" => Ready /\ told = Envelope(control)
         /\ steps # None => Accepted
PROOF
<1>1. stage = "done" => Ended
  BY DEF PipeInv
<1>2. outcome # None \/ faults # {} => stage = "done"
  BY DEF PipeInv
<1>3. None # "DISPATCHED"
  BY NoneApart DEF Reasons
<1>4. QED BY <1>1, <1>2, <1>3 DEF PipeInv, Ended

-----------------------------------------------------------------------------
(* The properties.                                                          *)

\* A command that must end in a stop ends in one.
LEMMA InvStopMeansStop ==
  ASSUME PipeInv
  PROVE  StopMeansStop
PROOF
<1> SUFFICES ASSUME Obeyed, request.mustStop
             PROVE  Stands /\ Behaviours \subseteq {"STOP", "HOLD", "YIELD"}
  BY DEF StopMeansStop
<1>1. given \in Situations /\ Ready /\ told = Envelope(control)
  BY HowItEnded DEF Obeyed
<1>2. Accepted /\ request = Request(given) /\ WorkerFaults = {} /\ Planned
  BY <1>1 DEF Ready, Accepted, Compilable, Served, Planned, Requested
<1>3. Stands
  <2>1. request.allowed = {"STOP"}
    BY <1>1, <1>2, StopsAllowed
  <2>2. told = StandStill
    BY <1>1, <2>1, OnlyStopAllowed, OrdersToStand
  <2>3. QED BY <2>2 DEF Stands, StandStill
<1>4. Behaviours \subseteq {"STOP", "HOLD", "YIELD"}
  <2> DEFINE W == WorkerSetting(request, given.scene)
             B == {"STOP", "HOLD", "YIELD"}
  <2>1. W.mustStop
    BY DEF WorkerSetting
  <2> HIDE DEF W
  <2>2. ASSUME NEW i \in DOMAIN plan.steps PROVE plan.steps[i].behaviour \in B
    <3>1. "MUST_STOP_PROPULSION_FORBIDDEN" \notin WorkerFaults
      BY <1>2
    <3>2. "MUST_STOP_PROPULSION_FORBIDDEN" \notin StepFaults(plan.steps[i], W)
      BY <3>1, PlanFaultsAre DEF WorkerFaults, W
    <3>3. plan.steps[i].behaviour \notin Advancing
      BY <2>1, <3>2, FaultsAre
    <3>4. plan.steps[i].behaviour \in Codes
      BY <1>1, <1>2, AnswersArePlans DEF IsPlanned
    <3>5. QED BY <3>3, <3>4 DEF Advancing
  <2>3. B \in SUBSET (Codes \ Expanding)
    BY DEF Codes, Expanding
  <2> HIDE DEF B
  <2>4. Only(steps, B)
    BY <1>1, <1>2, <2>2, <2>3, AcceptedSteps
  <2>5. QED BY <2>4 DEF Only, Behaviours, B
<1>5. QED BY <1>3, <1>4

\* A command to be confirmed is answered by standing still.
LEMMA InvConfirmIsHeld ==
  ASSUME PipeInv
  PROVE  ConfirmIsHeld
PROOF
<1> SUFFICES ASSUME Obeyed, request.disposition = "CONFIRM_SAFE"
             PROVE  Stands /\ (given.backend = "vllm" => Behaviours \subseteq {"STOP", "HOLD"})
  BY DEF ConfirmIsHeld
<1>1. given \in Situations /\ Ready /\ told = Envelope(control)
  BY HowItEnded DEF Obeyed
<1>2. Accepted /\ request = Request(given) /\ Planned
  BY <1>1 DEF Ready, Accepted, Compilable, Served, Planned, Requested
<1>3. Stands
  <2>1. request.allowed = {"STOP"}
    BY <1>1, <1>2, StopsAllowed
  <2>2. told = StandStill
    BY <1>1, <2>1, OnlyStopAllowed, OrdersToStand
  <2>3. QED BY <2>2 DEF Stands, StandStill
<1>4. ASSUME given.backend = "vllm" PROVE Behaviours \subseteq {"STOP", "HOLD"}
  <2> DEFINE B == {"STOP", "HOLD"}
  <2>1. PICK token \in Offered(request) : plan.steps = Expanded(request, Chosen(request, token))
    BY <1>1, <1>2, <1>4, ModelPlan
  <2> DEFINE b == Chosen(request, token)
  <2>2. b \in B
    BY <1>1, <1>2, ChosenStops
  <2> HIDE DEF b
  <2>3. \A i \in DOMAIN plan.steps : IsStep(plan.steps[i], request, b)
    BY <2>1, ExpandedSteps DEF b
  <2>4. \A i \in DOMAIN plan.steps : plan.steps[i].behaviour = b
    BY <2>2, <2>3 DEF IsStep, Built
  <2>5. B \in SUBSET (Codes \ Expanding) /\ \A i \in DOMAIN plan.steps : plan.steps[i].behaviour \in B
    BY <2>2, <2>4 DEF Codes, Expanding
  <2> HIDE DEF B
  <2>6. Only(steps, B)
    BY <1>1, <1>2, <2>5, AcceptedSteps
  <2>7. QED BY <2>6 DEF Only, Behaviours, B
<1>5. QED BY <1>3, <1>4

\* Lane changes wait for their gap, and the way back leads to the lane left.
LEMMA InvLaneChangesAreGuarded ==
  ASSUME PipeInv
  PROVE  LaneChangesAreGuarded
PROOF
<1>1. steps # None => GapsWaited(steps) /\ WaysBack(steps)
  BY HowItEnded, AcceptedSteps
<1>2. GapBeforeLaneChange
  BY <1>1 DEF GapBeforeLaneChange, GapsWaited
<1>3. BackToOwnLane
  BY <1>1 DEF BackToOwnLane, WaysBack, Returns, Passes
<1>4. QED BY <1>2, <1>3 DEF LaneChangesAreGuarded

\* The limit both settings hold a request to.
LEMMA SettingLimits ==
  ASSUME NEW g \in Situations, NEW r, r = Request(g)
  PROVE  /\ ServiceSetting(r, MaxSpeed).limit = r.maxSpeed /\ WorkerSetting(r, g.scene).limit = r.maxSpeed
         /\ ServiceSetting(r, MaxSpeed).stale = FALSE /\ WorkerSetting(r, g.scene).stale = g.scene.stale
PROOF
<1>1. r.limit = g.scene.limit /\ r.maxSpeed = SpeedLimit(g.scene, MaxSpeed)
  BY RequestFields
<1>2. r.limit \in Nat \cup {None} /\ MaxSpeed \in Nat
  BY RequestTypes
<1>3. (IF r.limit = None THEN MaxSpeed ELSE Least(r.limit, MaxSpeed)) = r.maxSpeed
  BY <1>1, <1>2 DEF SpeedLimit, Least
<1>4. ServiceSetting(r, MaxSpeed).limit = (IF r.limit = None THEN MaxSpeed ELSE Least(r.limit, MaxSpeed))
  BY DEF ServiceSetting
<1>5. ServiceSetting(r, MaxSpeed).stale = FALSE
  BY DEF ServiceSetting
<1>6. WorkerSetting(r, g.scene).limit = r.maxSpeed /\ WorkerSetting(r, g.scene).stale = g.scene.stale
  BY DEF WorkerSetting
<1>7. QED BY <1>3, <1>4, <1>5, <1>6

\* A plan to stop has no fault but stale sensors.
LEMMA StopHasNoFault ==
  ASSUME NEW g \in Situations, NEW r, r = Request(g), NEW step, Built(step, r, "STOP", r.target, r.speed),
         NEW setting, setting.limit = r.maxSpeed
  PROVE  StepFaults(step, setting) = {}
PROOF
<1>1. r.maxSpeed \in Nat /\ r.speed \in Int \cup {None}
  BY RequestTypes
<1>2. "STOP" \in Codes
  BY DEF Codes
<1>3. StepFaults(step, setting) \cap FormFaults = {}
  BY <1>1, <1>2, BuiltWell
<1>4. step.behaviour = "STOP" /\ step.target = None /\ step.lane = "CURRENT" /\ step.pre \cap Facts = {}
  BY DEF Built, Bound, TargetBehaviours, Wheresoever
<1>5. SUFFICES ASSUME NEW f \in StepFaults(step, setting) PROVE FALSE
  OBVIOUS
<1>6. f \notin FormFaults
  BY <1>3
<1>7. f \notin EndingFaults(step)
  BY <1>6 DEF EndingFaults, FormFaults
<1>8. "STOP" \notin Advancing
  BY DEF Advancing
<1>9. QED BY <1>4, <1>5, <1>6, <1>7, <1>8, FaultsAre DEF FormFaults

\* How a command ended whose plan was built without an error.
LEMMA EndedPlanned ==
  ASSUME Ended, outcome # "MODEL_ERROR"
  PROVE  Planned
PROOF
<1>1. QED BY DEF Ended, Ready, Accepted, Compilable, Served

\* Where the vehicle must stop the production backend's plan comes through.
LEMMA InvStopIsNeverRefused ==
  ASSUME PipeInv
  PROVE  StopIsNeverRefused
PROOF
<1> SUFFICES ASSUME stage = "done", given.backend = "vllm", ~given.scene.stale,
                    request.mustStop \/ request.light = "RED"
             PROVE  Obeyed /\ told.intent = "STOP"
  BY DEF StopIsNeverRefused
<1> DEFINE P == plan.steps
           S == ServiceSetting(request, MaxSpeed)
           W == WorkerSetting(request, given.scene)
<1>1. given \in Situations /\ Ended
  BY DEF PipeInv
<1>2. request = Request(given)
  BY <1>1, EndedPlanned DEF Ended, Requested, Planned
<1>3. \A token \in Offered(request) : Chosen(request, token) = "STOP" /\ ~PlannerFails(request, token)
  BY <1>1, <1>2, ChosenStops
<1>4. outcome # "MODEL_ERROR"
  BY <1>1, <1>3 DEF Ended
<1>5. Planned
  BY <1>1, <1>4, EndedPlanned
<1>6. P = Expanded(request, "STOP") /\ plan.sure = TRUE /\ plan.confirm = FALSE
  BY <1>1, <1>3, <1>5, ModelPlan
<1>7. /\ IsList(P) /\ Len(P) >= 1 /\ DOMAIN P = 1..Len(P)
      /\ \A i \in DOMAIN P : Built(P[i], request, "STOP", request.target, request.speed)
  BY <1>6, ExpandedSteps DEF IsStep
<1> HIDE DEF P, S, W
<1>8. \A i \in DOMAIN P : StepFaults(P[i], S) = {} /\ StepFaults(P[i], W) = {}
  <2>1. S.limit = request.maxSpeed /\ W.limit = request.maxSpeed
    BY <1>1, <1>2, SettingLimits DEF S, W
  <2>2. QED BY <1>1, <1>2, <1>7, <2>1, StopHasNoFault
<1>9. ServiceFaults = {} /\ WorkerFaults = {}
  <2>1. S.stale = FALSE /\ ~W.stale
    BY <1>1, <1>2, SettingLimits DEF S, W
  <2>2. ASSUME NEW f, f \in PlanFaults(plan, S, TRUE) PROVE FALSE
    BY <1>8, <2>1, <2>2, PlanFaultsAre DEF P
  <2>3. ASSUME NEW f, f \in PlanFaults(plan, W, FALSE) PROVE FALSE
    BY <1>6, <1>8, <2>1, <2>3, PlanFaultsAre DEF P
  <2>4. QED BY <2>2, <2>3 DEF ServiceFaults, WorkerFaults, S, W
<1>10. \A i \in DOMAIN P : P[i].behaviour = "STOP"
  BY <1>7 DEF Built
<1>11. Compiled(P, request.road).ok
  <2>1. IsPlanned(P)
    BY <1>7, <1>10 DEF IsPlanned, Codes
  <2>2. Compiling(Compiled(P, request.road), P, Len(P), request.road)
    BY <2>1, CompiledPlan
  <2>3. Answered(P, Len(P), request.road)
    BY <1>7, <1>10 DEF Answered
  <2>4. QED BY <2>2, <2>3 DEF Compiling, Complete
<1>12. ASSUME Accepted
       PROVE  PlanControl(steps[1], request).behaviour = "STOP"
  <2>1. steps[1] = Opening(P[1], request.road)
    BY <1>1, <1>12, AcceptedSteps DEF P
  <2>2. P[1].behaviour = "STOP"
    BY <1>7, <1>10
  <2>3. steps[1].behaviour = "STOP"
    BY <2>1, <2>2 DEF Opening, Copy
  <2>4. QED BY <2>3 DEF PlanControl
<1>13. ASSUME Ready PROVE control.behaviour = "STOP" /\ Envelope(control) = StandStill
  BY <1>12, <1>13, OrdersToStand DEF Ready
<1>14. StandStill # None
  BY OrdersAreSomething DEF StandStill, Configured
<1>15. Obeyed /\ told = Envelope(control) /\ Ready
  BY <1>1, <1>4, <1>9, <1>11, <1>12, <1>13, <1>14 DEF Ended, Obeyed, Forbidden, P
<1>16. QED BY <1>13, <1>15 DEF StandStill

\* The worker finds no more than the service, except stale sensors and a question.
LEMMA InvServiceAndWorkerAgree ==
  ASSUME PipeInv
  PROVE  ServiceAndWorkerAgree
PROOF
<1> SUFFICES ASSUME outcome = "QWEN_PLAN_REJECTED", NEW f \in faults
             PROVE  f \in {"PERCEPTION_STALE", "PLAN_CONFIRMATION_REQUIRED"}
  BY DEF ServiceAndWorkerAgree
<1>1. given \in Situations /\ Ended
  BY HowItEnded
<1>2. Served /\ faults = WorkerFaults
  BY <1>1 DEF Ended
<1>3. request = Request(given) /\ ServiceFaults = {}
  BY <1>2 DEF Served, Planned, Requested
<1>4. \A i \in DOMAIN plan.steps : StepFaults(plan.steps[i], ServiceSetting(request, MaxSpeed)) = {}
  <2>1. ASSUME NEW i \in DOMAIN plan.steps,
               NEW e \in StepFaults(plan.steps[i], ServiceSetting(request, MaxSpeed))
        PROVE  FALSE
    <3>1. e \in ServiceFaults
      BY <2>1, PlanFaultsAre DEF ServiceFaults
    <3>2. QED BY <1>3, <3>1
  <2>2. QED BY <2>1
<1>5. \A i \in DOMAIN plan.steps : StepFaults(plan.steps[i], WorkerSetting(request, given.scene)) = {}
  BY <1>1, <1>3, <1>4, SettingsAgree
<1>6. f \in PlanFaults(plan, WorkerSetting(request, given.scene), FALSE)
  BY <1>2 DEF WorkerFaults
<1>7. \/ f = "PLAN_CONFIRMATION_REQUIRED" \/ f = "PERCEPTION_STALE"
      \/ \E i \in DOMAIN plan.steps : f \in StepFaults(plan.steps[i], WorkerSetting(request, given.scene))
  BY <1>6, PlanFaultsAre
<1>8. QED BY <1>5, <1>7

\* A clear intent is carried out, on the side it names.
LEMMA InvIntentKept ==
  ASSUME PipeInv
  PROVE  IntentKept
PROOF
<1> SUFFICES ASSUME Obeyed, given.backend = "vllm", ~request.mustStop, request.light # "RED",
                    request.disposition = "QWEN_PLAN", request.intent \in Configured,
                    request.risk # "EMERGENCY"
             PROVE  /\ \E i \in DOMAIN plan.steps : Unsided(plan.steps[i].behaviour) = request.intent
                    /\ request.direction \in Directions =>
                         \A i \in DOMAIN steps : steps[i].lane # "CURRENT" =>
                           Side(steps[i].behaviour) \in {None, request.direction}
  BY DEF IntentKept
<1>1. given \in Situations /\ Ready
  BY HowItEnded DEF Obeyed
<1>2. Accepted /\ request = Request(given) /\ Planned
  BY <1>1 DEF Ready, Accepted, Compilable, Served, Planned, Requested
<1>3. PICK token \in Offered(request) : plan.steps = Expanded(request, Chosen(request, token))
  BY <1>1, <1>2, ModelPlan
<1> DEFINE b == Chosen(request, token)
<1>4. Follows(request, b)
  BY <1>1, <1>2, ChosenForIntent
<1> HIDE DEF b
<1>5. \E i \in DOMAIN plan.steps : plan.steps[i].behaviour = b
  BY <1>3, ExpandedSteps DEF b
<1>6. \E i \in DOMAIN plan.steps : Unsided(plan.steps[i].behaviour) = request.intent
  BY <1>4, <1>5 DEF Follows
<1>7. ASSUME request.direction \in Directions
      PROVE  Sided(steps, request.direction)
  <2> DEFINE d == request.direction
  <2>1. ASSUME NEW i \in DOMAIN plan.steps PROVE Meets(plan.steps[i], d)
    <3>1. IsStep(plan.steps[i], request, b)
      BY <1>3, ExpandedSteps DEF b
    <3>2. CASE Built(plan.steps[i], request, b, request.target, request.speed)
      <4>1. plan.steps[i].behaviour = b /\ plan.steps[i].lane = Wheresoever(request, b)
        BY <3>2 DEF Built
      <4>2. Side(b) \in {None, d}
        BY <1>4, <1>7 DEF Follows
      <4>3. b = "AVOID_OBSTACLE" => Wheresoever(request, b) = Adjacent(d)
        BY <1>7 DEF Wheresoever
      <4>4. QED BY <4>1, <4>2, <4>3 DEF Meets
    <3>3. CASE plan.steps[i].behaviour \in {"YIELD", "RETURN_TO_LANE", "KEEP_LANE"}
      BY <3>3 DEF Meets, Side
    <3>4. QED BY <3>1, <3>2, <3>3 DEF IsStep, Built
  <2>2. QED BY <1>1, <1>2, <1>7, <2>1, AcceptedSteps
<1>8. QED BY <1>6, <1>7 DEF Sided

\* The parameters a command needs are there.
Stated(r) == r.intent \in Configured /\ (r.intent = "SET_SPEED" => r.speed # None)

\* The form of no step of the plan is a fault.
LEMMA PlanFormed ==
  ASSUME NEW g \in Situations, NEW r, r = Request(g), NEW b \in Codes,
         b \in {"STOP", "HOLD"} \/ Follows(r, b), Stated(r), NEW setting, setting.limit = r.maxSpeed,
         NEW step, IsStep(step, r, b)
  PROVE  StepFaults(step, setting) \cap FormFaults = {}
PROOF
<1>1. r.maxSpeed \in Nat /\ r.speed \in Int \cup {None}
  BY RequestTypes
<1>2. {"YIELD", "RETURN_TO_LANE", "KEEP_LANE"} \subseteq Codes
  BY DEF Codes
<1>3. CASE Built(step, r, b, r.target, r.speed)
  <2>1. b = "SET_SPEED" => r.speed # None
    BY DEF Follows, Stated, Unsided
  <2>2. QED BY <1>1, <1>3, <2>1, BuiltWell
<1>4. CASE Built(step, r, "YIELD", Walker(r), r.speed)
  BY <1>1, <1>2, <1>4, BuiltWell
<1>5. CASE Built(step, r, "RETURN_TO_LANE", r.target, r.speed)
  BY <1>1, <1>2, <1>5, BuiltWell
<1>6. CASE Built(step, r, "KEEP_LANE", None, Cruise(r))
  <2>1. Cruise(r) \in Int
    BY <1>1 DEF Cruise
  <2>2. QED BY <1>1, <1>2, <1>6, <2>1, BuiltWell
<1>7. QED BY <1>3, <1>4, <1>5, <1>6 DEF IsStep

\* The order made of a first step that is copied.
LEMMA CopiedOrder ==
  ASSUME NEW r, r.maxSpeed \in Nat, NEW step, step.behaviour \in Codes \ Expanding, step.speed \in Int
  PROVE  /\ PlanControl(Copy(step), r).behaviour = step.behaviour
         /\ Envelope(PlanControl(Copy(step), r)) # None
PROOF
<1> DEFINE order == PlanControl(Copy(step), r)
<1>1. Copy(step).behaviour = step.behaviour /\ Copy(step).speed = step.speed
  BY DEF Copy
<1>2. step.speed # None
  BY Names
<1>3. order.behaviour = step.behaviour /\ order.speed = Least(step.speed, r.maxSpeed)
  <2>1. step.behaviour \notin {"WAIT_SAFE_GAP", "PASS_TARGET"}
    BY DEF Codes
  <2>2. QED BY <1>1, <1>2, <2>1 DEF PlanControl
<1>4. order.speed \in Int /\ order.speed # None
  BY <1>3, Names DEF Least
<1> HIDE DEF order
<1>5. step.behaviour \in {"KEEP_LANE", "SET_SPEED", "SLOW_DOWN", "STOP", "YIELD", "FOLLOW", "TURN_LEFT",
                          "TURN_RIGHT", "PULL_OVER", "HOLD"}
  BY DEF Codes, Expanding
<1>6. \E intent \in Configured, speed \in Int \cup {None}, side \in Directions \cup {None} :
        Envelope(order) = [intent |-> intent, speed |-> speed, direction |-> side]
  <2>1. CASE step.behaviour \in {"SET_SPEED", "SLOW_DOWN", "YIELD"}
    <3>1. Envelope(order) = [intent |-> IF step.behaviour = "SET_SPEED" THEN "SET_SPEED" ELSE "SLOW_DOWN",
                             speed |-> order.speed, direction |-> None]
      BY <1>3, <1>4, <2>1 DEF Envelope
    <3>2. (IF step.behaviour = "SET_SPEED" THEN "SET_SPEED" ELSE "SLOW_DOWN") \in Configured
      BY DEF Configured
    <3>3. QED BY <1>4, <3>1, <3>2
  <2>2. CASE step.behaviour = "FOLLOW"
    <3>1. Envelope(order) = [intent |-> "SLOW_DOWN", speed |-> order.speed, direction |-> None]
      BY <1>3, <1>4, <2>2 DEF Envelope
    <3>2. "SLOW_DOWN" \in Configured
      BY DEF Configured
    <3>3. QED BY <1>4, <3>1, <3>2
  <2>3. CASE step.behaviour \in {"STOP", "HOLD"}
    <3>1. Envelope(order) = [intent |-> "STOP", speed |-> None, direction |-> None]
      BY <1>3, <2>3 DEF Envelope
    <3>2. "STOP" \in Configured
      BY DEF Configured
    <3>3. QED BY <3>1, <3>2
  <2>4. CASE step.behaviour \in {"KEEP_LANE", "PULL_OVER"}
    <3>1. Envelope(order) = [intent |-> step.behaviour, speed |-> None, direction |-> None]
      BY <1>3, <2>4 DEF Envelope
    <3>2. step.behaviour \in Configured
      BY <2>4 DEF Configured
    <3>3. QED BY <3>1, <3>2
  <2>5. CASE step.behaviour \in {"TURN_LEFT", "TURN_RIGHT"}
    <3>1. Envelope(order) = [intent |-> "TURN", speed |-> None, direction |-> Side(step.behaviour)]
      BY <1>3, <2>5 DEF Envelope, Unsided
    <3>2. "TURN" \in Configured /\ Side(step.behaviour) \in Directions \cup {None}
      BY <2>5, Sides DEF Configured
    <3>3. QED BY <3>1, <3>2
  <2>6. QED BY <1>5, <2>1, <2>2, <2>3, <2>4, <2>5
<1>7. Envelope(order) # None
  BY <1>6, OrdersAreSomething
<1>8. QED BY <1>3, <1>7 DEF order

\* The first order of the production backend's plan is allowed, and the vehicle can execute it.
LEMMA FirstOrder ==
  ASSUME NEW g \in Situations, NEW r, r = Request(g), NEW b \in Codes,
         b \in {"STOP", "HOLD"} \/ Follows(r, b), Stated(r),
         NEW first,
         \/ Built(first, r, b, r.target, r.speed)
         \/ b = "AVOID_OBSTACLE" /\ "pedestrian" \in r.words /\ Built(first, r, "YIELD", Walker(r), r.speed),
         NEW road
  PROVE  /\ ~Forbidden(r, PlanControl(Opening(first, road), r).behaviour)
         /\ Envelope(PlanControl(Opening(first, road), r)) # None
PROOF
<1> DEFINE o == Opening(first, road)
           order == PlanControl(o, r)
<1>1. r.maxSpeed \in Nat /\ r.speed \in Int \cup {None}
  BY RequestTypes
<1>2. StandStill # None
  BY OrdersAreSomething DEF StandStill, Configured
<1>3. Follows(r, b) => ~r.mustStop /\ r.disposition # "CONFIRM_SAFE" /\ Unsided(b) = r.intent
  BY DEF Follows
<1>4. first.speed \in Int
  <2>1. CASE Built(first, r, b, r.target, r.speed)
    <3>1. b = "SET_SPEED" => r.speed # None
      BY DEF Follows, Stated, Unsided
    <3>2. Pace(r, b, r.speed) \in Int
      BY <1>1, <3>1, PaceBounds
    <3>3. QED BY <2>1, <3>2 DEF Built
  <2>2. CASE Built(first, r, "YIELD", Walker(r), r.speed)
    <3>1. Pace(r, "YIELD", r.speed) \in Int
      BY <1>1, PaceBounds
    <3>2. QED BY <2>2, <3>1 DEF Built
  <2>3. QED BY <2>1, <2>2
<1>5. CASE first.behaviour = "AVOID_OBSTACLE"
  <2>1. b = "AVOID_OBSTACLE" /\ Follows(r, b)
    BY <1>5 DEF Built
  <2>2. "SLOW_DOWN" \in r.allowed
    <3>1. r.intent = "AVOID_OBSTACLE"
      BY <1>3, <2>1 DEF Unsided
    <3>2. QED BY <1>3, <2>1, <3>1, IntentAllowed DEF Stated
  <2>3. o = CompileAvoid(first, AvoidSide(first, road))[1]
    BY <1>5 DEF Opening
  <2>4. o.behaviour = "SLOW_DOWN" /\ o.speed \in Int
    <3>1. o.behaviour = "SLOW_DOWN" /\ o.speed = IF first.speed = None THEN 3 ELSE first.speed
      BY <2>3 DEF CompileAvoid, Copy
    <3>2. QED BY <1>4, <3>1
  <2> HIDE DEF o
  <2>5. order.behaviour = "SLOW_DOWN" /\ order.speed = Least(o.speed, r.maxSpeed)
    BY <2>4, Names DEF PlanControl
  <2>6. order.speed \in Int /\ order.speed # None
    BY <1>1, <2>4, <2>5, Names DEF Least
  <2> HIDE DEF order
  <2>7. Envelope(order) = [intent |-> "SLOW_DOWN", speed |-> order.speed, direction |-> None]
    BY <2>5, <2>6 DEF Envelope
  <2>8. Envelope(order) # None
    BY <2>6, <2>7, OrdersAreSomething DEF Configured
  <2>9. ~Forbidden(r, order.behaviour)
    BY <2>2, <2>5 DEF Forbidden, Permits
  <2>10. QED BY <2>8, <2>9 DEF order, o
<1>6. CASE first.behaviour \in {"CHANGE_LANE_LEFT", "CHANGE_LANE_RIGHT"}
  <2>1. o = CompileChange(first)[1]
    BY <1>6 DEF Opening
  <2>2. o.behaviour = "WAIT_SAFE_GAP"
    BY <2>1 DEF CompileChange, Copy
  <2> HIDE DEF o
  <2>3. order.behaviour = "HOLD"
    BY <2>2 DEF PlanControl
  <2> HIDE DEF order
  <2>4. Envelope(order) = StandStill
    BY <2>3 DEF Envelope, StandStill
  <2>5. QED BY <1>2, <2>3, <2>4 DEF Forbidden, order, o
<1>7. CASE first.behaviour \notin {"AVOID_OBSTACLE", "CHANGE_LANE_LEFT", "CHANGE_LANE_RIGHT"}
  <2>1. o = Copy(first)
    BY <1>7 DEF Opening
  <2>2. first.behaviour \in Codes /\ first.behaviour # "RETURN_TO_LANE"
        /\ (first.behaviour \in {"STOP", "HOLD"} \/ Permits(r, first.behaviour))
    <3>1. CASE Built(first, r, b, r.target, r.speed)
      <4>1. first.behaviour = b
        BY <3>1 DEF Built
      <4>2. b # "RETURN_TO_LANE"
        BY <1>3, IntentAllowed DEF Unsided, Stated
      <4>3. QED BY <4>1, <4>2 DEF Follows
    <3>2. CASE b = "AVOID_OBSTACLE" /\ "pedestrian" \in r.words /\ Built(first, r, "YIELD", Walker(r), r.speed)
      <4>1. first.behaviour = "YIELD" /\ "YIELD" \in Codes
        BY <3>2 DEF Built, Codes
      <4>2. r.intent = "AVOID_OBSTACLE" /\ Follows(r, b)
        BY <1>3, <3>2 DEF Unsided
      <4>3. "YIELD" \in r.allowed
        BY <1>3, <3>2, <4>2, IntentAllowed DEF Stated
      <4>4. QED BY <4>1, <4>3 DEF Permits
    <3>3. QED BY <3>1, <3>2
  <2>3. first.behaviour \in Codes \ Expanding
    BY <1>7, <2>2 DEF Expanding
  <2>4. PlanControl(Copy(first), r).behaviour = first.behaviour /\ Envelope(PlanControl(Copy(first), r)) # None
    BY <1>1, <1>4, <2>3, CopiedOrder
  <2>5. QED BY <2>1, <2>2, <2>4 DEF Forbidden
<1>8. QED BY <1>5, <1>6, <1>7

\* The plan of a clear command is refused for the scene alone.
LEMMA InvFormNeverRefused ==
  ASSUME PipeInv
  PROVE  FormNeverRefused
PROOF
<1> DEFINE bad == {"MODEL_ERROR", "QWEN_PLAN_INFEASIBLE", "QWEN_BEHAVIOR_UNSUPPORTED"}
           P == plan.steps
<1> SUFFICES ASSUME given.backend = "vllm", given.command.intent \in Configured, ParametersComplete(given.command)
             PROVE  /\ outcome \notin bad
                    /\ faults \cap FormFaults = {}
                    /\ "NO_DIRECTION" \in faults => ~request.road.left /\ ~request.road.right
  BY DEF FormNeverRefused, FormFaults
<1>1. CASE stage # "done"
  <2>1. outcome = None /\ faults = {}
    BY <1>1 DEF PipeInv
  <2>2. None \notin bad
    BY NoneApart DEF Reasons
  <2>3. QED BY <2>1, <2>2
<1>2. CASE stage = "done"
  <2>1. given \in Situations /\ Ended
    BY <1>2 DEF PipeInv
  <2>2. request = Request(given)
    BY <2>1, EndedPlanned DEF Ended, Requested, Planned
  <2>3. request.intent = given.command.intent /\ request.speed = given.command.speed
    BY <2>1, <2>2, RequestFields
  <2>4. Stated(request)
    BY <2>3 DEF Stated, ParametersComplete
  <2>5. \A token \in Offered(request) :
          /\ ~PlannerFails(request, token) /\ Chosen(request, token) \in Codes
          /\ Chosen(request, token) \in {"STOP", "HOLD"} \/ Follows(request, Chosen(request, token))
    BY <2>1, <2>2, <2>4, ChosenForIntent, ChosenCode DEF Stated
  <2>6. outcome # "MODEL_ERROR"
    BY <2>1, <2>5 DEF Ended
  <2>7. Planned
    BY <2>1, <2>6, EndedPlanned
  <2>8. PICK token \in Offered(request) : P = Expanded(request, Chosen(request, token))
    BY <2>1, <2>7, ModelPlan
  <2> DEFINE b == Chosen(request, token)
  <2>9. b \in Codes /\ (b \in {"STOP", "HOLD"} \/ Follows(request, b))
    BY <2>5
  <2>10. /\ Len(P) >= 1 /\ DOMAIN P = 1..Len(P) /\ \A i \in DOMAIN P : IsStep(P[i], request, b)
         /\ \/ Built(P[1], request, b, request.target, request.speed)
            \/ /\ b = "AVOID_OBSTACLE" /\ "pedestrian" \in request.words
               /\ Built(P[1], request, "YIELD", Walker(request), request.speed)
         /\ \A i \in DOMAIN P : P[i].behaviour = "RETURN_TO_LANE" =>
              b = "RETURN_TO_LANE" \/ (i > 1 /\ P[i - 1].behaviour = "AVOID_OBSTACLE")
    BY <2>8, ExpandedSteps
  <2> HIDE DEF b, P
  <2>11. \A setting : setting.limit = request.maxSpeed =>
           \A i \in DOMAIN P : StepFaults(P[i], setting) \cap FormFaults = {}
    BY <2>1, <2>2, <2>4, <2>9, <2>10, PlanFormed
  <2>12. \A f \in FormFaults \cup {"NO_DIRECTION"} : f \notin ServiceFaults /\ f \notin WorkerFaults
    <3>1. ASSUME NEW setting, setting.limit = request.maxSpeed, NEW mayAsk,
                 NEW f \in FormFaults \cup {"NO_DIRECTION"}, f \in PlanFaults(plan, setting, mayAsk)
          PROVE  FALSE
      <4>1. PICK i \in DOMAIN P : f \in StepFaults(P[i], setting)
        <5>1. f # "PLAN_CONFIRMATION_REQUIRED" /\ f # "PERCEPTION_STALE"
          BY DEF FormFaults
        <5>2. QED BY <3>1, <5>1, PlanFaultsAre DEF P
      <4>2. f \notin FormFaults
        BY <2>11, <3>1, <4>1
      <4>3. f = "NO_DIRECTION"
        BY <4>2
      <4>4. f \notin EndingFaults(P[i])
        BY <4>3 DEF EndingFaults
      <4>5. QED BY <4>1, <4>3, <4>4, FaultsAre
    <3>2. /\ ServiceSetting(request, MaxSpeed).limit = request.maxSpeed
          /\ WorkerSetting(request, given.scene).limit = request.maxSpeed
      BY <2>1, <2>2, SettingLimits
    <3>3. QED BY <3>1, <3>2 DEF ServiceFaults, WorkerFaults
  <2>13. ASSUME Accepted
         PROVE  /\ ~Forbidden(request, PlanControl(steps[1], request).behaviour)
                /\ Envelope(PlanControl(steps[1], request)) # None
    <3>1. steps[1] = Opening(P[1], request.road)
      BY <2>1, <2>13, AcceptedSteps DEF P
    <3>2. QED BY <2>1, <2>2, <2>4, <2>9, <2>10, <3>1, FirstOrder
  <2>14. Ready => Envelope(control) # None
    BY <2>13 DEF Ready
  <2>15. ASSUME ~Compiled(P, request.road).ok
         PROVE  ~request.road.left /\ ~request.road.right
    <3>1. IsPlanned(P) /\ Len(P) \in Nat
      BY <2>1, <2>7, AnswersArePlans, ListDomain DEF IsPlanned, P
    <3>2. Compiling(Compiled(P, request.road), P, Len(P), request.road)
      BY <3>1, CompiledPlan
    <3>3. ~Answered(P, Len(P), request.road)
      BY <2>15, <3>2 DEF Compiling, Complete
    <3>4. b # "RETURN_TO_LANE"
      BY <2>1, <2>2, <2>4, <2>9, IntentAllowed DEF Follows, Stated, Unsided
    <3>5. PICK i \in DOMAIN P : AvoidSide(P[i], request.road) = None
      BY <2>10, <3>3, <3>4 DEF Answered
    <3>6. ~(request.road.observed /\ request.road.left) /\ ~(request.road.observed /\ request.road.right)
      BY <3>5, Names DEF AvoidSide
    <3>7. QED BY <2>1, <2>2, <3>6, RequestTypes
  <2>16. outcome \notin bad
    BY <2>1, <2>6, <2>13, <2>14 DEF Ended
  <2>17. faults \cap FormFaults = {}
    <3>1. "NO_DIRECTION" \notin FormFaults /\ "NOT_ALLOWED" \notin FormFaults
      BY DEF FormFaults
    <3>2. faults \in {{}, ServiceFaults, WorkerFaults, {"NO_DIRECTION"}, {"NOT_ALLOWED"}}
      BY <2>1 DEF Ended
    <3>3. QED BY <2>12, <3>1, <3>2
  <2>18. "NO_DIRECTION" \in faults => ~request.road.left /\ ~request.road.right
    BY <2>1, <2>12, <2>15 DEF Ended, P
  <2>19. QED BY <2>16, <2>17, <2>18
<1>3. QED BY <1>1, <1>2

\* A stop, a question and a red light are never turned into driving or lost.
THEOREM StopsAreObeyedCorrect == PipeSpec => []StopsAreObeyed
PROOF
<1>1. PipeInv => StopsAreObeyed
  BY InvStopMeansStop, InvConfirmIsHeld, InvStopIsNeverRefused DEF StopsAreObeyed
<1>2. QED BY <1>1, PipeInvCorrect, PTL

\* The vehicle leaves its lane only behind a gap and comes back to the side it came from.
THEOREM LaneChangesAreGuardedCorrect == PipeSpec => []LaneChangesAreGuarded
PROOF
<1>1. PipeInv => LaneChangesAreGuarded
  BY InvLaneChangesAreGuarded
<1>2. QED BY <1>1, PipeInvCorrect, PTL

\* Only the scene refuses a clear command.
THEOREM RefusedForTheSceneCorrect == PipeSpec => []RefusedForTheScene
PROOF
<1>1. PipeInv => RefusedForTheScene
  BY InvFormNeverRefused, InvServiceAndWorkerAgree DEF RefusedForTheScene
<1>2. QED BY <1>1, PipeInvCorrect, PTL

\* A clear intent is carried out, to the side that was named.
THEOREM IntentKeptCorrect == PipeSpec => []IntentKept
PROOF
<1>1. PipeInv => IntentKept
  BY InvIntentKept
<1>2. QED BY <1>1, PipeInvCorrect, PTL

=============================================================================
