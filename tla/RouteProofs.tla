---------------------------- MODULE RouteProofs ----------------------------
(***************************************************************************)
(* Theorems about the route: leaving it and getting a new one                *)
(* (RouteRecovery), the ego's place on it (RouteProgress), the forks a route *)
(* made to cover a distance takes (RouteCoverage), and the search for it and *)
(* the samples it is put together of (RoutePlanning); for every map, marking, *)
(* route and limit the assumptions of those modules admit.                   *)
(***************************************************************************)
EXTENDS RouteCoverage, TLAPS, SequenceTheorems, FiniteSetTheorems, WellFoundedInduction

LEMMA NoneIsNoNumber == None \notin Nat /\ None \notin Int /\ None \notin Edges
PROOF
<1> QED
  BY PlanningAssumption

-----------------------------------------------------------------------------
(* Leaving the route and getting a new one.                                *)

Statuses == {"ON_ROUTE", "DESTINATION_REACHED", "RECOVERY_SUPPRESSED", "REPLANNING"} \cup HoldStatus

\* Time off the route is counted from no earlier than the ego left it, and the
\* tracker gives up for good.
RecoveryInv ==
  /\ time \in Nat /\ attempts \in Nat /\ requested \in Nat /\ routeSpeed \in Nat
  /\ origin \in Nat /\ along \in Nat
  /\ offSince \in Nat \cup {None} /\ lastAttempt \in Nat \cup {None} /\ astray \in Nat \cup {None}
  /\ offSince # None => astray # None /\ astray <= offSince
  /\ astray # None => astray <= time
  /\ gaveUp => attempts >= MaxAttempts
  /\ StrayIsHeld

\* What RouteRecoveryTracker.observe says of a frame off the route.
LEMMA DecisionFacts ==
  ASSUME NEW place \in {"on", "off", "there"}, attempts \in Nat
  PROVE  /\ place = "off" /\ ~manoeuvre => Decision(place) \in HoldStatus
         /\ Decision(place) \in HoldStatus => place = "off" /\ ~manoeuvre
         /\ Decision(place) = "REPLANNING" => ~Confirming /\ ~(attempts >= MaxAttempts) /\ ~Cooling
PROOF
<1>1. CASE place = "there"
  BY <1>1 DEF Decision, HoldStatus
<1>2. CASE place = "on"
  BY <1>2 DEF Decision, HoldStatus
<1>3. CASE place = "off" /\ manoeuvre
  BY <1>3 DEF Decision, HoldStatus
<1>4. CASE place = "off" /\ ~manoeuvre /\ Confirming
  BY <1>4 DEF Decision, HoldStatus
<1>5. CASE place = "off" /\ ~manoeuvre /\ ~Confirming /\ attempts >= MaxAttempts
  BY <1>5 DEF Decision, HoldStatus
<1>0. (attempts < MaxAttempts) <=> ~(attempts >= MaxAttempts)
  BY RecoveryAssumption
<1>6. CASE place = "off" /\ ~manoeuvre /\ ~Confirming /\ attempts < MaxAttempts /\ Cooling
  BY <1>0, <1>6 DEF Decision, HoldStatus
<1>7. CASE place = "off" /\ ~manoeuvre /\ ~Confirming /\ ~(attempts >= MaxAttempts) /\ ~Cooling
  BY <1>0, <1>7 DEF Decision, HoldStatus
<1> QED
  BY <1>0, <1>1, <1>2, <1>3, <1>4, <1>5, <1>6, <1>7

LEMMA RecoveryInvInit ==
  ASSUME RecoveryInit
  PROVE  RecoveryInv
PROOF
<1>1. requested \in Nat
  BY RecoveryAssumption DEF RecoveryInit
<1> QED
  BY <1>1 DEF RecoveryInit, RecoveryInv, StrayIsHeld

\* A frame of the routing part keeps the invariant, and what it promises.
LEMMA RouteFrameKeeps ==
  ASSUME RecoveryInv, NEW place \in {"on", "off", "there"}, NEW moved \in 0..1, NEW planned \in BOOLEAN,
         RouteFrame(place, moved, planned)
  PROVE  RecoveryInv' /\ ReplansAreEarned /\ DistanceKept /\ OthersStay
PROOF
<1> DEFINE status == Decision(place)
           s == along + moved
           strays == place = "off" /\ ~manoeuvre
<1>1. /\ status \in HoldStatus <=> strays
      /\ status = "REPLANNING" => ~Confirming /\ ~(attempts >= MaxAttempts) /\ ~Cooling
  BY DecisionFacts DEF RecoveryInv
<1>2. /\ turn' = "runtime" /\ time' = time /\ recovery' = status
      /\ astray' = IF strays THEN (IF astray = None THEN time ELSE astray) ELSE None
  BY DEF RouteFrame, Track
<1>3. /\ attempts' = IF status = "REPLANNING" THEN attempts + 1 ELSE attempts
      /\ lastAttempt' = IF status = "REPLANNING" THEN time ELSE lastAttempt
  BY DEF RouteFrame, Track
<1>4. offSince' = None \/ (strays /\ offSince' = IF offSince = None THEN time ELSE offSince)
  BY <1>1 DEF RouteFrame, Track, HoldStatus
<1>5. "REPLANNING" \in HoldStatus
  BY DEF HoldStatus
<1>6. status = "REPLANNING" => /\ strays /\ attempts' <= MaxAttempts
                               /\ astray' # None /\ time - astray' >= Confirmation
                               /\ lastAttempt # None => time - lastAttempt >= Cooldown
  BY <1>1, <1>2, <1>3, <1>5, RecoveryAssumption, NoneIsNoNumber DEF RecoveryInv, Confirming, Cooling
<1>7. CASE status = "REPLANNING" /\ planned
  <2>1. Replanned(s) /\ s \in Nat
    BY <1>7 DEF RouteFrame, RecoveryInv
  <2>2. /\ held' = FALSE /\ origin' = origin + s /\ along' = 0 /\ gaveUp' = gaveUp
        /\ requested' \in Nat /\ routeSpeed' \in Nat /\ latched' = latched \ {"LATERAL"}
    BY <2>1 DEF Replanned, RecoveryInv, Faster
  <2>3. ~gaveUp
    BY <1>1, <1>7 DEF RecoveryInv
  <2> QED
    BY <1>2, <1>3, <1>4, <1>6, <1>7, <2>1, <2>2, <2>3
    DEF RecoveryInv, ReplansAreEarned, DistanceKept, OthersStay, StrayIsHeld, Progress
<1>8. CASE status = "REPLANNING" /\ ~planned
  <2>1. ReplanFailed(s) /\ s \in Nat
    BY <1>8 DEF RouteFrame, RecoveryInv
  <2>2. /\ held' = TRUE /\ origin' = origin /\ along' = s /\ latched' = latched
        /\ requested' \in Nat /\ routeSpeed' \in Nat
        /\ gaveUp' => gaveUp \/ attempts + 1 >= MaxAttempts
        /\ gaveUp' => requested' = 0
    BY <2>1 DEF ReplanFailed, RecoveryInv, StrayIsHeld
  <2>3. gaveUp' => attempts' >= MaxAttempts
    BY <1>3, <1>8, <2>2, RecoveryAssumption DEF RecoveryInv
  <2> QED
    BY <1>2, <1>3, <1>4, <1>6, <1>8, <2>1, <2>2, <2>3
    DEF RecoveryInv, ReplansAreEarned, DistanceKept, OthersStay, StrayIsHeld, Progress
<1>9. CASE status # "REPLANNING"
  <2>1. /\ held' = (status \in HoldStatus) /\ along' = s
        /\ UNCHANGED <<origin, requested, routeSpeed, latched, gaveUp>>
    BY <1>9 DEF RouteFrame
  <2>2. s \in Nat /\ s >= along
    BY DEF RecoveryInv
  <2>3. astray' # None => held'
    BY <1>1, <1>2, <2>1
  <2> QED
    BY <1>2, <1>3, <1>4, <1>9, <2>1, <2>2, <2>3
    DEF RecoveryInv, ReplansAreEarned, DistanceKept, OthersStay, StrayIsHeld, Progress
<1> QED
  BY <1>7, <1>8, <1>9

\* So does what the runtime does between two frames.
LEMMA RuntimeFrameKeeps ==
  ASSUME RecoveryInv, RuntimeFrame
  PROVE  RecoveryInv' /\ ReplansAreEarned /\ DistanceKept /\ OthersStay
PROOF
<1>1. /\ turn' = "route" /\ time' = time + 1 /\ time' \in Nat /\ time <= time'
      /\ UNCHANGED <<offSince, lastAttempt, attempts, recovery, held, origin, along, astray>>
  BY DEF RuntimeFrame, RecoveryInv
<1>2. /\ requested' \in Nat /\ routeSpeed' \in Nat
      /\ gaveUp' => gaveUp /\ requested' = 0
      /\ latched \subseteq latched'
  <2>1. ASSUME NEW speed \in Orders, NEW p \in BOOLEAN, Admit(speed, p)
        PROVE  /\ requested' \in Nat /\ routeSpeed' \in Nat
               /\ gaveUp' => gaveUp /\ requested' = 0
               /\ latched \subseteq latched'
    BY <2>1, RecoveryAssumption DEF Admit
  <2>2. CASE Complete
    BY <2>2 DEF Complete, RecoveryInv, StrayIsHeld
  <2>3. CASE End
    BY <2>3 DEF End, RecoveryInv, StrayIsHeld
  <2>4. ASSUME NEW family, Latch(family)
        PROVE  /\ requested' \in Nat /\ routeSpeed' \in Nat
               /\ gaveUp' => gaveUp /\ requested' = 0
               /\ latched \subseteq latched'
    BY <2>4 DEF Latch, RecoveryInv, StrayIsHeld
  <2>5. CASE Quiet
    BY <2>5 DEF Quiet, RecoveryInv, StrayIsHeld
  <2> QED
    BY <2>1, <2>2, <2>3, <2>4, <2>5 DEF RuntimeFrame
<1> QED
  BY <1>1, <1>2 DEF RecoveryInv, ReplansAreEarned, DistanceKept, OthersStay, StrayIsHeld, Progress

\* An ego that left its route is held, a new route is earned by a deviation
\* that lasts, no distance driven is lost, and no other alert is forgiven
\* (route_manager.py 313-351, carla_runner.py 4291-4465).
THEOREM RecoveryIsSound == RecoverySpec => RecoverySound
PROOF
<1>1. RecoveryInit => RecoveryInv
  BY RecoveryInvInit
<1>2. ASSUME RecoveryInv, [RecoveryNext]_recoveryVars
      PROVE  RecoveryInv' /\ [ReplansAreEarned /\ DistanceKept /\ OthersStay]_recoveryVars
  <2>1. CASE RecoveryNext
    BY <1>2, <2>1, RouteFrameKeeps, RuntimeFrameKeeps DEF RecoveryNext
  <2>2. CASE UNCHANGED recoveryVars
    BY <1>2, <2>2 DEF RecoveryInv, StrayIsHeld, recoveryVars
  <2> QED
    BY <1>2, <2>1, <2>2
<1>3. RecoveryInv => StrayIsHeld
  BY DEF RecoveryInv
<1> QED
  BY <1>1, <1>2, <1>3, PTL DEF RecoverySpec, RecoverySound

-----------------------------------------------------------------------------
(* How far along its mission the ego is.                                   *)

LEMMA LeastNatural ==
  ASSUME NEW S \in SUBSET Nat, S # {}
  PROVE  \E m \in S : \A k \in S : m <= k
PROOF
<1> DEFINE Less == OpToRel(<, Nat)
<1>1. IsWellFoundedOn(Less, Nat)
  BY NatLessThanWellFounded, Zenon
<1>2. Less = {ss \in Nat \X Nat : ss[1] < ss[2]}
  BY Zenon DEF OpToRel
<1> HIDE DEF Less
<1>3. PICK m \in S : \A k \in S : ~(<<k, m>> \in Less)
  BY <1>1, WFMin, Zenon
<1>4. \A k \in S : ~(k < m)
  BY <1>2, <1>3
<1> QED
  BY <1>4

\* Of the points of a window there is one nearest to the ego.
LEMMA NearestPoint ==
  ASSUME NEW S \in SUBSET Nat, S # {}, NEW most \in Nat, \A i \in S : i <= most,
         NEW Apart \in [S -> Nat], NEW Away \in [S -> Nat]
  PROVE  \E i \in S : \A j \in S :
           \/ Apart[i] < Apart[j]
           \/ Apart[i] = Apart[j] /\ (Away[i] < Away[j] \/ (Away[i] = Away[j] /\ i >= j))
PROOF
<1>1. PICK a \in {Apart[i] : i \in S} : \A k \in {Apart[i] : i \in S} : a <= k
  <2>1. {Apart[i] : i \in S} \in SUBSET Nat /\ {Apart[i] : i \in S} # {}
    OBVIOUS
  <2> QED
    BY <2>1, LeastNatural, Zenon
<1> DEFINE S1 == {i \in S : Apart[i] = a}
<1>2. S1 # {}
  BY <1>1
<1>3. PICK w \in {Away[i] : i \in S1} : \A k \in {Away[i] : i \in S1} : w <= k
  <2>1. {Away[i] : i \in S1} \in SUBSET Nat /\ {Away[i] : i \in S1} # {}
    BY <1>2
  <2> QED
    BY <2>1, LeastNatural, Zenon
<1> DEFINE S2 == {i \in S1 : Away[i] = w}
<1>4. S2 # {}
  BY <1>3
<1>5. PICK n \in {most - i : i \in S2} : \A k \in {most - i : i \in S2} : n <= k
  <2>1. {most - i : i \in S2} \in SUBSET Nat /\ {most - i : i \in S2} # {}
    BY <1>4
  <2> QED
    BY <2>1, LeastNatural, Zenon
<1>6. PICK i \in S2 : n = most - i
  BY <1>5
<1>7. i \in S /\ Apart[i] = a /\ Away[i] = w
  BY <1>6
<1>8. ASSUME NEW j \in S
      PROVE  \/ Apart[i] < Apart[j]
             \/ Apart[i] = Apart[j] /\ (Away[i] < Away[j] \/ (Away[i] = Away[j] /\ i >= j))
  <2>1. Apart[i] <= Apart[j]
    BY <1>1, <1>7, <1>8
  <2>2. Apart[j] = a => Away[i] <= Away[j]
    BY <1>3, <1>7, <1>8
  <2>3. Apart[j] = a /\ Away[j] = w => i >= j
    <3>1. Apart[j] = a /\ Away[j] = w => most - i <= most - j
      BY <1>5, <1>6, <1>8
    <3> QED
      BY <1>7, <1>8, <3>1
  <2> QED
    BY <1>7, <1>8, <2>1, <2>2, <2>3
<1> QED
  BY <1>7, <1>8

\* Of a point one lane's half off the line, or on it, a point of the line as
\* near is at most a lane away from where it should be.
LEMMA CloseTogether ==
  ASSUME NEW p \in Int \X Int, NEW q \in Int \X Int, NEW r \in Int \X Int, Gap(p, q) <= 1, Gap(p, r) <= 1
  PROVE  Gap(q, r) <= 4 /\ Gap(r, q) <= 4
PROOF
<1>1. ASSUME NEW x \in Int, NEW y \in Int, x * x + y * y <= 1
      PROVE  \/ y = 0 /\ x \in {-1, 0, 1}
             \/ x = 0 /\ y \in {-1, 0, 1}
  <2>1. \A z \in Int : z * z >= 0 /\ (z >= 2 => z * z >= 4) /\ (z <= -2 => z * z >= 4)
    OBVIOUS
  <2>2. x \in {-1, 0, 1} /\ y \in {-1, 0, 1}
    BY <1>1, <2>1
  <2> QED
    BY <1>1, <2>2
<1> DEFINE ax == p[1] - q[1]
           ay == p[2] - q[2]
           bx == p[1] - r[1]
           by == p[2] - r[2]
<1>2. /\ ax \in Int /\ ay \in Int /\ bx \in Int /\ by \in Int
      /\ ax * ax + ay * ay <= 1 /\ bx * bx + by * by <= 1
  BY DEF Gap
<1>3. (ay = 0 /\ ax \in {-1, 0, 1}) \/ (ax = 0 /\ ay \in {-1, 0, 1})
  BY <1>1, <1>2
<1>4. (by = 0 /\ bx \in {-1, 0, 1}) \/ (bx = 0 /\ by \in {-1, 0, 1})
  BY <1>1, <1>2
<1>5. /\ q[1] - r[1] = bx - ax /\ q[2] - r[2] = by - ay
      /\ r[1] - q[1] = ax - bx /\ r[2] - q[2] = ay - by
  BY <1>2
<1>6. /\ Gap(q, r) = (bx - ax) * (bx - ax) + (by - ay) * (by - ay)
      /\ Gap(r, q) = (ax - bx) * (ax - bx) + (ay - by) * (ay - by)
  BY <1>5 DEF Gap
<1> HIDE DEF ax, ay, bx, by
<1> QED
  BY <1>2, <1>3, <1>4, <1>6

LEMMA RouteFacts ==
  ASSUME line \in Routes
  PROVE  /\ line \in Seq(Int \X Int) /\ Length \in Nat \ {0} /\ DOMAIN line = 1..(Length + 1)
         /\ \A i \in 0..Length : line[i + 1] \in Int \X Int
PROOF
<1>1. line \in Seq(Int \X Int) /\ Len(line) > 1
  BY ProgressAssumption
<1>2. Len(line) \in Nat /\ DOMAIN line = 1..Len(line) /\ \A i \in 1..Len(line) : line[i] \in Int \X Int
  BY <1>1
<1>3. Length = Len(line) - 1 /\ Length \in Nat \ {0} /\ Len(line) = Length + 1
  <2>1. \A n \in Nat : n > 1 => n - 1 \in Nat \ {0} /\ n = (n - 1) + 1
    OBVIOUS
  <2>2. Len(line) \in Nat /\ Len(line) > 1
    BY <1>1, <1>2
  <2>3. Len(line) - 1 \in Nat \ {0} /\ Len(line) = (Len(line) - 1) + 1
    BY <2>1, <2>2, Zenon
  <2> QED
    BY <2>3, Zenon DEF Length
<1>4. ASSUME NEW i \in 0..Length PROVE line[i + 1] \in Int \X Int
  <2>1. i + 1 \in 1..Len(line)
    BY <1>3
  <2> QED
    BY <1>2, <2>1
<1> QED
  BY <1>1, <1>2, <1>3, <1>4

LEMMA OffFacts ==
  ASSUME NEW a \in Int, NEW b \in Int
  PROVE  Off(a, b) \in Nat /\ (Off(a, b) = a - b \/ Off(a, b) = b - a) /\ Off(a, b) >= a - b /\ Off(a, b) >= b - a
PROOF
<1>1. CASE a > b
  BY <1>1 DEF Off
<1>2. CASE ~(a > b)
  BY <1>2 DEF Off
<1> QED
  BY <1>1, <1>2

\* The arithmetic of the projection: the ego was at was, at most two away from the
\* progress previous, is now at now, and i is in the window.
LEMMA OffBounds ==
  ASSUME NEW i \in Nat, NEW now \in Nat, NEW previous \in Nat, NEW was \in Nat, NEW back \in Nat, NEW fore \in Nat,
         i >= previous - back, i <= previous + fore, 2 <= back, 4 <= fore,
         Off(previous, was) <= 2, was <= now, now - was <= 2
  PROVE  /\ now >= previous - back /\ now <= previous + fore /\ Off(i, now) <= fore + back
         /\ Off(i, previous) <= Off(now, previous) => Off(i, now) <= 8
         /\ Off(i, now) <= 2 /\ ~(i > previous) => Off(previous, now) <= 2
PROOF
<1> QED
  BY DEF Off

LEMMA ProgressConstants ==
  /\ Backward \in Nat /\ Forward \in Nat /\ Behind \in Nat /\ Before \in Nat /\ RefreshMargin \in Nat
  /\ FinishRadius \in Nat /\ JumpGate \in Nat /\ Contract \in Nat
  /\ RefreshMargin < Before /\ 2 <= JumpGate /\ 2 <= Backward /\ 4 <= Forward
PROOF
<1> QED
  BY ProgressAssumption

\* project_route_progress_m: the progress is that of the nearest point of the
\* window, or stays.
LEMMA ProjectedFacts ==
  ASSUME line \in Routes, NEW p \in Int \X Int, NEW previous \in 0..Length
  PROVE  \E i \in 0..Length :
           /\ i >= previous - Backward /\ i <= previous + Forward
           /\ \A j \in 0..Length : j >= previous - Backward /\ j <= previous + Forward => Nearer(p, previous, i, j)
           /\ Projected(p, previous) = IF i > previous THEN i ELSE previous
PROOF
<1> DEFINE near == {i \in 0..Length : i >= previous - Backward /\ i <= previous + Forward}
           apart == [i \in near |-> Gap(p, line[i + 1])]
           away == [i \in near |-> Off(i, previous)]
<1>1. Length \in Nat /\ \A i \in 0..Length : line[i + 1] \in Int \X Int
  BY RouteFacts
<1>2. near \in SUBSET Nat /\ previous \in near /\ \A i \in near : i <= Length
  BY <1>1, ProgressConstants
<1>3. apart \in [near -> Nat]
  <2>1. ASSUME NEW q \in Int \X Int PROVE Gap(p, q) \in Nat
    <3>1. \A z \in Int : z * z \in Nat
      OBVIOUS
    <3>2. p[1] - q[1] \in Int /\ p[2] - q[2] \in Int
      OBVIOUS
    <3> QED
      BY <3>1, <3>2 DEF Gap
  <2> QED
    BY <1>1, <2>1
<1>4. away \in [near -> Nat]
  BY <1>1 DEF Off
<1> HIDE DEF near, apart, away
<1>5. PICK i \in near : \A j \in near :
        \/ apart[i] < apart[j]
        \/ apart[i] = apart[j] /\ (away[i] < away[j] \/ (away[i] = away[j] /\ i >= j))
  <2>1. near # {} /\ Length \in Nat
    BY <1>1, <1>2
  <2> QED
    BY <1>2, <1>3, <1>4, <2>1, NearestPoint, Zenon
<1>6. \A j \in near : Nearer(p, previous, i, j)
  BY <1>5 DEF Nearer, near, apart, away
<1> DEFINE s == CHOOSE k \in near : \A j \in near : Nearer(p, previous, k, j)
<1>7. s \in near /\ \A j \in near : Nearer(p, previous, s, j)
  BY <1>6
<1>8. Projected(p, previous) = IF s > previous THEN s ELSE previous
  BY DEF Projected, near
<1> HIDE DEF s
<1> QED
  BY <1>7, <1>8 DEF near

\* The ego drives on by at most two points and is next to the line: the
\* progress stays within two points of it.
LEMMA ProgressFollows ==
  ASSUME line \in Routes, NEW previous \in 0..Length, NEW was \in 0..Length, NEW v \in 0..2, was + v \in 0..Length,
         Off(previous, was) <= 2, NEW p \in Int \X Int, Gap(p, line[was + v + 1]) <= 1
  PROVE  Off(Projected(p, previous), was + v) <= 2
PROOF
<1> DEFINE now == was + v
<1>0. now \in 0..Length /\ now \in Nat /\ previous \in Nat /\ was \in Nat
  BY RouteFacts
<1>1. PICK i \in 0..Length :
        /\ i >= previous - Backward /\ i <= previous + Forward
        /\ \A j \in 0..Length : j >= previous - Backward /\ j <= previous + Forward => Nearer(p, previous, i, j)
        /\ Projected(p, previous) = IF i > previous THEN i ELSE previous
  BY ProjectedFacts
<1>2. /\ Length \in Nat /\ DOMAIN line = 1..(Length + 1)
      /\ line[i + 1] \in Int \X Int /\ line[now + 1] \in Int \X Int
      /\ i \in Nat /\ i + 1 \in DOMAIN line /\ now + 1 \in DOMAIN line
  <2>1. Length \in Nat /\ DOMAIN line = 1..(Length + 1) /\ \A k \in 0..Length : line[k + 1] \in Int \X Int
    BY RouteFacts
  <2>2. \A k \in 0..Length : k \in Nat /\ k + 1 \in 1..(Length + 1)
    BY <2>1
  <2> HIDE DEF now
  <2> QED
    BY <1>0, <2>1, <2>2
<1>3. Backward \in Nat /\ Forward \in Nat /\ 2 <= Backward /\ 4 <= Forward
  BY ProgressConstants
<1>4. /\ was <= now /\ now - was <= 2
  BY <1>0
<1> HIDE DEF now
<1>5a. /\ now >= previous - Backward /\ now <= previous + Forward /\ Off(i, now) <= Forward + Backward
       /\ Off(i, previous) <= Off(now, previous) => Off(i, now) <= 8
       /\ Off(i, now) <= 2 /\ ~(i > previous) => Off(previous, now) <= 2
  BY <1>0, <1>1, <1>2, <1>3, <1>4, OffBounds
<1>5. Nearer(p, previous, i, now)
  BY <1>0, <1>1, <1>5a
<1>6. Off(i, now) <= 2
  <2> DEFINE gi == Gap(p, line[i + 1])
             gn == Gap(p, line[now + 1])
  <2>1. gi \in Nat /\ gn \in Nat /\ gn <= 1
    <3>1. \A z \in Int : z * z \in Nat
      OBVIOUS
    <3>2. \A q \in Int \X Int : p[1] - q[1] \in Int /\ p[2] - q[2] \in Int
      OBVIOUS
    <3>3. \A q \in Int \X Int : Gap(p, q) \in Nat
      BY <3>1, <3>2 DEF Gap
    <3>4. gn <= 1
      BY DEF now
    <3> QED
      BY <1>2, <3>3, <3>4
  <2>2. Off(i + 1, now + 1) = Off(i, now)
    BY <1>0, <1>2 DEF Off
  <2>3. Gap(line[i + 1], line[now + 1]) <= 4
    <3>1. gi <= 1
      BY <1>5, <2>1 DEF Nearer
    <3> QED
      BY <1>2, <2>1, <3>1, CloseTogether
  <2>4. CASE gi < gn
    <3>1. gi = 0
      BY <2>1, <2>4
    <3>2. p = line[i + 1]
      <4>1. \A a, b \in Int : a * a + b * b = 0 => a = 0 /\ b = 0
        <5>1. \A z \in Int : z * z >= 0 /\ (z # 0 => z * z >= 1)
          OBVIOUS
        <5> QED
          BY <5>1
      <4> DEFINE q == line[i + 1]
      <4>2. q \in Int \X Int
        BY <1>2
      <4> HIDE DEF q
      <4>3. p[1] - q[1] \in Int /\ p[2] - q[2] \in Int
        BY <4>2
      <4>4. (p[1] - q[1]) * (p[1] - q[1]) + (p[2] - q[2]) * (p[2] - q[2]) = 0
        BY <3>1 DEF Gap, q
      <4>5. p[1] - q[1] = 0 /\ p[2] - q[2] = 0
        BY <4>1, <4>3, <4>4
      <4>6. /\ p = <<p[1], p[2]>> /\ p[1] \in Int /\ p[2] \in Int
            /\ q = <<q[1], q[2]>> /\ q[1] \in Int /\ q[2] \in Int
        BY <4>2
      <4>7. p[1] = q[1] /\ p[2] = q[2]
        BY <4>5, <4>6
      <4>8. p = q
        BY <4>6, <4>7, Zenon
      <4> QED
        BY <4>8 DEF q
    <3> QED
      BY <1>2, <1>5a, <2>1, <2>2, <3>2, RoutesApart
  <2>5. CASE ~(gi < gn)
    <3>1. Off(i, previous) <= Off(now, previous)
      <4>1. Off(i, previous) \in Nat /\ Off(now, previous) \in Nat
        <5>1. i \in Int /\ now \in Int /\ previous \in Int
          BY <1>0, <1>2
        <5> QED
          BY <5>1, OffFacts, Zenon
      <4> QED
        BY <1>5, <2>1, <2>5, <4>1 DEF Nearer
    <3>2. Off(i, now) <= 8
      BY <1>5a, <3>1
    <3> QED
      BY <1>2, <2>2, <2>3, <3>2, RoutesApart
  <2> QED
    BY <2>4, <2>5
<1>7. Off(Projected(p, previous), now) <= 2
  <2>1. CASE i > previous
    <3>1. Projected(p, previous) = i
      BY <1>1, <2>1
    <3> QED
      BY <1>6, <3>1
  <2>2. CASE ~(i > previous)
    <3>1. Projected(p, previous) = previous
      BY <1>1, <2>2
    <3> QED
      BY <1>5a, <1>6, <2>2, <3>1
  <2> QED
    BY <2>1, <2>2
<1> QED
  BY <1>7 DEF now

\* The progress and the window shown, whatever the mission; the distance only
\* counts what was driven.
WindowFits ==
  \/ window = None
  \/ /\ window \in [from : Int, to : Int] /\ window.from <= routeS /\ routeS <= window.to /\ window.to <= Length
     /\ window.to = Length \/ window.to - routeS > RefreshMargin
ProgressInv ==
  /\ line \in Routes /\ coverage \in BOOLEAN /\ at \in 0..Length /\ routeS \in 0..Length
  /\ covered \in Nat /\ NothingForJumps /\ ProgressIsTrue /\ WindowFits /\ FinishIsEarned

LEMMA ProgressInvInit ==
  ASSUME ProgressInit
  PROVE  ProgressInv
PROOF
<1>1. Length \in Nat
  BY RouteFacts DEF ProgressInit
<1>2. 0 \in 0..Length /\ Off(0, 0) <= 2
  BY <1>1 DEF Off
<1> QED
  BY <1>1, <1>2 DEF ProgressInit, ProgressInv, NothingForJumps, ProgressIsTrue, WindowFits, FinishIsEarned

\* A frame at p, where the ego has come to now, keeps the window.
LEMMA FrameKeepsWindow ==
  ASSUME ProgressInv, NEW p \in Int \X Int, NEW n \in Nat, ProjectFrame(p, n)
  PROVE  /\ routeS' = Projected(p, routeS) /\ routeS' \in 0..Length /\ line' = line /\ Length' = Length
         /\ coverage' = coverage /\ WindowFits'
PROOF
<1>1. line \in Routes /\ routeS \in 0..Length /\ Length \in Nat
  BY RouteFacts DEF ProgressInv
<1>2. PICK i \in 0..Length : Projected(p, routeS) = IF i > routeS THEN i ELSE routeS
  BY <1>1, ProjectedFacts
<1> DEFINE s == Projected(p, routeS)
<1>3. s \in 0..Length /\ s >= routeS /\ s \in Nat /\ routeS \in Nat
  BY <1>1, <1>2
<1>4. routeS' = s /\ line' = line /\ Length' = Length /\ coverage' = coverage
  BY DEF ProjectFrame, Length
<1>5. window' = IF NeedsRefresh(s) THEN View(s) ELSE window
  BY DEF ProjectFrame
<1> HIDE DEF s
<1>6. ASSUME NeedsRefresh(s) PROVE WindowFits'
  <2>1. window' = View(s)
    BY <1>5, <1>6
  <2> DEFINE low == IF s < Behind THEN 0 ELSE s - Behind
             high == IF s + Before > Length THEN Length ELSE s + Before
  <2>2. /\ low \in Int /\ high \in Int /\ low <= s /\ s <= high /\ high <= Length
        /\ high = Length \/ high - s > RefreshMargin
    BY <1>1, <1>3, ProgressConstants
  <2>3. window' = [from |-> low, to |-> high]
    BY <2>1 DEF View
  <2> HIDE DEF low, high
  <2>4. window' \in [from : Int, to : Int] /\ window'.from = low /\ window'.to = high
    BY <2>2, <2>3
  <2>5. /\ window'.from <= routeS' /\ routeS' <= window'.to /\ window'.to <= Length'
        /\ window'.to = Length' \/ window'.to - routeS' > RefreshMargin
    BY <1>4, <2>2, <2>4
  <2> QED
    BY <2>4, <2>5 DEF WindowFits
<1>7. ASSUME ~NeedsRefresh(s) PROVE WindowFits'
  <2>1. /\ window' = window /\ window # None /\ ~(s < window.from)
        /\ ~(window.to < Length /\ s >= window.to - RefreshMargin)
    BY <1>5, <1>7 DEF NeedsRefresh
  <2>2. /\ window \in [from : Int, to : Int] /\ window.from \in Int /\ window.to \in Int
        /\ routeS <= window.to /\ window.to <= Length
        /\ window.to = Length \/ window.to - routeS > RefreshMargin
    BY <2>1 DEF ProgressInv, WindowFits
  <2>3. window.from <= s /\ s <= window.to /\ (window.to = Length \/ window.to - s > RefreshMargin)
    BY <1>1, <1>3, <2>1, <2>2, ProgressConstants
  <2>4. /\ window' \in [from : Int, to : Int]
        /\ window'.from <= routeS' /\ routeS' <= window'.to /\ window'.to <= Length'
        /\ window'.to = Length' \/ window'.to - routeS' > RefreshMargin
    BY <1>4, <2>1, <2>2, <2>3
  <2> QED
    BY <2>4 DEF WindowFits
<1> QED
  BY <1>3, <1>4, <1>6, <1>7 DEF s

\* What the end of a mission takes, for numbers: left is what remains of goal
\* meters when the progress is two off at most.
LEMMA LeftFacts ==
  ASSUME NEW now \in Nat, NEW s \in Nat, NEW goalM \in Nat, Off(s, now) <= 2, NEW radius \in Nat,
         \/ goalM - s <= radius
         \/ goalM - s <= radius + (IF radius > 3 THEN radius ELSE 3)
  PROVE  now + 2 * radius + 2 >= goalM \/ now + radius + 5 >= goalM
PROOF
<1> QED
  BY DEF Off

LEMMA LeftOfContract ==
  ASSUME NEW d \in Nat, NEW goalM \in Nat, NEW radius \in Nat,
         LET l == IF d > goalM THEN 0 ELSE goalM - d IN
         \/ l <= radius
         \/ l <= radius + (IF radius > 3 THEN radius ELSE 3)
  PROVE  d + 2 * radius >= goalM \/ d + 3 + radius >= goalM
PROOF
<1> QED
  OBVIOUS

LEMMA DriveKeeps ==
  ASSUME ProgressInv, NEW v \in 0..2, NEW dx \in Int, NEW dy \in Int, dx * dx + dy * dy <= 1, Drive(v, dx, dy)
  PROVE  ProgressInv'
PROOF
<1> DEFINE q == line[at + v + 1]
           p == <<q[1] + dx, q[2] + dy>>
<1>1. line \in Routes /\ Length \in Nat /\ at \in 0..Length /\ routeS \in 0..Length /\ v \in Nat /\ v <= 2
  BY RouteFacts DEF ProgressInv
<1>2. at + v \in 0..Length /\ at' = at + v /\ driven' = driven + v /\ ProjectFrame(p, v)
  BY <1>1 DEF Drive
<1>3. q \in Int \X Int
  BY <1>1, <1>2, RouteFacts
<1> HIDE DEF q
<1>4. p \in Int \X Int /\ p[1] - q[1] = dx /\ p[2] - q[2] = dy
  BY <1>3
<1>5. Gap(p, q) <= 1
  BY <1>4 DEF Gap
<1> HIDE DEF p
<1>6. /\ routeS' = Projected(p, routeS) /\ routeS' \in 0..Length /\ line' = line /\ Length' = Length
      /\ coverage' = coverage /\ WindowFits'
  BY <1>1, <1>2, <1>4, FrameKeepsWindow
<1>7. covered' = covered + v /\ covered \in Nat /\ covered = driven /\ covered' \in Nat
  <2>1. v <= JumpGate
    BY <1>1, ProgressConstants
  <2> QED
    BY <1>1, <1>2, <2>1 DEF ProjectFrame, ProgressInv, NothingForJumps
<1>8. ProgressIsTrue'
  <2>1. CASE ~coverage
    <3>1. Off(routeS, at) <= 2
      BY <2>1 DEF ProgressInv, ProgressIsTrue
    <3>2. Off(Projected(p, routeS), at + v) <= 2
      BY <1>1, <1>2, <1>4, <1>5, <3>1, ProgressFollows DEF q
    <3> QED
      BY <1>2, <1>6, <3>2 DEF ProgressIsTrue
  <2>2. CASE coverage
    BY <1>6, <2>2 DEF ProgressIsTrue
  <2> QED
    BY <2>1, <2>2
<1>9. FinishIsEarned'
  <2> DEFINE l == Remaining(routeS', covered')
  <2>1. finished' = Reached(Remaining(Projected(p, routeS), covered'), p)
    BY <1>2, Zenon DEF ProjectFrame
  <2>2. ASSUME finished' PROVE l <= FinishRadius \/ l <= FinishRadius + (IF FinishRadius > 3 THEN FinishRadius ELSE 3)
    BY <1>6, <2>1, <2>2 DEF Reached
  <2>3. CASE coverage
    <3>1. l = IF covered' > Contract THEN 0 ELSE Contract - covered'
      BY <2>3 DEF Remaining
    <3> HIDE DEF l
    <3>2. finished' => covered' + 2 * FinishRadius >= Contract \/ covered' + 3 + FinishRadius >= Contract
      BY <1>7, <2>2, <3>1, ProgressConstants, LeftOfContract
    <3> QED
      BY <1>2, <1>6, <1>7, <2>3, <3>2 DEF FinishIsEarned
  <2>4. CASE ~coverage
    <3>1. l = Length - routeS'
      BY <2>4 DEF Remaining
    <3> HIDE DEF l
    <3>2. Off(routeS', at') <= 2 /\ at' \in Nat /\ routeS' \in Nat
      BY <1>1, <1>2, <1>6, <1>8, <2>4 DEF ProgressIsTrue
    <3>3. finished' => at' + 2 * FinishRadius + 2 >= Length \/ at' + FinishRadius + 5 >= Length
      BY <1>1, <2>2, <3>1, <3>2, ProgressConstants, LeftFacts
    <3> QED
      BY <1>6, <2>4, <3>3 DEF FinishIsEarned
  <2> QED
    BY <2>3, <2>4
<1> QED
  BY <1>1, <1>2, <1>6, <1>7, <1>8, <1>9 DEF ProgressInv, NothingForJumps

LEMMA TeleportKeeps ==
  ASSUME ProgressInv, NEW to \in {0, Length}, Teleport(to)
  PROVE  ProgressInv'
PROOF
<1>1. line \in Routes /\ Length \in Nat /\ at \in 0..Length /\ routeS \in 0..Length /\ to \in 0..Length
  BY RouteFacts DEF ProgressInv
<1>2. coverage /\ at' = to /\ driven' = driven /\ ProjectFrame(line[to + 1], Off(to, at)) /\ Off(to, at) > JumpGate
  BY DEF Teleport
<1>3. line[to + 1] \in Int \X Int
  BY <1>1, RouteFacts
<1>4. Off(to, at) \in Nat
  <2>1. to \in Int /\ at \in Int
    BY <1>1
  <2> QED
    BY <2>1, OffFacts, Zenon
<1>5. /\ routeS' \in 0..Length /\ line' = line /\ Length' = Length /\ coverage' = coverage /\ WindowFits'
  BY <1>2, <1>3, <1>4, FrameKeepsWindow
<1>6. covered' = covered /\ covered \in Nat /\ covered = driven
  <2>1. ~(Off(to, at) <= JumpGate)
    BY <1>2, <1>4, ProgressConstants
  <2> QED
    BY <1>2, <2>1 DEF ProjectFrame, ProgressInv, NothingForJumps
<1>7. FinishIsEarned'
  <2> DEFINE l == Remaining(Projected(line[to + 1], routeS), covered')
  <2>1. finished' = Reached(l, line[to + 1])
    BY <1>2, <1>6 DEF ProjectFrame
  <2>2. ASSUME finished' PROVE l <= FinishRadius \/ l <= FinishRadius + (IF FinishRadius > 3 THEN FinishRadius ELSE 3)
    BY <2>1, <2>2 DEF Reached
  <2>3. l = IF covered' > Contract THEN 0 ELSE Contract - covered'
    BY <1>2 DEF Remaining
  <2> HIDE DEF l
  <2>4. finished' => covered' + 2 * FinishRadius >= Contract \/ covered' + 3 + FinishRadius >= Contract
    BY <1>6, <2>2, <2>3, ProgressConstants, LeftOfContract
  <2> QED
    BY <1>2, <1>5, <1>6, <2>4 DEF FinishIsEarned
<1> QED
  BY <1>1, <1>2, <1>5, <1>6, <1>7 DEF ProgressInv, NothingForJumps, ProgressIsTrue

\* The progress follows the ego on a route that meets itself again, no jump
\* counts as distance, the controller's window holds the ego and what is ahead,
\* and a mission ends only near its end (route_geometry.py 136-184,
\* carla_runner.py 2858-2864).
THEOREM ProgressIsSound == ProgressSpec => ProgressSound
PROOF
<1>1. ProgressInit => ProgressInv
  BY ProgressInvInit
<1>2. ASSUME ProgressInv, [ProgressNext]_progressVars
      PROVE  ProgressInv'
  <2>1. ASSUME NEW v \in 0..2, NEW d \in {<<0, 0>>, <<1, 0>>, <<-1, 0>>, <<0, 1>>, <<0, -1>>}, Drive(v, d[1], d[2])
        PROVE  ProgressInv'
    <3>1. d[1] \in Int /\ d[2] \in Int /\ d[1] * d[1] + d[2] * d[2] <= 1
      OBVIOUS
    <3> QED
      BY <1>2, <2>1, <3>1, DriveKeeps
  <2>2. ASSUME NEW to \in {0, Length}, Teleport(to)
        PROVE  ProgressInv'
    BY <1>2, <2>2, TeleportKeeps
  <2>3. CASE UNCHANGED progressVars
    BY <1>2, <2>3
    DEF ProgressInv, NothingForJumps, ProgressIsTrue, WindowFits, FinishIsEarned, progressVars, Length
  <2> QED
    BY <1>2, <2>1, <2>2, <2>3 DEF ProgressNext
<1>3. ProgressInv => ProgressIsTrue /\ FinishIsEarned /\ NothingForJumps /\ WindowHolds
  BY DEF ProgressInv, WindowFits, WindowHolds
<1> QED
  BY <1>1, <1>2, <1>3, PTL DEF ProgressSpec, ProgressSound

-----------------------------------------------------------------------------
(* Choosing a route long enough.                                           *)

\* Of two branches of a fork that nothing else leads into, neither is more
\* than a pass ahead of the other.
TurnsTaken ==
  \A p, q \in Roads : Siblings(p, q) /\ way[1][1] \notin {p, q} => visits[<<p, 0>>] <= visits[<<q, 0>>] + 1
CoverInv ==
  /\ candidate \in 1..Len(Starts) /\ way \in Seq(Cell) /\ way # <<>>
  /\ visits \in [Cell -> Nat] /\ TurnsTaken

LEMMA CellFacts ==
  /\ \A r \in Roads : Cells[r] \in Nat \ {0} /\ <<r, 0>> \in Cell
  /\ \A c \in Cell : c = <<c[1], c[2]>> /\ c[1] \in Roads /\ c[2] \in Nat /\ c[2] <= Cells[c[1]] - 1
  /\ \A r \in Roads, k \in Nat : k <= Cells[r] - 1 => <<r, k>> \in Cell
PROOF
<1>1. \A r \in Roads : Cells[r] \in Nat \ {0}
  BY CoverageAssumption
<1>2. ASSUME NEW r \in Roads, NEW k \in Nat, k <= Cells[r] - 1 PROVE <<r, k>> \in Cell
  <2>1. k \in 0..(Cells[r] - 1)
    BY <1>1, <1>2
  <2>2. <<r, k>> \in {r} \X (0..(Cells[r] - 1))
    BY <2>1
  <2> QED
    BY <2>2, Zenon DEF Cell
<1>3. ASSUME NEW c \in Cell
      PROVE  c = <<c[1], c[2]>> /\ c[1] \in Roads /\ c[2] \in Nat /\ c[2] <= Cells[c[1]] - 1
  <2>1. PICK r \in Roads : c \in {r} \X (0..(Cells[r] - 1))
    BY <1>3, Zenon DEF Cell
  <2>2. c = <<c[1], c[2]>> /\ c[1] = r /\ c[2] \in 0..(Cells[r] - 1)
    BY <2>1
  <2> QED
    BY <1>1, <2>2
<1>4. \A r \in Roads : <<r, 0>> \in Cell
  BY <1>1, <1>2
<1> QED
  BY <1>1, <1>2, <1>3, <1>4

LEMMA StartFacts ==
  ASSUME NEW n \in 1..Len(Starts)
  PROVE  Starts[n] \in Cell
PROOF
<1> QED
  BY StartsAssumption

\* A candidate starts with every cell but its own unvisited.
LEMMA FreshCount ==
  ASSUME NEW n \in 1..Len(Starts), way' = <<Starts[n]>>, visits' = [c \in Cell |-> IF c = Starts[n] THEN 1 ELSE 0]
  PROVE  way' \in Seq(Cell) /\ way' # <<>> /\ visits' \in [Cell -> Nat] /\ TurnsTaken'
PROOF
<1>1. Starts[n] \in Cell
  BY StartFacts
<1>2. way' \in Seq(Cell) /\ way' # <<>> /\ way'[1] = Starts[n]
  BY <1>1
<1>3. visits' \in [Cell -> Nat]
  OBVIOUS
<1>4. ASSUME NEW p \in Roads, NEW q \in Roads, way'[1][1] \notin {p, q}
      PROVE  visits'[<<p, 0>>] <= visits'[<<q, 0>>] + 1
  <2>1. <<p, 0>> # Starts[n] /\ <<q, 0>> # Starts[n]
    BY <1>2, <1>4
  <2>2. visits'[<<p, 0>>] = 0 /\ visits'[<<q, 0>>] = 0
    BY <2>1, CellFacts
  <2> QED
    BY <2>2
<1> QED
  BY <1>2, <1>3, <1>4 DEF TurnsTaken, Siblings

LEMMA CoverInvInit ==
  ASSUME CoverInit
  PROVE  CoverInv
PROOF
<1>1. 1 \in 1..Len(Starts)
  <2>1. Len(Starts) \in Nat /\ Len(Starts) > 0
    BY CoverageAssumption, StartsAssumption
  <2> QED
    BY <2>1
<1>2. Starts[1] \in Cell
  BY <1>1, StartFacts
<1>3. way \in Seq(Cell) /\ way # <<>> /\ way[1] = Starts[1]
  BY <1>2 DEF CoverInit
<1>4. visits = [c \in Cell |-> IF c = Starts[1] THEN 1 ELSE 0]
  BY DEF CoverInit
<1>5. ASSUME NEW p \in Roads, NEW q \in Roads, way[1][1] \notin {p, q}
      PROVE  visits[<<p, 0>>] <= visits[<<q, 0>>] + 1
  <2>1. <<p, 0>> # Starts[1] /\ <<q, 0>> # Starts[1]
    BY <1>3, <1>5
  <2>2. visits[<<p, 0>>] = 0 /\ visits[<<q, 0>>] = 0
    BY <1>4, <2>1, CellFacts
  <2> QED
    BY <2>2
<1> QED
  BY <1>1, <1>3, <1>4, <1>5 DEF CoverInit, CoverInv, TurnsTaken

\* The way on: a cell that follows, of those that do one visited least.
LEMMA PreferredFacts ==
  ASSUME NEW c \in Cell, visits \in [Cell -> Nat], NEW d \in Preferred(c)
  PROVE  /\ d \in Cell /\ d \in After(c)
         /\ \A e \in After(c) : visits[d] <= visits[e]
PROOF
<1> DEFINE least == {e \in After(c) : \A f \in After(c) : visits[e] <= visits[f]}
<1>1. d \in least
  BY Zenon DEF Preferred
<1>2. After(c) \subseteq Cell
  <2>1. c[1] \in Roads /\ c[2] \in Nat /\ Cells[c[1]] \in Nat
    BY CellFacts
  <2>2. CASE c[2] < Cells[c[1]] - 1
    <3>1. c[2] + 1 \in Nat /\ c[2] + 1 <= Cells[c[1]] - 1
      BY <2>1, <2>2
    <3>2. <<c[1], c[2] + 1>> \in Cell
      BY <2>1, <3>1, CellFacts
    <3> QED
      BY <2>2, <3>2 DEF After
  <2>3. CASE ~(c[2] < Cells[c[1]] - 1)
    <3>1. After(c) = {<<b, 0>> : b \in {b \in Roads : <<c[1], b>> \in Onward}}
      BY <2>3 DEF After
    <3>2. \A r \in Roads : <<r, 0>> \in Cell
      BY CellFacts, Zenon
    <3> QED
      BY <3>1, <3>2, Zenon
  <2> QED
    BY <2>2, <2>3
<1> QED
  BY <1>1, <1>2

LEMMA AppendKeepsFirst ==
  ASSUME NEW S, NEW q \in Seq(S), q # <<>>, NEW c \in S
  PROVE  Append(q, c) \in Seq(S) /\ Append(q, c) # <<>> /\ Append(q, c)[1] = q[1]
PROOF
<1>1. Len(q) \in Nat /\ Len(q) # 0
  OBVIOUS
<1> QED
  BY <1>1

LEMMA ExtendKeeps ==
  ASSUME CoverInv, Extend
  PROVE  CoverInv'
PROOF
<1> DEFINE here == way[Len(way)]
<1>1. /\ here \in Cell /\ visits \in [Cell -> Nat] /\ Len(way) \in Nat \ {0} /\ way[1] \in Cell
  BY DEF CoverInv
<1>2. PICK c \in Preferred(here) : way' = Append(way, c) /\ visits' = [visits EXCEPT ![c] = @ + 1]
  BY DEF Extend
<1>3. c \in Cell /\ c \in After(here) /\ \A e \in After(here) : visits[c] <= visits[e]
  BY <1>1, <1>2, PreferredFacts
<1>4. /\ visits' \in [Cell -> Nat]
      /\ \A d \in Cell : visits'[d] = IF d = c THEN visits[c] + 1 ELSE visits[d]
  BY <1>1, <1>2, <1>3
<1>5. way' \in Seq(Cell) /\ way' # <<>> /\ way'[1] = way[1]
  BY <1>2, <1>3, AppendKeepsFirst DEF CoverInv
<1>6. ASSUME NEW p \in Roads, NEW q \in Roads, Siblings(p, q), way'[1][1] \notin {p, q}
      PROVE  visits'[<<p, 0>>] <= visits'[<<q, 0>>] + 1
  <2>1. visits[<<p, 0>>] <= visits[<<q, 0>>] + 1
    BY <1>5, <1>6 DEF CoverInv, TurnsTaken
  <2>2. /\ <<p, 0>> \in Cell /\ <<q, 0>> \in Cell /\ visits[<<p, 0>>] \in Nat /\ visits[<<q, 0>>] \in Nat
    BY <1>1, CellFacts
  <2>3. CASE <<p, 0>> = c
    <3>1. PICK r \in Roads : {t \in Roads : <<t, p>> \in Onward \/ <<t, q>> \in Onward} = {r}
                             /\ {<<r, p>>, <<r, q>>} \subseteq Onward
      BY <1>6, Zenon DEF Siblings
    <3>2. here[1] \in Roads /\ here[2] \in Nat /\ Cells[here[1]] \in Nat
      BY <1>1, CellFacts
    <3>3. ~(here[2] < Cells[here[1]] - 1) /\ <<here[1], p>> \in Onward
      <4>1. CASE here[2] < Cells[here[1]] - 1
        <5>1. <<p, 0>> = <<here[1], here[2] + 1>>
          BY <1>3, <2>3, <4>1 DEF After
        <5> QED
          BY <3>2, <5>1
      <4>2. CASE ~(here[2] < Cells[here[1]] - 1)
        <5>1. c \in {<<b, 0>> : b \in {b \in Roads : <<here[1], b>> \in Onward}}
          BY <1>3, <4>2 DEF After
        <5> QED
          BY <2>3, <4>2, <5>1
      <4> QED
        BY <4>1, <4>2
    <3>4. here[1] = r
      BY <3>1, <3>2, <3>3
    <3>5. <<q, 0>> \in After(here)
      BY <3>1, <3>3, <3>4 DEF After
    <3>6. visits[<<p, 0>>] <= visits[<<q, 0>>]
      BY <1>3, <2>3, <3>5
    <3>7. visits'[<<p, 0>>] = visits[<<p, 0>>] + 1
      BY <1>4, <2>2, <2>3
    <3>8. visits'[<<q, 0>>] = visits[<<q, 0>>] \/ visits'[<<q, 0>>] = visits[<<p, 0>>] + 1
      BY <1>4, <2>2, <2>3
    <3> QED
      BY <2>2, <3>6, <3>7, <3>8
  <2>4. CASE <<p, 0>> # c
    <3>1. visits'[<<p, 0>>] = visits[<<p, 0>>]
      BY <1>4, <2>2, <2>4
    <3>2. visits'[<<q, 0>>] = visits[<<q, 0>>] \/ visits'[<<q, 0>>] = visits[<<q, 0>>] + 1
      BY <1>4, <2>2
    <3> QED
      BY <2>1, <2>2, <3>1, <3>2
  <2> QED
    BY <2>3, <2>4
<1>7. candidate' = candidate
  BY DEF Extend
<1> QED
  BY <1>4, <1>5, <1>6, <1>7 DEF CoverInv, TurnsTaken, Siblings

LEMMA DropKeeps ==
  ASSUME CoverInv, Drop
  PROVE  CoverInv'
PROOF
<1>1. CASE candidate < Len(Starts)
  <2>1. Begin(candidate + 1)
    BY <1>1 DEF Drop
  <2>2. candidate + 1 \in 1..Len(Starts)
    BY <1>1, StartsAssumption DEF CoverInv
  <2> QED
    BY <2>1, <2>2, FreshCount DEF Begin, CoverInv
<1>2. CASE ~(candidate < Len(Starts))
  BY <1>2 DEF Drop, CoverInv, TurnsTaken, Siblings
<1> QED
  BY <1>1, <1>2

\* A route made to cover a distance takes the branches of a fork in turn
\* (route_manager.py 659-672).
THEOREM CoverageIsSound == CoverSpec => CoverageSound
PROOF
<1>1. CoverInit => CoverInv
  BY CoverInvInit
<1>2. ASSUME CoverInv, [CoverNext]_coverVars PROVE CoverInv'
  <2>1. CASE Extend
    BY <1>2, <2>1, ExtendKeeps
  <2>2. CASE Drop
    BY <1>2, <2>2, DropKeeps
  <2>3. CASE Accept
    BY <1>2, <2>3 DEF Accept, CoverInv, TurnsTaken, Siblings
  <2>4. CASE UNCHANGED coverVars
    BY <1>2, <2>4 DEF coverVars, CoverInv, TurnsTaken, Siblings
  <2> QED
    BY <1>2, <2>1, <2>2, <2>3, <2>4 DEF CoverNext
<1>3. CoverInv => ForksTakeTurns
  <2> SUFFICES ASSUME CoverInv PROVE ForksTakeTurns
    OBVIOUS
  <2>1. way[Len(way)] \in Cell
    BY DEF CoverInv
  <2>2. way[Len(way)][1] \in Roads
    BY <2>1, CellFacts
  <2> QED
    BY <2>2 DEF CoverInv, TurnsTaken, ForksTakeTurns
<1> QED
  BY <1>1, <1>2, <1>3, PTL DEF CoverSpec, CoverageSound

-----------------------------------------------------------------------------
(* Planning a route: the search.                                           *)

\* The connections the search may take, and what they cost.
Links == {ef \in Edges \X Edges : ef[2] \in Successors(ef[1]) /\ ef \notin blocked}
Weights == [ef \in Edges \X Edges |-> CostOf(ef[1], ef[2])]

\* What the search keeps.  An edge it has reached either waits in the frontier at
\* its cost, or is not the target and every connection from it has been tried;
\* and but for the start it has a parent it was reached from at that cost at least.
Settled(e, cost, links, weight, target) ==
  /\ e # target
  /\ \A f \in Edges : <<e, f>> \in links => cost[f] # None /\ cost[f] <= cost[e] + weight[<<e, f>>]
ReachedFrom(e, cost, par, links, weight) ==
  /\ par[e] \in Edges /\ cost[par[e]] # None /\ <<par[e], e>> \in links
  /\ cost[par[e]] + weight[<<par[e], e>>] <= cost[e]
Searching(front, cost, par, links, weight, from, target) ==
  /\ cost \in [Edges -> Nat \cup {None}] /\ cost[from] = 0 /\ par[from] = None
  /\ front \subseteq [edge : Edges, cost : Nat]
  /\ \A n \in front : cost[n.edge] # None /\ cost[n.edge] <= n.cost
  /\ \A e \in Edges : cost[e] # None =>
       [edge |-> e, cost |-> cost[e]] \in front \/ Settled(e, cost, links, weight, target)
  /\ \A e \in Edges \ {from} : cost[e] # None => ReachedFrom(e, cost, par, links, weight)

LEMMA SearchBegins ==
  ASSUME NEW links, NEW weight, NEW from \in Edges, NEW target \in Edges
  PROVE  Searching({[edge |-> from, cost |-> 0]}, [e \in Edges |-> IF e = from THEN 0 ELSE None],
                   [e \in Edges |-> None], links, weight, from, target)
PROOF
<1> QED
  BY NoneIsNoNumber DEF Searching

\* A node is taken from the frontier, and what it reaches at a lower cost is put in.
Expanded(node, better, front, cost, par, links, weight, front2, cost2, par2) ==
  /\ better = IF node.cost > cost[node.edge] THEN {}
              ELSE {f \in Edges : /\ <<node.edge, f>> \in links
                                  /\ cost[f] = None \/ node.cost + weight[<<node.edge, f>>] < cost[f]}
  /\ cost2 = [f \in Edges |-> IF f \in better THEN node.cost + weight[<<node.edge, f>>] ELSE cost[f]]
  /\ par2 = [f \in Edges |-> IF f \in better THEN node.edge ELSE par[f]]
  /\ front2 = (front \ {node})
                \cup {[edge |-> f, cost |-> node.cost + weight[<<node.edge, f>>]] : f \in better}

\* The search goes on from a node that is not the target's at its cost.
LEMMA SearchGoesOn ==
  ASSUME NEW front, NEW cost, NEW par, NEW links \in SUBSET (Edges \X Edges),
         NEW weight \in [Edges \X Edges -> Nat \ {0}], NEW from \in Edges, NEW target \in Edges,
         Searching(front, cost, par, links, weight, from, target),
         NEW node \in front, ~(node.cost <= cost[node.edge] /\ node.edge = target),
         NEW better, NEW cost2, NEW par2, NEW front2,
         Expanded(node, better, front, cost, par, links, weight, front2, cost2, par2)
  PROVE  Searching(front2, cost2, par2, links, weight, from, target)
PROOF
<1> DEFINE x == node.edge
           c == node.cost
<1>0. /\ better = IF c > cost[x] THEN {}
                  ELSE {f \in Edges : <<x, f>> \in links /\ (cost[f] = None \/ c + weight[<<x, f>>] < cost[f])}
      /\ cost2 = [f \in Edges |-> IF f \in better THEN c + weight[<<x, f>>] ELSE cost[f]]
      /\ par2 = [f \in Edges |-> IF f \in better THEN x ELSE par[f]]
      /\ front2 = (front \ {node}) \cup {[edge |-> f, cost |-> c + weight[<<x, f>>]] : f \in better}
  BY DEF Expanded
<1>1. /\ x \in Edges /\ c \in Nat /\ node = [edge |-> x, cost |-> c]
      /\ cost[x] # None /\ cost[x] <= c /\ cost[x] \in Nat
  BY DEF Searching
<1>2. \A f \in Edges : cost[f] = None \/ cost[f] \in Nat
  BY DEF Searching
<1>3. \A f \in Edges : weight[<<x, f>>] \in Nat /\ weight[<<x, f>>] > 0 /\ c + weight[<<x, f>>] \in Nat
  BY <1>1
<1>4. ASSUME NEW f \in better
      PROVE  /\ f \in Edges /\ c = cost[x] /\ <<x, f>> \in links
             /\ cost[f] = None \/ c + weight[<<x, f>>] < cost[f]
  <2>1. ~(c > cost[x])
    BY <1>0, <1>4, Zenon
  <2>2. c = cost[x]
    <3>1. \A a, b \in Nat : a <= b /\ ~(b > a) => b = a
      OBVIOUS
    <3>2. c \in Nat /\ cost[x] \in Nat /\ cost[x] <= c
      BY <1>1
    <3> QED
      BY <2>1, <3>1, <3>2, Zenon
  <2>3. f \in Edges /\ <<x, f>> \in links /\ (cost[f] = None \/ c + weight[<<x, f>>] < cost[f])
    BY <1>0, <1>4, <2>1, Zenon
  <2> QED
    BY <2>2, <2>3
<1>5. ASSUME NEW f \in Edges, <<x, f>> \in links, f \notin better, ~(c > cost[x])
      PROVE  cost[f] # None /\ cost[f] <= c + weight[<<x, f>>]
  BY <1>0, <1>2, <1>3, <1>5
<1>6. better \subseteq Edges
  BY <1>4
<1>7. from \notin better /\ x \notin better
  <2>1. cost[from] = 0
    BY DEF Searching
  <2>2. from \notin better
    BY <1>0, <1>3, <1>4, <2>1, NoneIsNoNumber
  <2>3. x \notin better
    BY <1>0, <1>1, <1>3, <1>4
  <2> QED
    BY <2>2, <2>3
<1> HIDE DEF x, c
<1>8. \A f \in Edges :
        /\ f \in better => cost2[f] = c + weight[<<x, f>>] /\ par2[f] = x
        /\ f \notin better => cost2[f] = cost[f] /\ par2[f] = par[f]
  BY <1>0
<1>9. front2 = (front \ {node}) \cup {[edge |-> f, cost |-> c + weight[<<x, f>>]] : f \in better}
  BY <1>0
<1> HIDE DEF Searching
<1>10. cost2 \in [Edges -> Nat \cup {None}]
  <2>1. \A f \in Edges : cost2[f] \in Nat \cup {None}
    BY <1>2, <1>3, <1>8
  <2>2. cost2 = [f \in Edges |-> cost2[f]]
    BY <1>0
  <2> QED
    BY <2>1, <2>2
<1>11. ASSUME NEW f \in Edges, cost[f] # None
       PROVE  cost2[f] # None /\ cost2[f] <= cost[f]
  <2>1. cost[f] \in Nat
    BY <1>2, <1>11
  <2>2. CASE f \in better
    <3>1. cost2[f] = c + weight[<<x, f>>] /\ c + weight[<<x, f>>] \in Nat
      BY <1>3, <1>8, <2>2
    <3>2. c + weight[<<x, f>>] < cost[f]
      BY <1>4, <1>11, <2>2
    <3>3. cost2[f] \in Nat /\ cost2[f] < cost[f]
      BY <3>1, <3>2
    <3>4. \A k, m \in Nat : k < m => k # None /\ k <= m
      BY NoneIsNoNumber
    <3> QED
      BY <2>1, <3>3, <3>4, Zenon
  <2>3. CASE f \notin better
    <3>1. cost2[f] = cost[f]
      BY <1>8, <2>3
    <3>2. \A k \in Nat : k <= k
      OBVIOUS
    <3> QED
      BY <1>11, <2>1, <3>1, <3>2, Zenon
  <2> QED
    BY <2>2, <2>3
<1>12. front2 \subseteq [edge : Edges, cost : Nat]
  <2>1. front \subseteq [edge : Edges, cost : Nat]
    BY DEF Searching
  <2>2. ASSUME NEW f \in better PROVE [edge |-> f, cost |-> c + weight[<<x, f>>]] \in [edge : Edges, cost : Nat]
    BY <1>3, <1>6, <2>2
  <2> QED
    BY <1>9, <2>1, <2>2
<1>13. ASSUME NEW n \in front2 PROVE cost2[n.edge] # None /\ cost2[n.edge] <= n.cost
  <2>1. CASE n \in front
    <3>1. n.edge \in Edges /\ n.cost \in Nat /\ cost[n.edge] # None /\ cost[n.edge] <= n.cost
      BY <2>1 DEF Searching
    <3>2. cost2[n.edge] # None /\ cost2[n.edge] <= cost[n.edge]
      BY <1>11, <3>1
    <3>3. cost2[n.edge] \in Nat /\ cost[n.edge] \in Nat
      BY <1>2, <1>10, <3>1, <3>2
    <3> QED
      BY <3>1, <3>2, <3>3
  <2>2. CASE n \notin front
    <3>1. PICK f \in better : n = [edge |-> f, cost |-> c + weight[<<x, f>>]]
      BY <1>9, <1>13, <2>2
    <3>2. cost2[f] = c + weight[<<x, f>>] /\ cost2[f] \in Nat
      BY <1>3, <1>6, <1>8, <3>1
    <3> QED
      BY <3>1, <3>2, NoneIsNoNumber
  <2> QED
    BY <2>1, <2>2
<1>14. ASSUME NEW e \in Edges, cost2[e] # None
       PROVE  [edge |-> e, cost |-> cost2[e]] \in front2 \/ Settled(e, cost2, links, weight, target)
  <2>1. CASE e \in better
    BY <1>8, <1>9, <2>1
  <2>2. CASE e \notin better
    <3>1. cost2[e] = cost[e] /\ cost[e] \in Nat /\ cost[e] # None
      BY <1>2, <1>8, <1>14, <2>2
    <3>2. CASE [edge |-> e, cost |-> cost[e]] \in front /\ [edge |-> e, cost |-> cost[e]] # node
      BY <1>9, <3>1, <3>2
    <3>3. CASE [edge |-> e, cost |-> cost[e]] = node
      <4>1. e = x /\ c = cost[x] /\ e # target
        <5>1. e = x /\ c = cost[x]
          BY <3>3 DEF x, c
        <5> QED
          BY <1>1, <5>1 DEF x, c
      <4>2. ASSUME NEW f \in Edges, <<e, f>> \in links
            PROVE  cost2[f] # None /\ cost2[f] <= cost2[e] + weight[<<e, f>>]
        <5>1. CASE f \in better
          <6>1. cost2[f] = c + weight[<<x, f>>] /\ c + weight[<<x, f>>] \in Nat
            BY <1>3, <1>8, <5>1
          <6>2. cost2[e] + weight[<<e, f>>] = c + weight[<<x, f>>]
            BY <3>1, <4>1
          <6> QED
            BY <6>1, <6>2, NoneIsNoNumber
        <5>2. CASE f \notin better
          <6>1. cost[f] # None /\ cost[f] <= c + weight[<<x, f>>]
            <7>1. ~(c > cost[x])
              BY <1>1, <4>1 DEF x, c
            <7> QED
              BY <1>5, <4>1, <4>2, <5>2, <7>1
          <6>2. cost2[e] + weight[<<e, f>>] = c + weight[<<x, f>>] /\ cost2[f] = cost[f]
            BY <1>8, <3>1, <4>1, <5>2
          <6> QED
            BY <6>1, <6>2
        <5> QED
          BY <5>1, <5>2
      <4> QED
        BY <4>1, <4>2 DEF Settled
    <3>4. CASE Settled(e, cost, links, weight, target)
      <4>1. ASSUME NEW f \in Edges, <<e, f>> \in links
            PROVE  cost2[f] # None /\ cost2[f] <= cost2[e] + weight[<<e, f>>]
        <5>1. cost[f] # None /\ cost[f] <= cost[e] + weight[<<e, f>>]
          BY <3>4, <4>1 DEF Settled
        <5>2. cost2[f] # None /\ cost2[f] <= cost[f]
          BY <1>11, <5>1
        <5>3. cost2[f] \in Nat /\ cost[f] \in Nat /\ weight[<<e, f>>] \in Nat
          BY <1>2, <1>10, <5>1, <5>2
        <5> QED
          BY <3>1, <5>1, <5>2, <5>3
      <4> QED
        BY <3>4, <4>1 DEF Settled
    <3> QED
      BY <3>1, <3>2, <3>3, <3>4 DEF Searching
  <2> QED
    BY <2>1, <2>2
<1>15. ASSUME NEW e \in Edges \ {from}, cost2[e] # None
       PROVE  ReachedFrom(e, cost2, par2, links, weight)
  <2>1. CASE e \in better
    <3>1. par2[e] = x /\ cost2[e] = c + weight[<<x, e>>] /\ cost2[x] = c /\ <<x, e>> \in links /\ c # None
      BY <1>1, <1>4, <1>7, <1>8, <2>1, NoneIsNoNumber DEF x, c
    <3>2. x \in Edges /\ c + weight[<<x, e>>] \in Nat
      BY <1>1, <1>3 DEF x, c
    <3>3. cost2[x] + weight[<<x, e>>] <= cost2[e]
      BY <3>1, <3>2
    <3> QED
      BY <3>1, <3>2, <3>3 DEF ReachedFrom
  <2>2. CASE e \notin better
    <3>1. cost2[e] = cost[e] /\ par2[e] = par[e] /\ cost[e] \in Nat
      BY <1>2, <1>8, <1>15, <2>2
    <3>2. /\ par[e] \in Edges /\ cost[par[e]] # None /\ <<par[e], e>> \in links
          /\ cost[par[e]] + weight[<<par[e], e>>] <= cost[e]
      BY <1>15, <3>1 DEF Searching, ReachedFrom
    <3>3. cost2[par[e]] # None /\ cost2[par[e]] <= cost[par[e]]
      BY <1>11, <3>2
    <3>4. cost2[par[e]] \in Nat /\ cost[par[e]] \in Nat /\ weight[<<par[e], e>>] \in Nat
      BY <1>2, <1>10, <3>2, <3>3
    <3>5. cost2[par[e]] + weight[<<par[e], e>>] <= cost2[e]
      BY <3>1, <3>2, <3>3, <3>4
    <3> QED
      BY <3>1, <3>2, <3>3, <3>5 DEF ReachedFrom
  <2> QED
    BY <2>1, <2>2
<1>16. cost2[from] = 0 /\ par2[from] = None
  BY <1>7, <1>8 DEF Searching
<1> QED
  BY <1>10, <1>12, <1>13, <1>14, <1>15, <1>16 DEF Searching

\* The ways to the target, by the number of connections they may take.
Layers(ways, most, target, links, weight) ==
  /\ \A n \in 0..most : <<target, 0>> \in ways[n]
  /\ \A n \in 0..most : \A w \in ways[n] : w # <<target, 0>> =>
       n # 0 /\ \E e \in Edges, v \in ways[n - 1] :
                  <<e, v[1]>> \in links /\ w = <<e, weight[<<e, v[1]>>] + v[2]>>
  /\ \A n \in 1..most : \A v \in ways[n - 1], e \in Edges :
       <<e, v[1]>> \in links => <<e, weight[<<e, v[1]>>] + v[2]>> \in ways[n]

\* The recursion of the ways has a solution.
LEMMA WaysStages ==
  ASSUME NEW target, NEW barred, Cardinality(Edges) \in Nat
  PROVE  \A n \in 0..Cardinality(Edges) :
           WaysWithin(target, barred)[n] =
             {<<target, 0>>} \cup (IF n = 0 THEN {} ELSE OneMore(WaysWithin(target, barred)[n - 1], barred))
PROOF
<1> DEFINE most == Cardinality(Edges)
           More(v) == OneMore(v, barred)
           Stage(f, n) == {<<target, 0>>} \cup (IF n = 0 THEN {} ELSE More(f[n - 1]))
           Solved(N) == \E f : f = [n \in 0..N |-> Stage(f, n)]
<1>1. WaysWithin(target, barred) = CHOOSE f : f = [n \in 0..most |-> Stage(f, n)]
  BY Zenon DEF WaysWithin
<1> HIDE DEF More
<1>2. \A N \in Nat : Solved(N)
  <2> DEFINE Unsolved == {N \in Nat : ~Solved(N)}
  <2> SUFFICES ASSUME Unsolved # {} PROVE FALSE
    OBVIOUS
  <2>1. PICK m \in Unsolved : \A k \in Unsolved : m <= k
    <3>1. Unsolved \in SUBSET Nat
      OBVIOUS
    <3> HIDE DEF Unsolved
    <3> QED
      BY <3>1, LeastNatural
  <2>2. m \in Nat /\ ~Solved(m) /\ \A k \in Nat : k < m => Solved(k)
    <3>1. m \in Nat /\ ~Solved(m)
      BY <2>1
    <3>2. \A k \in Nat : ~Solved(k) => k \in Unsolved
      OBVIOUS
    <3> HIDE DEF Unsolved, Solved
    <3> QED
      BY <2>1, <3>1, <3>2
  <2>3. CASE m = 0
    <3> DEFINE g == [n \in 0..0 |-> {<<target, 0>>}]
    <3>1. g = [n \in 0..0 |-> Stage(g, n)]
      OBVIOUS
    <3> QED
      BY <2>2, <2>3, <3>1
  <2>4. CASE m # 0
    <3>1. m - 1 \in Nat /\ m - 1 < m
      BY <2>2, <2>4
    <3>2. Solved(m - 1)
      <4> HIDE DEF Solved
      <4> QED
        BY <2>2, <3>1
    <3>3. PICK f : f = [n \in 0..(m - 1) |-> Stage(f, n)]
      BY <3>2
    <3> DEFINE g == [n \in 0..m |-> Stage(f, n)]
    <3>4. ASSUME NEW n \in 0..m, n # 0 PROVE g[n - 1] = f[n - 1]
      <4>1. n - 1 \in 0..(m - 1) /\ n - 1 \in 0..m
        BY <2>2, <3>4
      <4>2. f[n - 1] = Stage(f, n - 1)
        BY <3>3, <4>1
      <4>3. g[n - 1] = Stage(f, n - 1)
        BY <4>1
      <4> QED
        BY <4>2, <4>3
    <3>5. ASSUME NEW n \in 0..m PROVE Stage(g, n) = Stage(f, n)
      <4> HIDE DEF g
      <4>1. CASE n = 0
        BY <4>1
      <4>2. CASE n # 0
        <5>1. g[n - 1] = f[n - 1]
          BY <3>4, <4>2
        <5> QED
          BY <4>2, <5>1
      <4> QED
        BY <4>1, <4>2
    <3>6. g = [n \in 0..m |-> Stage(g, n)]
      BY <3>5
    <3>7. Solved(m)
      BY <3>6
    <3> QED
      BY <2>2, <3>7
  <2> QED
    BY <2>3, <2>4
<1> DEFINE F == WaysWithin(target, barred)
<1>3. F = [n \in 0..most |-> Stage(F, n)]
  BY <1>1, <1>2
<1> HIDE DEF F
<1>4. \A n \in 0..most : F[n] = Stage(F, n)
  <2> HIDE DEF Stage
  <2> QED
    BY <1>3, Zenon
<1> QED
  BY <1>4, Zenon DEF F, More

LEMMA WeightFacts ==
  ASSUME open \in Markings, transitions = Candidates(open)
  PROVE  /\ Weights \in [Edges \X Edges -> Nat \ {0}]
         /\ \A e, f \in Edges : Weights[<<e, f>>] = CostOf(e, f)
         /\ Links \in SUBSET (Edges \X Edges)
         /\ \A e, f \in Edges : <<e, f>> \in Links <=> f \in Successors(e) /\ <<e, f>> \notin blocked
         /\ Cardinality(Edges) \in Nat
PROOF
<1>1. ASSUME NEW e \in Edges, NEW f \in Edges PROVE CostOf(e, f) \in Nat \ {0}
  <2>1. Size[f] \in Nat \ {0, 1} /\ Penalty \in Nat
    BY PlanningAssumption
  <2>2. CostOf(e, f) = Size[f] - 1 + Penalty \/ CostOf(e, f) = Size[f] - 1
    BY <2>1 DEF CostOf
  <2> QED
    BY <2>1, <2>2
<1>2. \A ef \in Edges \X Edges : CostOf(ef[1], ef[2]) \in Nat \ {0}
  BY <1>1
<1>3. Weights \in [Edges \X Edges -> Nat \ {0}]
  BY <1>2 DEF Weights
<1>4. \A e, f \in Edges : Weights[<<e, f>>] = CostOf(e, f)
  BY DEF Weights
<1>5. /\ Links \in SUBSET (Edges \X Edges)
      /\ \A e, f \in Edges : <<e, f>> \in Links <=> f \in Successors(e) /\ <<e, f>> \notin blocked
  BY DEF Links
<1>6. Cardinality(Edges) \in Nat
  BY PlanningAssumption, FS_CardinalityType
<1> QED
  BY <1>3, <1>4, <1>5, <1>6

LEMMA WaysAreLayers ==
  ASSUME open \in Markings, transitions = Candidates(open), NEW target \in Edges
  PROVE  Layers(WaysWithin(target, blocked), Cardinality(Edges), target, Links, Weights)
PROOF
<1> DEFINE F == WaysWithin(target, blocked)
           most == Cardinality(Edges)
           More(v) == OneMore(v, blocked)
<1>1. most \in Nat
  BY WeightFacts
<1>2. \A n \in 0..most : F[n] = {<<target, 0>>} \cup (IF n = 0 THEN {} ELSE More(F[n - 1]))
  BY <1>1, WaysStages
<1> HIDE DEF F, most
<1>3. ASSUME NEW v, NEW w \in More(v)
      PROVE  \E e \in Edges, u \in v : <<e, u[1]>> \in Links /\ w = <<e, Weights[<<e, u[1]>>] + u[2]>>
  <2>1. PICK x \in Edges \X v : /\ x[2][1] \in Successors(x[1]) /\ <<x[1], x[2][1]>> \notin blocked
                                /\ w = <<x[1], CostOf(x[1], x[2][1]) + x[2][2]>>
    BY <1>3, Zenon DEF OneMore
  <2>2. x[1] \in Edges /\ x[2] \in v
    BY <2>1
  <2>3. x[2][1] \in Edges
    BY <2>1 DEF Successors
  <2>4. <<x[1], x[2][1]>> \in Links /\ Weights[<<x[1], x[2][1]>>] = CostOf(x[1], x[2][1])
    BY <2>1, <2>2, <2>3, WeightFacts
  <2> QED
    BY <2>1, <2>2, <2>4
<1>4. ASSUME NEW v, NEW e \in Edges, NEW u \in v, <<e, u[1]>> \in Links
      PROVE  <<e, Weights[<<e, u[1]>>] + u[2]>> \in More(v)
  <2>1. u[1] \in Edges
    BY <1>4, WeightFacts
  <2>2. u[1] \in Successors(e) /\ <<e, u[1]>> \notin blocked /\ Weights[<<e, u[1]>>] = CostOf(e, u[1])
    BY <1>4, <2>1, WeightFacts
  <2> DEFINE x == <<e, u>>
  <2>3. x \in Edges \X v /\ x[1] = e /\ x[2] = u
    BY <1>4
  <2> HIDE DEF x
  <2> QED
    BY <2>2, <2>3, Zenon DEF OneMore
<1> HIDE DEF More
<1>5. \A n \in 0..most : <<target, 0>> \in F[n]
  BY <1>2
<1>6. ASSUME NEW n \in 0..most, NEW w \in F[n], w # <<target, 0>>
      PROVE  n # 0 /\ \E e \in Edges, v \in F[n - 1] :
                        <<e, v[1]>> \in Links /\ w = <<e, Weights[<<e, v[1]>>] + v[2]>>
  <2>1. n # 0 /\ w \in More(F[n - 1])
    BY <1>2, <1>6
  <2> QED
    BY <1>3, <2>1
<1>7. ASSUME NEW n \in 1..most, NEW v \in F[n - 1], NEW e \in Edges, <<e, v[1]>> \in Links
      PROVE  <<e, Weights[<<e, v[1]>>] + v[2]>> \in F[n]
  <2>1. n \in 0..most /\ n # 0
    BY <1>1
  <2>2. F[n] = {<<target, 0>>} \cup More(F[n - 1])
    BY <1>2, <2>1
  <2> QED
    BY <1>4, <1>7, <2>2
<1> QED
  BY <1>5, <1>6, <1>7 DEF Layers, F, most

\* What holds of the target and is carried over connections holds of every way.
LEMMA WaysInduct ==
  ASSUME NEW ways, NEW most \in Nat, NEW target, NEW links, NEW weight,
         Layers(ways, most, target, links, weight),
         NEW P, <<target, 0>> \in P,
         \A e \in Edges, v \in P : <<e, v[1]>> \in links => <<e, weight[<<e, v[1]>>] + v[2]>> \in P
  PROVE  \A n \in 0..most : ways[n] \subseteq P
PROOF
<1> DEFINE Fails == {n \in 0..most : ~(ways[n] \subseteq P)}
<1> SUFFICES ASSUME Fails # {} PROVE FALSE
  OBVIOUS
<1>1. PICK n \in Fails : \A k \in Fails : n <= k
  <2>1. Fails \in SUBSET Nat
    OBVIOUS
  <2> HIDE DEF Fails
  <2> QED
    BY <2>1, LeastNatural
<1>2. n \in 0..most /\ ~(ways[n] \subseteq P)
  BY <1>1
<1>3. PICK w \in ways[n] : w \notin P
  BY <1>2
<1>4. /\ n # 0
      /\ \E e \in Edges, v \in ways[n - 1] : <<e, v[1]>> \in links /\ w = <<e, weight[<<e, v[1]>>] + v[2]>>
  BY <1>2, <1>3 DEF Layers
<1>5. ways[n - 1] \subseteq P
  <2>1. n - 1 \in 0..most /\ ~(n <= n - 1)
    BY <1>2, <1>4
  <2>2. n - 1 \notin Fails
    <3> HIDE DEF Fails
    <3> QED
      BY <1>1, <2>1
  <2> QED
    BY <2>1, <2>2
<1> QED
  BY <1>3, <1>4, <1>5

\* The path is traced back from its end, a parent at a time.
LEMMA TraceStages ==
  ASSUME NEW parent, NEW e, Cardinality(Edges) \in Nat
  PROVE  \A n \in 0..Cardinality(Edges) :
           TraceBack(parent, e)[n] = IF n = 0 THEN <<e>> ELSE Longer(parent, TraceBack(parent, e)[n - 1])
PROOF
<1> DEFINE most == Cardinality(Edges)
           More(v) == Longer(parent, v)
           Stage(f, n) == IF n = 0 THEN <<e>> ELSE More(f[n - 1])
           Solved(N) == \E f : f = [n \in 0..N |-> Stage(f, n)]
<1>1. TraceBack(parent, e) = CHOOSE f : f = [n \in 0..most |-> Stage(f, n)]
  BY Zenon DEF TraceBack
<1> HIDE DEF More
<1>2. \A N \in Nat : Solved(N)
  <2> DEFINE Unsolved == {N \in Nat : ~Solved(N)}
  <2> SUFFICES ASSUME Unsolved # {} PROVE FALSE
    OBVIOUS
  <2>1. PICK m \in Unsolved : \A k \in Unsolved : m <= k
    <3>1. Unsolved \in SUBSET Nat
      OBVIOUS
    <3> HIDE DEF Unsolved
    <3> QED
      BY <3>1, LeastNatural
  <2>2. m \in Nat /\ ~Solved(m) /\ \A k \in Nat : k < m => Solved(k)
    <3>1. m \in Nat /\ ~Solved(m)
      BY <2>1
    <3>2. \A k \in Nat : ~Solved(k) => k \in Unsolved
      OBVIOUS
    <3> HIDE DEF Unsolved, Solved
    <3> QED
      BY <2>1, <3>1, <3>2
  <2>3. CASE m = 0
    <3> DEFINE g == [n \in 0..0 |-> <<e>>]
    <3>1. g = [n \in 0..0 |-> Stage(g, n)]
      OBVIOUS
    <3> QED
      BY <2>2, <2>3, <3>1
  <2>4. CASE m # 0
    <3>1. m - 1 \in Nat /\ m - 1 < m
      BY <2>2, <2>4
    <3>2. Solved(m - 1)
      <4> HIDE DEF Solved
      <4> QED
        BY <2>2, <3>1
    <3>3. PICK f : f = [n \in 0..(m - 1) |-> Stage(f, n)]
      BY <3>2
    <3> DEFINE g == [n \in 0..m |-> Stage(f, n)]
    <3>4. ASSUME NEW n \in 0..m, n # 0 PROVE g[n - 1] = f[n - 1]
      <4>1. n - 1 \in 0..(m - 1) /\ n - 1 \in 0..m
        BY <2>2, <3>4
      <4>2. f[n - 1] = Stage(f, n - 1)
        BY <3>3, <4>1
      <4>3. g[n - 1] = Stage(f, n - 1)
        BY <4>1
      <4> QED
        BY <4>2, <4>3
    <3>5. ASSUME NEW n \in 0..m PROVE Stage(g, n) = Stage(f, n)
      <4> HIDE DEF g
      <4>1. CASE n = 0
        BY <4>1
      <4>2. CASE n # 0
        <5>1. g[n - 1] = f[n - 1]
          BY <3>4, <4>2
        <5> QED
          BY <4>2, <5>1
      <4> QED
        BY <4>1, <4>2
    <3>6. g = [n \in 0..m |-> Stage(g, n)]
      BY <3>5
    <3>7. Solved(m)
      BY <3>6
    <3> QED
      BY <2>2, <3>7
  <2> QED
    BY <2>3, <2>4
<1> DEFINE F == TraceBack(parent, e)
<1>3. F = [n \in 0..most |-> Stage(F, n)]
  BY <1>1, <1>2
<1> HIDE DEF F
<1>4. \A n \in 0..most : F[n] = Stage(F, n)
  <2> HIDE DEF Stage
  <2> QED
    BY <1>3, Zenon
<1> QED
  BY <1>4, Zenon DEF F, More

\* The cost along the path is that of its connections.
LEMMA CostStages ==
  ASSUME Len(path) - 1 \in Nat
  PROVE  \A n \in 0..(Len(path) - 1) :
           CostTo[n] = IF n = 0 THEN 0 ELSE CostTo[n - 1] + CostOf(path[n], path[n + 1])
PROOF
<1> DEFINE most == Len(path) - 1
           More(v, n) == v + CostOf(path[n], path[n + 1])
           Stage(f, n) == IF n = 0 THEN 0 ELSE More(f[n - 1], n)
           Solved(N) == \E f : f = [n \in 0..N |-> Stage(f, n)]
<1>1. CostTo = CHOOSE f : f = [n \in 0..most |-> Stage(f, n)]
  BY Zenon DEF CostTo
<1> HIDE DEF More
<1>2. \A N \in Nat : Solved(N)
  <2> DEFINE Unsolved == {N \in Nat : ~Solved(N)}
  <2> SUFFICES ASSUME Unsolved # {} PROVE FALSE
    OBVIOUS
  <2>1. PICK m \in Unsolved : \A k \in Unsolved : m <= k
    <3>1. Unsolved \in SUBSET Nat
      OBVIOUS
    <3> HIDE DEF Unsolved
    <3> QED
      BY <3>1, LeastNatural
  <2>2. m \in Nat /\ ~Solved(m) /\ \A k \in Nat : k < m => Solved(k)
    <3>1. m \in Nat /\ ~Solved(m)
      BY <2>1
    <3>2. \A k \in Nat : ~Solved(k) => k \in Unsolved
      OBVIOUS
    <3> HIDE DEF Unsolved, Solved
    <3> QED
      BY <2>1, <3>1, <3>2
  <2>3. CASE m = 0
    <3> DEFINE g == [n \in 0..0 |-> 0]
    <3>1. g = [n \in 0..0 |-> Stage(g, n)]
      OBVIOUS
    <3> QED
      BY <2>2, <2>3, <3>1
  <2>4. CASE m # 0
    <3>1. m - 1 \in Nat /\ m - 1 < m
      BY <2>2, <2>4
    <3>2. Solved(m - 1)
      <4> HIDE DEF Solved
      <4> QED
        BY <2>2, <3>1
    <3>3. PICK f : f = [n \in 0..(m - 1) |-> Stage(f, n)]
      BY <3>2
    <3> DEFINE g == [n \in 0..m |-> Stage(f, n)]
    <3>4. ASSUME NEW n \in 0..m, n # 0 PROVE g[n - 1] = f[n - 1]
      <4>1. n - 1 \in 0..(m - 1) /\ n - 1 \in 0..m
        BY <2>2, <3>4
      <4>2. f[n - 1] = Stage(f, n - 1)
        BY <3>3, <4>1
      <4>3. g[n - 1] = Stage(f, n - 1)
        BY <4>1
      <4> QED
        BY <4>2, <4>3
    <3>5. ASSUME NEW n \in 0..m PROVE Stage(g, n) = Stage(f, n)
      <4> HIDE DEF g
      <4>1. CASE n = 0
        BY <4>1
      <4>2. CASE n # 0
        <5>1. g[n - 1] = f[n - 1]
          BY <3>4, <4>2
        <5> QED
          BY <4>2, <5>1
      <4> QED
        BY <4>1, <4>2
    <3>6. g = [n \in 0..m |-> Stage(g, n)]
      BY <3>5
    <3>7. Solved(m)
      BY <3>6
    <3> QED
      BY <2>2, <3>7
  <2> QED
    BY <2>3, <2>4
<1> DEFINE F == CostTo
<1>3. F = [n \in 0..most |-> Stage(F, n)]
  BY <1>1, <1>2
<1> HIDE DEF F
<1>4. \A n \in 0..most : F[n] = Stage(F, n)
  <2> HIDE DEF Stage
  <2> QED
    BY <1>3, Zenon
<1> QED
  BY <1>4, Zenon DEF F, More

\* No way is cheaper than the cost at which the target is taken from the frontier,
\* whatever the estimate, if no connection is shorter than it says.
LEMMA NoneCheaper ==
  ASSUME NEW front, NEW cost, NEW par, NEW links \in SUBSET (Edges \X Edges),
         NEW weight \in [Edges \X Edges -> Nat \ {0}], NEW from \in Edges, NEW target \in Edges,
         Searching(front, cost, par, links, weight, from, target),
         NEW ways, NEW most \in Nat, Layers(ways, most, target, links, weight),
         NEW h \in [Edges -> Nat], \A e, f \in Edges : <<e, f>> \in links => h[e] <= weight[<<e, f>>] + h[f],
         NEW node \in front, node.edge = target, node.cost <= cost[target],
         \A n \in front : node.cost + h[target] <= n.cost + h[n.edge]
  PROVE  /\ cost[target] \in Nat
         /\ \A n \in 0..most : \A w \in ways[n] :
              w \in Edges \X Nat /\ (cost[w[1]] # None => cost[target] <= cost[w[1]] + w[2])
PROOF
<1>1. \A f \in Edges : cost[f] = None \/ cost[f] \in Nat
  BY DEF Searching
<1>2. cost[target] \in Nat /\ node.cost = cost[target]
  <2>1. node.cost \in Nat /\ cost[target] # None /\ cost[target] <= node.cost
    BY DEF Searching
  <2> QED
    BY <1>1, <2>1
<1> DEFINE P == {w \in Edges \X Nat : /\ h[w[1]] <= w[2] + h[target]
                                      /\ cost[w[1]] # None => cost[target] <= cost[w[1]] + w[2]}
<1>3. <<target, 0>> \in P
  BY <1>2
<1>4. ASSUME NEW e \in Edges, NEW v \in P, <<e, v[1]>> \in links
      PROVE  <<e, weight[<<e, v[1]>>] + v[2]>> \in P
  <2> DEFINE f == v[1]
             m == v[2]
             d == weight[<<e, f>>]
  <2>1. /\ f \in Edges /\ m \in Nat /\ h[f] <= m + h[target]
        /\ cost[f] # None => cost[target] <= cost[f] + m
    BY <1>4
  <2>2. <<e, f>> \in links
    BY <1>4
  <2> HIDE DEF f, m
  <2>3. d \in Nat /\ h[e] <= d + h[f] /\ h[e] \in Nat /\ h[f] \in Nat /\ h[target] \in Nat
    BY <2>1, <2>2
  <2> HIDE DEF d
  <2>4. h[e] <= (d + m) + h[target] /\ d + m \in Nat
    BY <2>1, <2>3
  <2>5. ASSUME cost[e] # None PROVE cost[target] <= cost[e] + (d + m)
    <3>1. cost[e] \in Nat
      BY <1>1, <2>5
    <3>2. CASE [edge |-> e, cost |-> cost[e]] \in front
      <4>1. node.cost + h[target] <= cost[e] + h[e]
        BY <3>2
      <4> QED
        BY <1>2, <2>1, <2>3, <2>4, <3>1, <4>1
    <3>3. CASE Settled(e, cost, links, weight, target)
      <4>1. cost[f] # None /\ cost[f] <= cost[e] + d
        BY <2>1, <2>2, <3>3 DEF Settled, d
      <4>2. cost[f] \in Nat /\ cost[target] <= cost[f] + m
        BY <1>1, <2>1, <4>1
      <4> QED
        BY <1>2, <2>1, <2>3, <3>1, <4>1, <4>2
    <3> QED
      BY <2>5, <3>2, <3>3 DEF Searching
  <2>6. <<e, d + m>> \in P
    BY <2>4, <2>5
  <2> QED
    BY <2>6 DEF f, m, d
<1>5. \A n \in 0..most : ways[n] \subseteq P
  <2> HIDE DEF P
  <2> QED
    BY <1>3, <1>4, WaysInduct
<1> QED
  BY <1>2, <1>5

\* With an empty frontier nothing the search has reached leads to the target.
LEMMA NoneLeft ==
  ASSUME NEW cost, NEW par, NEW links \in SUBSET (Edges \X Edges),
         NEW weight \in [Edges \X Edges -> Nat \ {0}], NEW from \in Edges, NEW target \in Edges,
         Searching({}, cost, par, links, weight, from, target),
         NEW ways, NEW most \in Nat, Layers(ways, most, target, links, weight)
  PROVE  \A n \in 0..most : \A w \in ways[n] : w[1] # from
PROOF
<1> DEFINE P == {w \in Edges \X Nat : cost[w[1]] = None}
<1>1. <<target, 0>> \in P
  BY DEF Searching, Settled
<1>2. ASSUME NEW e \in Edges, NEW v \in P, <<e, v[1]>> \in links
      PROVE  <<e, weight[<<e, v[1]>>] + v[2]>> \in P
  <2>1. v[1] \in Edges /\ v[2] \in Nat /\ cost[v[1]] = None /\ weight[<<e, v[1]>>] \in Nat
    BY <1>2
  <2>2. cost[e] = None
    BY <1>2, <2>1 DEF Searching, Settled
  <2> QED
    BY <2>1, <2>2
<1>3. \A n \in 0..most : ways[n] \subseteq P
  <2> HIDE DEF P
  <2> QED
    BY <1>1, <1>2, WaysInduct
<1>4. cost[from] # None
  BY NoneIsNoNumber DEF Searching
<1> QED
  BY <1>3, <1>4

\* A part of the path, from some edge to the target: over connections, at costs
\* that grow, and as long as its edges have parents.
Traced(p, n, cost, links, weight, from, target) ==
  /\ p \in Seq(Edges) /\ Len(p) >= 1 /\ Len(p) <= n + 1 /\ p[Len(p)] = target
  /\ \A i \in 1..Len(p) : cost[p[i]] \in Nat
  /\ \A i \in 1..(Len(p) - 1) : <<p[i], p[i + 1]>> \in links /\ cost[p[i]] + weight[<<p[i], p[i + 1]>>] <= cost[p[i + 1]]
  /\ \A i, j \in 1..Len(p) : i < j => cost[p[i]] < cost[p[j]]
  /\ Len(p) = n + 1 \/ p[1] = from

LEMMA LongerSequence ==
  ASSUME NEW p \in Seq(Edges), NEW q \in Edges
  PROVE  /\ <<q>> \o p \in Seq(Edges) /\ Len(<<q>> \o p) = Len(p) + 1 /\ (<<q>> \o p)[1] = q
         /\ \A i \in 1..Len(p) : (<<q>> \o p)[i + 1] = p[i]
         /\ \A i \in 2..(Len(p) + 1) : (<<q>> \o p)[i] = p[i - 1]
PROOF
<1> QED
  OBVIOUS

\* One more parent.
LEMMA TraceLonger ==
  ASSUME NEW front, NEW cost, NEW par, NEW links \in SUBSET (Edges \X Edges),
         NEW weight \in [Edges \X Edges -> Nat \ {0}], NEW from \in Edges, NEW target \in Edges,
         Searching(front, cost, par, links, weight, from, target),
         NEW n \in Nat, NEW p, Traced(p, n, cost, links, weight, from, target)
  PROVE  Traced(Longer(par, p), n + 1, cost, links, weight, from, target)
PROOF
<1>1. p \in Seq(Edges) /\ Len(p) \in Nat /\ Len(p) >= 1 /\ Len(p) <= n + 1
  BY DEF Traced
<1>2. Head(p) = p[1] /\ p[1] \in Edges
  BY <1>1
<1>3. cost[p[1]] \in Nat
  BY <1>1 DEF Traced
<1>4. CASE par[p[1]] = None
  <2>1. Longer(par, p) = p
    BY <1>2, <1>4 DEF Longer
  <2>2. p[1] = from
    BY <1>2, <1>3, <1>4, NoneIsNoNumber DEF Searching, ReachedFrom
  <2> QED
    BY <1>1, <2>1, <2>2 DEF Traced
<1>5. CASE par[p[1]] # None
  <2> DEFINE q == par[p[1]]
             t == <<q>> \o p
  <2>1. p[1] # from
    BY <1>5 DEF Searching
  <2>2. q \in Edges /\ cost[q] # None /\ <<q, p[1]>> \in links /\ cost[q] + weight[<<q, p[1]>>] <= cost[p[1]]
    BY <1>2, <1>3, <2>1, NoneIsNoNumber DEF Searching, ReachedFrom
  <2>3. cost[q] \in Nat /\ weight[<<q, p[1]>>] \in Nat \ {0} /\ cost[q] < cost[p[1]]
    <3>1. cost[q] \in Nat
      BY <2>2 DEF Searching
    <3>2. weight[<<q, p[1]>>] \in Nat \ {0}
      BY <2>2
    <3>3. \A a, b, d \in Nat : d # 0 /\ a + d <= b => a < b
      OBVIOUS
    <3> HIDE DEF q
    <3> QED
      BY <1>3, <2>2, <3>1, <3>2, <3>3
  <2>4. Longer(par, p) = t /\ Len(p) = n + 1
    BY <1>2, <1>5, <2>1 DEF Longer, Traced
  <2> HIDE DEF q
  <2>5. /\ t \in Seq(Edges) /\ Len(t) = Len(p) + 1 /\ t[1] = q
        /\ \A i \in 1..Len(p) : t[i + 1] = p[i]
        /\ \A i \in 2..(Len(p) + 1) : t[i] = p[i - 1]
    BY <1>1, <2>2, LongerSequence
  <2> HIDE DEF t
  <2>6. Len(t) >= 1 /\ Len(t) <= (n + 1) + 1 /\ t[Len(t)] = target /\ Len(t) = (n + 1) + 1
    <3>1. t[Len(t)] = p[Len(p)]
      BY <1>1, <2>5
    <3> QED
      BY <1>1, <2>4, <2>5, <3>1 DEF Traced
  <2>7. \A i \in 1..Len(t) : i = 1 \/ (i - 1 \in 1..Len(p) /\ t[i] = p[i - 1])
    BY <1>1, <2>5
  <2>8. \A i \in 1..Len(t) : cost[t[i]] \in Nat
    BY <2>3, <2>5, <2>7 DEF Traced
  <2>9. ASSUME NEW i \in 1..(Len(t) - 1)
        PROVE  <<t[i], t[i + 1]>> \in links /\ cost[t[i]] + weight[<<t[i], t[i + 1]>>] <= cost[t[i + 1]]
    <3>1. i \in 1..Len(p) /\ t[i + 1] = p[i]
      BY <1>1, <2>5
    <3>2. CASE i = 1
      BY <2>2, <2>5, <3>1, <3>2
    <3>3. CASE i # 1
      <4>1. i - 1 \in 1..(Len(p) - 1) /\ (i - 1) + 1 = i /\ t[i] = p[i - 1]
        BY <1>1, <2>5, <3>1, <3>3
      <4>2. <<p[i - 1], p[i]>> \in links /\ cost[p[i - 1]] + weight[<<p[i - 1], p[i]>>] <= cost[p[i]]
        BY <4>1 DEF Traced
      <4> QED
        BY <3>1, <4>1, <4>2
    <3> QED
      BY <3>2, <3>3
  <2>10. ASSUME NEW i \in 1..Len(t), NEW j \in 1..Len(t), i < j
         PROVE  cost[t[i]] < cost[t[j]]
    <3>1. j - 1 \in 1..Len(p) /\ t[j] = p[j - 1] /\ cost[p[j - 1]] \in Nat
      BY <2>7, <2>10 DEF Traced
    <3>2. CASE i = 1
      <4>1. cost[p[1]] <= cost[p[j - 1]]
        <5>1. CASE j - 1 = 1
          <6>1. cost[p[1]] = cost[p[j - 1]]
            BY <5>1, Zenon
          <6> QED
            BY <1>3, <6>1
        <5>2. CASE j - 1 # 1
          <6>1. 1 \in 1..Len(p) /\ 1 < j - 1
            BY <1>1, <3>1, <5>2
          <6>2. cost[p[1]] < cost[p[j - 1]]
            BY <3>1, <6>1 DEF Traced
          <6> QED
            BY <1>3, <3>1, <6>2
        <5> QED
          BY <5>1, <5>2
      <4> QED
        BY <1>3, <2>3, <2>5, <3>1, <3>2, <4>1
    <3>3. CASE i # 1
      <4>1. i - 1 \in 1..Len(p) /\ t[i] = p[i - 1] /\ i - 1 < j - 1
        BY <2>7, <2>10, <3>3
      <4> QED
        BY <3>1, <4>1 DEF Traced
    <3> QED
      BY <3>2, <3>3
  <2>11. Traced(t, n + 1, cost, links, weight, from, target)
    BY <2>5, <2>6, <2>8, <2>9, <2>10 DEF Traced
  <2> QED
    BY <2>4, <2>11
<1> QED
  BY <1>4, <1>5

\* The path traced back from a target that was reached begins at the start.
LEMMA TraceFacts ==
  ASSUME NEW front, NEW cost, NEW par, NEW links \in SUBSET (Edges \X Edges),
         NEW weight \in [Edges \X Edges -> Nat \ {0}], NEW from \in Edges, NEW target \in Edges,
         Searching(front, cost, par, links, weight, from, target), cost[target] \in Nat
  PROVE  /\ Cardinality(Edges) \in Nat
         /\ Traced(Trace(par, target), Cardinality(Edges), cost, links, weight, from, target)
         /\ Trace(par, target)[1] = from
PROOF
<1> DEFINE most == Cardinality(Edges)
           F == TraceBack(par, target)
           Fails == {n \in 0..most : ~Traced(F[n], n, cost, links, weight, from, target)}
<1>1. most \in Nat /\ IsFiniteSet(Edges)
  BY PlanningAssumption, FS_CardinalityType
<1>2. \A n \in 0..most : F[n] = IF n = 0 THEN <<target>> ELSE Longer(par, F[n - 1])
  BY <1>1, TraceStages
<1>3. Traced(<<target>>, 0, cost, links, weight, from, target)
  <2> DEFINE one == <<target>>
  <2>1. one \in Seq(Edges) /\ Len(one) = 1 /\ one[1] = target
    OBVIOUS
  <2> HIDE DEF one
  <2>2. Traced(one, 0, cost, links, weight, from, target)
    BY <2>1 DEF Traced
  <2> QED
    BY <2>2 DEF one
<1> HIDE DEF F, most
<1>4. \A n \in 0..most : Traced(F[n], n, cost, links, weight, from, target)
  <2> SUFFICES ASSUME Fails # {} PROVE FALSE
    OBVIOUS
  <2>1. PICK n \in Fails : \A k \in Fails : n <= k
    <3>1. Fails \in SUBSET Nat
      OBVIOUS
    <3> HIDE DEF Fails
    <3> QED
      BY <3>1, LeastNatural
  <2>2. n \in 0..most /\ ~Traced(F[n], n, cost, links, weight, from, target)
    BY <2>1
  <2>3. n # 0
    BY <1>2, <1>3, <2>2
  <2>4. n - 1 \in 0..most /\ n - 1 \in Nat /\ ~(n <= n - 1) /\ (n - 1) + 1 = n
    BY <1>1, <2>2, <2>3
  <2>5. Traced(F[n - 1], n - 1, cost, links, weight, from, target)
    BY <2>1, <2>4
  <2>6. Traced(Longer(par, F[n - 1]), (n - 1) + 1, cost, links, weight, from, target)
    BY <2>4, <2>5, TraceLonger
  <2> QED
    BY <1>2, <2>2, <2>3, <2>4, <2>6
<1> DEFINE p == F[most]
<1>5. most \in 0..most /\ Traced(p, most, cost, links, weight, from, target)
  BY <1>1, <1>4
<1> HIDE DEF p
<1>6. p[1] = from
  <2> SUFFICES ASSUME p[1] # from PROVE FALSE
    OBVIOUS
  <2>1. p \in Seq(Edges) /\ Len(p) = most + 1
    BY <1>5 DEF Traced
  <2> DEFINE S == 1..(most + 1)
             f == [i \in S |-> p[i]]
  <2>2. f \in [S -> Edges] /\ \A i \in S : f[i] = p[i]
    BY <1>1, <2>1
  <2>3. IsFiniteSet(S) /\ Cardinality(S) = most + 1
    <3>1. most + 1 \in Int /\ ~(1 > most + 1) /\ (most + 1) - 1 + 1 = most + 1
      BY <1>1
    <3>2. /\ IsFiniteSet(1..(most + 1))
          /\ Cardinality(1..(most + 1)) = IF 1 > most + 1 THEN 0 ELSE (most + 1) - 1 + 1
      BY <3>1, FS_Interval
    <3> QED
      BY <3>1, <3>2
  <2> HIDE DEF f, S
  <2>4. Cardinality(Edges) < Cardinality(S)
    BY <1>1, <2>3 DEF most
  <2>5. PICK i, j \in S : i # j /\ f[i] = f[j]
    BY <1>1, <2>2, <2>3, <2>4, FS_PigeonHole
  <2>6. i \in 1..Len(p) /\ j \in 1..Len(p) /\ p[i] = p[j] /\ (i < j \/ j < i)
    BY <1>1, <2>1, <2>2, <2>5 DEF S
  <2>7. cost[p[i]] \in Nat /\ (cost[p[i]] < cost[p[j]] \/ cost[p[j]] < cost[p[i]])
    BY <1>5, <2>6 DEF Traced
  <2> QED
    BY <2>6, <2>7
<1>7. Trace(par, target) = p
  BY DEF Trace, F, most, p
<1> QED
  BY <1>1, <1>5, <1>6, <1>7 DEF most

\* The path's cost is at most the search's, and it is a way to the target.
LEMMA PathCostFacts ==
  ASSUME open \in Markings, transitions = Candidates(open), NEW cost, NEW from \in Edges, NEW target \in Edges,
         cost[from] = 0, path[1] = from,
         NEW most \in Nat, Traced(path, most, cost, Links, Weights, from, target),
         NEW ways, Layers(ways, most, target, Links, Weights)
  PROVE  PathCost \in Nat /\ PathCost <= cost[target] /\ <<from, PathCost>> \in ways[most]
PROOF
<1> DEFINE last == Len(path) - 1
           S == CostTo
<1>1. /\ path \in Seq(Edges) /\ last \in Nat /\ last <= most /\ Len(path) = last + 1
      /\ path[last + 1] = target
  BY DEF Traced
<1>2. \A n \in 0..last : S[n] = IF n = 0 THEN 0 ELSE S[n - 1] + CostOf(path[n], path[n + 1])
  BY <1>1, CostStages
<1>3. \A i \in 1..(last + 1) : path[i] \in Edges /\ cost[path[i]] \in Nat
  BY <1>1 DEF Traced
<1>4. \A i \in 1..last : /\ <<path[i], path[i + 1]>> \in Links
                         /\ cost[path[i]] + Weights[<<path[i], path[i + 1]>>] <= cost[path[i + 1]]
  BY <1>1 DEF Traced
<1>5. /\ Weights \in [Edges \X Edges -> Nat \ {0}]
      /\ \A e, f \in Edges : Weights[<<e, f>>] = CostOf(e, f)
  BY WeightFacts
<1> HIDE DEF last, S
<1>6. \A n \in 1..last : /\ n - 1 \in 0..last /\ n \in 1..(last + 1) /\ n + 1 \in 1..(last + 1)
                         /\ S[n] = S[n - 1] + Weights[<<path[n], path[n + 1]>>]
                         /\ Weights[<<path[n], path[n + 1]>>] \in Nat
  <2> SUFFICES ASSUME NEW n \in 1..last
               PROVE  /\ n - 1 \in 0..last /\ n \in 1..(last + 1) /\ n + 1 \in 1..(last + 1)
                      /\ S[n] = S[n - 1] + Weights[<<path[n], path[n + 1]>>]
                      /\ Weights[<<path[n], path[n + 1]>>] \in Nat
    OBVIOUS
  <2>1. n - 1 \in 0..last /\ n \in 1..(last + 1) /\ n + 1 \in 1..(last + 1) /\ n \in 0..last /\ n # 0
    BY <1>1
  <2>2. path[n] \in Edges /\ path[n + 1] \in Edges
    BY <1>3, <2>1
  <2>3. S[n] = S[n - 1] + CostOf(path[n], path[n + 1])
    BY <1>2, <2>1
  <2> QED
    BY <1>5, <2>1, <2>2, <2>3
<1>7. S[0] = 0
  BY <1>1, <1>2
<1>8. \A n \in 0..last : S[n] \in Nat /\ S[n] <= cost[path[n + 1]]
  <2> DEFINE Fails == {n \in 0..last : ~(S[n] \in Nat /\ S[n] <= cost[path[n + 1]])}
  <2> SUFFICES ASSUME Fails # {} PROVE FALSE
    OBVIOUS
  <2>1. PICK n \in Fails : \A k \in Fails : n <= k
    <3>1. Fails \in SUBSET Nat
      OBVIOUS
    <3> HIDE DEF Fails
    <3> QED
      BY <3>1, LeastNatural
  <2>2. n \in 0..last /\ ~(S[n] \in Nat /\ S[n] <= cost[path[n + 1]])
    BY <2>1
  <2>3. n # 0
    <3>1. S[0] <= cost[path[0 + 1]]
      BY <1>7
    <3> QED
      BY <1>7, <2>2, <3>1
  <2>4. n \in 1..last /\ n - 1 \in 0..last /\ ~(n <= n - 1) /\ (n - 1) + 1 = n
    BY <1>1, <2>2, <2>3
  <2>5. S[n - 1] \in Nat /\ S[n - 1] <= cost[path[n]]
    <3>1. n - 1 \notin Fails
      <4> HIDE DEF Fails
      <4> QED
        BY <2>1, <2>4
    <3>2. S[n - 1] \in Nat /\ S[n - 1] <= cost[path[(n - 1) + 1]]
      BY <2>4, <3>1
    <3> QED
      BY <2>4, <3>2
  <2>6. /\ S[n] = S[n - 1] + Weights[<<path[n], path[n + 1]>>]
        /\ Weights[<<path[n], path[n + 1]>>] \in Nat
        /\ cost[path[n]] + Weights[<<path[n], path[n + 1]>>] <= cost[path[n + 1]]
        /\ cost[path[n]] \in Nat /\ cost[path[n + 1]] \in Nat
    BY <1>3, <1>4, <1>6, <2>4
  <2>7. \A a, b, c, d \in Nat : a <= b /\ b + c <= d => a + c \in Nat /\ a + c <= d
    OBVIOUS
  <2>8. S[n] \in Nat /\ S[n] <= cost[path[n + 1]]
    BY <2>5, <2>6, <2>7
  <2> QED
    BY <2>2, <2>8
<1>9. S[last] \in Nat /\ S[last] <= cost[target]
  BY <1>1, <1>8
<1> DEFINE Rest(k) == <<path[last + 1 - k], S[last] - S[last - k]>>
           Late == {k \in 0..last : \E m \in k..most : Rest(k) \notin ways[m]}
<1>10. \A k \in 0..last : \A m \in k..most : Rest(k) \in ways[m]
  <2> HIDE DEF Rest
  <2> SUFFICES ASSUME Late # {} PROVE FALSE
    OBVIOUS
  <2>1. PICK k \in Late : \A l \in Late : k <= l
    <3>1. Late \in SUBSET Nat
      OBVIOUS
    <3> HIDE DEF Late
    <3> QED
      BY <3>1, LeastNatural
  <2>2. k \in 0..last /\ \E m \in k..most : Rest(k) \notin ways[m]
    BY <2>1
  <2>3. PICK m \in k..most : Rest(k) \notin ways[m]
    BY <2>2
  <2>4. k # 0
    <3>1. last + 1 - 0 = last + 1 /\ last - 0 = last /\ S[last] - S[last] = 0 /\ (k = 0 => m \in 0..most)
      BY <1>1, <1>9, <2>2, <2>3
    <3>2. Rest(0) = <<target, 0>>
      BY <1>1, <3>1 DEF Rest
    <3> QED
      BY <2>3, <3>1, <3>2 DEF Layers
  <2>5. k - 1 \in 0..last /\ ~(k <= k - 1) /\ m \in 1..most /\ m - 1 \in (k - 1)..most
    BY <1>1, <2>2, <2>3, <2>4
  <2>6. Rest(k - 1) \in ways[m - 1]
    <3>1. k - 1 \notin Late
      <4> HIDE DEF Late
      <4> QED
        BY <2>1, <2>5
    <3> QED
      BY <2>5, <3>1
  <2> DEFINE i == last + 1 - k
  <2>7. /\ i \in 1..last /\ last + 1 - (k - 1) = i + 1 /\ last - (k - 1) = i /\ last - k = i - 1
        /\ i \in 0..last /\ i - 1 \in 0..last
    BY <1>1, <2>2, <2>4
  <2>8. Rest(k - 1) = <<path[i + 1], S[last] - S[i]>> /\ Rest(k) = <<path[i], S[last] - S[i - 1]>>
    BY <2>7 DEF Rest
  <2> HIDE DEF i
  <2>9. path[i] \in Edges /\ <<path[i], path[i + 1]>> \in Links
    <3>1. i \in 1..(last + 1)
      BY <1>1, <2>7
    <3> QED
      BY <1>3, <1>4, <2>7, <3>1
  <2>10. <<path[i], Weights[<<path[i], path[i + 1]>>] + (S[last] - S[i])>> \in ways[m]
    <3> DEFINE v == Rest(k - 1)
    <3>1. v[1] = path[i + 1] /\ v[2] = S[last] - S[i] /\ v \in ways[m - 1]
      BY <2>6, <2>8
    <3> HIDE DEF v
    <3>2. <<path[i], Weights[<<path[i], v[1]>>] + v[2]>> \in ways[m]
      BY <2>5, <2>9, <3>1 DEF Layers
    <3> QED
      BY <3>1, <3>2
  <2>11. Weights[<<path[i], path[i + 1]>>] + (S[last] - S[i]) = S[last] - S[i - 1]
    <3>1. /\ S[i] = S[i - 1] + Weights[<<path[i], path[i + 1]>>] /\ Weights[<<path[i], path[i + 1]>>] \in Nat
          /\ S[i] \in Nat /\ S[i - 1] \in Nat
      BY <1>6, <1>8, <2>7
    <3>2. \A a, b, c, d \in Nat : a = b + c => c + (d - a) = d - b
      OBVIOUS
    <3> QED
      BY <1>9, <3>1, <3>2
  <2> QED
    BY <2>3, <2>8, <2>10, <2>11
<1>11. <<from, S[last]>> \in ways[most]
  <2>1. last \in 0..last /\ most \in last..most /\ last + 1 - last = 1 /\ last - last = 0
    BY <1>1
  <2>2. Rest(last) \in ways[most]
    <3> HIDE DEF Rest
    <3> QED
      BY <1>10, <2>1
  <2>3. S[last] - S[0] = S[last]
    BY <1>7, <1>9
  <2> QED
    BY <2>1, <2>2, <2>3
<1>12. PathCost = S[last]
  BY DEF PathCost, S, last
<1> QED
  BY <1>9, <1>11, <1>12

PlanTypes ==
  /\ open \in Markings /\ transitions = Candidates(open) /\ start \in Endpoints /\ goal \in Endpoints
  /\ estimate \in Estimates /\ left \in Nat /\ phase \in {"search", "assemble", "done", "failed"}

\* The target was taken from the frontier: nothing in it promised less.
Found ==
  /\ path = Trace(parents, goal.edge)
  /\ \E node \in frontier :
       /\ node.edge = goal.edge /\ node.cost <= costs[goal.edge]
       /\ \A n \in frontier :
            node.cost + estimate[<<node.edge, goal.edge>>] <= n.cost + estimate[<<n.edge, goal.edge>>]

SearchInv ==
  /\ PlanTypes
  /\ Searching(frontier, costs, parents, Links, Weights, start.edge, goal.edge)
  /\ phase = "assemble" => Found
  /\ phase # "failed" => reason = None
  /\ reason = "ROUTE_UNREACHABLE" => frontier = {} \/ left = 0

LEMMA EndpointFacts ==
  ASSUME PlanTypes
  PROVE  /\ start.edge \in Edges /\ goal.edge \in Edges /\ start.at \in Nat /\ goal.at \in Nat
         /\ start.at < Size[start.edge] /\ goal.at < Size[goal.edge]
PROOF
<1> QED
  BY PlanningAssumption DEF PlanTypes

\* A change of lanes the search takes is one the marking permits somewhere.
LEMMA ChangeFacts ==
  ASSUME PlanTypes, NEW e \in Edges, NEW f \in Edges
  PROVE  /\ transitions[<<e, f>>] = {i \in 0..(Size[e] - 1) : \A k \in i..(i + Change) : k < Size[e] /\ <<e, f, k>> \in open}
         /\ IsChange(e, f) => \E i \in Nat : <<e, f, i>> \in open
PROOF
<1>1. transitions[<<e, f>>] = {i \in 0..(Size[e] - 1) : \A k \in i..(i + Change) : k < Size[e] /\ <<e, f, k>> \in open}
  BY DEF PlanTypes, Candidates
<1>2. ASSUME IsChange(e, f) PROVE \E i \in Nat : <<e, f, i>> \in open
  <2>1. PICK i \in transitions[<<e, f>>] : TRUE
    BY <1>2 DEF IsChange
  <2>2. Size[e] \in Nat /\ Change \in Nat
    BY PlanningAssumption
  <2>3. i \in Nat /\ i \in i..(i + Change)
    BY <1>1, <2>1, <2>2
  <2> QED
    BY <1>1, <2>1, <2>3
<1> QED
  BY <1>1, <1>2

\* The estimate is no longer than a connection and what is estimated after it.
LEMMA EstimateFacts ==
  ASSUME PlanTypes, NEW target \in Edges
  PROVE  /\ \A e \in Edges : estimate[<<e, target>>] \in Nat
         /\ \A e, f \in Edges : <<e, f>> \in Links =>
              estimate[<<e, target>>] <= Weights[<<e, f>>] + estimate[<<f, target>>]
PROOF
<1>1. estimate \in [Edges \X Edges -> Nat]
  BY PlanningAssumption DEF PlanTypes
<1>2. ASSUME NEW e \in Edges, NEW f \in Edges, <<e, f>> \in Links
      PROVE  estimate[<<e, target>>] <= Weights[<<e, f>>] + estimate[<<f, target>>]
  <2>1. f \in Successors(e) /\ Weights[<<e, f>>] = CostOf(e, f)
    BY <1>2, WeightFacts DEF PlanTypes
  <2>2. <<e, f>> \in Follows \cup {<<m[1], m[2]>> : m \in UNION Markings}
    <3>1. CASE <<e, f>> \in Follows
      BY <3>1
    <3>2. CASE IsChange(e, f)
      <4>1. PICK i \in Nat : <<e, f, i>> \in open
        BY <3>2, ChangeFacts
      <4> DEFINE m == <<e, f, i>>
      <4>2. m \in UNION Markings /\ <<e, f>> = <<m[1], m[2]>>
        BY <4>1 DEF PlanTypes
      <4> HIDE DEF m
      <4> QED
        BY <4>2
    <3> QED
      BY <2>1, <3>1, <3>2 DEF Successors
  <2>3. estimate[<<e, target>>] <= Size[f] - 1 + estimate[<<f, target>>]
    <3> DEFINE ef == <<e, f>>
    <3>1. ef \in Follows \cup {<<m[1], m[2]>> : m \in UNION Markings} /\ ef[1] = e /\ ef[2] = f
      BY <2>2
    <3> HIDE DEF ef
    <3>2. estimate[<<ef[1], target>>] <= Size[ef[2]] - 1 + estimate[<<ef[2], target>>]
      BY <3>1, PlanningAssumption DEF PlanTypes
    <3> QED
      BY <3>1, <3>2
  <2>4. Size[f] \in Nat /\ Penalty \in Nat /\ CostOf(e, f) >= Size[f] - 1 /\ CostOf(e, f) \in Int
    <3>1. Size[f] \in Nat /\ Penalty \in Nat
      BY PlanningAssumption
    <3>2. CostOf(e, f) = Size[f] - 1 + Penalty \/ CostOf(e, f) = Size[f] - 1 + 0
      BY DEF CostOf
    <3> QED
      BY <3>1, <3>2
  <2>5. estimate[<<e, target>>] \in Nat /\ estimate[<<f, target>>] \in Nat
    BY <1>1
  <2> QED
    BY <2>1, <2>3, <2>4, <2>5
<1> QED
  BY <1>1, <1>2

LEMMA SearchTraced ==
  ASSUME PlanTypes, Searching(frontier, costs, parents, Links, Weights, start.edge, goal.edge), costs[goal.edge] \in Nat
  PROVE  /\ Traced(Trace(parents, goal.edge), Cardinality(Edges), costs, Links, Weights, start.edge, goal.edge)
         /\ Trace(parents, goal.edge)[1] = start.edge
PROOF
<1> DEFINE s == start.edge
           g == goal.edge
<1>1. s \in Edges /\ g \in Edges /\ costs[g] \in Nat /\ open \in Markings /\ transitions = Candidates(open)
  BY EndpointFacts DEF PlanTypes
<1>2. Weights \in [Edges \X Edges -> Nat \ {0}] /\ Links \in SUBSET (Edges \X Edges)
  BY <1>1, WeightFacts
<1>3. Searching(frontier, costs, parents, Links, Weights, s, g)
  OBVIOUS
<1> HIDE DEF s, g
<1>4. /\ Cardinality(Edges) \in Nat
      /\ Traced(Trace(parents, g), Cardinality(Edges), costs, Links, Weights, s, g)
      /\ Trace(parents, g)[1] = s
  BY <1>1, <1>2, <1>3, TraceFacts
<1> QED
  BY <1>4 DEF s, g

\* The search is exact: what it found is the cheapest way, and it gave up when
\* there was none or it had to stop.
LEMMA SearchFindsCheapest ==
  ASSUME SearchInv
  PROVE  SearchIsExact
PROOF
<1> DEFINE s == start.edge
           g == goal.edge
           most == Cardinality(Edges)
           ways == WaysWithin(g, blocked)
           costs0 == {w[2] : w \in {v \in Ways(g, blocked) : v[1] = s}}
<1>1. s \in Edges /\ g \in Edges /\ open \in Markings /\ transitions = Candidates(open) /\ PlanTypes
  BY EndpointFacts DEF SearchInv, PlanTypes
<1>2. /\ Weights \in [Edges \X Edges -> Nat \ {0}] /\ Links \in SUBSET (Edges \X Edges) /\ most \in Nat
      /\ Layers(ways, most, g, Links, Weights)
  BY <1>1, WeightFacts, WaysAreLayers
<1>3. Searching(frontier, costs, parents, Links, Weights, s, g)
  BY DEF SearchInv
<1>4. Ways(g, blocked) = ways[most] /\ most \in 0..most
  BY <1>2 DEF Ways
<1>5. ASSUME phase = "assemble" PROVE PathCost = LeastOf(costs0)
  <2>1. Found
    BY <1>5 DEF SearchInv
  <2>2. PICK node \in frontier :
          /\ node.edge = g /\ node.cost <= costs[g]
          /\ \A n \in frontier : node.cost + estimate[<<g, g>>] <= n.cost + estimate[<<n.edge, g>>]
    BY <2>1 DEF Found
  <2> DEFINE h == [e \in Edges |-> estimate[<<e, g>>]]
  <2>3. h \in [Edges -> Nat] /\ \A e, f \in Edges : <<e, f>> \in Links => h[e] <= Weights[<<e, f>>] + h[f]
    BY <1>1, EstimateFacts
  <2>4. \A n \in frontier : node.cost + h[g] <= n.cost + h[n.edge]
    <3>1. \A n \in frontier : n.edge \in Edges
      BY <1>3 DEF Searching
    <3> QED
      BY <1>1, <2>2, <3>1
  <2> HIDE DEF h, ways, s, g, most
  <2>5. /\ costs[g] \in Nat
        /\ \A w \in ways[most] : w \in Edges \X Nat /\ (costs[w[1]] # None => costs[g] <= costs[w[1]] + w[2])
    <3>1. s \in Edges /\ g \in Edges /\ node.edge = g /\ node.cost <= costs[g]
      BY <1>1, <2>2
    <3>2. /\ costs[g] \in Nat
          /\ \A n \in 0..most : \A w \in ways[n] :
               w \in Edges \X Nat /\ (costs[w[1]] # None => costs[g] <= costs[w[1]] + w[2])
      BY <1>2, <1>3, <2>2, <2>3, <2>4, <3>1, NoneCheaper, ZenonT(60)
    <3> QED
      BY <1>4, <3>2
  <2>6. /\ Traced(path, most, costs, Links, Weights, s, g) /\ path[1] = s
    <3>1. path = Trace(parents, g) /\ most = Cardinality(Edges)
      BY <2>1 DEF Found, g, most
    <3>2. /\ Traced(Trace(parents, g), Cardinality(Edges), costs, Links, Weights, s, g)
          /\ Trace(parents, g)[1] = s
      BY <1>1, <1>3, <2>5, SearchTraced DEF s, g
    <3> QED
      BY <3>1, <3>2, Zenon
  <2>7. costs[s] = 0
    BY <1>3 DEF Searching
  <2>8. PathCost \in Nat /\ PathCost <= costs[g] /\ <<s, PathCost>> \in ways[most]
    BY <1>1, <1>2, <2>6, <2>7, PathCostFacts
  <2>9. PathCost \in costs0
    BY <1>4, <2>8
  <2>10. ASSUME NEW m \in costs0 PROVE m \in Nat /\ PathCost <= m
    <3>1. PICK w \in ways[most] : w[1] = s /\ m = w[2]
      BY <1>4, <2>10
    <3>2. m \in Nat /\ costs[g] <= costs[s] + m
      BY <2>5, <2>7, <3>1, NoneIsNoNumber
    <3> QED
      BY <2>5, <2>7, <2>8, <3>2
  <2> HIDE DEF costs0
  <2> DEFINE least == LeastOf(costs0)
  <2>11. least \in costs0 /\ \A m \in costs0 : least <= m
    BY <2>9, <2>10 DEF LeastOf
  <2>12. least <= PathCost /\ PathCost <= least /\ least \in Nat
    BY <2>9, <2>10, <2>11
  <2> QED
    BY <2>8, <2>12
<1>6. ASSUME reason = "ROUTE_UNREACHABLE" PROVE costs0 = {} \/ left = 0
  <2>1. CASE frontier = {}
    <3> HIDE DEF ways, s, g, most
    <3>1. \A w \in ways[most] : w[1] # s
      BY <1>1, <1>2, <1>3, <1>4, <2>1, NoneLeft
    <3> QED
      BY <1>4, <3>1
  <2> QED
    BY <1>6, <2>1 DEF SearchInv
<1> QED
  BY <1>5, <1>6 DEF SearchIsExact

-----------------------------------------------------------------------------
(* The samples of the route: put together in order, and what is cut out.     *)

\* The samples of lanes and connectors.
Points == [lane : Edges, to : Edges, at : Nat, part : Nat]

\* Each sample can be driven to from the one before.
InOrder(points) == \A i \in 1..(Len(points) - 1) : Ahead(points[i], points[i + 1])

\* A change begins far enough from the end of the one before.
Spaced(points) ==
  \A i, j \in 2..(Len(points) - 1) :
    i <= j /\ points[i - 1].part > 0 /\ points[i].part = 0 /\ points[j].part = 0 /\ points[j + 1].part > 0
    => j - i >= RunUp

\* Samples are put after those that are there.
LEMMA Appended ==
  ASSUME NEW a \in Seq(Points), NEW b \in Seq(Points), InOrder(a), InOrder(b), a # <<>>,
         b # <<>> => Ahead(a[Len(a)], b[1])
  PROVE  /\ a \o b \in Seq(Points) /\ Len(a \o b) = Len(a) + Len(b) /\ Len(a) \in Nat /\ Len(b) \in Nat /\ a \o b # <<>>
         /\ \A n \in 1..Len(a) : (a \o b)[n] = a[n]
         /\ \A n \in 1..Len(b) : (a \o b)[Len(a) + n] = b[n]
         /\ InOrder(a \o b)
PROOF
<1>1. /\ a \o b \in Seq(Points) /\ Len(a \o b) = Len(a) + Len(b) /\ Len(a) \in Nat \ {0} /\ Len(b) \in Nat
      /\ \A n \in 1..Len(a) : (a \o b)[n] = a[n]
      /\ \A n \in 1..Len(b) : (a \o b)[Len(a) + n] = b[n]
  OBVIOUS
<1> DEFINE c == a \o b
           la == Len(a)
           lb == Len(b)
<1>2. \A n \in (la + 1)..(la + lb) : n - la \in 1..lb /\ c[n] = b[n - la]
  <2>1. \A n \in (la + 1)..(la + lb) : n - la \in 1..lb /\ la + (n - la) = n
    BY <1>1
  <2> QED
    BY <1>1, <2>1
<1>3. ASSUME NEW n \in 1..(la + lb - 1) PROVE Ahead(c[n], c[n + 1])
  <2>1. CASE n < la
    <3>1. n \in 1..(la - 1) /\ n \in 1..la /\ n + 1 \in 1..la
      BY <1>1, <2>1
    <3> QED
      BY <1>1, <3>1 DEF InOrder
  <2>2. CASE n = la
    <3>1. lb > 0 /\ 1 \in 1..lb /\ b # <<>>
      BY <1>1, <2>2
    <3>2. c[n] = a[la] /\ c[n + 1] = b[1]
      BY <1>1, <2>2, <3>1
    <3> QED
      BY <3>1, <3>2
  <2>3. CASE n > la
    <3>1. /\ n \in (la + 1)..(la + lb) /\ n + 1 \in (la + 1)..(la + lb) /\ n - la \in 1..(lb - 1)
          /\ (n + 1) - la = (n - la) + 1
      BY <1>1, <2>3
    <3>2. c[n] = b[n - la] /\ c[n + 1] = b[(n - la) + 1]
      BY <1>2, <3>1
    <3> HIDE DEF c, la, lb
    <3> QED
      BY <3>1, <3>2 DEF InOrder, lb
  <2> QED
    BY <1>1, <2>1, <2>2, <2>3
<1> QED
  BY <1>1, <1>3 DEF InOrder

LEMMA SamplesFacts ==
  ASSUME NEW e \in Edges, NEW c \in Nat, NEW i \in Nat, c <= i
  PROVE  /\ Samples(e, c, i) \in Seq(Points) /\ Len(Samples(e, c, i)) = i - c + 1
         /\ \A n \in 1..(i - c + 1) : Samples(e, c, i)[n] = OnLane(e, c + n - 1)
         /\ InOrder(Samples(e, c, i))
         /\ Tail(Samples(e, c, i)) \in Seq(Points) /\ Len(Tail(Samples(e, c, i))) = i - c
         /\ \A n \in 1..(i - c) : Tail(Samples(e, c, i))[n] = OnLane(e, c + n)
         /\ InOrder(Tail(Samples(e, c, i)))
PROOF
<1> DEFINE S == Samples(e, c, i)
           l == i - c + 1
<1>1. l \in Nat /\ l >= 1
  OBVIOUS
<1>2. \A n \in 1..l : OnLane(e, c + n - 1) \in Points
  BY DEF OnLane, Points
<1>3. S = [n \in 1..l |-> OnLane(e, c + n - 1)]
  BY DEF Samples
<1> HIDE DEF S, l
<1>4. S \in Seq(Points) /\ Len(S) = l /\ \A n \in 1..l : S[n] = OnLane(e, c + n - 1)
  BY <1>1, <1>2, <1>3
<1>5. Tail(S) \in Seq(Points) /\ Len(Tail(S)) = l - 1 /\ \A n \in 1..(l - 1) : Tail(S)[n] = S[n + 1]
  BY <1>1, <1>4
<1>6. \A n \in 1..(l - 1) : n + 1 \in 1..l /\ c + (n + 1) - 1 = c + n
  BY <1>1
<1>7. \A n \in 1..(l - 1) : Tail(S)[n] = OnLane(e, c + n)
  BY <1>4, <1>5, <1>6
<1>8. \A n \in Nat : Ahead(OnLane(e, n), OnLane(e, n + 1))
  BY DEF Ahead, OnLane
<1>9. ASSUME NEW n \in 1..(l - 1) PROVE Ahead(S[n], S[n + 1])
  <2>1. n \in 1..l /\ n + 1 \in 1..l /\ c + (n + 1) - 1 = (c + n - 1) + 1 /\ c + n - 1 \in Nat
    BY <1>1
  <2> QED
    BY <1>4, <1>8, <2>1
<1>10. ASSUME NEW n \in 1..(l - 2) PROVE Ahead(Tail(S)[n], Tail(S)[n + 1])
  <2>1. n \in 1..(l - 1) /\ n + 1 \in 1..(l - 1) /\ c + (n + 1) = (c + n) + 1 /\ c + n \in Nat
    BY <1>1
  <2> QED
    BY <1>7, <1>8, <2>1
<1>11. InOrder(S)
  BY <1>4, <1>9 DEF InOrder
<1>12. InOrder(Tail(S))
  <2>1. Len(Tail(S)) - 1 = l - 2
    BY <1>1, <1>5
  <2> QED
    BY <1>10, <2>1 DEF InOrder
<1>13. l - 1 = i - c
  BY DEF l
<1> QED
  BY <1>4, <1>5, <1>7, <1>11, <1>12, <1>13 DEF S, l

\* The samples of a lane, from where the route enters it, are in order after the
\* assembled ones.
LaidAfter(laid, a, e, c, i) ==
  /\ laid \in Seq(Points) /\ InOrder(laid) /\ laid # <<>>
  /\ laid[1] = (IF a = <<>> THEN OnLane(e, c) ELSE a[1])
  /\ laid[Len(laid)] = OnLane(e, i)
  /\ Len(laid) \in Nat /\ Len(a) \in Nat /\ Len(laid) >= Len(a) + (i - c)
  /\ \A n \in 1..Len(a) : laid[n] = a[n]
  /\ \A n \in (Len(a) + 1)..Len(laid) : laid[n].part = 0
Enters(a, e, c) ==
  a # <<>> => \/ a[Len(a)] = OnLane(e, c)
              \/ c = 0 /\ \E d \in Edges : <<d, e>> \in Follows /\ a[Len(a)] = OnLane(d, Size[d] - 1)

LEMMA LaidSamples ==
  ASSUME NEW a \in Seq(Points), InOrder(a), NEW e \in Edges, NEW c \in Nat, NEW i \in Nat, c <= i, Enters(a, e, c)
  PROVE  LaidAfter(Joined(a, Samples(e, c, i)), a, e, c, i)
PROOF
<1> DEFINE S == Samples(e, c, i)
           J == Joined(a, S)
           l == i - c
<1>0. \A n \in Int : OnLane(e, n).part = 0
  BY DEF OnLane
<1>1. /\ S \in Seq(Points) /\ Len(S) = l + 1 /\ l \in Nat /\ InOrder(S) /\ S # <<>>
      /\ \A n \in 1..(l + 1) : S[n] = OnLane(e, c + n - 1)
      /\ Tail(S) \in Seq(Points) /\ Len(Tail(S)) = l /\ InOrder(Tail(S))
      /\ \A n \in 1..l : Tail(S)[n] = OnLane(e, c + n)
  BY SamplesFacts
<1>2. Len(a) \in Nat /\ c + l = i /\ c + (l + 1) - 1 = i /\ c + 1 - 1 = c /\ (a # <<>> => Len(a) >= 1)
  OBVIOUS
<1> HIDE DEF S, l
<1>3. S[1] = OnLane(e, c) /\ S[l + 1] = OnLane(e, i)
  <2>1. 1 \in 1..(l + 1) /\ l + 1 \in 1..(l + 1)
    BY <1>1
  <2> QED
    BY <1>1, <1>2, <2>1
<1>4. CASE a = <<>>
  <2>1. J = S
    <3>1. a \o S = S
      BY <1>1, <1>4
    <3> QED
      BY <1>4, <3>1 DEF Joined
  <2>2. \A n \in (Len(a) + 1)..Len(J) : J[n].part = 0
    <3>1. \A n \in (Len(a) + 1)..Len(J) : n \in 1..(l + 1) /\ c + n - 1 \in Int
      BY <1>1, <1>4, <2>1
    <3> QED
      BY <1>0, <1>1, <2>1, <3>1
  <2>3. Len(J) >= Len(a) + l /\ Len(J) \in Nat
    BY <1>1, <1>4, <2>1
  <2>4. \A n \in 1..Len(a) : J[n] = a[n]
    BY <1>4
  <2> HIDE DEF J
  <2> QED
    BY <1>1, <1>2, <1>3, <1>4, <2>1, <2>2, <2>3, <2>4 DEF LaidAfter, S, J, l
<1>5. ASSUME a # <<>>,
             NEW b \in Seq(Points), InOrder(b), J = a \o b, b # <<>> => Ahead(a[Len(a)], b[1]),
             Len(b) \in {l, l + 1}, \A n \in 1..Len(b) : b[n].part = 0,
             (a \o b)[Len(a \o b)] = OnLane(e, i)
      PROVE  /\ J \in Seq(Points) /\ InOrder(J) /\ J # <<>>
             /\ J[1] = a[1] /\ J[Len(J)] = OnLane(e, i) /\ Len(J) \in Nat /\ Len(J) >= Len(a) + l
             /\ \A n \in 1..Len(a) : J[n] = a[n]
             /\ \A n \in (Len(a) + 1)..Len(J) : J[n].part = 0
  <2>1. /\ J \in Seq(Points) /\ Len(J) = Len(a) + Len(b) /\ Len(a) \in Nat /\ Len(b) \in Nat /\ J # <<>>
        /\ \A n \in 1..Len(a) : J[n] = a[n]
        /\ \A n \in 1..Len(b) : J[Len(a) + n] = b[n]
        /\ InOrder(J)
    BY <1>5, Appended
  <2> HIDE DEF J
  <2>2. \A n \in (Len(a) + 1)..Len(J) : n - Len(a) \in 1..Len(b) /\ Len(a) + (n - Len(a)) = n
    BY <2>1
  <2>3. \A n \in (Len(a) + 1)..Len(J) : J[n].part = 0
    BY <1>5, <2>1, <2>2
  <2>4. 1 \in 1..Len(a) /\ Len(J) >= Len(a) + l
    BY <1>1, <1>2, <1>5, <2>1
  <2> QED
    BY <1>5, <2>1, <2>3, <2>4
<1>6. CASE a # <<>> /\ S[1] = a[Len(a)]
  <2>1. J = a \o Tail(S)
    BY <1>6 DEF Joined
  <2>2. \A n \in 1..l : Tail(S)[n].part = 0
    BY <1>0, <1>1
  <2>3. Tail(S) # <<>> => Ahead(a[Len(a)], Tail(S)[1])
    <3>1. ASSUME Tail(S) # <<>> PROVE 1 \in 1..l
      BY <1>1, <3>1
    <3>2. Ahead(OnLane(e, c), OnLane(e, c + 1))
      BY DEF Ahead, OnLane
    <3> QED
      BY <1>1, <1>3, <1>6, <3>1, <3>2
  <2>4. (a \o Tail(S))[Len(a \o Tail(S))] = OnLane(e, i)
    <3>1. CASE l = 0
      <4>1. Len(Tail(S)) = 0 /\ Tail(S) \in Seq(Points) /\ c = i
        BY <1>1, <1>2, <3>1
      <4>2. Tail(S) = <<>>
        BY <4>1, EmptySeq
      <4>3. a \o <<>> = a
        OBVIOUS
      <4> QED
        BY <1>2, <1>3, <1>6, <3>1, <4>1, <4>3, <4>2
    <3>2. CASE l # 0
      <4>1. l \in 1..l /\ Len(a \o Tail(S)) = Len(a) + l
        BY <1>1, <1>2, <3>2
      <4>2. (a \o Tail(S))[Len(a) + l] = Tail(S)[l]
        BY <1>1, <4>1
      <4> QED
        BY <1>1, <1>2, <4>1, <4>2
    <3> QED
      BY <3>1, <3>2
  <2> HIDE DEF J
  <2> QED
    BY <1>1, <1>2, <1>5, <1>6, <2>1, <2>2, <2>3, <2>4 DEF LaidAfter, S, J, l
<1>7. CASE a # <<>> /\ S[1] # a[Len(a)]
  <2>1. J = a \o S
    BY <1>7 DEF Joined
  <2>2. \A n \in 1..(l + 1) : S[n].part = 0
    <3>1. \A n \in 1..(l + 1) : c + n - 1 \in Int
      BY <1>1
    <3> QED
      BY <1>0, <1>1, <3>1
  <2>3. Ahead(a[Len(a)], S[1])
    <3>1. PICK d \in Edges : c = 0 /\ <<d, e>> \in Follows /\ a[Len(a)] = OnLane(d, Size[d] - 1)
      BY <1>3, <1>7 DEF Enters
    <3>2. Ahead(OnLane(d, Size[d] - 1), OnLane(e, 0))
      BY <3>1 DEF Ahead, OnLane
    <3> QED
      BY <1>3, <3>1, <3>2
  <2>4. (a \o S)[Len(a \o S)] = OnLane(e, i)
    <3>1. Len(a \o S) = Len(a) + (l + 1) /\ l + 1 \in 1..Len(S)
      BY <1>1
    <3>2. (a \o S)[Len(a) + (l + 1)] = S[l + 1]
      BY <1>1, <3>1
    <3> QED
      BY <1>3, <3>1, <3>2
  <2> HIDE DEF J
  <2> QED
    BY <1>1, <1>2, <1>5, <1>7, <2>1, <2>2, <2>3, <2>4 DEF LaidAfter, S, J, l
<1> QED
  BY <1>4, <1>6, <1>7

LEMMA Remainders ==
  ASSUME NEW n \in Nat \ {0}
  PROVE  n % n = 0 /\ \A k \in 0..(n - 1) : k % n = k
PROOF
<1> QED
  OBVIOUS

\* A connector begins where the marking lets the change be made, takes it step
\* by step, and ends on the lane it changes to.
LEMMA ConnectorFacts ==
  ASSUME PlanTypes, NEW e \in Edges, NEW f \in Edges, NEW i \in transitions[<<e, f>>]
  PROVE  /\ i \in Nat /\ i + Change < Size[e] /\ i + Change < Size[f] /\ Change \in Nat \ {0}
         /\ Connector(e, f, i) \in Seq(Points) /\ Len(Connector(e, f, i)) = Change
         /\ InOrder(Connector(e, f, i))
         /\ Connector(e, f, i)[Change] = OnLane(f, i + Change)
         /\ Ahead(OnLane(e, i), Connector(e, f, i)[1])
         /\ \A k \in 1..Change : Connector(e, f, i)[k].part = 0 => k = Change
PROOF
<1>1. /\ Change \in Nat \ {0} /\ Size[e] \in Nat /\ Size[f] \in Nat
  BY PlanningAssumption
<1>2. i \in Nat /\ \A k \in i..(i + Change) : k < Size[e] /\ <<e, f, k>> \in open
  BY <1>1, ChangeFacts
<1>3. i + Change < Size[e] /\ \A k \in 1..Change : <<e, f, i + k>> \in open
  <2>1. i + Change \in i..(i + Change) /\ \A k \in 1..Change : i + k \in i..(i + Change)
    BY <1>1, <1>2
  <2> QED
    BY <1>2, <2>1
<1>4. i + Change < Size[f]
  <2> DEFINE m == <<e, f, i + Change>>
  <2>1. m \in UNION Markings
    BY <1>1, <1>3 DEF PlanTypes
  <2>2. m[3] < Size[m[2]]
    <3> HIDE DEF m
    <3> QED
      BY <2>1, PlanningAssumption
  <2> QED
    BY <2>2
<1> DEFINE C == Connector(e, f, i)
<1>5. \A k \in 1..Change : Across(e, f, i + k, k) \in Points
  BY <1>1, <1>2 DEF Across, OnLane, Points
<1>6. C = [k \in 1..Change |-> Across(e, f, i + k, k)]
  BY DEF Connector
<1> HIDE DEF C
<1>7. C \in Seq(Points) /\ Len(C) = Change /\ \A k \in 1..Change : C[k] = Across(e, f, i + k, k)
  BY <1>1, <1>5, <1>6
<1>8. C[Change] = OnLane(f, i + Change)
  BY <1>1, <1>7 DEF Across
<1>9. \A k \in 1..Change : C[k].part = 0 => k = Change
  BY <1>1, <1>7 DEF Across
<1>10. Ahead(OnLane(e, i), C[1])
  <2>1. 1 \in 1..Change /\ <<e, f, i + 1>> \in open /\ 0 + 1 = 1
    BY <1>1, <1>3
  <2>2. CASE Change = 1
    <3>1. C[1] = OnLane(f, i + 1) /\ 1 % Change = 0
      BY <1>1, <1>7, <2>1, <2>2, Remainders DEF Across
    <3> QED
      BY <2>1, <3>1 DEF Ahead, OnLane
  <2>3. CASE Change # 1
    <3>1. C[1] = [lane |-> e, to |-> f, at |-> i + 1, part |-> 1] /\ 1 \in 0..(Change - 1)
      BY <1>1, <1>7, <2>1, <2>3 DEF Across
    <3>2. 1 % Change = 1
      BY <1>1, <3>1, Remainders
    <3> QED
      BY <2>1, <3>1, <3>2 DEF Ahead, OnLane
  <2> QED
    BY <2>2, <2>3
<1>11. ASSUME NEW k \in 1..(Change - 1) PROVE Ahead(C[k], C[k + 1])
  <2>1. /\ k \in 1..Change /\ k + 1 \in 1..Change /\ k # Change /\ k > 0
        /\ i + (k + 1) = (i + k) + 1 /\ <<e, f, (i + k) + 1>> \in open
    BY <1>1, <1>2, <1>3
  <2>2. C[k] = [lane |-> e, to |-> f, at |-> i + k, part |-> k] /\ C[k + 1] = Across(e, f, (i + k) + 1, k + 1)
    BY <1>7, <2>1 DEF Across
  <2>3. CASE k + 1 = Change
    <3>1. C[k + 1] = OnLane(f, (i + k) + 1) /\ (k + 1) % Change = 0
      BY <1>1, <2>2, <2>3, Remainders DEF Across
    <3> QED
      BY <2>1, <2>2, <3>1 DEF Ahead, OnLane
  <2>4. CASE k + 1 # Change
    <3>1. C[k + 1] = [lane |-> e, to |-> f, at |-> (i + k) + 1, part |-> k + 1] /\ k + 1 \in 0..(Change - 1)
      BY <1>1, <2>1, <2>2, <2>4 DEF Across
    <3>2. (k + 1) % Change = k + 1
      BY <1>1, <3>1, Remainders
    <3> QED
      BY <2>1, <2>2, <3>1, <3>2 DEF Ahead
  <2> QED
    BY <2>3, <2>4
<1>12. InOrder(C)
  BY <1>7, <1>11 DEF InOrder
<1> QED
  BY <1>1, <1>2, <1>3, <1>4, <1>7, <1>8, <1>9, <1>10, <1>12 DEF C

\* Where samples of lanes only are put at the end, no change begins among them.
LEMMA SpacedSamples ==
  ASSUME NEW a \in Seq(Points), Spaced(a), NEW b \in Seq(Points), Len(a) <= Len(b),
         \A n \in 1..Len(a) : b[n] = a[n], \A n \in (Len(a) + 1)..Len(b) : b[n].part = 0
  PROVE  Spaced(b)
PROOF
<1>0. Len(a) \in Nat /\ Len(b) \in Nat
  OBVIOUS
<1>1. ASSUME NEW i \in 2..(Len(b) - 1), NEW j \in 2..(Len(b) - 1), i <= j,
             b[i - 1].part > 0, b[i].part = 0, b[j].part = 0, b[j + 1].part > 0
      PROVE  j - i >= RunUp
  <2>1. j + 1 <= Len(a)
    <3>1. SUFFICES ASSUME j + 1 > Len(a) PROVE FALSE
      BY <1>0
    <3>2. j + 1 \in (Len(a) + 1)..Len(b)
      BY <1>0, <3>1
    <3>3. b[j + 1].part = 0
      BY <1>1, <3>2
    <3> QED
      BY <1>1, <3>3
  <2>2. /\ i \in 2..(Len(a) - 1) /\ j \in 2..(Len(a) - 1) /\ i - 1 \in 1..Len(a) /\ i \in 1..Len(a)
        /\ j \in 1..Len(a) /\ j + 1 \in 1..Len(a)
    BY <1>0, <1>1, <2>1
  <2>3. b[i - 1] = a[i - 1] /\ b[i] = a[i] /\ b[j] = a[j] /\ b[j + 1] = a[j + 1]
    BY <2>2
  <2> QED
    BY <1>1, <2>2, <2>3 DEF Spaced
<1> QED
  BY <1>1 DEF Spaced

\* Where a connector is put at the end, its change begins far enough from the
\* ends of the changes before it.
LEMMA SpacedChange ==
  ASSUME NEW a \in Seq(Points), Spaced(a), NEW b \in Seq(Points), NEW n \in 0..Len(a), Len(a) - n >= RunUp \/ n = 0,
         RunUp \in Nat, n > 0 => a[n].part = 0, \A k \in (n + 1)..Len(a) : a[k].part = 0,
         \A k \in 1..Len(a) : b[k] = a[k], Len(a) <= Len(b),
         \A k \in (Len(a) + 1)..Len(b) : b[k].part = 0 => k = Len(b)
  PROVE  Spaced(b)
PROOF
<1>0. Len(a) \in Nat /\ Len(b) \in Nat
  OBVIOUS
<1>1. ASSUME NEW i \in 2..(Len(b) - 1), NEW j \in 2..(Len(b) - 1), i <= j,
             b[i - 1].part > 0, b[i].part = 0, b[j].part = 0, b[j + 1].part > 0
      PROVE  j - i >= RunUp
  <2>1. j <= Len(a)
    <3>1. SUFFICES ASSUME j > Len(a) PROVE FALSE
      BY <1>0
    <3>2. j \in (Len(a) + 1)..Len(b) /\ j # Len(b)
      BY <1>0, <3>1
    <3> QED
      BY <1>1, <3>2
  <2>2. /\ i - 1 \in 1..Len(a) /\ i \in 1..Len(a) /\ j \in 1..Len(a) /\ i <= j
    BY <1>0, <1>1, <2>1
  <2>3. b[i - 1] = a[i - 1] /\ b[i] = a[i] /\ b[j] = a[j]
    BY <2>2
  <2>4. CASE j < Len(a)
    <3>1. j + 1 \in 1..Len(a) /\ i \in 2..(Len(a) - 1) /\ j \in 2..(Len(a) - 1)
      BY <1>0, <2>2, <2>4
    <3>2. b[j + 1] = a[j + 1]
      BY <3>1
    <3> QED
      BY <1>1, <2>3, <3>1, <3>2 DEF Spaced
  <2>5. CASE j = Len(a)
    <3>1. i - 1 < n
      <4>1. SUFFICES ASSUME i - 1 >= n PROVE FALSE
        BY <1>0, <2>2
      <4>2. a[i - 1].part = 0
        <5>1. i - 1 = n \/ i - 1 \in (n + 1)..Len(a)
          BY <1>0, <2>2, <4>1
        <5>2. i - 1 = n => n > 0
          BY <2>2
        <5> QED
          BY <5>1, <5>2
      <4> QED
        BY <1>1, <2>3, <4>2
    <3> QED
      BY <1>0, <2>2, <2>5, <3>1
  <2> QED
    BY <1>0, <2>1, <2>4, <2>5
<1> QED
  BY <1>1 DEF Spaced

LEMMA LeastIn ==
  ASSUME NEW S \in SUBSET Nat, S # {}
  PROVE  LeastOf(S) \in S /\ \A m \in S : LeastOf(S) <= m
PROOF
<1>1. \E n \in S : \A m \in S : n <= m
  BY LeastNatural
<1> QED
  BY <1>1 DEF LeastOf

LEMMA DistanceFacts ==
  ASSUME NEW p \in Points, NEW q \in Points
  PROVE  Between(p, q) \in Nat /\ Between(p, p) = 0
PROOF
<1>1. \A a \in Int : a * a \in Nat /\ a - a = 0
  OBVIOUS
<1>2. \A a, b \in Int : a * b \in Int /\ a - b \in Int /\ a + b \in Int
  OBVIOUS
<1>3. \A a, b \in Nat : a + b \in Nat
  OBVIOUS
<1>4. ASSUME NEW r \in Points PROVE X(r) \in Int /\ Y(r) \in Int
  <2>1. /\ Change \in Int /\ First[r.lane] \in Int /\ Dir[r.lane] \in Int /\ Row[r.lane] \in Int /\ Row[r.to] \in Int
        /\ r.at \in Int /\ r.part \in Int
    BY PlanningAssumption DEF Points
  <2>2. Dir[r.lane] * r.at \in Int /\ Change - r.part \in Int
    BY <1>2, <2>1
  <2>3. First[r.lane] + Dir[r.lane] * r.at \in Int
    BY <1>2, <2>1, <2>2
  <2>4. X(r) \in Int
    BY <1>2, <2>1, <2>3, Zenon DEF X
  <2>5. (Change - r.part) * Row[r.lane] \in Int /\ r.part * Row[r.to] \in Int
    BY <1>2, <2>1, <2>2, Zenon
  <2>6. Y(r) \in Int
    BY <1>2, <2>5, Zenon DEF Y
  <2> QED
    BY <2>4, <2>6
<1>5. ASSUME NEW a \in Points, NEW b \in Points
      PROVE  /\ X(a) - X(b) \in Int /\ Y(a) - Y(b) \in Int
             /\ Between(a, b) = (X(a) - X(b)) * (X(a) - X(b)) + (Y(a) - Y(b)) * (Y(a) - Y(b))
  BY <1>2, <1>4, Zenon DEF Between
<1>6. Between(p, q) \in Nat
  <2>1. (X(p) - X(q)) * (X(p) - X(q)) \in Nat /\ (Y(p) - Y(q)) * (Y(p) - Y(q)) \in Nat
    BY <1>1, <1>5, Zenon
  <2> QED
    BY <1>3, <1>5, <2>1, Zenon
<1>7. Between(p, p) = 0
  <2>1. X(p) - X(p) = 0 /\ Y(p) - Y(p) = 0
    BY <1>1, <1>4, Zenon
  <2> QED
    BY <1>5, <2>1
<1> QED
  BY <1>6, <1>7

\* The sample next to a point is one of them; it is the first if the point is.
LEMMA ClosestFacts ==
  ASSUME NEW points \in Seq(Points), NEW from \in 1..Len(points), NEW p \in Points
  PROVE  /\ ClosestIndex(points, from, p) \in from..Len(points)
         /\ points[from] = p => ClosestIndex(points, from, p) = from
PROOF
<1> DEFINE span == from..Len(points)
           near == {i \in span : \A j \in span : Between(p, points[i]) <= Between(p, points[j])}
<1>1. \A i \in span : points[i] \in Points
  OBVIOUS
<1>2. \A i \in span : Between(p, points[i]) \in Nat
  BY <1>1, DistanceFacts
<1>3. span \in SUBSET Nat /\ from \in span /\ \A i \in span : from <= i
  OBVIOUS
<1> DEFINE gaps == {Between(p, points[i]) : i \in span}
<1> HIDE DEF span
<1>4. gaps \in SUBSET Nat /\ gaps # {}
  BY <1>2, <1>3
<1>5. PICK g \in gaps : \A h \in gaps : g <= h
  BY <1>4, LeastNatural, Zenon
<1>6. near # {}
  BY <1>5
<1>7. near \in SUBSET Nat
  BY <1>3
<1>8. LeastOf(near) \in near /\ \A m \in near : LeastOf(near) <= m
  BY <1>6, <1>7, LeastIn, Zenon
<1>9. ClosestIndex(points, from, p) = LeastOf(near)
  BY DEF ClosestIndex, span
<1> DEFINE least == LeastOf(near)
<1>10. least \in span
  BY <1>8
<1>11. ASSUME points[from] = p PROVE from \in near
  <2>1. Between(p, points[from]) = 0
    BY <1>11, DistanceFacts
  <2> QED
    BY <1>2, <1>3, <2>1
<1> HIDE DEF near
<1>12. ASSUME points[from] = p PROVE least = from
  <2>1. least <= from /\ from <= least /\ least \in Nat
    BY <1>3, <1>8, <1>10, <1>11, <1>12
  <2> QED
    BY <1>3, <2>1
<1> QED
  BY <1>9, <1>10, <1>12 DEF span

LEMMA UsableFacts ==
  ASSUME PlanTypes, entering \in Nat, NEW e \in Edges, NEW f \in Edges, NEW i \in Usable(e, f)
  PROVE  i \in transitions[<<e, f>>] /\ i \in Nat /\ i >= entering + RunUp /\ RunUp \in Nat
PROOF
<1> DEFINE earliest == LeastOf({Size[e] - 1, entering + RunUp})
<1>1. i \in transitions[<<e, f>>] /\ i >= earliest
  BY DEF Usable
<1>2. i \in Nat /\ i + Change < Size[e] /\ Change \in Nat \ {0} /\ RunUp \in Nat /\ Size[e] \in Nat \ {0, 1}
  BY <1>1, ConnectorFacts, PlanningAssumption
<1>3. earliest \in {Size[e] - 1, entering + RunUp}
  <2>1. {Size[e] - 1, entering + RunUp} \in SUBSET Nat /\ {Size[e] - 1, entering + RunUp} # {}
    BY <1>2
  <2> QED
    BY <2>1, LeastIn, Zenon
<1> HIDE DEF earliest
<1> QED
  BY <1>1, <1>2, <1>3

-----------------------------------------------------------------------------
\* The path follows the map's connections from the start.
Linked(p) ==
  /\ p \in Seq(Edges) /\ Len(p) >= 1 /\ p[1] = start.edge
  /\ \A i \in 1..(Len(p) - 1) : <<p[i], p[i + 1]>> \in Links

\* The samples laid so far lead from the start to where the path's next edge is
\* entered.
Assembling ==
  /\ Linked(path) /\ leg \in 1..(Len(path) + 1) /\ entering \in Nat
  /\ leg <= Len(path) => entering < Size[path[leg]]
  /\ assembled \in Seq(Points) /\ InOrder(assembled) /\ Spaced(assembled)
  /\ leg = 1 => assembled = <<>> /\ entering = start.at
  /\ leg > 1 => assembled # <<>> /\ assembled[1] = OnLane(start.edge, start.at)
  /\ leg \in 2..Len(path) =>
       \/ assembled[Len(assembled)] = OnLane(path[leg], entering)
       \/ /\ entering = 0 /\ <<path[leg - 1], path[leg]>> \in Follows
          /\ assembled[Len(assembled)] = OnLane(path[leg - 1], Size[path[leg - 1]] - 1)

PlanInv ==
  /\ SearchInv /\ RouteIsDrivable
  /\ phase = "search" => assembled = <<>>
  /\ phase = "assemble" => Assembling

searchVars == <<open, transitions, start, goal, estimate, blocked, frontier, costs, parents>>

LEMMA SearchKept ==
  ASSUME PlanInv, UNCHANGED searchVars
  PROVE  /\ Links' = Links /\ Weights' = Weights
         /\ Searching(frontier, costs, parents, Links, Weights, start.edge, goal.edge)'
PROOF
<1>1. Links' = Links
  BY DEF searchVars, Links, Successors, IsChange
<1>2. Weights' = Weights
  BY DEF searchVars, Weights, CostOf, IsChange
<1> QED
  BY <1>1, <1>2 DEF PlanInv, SearchInv, searchVars, Searching, Settled, ReachedFrom

LEMMA OrderKept ==
  ASSUME UNCHANGED open, NEW s, assembled' = s, InOrder(s), Spaced(s)
  PROVE  InOrder(assembled)' /\ Spaced(assembled)'
PROOF
<1>1. InOrder(assembled)'
  BY DEF InOrder, Ahead
<1>2. Spaced(assembled)'
  BY DEF Spaced
<1> QED
  BY <1>1, <1>2

LEMMA PlanInvInit ==
  ASSUME PlanInit
  PROVE  PlanInv
PROOF
<1>1. PlanTypes
  BY PlanningAssumption DEF PlanInit, PlanTypes
<1>2. Searching(frontier, costs, parents, Links, Weights, start.edge, goal.edge)
  BY <1>1, EndpointFacts, SearchBegins DEF PlanInit
<1> QED
  BY <1>1, <1>2, PlanningAssumption DEF PlanInit, PlanInv, SearchInv, RouteIsDrivable

LEMMA GiveKeeps ==
  ASSUME PlanInv, phase \in {"search", "assemble"}, NEW why, Give(why),
         why = "ROUTE_UNREACHABLE" => frontier = {} \/ left = 0
  PROVE  PlanInv' /\ RetriesAdvance
PROOF
<1>1. Searching(frontier, costs, parents, Links, Weights, start.edge, goal.edge)'
  BY SearchKept DEF searchVars, Give
<1>2. PlanTypes'
  BY DEF PlanInv, SearchInv, PlanTypes, Give, Candidates
<1> QED
  BY <1>1, <1>2 DEF Give, PlanInv, SearchInv, RouteIsDrivable, RetriesAdvance

LEMMA UnreachableKeeps ==
  ASSUME PlanInv, Unreachable
  PROVE  PlanInv' /\ RetriesAdvance
PROOF
<1> QED
  BY GiveKeeps DEF Unreachable

LEMMA PopKeeps ==
  ASSUME PlanInv, Pop
  PROVE  PlanInv' /\ RetriesAdvance
PROOF
<1> DEFINE s == start.edge
           g == goal.edge
<1>1. /\ phase = "search" /\ left > 0 /\ left' = left - 1
      /\ UNCHANGED <<open, transitions, start, goal, estimate, blocked, assembled, route, reason>>
      /\ assembled = <<>> /\ reason = None
      /\ Searching(frontier, costs, parents, Links, Weights, s, g)
      /\ PlanTypes /\ s \in Edges /\ g \in Edges
  BY EndpointFacts DEF Pop, PlanInv, SearchInv
<1>2. PICK node \in {n \in frontier : \A m \in frontier :
                       n.cost + estimate[<<n.edge, g>>] <= m.cost + estimate[<<m.edge, g>>]} :
        LET better == IF node.cost > costs[node.edge] THEN {} ELSE Better(node) IN
        IF node.cost <= costs[node.edge] /\ node.edge = g
        THEN /\ phase' = "assemble" /\ path' = Trace(parents, g) /\ leg' = 1 /\ entering' = start.at
             /\ UNCHANGED <<frontier, costs, parents>>
        ELSE /\ costs' = [f \in Edges |-> IF f \in better THEN node.cost + CostOf(node.edge, f) ELSE costs[f]]
             /\ parents' = [f \in Edges |-> IF f \in better THEN node.edge ELSE parents[f]]
             /\ frontier' = (frontier \ {node})
                              \cup {[edge |-> f, cost |-> node.cost + CostOf(node.edge, f)] : f \in better}
             /\ UNCHANGED <<phase, path, leg, entering>>
  BY DEF Pop
<1>3. node \in frontier /\ node.edge \in Edges /\ node.cost \in Nat /\ costs[node.edge] # None
  BY <1>1, <1>2 DEF Searching
<1>4. /\ Weights \in [Edges \X Edges -> Nat \ {0}] /\ Links \in SUBSET (Edges \X Edges)
      /\ \A e, f \in Edges : Weights[<<e, f>>] = CostOf(e, f)
      /\ \A e, f \in Edges : <<e, f>> \in Links <=> f \in Successors(e) /\ <<e, f>> \notin blocked
  BY <1>1, WeightFacts DEF PlanTypes
<1>5. Links' = Links /\ Weights' = Weights
  BY <1>1 DEF Links, Weights, Successors, CostOf, IsChange
<1>6. phase' \in {"search", "assemble"} /\ PlanTypes'
  <2>1. phase' \in {"search", "assemble"}
    BY <1>1, <1>2
  <2>2. left' \in Nat
    BY <1>1 DEF PlanTypes
  <2> QED
    BY <1>1, <2>1, <2>2 DEF PlanTypes, Candidates
<1>7. CASE node.cost <= costs[node.edge] /\ node.edge = g
  <2>1. /\ phase' = "assemble" /\ path' = Trace(parents, g) /\ leg' = 1 /\ entering' = start.at
        /\ UNCHANGED <<frontier, costs, parents>>
    BY <1>2, <1>7
  <2>2. Searching(frontier, costs, parents, Links, Weights, start.edge, goal.edge)'
    BY <1>1, <2>1, SearchKept DEF searchVars
  <2>3. Found'
    BY <1>1, <1>2, <1>7, <2>1 DEF Found
  <2>4. costs[g] \in Nat
    BY <1>1, <1>3, <1>7 DEF Searching
  <2>5. Traced(path', Cardinality(Edges), costs, Links, Weights, s, g) /\ path'[1] = s
    BY <1>1, <2>1, <2>4, SearchTraced
  <2>6. /\ path' \in Seq(Edges) /\ Len(path') \in Nat /\ Len(path') >= 1
        /\ \A i \in 1..(Len(path') - 1) : <<path'[i], path'[i + 1]>> \in Links
    BY <2>5 DEF Traced
  <2>7. Linked(path)'
    BY <1>1, <1>5, <2>5, <2>6 DEF Linked
  <2>8. start.at \in Nat /\ start.at < Size[s]
    BY <1>1, EndpointFacts
  <2>9. <<>> \in Seq(Points) /\ InOrder(<<>>) /\ Spaced(<<>>)
    BY DEF InOrder, Spaced
  <2>10. assembled' = <<>> /\ InOrder(assembled)' /\ Spaced(assembled)'
    BY <1>1, <2>9, OrderKept
  <2>11. Assembling'
    BY <1>1, <2>1, <2>5, <2>6, <2>7, <2>8, <2>9, <2>10 DEF Assembling
  <2> QED
    BY <1>1, <1>6, <2>1, <2>2, <2>3, <2>11 DEF PlanInv, SearchInv, RouteIsDrivable, RetriesAdvance
<1>8. CASE ~(node.cost <= costs[node.edge] /\ node.edge = g)
  <2> DEFINE better == IF node.cost > costs[node.edge] THEN {} ELSE Better(node)
             weighed == IF node.cost > costs[node.edge] THEN {}
                        ELSE {f \in Edges : /\ <<node.edge, f>> \in Links
                                            /\ costs[f] = None \/ node.cost + Weights[<<node.edge, f>>] < costs[f]}
  <2>1. better = weighed
    <3>1. Better(node) = {f \in Edges : /\ <<node.edge, f>> \in Links
                                        /\ costs[f] = None \/ node.cost + Weights[<<node.edge, f>>] < costs[f]}
      <4>1. \A f \in Better(node) : f \in Edges
        BY DEF Better, Successors
      <4> QED
        BY <1>3, <1>4, <4>1 DEF Better
    <3> QED
      BY <3>1
  <2>2. \A f \in weighed : f \in Edges /\ CostOf(node.edge, f) = Weights[<<node.edge, f>>]
    BY <1>3, <1>4
  <2>3. /\ costs' = [f \in Edges |-> IF f \in better THEN node.cost + CostOf(node.edge, f) ELSE costs[f]]
        /\ parents' = [f \in Edges |-> IF f \in better THEN node.edge ELSE parents[f]]
        /\ frontier' = (frontier \ {node})
                         \cup {[edge |-> f, cost |-> node.cost + CostOf(node.edge, f)] : f \in better}
        /\ UNCHANGED <<phase, path, leg, entering>>
    BY <1>2, <1>8
  <2> HIDE DEF better
  <2>4. /\ costs' = [f \in Edges |-> IF f \in weighed THEN node.cost + Weights[<<node.edge, f>>] ELSE costs[f]]
        /\ parents' = [f \in Edges |-> IF f \in weighed THEN node.edge ELSE parents[f]]
        /\ frontier' = (frontier \ {node})
                         \cup {[edge |-> f, cost |-> node.cost + Weights[<<node.edge, f>>]] : f \in weighed}
    <3> HIDE DEF weighed
    <3> QED
      BY <2>1, <2>2, <2>3
  <2>5. Searching(frontier', costs', parents', Links, Weights, s, g)
    <3>1. /\ s \in Edges /\ g \in Edges /\ node \in frontier /\ ~(node.cost <= costs[node.edge] /\ node.edge = g)
          /\ Searching(frontier, costs, parents, Links, Weights, s, g)
          /\ Weights \in [Edges \X Edges -> Nat \ {0}] /\ Links \in SUBSET (Edges \X Edges)
      BY <1>1, <1>3, <1>4, <1>8
    <3>2. Expanded(node, weighed, frontier, costs, parents, Links, Weights, frontier', costs', parents')
      BY <2>4 DEF Expanded
    <3> HIDE DEF weighed, s, g
    <3> QED
      BY <3>1, <3>2, SearchGoesOn, ZenonT(60)
  <2>6. Searching(frontier, costs, parents, Links, Weights, start.edge, goal.edge)'
    BY <1>1, <1>5, <2>5 DEF Searching, Settled, ReachedFrom
  <2>7. phase' = "search"
    BY <1>1, <2>3
  <2> QED
    BY <1>1, <1>6, <2>6, <2>7, NoneIsNoNumber, PlanningAssumption DEF PlanInv, SearchInv, RouteIsDrivable, RetriesAdvance
<1> QED
  BY <1>7, <1>8

LEMMA NoRoomKeeps ==
  ASSUME PlanInv, NoRoom
  PROVE  PlanInv' /\ RetriesAdvance
PROOF
<1> DEFINE link == <<path[leg], path[leg + 1]>>
<1>1. phase = "assemble" /\ reason = None /\ PlanTypes
  BY DEF NoRoom, PlanInv, SearchInv
<1>2. CASE link \in blocked
  <2>1. Give("ROUTE_LANE_CHANGE_UNAVAILABLE")
    BY <1>2 DEF NoRoom
  <2> QED
    BY <1>1, <2>1, GiveKeeps
<1>3. CASE link \notin blocked
  <2>1. SearchAgain(blocked \cup {link}) /\ UNCHANGED <<open, transitions, start, goal, estimate, route, reason>>
    BY <1>3 DEF NoRoom
  <2>2. Searching({[edge |-> start.edge, cost |-> 0]}, [e \in Edges |-> IF e = start.edge THEN 0 ELSE None],
                  [e \in Edges |-> None], Links', Weights', start.edge, goal.edge)
    BY <1>1, EndpointFacts, SearchBegins
  <2>3. Searching(frontier, costs, parents, Links, Weights, start.edge, goal.edge)'
    BY <2>1, <2>2 DEF SearchAgain, Searching, Settled, ReachedFrom
  <2>4. PlanTypes'
    BY <1>1, <2>1, PlanningAssumption DEF PlanTypes, SearchAgain, Candidates
  <2>5. RetriesAdvance
    BY <1>3, <2>1 DEF SearchAgain, RetriesAdvance
  <2> QED
    BY <1>1, <2>1, <2>3, <2>4, <2>5, PlanningAssumption DEF SearchAgain, PlanInv, SearchInv, RouteIsDrivable
<1> QED
  BY <1>2, <1>3

\* A lane of the path is laid, and the change to the next if there is one.
LEMMA LayKeeps ==
  ASSUME PlanInv, Lay
  PROVE  PlanInv' /\ RetriesAdvance
PROOF
<1> DEFINE e == path[leg]
           f == IF leg < Len(path) THEN path[leg + 1] ELSE None
           changes == leg < Len(path) /\ IsChange(e, f)
           i == IF changes THEN LeastOf(Usable(e, f)) ELSE Size[e] - 1
           S == Samples(e, entering, i)
           J == Joined(assembled, S)
           C == IF changes THEN Connector(e, f, i) ELSE <<>>
           N == J \o C
<1>1. /\ phase = "assemble" /\ leg \in 1..Len(path) /\ (changes => Usable(e, f) # {})
      /\ assembled' = N /\ entering' = (IF changes THEN i + Change ELSE 0) /\ leg' = leg + 1
      /\ UNCHANGED <<open, transitions, start, goal, estimate, blocked, frontier, costs, parents, left, phase, path, route, reason>>
  BY DEF Lay
<1>2. PlanTypes /\ Assembling /\ Linked(path) /\ path \in Seq(Edges) /\ Len(path) \in Nat
  BY <1>1 DEF PlanInv, SearchInv, Assembling, Linked
<1>3. /\ e \in Edges /\ entering \in Nat /\ entering < Size[e] /\ Size[e] \in Nat /\ Change \in Nat \ {0} /\ RunUp \in Nat
  <2>1. e \in Edges /\ entering \in Nat
    BY <1>1, <1>2 DEF Assembling
  <2>2. Size[e] \in Nat /\ Change \in Nat \ {0} /\ RunUp \in Nat
    BY <2>1, PlanningAssumption
  <2>3. leg <= Len(path)
    BY <1>1, <1>2
  <2>4. entering < Size[e]
    BY <1>2, <2>3 DEF Assembling
  <2> QED
    BY <2>1, <2>2, <2>4
<1>4. ASSUME leg < Len(path)
      PROVE  /\ f = path[leg + 1] /\ f \in Edges /\ Size[f] \in Nat \ {0, 1}
             /\ <<e, f>> \in Follows \/ changes
  <2>1. f = path[leg + 1] /\ f \in Edges /\ <<e, f>> \in Links
    BY <1>1, <1>2, <1>4 DEF Linked
  <2>2. f \in Successors(e)
    BY <2>1 DEF Links
  <2>3. <<e, f>> \in Follows \/ IsChange(e, f)
    BY <2>2 DEF Successors
  <2> QED
    BY <1>4, <2>1, <2>3, PlanningAssumption
<1>5. ASSUME changes
      PROVE  /\ f \in Edges /\ i \in transitions[<<e, f>>] /\ i >= entering + RunUp
  <2>1. f \in Edges /\ Usable(e, f) # {} /\ i = LeastOf(Usable(e, f))
    BY <1>1, <1>4, <1>5
  <2>2. \A n \in Usable(e, f) : n \in transitions[<<e, f>>] /\ n \in Nat /\ n >= entering + RunUp
    BY <1>2, <1>3, <2>1, UsableFacts
  <2>3. Usable(e, f) \in SUBSET Nat
    BY <2>2
  <2>4. LeastOf(Usable(e, f)) \in Usable(e, f)
    BY <2>1, <2>3, LeastIn, Zenon
  <2> HIDE DEF e, f, i
  <2> QED
    BY <2>1, <2>2, <2>4
<1>6. i \in Nat /\ entering <= i
  <2>1. CASE changes
    <3>1. i \in Nat /\ i >= entering + RunUp
      BY <1>2, <1>3, <1>5, <2>1, ConnectorFacts
    <3> HIDE DEF i
    <3> QED
      BY <1>3, <3>1
  <2>2. CASE ~changes
    BY <1>3, <2>2
  <2> QED
    BY <2>1, <2>2
<1>7. /\ assembled \in Seq(Points) /\ InOrder(assembled) /\ Spaced(assembled)
      /\ Len(assembled) \in Nat /\ (assembled # <<>> => leg > 1 /\ Len(assembled) \in 1..Len(assembled))
      /\ assembled = <<>> => leg = 1 /\ entering = start.at /\ e = start.edge /\ Len(assembled) = 0
  BY <1>1, <1>2 DEF Assembling, Linked
<1>8. assembled # <<>> => \/ assembled[Len(assembled)] = OnLane(e, entering)
                          \/ /\ entering = 0
                             /\ \E d \in Edges : <<d, e>> \in Follows /\ assembled[Len(assembled)] = OnLane(d, Size[d] - 1)
  <2>1. leg > 1 => leg \in 2..Len(path) /\ path[leg - 1] \in Edges
    BY <1>1, <1>2
  <2> QED
    BY <1>2, <1>7, <2>1 DEF Assembling
<1>9. assembled # <<>> => assembled[Len(assembled)].part = 0 /\ assembled[1] = OnLane(start.edge, start.at)
  <2>1. \A d, n : OnLane(d, n).part = 0
    BY DEF OnLane
  <2>2. assembled # <<>> => assembled[1] = OnLane(start.edge, start.at)
    BY <1>2, <1>7 DEF Assembling
  <2> QED
    BY <1>8, <2>1, <2>2
<1> HIDE DEF e, i
<1>10. LaidAfter(J, assembled, e, entering, i)
  <2>1. e \in Edges /\ entering \in Nat /\ i \in Nat /\ entering <= i /\ assembled \in Seq(Points) /\ InOrder(assembled)
    BY <1>3, <1>6, <1>7
  <2>2. J = Joined(assembled, Samples(e, entering, i))
    OBVIOUS
  <2>3. Enters(assembled, e, entering)
    BY <1>8 DEF Enters
  <2> HIDE DEF J
  <2> QED
    BY <2>1, <2>2, <2>3, LaidSamples, ZenonT(60)
<1>11. /\ J \in Seq(Points) /\ InOrder(J) /\ J # <<>> /\ Len(J) \in Nat
       /\ J[1] = (IF assembled = <<>> THEN OnLane(e, entering) ELSE assembled[1])
       /\ J[Len(J)] = OnLane(e, i)
       /\ Len(J) >= Len(assembled) + (i - entering)
       /\ \A n \in 1..Len(assembled) : J[n] = assembled[n]
       /\ \A n \in (Len(assembled) + 1)..Len(J) : J[n].part = 0
  BY <1>10 DEF LaidAfter
<1> HIDE DEF J
<1>12. J[1] = OnLane(start.edge, start.at) /\ Len(J) >= 1 /\ Len(J) >= Len(assembled)
  BY <1>3, <1>6, <1>7, <1>9, <1>11
<1>13. Spaced(J)
  BY <1>7, <1>11, <1>12, SpacedSamples
<1>14. ASSUME NEW laid \in Seq(Points), assembled' = laid, InOrder(laid), Spaced(laid), laid # <<>>,
              laid[1] = OnLane(start.edge, start.at), entering' \in Nat,
              leg < Len(path) => entering' < Size[path[leg + 1]],
              leg < Len(path) => \/ laid[Len(laid)] = OnLane(path[leg + 1], entering')
                                 \/ /\ entering' = 0 /\ <<path[leg], path[leg + 1]>> \in Follows
                                    /\ laid[Len(laid)] = OnLane(path[leg], Size[path[leg]] - 1)
       PROVE  PlanInv' /\ RetriesAdvance
  <2>1. Links' = Links /\ Searching(frontier, costs, parents, Links, Weights, start.edge, goal.edge)'
    BY <1>1, SearchKept DEF searchVars
  <2>2. PlanTypes'
    BY <1>1, <1>2 DEF PlanTypes, Candidates
  <2>3. Found'
    BY <1>1 DEF Found, PlanInv, SearchInv
  <2>4. Linked(path)'
    BY <1>1, <1>2, <2>1 DEF Linked
  <2>5. InOrder(assembled)' /\ Spaced(assembled)'
    BY <1>1, <1>14, OrderKept
  <2>6. /\ leg' \in 2..(Len(path) + 1) /\ leg' - 1 = leg /\ (leg' <= Len(path) => leg < Len(path)) /\ path' = path
        /\ leg' = leg + 1 /\ leg' > 1 /\ leg' # 1 /\ leg' \in 1..(Len(path) + 1)
        /\ (leg' \in 2..Len(path) => leg < Len(path))
    BY <1>1, <1>2
  <2>7. (leg <= Len(path) => entering < Size[path[leg]])'
    BY <1>14, <2>6
  <2>8. assembled' # <<>> /\ assembled'[1] = OnLane(start.edge, start.at)' /\ assembled' \in Seq(Points)
    BY <1>1, <1>14
  <2>9. (leg \in 2..Len(path) =>
          \/ assembled[Len(assembled)] = OnLane(path[leg], entering)
          \/ /\ entering = 0 /\ <<path[leg - 1], path[leg]>> \in Follows
             /\ assembled[Len(assembled)] = OnLane(path[leg - 1], Size[path[leg - 1]] - 1))'
    BY <1>14, <2>6
  <2>10. Assembling'
    BY <1>14, <2>4, <2>5, <2>6, <2>7, <2>8, <2>9 DEF Assembling
  <2> QED
    BY <1>1, <2>1, <2>2, <2>3, <2>10 DEF PlanInv, SearchInv, RouteIsDrivable, RetriesAdvance
<1>15. CASE changes
  <2>1. /\ i + Change < Size[f] /\ C \in Seq(Points) /\ Len(C) = Change /\ InOrder(C)
        /\ C[Change] = OnLane(f, i + Change) /\ Ahead(OnLane(e, i), C[1])
        /\ \A k \in 1..Change : C[k].part = 0 => k = Change
    BY <1>2, <1>3, <1>5, <1>15, ConnectorFacts
  <2> HIDE DEF C
  <2>2. /\ N \in Seq(Points) /\ Len(N) = Len(J) + Change /\ N # <<>>
        /\ \A n \in 1..Len(J) : N[n] = J[n]
        /\ \A n \in 1..Change : N[Len(J) + n] = C[n]
        /\ InOrder(N)
    BY <1>11, <2>1, Appended
  <2> HIDE DEF N
  <2>3. \A n \in (Len(J) + 1)..Len(N) : N[n].part = 0 => n = Len(N)
    <3>1. \A n \in (Len(J) + 1)..Len(N) : n - Len(J) \in 1..Change /\ Len(J) + (n - Len(J)) = n
      BY <1>3, <1>11, <2>2
    <3>2. \A n \in (Len(J) + 1)..Len(N) : n - Len(J) = Change => n = Len(N)
      BY <1>3, <1>11, <2>2
    <3> QED
      BY <2>1, <2>2, <3>1, <3>2
  <2>4. Spaced(N)
    <3>1. Len(assembled) \in 0..Len(J) /\ Len(J) - Len(assembled) >= RunUp
      BY <1>3, <1>5, <1>6, <1>7, <1>11, <1>12, <1>15
    <3>2. Len(assembled) > 0 => J[Len(assembled)].part = 0
      BY <1>7, <1>9, <1>11
    <3>3. Len(J) <= Len(N)
      BY <1>3, <1>11, <2>2
    <3> QED
      BY <1>3, <1>11, <1>13, <2>2, <2>3, <3>1, <3>2, <3>3, SpacedChange
  <2>5. N[Len(N)] = OnLane(f, i + Change) /\ N[1] = OnLane(start.edge, start.at)
    BY <1>3, <1>11, <1>12, <2>1, <2>2
  <2>6. entering' = i + Change /\ leg < Len(path) /\ f = path[leg + 1]
    BY <1>1, <1>4, <1>15
  <2>7. assembled' = N
    BY <1>1
  <2>8. /\ entering' \in Nat /\ entering' < Size[path[leg + 1]]
        /\ N[Len(N)] = OnLane(path[leg + 1], entering')
    BY <1>3, <1>6, <2>1, <2>5, <2>6
  <2> QED
    BY <1>14, <2>2, <2>4, <2>5, <2>7, <2>8
<1>16. CASE ~changes
  <2>1. C = <<>> /\ J \o <<>> = J
    BY <1>11, <1>16
  <2>2. N = J
    BY <2>1
  <2>3. assembled' = J /\ entering' = 0
    BY <1>1, <1>16, <2>2
  <2>4. i = Size[e] - 1 /\ e = path[leg]
    BY <1>16 DEF e, i
  <2>5. leg < Len(path) => <<path[leg], path[leg + 1]>> \in Follows /\ Size[path[leg + 1]] > 0
    BY <1>4, <1>16, <2>4
  <2> HIDE DEF C, N
  <2> QED
    BY <1>11, <1>12, <1>13, <1>14, <2>3, <2>4, <2>5
<1> QED
  BY <1>15, <1>16

\* The samples from p to the t-th, and then q.
IsCut(c, a, p, q, t) == a[1] = p /\ c = <<p>> \o SubSeq(a, 2, t - 1) \o <<q>>

\* The samples cut out are those assembled, but for the destination.
LEMMA CutFacts ==
  ASSUME NEW a \in Seq(Points), NEW p \in Points, NEW q \in Points, NEW t \in 1..Len(a), NEW c, IsCut(c, a, p, q, t)
  PROVE  /\ Len(c) = (IF t = 1 THEN 2 ELSE t) /\ c[Len(c)] = q
         /\ \A k \in 1..(t - 1) : c[k] = a[k]
PROOF
<1> DEFINE b == SubSeq(a, 2, t - 1)
<1>1. /\ b \in Seq(Points) /\ Len(b) = (IF t = 1 THEN 0 ELSE t - 2)
      /\ \A k \in 1..Len(b) : b[k] = a[k + 1]
  OBVIOUS
<1> HIDE DEF b
<1> DEFINE d == <<p>> \o b
<1>2. /\ d \in Seq(Points) /\ Len(d) = Len(b) + 1 /\ d[1] = p
      /\ \A k \in 1..Len(b) : d[k + 1] = b[k]
  BY <1>1
<1>3. \A k \in 1..(t - 1) : k = 1 \/ (k - 1 \in 1..Len(b) /\ (k - 1) + 1 = k)
  BY <1>1
<1>4. ASSUME NEW k \in 1..(t - 1) PROVE d[k] = a[k] /\ k \in 1..Len(d)
  <2>1. k \in 1..Len(d)
    BY <1>1, <1>2
  <2>2. CASE k = 1
    BY <1>2, <2>1, <2>2 DEF IsCut
  <2>3. CASE k # 1
    <3>1. k - 1 \in 1..Len(b) /\ (k - 1) + 1 = k
      BY <1>3, <2>3
    <3>2. d[(k - 1) + 1] = b[k - 1] /\ b[k - 1] = a[(k - 1) + 1]
      BY <1>1, <1>2, <3>1
    <3> QED
      BY <2>1, <3>1, <3>2
  <2> QED
    BY <2>2, <2>3
<1> HIDE DEF d
<1>5. /\ d \o <<q>> \in Seq(Points) /\ Len(d \o <<q>>) = Len(d) + 1 /\ (d \o <<q>>)[Len(d) + 1] = q
      /\ \A k \in 1..Len(d) : (d \o <<q>>)[k] = d[k]
  BY <1>2
<1>6. c = d \o <<q>>
  BY DEF d, b, IsCut
<1> QED
  BY <1>1, <1>2, <1>4, <1>5, <1>6

LEMMA CutIsDrivable ==
  ASSUME NEW a \in Seq(Points), InOrder(a), Spaced(a), NEW p \in Points, NEW q \in Points, NEW t \in 1..Len(a),
         q.part = 0, NEW c, IsCut(c, a, p, q, t)
  PROVE  /\ \A i \in 1..(Len(c) - 2) : Ahead(c[i], c[i + 1])
         /\ Spaced(c)
PROOF
<1>1. /\ Len(c) = (IF t = 1 THEN 2 ELSE t) /\ c[Len(c)] = q
      /\ \A k \in 1..(t - 1) : c[k] = a[k]
  BY CutFacts
<1>2. ASSUME NEW i \in 1..(Len(c) - 2) PROVE Ahead(c[i], c[i + 1])
  <2>1. i \in 1..(t - 1) /\ i + 1 \in 1..(t - 1) /\ i \in 1..(Len(a) - 1)
    BY <1>1
  <2>2. c[i] = a[i] /\ c[i + 1] = a[i + 1]
    BY <1>1, <2>1
  <2> QED
    BY <2>1, <2>2 DEF InOrder
<1>3. ASSUME NEW i \in 2..(Len(c) - 1), NEW j \in 2..(Len(c) - 1), i <= j,
             c[i - 1].part > 0, c[i].part = 0, c[j].part = 0, c[j + 1].part > 0
      PROVE  j - i >= RunUp
  <2>1. t # 1 /\ Len(c) = t
    BY <1>1
  <2>2. j + 1 # Len(c)
    <3>1. SUFFICES ASSUME j + 1 = Len(c) PROVE FALSE
      OBVIOUS
    <3>2. c[j + 1] = q
      BY <1>1, <3>1, Zenon
    <3>3. c[j + 1].part = 0 /\ ~(0 > 0)
      BY <3>2
    <3> QED
      BY <1>3, <3>3, Zenon
  <2>3. /\ i \in 2..(Len(a) - 1) /\ j \in 2..(Len(a) - 1) /\ i \in 1..(t - 1) /\ i - 1 \in 1..(t - 1)
        /\ j \in 1..(t - 1) /\ j + 1 \in 1..(t - 1)
    BY <1>3, <2>1, <2>2
  <2>4. c[i - 1] = a[i - 1] /\ c[i] = a[i] /\ c[j] = a[j] /\ c[j + 1] = a[j + 1]
    BY <1>1, <2>3
  <2> QED
    BY <1>3, <2>3, <2>4 DEF Spaced
<1> QED
  BY <1>2, <1>3 DEF Spaced

LEMMA FinishKeeps ==
  ASSUME PlanInv, Finish
  PROVE  PlanInv' /\ RetriesAdvance
PROOF
<1> DEFINE here == OnLane(start.edge, start.at)
           there == OnLane(goal.edge, goal.at)
           points == CutOut(here, there)
<1>1. phase = "assemble" /\ leg > Len(path) /\ Assembling /\ PlanTypes /\ reason = None
  BY DEF Finish, PlanInv, SearchInv
<1>2. CASE here = there \/ TooWide(points) \/ Repeats(points)
  <2>1. Give("ROUTE_ENDED_EARLY") \/ Give("ROUTE_DISCONTINUOUS") \/ Give("ROUTE_LOOP_DETECTED")
    BY <1>2 DEF Finish
  <2> QED
    BY <1>1, <2>1, GiveKeeps
<1>3. CASE here # there /\ ~TooWide(points) /\ ~Repeats(points)
  <2>1. /\ phase' = "done" /\ route' = points
        /\ UNCHANGED <<open, transitions, start, goal, estimate, blocked, frontier, costs, parents, left, path, leg, entering,
                       assembled, reason>>
    BY <1>3 DEF Finish
  <2>2. /\ assembled \in Seq(Points) /\ InOrder(assembled) /\ Spaced(assembled)
        /\ 1 \in 1..Len(assembled) /\ assembled[1] = here
    BY <1>1 DEF Assembling, Linked
  <2>3. here \in Points /\ there \in Points /\ there.part = 0
    BY <1>1, EndpointFacts DEF Points, OnLane
  <2> DEFINE t == ClosestIndex(assembled, 1, there)
  <2>4. ClosestIndex(assembled, 1, here) = 1 /\ t \in 1..Len(assembled)
    BY <2>2, <2>3, ClosestFacts
  <2>5. points = <<here>> \o SubSeq(assembled, 2, t - 1) \o <<there>>
    <3>1. points = <<here>> \o SubSeq(assembled, 1 + 1, t - 1) \o <<there>>
      BY <2>4, Zenon DEF CutOut
    <3>2. 1 + 1 = 2
      OBVIOUS
    <3> QED
      BY <3>1, <3>2, Zenon
  <2> HIDE DEF points, t, here, there
  <2>6. (\A i \in 1..(Len(points) - 2) : Ahead(points[i], points[i + 1])) /\ Spaced(points)
    <3>1. IsCut(points, assembled, here, there, t)
      BY <2>2, <2>5 DEF IsCut
    <3> QED
      BY <2>2, <2>3, <2>4, <3>1, CutIsDrivable
  <2>7. RouteIsDrivable'
    <3>1. /\ \A i \in 1..(Len(route') - 2) : Ahead(route'[i], route'[i + 1])
          /\ Spaced(route')
      BY <2>1, <2>6
    <3>2. (\A i \in 1..(Len(route) - 2) : Ahead(route[i], route[i + 1]))'
      BY <2>1, <3>1 DEF Ahead
    <3> QED
      BY <3>1, <3>2 DEF RouteIsDrivable, Spaced
  <2>8. Searching(frontier, costs, parents, Links, Weights, start.edge, goal.edge)'
    BY <2>1, SearchKept DEF searchVars
  <2>9. PlanTypes'
    BY <1>1, <2>1 DEF PlanTypes, Candidates
  <2> QED
    BY <1>1, <2>1, <2>7, <2>8, <2>9, PlanningAssumption DEF PlanInv, SearchInv, RetriesAdvance
<1> QED
  BY <1>2, <1>3

\* The search is exact, what it finds can be driven, and every further search has
\* a connection less (route_manager.py 1405, 1493, 1562).
THEOREM PlanIsSound == PlanSpec => PlanSound
PROOF
<1>1. PlanInit => PlanInv
  BY PlanInvInit
<1>2. ASSUME PlanInv, [PlanNext]_planVars
      PROVE  PlanInv' /\ [RetriesAdvance]_planVars
  <2>1. CASE Pop
    BY <1>2, <2>1, PopKeeps
  <2>2. CASE Unreachable
    BY <1>2, <2>2, UnreachableKeeps
  <2>3. CASE NoRoom
    BY <1>2, <2>3, NoRoomKeeps
  <2>4. CASE Lay
    BY <1>2, <2>4, LayKeeps
  <2>5. CASE Finish
    BY <1>2, <2>5, FinishKeeps
  <2>6. CASE UNCHANGED planVars
    <3>1. Searching(frontier, costs, parents, Links, Weights, start.edge, goal.edge)'
      BY <1>2, <2>6, SearchKept DEF searchVars, planVars
    <3>2. Links' = Links
      BY <1>2, <2>6, SearchKept DEF searchVars, planVars
    <3>3. PlanTypes' /\ (phase = "assemble" => Found)' /\ RouteIsDrivable'
      BY <1>2, <2>6 DEF planVars, PlanInv, SearchInv, PlanTypes, Candidates, Found, RouteIsDrivable, Ahead
    <3>4. (phase = "assemble" => Assembling)'
      BY <1>2, <2>6, <3>2 DEF planVars, PlanInv, Assembling, Linked, InOrder, Ahead, Spaced
    <3> QED
      BY <1>2, <2>6, <3>1, <3>3, <3>4 DEF planVars, PlanInv, SearchInv
  <2> QED
    BY <1>2, <2>1, <2>2, <2>3, <2>4, <2>5, <2>6 DEF PlanNext
<1>3. PlanInv => SearchIsExact /\ RouteIsDrivable
  BY SearchFindsCheapest DEF PlanInv
<1> QED
  BY <1>1, <1>2, <1>3, PTL DEF PlanSpec, PlanSound

\* Routing is sound.
THEOREM RoutesAreSound ==
  RecoverySpec /\ PlanSpec /\ ProgressSpec /\ CoverSpec => RoutesSound
PROOF
<1> QED
  BY RecoveryIsSound, PlanIsSound, ProgressIsSound, CoverageIsSound DEF RoutesSound
=============================================================================
