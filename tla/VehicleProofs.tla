--------------------------- MODULE VehicleProofs ---------------------------
(***************************************************************************)
(* Theorems about the vehicle, from the simulator to control: what a session *)
(* leaves behind (SimulatorSession), when the watchdog alerts (Watchdog),    *)
(* what the sensors' callbacks make of a frame (SensorFrames), the lead a    *)
(* frame reports and the caution kept after a vulnerable road user           *)
(* (LeadFusion), the ids of detected objects (ObjectTracks), who decides the *)
(* control of a frame (ControlAuthority), and what C and B ask for           *)
(* (SpeedControl, LateralProgress); for every set of actors, sensors,        *)
(* events, faults and requests, every range, speed, gain, limit and route,   *)
(* and every sequence of detections.                                         *)
(***************************************************************************)
EXTENDS SimulatorSession, Watchdog, SensorFrames, LeadFusion, ObjectTracks, ControlAuthority, SpeedControl,
        LateralProgress, TLAPS, SequenceTheorems, FiniteSetTheorems, WellFoundedInduction

\* Until the session is over the registry holds every actor that lives, once,
\* the ego before what hangs on it.
RegisteredOnce == \A i, j \in DOMAIN registry : registry[i] = registry[j] => i = j
Living(a) == \E i \in DOMAIN registry : registry[i] = a
Owned ==
  /\ RegisteredOnce
  /\ spawned # {} => Ego \in spawned /\ 1 \in DOMAIN registry /\ registry[1] = Ego
  /\ \A i \in DOMAIN registry : registry[i] \in spawned /\ destroyed[registry[i]] = 0
  /\ \A a \in Actor \ spawned : destroyed[a] = 0
  /\ \A a \in spawned \ sticks : Living(a) \/ destroyed[a] = 1

Settings ==
  /\ hasManager \in BOOLEAN /\ session \in {"new", "active", "unwinding", "over"}
  /\ session = "new" => world = "previous" /\ manager = "previous" /\ spawned = {}
  /\ session # "over" => kept = {}
  /\ ~hasManager => manager = "previous"
  /\ WorldRestored

Disposed ==
  /\ destroyed \in [Actor -> {0, 1}] /\ parentless = {}
  /\ session = "over" => \A a \in spawned \ sticks : destroyed[a] = 1

SessionInv ==
  /\ registry \in Seq(Actor) /\ spawned \subseteq Actor /\ sticks \subseteq Actor
  /\ Settings /\ Disposed
  /\ session # "over" => Owned

LEMMA LeastNatural ==
  ASSUME NEW S \in SUBSET Nat, S # {}
  PROVE  \E m \in S : \A k \in S : m <= k
PROOF
<1> DEFINE Less == OpToRel(<, Nat)
<1>1. IsWellFoundedOn(Less, Nat)
  BY NatLessThanWellFounded, Zenon
<1>2. Less = {ss \in Nat \X Nat : ss[1] < ss[2]}
  BY Zenon DEF OpToRel
<1> HIDE DEF Less
<1>3. PICK m \in S : \A k \in S : ~(<<k, m>> \in Less)
  BY <1>1, WFMin, Zenon
<1>4. \A k \in S : ~(k < m)
  BY <1>2, <1>3
<1>5. QED BY <1>4

\* A registry without repetition gives each of its actors one destroy().
LEMMA OneDestroyEach ==
  ASSUME NEW s \in Seq(Actor), \A i, j \in DOMAIN s : s[i] = s[j] => i = j, NEW a
  PROVE  Cardinality({i \in DOMAIN s : s[i] = a}) = IF \E i \in DOMAIN s : s[i] = a THEN 1 ELSE 0
PROOF
<1>1. CASE \E i \in DOMAIN s : s[i] = a
  <2>1. PICK i \in DOMAIN s : s[i] = a
    BY <1>1
  <2>2. {j \in DOMAIN s : s[j] = a} = {i}
    BY <2>1
  <2>3. QED BY <1>1, <2>2, FS_Singleton
<1>2. CASE ~ \E i \in DOMAIN s : s[i] = a
  <2>1. {j \in DOMAIN s : s[j] = a} = {}
    BY <1>2
  <2>2. QED BY <1>2, <2>1, FS_EmptySet
<1>3. QED BY <1>1, <1>2

\* Reversing keeps the actors and their distinctness, and puts the first last.
LEMMA ReverseProperties ==
  ASSUME NEW s \in Seq(Actor)
  PROVE  /\ Reverse(s) \in Seq(Actor) /\ Len(Reverse(s)) = Len(s) /\ DOMAIN Reverse(s) = DOMAIN s
         /\ \A i \in DOMAIN s : Reverse(s)[i] = s[(Len(s) - i) + 1] /\ (Len(s) - i) + 1 \in DOMAIN s
PROOF
<1>1. Len(s) \in Nat /\ DOMAIN s = 1..Len(s) /\ s \in [1..Len(s) -> Actor]
  BY LenProperties
<1>2. \A i \in 1..Len(s) : (Len(s) - i) + 1 \in 1..Len(s)
  BY <1>1
<1>3. Reverse(s) = [i \in 1..Len(s) |-> s[(Len(s) - i) + 1]]
  BY DEF Reverse
<1>4. Reverse(s) \in [1..Len(s) -> Actor]
  BY <1>1, <1>2, <1>3
<1>5. Reverse(s) \in Seq(Actor) /\ Len(Reverse(s)) = Len(s)
  BY <1>1, <1>4, IsASeq, LenProperties
<1>6. QED BY <1>1, <1>2, <1>3, <1>5

\* Deleting the only entry of an actor.
LEMMA RemoveAtProperties ==
  ASSUME NEW s \in Seq(Actor), NEW k \in DOMAIN s
  PROVE  /\ RemoveAt(s, k) \in Seq(Actor) /\ Len(RemoveAt(s, k)) = Len(s) - 1
         /\ \A i \in 1..(Len(s) - 1) : RemoveAt(s, k)[i] = IF i < k THEN s[i] ELSE s[i + 1]
PROOF
<1>1. Len(s) \in Nat /\ DOMAIN s = 1..Len(s) /\ k \in 1..Len(s)
  BY LenProperties
<1> DEFINE front == SubSeq(s, 1, k - 1)
           back == SubSeq(s, k + 1, Len(s))
<1>2. front \in Seq(Actor) /\ Len(front) = k - 1 /\ \A i \in 1..(k - 1) : front[i] = s[i]
  BY <1>1, SubSeqProperties
<1>3. back \in Seq(Actor) /\ Len(back) = Len(s) - k /\ \A i \in 1..(Len(s) - k) : back[i] = s[i + k]
  BY <1>1, SubSeqProperties
<1>4. RemoveAt(s, k) = front \o back
  BY DEF RemoveAt
<1> HIDE DEF front, back
<1>5. /\ front \o back \in Seq(Actor)
      /\ Len(front \o back) = Len(front) + Len(back)
      /\ \A i \in 1..(Len(front) + Len(back)) :
           (front \o back)[i] = IF i <= Len(front) THEN front[i] ELSE back[i - Len(front)]
  <2>1. front \in Seq(Actor) /\ back \in Seq(Actor)
    BY <1>2, <1>3
  <2>2. QED BY <2>1, ConcatProperties, Zenon
<1>6. Len(front) + Len(back) = Len(s) - 1
  BY <1>1, <1>2, <1>3
<1>7. ASSUME NEW i \in 1..(Len(s) - 1)
      PROVE  (front \o back)[i] = IF i < k THEN s[i] ELSE s[i + 1]
  <2>1. (front \o back)[i] = IF i <= k - 1 THEN front[i] ELSE back[i - (k - 1)]
    BY <1>2, <1>5, <1>6
  <2>2. CASE i < k
    <3>1. i \in 1..(k - 1)
      BY <1>1, <2>2
    <3>2. QED BY <1>1, <1>2, <2>1, <2>2, <3>1
  <2>3. CASE ~(i < k)
    <3>1. i - (k - 1) \in 1..(Len(s) - k) /\ (i - (k - 1)) + k = i + 1 /\ ~(i <= k - 1)
      BY <1>1, <2>3
    <3>2. back[i - (k - 1)] = s[(i - (k - 1)) + k]
      BY <1>3, <3>1
    <3>3. QED BY <2>1, <2>3, <3>1, <3>2
  <2>4. QED BY <2>2, <2>3
<1>8. QED BY <1>4, <1>5, <1>6, <1>7

\* Destroying actors none of which has been destroyed, the ego last.
LEMMA Disposes ==
  ASSUME SessionInv, session # "over", NEW s \in Seq(Actor), Disposing(s),
         \A i, j \in DOMAIN s : s[i] = s[j] => i = j,
         \A i \in DOMAIN s : destroyed[s[i]] = 0,
         \A i, j \in DOMAIN s : s[i] = Ego => ~(i < j)
  PROVE  /\ destroyed' \in [Actor -> {0, 1}] /\ parentless' = {}
         /\ \A a \in Actor : destroyed'[a] = IF a \notin sticks /\ \E i \in DOMAIN s : s[i] = a
                                             THEN 1 ELSE destroyed[a]
PROOF
<1>1. destroyed \in [Actor -> {0, 1}] /\ parentless = {}
  BY DEF SessionInv, Disposed
<1>2. destroyed[Ego] = 0
  BY DEF SessionInv, Owned, Actor
<1>3. \A a \in Actor : Cardinality({i \in DOMAIN s : s[i] = a}) = IF \E i \in DOMAIN s : s[i] = a THEN 1 ELSE 0
  BY OneDestroyEach
<1>4. destroyed' = [a \in Actor |-> IF a \in sticks THEN destroyed[a]
                                    ELSE destroyed[a] + Cardinality({i \in DOMAIN s : s[i] = a})]
  BY Zenon DEF Disposing
<1>5. ASSUME NEW a \in Actor
      PROVE  /\ destroyed'[a] = IF a \notin sticks /\ \E i \in DOMAIN s : s[i] = a THEN 1 ELSE destroyed[a]
             /\ destroyed'[a] \in {0, 1}
  <2>1. CASE a \in sticks
    BY <1>1, <1>4, <2>1
  <2>2. CASE a \notin sticks /\ \E i \in DOMAIN s : s[i] = a
    <3>1. destroyed[a] = 0 /\ Cardinality({i \in DOMAIN s : s[i] = a}) = 1
      BY <1>3, <2>2
    <3>2. QED BY <1>4, <2>2, <3>1
  <2>3. CASE a \notin sticks /\ ~ \E i \in DOMAIN s : s[i] = a
    <3>1. destroyed[a] \in {0, 1} /\ Cardinality({i \in DOMAIN s : s[i] = a}) = 0
      BY <1>1, <1>3, <2>3
    <3>2. QED BY <1>4, <2>3, <3>1
  <2>4. QED BY <2>1, <2>2, <2>3
<1>6. DOMAIN destroyed' = Actor /\ destroyed' = [a \in Actor |-> destroyed'[a]]
  BY <1>4
<1>7. destroyed' \in [Actor -> {0, 1}]
  BY <1>5, <1>6
<1>8. parentless' = {}
  BY <1>1, <1>2 DEF Disposing
<1>9. QED BY <1>5, <1>7, <1>8

\* Destroying one actor that hangs on the ego.
LEMMA DisposesOne ==
  ASSUME SessionInv, session # "over", NEW a \in Actor \ {Ego}, destroyed[a] = 0, Disposing(<<a>>)
  PROVE  /\ destroyed' \in [Actor -> {0, 1}] /\ parentless' = {}
         /\ \A x \in Actor : destroyed'[x] = IF x \notin sticks /\ x = a THEN 1 ELSE destroyed[x]
PROOF
<1> DEFINE s == <<a>>
<1>1. s \in Seq(Actor) /\ Len(s) = 1 /\ DOMAIN s = {1} /\ s[1] = a
  OBVIOUS
<1>2. Disposing(s)
  OBVIOUS
<1> HIDE DEF s
<1>3. \A i, j \in DOMAIN s : s[i] = s[j] => i = j
  BY <1>1
<1>4. \A i \in DOMAIN s : destroyed[s[i]] = 0
  BY <1>1
<1>5. \A i, j \in DOMAIN s : s[i] = Ego => ~(i < j)
  BY <1>1
<1>6. \A x : (\E i \in DOMAIN s : s[i] = x) <=> x = a
  BY <1>1
<1>7. /\ destroyed' \in [Actor -> {0, 1}] /\ parentless' = {}
      /\ \A x \in Actor : destroyed'[x] = IF x \notin sticks /\ \E i \in DOMAIN s : s[i] = x
                                          THEN 1 ELSE destroyed[x]
  BY <1>1, <1>2, <1>3, <1>4, <1>5, Disposes
<1>8. QED BY <1>6, <1>7

\* A new actor joins the registry, behind the ego or as the ego.
LEMMA Joins ==
  ASSUME SessionInv, session = "active", NEW a \in Actor \ spawned, a = Ego \/ Ego \in spawned,
         spawned' = spawned \cup {a}, registry' = Append(registry, a),
         UNCHANGED <<sticks, destroyed>>
  PROVE  registry' \in Seq(Actor) /\ spawned' \subseteq Actor /\ Owned'
PROOF
<1>1. /\ registry \in Seq(Actor) /\ Len(registry) \in Nat /\ DOMAIN registry = 1..Len(registry)
      /\ spawned \subseteq Actor /\ Owned
  BY LenProperties DEF SessionInv
<1>2. /\ registry' \in Seq(Actor) /\ Len(registry') = Len(registry) + 1
      /\ \A i \in 1..Len(registry) : registry'[i] = registry[i]
      /\ registry'[Len(registry) + 1] = a
  BY <1>1, AppendProperties
<1>3. DOMAIN registry' = 1..(Len(registry) + 1)
  BY <1>1, <1>2, LenProperties
<1>4. \A i \in DOMAIN registry' : \/ i \in DOMAIN registry /\ registry'[i] = registry[i]
                                  \/ i = Len(registry) + 1 /\ registry'[i] = a
  BY <1>1, <1>2, <1>3
<1>5. \A i \in DOMAIN registry : i \in DOMAIN registry' /\ registry'[i] = registry[i]
  BY <1>1, <1>2, <1>3
<1>6. RegisteredOnce'
  BY <1>1, <1>4 DEF RegisteredOnce, Owned
<1>7. spawned' # {} => Ego \in spawned' /\ 1 \in DOMAIN registry' /\ registry'[1] = Ego
  <2>1. CASE Ego \in spawned
    BY <1>1, <1>5, <2>1 DEF Owned
  <2>2. CASE a = Ego
    <3>1. spawned = {}
      BY <1>1, <2>2 DEF Owned
    <3>2. Len(registry) = 0
      BY <1>1, <3>1 DEF Owned
    <3>3. QED BY <1>2, <1>3, <2>2, <3>2
  <2>3. QED BY <2>1, <2>2
<1>8. \A i \in DOMAIN registry' : registry'[i] \in spawned' /\ destroyed'[registry'[i]] = 0
  BY <1>1, <1>4 DEF Owned
<1>9. \A x \in Actor \ spawned' : destroyed'[x] = 0
  BY <1>1 DEF Owned
<1>10. \A x \in spawned' \ sticks' : Living(x)' \/ destroyed'[x] = 1
  <2> SUFFICES ASSUME NEW x \in spawned' \ sticks', destroyed'[x] # 1 PROVE Living(x)'
    OBVIOUS
  <2>1. CASE x = a
    BY <1>1, <1>2, <1>3, <2>1 DEF Living
  <2>2. CASE x # a
    <3>1. Living(x)
      BY <1>1, <2>2 DEF Owned
    <3>2. QED BY <1>5, <3>1 DEF Living
  <2>3. QED BY <2>1, <2>2
<1>11. QED BY <1>1, <1>2, <1>6, <1>7, <1>8, <1>9, <1>10 DEF Owned

\* An early release takes one actor out of the registry and destroys it.
LEMMA Releases ==
  ASSUME SessionInv, NEW a \in Actor \ {Ego}, Release(a)
  PROVE  registry' \in Seq(Actor) /\ Owned' /\ destroyed' \in [Actor -> {0, 1}] /\ parentless' = {}
PROOF
<1>1. /\ registry \in Seq(Actor) /\ Len(registry) \in Nat /\ DOMAIN registry = 1..Len(registry)
      /\ spawned \subseteq Actor /\ Owned /\ session = "active"
  BY LenProperties DEF SessionInv, Release
<1>2. PICK k \in DOMAIN registry : registry[k] = a /\ registry' = RemoveAt(registry, k)
  BY DEF Release
<1>3. /\ registry' \in Seq(Actor) /\ Len(registry') = Len(registry) - 1
      /\ \A i \in 1..(Len(registry) - 1) : registry'[i] = IF i < k THEN registry[i] ELSE registry[i + 1]
  BY <1>1, <1>2, RemoveAtProperties
<1>4. DOMAIN registry' = 1..(Len(registry) - 1)
  BY <1>1, <1>3, LenProperties
<1>5. UNCHANGED <<spawned, sticks>>
  BY DEF Release
<1>6. \A i \in DOMAIN registry' : \E j \in DOMAIN registry \ {k} :
        registry'[i] = registry[j] /\ j = (IF i < k THEN i ELSE i + 1)
  BY <1>1, <1>3, <1>4
<1>7. \A j \in DOMAIN registry \ {k} : \E i \in DOMAIN registry' : registry'[i] = registry[j]
  <2> SUFFICES ASSUME NEW j \in DOMAIN registry \ {k}
               PROVE  \E i \in DOMAIN registry' : registry'[i] = registry[j]
    OBVIOUS
  <2>1. CASE j < k
    BY <1>1, <1>3, <1>4, <2>1
  <2>2. CASE j > k
    <3>1. j - 1 \in 1..(Len(registry) - 1) /\ ~(j - 1 < k) /\ (j - 1) + 1 = j
      BY <1>1, <2>2
    <3>2. registry'[j - 1] = registry[j]
      BY <1>3, <3>1
    <3>3. QED BY <1>4, <3>1, <3>2
  <2>3. QED BY <1>1, <2>1, <2>2
<1>8. destroyed[a] = 0 /\ Disposing(<<a>>)
  BY <1>1, <1>2 DEF Release, Owned
<1>10. /\ destroyed' \in [Actor -> {0, 1}] /\ parentless' = {}
       /\ \A x \in Actor : destroyed'[x] = IF x \notin sticks /\ x = a THEN 1 ELSE destroyed[x]
  BY <1>1, <1>8, DisposesOne
<1>11. RegisteredOnce'
  <2> SUFFICES ASSUME NEW i \in DOMAIN registry', NEW j \in DOMAIN registry', registry'[i] = registry'[j]
               PROVE  i = j
    BY DEF RegisteredOnce
  <2>1. (IF i < k THEN i ELSE i + 1) = (IF j < k THEN j ELSE j + 1)
    BY <1>1, <1>6 DEF Owned, RegisteredOnce
  <2>2. QED BY <1>1, <1>4, <2>1
<1>12. spawned' # {} => Ego \in spawned' /\ 1 \in DOMAIN registry' /\ registry'[1] = Ego
  <2>1. registry[1] = Ego /\ 1 \in DOMAIN registry /\ Ego \in spawned
    BY <1>1, <1>2 DEF Owned
  <2>2. k > 1
    BY <1>1, <1>2, <2>1
  <2>3. QED BY <1>1, <1>3, <1>4, <1>5, <2>1, <2>2
<1>13. \A i \in DOMAIN registry' : registry'[i] \in spawned' /\ destroyed'[registry'[i]] = 0
  <2> SUFFICES ASSUME NEW i \in DOMAIN registry'
               PROVE  registry'[i] \in spawned' /\ destroyed'[registry'[i]] = 0
    OBVIOUS
  <2>1. PICK j \in DOMAIN registry \ {k} : registry'[i] = registry[j]
    BY <1>6
  <2>2. registry[j] # a /\ registry[j] \in spawned /\ destroyed[registry[j]] = 0
    BY <1>1, <1>2, <2>1 DEF Owned, RegisteredOnce
  <2>3. QED BY <1>1, <1>5, <1>10, <2>1, <2>2
<1>14. \A x \in Actor \ spawned' : destroyed'[x] = 0
  <2>1. a \in spawned
    BY <1>1, <1>2 DEF Owned
  <2>2. QED BY <1>1, <1>5, <1>10, <2>1 DEF Owned
<1>15. \A x \in spawned' \ sticks' : Living(x)' \/ destroyed'[x] = 1
  <2> SUFFICES ASSUME NEW x \in spawned \ sticks, destroyed'[x] # 1
               PROVE  \E i \in DOMAIN registry' : registry'[i] = x
    BY <1>5 DEF Living
  <2>1. x # a /\ x \in Actor /\ destroyed[x] # 1
    BY <1>1, <1>10
  <2>2. PICK j \in DOMAIN registry : registry[j] = x
    BY <1>1, <2>1 DEF Owned, Living
  <2>3. j # k
    BY <1>2, <2>1, <2>2
  <2>4. QED BY <1>7, <2>2, <2>3
<1>16. QED BY <1>3, <1>10, <1>11, <1>12, <1>13, <1>14, <1>15 DEF Owned

\* The end destroys what is left, the ego last.
LEMMA Exits ==
  ASSUME SessionInv, Exit
  PROVE  Disposed'
PROOF
<1>1. /\ registry \in Seq(Actor) /\ Len(registry) \in Nat /\ DOMAIN registry = 1..Len(registry)
      /\ spawned \subseteq Actor /\ Owned /\ session # "over"
  BY LenProperties DEF SessionInv, Exit
<1> DEFINE s == Reverse(registry)
<1>2. /\ s \in Seq(Actor) /\ DOMAIN s = DOMAIN registry
      /\ \A i \in DOMAIN registry : s[i] = registry[(Len(registry) - i) + 1]
                                    /\ (Len(registry) - i) + 1 \in DOMAIN registry
  BY <1>1, ReverseProperties
<1>3. Disposing(s)
  BY DEF Exit, CleanupOrder
<1> HIDE DEF s
<1>4. \A i, j \in DOMAIN s : s[i] = s[j] => i = j
  BY <1>1, <1>2 DEF Owned, RegisteredOnce
<1>5. \A i \in DOMAIN s : destroyed[s[i]] = 0
  BY <1>1, <1>2 DEF Owned
<1>6. \A i, j \in DOMAIN s : s[i] = Ego => ~(i < j)
  <2> SUFFICES ASSUME NEW i \in DOMAIN s, NEW j \in DOMAIN s, s[i] = Ego PROVE ~(i < j)
    OBVIOUS
  <2>1. 1 \in DOMAIN registry /\ registry[1] = Ego
    BY <1>1, <1>2 DEF Owned
  <2>2. (Len(registry) - i) + 1 = 1
    <3>1. registry[(Len(registry) - i) + 1] = registry[1] /\ (Len(registry) - i) + 1 \in DOMAIN registry
      BY <1>2, <2>1
    <3>2. QED BY <1>1, <2>1, <3>1, Zenon DEF Owned, RegisteredOnce
  <2>3. QED BY <1>1, <1>2, <2>2
<1>7. \A x : Living(x) => \E i \in DOMAIN s : s[i] = x
  <2> SUFFICES ASSUME NEW i \in DOMAIN registry PROVE \E j \in DOMAIN s : s[j] = registry[i]
    BY DEF Living
  <2>1. (Len(registry) - i) + 1 \in DOMAIN registry
        /\ (Len(registry) - ((Len(registry) - i) + 1)) + 1 = i
    BY <1>1
  <2>2. s[(Len(registry) - i) + 1] = registry[i]
    BY <1>2, <2>1
  <2>3. QED BY <1>2, <2>1, <2>2
<1>8. /\ destroyed' \in [Actor -> {0, 1}] /\ parentless' = {}
      /\ \A a \in Actor : destroyed'[a] = IF a \notin sticks /\ \E i \in DOMAIN s : s[i] = a
                                          THEN 1 ELSE destroyed[a]
  BY <1>1, <1>2, <1>3, <1>4, <1>5, <1>6, Disposes
<1>9. \A a \in spawned \ sticks : destroyed'[a] = 1
  BY <1>1, <1>7, <1>8 DEF Owned
<1>10. UNCHANGED <<spawned, sticks>>
  BY DEF Exit
<1>11. QED BY <1>8, <1>9, <1>10 DEF Disposed

LEMMA SessionInductive == SessionInv /\ [SessionNext]_sessionVars => SessionInv'
PROOF
<1> SUFFICES ASSUME SessionInv, [SessionNext]_sessionVars
             PROVE  SessionInv'
  OBVIOUS
<1> USE DEF SessionInv
<1>1. CASE Enter
  <2>1. /\ session = "new" /\ spawned = {} /\ world = "previous" /\ manager = "previous" /\ kept = {}
        /\ Disposed /\ Owned
    BY <1>1 DEF Enter, Settings
  <2>2. UNCHANGED <<hasManager, registry, spawned, destroyed, sticks, parentless>>
    BY <1>1 DEF Enter
  <2>3. Settings'
    BY <1>1, <2>1, <2>2 DEF Enter, Settings, WorldRestored
  <2>4. Disposed'
    BY <2>1, <2>2 DEF Disposed
  <2>5. Owned'
    BY <2>1, <2>2 DEF Owned, RegisteredOnce, Living
  <2>6. QED BY <2>2, <2>3, <2>4, <2>5
<1>2. ASSUME session = "active", session' \in {"active", "unwinding"}, UNCHANGED <<hasManager, world, manager, kept>>
      PROVE  Settings'
  BY <1>2 DEF Settings, WorldRestored
<1>3. ASSUME session = "active", session' \in {"active", "unwinding"},
             UNCHANGED <<hasManager, world, manager, kept, registry, spawned, destroyed, sticks, parentless>>
      PROVE  SessionInv'
  BY <1>2, <1>3 DEF Disposed, Owned, RegisteredOnce, Living
<1>4. ASSUME NEW a \in Actor \ spawned, a = Ego \/ Ego \in spawned,
             session = "active", session' \in {"active", "unwinding"},
             spawned' = spawned \cup {a}, registry' = Append(registry, a),
             UNCHANGED <<hasManager, world, manager, kept, destroyed, sticks, parentless>>
      PROVE  SessionInv'
  <2>1. registry' \in Seq(Actor) /\ spawned' \subseteq Actor /\ Owned'
    BY <1>4, Joins
  <2>2. QED BY <1>2, <1>4, <2>1 DEF Disposed
<1>5. CASE SpawnEgo
  BY <1>3, <1>4, <1>5 DEF SpawnEgo, NothingDisposed, BodyRaises, Actor
<1>6. ASSUME NEW s \in Streamed, Attach(s) PROVE SessionInv'
  <2>0. s \in Actor \ spawned /\ s # Ego /\ Ego \in spawned /\ session = "active"
    BY <1>6, SessionAssumption DEF Attach, Actor
  <2>1. CASE spawned' = spawned \cup {s} /\ registry' = Append(registry, s) /\ NothingDisposed /\ UNCHANGED session
    BY <1>4, <1>6, <2>0, <2>1 DEF Attach, NothingDisposed
  <2>2. CASE BodyRaises /\ NothingDisposed /\ UNCHANGED <<spawned, registry>>
    BY <1>3, <1>6, <2>0, <2>2 DEF Attach, BodyRaises, NothingDisposed
  <2>3. CASE spawned' = spawned \cup {s} /\ Disposing(<<s>>) /\ BodyRaises /\ UNCHANGED registry
    <3>1. Owned /\ Disposed /\ destroyed[s] = 0 /\ session' = "unwinding"
          /\ UNCHANGED <<hasManager, world, manager, sticks, kept>>
      BY <1>6, <2>0, <2>3 DEF Owned, Attach, BodyRaises
    <3>2. /\ destroyed' \in [Actor -> {0, 1}] /\ parentless' = {}
          /\ \A x \in Actor : destroyed'[x] = IF x \notin sticks /\ x = s THEN 1 ELSE destroyed[x]
      BY <2>0, <2>3, <3>1, DisposesOne
    <3>3. Settings'
      BY <1>2, <2>0, <3>1
    <3>4. Owned'
      <4>1. spawned' # {} => Ego \in spawned' /\ 1 \in DOMAIN registry' /\ registry'[1] = Ego
        BY <2>0, <2>3, <3>1 DEF Owned
      <4>2. RegisteredOnce'
        BY <2>3, <3>1 DEF Owned, RegisteredOnce
      <4>3. \A i \in DOMAIN registry' : registry'[i] \in spawned' /\ destroyed'[registry'[i]] = 0
        BY <2>0, <2>3, <3>1, <3>2 DEF Owned
      <4>4. \A x \in Actor \ spawned' : destroyed'[x] = 0
        BY <2>3, <3>1, <3>2 DEF Owned
      <4>5. \A x \in spawned' \ sticks' : Living(x)' \/ destroyed'[x] = 1
        <5> SUFFICES ASSUME NEW x \in spawned' \ sticks' PROVE Living(x)' \/ destroyed'[x] = 1
          OBVIOUS
        <5>1. CASE x = s
          BY <2>0, <3>1, <3>2, <5>1
        <5>2. CASE x # s
          <6>1. x \in spawned \ sticks /\ x \in Actor
            BY <2>3, <3>1, <5>2
          <6>2. Living(x) \/ destroyed[x] = 1
            BY <3>1, <6>1 DEF Owned
          <6>3. QED BY <2>3, <3>2, <5>2, <6>1, <6>2 DEF Living
        <5>3. QED BY <5>1, <5>2
      <4>6. QED BY <4>1, <4>2, <4>3, <4>4, <4>5 DEF Owned
    <3>5. Disposed'
      BY <3>1, <3>2 DEF Disposed
    <3>6. QED BY <2>0, <2>3, <3>1, <3>3, <3>4, <3>5
  <2>4. QED BY <1>6, <2>1, <2>2, <2>3 DEF Attach
<1>7. ASSUME NEW s \in Event, AttachEvent(s) PROVE SessionInv'
  <2>0. s \in Actor \ spawned /\ Ego \in spawned
    BY <1>7 DEF AttachEvent, Actor
  <2>1. QED BY <1>3, <1>4, <1>7, <2>0 DEF AttachEvent, NothingDisposed, BodyRaises
<1>8. ASSUME NEW a \in Streamed \cup Event, Release(a) PROVE SessionInv'
  <2>1. a \in Actor \ {Ego}
    BY SessionAssumption DEF Actor
  <2>2. registry' \in Seq(Actor) /\ Owned' /\ destroyed' \in [Actor -> {0, 1}] /\ parentless' = {}
    BY <1>8, <2>1, Releases
  <2>3. session = "active" /\ UNCHANGED <<hasManager, world, manager, session, spawned, sticks, kept>>
    BY <1>8 DEF Release
  <2>4. Settings' /\ Disposed'
    BY <1>2, <2>2, <2>3 DEF Disposed
  <2>5. QED BY <2>2, <2>3, <2>4
<1>9. CASE Leave
  BY <1>3, <1>9 DEF Leave
<1>10. CASE Exit
  <2>1. Disposed'
    BY <1>10, Exits
  <2>2. /\ session' = "over" /\ registry' = <<>> /\ UNCHANGED <<hasManager, spawned, sticks>>
        /\ kept' \in SUBSET {x \in {"manager", "world"} : x = "manager" => hasManager}
        /\ manager' = IF hasManager /\ "manager" \notin kept' THEN "previous" ELSE manager
        /\ world' = IF "world" \in kept' THEN world ELSE "previous"
    BY <1>10 DEF Exit, WorldKept
  <2>3. Settings'
    BY <2>2 DEF Settings, WorldRestored
  <2>4. registry' \in Seq(Actor)
    BY <2>2
  <2>5. QED BY <2>1, <2>2, <2>3, <2>4
<1>11. CASE UNCHANGED sessionVars
  BY <1>11 DEF sessionVars, Settings, WorldRestored, Disposed, Owned, RegisteredOnce, Living
<1>12. QED BY <1>1, <1>5, <1>6, <1>7, <1>8, <1>9, <1>10, <1>11 DEF SessionNext

(* Whatever raises and wherever the set-up breaks off, a session destroys    *)
(* every actor that can be destroyed, once and before the vehicle it hangs   *)
(* on, and leaves the shared settings as it found them unless the restoring  *)
(* call itself failed.                                                       *)
THEOREM SessionRestores == SessionInit /\ [][SessionNext]_sessionVars => []NothingLeftBehind
PROOF
<1>1. SessionInit => SessionInv
  <2> SUFFICES ASSUME SessionInit PROVE SessionInv
    OBVIOUS
  <2>1. registry = <<>> /\ registry \in Seq(Actor) /\ DOMAIN registry = {}
    BY DEF SessionInit
  <2>2. destroyed \in [Actor -> {0, 1}] /\ \A a \in Actor : destroyed[a] = 0
    BY DEF SessionInit
  <2>3. QED BY <2>1, <2>2 DEF SessionInit, SessionInv, Settings, WorldRestored, Disposed, Owned, RegisteredOnce
<1>2. SessionInv => NothingLeftBehind
  BY DEF SessionInv, Settings, Disposed, NothingLeftBehind, NoActorLeaks, DisposedInOrder
<1>3. QED BY <1>1, <1>2, SessionInductive, PTL

------------------------------------------------------------------------------
\* The clock against which a beat's age is taken: it stands while paused.
Now == IF paused = NoBeat THEN clock ELSE paused
BetweenFrames == stage \in {"created", "tick", "resumed", "done"}

WatchInv ==
  /\ clock \in Nat /\ startup \in Int /\ idle \in Nat
  /\ stage \in {"created", "tick", "resumed", "sense", "work", "done"}
  /\ paused = NoBeat \/ (stage = "tick" /\ paused \in 0..clock)
  /\ beats \in [Module -> Nat \cup {NoBeat}] /\ exposed \in [Module -> Nat]
  /\ \A m \in Module : beats[m] # NoBeat => Now - beats[m] = exposed[m]
  /\ \A m \in Module : beats[m] = NoBeat => Now - startup = exposed[m] - (StartupGrace + StaleAfter)
  /\ BetweenFrames =>
       /\ \A m \in Module : exposed[m] = idle
       /\ (\A m \in Module : beats[m] = NoBeat) \/ (\A m \in Module : beats[m] # NoBeat)

LEMMA WatchInductive == WatchInv /\ [WatchNext]_watchVars => WatchInv'
PROOF
<1> SUFFICES ASSUME WatchInv, [WatchNext]_watchVars
             PROVE  WatchInv'
  OBVIOUS
<1> USE DEF WatchInv, Now, BetweenFrames, NoBeat
<1>0. StartupGrace \in Nat /\ StaleAfter \in Nat
  BY WatchdogAssumption
<1>1. CASE Elapse
  <2>1. clock' = clock + 1 /\ UNCHANGED <<beats, startup, paused, stage>>
    BY <1>1 DEF Elapse
  <2>2. CASE paused = NoBeat
    <3>1. exposed' = [m \in Module |-> exposed[m] + 1] /\ idle' = idle + 1
      BY <1>1, <2>2 DEF Elapse
    <3>2. QED BY <1>0, <2>1, <2>2, <3>1
  <2>3. CASE paused # NoBeat
    <3>1. exposed' = exposed /\ idle' = idle
      BY <1>1, <2>3 DEF Elapse
    <3>2. QED BY <1>0, <2>1, <2>3, <3>1
  <2>4. QED BY <2>2, <2>3
<1>2. CASE Pause
  BY <1>0, <1>2 DEF Pause
<1>3. CASE Resume
  <2>1. /\ stage = "tick" /\ stage' = "resumed" /\ paused \in 0..clock /\ paused # NoBeat /\ paused' = NoBeat
        /\ startup' = startup + (clock - paused)
        /\ beats' = [m \in Module |-> IF beats[m] = NoBeat THEN NoBeat ELSE beats[m] + (clock - paused)]
        /\ UNCHANGED <<clock, exposed, idle>>
    BY <1>3 DEF Resume, Deadline, Shifted
  <2>2. beats' \in [Module -> Nat \cup {NoBeat}]
    BY <2>1
  <2>3. \A m \in Module : (beats'[m] = NoBeat <=> beats[m] = NoBeat)
                          /\ (beats[m] # NoBeat => beats'[m] = beats[m] + (clock - paused))
    BY <2>1
  <2>4. QED BY <1>0, <2>1, <2>2, <2>3
<1>4. CASE Check
  BY <1>0, <1>4 DEF Check
<1>5. ASSUME NEW modules, Heartbeat(modules), UNCHANGED idle, stage = "sense", stage' = "work"
      PROVE  WatchInv'
  BY <1>0, <1>5 DEF Heartbeat
<1>6. CASE Sense
  <2>1. CASE UNCHANGED <<clock, beats, startup, paused, exposed>>
    BY <1>0, <1>6, <2>1 DEF Sense
  <2>2. QED BY <1>5, <1>6, <2>1 DEF Sense
<1>7. CASE FrameDone
  <2>1. stage' = "done" /\ idle' = 0 /\ paused = NoBeat /\ UNCHANGED <<clock, startup, paused>>
        /\ beats' = [m \in Module |-> clock] /\ exposed' = [m \in Module |-> 0]
    BY <1>7 DEF FrameDone, Heartbeat
  <2>2. QED BY <1>0, <2>1
<1>8. CASE UNCHANGED watchVars
  BY <1>0, <1>8 DEF watchVars
<1>9. QED BY <1>1, <1>2, <1>3, <1>4, <1>6, <1>7, <1>8 DEF WatchNext

(* The watchdog counts the time in which it was active, neither more nor     *)
(* less, and alerts of time lost between two frames only.                    *)
THEOREM WatchdogIsHonest == WatchInit /\ [][WatchNext]_watchVars => AlertIsLostTime
PROOF
<1>0. StartupGrace \in Nat /\ StaleAfter \in Nat
  BY WatchdogAssumption
<1>1. WatchInit => WatchInv
  BY <1>0 DEF WatchInit, WatchInv, Now, BetweenFrames, NoBeat
<1>2. WatchInv => BeatAgeIsActiveTime /\ StarvedAfterActiveStartup
  BY <1>0 DEF WatchInv, Now, NoBeat, BeatAgeIsActiveTime, StarvedAfterActiveStartup
<1> DEFINE Lost == Check /\ alert' =>
                     IF \E m \in Module : beats[m] = NoBeat THEN idle >= StartupGrace + StaleAfter
                                                            ELSE idle > StaleAfter
<1>3. WatchInv => Lost
  <2> SUFFICES ASSUME WatchInv, Check, alert'
               PROVE  IF \E m \in Module : beats[m] = NoBeat THEN idle >= StartupGrace + StaleAfter
                                                             ELSE idle > StaleAfter
    OBVIOUS
  <2>1. stage = "resumed" /\ paused = NoBeat /\ (Starved \/ Stale)
    BY DEF Check
  <2>2. \A m \in Module : exposed[m] = idle
    BY <2>1 DEF WatchInv, BetweenFrames
  <2>3. CASE \E m \in Module : beats[m] = NoBeat
    <3>1. \A m \in Module : beats[m] = NoBeat
      BY <2>1, <2>3 DEF WatchInv, BetweenFrames
    <3>2. Starved
      BY <2>1, <3>1 DEF Stale
    <3>3. QED BY <1>0, <2>1, <2>2, <2>3, <3>1, <3>2 DEF WatchInv, Now, Starved
  <2>4. CASE ~ \E m \in Module : beats[m] = NoBeat
    <3>1. Stale
      BY <2>1, <2>4 DEF Starved
    <3>2. QED BY <1>0, <2>1, <2>2, <2>4, <3>1 DEF WatchInv, Now, Stale
  <2>5. QED BY <2>3, <2>4
<1>4. QED BY <1>1, <1>2, <1>3, WatchInductive, PTL DEF AlertIsLostTime, SlowWorkIsNoOutage

------------------------------------------------------------------------------
\* The buffer: frames still to be asked for, and what was delivered of the frame awaited.
BufferInv ==
  /\ frame \in Frame \cup {-1} /\ consumed \in Frame \cup {-1} /\ consumed <= frame
  /\ emitted \subseteq Sensor \X Frame /\ \A e \in emitted : e[2] <= frame
  /\ buffer \in [Frame -> SUBSET Sensor]
  /\ \A f \in Buffered : consumed < f /\ f <= frame
  /\ Cardinality(Buffered) <= MaxFrames
  /\ wait \in {"required", "grace"} => frame \in Frame /\ consumed < frame /\ delivered \subseteq buffer[frame]

LEMMA SomeFrames ==
  ASSUME NEW S \in SUBSET Frame
  PROVE  /\ IsFiniteSet(S) /\ Cardinality(S) \in Nat
         /\ S # {} => Min(S) \in S /\ \A f \in S : Min(S) <= f
PROOF
<1>1. LastFrame \in Nat
  BY SensorAssumption
<1>2. IsFiniteSet(S) /\ Cardinality(S) \in Nat
  <2>1. IsFiniteSet(Frame)
    BY <1>1, FS_Interval DEF Frame
  <2>2. IsFiniteSet(S)
    BY <2>1, FS_Subset
  <2>3. QED BY <2>2, FS_CardinalityType
<1>3. ASSUME S # {} PROVE Min(S) \in S /\ \A f \in S : Min(S) <= f
  <2>1. S \in SUBSET Nat
    BY <1>1 DEF Frame
  <2>2. \E m \in S : \A k \in S : m <= k
    BY <1>3, <2>1, LeastNatural
  <2>3. QED BY <2>2, Zenon DEF Min
<1>4. QED BY <1>2, <1>3

\* A callback puts its measurement in, and at most the oldest frame goes.
LEMMA Pushes ==
  ASSUME BufferInv, NEW s \in Sensor, NEW f \in Frame, Push(s, f)
  PROVE  BufferInv'
PROOF
<1> DEFINE put == [buffer EXCEPT ![f] = @ \cup {s}]
           full == {g \in Frame : put[g] # {}}
<1>0. LastFrame \in Nat /\ MaxFrames \in Nat \ {0} /\ Frame \subseteq Nat /\ Frame = 0..LastFrame
  BY SensorAssumption DEF Frame
<1>1. /\ emitted' \subseteq emitted /\ f <= frame /\ UNCHANGED <<frame, consumed, wait>>
      /\ delivered' = IF f = frame THEN delivered \cup {s} ELSE delivered
      /\ buffer' = IF f <= consumed THEN buffer
                   ELSE IF Cardinality(full) <= MaxFrames THEN put
                   ELSE [put EXCEPT ![Min(full)] = {}]
  <2>1. f <= frame
    BY DEF Push, BufferInv
  <2>2. QED BY <2>1 DEF Push, Evict
<1>2. /\ put \in [Frame -> SUBSET Sensor] /\ put[f] = buffer[f] \cup {s}
      /\ \A g \in Frame : g # f => put[g] = buffer[g]
  BY DEF BufferInv
<1>3. full = Buffered \cup {f}
  BY <1>2 DEF Buffered
<1> HIDE DEF put, full
<1>4. full \in SUBSET Frame /\ full # {} /\ Buffered \in SUBSET Frame
  BY <1>3 DEF Buffered
<1>5. /\ IsFiniteSet(full) /\ Cardinality(full) \in Nat /\ Min(full) \in full /\ \A g \in full : Min(full) <= g
      /\ IsFiniteSet(Buffered) /\ Cardinality(Buffered) \in Nat
  BY <1>4, SomeFrames
<1>6. Cardinality(full) <= MaxFrames + 1
  <2>1. Cardinality(full) <= Cardinality(Buffered) + 1
    BY <1>3, <1>5, FS_AddElement
  <2>2. QED BY <1>0, <1>5, <2>1 DEF BufferInv
<1>7. CASE f <= consumed
  <2>1. UNCHANGED <<frame, consumed, wait, buffer>> /\ Buffered' = Buffered
    BY <1>1, <1>7 DEF Buffered
  <2>2. wait' \in {"required", "grace"} => delivered' = delivered
    BY <1>0, <1>1, <1>7 DEF BufferInv
  <2>3. QED BY <1>1, <2>1, <2>2 DEF BufferInv
<1>8. CASE ~(f <= consumed) /\ Cardinality(full) <= MaxFrames
  <2>1. buffer' = put /\ Buffered' = full
    BY <1>1, <1>8 DEF Buffered, full
  <2>2. \A g \in Buffered' : consumed' < g /\ g <= frame'
    BY <1>0, <1>1, <1>3, <1>8, <2>1 DEF BufferInv
  <2>3. wait' \in {"required", "grace"} => delivered' \subseteq buffer'[frame']
    BY <1>1, <1>2, <2>1 DEF BufferInv
  <2>4. QED BY <1>1, <1>2, <1>8, <2>1, <2>2, <2>3 DEF BufferInv
<1>9. CASE ~(f <= consumed) /\ ~(Cardinality(full) <= MaxFrames)
  <2>1. buffer' = [put EXCEPT ![Min(full)] = {}]
    BY <1>1, <1>9
  <2>2. /\ buffer' \in [Frame -> SUBSET Sensor] /\ buffer'[Min(full)] = {}
        /\ \A g \in Frame : g # Min(full) => buffer'[g] = put[g]
    BY <1>2, <1>4, <1>5, <2>1
  <2>3. Buffered' = full \ {Min(full)}
    BY <2>2 DEF Buffered, full
  <2>4. Cardinality(Buffered') <= MaxFrames
    <3>1. Cardinality(full \ {Min(full)}) = Cardinality(full) - 1
      BY <1>5, FS_RemoveElement
    <3>2. QED BY <1>0, <1>5, <1>6, <2>3, <3>1
  <2>5. \A g \in Buffered' : consumed' < g /\ g <= frame'
    BY <1>0, <1>1, <1>3, <1>9, <2>3 DEF BufferInv
  <2>6. ASSUME wait' \in {"required", "grace"} PROVE delivered' \subseteq buffer'[frame']
    <3>1. frame \in Frame /\ delivered \subseteq buffer[frame]
      BY <1>1, <2>6 DEF BufferInv
    <3>2. \A g \in full : g <= frame
      BY <1>1, <1>3 DEF BufferInv
    <3>3. Min(full) # frame
      <4>1. SUFFICES ASSUME Min(full) = frame PROVE FALSE
        OBVIOUS
      <4>2. full = {frame}
        <5>1. \A g \in full : g = frame
          BY <1>0, <1>4, <1>5, <3>1, <3>2, <4>1
        <5>2. QED BY <1>4, <5>1
      <4>3. Cardinality(full) = 1
        BY <4>2, FS_Singleton
      <4>4. QED BY <1>0, <1>9, <4>3
    <3>4. buffer'[frame] = put[frame]
      BY <2>2, <3>1, <3>3
    <3>5. QED BY <1>1, <1>2, <3>1, <3>4
  <2>7. QED BY <1>1, <2>2, <2>4, <2>5, <2>6 DEF BufferInv
<1>10. QED BY <1>7, <1>8, <1>9

LEMMA BufferInductive == BufferInv /\ [SensorNext]_sensorVars => BufferInv'
PROOF
<1> SUFFICES ASSUME BufferInv, [SensorNext]_sensorVars
             PROVE  BufferInv'
  OBVIOUS
<1>0. LastFrame \in Nat /\ MaxFrames \in Nat \ {0} /\ Frame \subseteq Nat /\ Frame = 0..LastFrame
  BY SensorAssumption DEF Frame
<1>1. CASE Tick
  <2>1. frame' = frame + 1 /\ frame < LastFrame /\ delivered' = {} /\ UNCHANGED <<buffer, consumed>>
        /\ wait' = "required"
    BY <1>1 DEF Tick
  <2>2. Buffered' = Buffered
    BY <2>1 DEF Buffered
  <2>3. frame' \in Frame /\ frame < frame' /\ frame \in Int /\ consumed \in Int
    BY <1>0, <2>1 DEF BufferInv
  <2>4. emitted' \subseteq Sensor \X Frame /\ \A e \in emitted' : e[2] <= frame'
    <3>1. PICK S \in SUBSET Sensor : emitted' = emitted \cup (S \X {frame + 1})
      BY <1>1 DEF Tick
    <3>2. \A e \in S \X {frame + 1} : e \in Sensor \X Frame /\ e[2] = frame'
      BY <2>1, <2>3
    <3>3. \A e \in emitted : e \in Sensor \X Frame /\ e[2] <= frame'
      <4>1. SUFFICES ASSUME NEW e \in emitted PROVE e \in Sensor \X Frame /\ e[2] <= frame'
        OBVIOUS
      <4>2. e \in Sensor \X Frame /\ e[2] <= frame
        BY DEF BufferInv
      <4>3. e[2] \in Int
        BY <1>0, <4>2
      <4>4. frame' \in Int
        BY <1>0, <2>3
      <4>5. QED BY <2>3, <4>2, <4>3, <4>4
    <3>4. \A e \in emitted' : e \in Sensor \X Frame /\ e[2] <= frame'
      BY <1>0, <2>3, <3>1, <3>2, <3>3
    <3>5. QED BY <3>4
  <2>5. consumed' < frame' /\ consumed' \in Frame \cup {-1}
    BY <1>0, <2>1, <2>3 DEF BufferInv
  <2>6. \A f \in Buffered' : consumed' < f /\ f <= frame'
    <3>1. Buffered \subseteq Frame
      BY DEF Buffered
    <3>2. frame' \in Int
      BY <1>0, <2>3
    <3>3. QED BY <1>0, <2>1, <2>2, <2>3, <3>1, <3>2 DEF BufferInv
  <2>7. consumed' <= frame'
    BY <1>0, <2>1, <2>3, <2>5
  <2>8. QED BY <2>1, <2>2, <2>3, <2>4, <2>5, <2>6, <2>7 DEF BufferInv
<1>2. ASSUME NEW s \in Sensor, NEW f \in Frame, Push(s, f) PROVE BufferInv'
  BY <1>2, Pushes
<1>3. ASSUME Align, wait \in {"required", "grace"} PROVE BufferInv'
  <2>1. /\ buffer' = [f \in Frame |-> IF f <= frame THEN {} ELSE buffer[f]] /\ consumed' = frame /\ wait' = "flags"
        /\ UNCHANGED <<frame, emitted, delivered>>
    BY <1>3 DEF Align
  <2>2. Buffered' = {}
    BY <2>1 DEF BufferInv, Buffered
  <2>3. Cardinality(Buffered') <= MaxFrames
    BY <1>0, <2>2, FS_EmptySet
  <2>4. QED BY <1>0, <1>3, <2>1, <2>2, <2>3 DEF BufferInv
<1>4. ASSUME UNCHANGED <<frame, emitted, buffer, consumed, delivered>>,
             wait' \in {"required", "grace"} => wait \in {"required", "grace"}
      PROVE  BufferInv'
  BY <1>4 DEF BufferInv, Buffered
<1>5. CASE Wake
  BY <1>3, <1>4, <1>5 DEF Wake
<1>6. CASE GraceOver
  BY <1>3, <1>6 DEF GraceOver
<1>7. CASE Timeout \/ DataError \/ Flags
  BY <1>4, <1>7 DEF Timeout, DataError, Flags
<1>8. ASSUME NEW a \in arriving, Bind(a) \/ Record(a) PROVE BufferInv'
  BY <1>4, <1>8 DEF Bind, Record, bufferVars
<1>9. CASE UNCHANGED sensorVars
  BY <1>4, <1>9 DEF sensorVars, bufferVars
<1>10. QED BY <1>1, <1>2, <1>5, <1>6, <1>7, <1>8, <1>9 DEF SensorNext, Callback, Acquire

------------------------------------------------------------------------------
\* The events: each is on one callback's hands, in the ledger, told, or lost where it may be.
EventInv ==
  /\ happened \subseteq EventKind \X Frame /\ \A e \in happened : e[2] <= frame
  /\ arriving \subseteq [event : happened, set : {"unread", "current", "replaced"}]
  /\ \A a, b \in arriving : a.event = b.event => a = b
  /\ ledger \in [EventKind -> SUBSET happened] /\ told \subseteq happened
  /\ \A a \in arriving : a.event \notin told \cup Recorded
  /\ EventsAreToldOnce

\* Whatever a rebinding does to the sets they hold, the callbacks keep their events.
LEMMA ReboundKeeps ==
  ASSUME NEW E, NEW A \in SUBSET [event : E, set : {"unread", "current", "replaced"}],
         \A a, b \in A : a.event = b.event => a = b
  PROVE  /\ Rebound(A) \subseteq [event : E, set : {"unread", "current", "replaced"}]
         /\ \A a, b \in Rebound(A) : a.event = b.event => a = b
         /\ \A a \in A : \E b \in Rebound(A) : b.event = a.event
         /\ \A b \in Rebound(A) : \E a \in A : b.event = a.event
PROOF
<1> DEFINE Left(a) == IF a.set = "current" THEN [a EXCEPT !.set = "replaced"] ELSE a
<1>1. \A a \in A : /\ Left(a) \in [event : E, set : {"unread", "current", "replaced"}]
                   /\ Left(a).event = a.event
  OBVIOUS
<1>2. Rebound(A) = {Left(a) : a \in A}
  BY DEF Rebound
<1> HIDE DEF Left
<1>3. ASSUME NEW a \in Rebound(A), NEW b \in Rebound(A), a.event = b.event PROVE a = b
  <2>1. PICK c \in A : a = Left(c)
    BY <1>2
  <2>2. PICK d \in A : b = Left(d)
    BY <1>2
  <2>3. c = d
    BY <1>1, <1>3, <2>1, <2>2
  <2>4. QED BY <2>1, <2>2, <2>3
<1>4. QED BY <1>1, <1>2, <1>3

LEMMA EventTick ==
  ASSUME BufferInv, EventInv, Tick
  PROVE  EventInv'
PROOF
<1>1. PICK k \in SUBSET EventKind :
        /\ happened' = happened \cup (k \X {frame + 1})
        /\ arriving' = arriving \cup {[event |-> e, set |-> "unread"] : e \in k \X {frame + 1}}
  BY DEF Tick
<1>2. /\ frame' = frame + 1 /\ frame < LastFrame /\ UNCHANGED <<ledger, told, orphaned, forgotten>>
  BY DEF Tick
<1>3. LastFrame \in Nat /\ Frame = 0..LastFrame /\ frame \in Frame \cup {-1}
  BY SensorAssumption DEF Frame, BufferInv
<1>4. frame' \in Frame /\ frame' \in Int /\ frame \in Int
  BY <1>2, <1>3
<1> DEFINE new == k \X {frame + 1}
           fresh == {[event |-> e, set |-> "unread"] : e \in new}
<1>5. \A e \in new : e \in EventKind \X Frame /\ e[2] = frame'
  BY <1>2, <1>4
<1>6. \A e \in happened : e \in EventKind \X Frame /\ e[2] <= frame /\ e[2] \in Int
  BY <1>3 DEF EventInv
<1>7. happened \cap new = {}
  <2>1. \A e \in happened : e[2] # frame'
    BY <1>2, <1>4, <1>6
  <2>2. QED BY <1>5, <2>1
<1>8. happened' = happened \cup new /\ arriving' = arriving \cup fresh
  BY <1>1
<1>9. \A b \in fresh : b \in [event : new, set : {"unread", "current", "replaced"}] /\ b.set = "unread"
  OBVIOUS
<1>10. Recorded' = Recorded /\ Recorded \subseteq happened
  BY <1>2 DEF Recorded, EventInv
<1> HIDE DEF new
<1>11. happened' \subseteq EventKind \X Frame /\ \A e \in happened' : e[2] <= frame'
  <2>1. \A e \in happened : e[2] <= frame'
    BY <1>2, <1>4, <1>6
  <2>2. \A e \in new : e[2] <= frame'
    BY <1>4, <1>5
  <2>3. QED BY <1>5, <1>6, <1>8, <2>1, <2>2
<1>12. arriving' \subseteq [event : happened', set : {"unread", "current", "replaced"}]
  <2>1. arriving \subseteq [event : happened', set : {"unread", "current", "replaced"}]
    BY <1>8 DEF EventInv
  <2>2. fresh \subseteq [event : happened', set : {"unread", "current", "replaced"}]
    BY <1>8
  <2>3. QED BY <1>8, <2>1, <2>2
<1>13. ASSUME NEW a \in arriving', NEW b \in arriving', a.event = b.event PROVE a = b
  <2>1. \A c \in arriving : c.event \in happened
    BY DEF EventInv
  <2>2. \A c \in fresh : c.event \in new /\ c = [event |-> c.event, set |-> "unread"]
    OBVIOUS
  <2>3. CASE a.event \in new
    <3>1. a \in fresh /\ b \in fresh
      BY <1>7, <1>8, <1>13, <2>1, <2>3
    <3>2. QED BY <1>13, <2>2, <3>1
  <2>4. CASE a.event \notin new
    <3>1. a \in arriving /\ b \in arriving
      BY <1>8, <1>13, <2>2, <2>4
    <3>2. QED BY <1>13, <3>1 DEF EventInv
  <2>5. QED BY <2>3, <2>4
<1>14. \A a \in arriving' : a.event \notin told' \cup Recorded'
  <2>1. \A a \in arriving : a.event \notin told \cup Recorded
    BY DEF EventInv
  <2>2. \A a \in fresh : a.event \in new
    BY <1>9
  <2>3. told \subseteq happened
    BY DEF EventInv
  <2>4. QED BY <1>2, <1>7, <1>8, <1>10, <2>1, <2>2, <2>3
<1>15. ledger' \in [EventKind -> SUBSET happened'] /\ told' \subseteq happened'
  BY <1>2, <1>8 DEF EventInv
<1>16. EventsAreToldOnce'
  <2>1. told' \cap Recorded' = {}
    BY <1>2, <1>10 DEF EventInv, EventsAreToldOnce
  <2>2. ASSUME NEW e \in happened' \ (orphaned' \cup forgotten')
        PROVE  e \in told' \cup Recorded' \/ \E a \in arriving' : a.event = e
    <3>1. CASE e \in happened
      BY <1>2, <1>8, <1>10, <2>2, <3>1 DEF EventInv, EventsAreToldOnce
    <3>2. CASE e \in new
      <4>1. [event |-> e, set |-> "unread"] \in arriving'
        BY <1>8, <3>2
      <4>2. QED BY <4>1
    <3>3. QED BY <1>8, <3>1, <3>2
  <2>3. QED BY <2>1, <2>2 DEF EventsAreToldOnce
<1>17. QED BY <1>11, <1>12, <1>13, <1>14, <1>15, <1>16 DEF EventInv

LEMMA EventBind ==
  ASSUME EventInv, NEW a \in arriving, Bind(a)
  PROVE  EventInv'
PROOF
<1> DEFINE b == [a EXCEPT !.set = "current"]
<1>1. arriving' = (arriving \ {a}) \cup {b} /\ UNCHANGED <<frame, happened, ledger, told, orphaned, forgotten>>
  BY DEF Bind, bufferVars
<1>2. b \in [event : happened, set : {"unread", "current", "replaced"}] /\ b.event = a.event
  BY DEF EventInv
<1> HIDE DEF b
<1>3. Recorded' = Recorded
  BY <1>1 DEF Recorded
<1>4. \A c, d \in arriving' : c.event = d.event => c = d
  BY <1>1, <1>2 DEF EventInv
<1>5. \A c \in arriving' : c.event \notin told' \cup Recorded'
  BY <1>1, <1>2, <1>3 DEF EventInv
<1>6. EventsAreToldOnce'
  BY <1>1, <1>2, <1>3 DEF EventInv, EventsAreToldOnce
<1>7. arriving' \subseteq [event : happened', set : {"unread", "current", "replaced"}]
  BY <1>1, <1>2 DEF EventInv
<1>8. QED BY <1>1, <1>4, <1>5, <1>6, <1>7 DEF EventInv

\* One frame's set of events goes to the ledger or is dropped, never told twice.
LEMMA EventRecord ==
  ASSUME EventInv, NEW a \in arriving, Record(a)
  PROVE  EventInv'
PROOF
<1> DEFINE added == IF a.set = "current" THEN [ledger EXCEPT ![a.event[1]] = @ \cup {a.event}] ELSE ledger
           rest == arriving \ {a}
<1>1. /\ UNCHANGED <<frame, happened, told>>
      /\ orphaned' = IF a.set = "current" THEN orphaned ELSE orphaned \cup {a.event}
      /\ ledger' = IF TooMany(added) THEN Kept(added) ELSE added
      /\ arriving' = IF TooMany(added) THEN Rebound(rest) ELSE rest
      /\ forgotten' = forgotten \cup UNION {added[j] \ ledger'[j] : j \in EventKind}
  BY DEF Record, bufferVars
<1>2. /\ a.event \in happened /\ a.event[1] \in EventKind /\ a.event \notin told
      /\ \A c \in rest : c.event # a.event
  BY DEF EventInv
<1>3. /\ added \in [EventKind -> SUBSET happened]
      /\ \A j \in EventKind : ledger[j] \subseteq added[j] /\ added[j] \subseteq ledger[j] \cup {a.event}
      /\ a.set = "current" => a.event \in added[a.event[1]]
  BY <1>2 DEF EventInv
<1> HIDE DEF added
<1>4. ledger' \in [EventKind -> SUBSET happened] /\ \A j \in EventKind : ledger'[j] \subseteq added[j]
  <2>1. Kept(added) \in [EventKind -> SUBSET happened] /\ \A j \in EventKind : Kept(added)[j] \subseteq added[j]
    BY <1>3 DEF Kept
  <2>2. QED BY <1>1, <1>3, <2>1
<1>5. Recorded' \subseteq Recorded \cup {a.event}
  BY <1>3, <1>4 DEF Recorded
<1>6. Recorded \subseteq Recorded' \cup forgotten' /\ (a.set = "current" => a.event \in Recorded' \cup forgotten')
  <2>1. \A j \in EventKind : added[j] \subseteq Recorded' \cup forgotten'
    BY <1>1 DEF Recorded
  <2>2. Recorded \subseteq Recorded' \cup forgotten'
    BY <1>3, <2>1 DEF Recorded
  <2>3. QED BY <1>2, <1>3, <2>1, <2>2
<1>7. /\ rest \subseteq [event : happened, set : {"unread", "current", "replaced"}]
      /\ \A c, d \in rest : c.event = d.event => c = d
  BY DEF EventInv
<1> HIDE DEF rest
<1>8. /\ arriving' \subseteq [event : happened', set : {"unread", "current", "replaced"}]
      /\ \A c, d \in arriving' : c.event = d.event => c = d
      /\ \A c \in rest : \E d \in arriving' : d.event = c.event
      /\ \A d \in arriving' : \E c \in rest : d.event = c.event
  BY <1>1, <1>7, ReboundKeeps
<1>9. \A c \in arriving' : c.event \notin told' \cup Recorded'
  <2>1. \A c \in rest : c.event \notin told \cup Recorded
    BY DEF EventInv, rest
  <2>2. QED BY <1>1, <1>2, <1>5, <1>8, <2>1
<1>10. EventsAreToldOnce'
  <2>1. told' \cap Recorded' = {}
    BY <1>1, <1>2, <1>5 DEF EventInv, EventsAreToldOnce
  <2>2. ASSUME NEW e \in happened' \ (orphaned' \cup forgotten')
        PROVE  e \in told' \cup Recorded' \/ \E c \in arriving' : c.event = e
    <3>1. e \in happened \ (orphaned \cup forgotten)
      BY <1>1, <2>2
    <3>2. CASE e \in told \cup Recorded
      BY <1>1, <1>6, <2>2, <3>2
    <3>3. CASE e = a.event
      <4>1. a.set = "current"
        BY <1>1, <2>2, <3>3
      <4>2. QED BY <1>6, <2>2, <3>3, <4>1
    <3>4. CASE \E c \in rest : c.event = e
      BY <1>8, <3>4
    <3>5. e \in told \cup Recorded \/ \E c \in arriving : c.event = e
      BY <3>1 DEF EventInv, EventsAreToldOnce
    <3>6. QED BY <3>2, <3>3, <3>4, <3>5 DEF rest
  <2>3. QED BY <2>1, <2>2 DEF EventsAreToldOnce
<1>11. QED BY <1>1, <1>4, <1>8, <1>9, <1>10 DEF EventInv

LEMMA EventFlags ==
  ASSUME EventInv, Flags
  PROVE  EventInv'
PROOF
<1>1. /\ told' = told \cup {e \in Recorded : Due(e)}
      /\ ledger' = [k \in EventKind |-> {e \in ledger[k] : ~(EventFrame(e) <= frame)}]
      /\ arriving' = Rebound(arriving)
      /\ UNCHANGED <<frame, happened, orphaned, forgotten>>
  BY DEF Flags
<1>2. Recorded' = {e \in Recorded : ~Due(e)}
  <2>1. \A k \in EventKind : ledger'[k] = {e \in ledger[k] : ~Due(e)}
    BY <1>1 DEF Due
  <2>2. QED BY <2>1 DEF Recorded
<1>3. /\ arriving' \subseteq [event : happened', set : {"unread", "current", "replaced"}]
      /\ \A c, d \in arriving' : c.event = d.event => c = d
      /\ \A c \in arriving : \E d \in arriving' : d.event = c.event
      /\ \A d \in arriving' : \E c \in arriving : d.event = c.event
  BY <1>1, ReboundKeeps DEF EventInv
<1>4. told' \cup Recorded' = told \cup Recorded /\ told' \cap Recorded' = {}
  BY <1>1, <1>2 DEF EventInv, EventsAreToldOnce
<1>5. ledger' \in [EventKind -> SUBSET happened'] /\ told' \subseteq happened'
  BY <1>1 DEF EventInv, Recorded
<1>6. \A c \in arriving' : c.event \notin told' \cup Recorded'
  BY <1>3, <1>4 DEF EventInv
<1>7. EventsAreToldOnce'
  BY <1>1, <1>3, <1>4 DEF EventInv, EventsAreToldOnce
<1>8. QED BY <1>1, <1>3, <1>5, <1>6, <1>7 DEF EventInv

LEMMA EventInductive == BufferInv /\ EventInv /\ [SensorNext]_sensorVars => EventInv'
PROOF
<1> SUFFICES ASSUME BufferInv, EventInv, [SensorNext]_sensorVars
             PROVE  EventInv'
  OBVIOUS
<1>1. CASE Tick
  BY <1>1, EventTick
<1>2. ASSUME UNCHANGED <<frame, eventVars>> PROVE EventInv'
  BY <1>2 DEF eventVars, EventInv, Recorded, EventsAreToldOnce
<1>3. ASSUME NEW s \in Sensor, NEW f \in Frame, Push(s, f) PROVE EventInv'
  BY <1>2, <1>3 DEF Push
<1>4. ASSUME NEW a \in arriving, Bind(a) \/ Record(a) PROVE EventInv'
  BY <1>4, EventBind, EventRecord
<1>5. CASE Wake \/ GraceOver \/ Timeout \/ DataError
  BY <1>2, <1>5 DEF Wake, GraceOver, Align, Timeout, DataError
<1>6. CASE Flags
  BY <1>6, EventFlags
<1>7. CASE UNCHANGED sensorVars
  BY <1>2, <1>7 DEF sensorVars, bufferVars
<1>8. QED BY <1>1, <1>3, <1>4, <1>5, <1>6, <1>7 DEF SensorNext, Callback, Acquire

(* What the sensors measured and what happened reaches the frame loop: the   *)
(* buffer holds no frame that is past, an event is told once, and a frame    *)
(* given up lacks a required measurement.                                    *)
THEOREM SensorsSound == SensorInit /\ [][SensorNext]_sensorVars => SensorsReachTheLoop
PROOF
<1>1. SensorInit => BufferInv /\ EventInv
  <2> SUFFICES ASSUME SensorInit PROVE BufferInv /\ EventInv
    OBVIOUS
  <2>1. Buffered = {} /\ Recorded = {} /\ MaxFrames \in Nat
    BY SensorAssumption DEF SensorInit, Buffered, Recorded
  <2>2. Cardinality(Buffered) <= MaxFrames
    BY <2>1, FS_EmptySet
  <2>3. BufferInv
    BY <2>1, <2>2 DEF SensorInit, BufferInv
  <2>4. EventInv
    BY <2>1 DEF SensorInit, EventInv, EventsAreToldOnce
  <2>5. QED BY <2>3, <2>4
<1>2. BufferInv => BufferOnlyFuture
  <2>1. SUFFICES ASSUME BufferInv, NEW f \in Buffered PROVE f > consumed
    BY DEF BufferInv, BufferOnlyFuture
  <2>2. f \in Frame /\ consumed < f
    BY <2>1 DEF BufferInv, Buffered
  <2>3. Frame \subseteq Int
    BY SensorAssumption DEF Frame
  <2>4. consumed \in Int
    BY <2>1, <2>3 DEF BufferInv
  <2>5. QED BY <2>2, <2>3, <2>4
<1>3. EventInv => EventsAreToldOnce
  BY DEF EventInv
<1>4. BufferInv => (Timeout => ~(Required \subseteq delivered))
  BY DEF BufferInv, Timeout, Ready
<1>5. QED BY <1>1, <1>2, <1>3, <1>4, BufferInductive, EventInductive, PTL
          DEF SensorsReachTheLoop, GivenUpMeansMissing

-----------------------------------------------------------------------------
(* Perception.                                                             *)

\* A track is what the tracker remembers of a lead.
Track == [gap : Int, speed : Int \cup {None}, seen : Int, travel : Int, age : Int]

LeadInv ==
  /\ track = None \/ (track \in Track /\ silence <= track.age /\ track.age <= Hold)
  /\ previous \in Int \cup {None} /\ pending \in Int \cup {None}
  /\ silence \in Nat /\ trend \in Nat /\ vruAge \in Nat
  /\ pending # None => trend >= 1
  /\ vruAge <= VruHold => caution = VruHold - vruAge

\* What was reported last: the properties of the last frame.
Reported == LeadIsReal /\ VruHoldLasts

\* The elapsed time and the inputs of a frame.
LEMMA SinceType ==
  ASSUME NEW dt \in Gaps
  PROVE  (IF started THEN dt ELSE 0) \in Nat /\ (started => dt >= 1)
BY LeadAssumption

LEMMA RawLeadType ==
  ASSUME NEW lidar \in Ranges \cup {None}, NEW radar \in Returns \cup {None}, NEW ego \in Speeds
  PROVE  /\ RawLead(lidar, radar, ego).gap \in Int \cup {None}
         /\ RawLead(lidar, radar, ego).speed \in Int \cup {None}
         /\ RawLead(lidar, radar, ego).gap = None => RawLead(lidar, radar, ego).speed = None
PROOF
<1>1. ego \in Int /\ None \notin Int
  BY LeadAssumption
<1>2. lidar # None => lidar \in Int
  BY LeadAssumption
<1>3. radar # None => radar.gap \in Int /\ radar.rate \in Int
  BY LeadAssumption
<1>4. radar # None => Larger(0, ego + radar.rate) \in Int
  BY <1>1, <1>3 DEF Larger
<1> DEFINE static == IF detector THEN 0 ELSE None
           towards == Larger(0, ego + radar.rate)
<1>5. static \in Int \cup {None}
  OBVIOUS
<1>6. CASE lidar = None /\ radar # None /\ radar.gap <= 80
  <2>1. RawLead(lidar, radar, ego) = [gap |-> radar.gap, speed |-> towards]
    BY <1>6 DEF RawLead
  <2>2. towards \in Int
    BY <1>4, <1>6
  <2> HIDE DEF towards
  <2>3. QED BY <1>1, <1>3, <1>6, <2>1, <2>2
<1>7. CASE lidar # None /\ radar # None /\ Apart(radar.gap, lidar) <= 40
  <2>1. RawLead(lidar, radar, ego) = [gap |-> lidar, speed |-> towards]
    BY <1>7 DEF RawLead
  <2>2. towards \in Int
    BY <1>4, <1>7
  <2> HIDE DEF towards
  <2>3. QED BY <1>1, <1>2, <1>7, <2>1, <2>2
<1>8. CASE /\ ~(lidar = None /\ radar # None /\ radar.gap <= 80)
           /\ ~(lidar # None /\ radar # None /\ Apart(radar.gap, lidar) <= 40)
  <2> DEFINE speed == IF lidar = None THEN None ELSE static
  <2>1. RawLead(lidar, radar, ego) = [gap |-> lidar, speed |-> speed]
    BY <1>8 DEF RawLead
  <2>2. speed \in Int \cup {None} /\ (lidar = None => speed = None)
    BY <1>5
  <2> HIDE DEF speed, static
  <2>3. QED BY <1>2, <2>1, <2>2
<1>9. QED BY <1>6, <1>7, <1>8

LEMMA PredictedType ==
  ASSUME track \in Track, NEW since \in Nat, NEW ego \in Speeds
  PROVE  /\ Predicted(since, ego) \in Int
         /\ Aged(since, ego) \in Track
         /\ Aged(since, ego).age = track.age + since
         /\ Bridged(since, ego) \in Track
         /\ Bridged(since, ego).gap = Predicted(since, ego)
         /\ Bridged(since, ego).age = track.age + since
         /\ Bridged(since, ego).speed = track.speed
PROOF
<1>1. ego \in Int /\ None \notin Int
  BY LeadAssumption
<1>2. /\ track.gap \in Int /\ track.speed \in Int \cup {None} /\ track.seen \in Int
      /\ track.travel \in Int /\ track.age \in Int
  BY DEF Track
<1>3. AssumedSpeed \in Int
  BY <1>2 DEF AssumedSpeed
<1>4. Larger(0, ego - AssumedSpeed) \in Int
  BY <1>1, <1>3 DEF Larger
<1>5. Larger(0, ego - AssumedSpeed) * since \in Int
  BY <1>4
<1>6. Predicted(since, ego) \in Int
  BY <1>2, <1>5 DEF Predicted, Larger, Closest
<1>7. track.travel + ego * since \in Int
  <2>1. ego * since \in Int
    BY <1>1
  <2>2. QED BY <1>2, <2>1
<1> DEFINE went == track.travel + ego * since
           gap == Predicted(since, ego)
<1>8. Aged(since, ego) = [track EXCEPT !.age = track.age + since, !.travel = went]
  BY DEF Aged
<1>9. Bridged(since, ego) = [Aged(since, ego) EXCEPT !.gap = gap]
  BY DEF Bridged
<1> HIDE DEF went, gap
<1>10. Aged(since, ego) = [gap |-> track.gap, speed |-> track.speed, seen |-> track.seen,
                           travel |-> went, age |-> track.age + since]
  BY <1>8 DEF Track
<1>11. Bridged(since, ego) = [gap |-> gap, speed |-> track.speed, seen |-> track.seen,
                              travel |-> went, age |-> track.age + since]
  BY <1>9, <1>10
<1>12. went \in Int /\ gap \in Int /\ track.age + since \in Int
  BY <1>2, <1>6, <1>7 DEF went, gap
<1>13. Aged(since, ego) \in Track /\ Aged(since, ego).age = track.age + since
  BY <1>2, <1>10, <1>12 DEF Track
<1>14. Bridged(since, ego) \in Track
  BY <1>2, <1>11, <1>12 DEF Track
<1>15. /\ Bridged(since, ego).gap = gap /\ Bridged(since, ego).age = track.age + since
       /\ Bridged(since, ego).speed = track.speed
  BY <1>11
<1>16. QED BY <1>6, <1>13, <1>14, <1>15 DEF gap

LEMMA ObservedType ==
  ASSUME track = None \/ track \in Track, NEW raw \in Int, NEW speed \in Int \cup {None},
         NEW since \in Nat, NEW ego \in Speeds
  PROVE  /\ Observed(raw, speed, since, ego) \in Track
         /\ Observed(raw, speed, since, ego).gap = raw
         /\ Observed(raw, speed, since, ego).age = 0
PROOF
<1>1. None \notin Int
  BY LeadAssumption
<1>2. Inferred(raw, since, ego) \in Int \cup {None}
  BY DEF Inferred, MaxLeadSpeed
<1> DEFINE measured == IF speed # None THEN Smaller(MaxLeadSpeed, speed) ELSE Inferred(raw, since, ego)
<1>3. measured \in Int \cup {None}
  BY <1>2 DEF Smaller, MaxLeadSpeed
<1>4. Observed(raw, speed, since, ego)
        = [gap |-> raw, speed |-> Smoothed(measured), seen |-> raw, travel |-> 0, age |-> 0]
  BY DEF Observed
<1> HIDE DEF measured
<1>5. Smoothed(measured) \in Int \cup {None}
  <2>1. track # None => track.speed \in Int \cup {None}
    BY DEF Track
  <2>2. CASE measured = None \/ track = None \/ track.speed = None
    BY <1>3, <2>2 DEF Smoothed
  <2>3. CASE ~(measured = None \/ track = None \/ track.speed = None)
    <3>1. track.speed \in Int /\ measured \in Int
      BY <1>3, <2>1, <2>3
    <3>2. (13 * track.speed + 7 * measured) \div 20 \in Int
      BY <3>1
    <3>3. QED BY <2>3, <3>2 DEF Smoothed
  <2>4. QED BY <2>2, <2>3
<1> DEFINE smooth == Smoothed(measured)
<1> HIDE DEF smooth
<1>6. smooth \in Int \cup {None}
  BY <1>5 DEF smooth
<1>7. Observed(raw, speed, since, ego) = [gap |-> raw, speed |-> smooth, seen |-> raw, travel |-> 0, age |-> 0]
  BY <1>4 DEF smooth
<1>8. QED BY <1>6, <1>7 DEF Track

\* What becomes of a track: the return of the frame, its prediction, or nothing.
LEMMA TrackedFacts ==
  ASSUME LeadInv, NEW lead, lead.gap \in Int \cup {None}, lead.speed \in Int \cup {None},
         lead.gap = None => lead.speed = None, NEW since \in Nat, NEW ego \in Speeds
  PROVE  /\ \/ Tracked(lead, since, ego) = None /\ lead.gap = None
            \/ /\ Tracked(lead, since, ego) \in Track /\ lead.gap # None
               /\ Tracked(lead, since, ego).gap = lead.gap /\ Tracked(lead, since, ego).age = 0
            \/ /\ Tracked(lead, since, ego) \in Track /\ track \in Track
               /\ lead.gap # None => lead.gap > Tracked(lead, since, ego).gap
               /\ Tracked(lead, since, ego).age = track.age + since /\ track.age + since <= Hold
         /\ LeadSpeed(lead, since, ego) \in Int \cup {None}
         /\ Tracked(lead, since, ego) = None => LeadSpeed(lead, since, ego) = None
PROOF
<1> DEFINE next == Tracked(lead, since, ego)
<1>1. None \notin Track /\ None \notin Int
  BY LeadAssumption DEF Track
<1>2. Holds(since) => track \in Track /\ track.age + since <= Hold
  BY DEF Holds, LeadInv
<1>3. CASE lead.gap # None /\ ~Suppressed(lead.gap, since, ego)
  <2>1. next = Observed(lead.gap, lead.speed, since, ego)
    BY <1>3 DEF Tracked
  <2>2. next \in Track /\ next.gap = lead.gap /\ next.age = 0
    <3>1. lead.gap \in Int /\ (track = None \/ track \in Track)
      BY <1>3 DEF LeadInv
    <3>2. /\ Observed(lead.gap, lead.speed, since, ego) \in Track
          /\ Observed(lead.gap, lead.speed, since, ego).gap = lead.gap
          /\ Observed(lead.gap, lead.speed, since, ego).age = 0
      BY <3>1, ObservedType
    <3>3. QED BY <2>1, <3>2
  <2> HIDE DEF next
  <2>3. LeadSpeed(lead, since, ego) = next.speed
    BY <1>1, <2>2 DEF LeadSpeed, next
  <2>4. next.speed \in Int \cup {None} /\ next # None
    BY <1>1, <2>2 DEF Track
  <2>5. QED BY <1>3, <2>2, <2>3, <2>4 DEF next
<1>4. CASE ~(lead.gap # None /\ ~Suppressed(lead.gap, since, ego)) /\ Holds(since)
  <2>1. next = Bridged(since, ego)
    BY <1>4 DEF Tracked
  <2>2. /\ next \in Track /\ next.gap = Predicted(since, ego) /\ next.age = track.age + since
        /\ next.speed = track.speed /\ Predicted(since, ego) \in Int
    BY <1>2, <1>4, <2>1, PredictedType
  <2> HIDE DEF next
  <2>3. lead.gap # None => lead.gap > next.gap
    <3>1. SUFFICES ASSUME lead.gap # None PROVE lead.gap > next.gap
      OBVIOUS
    <3>2. lead.gap > Predicted(since, ego) + Jump /\ lead.gap \in Int
      BY <1>4, <3>1 DEF Suppressed
    <3>3. QED BY <2>2, <3>2 DEF Jump
  <2>4. LeadSpeed(lead, since, ego) \in Int \cup {None} /\ next # None
    <3>1. next.speed \in Int \cup {None} /\ next # None
      BY <1>1, <2>2 DEF Track
    <3>2. AssumedSpeed \in Int \cup {None}
      BY <2>2, <3>1 DEF AssumedSpeed
    <3>3. LeadSpeed(lead, since, ego) = IF next.age > 0 THEN AssumedSpeed ELSE next.speed
      BY <3>1 DEF LeadSpeed, next
    <3>4. QED BY <3>1, <3>2, <3>3
  <2>5. QED BY <1>2, <1>4, <2>2, <2>3, <2>4 DEF next
<1>5. CASE ~(lead.gap # None /\ ~Suppressed(lead.gap, since, ego)) /\ ~Holds(since)
  <2>1. next = None
    BY <1>5 DEF Tracked
  <2>2. lead.gap = None
    BY <1>5 DEF Suppressed
  <2>3. LeadSpeed(lead, since, ego) = lead.speed
    BY <2>1 DEF LeadSpeed
  <2>4. QED BY <2>1, <2>2, <2>3
<1>6. QED BY <1>3, <1>4, <1>5

\* A closing speed without a lead's speed is confirmed by two frames of approach.
LEMMA ClosingFacts ==
  ASSUME LeadInv, NEW gap \in Int \cup {None}, NEW speed \in Int \cup {None}, NEW since \in Nat,
         started => since >= 1, NEW ego \in Speeds
  PROVE  /\ Pending(gap, speed, since, ego) \in Int \cup {None}
         /\ Pending(gap, speed, since, ego) # None
              => gap # None /\ speed = None /\ previous # None /\ since <= 1 /\ gap < previous
         /\ Closing(gap, speed, since, ego) # None /\ speed = None
              => gap # None /\ pending # None /\ previous # None /\ since <= 1 /\ gap < previous
PROOF
<1>1. None \notin Int /\ ego \in Int
  BY LeadAssumption
<1> DEFINE rate == Candidate(gap, since)
<1>2. ASSUME gap # None
      PROVE  /\ rate \in Int \cup {None}
             /\ Plausible(rate, ego) => previous # None /\ since <= 1 /\ gap < previous
  <2>1. CASE started /\ previous # None /\ since <= 1
    <3>1. previous \in Int /\ gap \in Int /\ since = 1
      BY <1>2, <2>1 DEF LeadInv
    <3>2. rate = (previous - gap) \div 1
      BY <2>1, <3>1 DEF Candidate
    <3>3. rate = previous - gap
      BY <3>1, <3>2
    <3> HIDE DEF rate
    <3>4. Plausible(rate, ego) => rate > 0
      BY DEF Plausible
    <3>5. QED BY <2>1, <3>1, <3>3, <3>4
  <2>2. CASE ~(started /\ previous # None /\ since <= 1)
    <3>1. rate = None
      BY <2>2 DEF Candidate
    <3>2. ~Plausible(rate, ego)
      BY <3>1 DEF Plausible
    <3>3. QED BY <3>1, <3>2
  <2>3. QED BY <2>1, <2>2
<1>3. CASE gap # None /\ speed = None /\ Plausible(rate, ego)
  <2>1. Pending(gap, speed, since, ego) = rate
    BY <1>3 DEF Pending
  <2>2. ASSUME Closing(gap, speed, since, ego) # None PROVE pending # None
    <3>1. Confirmed(rate, ego)
      BY <1>3, <2>2 DEF Closing
    <3>2. QED BY <3>1 DEF Confirmed
  <2>3. QED BY <1>2, <1>3, <2>1, <2>2
<1>4. CASE ~(gap # None /\ speed = None /\ Plausible(rate, ego))
  <2>1. Pending(gap, speed, since, ego) = None
    BY <1>4 DEF Pending
  <2>2. ASSUME speed = None PROVE Closing(gap, speed, since, ego) = None
    <3>1. CASE gap = None
      BY <3>1 DEF Closing
    <3>2. CASE gap # None
      <4>1. ~Confirmed(rate, ego)
        BY <1>4, <2>2, <3>2 DEF Confirmed
      <4>2. QED BY <2>2, <3>2, <4>1 DEF Closing
    <3>3. QED BY <3>1, <3>2
  <2>3. QED BY <2>1, <2>2
<1>5. QED BY <1>3, <1>4

\* A held caution keeps the vehicle from keeping its speed.
LEMMA HeldSlows ==
  ASSUME NEW gap, NEW closing, NEW ego, NEW class, NEW held, held # None
  PROVE  /\ Action(gap, closing, ego, class, held) # "KEEP_SPEED"
         /\ Cap(Action(gap, closing, ego, class, held), held) # "hazard"
BY DEF Action, Cap

LEMMA PerceiveKeeps ==
  ASSUME LeadInv, NEW lidar \in Ranges \cup {None}, NEW radar \in Returns \cup {None},
         NEW ego \in Speeds, NEW class, NEW dt \in Gaps, Perceive(lidar, radar, ego, class, dt)
  PROVE  LeadInv' /\ Reported'
PROOF
<1> DEFINE since == IF started THEN dt ELSE 0
           lead == RawLead(lidar, radar, ego)
           next == Tracked(lead, since, ego)
           gap == IF next = None THEN None ELSE next.gap
           speed == LeadSpeed(lead, since, ego)
           closing == Closing(gap, speed, since, ego)
           zone == InZone(gap, closing, ego, class)
           held == Caution(zone, since)
           action == Action(gap, closing, ego, class, held)
<1>0. VruHold \in Nat /\ None \notin Int /\ None \notin Track
  BY LeadAssumption DEF Track
<1>1. /\ track' = next /\ previous' = gap
      /\ pending' = Pending(gap, speed, since, ego) /\ caution' = held
      /\ summary' = [raw |-> lead.gap, gap |-> gap, speed |-> speed, closing |-> closing, class |-> class,
                     action |-> action, cap |-> Cap(action, held)]
      /\ silence' = IF gap = lead.gap THEN 0 ELSE Smaller(silence + since, Hold + 1)
      /\ trend' = IF gap = None \/ speed # None THEN 0
                  ELSE IF since <= 1 /\ previous # None /\ gap < previous THEN Smaller(trend + 1, 2) ELSE 0
      /\ vruAge' = IF zone THEN 0 ELSE Smaller(vruAge + since, VruHold + 1)
  BY DEF Perceive
<1>2. since \in Nat /\ (started => since >= 1)
  BY SinceType
<1>3. /\ lead.gap \in Int \cup {None} /\ lead.speed \in Int \cup {None}
      /\ lead.gap = None => lead.speed = None
  BY RawLeadType
<1> DEFINE raw == lead.gap
<1> HIDE DEF since, lead
<1>4. /\ \/ next = None /\ raw = None
         \/ next \in Track /\ raw # None /\ next.gap = raw /\ next.age = 0
         \/ /\ next \in Track /\ track \in Track /\ (raw # None => raw > next.gap)
            /\ next.age = track.age + since /\ track.age + since <= Hold
      /\ speed \in Int \cup {None} /\ (next = None => speed = None)
  BY <1>2, <1>3, TrackedFacts
<1>5. raw \in Int \cup {None}
  BY <1>3
<1> HIDE DEF next, speed, raw
<1>6. gap \in Int \cup {None} /\ (gap # None <=> next # None) /\ (next # None => gap = next.gap)
  BY <1>0, <1>4 DEF Track
<1> HIDE DEF gap
<1>7. /\ pending' \in Int \cup {None}
      /\ pending' # None
           => gap # None /\ speed = None /\ previous # None /\ since <= 1 /\ gap < previous
      /\ closing # None /\ speed = None
           => gap # None /\ pending # None /\ previous # None /\ since <= 1 /\ gap < previous
  BY <1>1, <1>2, <1>4, <1>6, ClosingFacts
<1> HIDE DEF closing, zone
<1>8. silence' \in Nat /\ (track' # None => track' \in Track /\ silence' <= track'.age /\ track'.age <= Hold)
  <2>1. silence \in Nat /\ Hold \in Nat
    BY DEF LeadInv, Hold
  <2>2. silence' = IF gap = raw THEN 0 ELSE Smaller(silence + since, Hold + 1)
    BY <1>1 DEF raw
  <2>3. silence' \in Nat /\ silence' <= silence + since
    BY <1>2, <2>1, <2>2 DEF Smaller
  <2>4. CASE next = None
    BY <1>1, <2>3, <2>4
  <2>5. CASE next \in Track /\ raw # None /\ next.gap = raw /\ next.age = 0
    <3>1. silence' = 0 /\ track' = next
      BY <1>0, <1>1, <1>6, <2>2, <2>5
    <3>2. QED BY <2>1, <2>5, <3>1
  <2>6. CASE next \in Track /\ track \in Track /\ next.age = track.age + since /\ track.age + since <= Hold
    <3>1. silence <= track.age /\ track.age \in Int
      BY <1>0, <2>6 DEF LeadInv, Track
    <3>2. track' = next
      BY <1>1
    <3>3. QED BY <1>2, <2>1, <2>3, <2>6, <3>1, <3>2
  <2>7. QED BY <1>4, <2>4, <2>5, <2>6
<1>9. trend' \in Nat /\ (pending' # None => trend' >= 1) /\ (closing # None /\ speed = None => trend' >= 2)
  <2>1. trend \in Nat /\ (pending # None => trend >= 1)
    BY DEF LeadInv
  <2>2. trend' = IF gap = None \/ speed # None THEN 0
                 ELSE IF since <= 1 /\ previous # None /\ gap < previous THEN Smaller(trend + 1, 2) ELSE 0
    BY <1>1
  <2>3. Smaller(trend + 1, 2) \in Nat /\ Smaller(trend + 1, 2) >= 1
        /\ (trend >= 1 => Smaller(trend + 1, 2) >= 2)
    BY <2>1 DEF Smaller
  <2>4. QED BY <1>7, <2>1, <2>2, <2>3
<1>10. vruAge' \in Nat /\ (vruAge' <= VruHold => held # None /\ held = VruHold - vruAge')
  <2>1. vruAge \in Nat /\ (vruAge <= VruHold => caution = VruHold - vruAge)
    BY DEF LeadInv
  <2>2. CASE zone
    <3>1. vruAge' = 0 /\ held = VruHold
      BY <1>1, <2>2 DEF Caution
    <3>2. QED BY <1>0, <3>1
  <2>3. CASE ~zone
    <3>1. vruAge' = Smaller(vruAge + since, VruHold + 1)
      BY <1>1, <2>3
    <3>2. vruAge' \in Nat /\ (vruAge' <= VruHold => vruAge' = vruAge + since)
      BY <1>0, <1>2, <2>1, <3>1 DEF Smaller
    <3>3. ASSUME vruAge' <= VruHold PROVE held # None /\ held = VruHold - vruAge'
      <4>1. vruAge + since <= VruHold /\ vruAge' = vruAge + since
        BY <3>2, <3>3
      <4>2. vruAge <= VruHold /\ since <= VruHold - vruAge
        BY <1>0, <1>2, <2>1, <4>1
      <4>3. caution = VruHold - vruAge /\ caution \in Int
        BY <1>0, <2>1, <4>2
      <4>4. held = IF caution = None \/ caution < since THEN None ELSE caution - since
        BY <2>3 DEF Caution
      <4>5. held = caution - since
        BY <1>0, <1>2, <4>2, <4>3, <4>4
      <4>6. held = VruHold - vruAge' /\ held \in Int
        BY <1>0, <1>2, <2>1, <4>1, <4>3, <4>5
      <4>7. QED BY <1>0, <4>6
    <3>4. QED BY <3>2, <3>3
  <2>4. QED BY <2>2, <2>3
<1>11. LeadInv'
  <2>1. vruAge' <= VruHold => caution' = VruHold - vruAge'
    BY <1>1, <1>10
  <2>2. previous' \in Int \cup {None}
    BY <1>1, <1>6
  <2>3. QED BY <1>7, <1>8, <1>9, <1>10, <2>1, <2>2 DEF LeadInv
<1>12. /\ summary'.raw = raw /\ summary'.gap = gap /\ summary'.speed = speed /\ summary'.closing = closing
       /\ summary'.action = action /\ summary'.cap = Cap(action, held)
  <2> HIDE DEF held, action
  <2>1. QED BY <1>1 DEF raw
<1>13. VruHoldLasts'
  <2>1. held # None => action # "KEEP_SPEED" /\ Cap(action, held) # "hazard"
    BY HeldSlows
  <2> HIDE DEF held, action
  <2>2. QED BY <1>10, <1>12, <2>1 DEF VruHoldLasts
<1> HIDE DEF held, action
<1>14. PhantomExpires'
  <2>1. SUFFICES ASSUME gap # None PROVE silence' <= Hold
    BY <1>12 DEF PhantomExpires
  <2>2. track' # None
    BY <1>1, <1>6, <2>1
  <2>3. silence' \in Int /\ track'.age \in Int /\ silence' <= track'.age /\ track'.age <= Hold
    BY <1>8, <2>2 DEF Track
  <2>4. QED BY <2>3 DEF Hold
<1>15. CloserReturnWins'
  <2>1. SUFFICES ASSUME raw # None, gap # None PROVE gap <= raw
    BY <1>12 DEF CloserReturnWins
  <2>2. raw \in Int /\ gap \in Int /\ gap = next.gap /\ next # None
    BY <1>5, <1>6, <2>1
  <2>3. next.gap = raw \/ raw > next.gap
    BY <1>4, <2>1, <2>2
  <2>4. QED BY <2>2, <2>3
<1>16. SpeedHasRange'
  BY <1>4, <1>6, <1>12 DEF SpeedHasRange
<1>17. SwitchIsNotClosing'
  BY <1>9, <1>12 DEF SwitchIsNotClosing
<1>18. QED BY <1>11, <1>13, <1>14, <1>15, <1>16, <1>17 DEF Reported, LeadIsReal

(* The lead that control sees is one that is there, and a vulnerable road    *)
(* user that was seen keeps the vehicle slow for its hold time, whatever the *)
(* sensors return and whenever (carla_perception.py, safety_state.py).       *)
THEOREM LeadSound == LeadInit /\ [][LeadNext]_leadVars => [](LeadIsReal /\ VruHoldLasts)
PROOF
<1>1. LeadInit => LeadInv /\ Reported
  <2> SUFFICES ASSUME LeadInit PROVE LeadInv /\ Reported
    OBVIOUS
  <2>1. VruHold \in Nat
    BY LeadAssumption
  <2>2. LeadInv
    BY <2>1 DEF LeadInit, LeadInv
  <2>3. Reported
    BY <2>1 DEF LeadInit, Reported, LeadIsReal, PhantomExpires, CloserReturnWins, SpeedHasRange,
                SwitchIsNotClosing, VruHoldLasts
  <2>4. QED BY <2>2, <2>3
<1>2. LeadInv /\ Reported /\ [LeadNext]_leadVars => (LeadInv /\ Reported)'
  <2> SUFFICES ASSUME LeadInv, Reported, [LeadNext]_leadVars PROVE (LeadInv /\ Reported)'
    OBVIOUS
  <2>1. CASE LeadNext
    BY <2>1, PerceiveKeeps DEF LeadNext
  <2>2. CASE UNCHANGED leadVars
    BY <2>2 DEF leadVars, LeadInv, Reported, LeadIsReal, PhantomExpires, CloserReturnWins, SpeedHasRange,
                SwitchIsNotClosing, VruHoldLasts
  <2>3. QED BY <2>1, <2>2
<1>3. Reported => LeadIsReal /\ VruHoldLasts
  BY DEF Reported
<1>4. QED BY <1>1, <1>2, <1>3, PTL

(* The hold for a vulnerable road user is never cut short.                  *)
THEOREM VruHoldCorrect == LeadInit /\ [][LeadNext]_leadVars => []VruHoldLasts
BY LeadSound, PTL

-----------------------------------------------------------------------------
-----------------------------------------------------------------------------
(* The ids of detected objects.                                             *)

\* What a frame's naming starts from, and where it stands after n detections.
Beginning(live) == [known |-> [i \in live |-> tracks[i]], available |-> live, next |-> nextId, out |-> <<>>]
Named == [id : Nat, seen : Detection]
Distinctly(s, live, n) ==
  /\ s.next \in Nat /\ nextId <= s.next
  /\ live \subseteq DOMAIN s.known /\ s.available \subseteq live
  /\ \A i \in DOMAIN s.known : i \in live \/ (i \in Nat /\ nextId <= i /\ i < s.next)
  /\ \A i \in live : s.known[i].seen.class = tracks[i].seen.class
  /\ s.out \in Seq(Named) /\ Len(s.out) = n
  /\ \A x \in 1..n : /\ s.out[x].id \in DOMAIN s.known /\ s.out[x].id \notin s.available
                     /\ s.known[s.out[x].id].seen = s.out[x].seen
  /\ \A i \in DOMAIN s.known : i \in live \/ \E x \in 1..n : s.out[x].id = i
  /\ \A x, y \in 1..n : s.out[x].id = s.out[y].id => x = y

\* One detection more: the id it gets is new, or was available and of its class.
LEMMA NameOneDistinct ==
  ASSUME NEW live, NEW n \in Nat, NEW s, NEW d \in Detection, NEW image,
         nextId \in Nat, \A i \in live : i \in Nat /\ i < nextId,
         Distinctly(s, live, n), NEW t \in NameOne(s, d, image)
  PROVE  Distinctly(t, live, n + 1)
PROOF
<1> DEFINE best == BestMatches(s.known, s.available, d)
           to(id, next) ==
             [known |-> [i \in DOMAIN s.known \cup {id} |->
                           IF i = id THEN [seen |-> d, frame |-> image] ELSE s.known[i]],
              available |-> Unclaimed(s.available, id), next |-> next,
              out |-> Append(s.out, [id |-> id, seen |-> d])]
<1>1. \E id : \E next : /\ t = to(id, next)
                        /\ \/ id = s.next /\ next = s.next + 1
                           \/ id \in best /\ next = s.next
  BY Zenon DEF NameOne
<1>2. PICK id, next : /\ t = to(id, next)
                      /\ \/ id = s.next /\ next = s.next + 1
                         \/ id \in best /\ next = s.next
  BY <1>1
<1>3. \A i \in best : i \in s.available /\ s.known[i].seen.class = d.class
  BY DEF BestMatches, Matches
<1> HIDE DEF best
<1>4. /\ t.known = [i \in DOMAIN s.known \cup {id} |->
                      IF i = id THEN [seen |-> d, frame |-> image] ELSE s.known[i]]
      /\ t.available = s.available \ {id} /\ t.next = next
      /\ t.out = Append(s.out, [id |-> id, seen |-> d])
  BY <1>2 DEF Unclaimed
<1>5. DOMAIN t.known = DOMAIN s.known \cup {id} /\ t.known[id].seen = d
  BY <1>4
<1>6. \A i \in DOMAIN s.known : i # id => t.known[i] = s.known[i]
  BY <1>4
<1>7. id \in Nat /\ next \in Nat /\ s.next <= next
  BY <1>2, <1>3 DEF Distinctly
<1>8. [id |-> id, seen |-> d] \in Named /\ s.out \in Seq(Named) /\ Len(s.out) = n
  BY <1>7 DEF Named, Distinctly
<1>9. /\ t.out \in Seq(Named) /\ Len(t.out) = n + 1
      /\ \A x \in 1..n : t.out[x] = s.out[x]
      /\ t.out[n + 1].id = id /\ t.out[n + 1].seen = d
  <2>1. /\ t.out \in Seq(Named) /\ Len(t.out) = n + 1 /\ \A x \in 1..n : t.out[x] = s.out[x]
        /\ t.out[n + 1] = [id |-> id, seen |-> d]
    BY <1>4, <1>8
  <2>2. QED BY <2>1
\* No detection before this one has its id.
<1>10. \A x \in 1..n : s.out[x].id # id
  <2>1. CASE id \in best
    BY <1>3, <2>1 DEF Distinctly
  <2>2. CASE id = s.next
    <3>1. s.next \notin DOMAIN s.known
      BY <2>2, <1>7 DEF Distinctly
    <3>2. QED BY <2>2, <3>1 DEF Distinctly
  <2>3. QED BY <1>2, <2>1, <2>2
<1>11. id \in best => id \in live /\ id \in DOMAIN s.known
  BY <1>3 DEF Distinctly
<1>12. id = s.next => id \notin live
  BY <1>7 DEF Distinctly
<1>13. /\ t.next \in Nat /\ nextId <= t.next
       /\ live \subseteq DOMAIN t.known /\ t.available \subseteq live
  BY <1>4, <1>5, <1>7 DEF Distinctly
<1>14. \A i \in DOMAIN t.known : i \in live \/ (i \in Nat /\ nextId <= i /\ i < t.next)
  <2>1. SUFFICES ASSUME NEW i \in DOMAIN t.known, i \notin live
                 PROVE  i \in Nat /\ nextId <= i /\ i < t.next
    OBVIOUS
  <2>2. CASE i = id
    BY <1>2, <1>4, <1>7, <1>11, <2>1, <2>2 DEF Distinctly
  <2>3. CASE i # id
    BY <1>4, <1>5, <1>7, <2>1, <2>3 DEF Distinctly
  <2>4. QED BY <2>2, <2>3
<1>15. \A i \in live : t.known[i].seen.class = tracks[i].seen.class
  <2>1. SUFFICES ASSUME NEW i \in live PROVE t.known[i].seen.class = tracks[i].seen.class
    OBVIOUS
  <2>2. i \in DOMAIN s.known /\ s.known[i].seen.class = tracks[i].seen.class
    BY DEF Distinctly
  <2>3. CASE i = id
    BY <1>2, <1>3, <1>5, <1>12, <2>2, <2>3
  <2>4. CASE i # id
    BY <1>6, <2>2, <2>4
  <2>5. QED BY <2>3, <2>4
<1>16. \A x \in 1..(n + 1) : /\ t.out[x].id \in DOMAIN t.known /\ t.out[x].id \notin t.available
                             /\ t.known[t.out[x].id].seen = t.out[x].seen
  <2>1. SUFFICES ASSUME NEW x \in 1..(n + 1)
                 PROVE  /\ t.out[x].id \in DOMAIN t.known /\ t.out[x].id \notin t.available
                        /\ t.known[t.out[x].id].seen = t.out[x].seen
    OBVIOUS
  <2>2. CASE x = n + 1
    BY <1>4, <1>5, <1>9, <2>2
  <2>3. CASE x # n + 1
    <3>1. x \in 1..n
      BY <2>3
    <3>2. /\ s.out[x].id \in DOMAIN s.known /\ s.out[x].id \notin s.available
          /\ s.known[s.out[x].id].seen = s.out[x].seen
      BY <3>1 DEF Distinctly
    <3>3. t.out[x] = s.out[x] /\ s.out[x].id # id
      BY <1>9, <1>10, <3>1
    <3>4. QED BY <1>4, <1>5, <1>6, <3>2, <3>3
  <2>4. QED BY <2>2, <2>3
<1>17. \A i \in DOMAIN t.known : i \in live \/ \E x \in 1..(n + 1) : t.out[x].id = i
  <2>1. SUFFICES ASSUME NEW i \in DOMAIN t.known, i \notin live
                 PROVE  \E x \in 1..(n + 1) : t.out[x].id = i
    OBVIOUS
  <2>2. CASE i = id
    BY <1>9, <2>2
  <2>3. CASE i # id
    <3>1. PICK x \in 1..n : s.out[x].id = i
      BY <1>5, <2>1, <2>3 DEF Distinctly
    <3>2. QED BY <1>9, <3>1
  <2>4. QED BY <2>2, <2>3
<1>18. \A x, y \in 1..(n + 1) : t.out[x].id = t.out[y].id => x = y
  <2>1. SUFFICES ASSUME NEW x \in 1..(n + 1), NEW y \in 1..(n + 1), t.out[x].id = t.out[y].id
                 PROVE  x = y
    OBVIOUS
  <2>2. CASE x \in 1..n /\ y \in 1..n
    <3>1. t.out[x] = s.out[x] /\ t.out[y] = s.out[y]
      BY <1>9, <2>2
    <3>2. QED BY <2>1, <2>2, <3>1 DEF Distinctly
  <2>3. CASE ~(x \in 1..n /\ y \in 1..n)
    BY <1>9, <1>10, <2>1, <2>3
  <2>4. QED BY <2>2, <2>3
<1>19. QED BY <1>9, <1>13, <1>14, <1>15, <1>16, <1>17, <1>18 DEF Distinctly

\* The recursion of the naming has a solution: its stages follow from one another.
LEMMA NamingStages ==
  ASSUME NEW start, NEW list, Len(list) \in Nat, NEW image
  PROVE  /\ Naming(start, list, image)[0] = {start}
         /\ \A n \in 1..Len(list) : \A t \in Naming(start, list, image)[n] :
              \E s \in Naming(start, list, image)[n - 1] : t \in NameOne(s, list[n], image)
PROOF
<1> DEFINE More(states, n) == UNION {NameOne(s, list[n], image) : s \in states}
           Stage(f, n) == IF n = 0 THEN {start} ELSE More(f[n - 1], n)
           Solved(N) == \E f : f = [n \in 0..N |-> Stage(f, n)]
<1>1. Naming(start, list, image) = CHOOSE f : f = [n \in 0..Len(list) |-> Stage(f, n)]
  BY Zenon DEF Naming
<1> HIDE DEF More
<1>2. \A N \in Nat : Solved(N)
  <2> DEFINE Unsolved == {N \in Nat : ~Solved(N)}
  <2>1. SUFFICES ASSUME Unsolved # {} PROVE FALSE
    OBVIOUS
  <2>2. PICK m \in Unsolved : \A k \in Unsolved : m <= k
    <3>1. Unsolved \in SUBSET Nat
      OBVIOUS
    <3> HIDE DEF Unsolved
    <3>2. QED BY <2>1, <3>1, LeastNatural
  <2>3. m \in Nat /\ ~Solved(m) /\ \A k \in Nat : k < m => Solved(k)
    <3>1. m \in Nat /\ ~Solved(m)
      BY <2>2
    <3>2. \A k \in Nat : ~Solved(k) => k \in Unsolved
      OBVIOUS
    <3> HIDE DEF Unsolved, Solved
    <3>3. QED BY <2>2, <3>1, <3>2
  <2>4. CASE m = 0
    <3> DEFINE g == [n \in 0..0 |-> {start}]
    <3>1. g = [n \in 0..0 |-> Stage(g, n)]
      OBVIOUS
    <3>2. Solved(0)
      BY <3>1
    <3>3. QED BY <2>3, <2>4, <3>2
  <2>5. CASE m # 0
    <3>1. m - 1 \in Nat /\ m - 1 < m
      BY <2>3, <2>5
    <3>2. Solved(m - 1)
      <4> HIDE DEF Solved
      <4>1. QED BY <2>3, <3>1
    <3>3. PICK f : f = [n \in 0..(m - 1) |-> Stage(f, n)]
      BY <3>2
    <3> DEFINE g == [n \in 0..m |-> Stage(f, n)]
    <3>4. ASSUME NEW n \in 0..m, n # 0 PROVE g[n - 1] = f[n - 1]
      <4>1. n - 1 \in 0..(m - 1) /\ n - 1 \in 0..m
        BY <2>3, <3>4
      <4>2. f[n - 1] = Stage(f, n - 1)
        BY <3>3, <4>1
      <4>3. g[n - 1] = Stage(f, n - 1)
        BY <4>1
      <4>4. QED BY <4>2, <4>3
    <3>5. ASSUME NEW n \in 0..m PROVE Stage(g, n) = Stage(f, n)
      <4> HIDE DEF g
      <4>1. CASE n = 0
        BY <4>1
      <4>2. CASE n # 0
        <5>1. g[n - 1] = f[n - 1]
          BY <3>4, <4>2
        <5>2. QED BY <4>2, <5>1
      <4>3. QED BY <4>1, <4>2
    <3>6. g = [n \in 0..m |-> Stage(g, n)]
      BY <3>5
    <3>7. Solved(m)
      BY <3>6
    <3>8. QED BY <2>3, <3>7
  <2>6. QED BY <2>4, <2>5
<1>3. Naming(start, list, image) = [n \in 0..Len(list) |-> Stage(Naming(start, list, image), n)]
  BY <1>1, <1>2
<1> DEFINE F == Naming(start, list, image)
<1> HIDE DEF F
<1>4. F = [n \in 0..Len(list) |-> Stage(F, n)]
  BY <1>3 DEF F
<1>5. F[0] = {start}
  <2>1. 0 \in 0..Len(list)
    OBVIOUS
  <2>2. QED BY <1>4, <2>1
<1>6. \A n \in 1..Len(list) : F[n] = More(F[n - 1], n)
  <2>1. SUFFICES ASSUME NEW n \in 1..Len(list) PROVE F[n] = More(F[n - 1], n)
    OBVIOUS
  <2>2. n \in 0..Len(list) /\ n # 0
    OBVIOUS
  <2>3. F[n] = Stage(F, n)
    <3> HIDE DEF Stage
    <3>1. QED BY <1>4, <2>2
  <2>4. QED BY <2>2, <2>3
<1>7. \A n \in 1..Len(list) : \A t \in F[n] : \E s \in F[n - 1] : t \in NameOne(s, list[n], image)
  BY <1>6 DEF More
<1>8. QED
  BY <1>5, <1>7 DEF F

\* Every naming of a frame keeps to the ids of the tracks alive and to new ones.
LEMMA NamingDistinct ==
  ASSUME NEW live, live \subseteq DOMAIN tracks, nextId \in Nat, \A i \in live : i \in Nat /\ i < nextId,
         NEW detections \in Seq(Detection), NEW image, NEW N \in 0..Len(detections),
         NEW s \in Naming(Beginning(live), detections, image)[N]
  PROVE  Distinctly(s, live, N)
PROOF
<1> DEFINE F == Naming(Beginning(live), detections, image)
           Fails == {n \in 0..Len(detections) : \E t \in F[n] : ~Distinctly(t, live, n)}
<1>1. /\ Len(detections) \in Nat /\ F[0] = {Beginning(live)}
      /\ \A n \in 1..Len(detections) : \A t \in F[n] : \E r \in F[n - 1] : t \in NameOne(r, detections[n], image)
  <2>1. Len(detections) \in Nat
    OBVIOUS
  <2>2. QED BY <2>1, NamingStages
<1>2. Distinctly(Beginning(live), live, 0)
  BY DEF Distinctly, Beginning
<1> HIDE DEF F
<1>3. SUFFICES ASSUME Fails # {} PROVE FALSE
  BY DEF F
<1>4. Fails \in SUBSET Nat
  BY <1>1
<1>5. PICK m \in Fails : \A k \in Fails : m <= k
  <2> HIDE DEF Fails
  <2>1. QED BY <1>3, <1>4, LeastNatural
<1>6. m # 0
  BY <1>1, <1>2, <1>5
<1>7. m \in 1..Len(detections) /\ m - 1 \in 0..Len(detections) /\ m - 1 \in Nat /\ ~(m <= m - 1)
  BY <1>1, <1>5, <1>6
<1>8. m - 1 \notin Fails
  <2> HIDE DEF Fails
  <2>1. QED BY <1>5, <1>7
<1>9. PICK t \in F[m] : ~Distinctly(t, live, m)
  BY <1>5
<1>10. PICK r \in F[m - 1] : t \in NameOne(r, detections[m], image)
  BY <1>1, <1>7, <1>9
<1>11. Distinctly(r, live, m - 1)
  BY <1>7, <1>8, <1>10
<1>12. detections[m] \in Detection
  BY <1>7
<1>13. Distinctly(t, live, m - 1 + 1)
  BY <1>7, <1>10, <1>11, <1>12, NameOneDistinct
<1>14. QED BY <1>7, <1>9, <1>13

-----------------------------------------------------------------------------
\* What a spoken target may rely on: every id given is below the next one, the tracks alive
\* have not been given up, and their class is the one they were created for.
TrackInv ==
  /\ nextId \in Nat
  /\ \A i \in DOMAIN born : i \in Nat /\ i < nextId
  /\ DOMAIN tracks \subseteq DOMAIN born /\ gone \subseteq DOMAIN born
  /\ \A i \in DOMAIN tracks : i \notin gone /\ born[i] = tracks[i].seen.class
  /\ named \in Seq(Named)
  /\ IdentityHolds

\* A frame's detections are named without giving an id twice or to another class.
LEMMA UpdateKeepsIdentity ==
  ASSUME TrackInv, NEW detections \in Seq(Detection), NEW image, Update(detections, image)
  PROVE  TrackInv'
PROOF
<1> DEFINE live == Fresh(tracks, image)
           n == Len(detections)
<1>1. PICK s \in Naming(Beginning(live), detections, image)[n] :
        /\ tracks' = s.known /\ nextId' = s.next /\ named' = s.out
        /\ born' = [i \in DOMAIN born \cup {x.id : x \in ToSet(s.out)} |->
                      IF i \in DOMAIN born THEN born[i] ELSE (CHOOSE x \in ToSet(s.out) : x.id = i).seen.class]
        /\ gone' = gone \cup (DOMAIN born \ live)
  BY DEF Update, Beginning
<1>2. live \subseteq DOMAIN tracks
  BY DEF Fresh
<1> HIDE DEF live
<1>3. n \in Nat /\ n \in 0..Len(detections)
  OBVIOUS
<1>4. \A i \in live : i \in Nat /\ i < nextId
  BY <1>2 DEF TrackInv
<1>5. Distinctly(s, live, n)
  BY <1>1, <1>2, <1>3, <1>4, NamingDistinct DEF TrackInv
<1> HIDE DEF n
<1>6. /\ s.out \in Seq(Named) /\ Len(s.out) = n /\ DOMAIN s.out = 1..n
      /\ ToSet(s.out) = {s.out[x] : x \in 1..n}
  BY <1>5 DEF Distinctly, ToSet
<1>7. \A x \in 1..n : (CHOOSE y \in ToSet(s.out) : y.id = s.out[x].id) = s.out[x]
  <2>1. SUFFICES ASSUME NEW x \in 1..n
                 PROVE  (CHOOSE y \in ToSet(s.out) : y.id = s.out[x].id) = s.out[x]
    OBVIOUS
  <2>2. s.out[x] \in ToSet(s.out) /\ \A y \in ToSet(s.out) : y.id = s.out[x].id => y = s.out[x]
    BY <1>5, <1>6 DEF Distinctly
  <2>3. QED BY <2>2
<1>8. DOMAIN born' = DOMAIN born \cup {s.out[x].id : x \in 1..n}
  BY <1>1, <1>6
<1>9. \A i \in DOMAIN born : i \in DOMAIN born' /\ born'[i] = born[i]
  BY <1>1
<1>10. \A x \in 1..n : s.out[x].id \notin DOMAIN born => born'[s.out[x].id] = s.out[x].seen.class
  <2>1. SUFFICES ASSUME NEW x \in 1..n, s.out[x].id \notin DOMAIN born
                 PROVE  born'[s.out[x].id] = s.out[x].seen.class
    OBVIOUS
  <2>2. s.out[x].id \in DOMAIN born'
    BY <1>8
  <2>3. born'[s.out[x].id] = (CHOOSE y \in ToSet(s.out) : y.id = s.out[x].id).seen.class
    BY <1>1, <2>1, <2>2
  <2>4. QED BY <1>7, <2>3
\* An id of the tracks kept is recorded, with its class, and has not expired.
<1>11. \A i \in DOMAIN s.known : i \in DOMAIN born' /\ i \notin gone' /\ born'[i] = s.known[i].seen.class
  <2>1. SUFFICES ASSUME NEW i \in DOMAIN s.known
                 PROVE  i \in DOMAIN born' /\ i \notin gone' /\ born'[i] = s.known[i].seen.class
    OBVIOUS
  <2>2. CASE i \in live
    <3>1. i \in DOMAIN born /\ i \notin gone /\ born[i] = tracks[i].seen.class
      BY <1>2, <2>2 DEF TrackInv
    <3>2. s.known[i].seen.class = tracks[i].seen.class
      BY <1>5, <2>2 DEF Distinctly
    <3>3. QED BY <1>1, <1>9, <2>2, <3>1, <3>2
  <2>3. CASE i \notin live
    <3>1. PICK x \in 1..n : s.out[x].id = i
      BY <1>5, <2>3 DEF Distinctly
    <3>2. i \in Nat /\ nextId <= i
      BY <1>5, <2>3 DEF Distinctly
    <3>3. i \notin DOMAIN born
      BY <3>2 DEF TrackInv
    <3>4. s.known[i].seen = s.out[x].seen
      BY <1>5, <3>1 DEF Distinctly
    <3>5. i \in DOMAIN born' /\ born'[i] = s.known[i].seen.class
      BY <1>8, <1>10, <3>1, <3>3, <3>4
    <3>6. i \notin gone'
      BY <1>1, <3>3 DEF TrackInv
    <3>7. QED BY <3>5, <3>6
  <2>4. QED BY <2>2, <2>3
<1>12. \A i \in DOMAIN born' : i \in Nat /\ i < s.next
  <2>1. SUFFICES ASSUME NEW i \in DOMAIN born' PROVE i \in Nat /\ i < s.next
    OBVIOUS
  <2>2. CASE i \in DOMAIN born
    BY <1>5, <2>2 DEF TrackInv, Distinctly
  <2>3. CASE i \notin DOMAIN born
    <3>1. PICK x \in 1..n : s.out[x].id = i
      BY <1>8, <2>3
    <3>2. i \in DOMAIN s.known
      BY <1>5, <3>1 DEF Distinctly
    <3>3. i \notin live
      BY <1>2, <2>3 DEF TrackInv
    <3>4. QED BY <1>5, <3>2, <3>3 DEF Distinctly
  <2>4. QED BY <2>2, <2>3
<1>13. gone' \subseteq DOMAIN born'
  BY <1>1, <1>8 DEF TrackInv
<1>14. OneObjectPerId'
  BY <1>1, <1>5, <1>6 DEF OneObjectPerId, Distinctly
<1>15. IdIsOneObject'
  <2>1. SUFFICES ASSUME NEW x \in 1..n
                 PROVE  s.out[x].id \notin gone' /\ born'[s.out[x].id] = s.out[x].seen.class
    <3>1. ToSet(named') = {s.out[x] : x \in 1..n}
      BY <1>1, <1>6
    <3>2. QED BY <3>1, Zenon DEF IdIsOneObject
  <2>2. s.out[x].id \in DOMAIN s.known /\ s.known[s.out[x].id].seen = s.out[x].seen
    BY <1>5 DEF Distinctly
  <2>3. QED BY <1>11, <2>2
<1>16. s.next \in Nat
  BY <1>5 DEF Distinctly
<1>17. (/\ nextId \in Nat
        /\ \A i \in DOMAIN born : i \in Nat /\ i < nextId
        /\ DOMAIN tracks \subseteq DOMAIN born /\ gone \subseteq DOMAIN born
        /\ \A i \in DOMAIN tracks : i \notin gone /\ born[i] = tracks[i].seen.class
        /\ named \in Seq(Named))'
  BY <1>1, <1>6, <1>11, <1>12, <1>13, <1>16
<1>18. QED
  BY <1>14, <1>15, <1>17 DEF TrackInv, IdentityHolds

\* Ids and objects correspond (object_tracker.py:42-59): no two objects of a frame share an id,
\* an id keeps its class, and what has been forgotten is never given to another object, whatever
\* is seen, in whatever order and however the ties between equal costs are broken.
THEOREM IdentityCorrect == TrackInit /\ [][TrackNext]_trackVars => []IdentityHolds
PROOF
<1>1. TrackInit => TrackInv
  BY DEF TrackInit, TrackInv, IdentityHolds, OneObjectPerId, IdIsOneObject, ToSet
<1>2. TrackInv /\ [TrackNext]_trackVars => TrackInv'
  <2> SUFFICES ASSUME TrackInv, [TrackNext]_trackVars PROVE TrackInv'
    OBVIOUS
  <2>1. CASE TrackNext
    <3>1. PICK step \in 1..(FrameGap + 1), n \in 1..MaxDetections :
            \E detections \in [1..n -> Detection] : Update(detections, frameNo + step)
      BY <2>1 DEF TrackNext
    <3>2. PICK detections \in [1..n -> Detection] : Update(detections, frameNo + step)
      BY <3>1
    <3>3. detections \in Seq(Detection)
      <4>1. n \in Nat
        BY TracksAssumption
      <4>2. QED BY <3>2, <4>1
    <3>4. QED BY <3>2, <3>3, UpdateKeepsIdentity
  <2>2. CASE UNCHANGED trackVars
    BY <2>2 DEF trackVars, TrackInv, IdentityHolds, OneObjectPerId, IdIsOneObject
  <2>3. QED BY <2>1, <2>2
<1>3. TrackInv => IdentityHolds
  BY DEF TrackInv
<1>4. QED BY <1>1, <1>2, <1>3, PTL

-----------------------------------------------------------------------------
(* Control. *)

\* The integer square root exists: the least r whose successor's square is beyond n.
LEMMA RootNat ==
  ASSUME NEW n \in Nat
  PROVE  Root(n) \in Nat /\ Root(n) * Root(n) <= n
PROOF
<1> DEFINE S == {s \in Nat : n < (s + 1) * (s + 1)}
<1>1. n \in S
  <2>1. (n + 1) * (n + 1) = n * n + n + n + 1
    OBVIOUS
  <2>2. n * n \in Nat
    OBVIOUS
  <2>3. QED BY <2>1, <2>2
<1>2. PICK r \in S : \A k \in S : r <= k
  BY <1>1, LeastNatural
<1>3. r * r <= n
  <2>1. CASE r = 0
    BY <2>1
  <2>2. CASE r # 0
    <3>1. r - 1 \in Nat /\ ~(r <= r - 1)
      BY <2>2
    <3>2. ~(n < ((r - 1) + 1) * ((r - 1) + 1))
      BY <1>2, <3>1
    <3>3. (r - 1) + 1 = r
      OBVIOUS
    <3>4. QED BY <3>2, <3>3
  <2>3. QED BY <2>1, <2>2
<1>4. r <= n
  <2>1. r \in Nat /\ r <= r * r
    OBVIOUS
  <2>2. QED BY <1>3, <2>1
<1>5. \E q \in 0..n : q * q <= n /\ n < (q + 1) * (q + 1)
  BY <1>3, <1>4
<1>6. Root(n) \in 0..n /\ Root(n) * Root(n) <= n
  BY <1>5, Zenon DEF Root
<1>7. QED BY <1>6

------------------------------------------------------------------------------


\* What holds between frames: every memory of the controller is a number, and a
\* commitment remembers a stop harder than comfortable.
SpeedInv ==
  /\ committed \in BOOLEAN /\ approach.stretch \in Nat \cup {None}
  /\ lastTarget \in Int \cup {None}
  /\ pid.integral \in Int /\ pid.error \in Int \cup {None} /\ pid.target \in Int \cup {None}
  /\ control.throttle \in Nat /\ control.brake \in 0..100
  /\ committed => approach.stretch # None /\ approach.stretch > Comfortable
  /\ NeverBoth
  /\ PermissionsLapse

LEMMA DecelNat ==
  ASSUME NEW speed \in Nat, NEW line \in Nat \cup {None}
  PROVE  DecelNeeded(speed, line) \in Nat
PROOF
<1>1. CASE line = None \/ speed = 0
  BY <1>1 DEF DecelNeeded
<1>2. CASE ~(line = None \/ speed = 0)
  <2>1. Most(1, line - HoldDistance) \in Nat \ {0}
    BY <1>2, SpeedAssumption DEF Most
  <2>2. speed * speed \in Nat
    OBVIOUS
  <2>3. \A a \in Nat, b \in Nat \ {0} : a \div (2 * b) \in Nat
    OBVIOUS
  <2>4. DecelNeeded(speed, line) = (speed * speed) \div (2 * Most(1, line - HoldDistance))
    BY <1>2 DEF DecelNeeded
  <2>5. QED BY <2>1, <2>2, <2>3, <2>4
<1>3. QED BY <1>1, <1>2

\* What perception says is a colour, a distance or none, a limit or none: the waypoint that
\* comes first is one of those around the ego.
LEMMA SeenTyped ==
  ASSUME NEW scene \in Scenes
  PROVE  scene \in [light : {"RED", "YELLOW", "GREEN", "UNKNOWN"}, line : Nat \cup {None},
                    limit : Nat \cup {None}, junction : Nat]
PROOF
<1>1. PICK v \in Views : scene = SceneOf(v)
  BY DEF Scenes
<1> DEFINE ahead == Upcoming(v.around)
           shown == Shown(v.light, ahead)
           colours == {"RED", "YELLOW", "GREEN", "UNKNOWN"}
<1>2. /\ None \notin Int /\ LightRange \in Nat /\ LimitOf(v) \in Nat \cup {None}
      /\ v.light # None => v.light.light \in colours /\ v.light.line \in Nat \cup {None} /\ v.light.junction \in Nat
      /\ v.around \subseteq [light : colours, line : Int, ours : BOOLEAN, junction : Nat]
  BY SpeedAssumption DEF Colours, LimitOf, Least
<1>3. ahead # None => ahead.light \in colours /\ ahead.line \in Nat /\ ahead.junction \in Nat
  <2> DEFINE First(w) == \A x \in InReach(v.around) : w.line <= x.line
  <2>1. SUFFICES ASSUME ahead # None PROVE ahead.light \in colours /\ ahead.line \in Nat /\ ahead.junction \in Nat
    OBVIOUS
  <2>2. InReach(v.around) # {} /\ ahead = CHOOSE w \in InReach(v.around) : First(w)
    BY <2>1 DEF Upcoming
  <2>3. \E w \in InReach(v.around) : First(w)
    <3> DEFINE Lines == {w.line : w \in InReach(v.around)}
    <3>1. Lines # {} /\ Lines \in SUBSET Nat
      BY <1>2, <2>2 DEF InReach
    <3>2. (\E n \in Lines : \A m \in Lines : n <= m) => \E w \in InReach(v.around) : First(w)
      OBVIOUS
    <3> HIDE DEF Lines, First
    <3>3. QED BY <3>1, <3>2, LeastNatural
  <2>4. ahead \in InReach(v.around)
    BY <2>2, <2>3
  <2>5. QED BY <1>2, <2>4 DEF InReach
<1>4. shown.light \in colours /\ shown.line \in Nat \cup {None} /\ shown.junction \in Nat
  <2>1. CASE v.light = None /\ ahead = None
    BY <2>1 DEF Shown
  <2>2. CASE ~(v.light = None /\ ahead = None)
    <3>1. (ahead # None /\ shown = ahead) \/ (v.light # None /\ shown = v.light)
      BY <2>2 DEF Shown
    <3>2. QED BY <1>2, <1>3, <3>1
  <2>3. QED BY <2>1, <2>2
<1>5. QED BY <1>1, <1>2, <1>4 DEF SceneOf

\* The commitment: who passes a red line was asked, while it was yellow, for
\* more than a comfortable stop.
LEMMA CommitmentJustified ==
  ASSUME SpeedInv, NEW speed \in EgoSpeeds, NEW scene \in Scenes,
         committed' = CommittedNext(speed, scene), approach' = Approach(speed, scene)
  PROVE  /\ committed' \in BOOLEAN /\ approach'.stretch \in Nat \cup {None}
         /\ committed' => approach'.stretch # None /\ approach'.stretch > Comfortable
         /\ scene.line # None /\ scene.light = "RED" /\ ControlScene(speed, scene) # scene
              => approach'.stretch # None /\ approach'.stretch > Comfortable
PROOF
<1>1. /\ speed \in Nat /\ Comfortable \in Nat
      /\ scene.light \in {"RED", "YELLOW", "GREEN", "UNKNOWN"} /\ scene.line \in Nat \cup {None}
  BY SeenTyped, SpeedAssumption
<1> DEFINE needed == DecelNeeded(speed, scene.line)
<1>2. needed \in Nat
  BY <1>1, DecelNat
<1>3. None \notin Int
  BY SpeedAssumption
<1>4. approach'.stretch = IF scene.light \in {"GREEN", "UNKNOWN"} \/ scene.line = None THEN None
                          ELSE IF scene.light # "YELLOW" THEN approach.stretch
                          ELSE IF approach.stretch = None THEN needed ELSE Most(approach.stretch, needed)
  BY DEF Approach, Heard
<1>5. committed' = CASE scene.light \in {"GREEN", "UNKNOWN"} -> FALSE
                     [] committed /\ scene.light \in {"RED", "YELLOW"} -> scene.line # None
                     [] OTHER -> Dilemma(speed, scene)
  BY DEF CommittedNext
<1>6. Dilemma(speed, scene) <=> scene.light = "YELLOW" /\ scene.line # None /\ needed > Comfortable
  BY DEF Dilemma
<1> HIDE DEF needed
<1>7. approach'.stretch \in Nat \cup {None}
  BY <1>1, <1>2, <1>4 DEF SpeedInv, Most
<1>8. committed' \in BOOLEAN
  <2>1. CASE scene.light \in {"GREEN", "UNKNOWN"}
    BY <1>5, <2>1
  <2>2. CASE scene.light \notin {"GREEN", "UNKNOWN"} /\ committed /\ scene.light \in {"RED", "YELLOW"}
    <3>1. committed' = (scene.line # None)
      BY <1>5, <2>2, Zenon
    <3>2. QED BY <3>1, Zenon
  <2>3. CASE scene.light \notin {"GREEN", "UNKNOWN"} /\ ~(committed /\ scene.light \in {"RED", "YELLOW"})
    <3>1. committed' = Dilemma(speed, scene)
      BY <1>5, <2>3, Zenon
    <3>2. QED BY <3>1, Zenon DEF Dilemma
  <2>4. QED BY <2>1, <2>2, <2>3, Zenon
<1>9. ASSUME scene.line # None, scene.light \in {"RED", "YELLOW"}, committed
      PROVE  approach'.stretch # None /\ approach'.stretch > Comfortable
  BY <1>1, <1>2, <1>3, <1>4, <1>9 DEF SpeedInv, Most
<1>10. ASSUME Dilemma(speed, scene)
       PROVE  approach'.stretch # None /\ approach'.stretch > Comfortable
  BY <1>1, <1>2, <1>3, <1>4, <1>6, <1>10 DEF SpeedInv, Most
<1>11. committed' => scene.light \in {"RED", "YELLOW"} /\ (Dilemma(speed, scene) \/ (committed /\ scene.line # None))
  <2>1. CASE scene.light \in {"GREEN", "UNKNOWN"}
    BY <1>5, <2>1
  <2>2. CASE scene.light \in {"RED", "YELLOW"} /\ committed
    BY <1>5, <2>2
  <2>3. CASE scene.light \in {"RED", "YELLOW"} /\ ~committed
    BY <1>5, <1>6, <2>3
  <2>4. QED BY <1>1, <2>1, <2>2, <2>3 DEF SpeedInv
<1>12. scene.light = "RED" /\ ControlScene(speed, scene) # scene => committed
  BY <1>6 DEF ControlScene, SpeedInv
<1>13. QED BY <1>7, <1>8, <1>9, <1>10, <1>11, <1>12

------------------------------------------------------------------------------
\* What the planner is bound by is a number, and the target keeps to it.
LEMMA TargetBounded ==
  ASSUME SpeedInv, NEW speed \in EgoSpeeds, NEW requested \in Requests, NEW scene,
         StopDistance(scene) \in Nat \cup {None}, scene.limit \in Nat \cup {None}, NEW lead \in Leads
  PROVE  LET cap == HardCap(speed, scene, lead) IN
         /\ Target(speed, requested, cap) \in Int
         /\ Target(speed, requested, cap) <= cap
         /\ scene.limit # None => Target(speed, requested, cap) <= scene.limit
         /\ lastTarget # None => Target(speed, requested, cap) <= lastTarget + AccelStep
PROOF
<1> DEFINE line == StopDistance(scene)
           cap == HardCap(speed, scene, lead)
<1>1. speed \in Nat /\ requested \in Nat /\ Comfortable \in Nat /\ CreepSpeed \in Nat /\ CurveCap \in Nat
      /\ AccelStep \in Nat /\ DecelStep \in Nat /\ HoldDistance \in Nat /\ GapAtRest \in Nat /\ TimeGap \in Nat
  BY SpeedAssumption
<1>2. \A x \in Int : Root(2 * Comfortable * Most(0, x)) \in Nat
  <2> SUFFICES ASSUME NEW x \in Int PROVE Root(2 * Comfortable * Most(0, x)) \in Nat
    OBVIOUS
  <2>1. Most(0, x) \in Nat
    BY DEF Most
  <2>2. 2 * Comfortable * Most(0, x) \in Nat
    BY <1>1, <2>1
  <2>3. QED BY <2>2, RootNat
<1>3. line # None => StopCap(speed, line) \in Nat
  <2>1. ASSUME line # None PROVE line - HoldDistance - speed \in Int
    BY <1>1, <2>1
  <2>2. QED BY <1>1, <1>2, <2>1 DEF StopCap
<1>4. lead # None => LeadCap(speed, lead) \in Nat
  <2> SUFFICES ASSUME lead # None PROVE LeadCap(speed, lead) \in Nat
    OBVIOUS
  <2>1. lead.gap \in Nat /\ lead.speed \in Nat
    BY SpeedAssumption
  <2>2. TimeGap * speed \in Nat
    BY <1>1
  <2>3. DesiredGap(speed) \in Int
    BY <1>1, <2>2 DEF DesiredGap
  <2>4. lead.gap - DesiredGap(speed) \in Int
    BY <2>1, <2>3
  <2>5. QED BY <1>2, <2>1, <2>4 DEF LeadCap
<1>5. cap \in Int /\ (scene.limit # None => cap <= scene.limit)
  <2>1. \A a \in Int, c \in Int \cup {None} :
          /\ Under(a, c) \in Int /\ Under(a, c) <= a
          /\ c # None => Under(a, c) <= c
    BY DEF Under, Least
  <2> DEFINE limited == Under(CurveCap, scene.limit)
             stopped == Under(limited, IF line = None THEN None ELSE StopCap(speed, line))
  <2>2. limited \in Int /\ (scene.limit # None => limited <= scene.limit)
    <3>1. CurveCap \in Int /\ scene.limit \in Int \cup {None}
      BY <1>1
    <3> QED BY <2>1, <3>1
  <2>3. stopped \in Int /\ stopped <= limited
    <3>1. (IF line = None THEN None ELSE StopCap(speed, line)) \in Int \cup {None}
      BY <1>3
    <3> HIDE DEF limited
    <3> QED BY <2>1, <2>2, <3>1
  <2>4. cap = Under(stopped, IF lead = None THEN None ELSE LeadCap(speed, lead))
    BY DEF HardCap
  <2>5. (IF lead = None THEN None ELSE LeadCap(speed, lead)) \in Int \cup {None}
    BY <1>4
  <2>6. stopped \in Int /\ (scene.limit # None => scene.limit \in Int /\ stopped <= scene.limit)
    <3> HIDE DEF limited, stopped
    <3> QED BY <2>2, <2>3
  <2>7. cap \in Int /\ cap <= stopped
    <3> DEFINE ahead == IF lead = None THEN None ELSE LeadCap(speed, lead)
    <3>1. ahead \in Int \cup {None} /\ cap = Under(stopped, ahead)
      BY <2>4, <2>5
    <3> HIDE DEF ahead, stopped, cap
    <3> QED BY <2>1, <2>6, <3>1
  <2> HIDE DEF limited, stopped, cap
  <2> QED BY <2>6, <2>7
<1> HIDE DEF cap
<1> DEFINE base == IF lastTarget = None THEN speed ELSE lastTarget
<1>6. base \in Int /\ (lastTarget # None => base = lastTarget)
  BY <1>1 DEF SpeedInv
<1> HIDE DEF base
<1>7. Comfort(requested, base) \in Int /\ Comfort(requested, base) <= base + AccelStep
  BY <1>1, <1>6 DEF Comfort, Least, Most
<1>8. Target(speed, requested, cap) = Least(Comfort(requested, base), cap)
  BY DEF Target, base
<1>9. QED BY <1>1, <1>5, <1>6, <1>7, <1>8 DEF Least, cap

\* The integral is bounded by what it was, on the side on which the output saturates.
LEMMA PidTyped ==
  ASSUME SpeedInv, NEW target \in Int, NEW speed \in Nat
  PROVE  /\ Pid(target, speed).accel \in Int
         /\ Pid(target, speed).next.integral \in Int
         /\ Pid(target, speed).next.error \in Int /\ Pid(target, speed).next.target \in Int
         /\ Pid(target, speed).accel = MaxAccel /\ Raw(target - speed, pid.integral) > MaxAccel
              => Pid(target, speed).next.integral <= Most(0, pid.integral)
         /\ Pid(target, speed).accel = -MaxDecel /\ Raw(target - speed, pid.integral) < -MaxDecel
              => Pid(target, speed).next.integral >= Least(0, pid.integral)
PROOF
<1> DEFINE error == target - speed
           decayed == Decayed(target)
           candidate == Within(decayed + error, -IntegralLimit, IntegralLimit)
           raw == Raw(error, candidate)
           rest == Kp * error + (IF pid.error = None THEN 0 ELSE Kd * (error - pid.error))
<1>1. /\ error \in Int /\ IntegralLimit \in Nat /\ Ki \in Nat /\ Kp \in Nat /\ Kd \in Nat
      /\ MaxAccel \in Nat \ {0} /\ MaxDecel \in Nat /\ MaxDecel >= 1 /\ pid.integral \in Int
  BY SpeedAssumption DEF SpeedInv
<1>2. /\ decayed \in Int /\ decayed <= Most(0, pid.integral) /\ decayed >= Least(0, pid.integral)
  BY <1>1 DEF Decayed, Most, Least
<1> HIDE DEF decayed
<1>3. /\ candidate \in Int
      /\ error < 0 => candidate <= Most(0, pid.integral)
      /\ error > 0 => candidate >= Least(0, pid.integral)
  BY <1>1, <1>2 DEF Within, Most, Least
<1> HIDE DEF candidate
<1>4. rest \in Int
  <2>1. Kp * error \in Int
    BY <1>1
  <2>2. pid.error # None => Kd * (error - pid.error) \in Int
    <3>1. pid.error # None => error - pid.error \in Int
      BY <1>1 DEF SpeedInv
    <3>2. QED BY <1>1, <3>1
  <2>3. QED BY <2>1, <2>2
<1>5. \A x \in Int : Raw(error, x) = rest + Ki * x /\ Raw(error, x) \in Int
  <2> SUFFICES ASSUME NEW x \in Int PROVE Raw(error, x) = rest + Ki * x /\ Raw(error, x) \in Int
    OBVIOUS
  <2>1. Ki * x \in Int /\ Kp * error \in Int
    BY <1>1
  <2>2. (IF pid.error = None THEN 0 ELSE Kd * (error - pid.error)) \in Int
    <3>1. pid.error # None => error - pid.error \in Int
      BY <1>1 DEF SpeedInv
    <3>2. QED BY <1>1, <3>1
  <2>3. \A p, q, r \in Int : p + q + r = (p + r) + q /\ p + q + r \in Int
    OBVIOUS
  <2>4. QED BY <2>1, <2>2, <2>3 DEF Raw
<1> HIDE DEF rest, error
<1>6. \A x, y \in Int : Raw(error, x) < Raw(error, y) => x < y
  <2> SUFFICES ASSUME NEW x \in Int, NEW y \in Int, x >= y PROVE Raw(error, x) >= Raw(error, y)
    BY <1>5
  <2>1. Ki * x >= Ki * y
    BY <1>1
  <2>2. Ki * x \in Int /\ Ki * y \in Int
    BY <1>1
  <2>3. QED BY <1>4, <1>5, <2>1, <2>2
<1>7. raw \in Int
  BY <1>3, <1>5
<1>8. Pid(target, speed) =
        [accel |-> Clipped(raw),
         next |-> [integral |-> IF Winds(raw, error) THEN candidate ELSE decayed, error |-> error, target |-> target]]
  BY DEF Pid, error, candidate, decayed
<1> DEFINE integral == IF Winds(raw, error) THEN candidate ELSE decayed
<1>9. Clipped(raw) \in Int
      /\ (Clipped(raw) = MaxAccel => raw >= MaxAccel) /\ (Clipped(raw) = -MaxDecel => raw <= -MaxDecel)
  BY <1>1, <1>7 DEF Clipped, Within, Most, Least
<1>10. ASSUME Clipped(raw) = MaxAccel, Raw(error, pid.integral) > MaxAccel
       PROVE  integral <= Most(0, pid.integral)
  <2>1. CASE ~Winds(raw, error)
    BY <1>2, <2>1
  <2>2. CASE Winds(raw, error) /\ error < 0
    BY <1>3, <2>2
  <2>3. CASE Winds(raw, error) /\ ~(error < 0)
    <3>1. raw = MaxAccel
      BY <1>1, <1>7, <1>9, <1>10, <2>3 DEF Winds
    <3>2. candidate < pid.integral
      BY <1>1, <1>3, <1>6, <1>10, <3>1
    <3>3. QED BY <1>1, <1>3, <2>3, <3>2 DEF Most
  <2>4. QED BY <2>1, <2>2, <2>3
<1>11. ASSUME Clipped(raw) = -MaxDecel, Raw(error, pid.integral) < -MaxDecel
       PROVE  integral >= Least(0, pid.integral)
  <2>1. CASE ~Winds(raw, error)
    BY <1>2, <2>1
  <2>2. CASE Winds(raw, error) /\ error > 0
    BY <1>3, <2>2
  <2>3. CASE Winds(raw, error) /\ ~(error > 0)
    <3>1. raw = -MaxDecel
      BY <1>1, <1>7, <1>9, <1>11, <2>3 DEF Winds
    <3>2. pid.integral < candidate
      BY <1>1, <1>3, <1>6, <1>11, <3>1
    <3>3. QED BY <1>1, <1>3, <2>3, <3>2 DEF Least
  <2>4. QED BY <2>1, <2>2, <2>3
<1>12. integral \in Int
  BY <1>2, <1>3
<1> HIDE DEF integral
<1>13. /\ Pid(target, speed).accel = Clipped(raw)
       /\ Pid(target, speed).next.integral = integral
       /\ Pid(target, speed).next.error = error /\ Pid(target, speed).next.target = target
  BY <1>8 DEF integral
<1>14. error = target - speed
  BY DEF error
<1>15. QED BY <1>1, <1>9, <1>10, <1>11, <1>12, <1>13, <1>14

------------------------------------------------------------------------------
\* The rate limiter: throttle or brake, and no jump of the throttle.
LEMMA LimitedApart ==
  ASSUME SpeedInv, NEW accel \in Int
  PROVE  /\ Limited(accel).throttle \in Nat /\ Limited(accel).brake \in 0..100
         /\ Limited(accel).throttle = 0 \/ Limited(accel).brake = 0
         /\ Limited(accel).throttle <= control.throttle + Delta
PROOF
<1> DEFINE throttle == IF accel >= 0 THEN Least(100, (100 * accel) \div MaxAccel) ELSE 0
           brake == IF accel < 0 THEN Least(100, (100 * (-accel)) \div MaxDecel) ELSE 0
           toward(want, last) == Most(Most(0, Least(want, last + Delta)), last - Delta)
<1>1. /\ Delta \in Nat \ {0} /\ MaxAccel \in Nat \ {0} /\ MaxDecel \in Nat \ {0}
      /\ control.throttle \in Nat /\ control.brake \in 0..100 /\ (control.throttle = 0 \/ control.brake = 0)
  BY SpeedAssumption DEF SpeedInv, NeverBoth
<1>2. \A a \in Nat, b \in Nat \ {0} : (100 * a) \div b \in Nat
  OBVIOUS
<1>3. throttle \in 0..100 /\ brake \in 0..100 /\ (throttle = 0 \/ brake = 0)
  BY <1>1, <1>2 DEF Least
<1> HIDE DEF throttle, brake
<1> DEFINE throttled == toward(throttle, control.throttle)
           braked == toward(brake, control.brake)
<1>4. /\ throttled \in Nat /\ throttled <= control.throttle + Delta
      /\ throttle = 0 /\ control.throttle = 0 => throttled = 0
  BY <1>1, <1>3 DEF Most, Least
<1>5. /\ braked \in 0..100
      /\ brake = 0 /\ control.brake = 0 => braked = 0
  <2>1. \A w, x \in 0..100 :
          /\ toward(w, x) \in 0..100
          /\ w = 0 /\ x = 0 => toward(w, x) = 0
    BY <1>1 DEF Most, Least
  <2>2. QED BY <1>1, <1>3, <2>1
<1>6. Limited(accel) = [throttle |-> IF brake > 0 THEN 0 ELSE throttled,
                        brake |-> IF throttle > 0 THEN 0 ELSE braked]
  BY Zenon DEF Limited, throttle, brake
<1> HIDE DEF throttled, braked
<1>7. /\ Limited(accel).throttle = IF brake > 0 THEN 0 ELSE throttled
      /\ Limited(accel).brake = IF throttle > 0 THEN 0 ELSE braked
  BY <1>6
<1>8. QED BY <1>1, <1>3, <1>4, <1>5, <1>7

\* What C sees of the stop line, behind the commitment.
LEMMA LineSeen ==
  ASSUME NEW speed \in EgoSpeeds, NEW scene \in Scenes
  PROVE  /\ StopDistance(ControlScene(speed, scene)) \in Nat \cup {None}
         /\ ControlScene(speed, scene).limit = scene.limit /\ scene.limit \in Nat \cup {None}
         /\ StopDistance(ControlScene(speed, scene)) = None /\ scene.line # None /\ scene.light = "RED"
              => ControlScene(speed, scene) # scene
PROOF
<1>1. /\ scene.line \in Nat \cup {None} /\ scene.limit \in Nat \cup {None} /\ None \notin Int
      /\ scene \in [light : {"RED", "YELLOW", "GREEN", "UNKNOWN"}, line : Nat \cup {None},
                    limit : Nat \cup {None}, junction : Nat]
  BY SeenTyped, SpeedAssumption
<1>2. CASE ControlScene(speed, scene) = scene
  BY <1>1, <1>2 DEF StopDistance
<1>3. CASE ControlScene(speed, scene) # scene
  <2>1. ControlScene(speed, scene) = [scene EXCEPT !.light = "GREEN", !.line = None]
    BY <1>3 DEF ControlScene, Cleared
  <2>2. /\ ControlScene(speed, scene).light = "GREEN" /\ ControlScene(speed, scene).line = None
        /\ ControlScene(speed, scene).limit = scene.limit
    BY <1>1, <2>1
  <2> QED BY <1>1, <1>3, <2>2 DEF StopDistance
<1>4. QED BY <1>2, <1>3

LEMMA StepSound ==
  ASSUME SpeedInv, NEW speed \in EgoSpeeds, NEW scene \in Scenes, NEW requested \in Requests, NEW lead \in Leads,
         Step(speed, requested, scene, lead)
  PROVE  SpeedInv' /\ NoWindup /\ ControlsGradual /\ TargetHonest
PROOF
<1> DEFINE line == StopDistance(ControlScene(speed, scene))
           state == StopState(speed, line)
           cap == HardCap(speed, ControlScene(speed, scene), lead)
           target == Target(speed, requested, cap)
           step == Pid(target, speed)
           mode == CASE state = "HOLD" -> "hold"
                     [] line # None /\ state # "HOLD" /\ DecelNeeded(speed, line) >= MaxDecel -> "unreachable"
                     [] OTHER -> IF TooSoon(speed, lead) THEN "ttc" ELSE "drive"
           through == scene.line # None /\ scene.light = "RED" /\ line = None
           accel == IF mode = "drive" THEN step.accel ELSE -MaxDecel
<1>1. /\ committed' = CommittedNext(speed, scene) /\ approach' = Approach(speed, scene)
      /\ lastTarget' = target
      /\ pid' = IF mode \in {"hold", "unreachable"} THEN pid ELSE step.next
      /\ control' = CASE mode = "hold" -> Braked(HoldLevel)
                      [] mode = "unreachable" -> [throttle |-> 0, brake |-> 100]
                      [] mode = "ttc" -> Braked(EmergencyLevel)
                      [] OTHER -> Limited(step.accel)
      /\ decided' = [mode |-> mode, through |-> through, cap |-> cap, limit |-> scene.limit, accel |-> accel]
  BY Zenon DEF Step
<1>2. mode \in {"hold", "unreachable", "ttc", "drive"}
  BY Zenon
<1>3. speed \in Nat /\ line \in Nat \cup {None}
  BY LineSeen, SpeedAssumption
<1>4. through => ControlScene(speed, scene) # scene
  BY LineSeen
<1> HIDE DEF line, mode
<1>5. /\ target \in Int /\ target <= cap /\ (scene.limit # None => target <= scene.limit)
      /\ lastTarget # None => target <= lastTarget + AccelStep
  BY <1>3, LineSeen, TargetBounded DEF line
<1> HIDE DEF cap, target
<1>6. /\ step.accel \in Int
      /\ step.next.integral \in Int /\ step.next.error \in Int /\ step.next.target \in Int
      /\ step.accel = MaxAccel /\ Raw(target - speed, pid.integral) > MaxAccel
           => step.next.integral <= Most(0, pid.integral)
      /\ step.accel = -MaxDecel /\ Raw(target - speed, pid.integral) < -MaxDecel
           => step.next.integral >= Least(0, pid.integral)
      /\ step.next.error = target - speed
  <2>1. step.next.error = target - speed
    BY DEF Pid
  <2>2. QED BY <1>3, <1>5, <2>1, PidTyped
<1> HIDE DEF step
<1>7. /\ Limited(step.accel).throttle \in Nat /\ Limited(step.accel).brake \in 0..100
      /\ Limited(step.accel).throttle = 0 \/ Limited(step.accel).brake = 0
      /\ Limited(step.accel).throttle <= control.throttle + Delta
  BY <1>6, LimitedApart
<1>8. \A level \in 0..100 : /\ Braked(level).throttle = 0
                            /\ Braked(level).brake \in 0..100 /\ Braked(level).brake >= control.brake
  BY DEF Braked, Most, SpeedInv
<1>9. HoldLevel \in 0..100 /\ EmergencyLevel \in 0..100 /\ Delta \in Nat
  BY SpeedAssumption
<1>10. /\ control'.throttle \in Nat /\ control'.brake \in 0..100
       /\ control'.throttle = 0 \/ control'.brake = 0
       /\ control'.throttle <= control.throttle + Delta
       /\ mode # "drive" => control'.brake >= control.brake
  <2>0. control.throttle \in Nat /\ control.brake \in 0..100
    BY DEF SpeedInv
  <2>1. CASE mode = "hold"
    <3>1. control' = Braked(HoldLevel)
      BY <1>1, <2>1
    <3>2. control'.throttle = 0 /\ control'.brake \in 0..100 /\ control'.brake >= control.brake
      BY <1>8, <1>9, <3>1
    <3>3. QED BY <1>9, <2>0, <3>2
  <2>2. CASE mode = "unreachable"
    <3>1. control' = [throttle |-> 0, brake |-> 100]
      BY <1>1, <2>2
    <3>2. QED BY <1>9, <2>0, <3>1
  <2>3. CASE mode = "ttc"
    <3>1. control' = Braked(EmergencyLevel)
      BY <1>1, <2>3
    <3>2. control'.throttle = 0 /\ control'.brake \in 0..100 /\ control'.brake >= control.brake
      BY <1>8, <1>9, <3>1
    <3>3. QED BY <1>9, <2>0, <3>2
  <2>4. CASE mode = "drive"
    BY <1>1, <1>7, <2>4
  <2>5. QED BY <1>2, <2>1, <2>2, <2>3, <2>4
<1>11. SpeedInv'
  <2>1. committed' \in BOOLEAN /\ approach'.stretch \in Nat \cup {None}
        /\ (committed' => approach'.stretch # None /\ approach'.stretch > Comfortable)
        /\ (through => approach'.stretch # None /\ approach'.stretch > Comfortable)
    BY <1>1, <1>4, CommitmentJustified
  <2>2. PermissionsLapse'
    BY <1>1, <2>1 DEF PermissionsLapse
  <2>3. pid'.integral \in Int /\ pid'.error \in Int \cup {None} /\ pid'.target \in Int \cup {None}
    BY <1>1, <1>6 DEF SpeedInv
  <2>4. lastTarget' \in Int
    BY <1>1, <1>5
  <2>5. QED BY <1>10, <2>1, <2>2, <2>3, <2>4 DEF SpeedInv, NeverBoth
<1>12. decided'.mode = mode /\ decided'.accel = accel /\ decided'.cap = cap /\ decided'.limit = scene.limit
  BY <1>1
<1>13. NoWindup
  <2> SUFFICES ASSUME mode = "drive" PROVE NoWindup
    BY <1>12 DEF NoWindup
  <2>1. pid' = step.next /\ accel = step.accel
    BY <1>1
  <2>2. QED BY <1>6, <1>12, <2>1 DEF NoWindup
<1>14. ControlsGradual
  BY <1>10, <1>12 DEF ControlsGradual
<1>15. TargetHonest
  BY <1>1, <1>5, <1>12 DEF TargetHonest
<1>16. QED BY <1>11, <1>13, <1>14, <1>15

LEMMA AskSound ==
  ASSUME SpeedInv, NEW speed \in EgoSpeeds, NEW scene \in Scenes, Ask(speed, scene)
  PROVE  SpeedInv' /\ NoWindup /\ ControlsGradual /\ TargetHonest
PROOF
<1> DEFINE through == scene.line # None /\ scene.light = "RED" /\ ControlScene(speed, scene) # scene
<1>1. /\ committed' = CommittedNext(speed, scene) /\ approach' = Approach(speed, scene)
      /\ decided'.mode = "ask" /\ decided'.through = through
      /\ lastTarget' = lastTarget /\ pid' = pid /\ control' = control
  BY DEF Ask
<1>2. /\ committed' \in BOOLEAN /\ approach'.stretch \in Nat \cup {None}
      /\ committed' => approach'.stretch # None /\ approach'.stretch > Comfortable
      /\ through => approach'.stretch # None /\ approach'.stretch > Comfortable
  BY <1>1, CommitmentJustified
<1>3. SpeedInv'
  BY <1>1, <1>2 DEF SpeedInv, NeverBoth, PermissionsLapse
<1>4. NoWindup
  BY <1>1 DEF NoWindup
<1>5. ControlsGradual
  BY <1>1, SpeedAssumption DEF ControlsGradual, SpeedInv
<1>6. TargetHonest
  <2>1. lastTarget # None => lastTarget <= lastTarget + AccelStep
    BY SpeedAssumption DEF SpeedInv
  <2>2. QED BY <1>1, <2>1 DEF TargetHonest
<1>7. QED BY <1>3, <1>4, <1>5, <1>6

(* The longitudinal controller, whatever its gains: a red line is passed only *)
(* while lights against the ego have followed one another since a yellow one  *)
(* that asked for too hard a stop, throttle and brake are never on together,  *)
(* the integral does not wind up, the throttle ramps, and the target keeps    *)
(* under every ceiling, the posted limit among them.                          *)
THEOREM SpeedIsSound == SpeedInit /\ [][SpeedNext]_speedVars => SpeedSound
PROOF
<1>1. SpeedInit => SpeedInv
  <2> SUFFICES ASSUME SpeedInit PROVE SpeedInv
    OBVIOUS
  <2>1. pid.integral = 0 /\ pid.error = None /\ pid.target = None /\ control.throttle = 0 /\ control.brake = 0
    BY DEF SpeedInit
  <2>2. committed \in BOOLEAN /\ ~committed /\ approach.stretch = None /\ lastTarget = None /\ decided = None
    BY DEF SpeedInit
  <2>3. QED BY <2>1, <2>2 DEF SpeedInv, NeverBoth, PermissionsLapse
<1>2. SpeedInv /\ [SpeedNext]_speedVars => SpeedInv' /\ [NoWindup /\ ControlsGradual /\ TargetHonest]_speedVars
  <2> SUFFICES ASSUME SpeedInv, [SpeedNext]_speedVars
               PROVE  SpeedInv' /\ [NoWindup /\ ControlsGradual /\ TargetHonest]_speedVars
    OBVIOUS
  <2>1. ASSUME NEW speed \in EgoSpeeds, NEW scene \in Scenes, NEW requested \in Requests, NEW lead \in Leads,
               Step(speed, requested, scene, lead)
        PROVE  SpeedInv' /\ NoWindup /\ ControlsGradual /\ TargetHonest
    BY <2>1, StepSound
  <2>2. ASSUME NEW speed \in EgoSpeeds, NEW scene \in Scenes, Ask(speed, scene)
        PROVE  SpeedInv' /\ NoWindup /\ ControlsGradual /\ TargetHonest
    BY <2>2, AskSound
  <2>3. CASE UNCHANGED speedVars
    BY <2>3 DEF speedVars, SpeedInv, NeverBoth, PermissionsLapse
  <2>4. QED BY <2>1, <2>2, <2>3 DEF SpeedNext
<1>3. SpeedInv => PermissionsLapse /\ NeverBoth
  BY DEF SpeedInv
<1>4. QED BY <1>1, <1>2, <1>3, PTL DEF SpeedSound

------------------------------------------------------------------------------
Level == 0..100
RawControl == [throttle : Level, brake : Level, valid : BOOLEAN]

\* Whatever the fault and the fallback, an override is a control in range.
LEMMA OverrideInRange ==
  ASSUME NEW scene \in Scene, NEW fault, NEW cap \in CapBrakes
  PROVE  /\ Injected(fault) \in RawControl \cup {None}
         /\ PerceptionOverride(scene, cap) \in RawControl \cup {None}
         /\ Injected(fault) # None => ~Injected(fault).valid \/ Conflict(Injected(fault)) \/ Injected(fault).brake = 0
         /\ PerceptionOverride(scene, cap) # None => PerceptionOverride(scene, cap).throttle = 0
PROOF
<1>1. \A t, b \in Level : Control(t, b) \in RawControl
  BY DEF Control, RawControl
<1>2. Injected(fault) \in RawControl \cup {None}
  <2>1. [throttle |-> 0, brake |-> 0, valid |-> FALSE] \in RawControl
    BY DEF RawControl, Level
  <2>2. QED BY <1>1, <2>1 DEF Injected, Level
<1>3. CapRequest(cap) \in RawControl \cup {None}
  BY <1>1, AuthorityAssumption DEF CapRequest, Level
<1>4. PerceptionOverride(scene, cap) \in RawControl \cup {None}
  BY <1>1, <1>3 DEF PerceptionOverride, Level
<1>5. Injected(fault) # None => ~Injected(fault).valid \/ Conflict(Injected(fault)) \/ Injected(fault).brake = 0
  BY DEF Injected, Control, Conflict
<1>6. PerceptionOverride(scene, cap) # None => PerceptionOverride(scene, cap).throttle = 0
  BY DEF PerceptionOverride, CapRequest, Control
<1>7. QED BY <1>2, <1>4, <1>5, <1>6

\* What C, or the policy for an unconfirmed command, asks for is in range, and
\* a hold turns it into at least the hold brake.
LEMMA AskedInRange ==
  ASSUME NEW scene \in Scene, NEW wanted \in Wanted, NEW holds \in BOOLEAN
  PROVE  /\ Held(Asked(scene, wanted), holds) \in RawControl
         /\ wanted.throttle = 0 \/ wanted.brake = 0
              => Held(Asked(scene, wanted), holds).throttle = 0 \/ Held(Asked(scene, wanted), holds).brake = 0
         /\ holds => /\ Held(Asked(scene, wanted), holds).throttle = 0
                     /\ Held(Asked(scene, wanted), holds).brake >= HoldBrake
PROOF
<1>1. \A t, b \in Level : Control(t, b) \in RawControl
  BY DEF Control, RawControl
<1>2. wanted.throttle \in Level /\ wanted.brake \in Level
  BY AuthorityAssumption DEF Level
<1>3. Asked(scene, wanted) \in RawControl
  BY <1>1, <1>2 DEF Asked, Level, HoldBrake, ComfortBrake, EmergencyBrake
<1>4. Harder(HoldBrake, Asked(scene, wanted).brake) \in Level
      /\ Harder(HoldBrake, Asked(scene, wanted).brake) >= HoldBrake
  BY <1>3 DEF RawControl, Level, Harder, HoldBrake
<1>5. wanted.throttle = 0 \/ wanted.brake = 0
        => Asked(scene, wanted).throttle = 0 \/ Asked(scene, wanted).brake = 0
  BY <1>2 DEF Asked, Control
<1>6. CASE holds
  <2>1. Held(Asked(scene, wanted), holds) = Control(0, Harder(HoldBrake, Asked(scene, wanted).brake)) /\ 0 \in Level
    BY <1>6 DEF Held, Level
  <2>2. QED BY <1>1, <1>4, <2>1 DEF Control
<1>7. CASE ~holds
  <2>1. Held(Asked(scene, wanted), holds) = Asked(scene, wanted)
    BY <1>7 DEF Held
  <2>2. QED BY <1>3, <1>5, <1>7, <2>1
<1>8. QED BY <1>6, <1>7

SaferThan(final, raw, scene) ==
  /\ final.throttle \in {0, raw.throttle} /\ final.brake \in Level /\ final.brake >= raw.brake
  /\ raw.throttle = 0 \/ raw.brake = 0 \/ ~raw.valid \/ Conflict(raw)
       => final.throttle = 0 \/ final.brake = 0
  /\ scene.atLine => final.throttle <= 5 /\ final.brake >= HoldBrake

\* The supervisor, on any raw control in range: it only ever takes throttle
\* away and adds brake, and stops the car at a line that binds.
LEMMA ArbitrateSafe ==
  ASSUME NEW raw \in RawControl, NEW scene \in Scene
  PROVE  SaferThan(Arbitrate(raw, scene), raw, scene)
PROOF
<1> DEFINE Goal == SaferThan(Arbitrate(raw, scene), raw, scene)
<1>1. raw.throttle \in Level /\ raw.brake \in Level /\ raw.valid \in BOOLEAN /\ scene.atLine \in BOOLEAN
  BY DEF RawControl, Scene
<1>2. \A reason : Full(reason).throttle = 0 /\ Full(reason).brake = 100
  BY DEF Full, EmergencyBrake
<1>3. \A least \in Level : \A reason :
        /\ Softened(raw, least, reason).throttle = 0
        /\ Softened(raw, least, reason).brake \in Level /\ Softened(raw, least, reason).brake >= raw.brake
  BY <1>1 DEF Softened, Harder, Level
<1> DEFINE plain == [throttle |-> raw.throttle, brake |-> raw.brake, reason |-> "NONE"]
<1>4. \/ \E reason : Arbitrate(raw, scene) = Full(reason)
      \/ /\ raw.valid /\ ~Conflict(raw) /\ ~LineGuard(raw, scene)
         /\ \/ \E least \in {RouteBrake, CautionBrake} : \E reason : Arbitrate(raw, scene) = Softened(raw, least, reason)
            \/ Arbitrate(raw, scene) = plain
  BY Zenon DEF Arbitrate
<1>5. CASE \E reason : Arbitrate(raw, scene) = Full(reason)
  BY <1>1, <1>2, <1>5 DEF SaferThan, Level, HoldBrake
<1>6. ASSUME raw.valid, ~Conflict(raw), ~LineGuard(raw, scene),
             NEW least \in {RouteBrake, CautionBrake}, NEW reason, Arbitrate(raw, scene) = Softened(raw, least, reason)
      PROVE  Goal
  <2>1. least \in Level
    BY DEF Level, RouteBrake, CautionBrake
  <2>2. Arbitrate(raw, scene).throttle = 0 /\ Arbitrate(raw, scene).brake >= raw.brake /\ Arbitrate(raw, scene).brake \in Level
    BY <1>3, <1>6, <2>1
  <2>3. scene.atLine => raw.brake >= HoldBrake
    BY <1>1, <1>6 DEF LineGuard, Level, HoldBrake
  <2>4. QED
    BY <1>1, <2>2, <2>3 DEF SaferThan, Level, HoldBrake
<1>7. ASSUME raw.valid, ~Conflict(raw), ~LineGuard(raw, scene), Arbitrate(raw, scene) = plain
      PROVE  Goal
  BY <1>1, <1>7 DEF SaferThan, Level, HoldBrake, LineGuard, Conflict
<1>8. QED BY <1>4, <1>5, <1>6, <1>7, Zenon
LEMMA FinalSafe ==
  ASSUME NEW raw \in RawControl, NEW scene \in Scene
  PROVE  SaferThan(Final(raw, scene), raw, scene)
PROOF
<1>1. CASE scene.summary = "grace"
  BY <1>1 DEF Final, Full, EmergencyBrake, SaferThan, RawControl, Level, HoldBrake
<1>2. CASE scene.summary # "grace"
  BY <1>2, ArbitrateSafe DEF Final
<1>3. QED BY <1>1, <1>2

\* C never asks for throttle and brake together (SpeedControl's NeverBoth).
WantedApart == \A w \in Wanted : w.throttle = 0 \/ w.brake = 0

\* One frame, from any state: who decides and what comes out.
LEMMA FrameDecided ==
  ASSUME WantedApart, NEW scene \in Scene, NEW fault \in Faults \cup {None}, NEW wanted \in Wanted,
         NEW cap \in CapBrakes, NEW stopHold \in BOOLEAN, DecideFrame(scene, fault, wanted, cap, stopHold)
  PROVE  AuthoritySound'
PROOF
<1> DEFINE over == IF Injected(fault) # None THEN Injected(fault) ELSE PerceptionOverride(scene, cap)
           asked == Held(Asked(scene, wanted), stopHold \/ Standing(scene))
           raw == IF over = None THEN asked ELSE over
           final == Final(raw, scene)
<1>1. verdict' = [scene |-> scene, override |-> over, held |-> stopHold, faulted |-> Injected(fault) # None,
                  raw |-> raw, final |-> final]
  BY Zenon DEF DecideFrame
<1>2. /\ asked \in RawControl
      /\ asked.throttle = 0 \/ asked.brake = 0
      /\ stopHold => asked.throttle = 0 /\ asked.brake >= HoldBrake
  BY AskedInRange DEF WantedApart
<1>3. raw \in RawControl
  BY <1>2, OverrideInRange
<1>4. raw.throttle = 0 \/ raw.brake = 0 \/ ~raw.valid \/ Conflict(raw)
  BY <1>2, OverrideInRange
<1>5. SaferThan(final, raw, scene)
  BY <1>3, FinalSafe
<1> HIDE DEF final, raw, asked
<1>6. OnlySafer'
  BY <1>1, <1>4, <1>5 DEF OnlySafer, SaferThan
<1>7. LineDefended'
  BY <1>1, <1>4, <1>5 DEF LineDefended, SaferThan, HoldBrake, Level
<1>8. BlindStops'
  <2>1. ASSUME scene.summary = "closed" \/ scene.blind = 2, Injected(fault) = None
        PROVE  final.throttle = 0 /\ final.brake = EmergencyBrake
    <3>1. over = Control(0, 100)
      BY <2>1 DEF PerceptionOverride, Scene
    <3>2. Control(0, 100) \in [throttle : Int, brake : Int, valid : BOOLEAN]
      BY DEF Control
    <3>3. over # None
      BY <3>1, <3>2, AuthorityAssumption
    <3>4. raw = Control(0, 100)
      BY <3>1, <3>3 DEF raw
    <3>5. QED BY <1>5, <3>4 DEF SaferThan, Control, Level, EmergencyBrake
  <2>2. QED BY <1>1, <2>1 DEF BlindStops
<1>9. HoldStands'
  <2>1. ASSUME stopHold, Injected(fault) = None
        PROVE  final.throttle = 0 /\ (over = None => final.brake >= HoldBrake)
    <3>1. over = PerceptionOverride(scene, cap)
      BY <2>1
    <3>2. raw.throttle = 0 /\ (over = None => raw.brake >= HoldBrake)
      BY <3>1, <2>1, <1>2, OverrideInRange DEF raw
    <3>3. QED BY <1>5, <1>3, <3>2 DEF SaferThan, Level, HoldBrake, RawControl
  <2>2. QED BY <1>1, <2>1 DEF HoldStands
<1>10. QED BY <1>6, <1>7, <1>8, <1>9 DEF AuthoritySound

(* The supervisor has the last word: over every sequence of frames, faults,  *)
(* overrides and holds, control only ever gets safer, a binding line is      *)
(* defended, blindness stops the car and a hold moves nothing.               *)
THEOREM AuthorityIsSound ==
  ASSUME WantedApart
  PROVE  AuthorityInit /\ [][AuthorityNext]_authorityVars => []AuthoritySound
PROOF
<1>1. AuthorityInit => AuthoritySound
  BY DEF AuthorityInit, AuthoritySound, OnlySafer, LineDefended, BlindStops, HoldStands
<1>2. AuthoritySound /\ [AuthorityNext]_authorityVars => AuthoritySound'
  <2> SUFFICES ASSUME AuthoritySound, [AuthorityNext]_authorityVars
               PROVE  AuthoritySound'
    OBVIOUS
  <2>1. CASE \E scene \in Scene, fault \in Faults \cup {None}, wanted \in Wanted, cap \in CapBrakes, stopHold \in BOOLEAN :
               DecideFrame(scene, fault, wanted, cap, stopHold)
    BY <2>1, FrameDecided
  <2>2. CASE NextFrame
    BY <2>2 DEF NextFrame, AuthoritySound, OnlySafer, LineDefended, BlindStops, HoldStands
  <2>3. CASE UNCHANGED authorityVars
    BY <2>3 DEF authorityVars, AuthoritySound, OnlySafer, LineDefended, BlindStops, HoldStands
  <2>4. QED BY <2>1, <2>2, <2>3 DEF AuthorityNext
<1>3. QED BY <1>1, <1>2, PTL

-----------------------------------------------------------------------------
(* B, the lateral controller.                                               *)

\* Two numbers less than a loop apart that leave the same remainder are one.
LEMMA SameRemainder ==
  ASSUME NEW i \in Int, NEW j \in Int, -Loop < i - j, i - j < Loop, i % Loop = j % Loop
  PROVE  i = j
PROOF
<1>1. Loop \in Nat \ {0}
  BY LateralAssumption
<1> DEFINE p == i \div Loop
           q == j \div Loop
<1>2. /\ p \in Int /\ i = Loop * p + (i % Loop) /\ i % Loop \in 0..(Loop - 1)
      /\ q \in Int /\ j = Loop * q + (j % Loop)
  BY <1>1
<1> HIDE DEF p, q
<1>3. i - j = Loop * (p - q)
  BY <1>1, <1>2
<1>4. CASE p - q >= 1
  <2>1. Loop * (p - q) >= Loop * 1
    BY <1>1, <1>2, <1>4
  <2>2. QED BY <1>1, <1>3, <2>1
<1>5. CASE p - q <= -1
  <2>1. Loop * (p - q) <= -Loop
    BY <1>1, <1>2, <1>5
  <2>2. QED BY <1>1, <1>3, <2>1
<1>6. CASE p = q
  BY <1>2, <1>6
<1>7. QED BY <1>2, <1>4, <1>5, <1>6

\* A place of the road, and how far a point of the mission is from it.
Places == 0..(Loop - 1)
LEMMA RoutePlaces ==
  ASSUME mission.start \in Places, NEW i \in Int
  PROVE  RoutePlace(i) \in Places
BY LateralAssumption DEF RoutePlace, Places

LEMMA AwayZero ==
  ASSUME mission.start \in Places, NEW i \in Int, NEW place \in Places
  PROVE  Away(i, place) \in Nat /\ (Away(i, place) = 0 <=> RoutePlace(i) = place)
PROOF
<1> DEFINE r == RoutePlace(i)
           d == (r - place + Loop) % Loop
<1>1. r \in Places /\ Loop \in Nat \ {0}
  BY RoutePlaces, LateralAssumption
<1>2. Away(i, place) = IF d > Loop - d THEN Loop - d ELSE d
  BY DEF Away
<1> HIDE DEF r
<1>3. r >= place => d = r - place
  <2> DEFINE q == (r - place + Loop) \div Loop
  <2>1. q \in Int /\ r - place + Loop = Loop * q + d /\ d \in 0..(Loop - 1)
    BY <1>1 DEF Places
  <2> HIDE DEF q, d
  <2> SUFFICES ASSUME r >= place PROVE d = r - place
    OBVIOUS
  <2>2. CASE q <= 0
    <3>1. Loop * q <= 0
      BY <1>1, <2>1, <2>2
    <3>2. QED BY <1>1, <2>1, <3>1 DEF Places
  <2>3. CASE q >= 2
    <3>1. Loop * q >= Loop * 2
      BY <1>1, <2>1, <2>3
    <3>2. QED BY <1>1, <2>1, <3>1 DEF Places
  <2>4. CASE q = 1
    BY <1>1, <2>1, <2>4 DEF Places
  <2>5. QED BY <2>1, <2>2, <2>3, <2>4
<1>4. r < place => d = r - place + Loop
  BY <1>1 DEF Places
<1> HIDE DEF d
<1>5. QED BY <1>1, <1>2, <1>3, <1>4 DEF Places, r

\* Among points none of which is another pass of the place, the nearest is the point there.
LEMMA NearestIs ==
  ASSUME mission.start \in Places, NEW range \in SUBSET Int, NEW i \in range,
         \A j \in range : RoutePlace(j) = RoutePlace(i) => i <= j
  PROVE  NearestIn(range, RoutePlace(i)) = i
PROOF
<1> DEFINE place == RoutePlace(i)
           First(k) == \A j \in range : Away(k, place) < Away(j, place) \/ (Away(k, place) = Away(j, place) /\ k <= j)
<1>1. place \in Places
  BY RoutePlaces
<1>2. \A j \in range : Away(j, place) \in Nat /\ (Away(j, place) = 0 <=> RoutePlace(j) = place)
  BY <1>1, AwayZero
<1>3. NearestIn(range, place) = CHOOSE k \in range : First(k)
  BY DEF NearestIn
<1>4. Away(i, place) = 0
  BY <1>2
<1>5. \A j \in range : Away(j, place) = 0 => i <= j
  BY <1>2
<1> HIDE DEF place
<1>6. First(i)
  BY <1>2, <1>4, <1>5
<1>7. \A k \in range : First(k) => k = i
  <2> SUFFICES ASSUME NEW k \in range, First(k) PROVE k = i
    OBVIOUS
  <2>1. Away(k, place) < Away(i, place) \/ (Away(k, place) = Away(i, place) /\ k <= i)
    OBVIOUS
  <2>2. Away(k, place) = 0 /\ k <= i
    BY <1>2, <1>4, <2>1
  <2>3. i <= k
    BY <1>5, <2>2
  <2>4. QED BY <2>2, <2>3
<1> HIDE DEF First
<1>8. QED BY <1>3, <1>6, <1>7 DEF place

\* Searched around where the ego was, no further than less than a loop, the place is found.
LEMMA AroundFinds ==
  ASSUME mission.start \in Places, NEW here \in 0..(Points - 1), NEW was \in 0..(Points - 1), NEW width \in 1..Reacquire,
         was = here \/ was = here - 1
  PROVE  NearestIn(Around(was, width), RoutePlace(here)) = here
PROOF
<1>1. Points \in Nat \ {0} /\ Loop \in Nat /\ Reacquire + 1 < Loop /\ Reacquire \in Nat
  BY LateralAssumption
<1>2. Around(was, width) \subseteq Int /\ here \in Around(was, width)
  BY <1>1 DEF Around, Clamp
<1>3. ASSUME NEW j \in Around(was, width), RoutePlace(j) = RoutePlace(here) PROVE here <= j
  <2>1. j \in Int /\ was - width <= j /\ j <= was + width
    BY <1>1, <1>3 DEF Around, Clamp
  <2>2. -Loop < j - here /\ j - here < Loop
    BY <1>1, <2>1
  <2>3. mission.start \in Int
    BY <1>1 DEF Places
  <2>4. mission.start + j = mission.start + here
    <3>1. (mission.start + j) % Loop = (mission.start + here) % Loop
      BY <1>3 DEF RoutePlace
    <3>2. mission.start + j \in Int /\ mission.start + here \in Int
      BY <2>1, <2>3
    <3>3. /\ -Loop < (mission.start + j) - (mission.start + here)
          /\ (mission.start + j) - (mission.start + here) < Loop
      BY <1>1, <2>1, <2>2, <2>3
    <3>4. QED BY <3>1, <3>2, <3>3, SameRemainder
  <2>5. QED BY <2>1, <2>3, <2>4
<1>4. QED BY <1>2, <1>3, NearestIs

\* A route seen for the first time is searched from its start.
LEMMA StartFinds ==
  ASSUME mission.start \in Places, NEW here \in 0..(Points - 1), here < Loop
  PROVE  NearestIn(0..(Points - 1), RoutePlace(here)) = here
PROOF
<1>1. Points \in Nat \ {0} /\ Loop \in Nat
  BY LateralAssumption
<1>2. ASSUME NEW j \in 0..(Points - 1), RoutePlace(j) = RoutePlace(here) PROVE here <= j
  <2>1. SUFFICES ASSUME j < here PROVE FALSE
    BY <1>1
  <2>2. mission.start \in Int
    BY <1>1 DEF Places
  <2>3. mission.start + j = mission.start + here
    <3>1. (mission.start + j) % Loop = (mission.start + here) % Loop
      BY <1>2 DEF RoutePlace
    <3>2. mission.start + j \in Int /\ mission.start + here \in Int
      BY <1>1, <2>2
    <3>3. /\ -Loop < (mission.start + j) - (mission.start + here)
          /\ (mission.start + j) - (mission.start + here) < Loop
      BY <1>1, <2>1, <2>2
    <3>4. QED BY <3>1, <3>2, <3>3, SameRemainder
  <2>4. QED BY <1>1, <2>1, <2>2, <2>3
<1>3. 0..(Points - 1) \in SUBSET Int
  BY <1>1
<1>4. QED BY <1>2, <1>3, NearestIs

-----------------------------------------------------------------------------
(* Where the controller believes it is: the inductive invariant.            *)

Entry == [source : Nat, object : Nat]
CacheInv ==
  /\ cache \in Seq(Entry) /\ Len(cache) <= CacheSize /\ objects \in Nat
  /\ \A k \in DOMAIN cache : cache[k].source < sources /\ cache[k].object < objects
  /\ \A j, k \in DOMAIN cache : cache[j].source = cache[k].source => j = k
  /\ \A j, k \in DOMAIN cache : cache[j].object = cache[k].object => j = k
RouteInv ==
  /\ sources \in Nat /\ mission.source \in Nat /\ mission.source < sources /\ mission.start \in Places
  /\ truth \in 0..(Points - 1) /\ nearest \in Int /\ steer \in Int
  /\ detour = None \/ (detour \in [source : Int, driven : Int] /\ detour.source \in Nat /\ detour.source < sources)
  /\ output # None => detour = None
MemoryInv ==
  /\ DOMAIN progress \subseteq 0..(objects - 1) /\ active \in {None} \cup 0..(objects - 1)
\* On the mission, what is remembered of it is the point the ego is at; of a new mission nothing is.
MissionInv ==
  detour = None =>
    IF ~Cached(mission.source) THEN truth = 0
    ELSE IF active = ObjectOf(mission.source) THEN nearest = truth
    ELSE ObjectOf(mission.source) \in DOMAIN progress /\ progress[ObjectOf(mission.source)] = truth
LateralInv == RouteInv /\ CacheInv /\ MemoryInv /\ MissionInv /\ PlaceKept

\* What an entry of the cache holds.
LEMMA EntryIs ==
  ASSUME CacheInv, NEW k \in DOMAIN cache
  PROVE  /\ cache[k].source \in Nat /\ cache[k].object \in Nat
         /\ cache[k].source < sources /\ cache[k].object < objects
PROOF
<1>1. cache[k] \in Entry
  <2>1. cache \in Seq(Entry)
    BY DEF CacheInv
  <2>2. DOMAIN cache = 1..Len(cache)
    BY <2>1
  <2>3. QED BY <2>1, <2>2
<1>2. cache[k].source < sources /\ cache[k].object < objects
  BY DEF CacheInv
<1>3. QED BY <1>1, <1>2 DEF Entry

\* The object of a cached route is the one beside it in the cache.
LEMMA ObjectIs ==
  ASSUME CacheInv, NEW k \in DOMAIN cache
  PROVE  Cached(cache[k].source) /\ ObjectOf(cache[k].source) = cache[k].object
PROOF
<1> DEFINE src == cache[k].source
<1>1. Cached(src)
  BY DEF Cached
<1>2. /\ cache[k] \in Range(cache)
      /\ \A e \in Range(cache) : e.source = src => e = cache[k]
  BY DEF CacheInv, Range
<1>3. (CHOOSE e \in Range(cache) : e.source = src) = cache[k]
  BY <1>2
<1>4. QED BY <1>1, <1>3, Zenon DEF ObjectOf

LEMMA ObjectType ==
  ASSUME CacheInv, NEW src
  PROVE  /\ ObjectOf(src) \in Nat
         /\ IF Cached(src) THEN ObjectOf(src) < objects ELSE ObjectOf(src) = objects
PROOF
<1>1. CASE Cached(src)
  <2>1. PICK k \in DOMAIN cache : cache[k].source = src
    BY <1>1 DEF Cached
  <2>2. ObjectOf(src) = cache[k].object
    BY <2>1, ObjectIs
  <2>3. cache[k].object \in Nat /\ cache[k].object < objects
    BY EntryIs
  <2>4. QED BY <1>1, <2>2, <2>3
<1>2. CASE ~Cached(src)
  BY <1>2 DEF ObjectOf, CacheInv
<1>3. QED BY <1>1, <1>2

\* Adapting a route leaves it in the cache, under the object it had or a new one.
LEMMA AdaptKeeps ==
  ASSUME CacheInv, NEW src \in Nat, Adapt(src), src < sources, sources \in Nat, UNCHANGED sources
  PROVE  /\ CacheInv' /\ objects' \in Nat /\ objects <= objects'
         /\ Cached(src)' /\ ObjectOf(src)' = ObjectOf(src) /\ ObjectOf(src) \in 0..(objects' - 1)
PROOF
<1>1. CASE Cached(src)
  <2>1. cache' = cache /\ objects' = objects
    BY <1>1 DEF Adapt
  <2>2. CacheInv'
    BY <2>1 DEF CacheInv
  <2>3. Cached(src)' /\ ObjectOf(src)' = ObjectOf(src)
    BY <1>1, <2>1 DEF Cached, ObjectOf
  <2>4. QED BY <1>1, <2>1, <2>2, <2>3, ObjectType DEF CacheInv
<1>2. CASE ~Cached(src)
  <2> DEFINE new == [source |-> src, object |-> objects]
             entries == Append(cache, new)
             n == Len(cache)
  <2>1. cache' = Trimmed(entries) /\ objects' = objects + 1 /\ objects \in Nat
    BY <1>2 DEF Adapt, CacheInv
  <2>2. /\ new \in Entry /\ cache \in Seq(Entry) /\ n \in Nat /\ n <= CacheSize /\ DOMAIN cache = 1..n
    BY <2>1 DEF Entry, CacheInv
  <2>3. /\ entries \in Seq(Entry) /\ Len(entries) = n + 1 /\ DOMAIN entries = 1..(n + 1)
        /\ entries[n + 1] = new /\ \A k \in 1..n : entries[k] = cache[k]
    BY <2>2
  <2>4. CacheSize \in Nat \ {0}
    BY LateralAssumption
  <2> HIDE DEF new, entries, n
  <2>5. \A k \in 1..n : /\ cache[k].source \in Nat /\ cache[k].object \in Nat
                        /\ cache[k].source < sources /\ cache[k].object < objects /\ cache[k].source # src
    BY <1>2, <2>2, EntryIs DEF Cached
  <2>6. new.source = src /\ new.object = objects
    BY DEF new
  <2>7. /\ \A k \in 1..(n + 1) : entries[k].source < sources /\ entries[k].object < objects + 1
        /\ \A j, k \in 1..(n + 1) : entries[j].source = entries[k].source => j = k
        /\ \A j, k \in 1..(n + 1) : entries[j].object = entries[k].object => j = k
    <3>1. ASSUME NEW k \in 1..(n + 1) PROVE k \in 1..n \/ k = n + 1
      BY <2>2
    <3>2. \A j, k \in 1..n : /\ cache[j].source = cache[k].source => j = k
                             /\ cache[j].object = cache[k].object => j = k
      BY <2>2 DEF CacheInv
    <3>3. \A k \in 1..(n + 1) : entries[k].source < sources /\ entries[k].object < objects + 1
      BY <2>1, <2>2, <2>3, <2>5, <2>6, <3>1
    <3>4. ASSUME NEW j \in 1..(n + 1), NEW k \in 1..(n + 1),
                 entries[j].source = entries[k].source \/ entries[j].object = entries[k].object
          PROVE  j = k
      <4>1. CASE j = n + 1 /\ k = n + 1
        BY <4>1
      <4>2. CASE j \in 1..n /\ k \in 1..n
        <5>1. entries[j] = cache[j] /\ entries[k] = cache[k]
          BY <2>3, <4>2
        <5>2. QED BY <3>2, <3>4, <4>2, <5>1
      <4>3. CASE j \in 1..n /\ k = n + 1
        <5>1. entries[j] = cache[j] /\ entries[k] = new
          BY <2>3, <4>3
        <5>2. cache[j].source # src /\ cache[j].object < objects /\ cache[j].object \in Nat
          BY <2>5, <4>3
        <5>3. QED BY <2>1, <2>6, <3>4, <5>1, <5>2
      <4>4. CASE j = n + 1 /\ k \in 1..n
        <5>1. entries[k] = cache[k] /\ entries[j] = new
          BY <2>3, <4>4
        <5>2. cache[k].source # src /\ cache[k].object < objects /\ cache[k].object \in Nat
          BY <2>5, <4>4
        <5>3. QED BY <2>1, <2>6, <3>4, <5>1, <5>2
      <4>5. QED BY <3>1, <4>1, <4>2, <4>3, <4>4
    <3>5. QED BY <3>3, <3>4
  \* What remains of the entries, and where.
  <2>8. PICK cut \in {0, 1} : /\ cache' \in Seq(Entry) /\ Len(cache') = n + 1 - cut /\ Len(cache') <= CacheSize
                             /\ n + 1 - cut >= 1 /\ DOMAIN cache' = 1..(n + 1 - cut)
                             /\ \A k \in 1..(n + 1 - cut) : cache'[k] = entries[k + cut]
    <3>1. CASE n + 1 > CacheSize
      <4>1. cache' = Tail(entries) /\ n = CacheSize
        BY <2>1, <2>2, <2>3, <2>4, <3>1 DEF Trimmed
      <4>2. /\ Tail(entries) \in Seq(Entry) /\ Len(Tail(entries)) = n
            /\ \A k \in 1..n : Tail(entries)[k] = entries[k + 1]
        BY <2>2, <2>3
      <4>3. QED BY <2>2, <2>4, <4>1, <4>2
    <3>2. CASE ~(n + 1 > CacheSize)
      BY <2>1, <2>2, <2>3, <2>4, <3>2 DEF Trimmed
    <3>3. QED BY <3>1, <3>2
  <2>9. \A k \in DOMAIN cache' : k + cut \in 1..(n + 1) /\ cache'[k] = entries[k + cut]
    BY <2>2, <2>8
  <2>10. CacheInv'
    <3>1. \A k \in DOMAIN cache' : cache'[k].source < sources' /\ cache'[k].object < objects'
      BY <2>1, <2>7, <2>9
    <3>2. /\ \A j, k \in DOMAIN cache' : cache'[j].source = cache'[k].source => j = k
          /\ \A j, k \in DOMAIN cache' : cache'[j].object = cache'[k].object => j = k
      <4>1. ASSUME NEW j \in DOMAIN cache', NEW k \in DOMAIN cache', j + cut = k + cut PROVE j = k
        BY <2>2, <2>8, <4>1
      <4>2. QED BY <2>7, <2>9, <4>1
    <3>3. QED BY <2>1, <2>8, <3>1, <3>2 DEF CacheInv
  <2>11. n + 1 - cut \in DOMAIN cache' /\ cache'[n + 1 - cut] = new
    BY <2>2, <2>3, <2>8
  <2>12. Cached(src)' /\ ObjectOf(src)' = objects
    <3>1. /\ cache'[n + 1 - cut] \in Range(cache')
          /\ \A e \in Range(cache') : e.source = src => e = new
      BY <2>6, <2>10, <2>11 DEF CacheInv, Range
    <3>2. (CHOOSE e \in Range(cache') : e.source = src) = new
      BY <2>6, <2>11, <3>1
    <3>3. Cached(src)'
      BY <2>6, <2>11 DEF Cached
    <3>4. QED BY <2>6, <3>2, <3>3, Zenon DEF ObjectOf
  <2>13. ObjectOf(src) = objects
    BY <1>2 DEF ObjectOf
  <2>14. QED BY <2>1, <2>10, <2>12, <2>13
<1>3. QED BY <1>1, <1>2

\* The place found on the mission is the point the ego has come to.
LEMMA FoundIsTruth ==
  ASSUME LateralInv, detour = None, NEW moved \in 0..1, truth + moved < Points
  PROVE  Found(ObjectOf(mission.source), RoutePlace(truth + moved)) = truth + moved
PROOF
<1> DEFINE o == ObjectOf(mission.source)
           here == truth + moved
           place == RoutePlace(here)
<1>1. /\ here \in 0..(Points - 1) /\ truth \in 0..(Points - 1) /\ (truth = here \/ truth = here - 1)
      /\ mission.start \in Places
  BY LateralAssumption DEF LateralInv, RouteInv
<1>2. Window \in 1..Reacquire /\ Reacquire \in 1..Reacquire /\ 1 < Loop
  BY LateralAssumption
<1>3. o \in Nat /\ IF Cached(mission.source) THEN o < objects ELSE o = objects
  BY ObjectType DEF LateralInv
<1>4. place = RoutePlace(here) /\ here = truth + moved
  OBVIOUS
<1> HIDE DEF here, place
<1>5. \A was \in {truth, here} : NearestIn(Around(was, Window), place) = here
  <2>1. ASSUME NEW was \in {truth, here} PROVE NearestIn(Around(was, Window), place) = here
    <3>1. was \in 0..(Points - 1) /\ (was = here \/ was = here - 1)
      BY <1>1
    <3>2. QED BY <1>1, <1>2, <1>4, <3>1, AroundFinds
  <2>2. QED BY <2>1
<1>6. NearestIn(Around(truth, Reacquire), place) = here
  BY <1>1, <1>2, <1>4, AroundFinds
<1>7. here < Loop => NearestIn(0..(Points - 1), place) = here
  BY <1>1, <1>4, StartFinds
<1> HIDE DEF o
<1>8. StartIndex(o, place) \in {truth, here}
  <2>1. CASE ~Cached(mission.source)
    <3>1. active # o /\ o \notin DOMAIN progress
      BY <1>3, <2>1, LateralNone DEF LateralInv, MemoryInv, CacheInv
    <3>2. here < Loop
      <4>1. truth = 0
        BY <2>1, Zenon DEF LateralInv, MissionInv
      <4>2. QED BY <1>2, <4>1, LateralAssumption DEF here
    <3>3. NearestIn(0..(Points - 1), place) = here
      BY <1>7, <3>2
    <3>4. StartIndex(o, place) = NearestIn(0..(Points - 1), place)
      BY <3>1 DEF StartIndex
    <3>5. QED BY <3>3, <3>4
  <2>2. CASE Cached(mission.source) /\ active = o
    <3>1. nearest = truth
      BY <2>2, Zenon DEF LateralInv, MissionInv, o
    <3>2. QED BY <2>2, <3>1 DEF StartIndex
  <2>3. CASE Cached(mission.source) /\ active # o
    <3>1. o \in DOMAIN progress /\ progress[o] = truth
      BY <2>3, Zenon DEF LateralInv, MissionInv, o
    <3>2. StartIndex(o, place) = NearestIn(Around(truth, Reacquire), place)
      BY <2>3, <3>1 DEF StartIndex
    <3>3. QED BY <1>6, <3>2
  <2>4. QED BY <2>1, <2>2, <2>3
<1>9. Found(o, place) = here
  BY <1>5, <1>8 DEF Found
<1>10. QED BY <1>9 DEF o, here, place

\* What is remembered afterwards: of the object named, the index given.
LEMMA Remembering ==
  ASSUME NEW object, NEW index
  PROVE  /\ DOMAIN Remember(object, index) = DOMAIN progress \cup {object}
         /\ Remember(object, index)[object] = index
BY DEF Remember

\* The steering wanted stays within the rate limit of the last.
LEMMA TowardGradual ==
  ASSUME RouteInv, NEW want \in Int
  PROVE  Toward(want) \in Int /\ Toward(want) - steer \in (-MaxDelta)..MaxDelta
BY LateralAssumption DEF Toward, RouteInv

\* More objects are at least the ones there were.
LEMMA MoreObjects ==
  ASSUME NEW m \in Nat, NEW n \in Nat, m <= n
  PROVE  0..(m - 1) \subseteq 0..(n - 1)
OBVIOUS

\* The object B follows is known, and stays so: what every frame leaves of the memory.
LEMMA MemoryKeeps ==
  ASSUME MemoryInv, CacheInv, objects' \in Nat, objects <= objects', NEW object \in 0..(objects' - 1), NEW index,
         progress' = Remember(object, index), active' = object \/ UNCHANGED active
  PROVE  MemoryInv'
PROOF
<1>1. 0..(objects - 1) \subseteq 0..(objects' - 1)
  <2>1. objects \in Nat
    BY DEF CacheInv
  <2>2. QED BY <2>1, MoreObjects
<1>2. DOMAIN progress' \subseteq 0..(objects' - 1)
  BY <1>1, Remembering DEF MemoryInv
<1>3. QED BY <1>1, <1>2 DEF MemoryInv

LEMMA FollowMissionKeeps ==
  ASSUME LateralInv, NEW want \in Int, NEW moved \in 0..1, FollowMission(want, moved)
  PROVE  LateralInv' /\ SteerGradual
PROOF
<1> DEFINE object == ObjectOf(mission.source)
           place == RoutePlace(truth + moved)
           found == Found(object, place)
<1>1. found = truth + moved
  BY FoundIsTruth DEF FollowMission
<1>2. /\ detour = None /\ detour' = None /\ truth' = truth + moved /\ truth + moved < Points
      /\ Adapt(mission.source) /\ UNCHANGED <<sources, mission>>
      /\ progress' = Remember(object, found) /\ active' = object /\ nearest' = found
      /\ steer' = Toward(IF truth' = Points - 1 THEN 0 ELSE want)
      /\ output' = [nearest |-> found, target |-> Clamp(found + Lookahead),
                    status |-> IF truth' = Points - 1 THEN "INVALID" ELSE "OK"]
  BY DEF FollowMission
<1> HIDE DEF object, place, found
<1>3. RouteInv /\ CacheInv /\ MemoryInv
  BY DEF LateralInv
<1>4. /\ CacheInv' /\ objects' \in Nat /\ objects <= objects'
      /\ Cached(mission.source)' /\ ObjectOf(mission.source)' = object /\ object \in 0..(objects' - 1)
  <2>1. mission.source \in Nat /\ mission.source < sources /\ sources \in Nat /\ UNCHANGED <<mission, sources>>
    BY <1>2, <1>3 DEF RouteInv
  <2>2. QED BY <1>2, <1>3, <2>1, AdaptKeeps DEF object
<1>5. truth' \in 0..(Points - 1)
  BY <1>2, <1>3, LateralAssumption DEF RouteInv
<1>6. SteerGradual /\ steer' \in Int
  BY <1>2, <1>3, TowardGradual DEF SteerGradual
<1>7. RouteInv'
  BY <1>1, <1>2, <1>3, <1>5, <1>6 DEF RouteInv
<1>8. MemoryInv'
  BY <1>2, <1>3, <1>4, MemoryKeeps
<1>9. MissionInv'
  BY <1>1, <1>2, <1>4 DEF MissionInv
<1>10. PlaceKept'
  <2>1. Clamp(found + Lookahead) \in truth'..(truth' + Lookahead)
    BY <1>1, <1>2, <1>5, LateralAssumption DEF Clamp
  <2>2. QED BY <1>1, <1>2, <2>1 DEF PlaceKept
<1>11. QED BY <1>4, <1>6, <1>7, <1>8, <1>9, <1>10 DEF LateralInv

LEMMA StartDetourKeeps ==
  ASSUME LateralInv, StartDetour
  PROVE  LateralInv' /\ SteerGradual
PROOF
<1>1. /\ detour' = [source |-> sources, driven |-> 0] /\ sources' = sources + 1 /\ output' = None
      /\ UNCHANGED <<mission, cache, objects, progress, active, nearest, steer, truth>>
  BY DEF StartDetour
<1>2. RouteInv /\ CacheInv /\ MemoryInv
  BY DEF LateralInv
<1>3. RouteInv'
  BY <1>1, <1>2 DEF RouteInv
<1>4. CacheInv'
  <2>1. \A k \in DOMAIN cache : cache[k].source \in Nat /\ cache[k].source < sources
    BY <1>2, EntryIs
  <2>2. sources \in Nat
    BY <1>2 DEF RouteInv
  <2>3. \A k \in DOMAIN cache' : cache'[k].source < sources'
    BY <1>1, <2>1, <2>2
  <2>4. QED BY <1>1, <1>2, <2>3 DEF CacheInv
<1>5. MemoryInv'
  BY <1>1, <1>2 DEF MemoryInv
<1>6. MissionInv' /\ PlaceKept'
  <2>1. detour' \in [source : Int, driven : Int]
    BY <1>1, <1>2 DEF RouteInv
  <2>2. detour' # None
    BY <2>1, LateralNone
  <2>3. QED BY <1>1, <2>2 DEF MissionInv, PlaceKept
<1>7. SteerGradual
  BY <1>1, <1>2, LateralAssumption DEF RouteInv, SteerGradual
<1>8. QED BY <1>3, <1>4, <1>5, <1>6, <1>7 DEF LateralInv

LEMMA FollowDetourKeeps ==
  ASSUME LateralInv, NEW want \in Int, NEW moved \in 0..1, FollowDetour(want, moved)
  PROVE  LateralInv' /\ SteerGradual
PROOF
<1> DEFINE object == ObjectOf(detour.source)
<1>1. /\ detour # None /\ truth + moved < Points - 1 /\ truth' = truth + moved
      /\ detour' = [detour EXCEPT !.driven = @ + moved]
      /\ Adapt(detour.source) /\ progress' = Remember(object, 0) /\ active' = object /\ nearest' = 0
      /\ steer' = Toward(want) /\ UNCHANGED <<sources, mission, output>>
  BY DEF FollowDetour
<1> HIDE DEF object
<1>2. RouteInv /\ CacheInv /\ MemoryInv
  BY DEF LateralInv
<1>3. /\ detour \in [source : Int, driven : Int] /\ detour.source \in Nat /\ detour.source < sources /\ sources \in Nat
      /\ output = None
  BY <1>1, <1>2 DEF RouteInv
<1>4. /\ detour' \in [source : Int, driven : Int] /\ detour'.source = detour.source /\ detour' # None
  <2>1. detour' \in [source : Int, driven : Int] /\ detour'.source = detour.source
    BY <1>1, <1>3
  <2>2. QED BY <2>1, LateralNone
<1>5. CacheInv' /\ objects' \in Nat /\ objects <= objects' /\ object \in 0..(objects' - 1)
  BY <1>1, <1>2, <1>3, AdaptKeeps DEF object
<1>6. SteerGradual /\ steer' \in Int
  BY <1>1, <1>2, TowardGradual DEF SteerGradual
<1>7. RouteInv'
  <2>1. truth' \in 0..(Points - 1)
    BY <1>1, <1>2, LateralAssumption DEF RouteInv
  <2>2. QED BY <1>1, <1>2, <1>3, <1>4, <1>6, <2>1 DEF RouteInv
<1>8. MemoryInv'
  BY <1>1, <1>2, <1>5, MemoryKeeps
<1>9. MissionInv' /\ PlaceKept'
  BY <1>1, <1>3, <1>4 DEF MissionInv, PlaceKept
<1>10. QED BY <1>5, <1>6, <1>7, <1>8, <1>9 DEF LateralInv

LEMMA RestoreMissionKeeps ==
  ASSUME LateralInv, RestoreMission
  PROVE  LateralInv' /\ SteerGradual
PROOF
<1> DEFINE object == ObjectOf(mission.source)
<1>1. /\ detour # None /\ detour' = None /\ Adapt(mission.source) /\ progress' = Remember(object, truth)
      /\ nearest' = (IF active = object THEN truth ELSE nearest)
      /\ UNCHANGED <<sources, mission, active, steer, truth, output>>
  BY DEF RestoreMission, Synchronized
<1> HIDE DEF object
<1>2. RouteInv /\ CacheInv /\ MemoryInv
  BY DEF LateralInv
<1>3. /\ CacheInv' /\ objects' \in Nat /\ objects <= objects'
      /\ Cached(mission.source)' /\ ObjectOf(mission.source)' = object /\ object \in 0..(objects' - 1)
  <2>1. mission.source \in Nat /\ mission.source < sources /\ sources \in Nat /\ UNCHANGED <<mission, sources>>
    BY <1>1, <1>2 DEF RouteInv
  <2>2. QED BY <1>1, <1>2, <2>1, AdaptKeeps DEF object
<1>4. output = None
  BY <1>1, <1>2 DEF RouteInv
<1>5. RouteInv'
  BY <1>1, <1>2, <1>4, LateralAssumption DEF RouteInv
<1>6. MemoryInv'
  BY <1>1, <1>2, <1>3, MemoryKeeps
<1>7. MissionInv'
  <2>1. DOMAIN progress' = DOMAIN progress \cup {object} /\ progress'[object] = truth
    BY <1>1, Remembering
  <2>2. active' = object => nearest' = truth'
    BY <1>1
  <2>3. QED BY <1>1, <1>3, <2>1, <2>2 DEF MissionInv
<1>8. PlaceKept' /\ SteerGradual
  BY <1>1, <1>2, <1>4, LateralAssumption DEF PlaceKept, SteerGradual, RouteInv
<1>9. QED BY <1>3, <1>5, <1>6, <1>7, <1>8 DEF LateralInv

LEMMA ReplanMissionKeeps ==
  ASSUME LateralInv, NEW holds \in BOOLEAN, ReplanMission(holds)
  PROVE  LateralInv' /\ SteerGradual
PROOF
<1>1. /\ mission' = [source |-> sources, start |-> RoutePlace(truth)] /\ sources' = sources + 1
      /\ truth' = 0 /\ detour' = None /\ output' = None
      /\ progress' = << >> /\ active' = None /\ nearest' = 0 /\ steer' \in {steer, 0}
      /\ UNCHANGED <<cache, objects>>
  BY DEF ReplanMission, Reset
<1>2. RouteInv /\ CacheInv /\ MemoryInv
  BY DEF LateralInv
<1>3. RoutePlace(truth) \in Places /\ sources \in Nat /\ steer \in Int
  BY <1>2, RoutePlaces, LateralAssumption DEF RouteInv
<1>4. RouteInv'
  BY <1>1, <1>3, LateralAssumption DEF RouteInv
<1>5. \A k \in DOMAIN cache : cache[k].source \in Nat /\ cache[k].source < sources
  BY <1>2, EntryIs
<1>6. CacheInv'
  <2>1. \A k \in DOMAIN cache' : cache'[k].source < sources'
    BY <1>1, <1>3, <1>5
  <2>2. QED BY <1>1, <1>2, <2>1 DEF CacheInv
<1>7. MemoryInv'
  BY <1>1, <1>2 DEF MemoryInv
<1>8. MissionInv'
  <2>1. mission'.source = sources
    BY <1>1
  <2>2. \A k \in DOMAIN cache : cache[k].source # sources
    BY <1>3, <1>5
  <2>3. ~Cached(mission.source)'
    BY <1>1, <2>1, <2>2 DEF Cached
  <2>4. QED BY <1>1, <2>3 DEF MissionInv
<1>9. PlaceKept' /\ SteerGradual
  <2>1. steer' = steer => steer' - steer \in (-MaxDelta)..MaxDelta
    BY <1>3, LateralAssumption
  <2>2. QED BY <1>1, <2>1 DEF PlaceKept, SteerGradual
<1>10. QED BY <1>4, <1>6, <1>7, <1>8, <1>9 DEF LateralInv

LEMMA LateralInvStart == LateralInit => LateralInv
PROOF
<1> SUFFICES ASSUME LateralInit PROVE LateralInv
  OBVIOUS
<1>1. /\ sources = 1 /\ mission = [source |-> 0, start |-> 0] /\ detour = None /\ cache = <<>> /\ objects = 0
      /\ progress = << >> /\ active = None /\ nearest = 0 /\ steer = 0 /\ truth = 0 /\ output = None
  BY DEF LateralInit
<1>2. Loop \in Nat \ {0} /\ Points \in Nat \ {0} /\ CacheSize \in Nat
  BY LateralAssumption
<1>3. RouteInv
  BY <1>1, <1>2 DEF RouteInv, Places
<1>4. CacheInv
  BY <1>1, <1>2 DEF CacheInv
<1>5. MemoryInv
  BY <1>1 DEF MemoryInv
<1>6. MissionInv /\ PlaceKept
  BY <1>1 DEF MissionInv, PlaceKept, Cached
<1>7. QED BY <1>3, <1>4, <1>5, <1>6 DEF LateralInv

LEMMA LateralInvStep == LateralInv /\ [LateralNext]_lateralVars => LateralInv' /\ [SteerGradual]_lateralVars
PROOF
<1> SUFFICES ASSUME LateralInv, [LateralNext]_lateralVars PROVE LateralInv' /\ [SteerGradual]_lateralVars
  OBVIOUS
<1>1. ASSUME NEW want \in Steers, NEW moved \in 0..1, FollowMission(want, moved) \/ FollowDetour(want, moved)
      PROVE  LateralInv' /\ SteerGradual
  <2>1. want \in Int
    BY LateralAssumption
  <2>2. QED BY <1>1, <2>1, FollowMissionKeeps, FollowDetourKeeps
<1>2. CASE StartDetour
  BY <1>2, StartDetourKeeps
<1>3. CASE RestoreMission
  BY <1>3, RestoreMissionKeeps
<1>4. ASSUME NEW holds \in BOOLEAN, ReplanMission(holds) PROVE LateralInv' /\ SteerGradual
  BY <1>4, ReplanMissionKeeps
<1>5. CASE UNCHANGED lateralVars
  BY <1>5 DEF lateralVars, LateralInv, RouteInv, CacheInv, MemoryInv, MissionInv, PlaceKept, Cached, ObjectOf
<1>6. QED BY <1>1, <1>2, <1>3, <1>4, <1>5 DEF LateralNext

\* What the invariant says of the cache: a container is remembered once.
LEMMA CachedOnce == LateralInv => OneObject
BY DEF LateralInv, CacheInv, MemoryInv, OneObject

\* B never loses its place on the mission, steers no faster than its limit, and knows
\* each container by one object, however manoeuvres take the route and give it back.
THEOREM LateralIsSound == LateralInit /\ [][LateralNext]_lateralVars => LateralSound
PROOF
<1>1. LateralInv => PlaceKept
  BY DEF LateralInv
<1>2. QED BY <1>1, CachedOnce, LateralInvStart, LateralInvStep, PTL DEF LateralSound
=============================================================================
