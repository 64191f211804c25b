---------------------------- MODULE ObjectTracks ----------------------------
(* SensorObjectTracker (integration/object_tracker.py): the opaque ids that *)
(* tie a detected object of one frame to the next, and to which a spoken    *)
(* target or a plan refers.  An image position is one of a few places, a    *)
(* range one of a few distances; a frame's detections are one call.         *)
EXTENDS Integers, Sequences, FiniteSets, SequencesExt

CONSTANTS Class, Place, Distance, \* of a detection; no range where it has none
          NoRange,
          MaxShift,               \* maximum_center_shift, in places
          RangeGate,              \* minimum_range_gate_m
          FrameGap,               \* maximum_frame_gap
          MaxDetections, MaxIds, LastFrameNo \* bounds

ASSUME TracksAssumption ==
  /\ Place \subseteq Int /\ Distance \subseteq Nat \ {0} /\ NoRange \notin Distance
  /\ {MaxShift, RangeGate, FrameGap, MaxDetections, MaxIds, LastFrameNo} \subseteq Nat

Detection == [class : Class, place : Place, range : Distance \cup {NoRange}]

VARIABLES tracks,  \* _tracks: id -> the detection and frame it was last seen in
          nextId,  \* _next_id
          frameNo, \* of the last frame
          named,   \* the frame's output: id and detection of each
          born,    \* ghost: the class each id was created for
          gone     \* ghost: the ids that expired
trackVars == <<tracks, nextId, frameNo, named, born, gone>>

Distinct(a, b) == IF a > b THEN a - b ELSE b - a
Gate(range) == IF range \div 4 > RangeGate THEN range \div 4 ELSE RangeGate

\* _best_match: what the association of a track with a detection costs.
MatchesMutant(old, new) ==  \* the class is left to the range and the place
  /\ Distinct(old.place, new.place) <= MaxShift
  /\ NoRange \notin {old.range, new.range} => Distinct(old.range, new.range) <= Gate(old.range)
Matches(old, new) ==
  /\ old.class = new.class
  /\ Distinct(old.place, new.place) <= MaxShift
  /\ NoRange \notin {old.range, new.range} => Distinct(old.range, new.range) <= Gate(old.range)
\* Costs are compared with the range delta as a share of its gate, over a common denominator.
Cost(old, new) ==
  Distinct(old.place, new.place) * 100
    + IF NoRange \in {old.range, new.range} THEN 0
      ELSE (100 * Distinct(old.range, new.range)) \div Gate(old.range)

BestMatches(known, available, detection) ==
  LET fit == {i \in available : Matches(known[i].seen, detection)} IN
  {i \in fit : \A j \in fit : Cost(known[i].seen, detection) <= Cost(known[j].seen, detection)}

Unclaimed(available, id) == available \ {id}
\* Ids for one detection after another; several where costs tie (a set is iterated).
NameOne(s, detection, frame) ==
  LET name(id, next) ==
        [known |-> [i \in DOMAIN s.known \cup {id} |->
                      IF i = id THEN [seen |-> detection, frame |-> frame] ELSE s.known[i]],
         available |-> Unclaimed(s.available, id), next |-> next,
         out |-> Append(s.out, [id |-> id, seen |-> detection])]
      best == BestMatches(s.known, s.available, detection) IN
  IF best = {} THEN {name(s.next, s.next + 1)} ELSE {name(i, s.next) : i \in best}

\* What the ids of a frame may be, after each number of its detections.
Naming(start, detections, frame) ==
  LET after[n \in 0..Len(detections)] ==
        IF n = 0 THEN {start}
        ELSE UNION {NameOne(s, detections[n], frame) : s \in after[n - 1]}
  IN  after

Fresh(known, frame) == {i \in DOMAIN known : frame - known[i].frame <= FrameGap}

\* update(): tracks too old are forgotten, then every detection gets an id.
Update(detections, frame) ==
  LET live == Fresh(tracks, frame)
      start == [known |-> [i \in live |-> tracks[i]], available |-> live, next |-> nextId, out |-> <<>>] IN
  \E s \in Naming(start, detections, frame)[Len(detections)] :
    /\ tracks' = s.known /\ nextId' = s.next /\ named' = s.out
    /\ born' = [i \in DOMAIN born \cup {x.id : x \in ToSet(s.out)} |->
                  IF i \in DOMAIN born THEN born[i] ELSE (CHOOSE x \in ToSet(s.out) : x.id = i).seen.class]
    /\ gone' = gone \cup (DOMAIN born \ live)

TrackInit == tracks = <<>> /\ nextId = 1 /\ frameNo = 0 /\ named = <<>> /\ born = <<>> /\ gone = {}
\* A frame without detections does not reach the tracker (carla_perception.py:1057).
TrackNext ==
  \E step \in 1..(FrameGap + 1), n \in 1..MaxDetections :
    \E detections \in [1..n -> Detection] :
      /\ frameNo + step <= LastFrameNo /\ frameNo' = frameNo + step
      /\ nextId + n <= MaxIds + 1
      /\ Update(detections, frameNo + step)

-----------------------------------------------------------------------------
TrackTypeOK ==
  /\ DOMAIN tracks \subseteq 1..MaxIds /\ nextId \in 1..(MaxIds + 1) /\ frameNo \in 0..LastFrameNo
  /\ \A i \in DOMAIN tracks : tracks[i].seen \in Detection /\ tracks[i].frame <= frameNo

(* Two objects of one frame never carry the same id, so a command naming    *)
(* one of them cannot be applied to the other (object_tracker.py:47-59).    *)
OneObjectPerId == \A x, y \in DOMAIN named : named[x].id = named[y].id => x = y

(* An id stands for one object for ever: its class never changes, and once  *)
(* forgotten it is never given to another object, whatever is kept of it by *)
(* those who remember it (:42-59, 66-70).                                   *)
IdIsOneObject ==
  \A x \in ToSet(named) : x.id \notin gone /\ born[x.id] = x.seen.class

(* Ids and objects correspond, within a frame and over time.                *)
IdentityHolds == OneObjectPerId /\ IdIsOneObject
=============================================================================
