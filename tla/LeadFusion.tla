----------------------------- MODULE LeadFusion -----------------------------
(* What a frame's ranges become: CarlaPerceptionBridge.acquire chooses a     *)
(* lead from LiDAR and radar, TemporalLeadTracker bridges short dropouts     *)
(* (integration/carla_perception.py) and ConservativeSensorFusion            *)
(* (car_control_C/safety_state.py) turns range, speed and the visual class   *)
(* into a recommended action.  Lengths are decimetres, times quarters of a   *)
(* second, speeds decimetres per quarter, divisions are rounded down; the    *)
(* road is straight and the sensor margin unscaled.                          *)
EXTENDS Integers, FiniteSets, Absent

CONSTANTS VruHold,  \* vru_caution_hold_s
          Ranges,   \* what LiDAR may return
          Returns,  \* what radar may return: [gap, rate]
          Speeds,   \* of the ego vehicle
          Gaps      \* time from one perceived frame to the next

ASSUME LeadAssumption ==
  /\ VruHold \in Nat \ {0} /\ Ranges \cup Speeds \subseteq Nat /\ Gaps \subseteq Nat \ {0}
  /\ Returns \subseteq [gap : Nat, rate : Int]
  /\ None \notin Int \cup [gap : Int, speed : Int \cup {None}, seen : Int, travel : Int, age : Int]

Larger(a, b) == IF a > b THEN a ELSE b
Smaller(a, b) == IF a < b THEN a ELSE b
Apart(a, b) == IF a > b THEN a - b ELSE b - a

Hold == 3             \* hold_s
AcquireWithin == 350  \* acquire_within_m
MaxLeadSpeed == 50    \* max_lead_speed_mps
Jump == 30            \* a return this much farther than predicted is the background
Closest == 1          \* a predicted gap is never less

VARIABLES detector,  \* an object detector is configured
          track,     \* the lead tracked: [gap, speed, seen, travel, age], None without one
          previous,  \* _previous_distance_m
          pending,   \* _pending_temporal_closing_speed_mps
          caution,   \* what is left of _vru_caution_until_s, None when never set or past
          summary,   \* the last frame: its inputs, the reported lead and the action
          started,   \* a frame has been perceived
          silence,   \* ghost: time since the reported gap was a return of that frame
          trend,     \* ghost: frames in a row with a range and no speed, dt within reach
          vruAge     \* ghost: time since a vulnerable road user was seen in its zone
leadVars == <<detector, track, previous, pending, caution, summary, started, silence, trend, vruAge>>

-----------------------------------------------------------------------------
\* acquire(): the lead of this frame, before it is tracked.
RawLead(lidar, radar, ego) ==
  LET static == IF detector THEN 0 ELSE None
      towards == Larger(0, ego + radar.rate) IN
  CASE lidar = None /\ radar # None /\ radar.gap <= 80 -> [gap |-> radar.gap, speed |-> towards]
    [] lidar # None /\ radar # None /\ Apart(radar.gap, lidar) <= 40
         -> [gap |-> lidar, speed |-> towards]
    [] OTHER -> [gap |-> lidar, speed |-> IF lidar = None THEN None ELSE static]

\* TemporalLeadTracker.update: the track after `since` more time at speed `ego`.
Aged(since, ego) ==
  [track EXCEPT !.age = @ + since, !.travel = @ + ego * since]
Holds(since) == track # None /\ track.seen <= AcquireWithin /\ track.age + since <= Hold
AssumedSpeed == IF track.speed = None THEN 0 ELSE track.speed
Predicted(since, ego) == Larger(Closest, track.gap - Larger(0, ego - AssumedSpeed) * since)

Suppressed(raw, since, ego) ==
  raw # None /\ Holds(since) /\ raw > Predicted(since, ego) + Jump

Inferred(raw, since, ego) ==
  IF track = None \/ Aged(since, ego).age > Hold THEN None
  ELSE LET speed == (raw - track.seen + Aged(since, ego).travel) \div Aged(since, ego).age IN
       IF speed \in 0..MaxLeadSpeed THEN speed ELSE None
Smoothed(measured) ==
  IF measured = None \/ track = None \/ track.speed = None THEN measured
  ELSE (13 * track.speed + 7 * measured) \div 20
Observed(raw, speed, since, ego) ==
  LET measured == IF speed # None THEN Smaller(MaxLeadSpeed, speed) ELSE Inferred(raw, since, ego) IN
  [gap |-> raw, speed |-> Smoothed(measured), seen |-> raw, travel |-> 0, age |-> 0]

BridgedMutant(since, ego) == [Aged(since, ego) EXCEPT !.gap = Predicted(since, ego), !.age = 0]
Bridged(since, ego) == [Aged(since, ego) EXCEPT !.gap = Predicted(since, ego)]

Tracked(lead, since, ego) ==
  IF lead.gap # None /\ ~Suppressed(lead.gap, since, ego) THEN Observed(lead.gap, lead.speed, since, ego)
  ELSE IF Holds(since) THEN Bridged(since, ego)
  ELSE None

\* The lead speed of the frame: the track's, 0 for one held without any, else the raw one.
LeadSpeed(lead, since, ego) ==
  LET next == Tracked(lead, since, ego) IN
  IF next = None THEN lead.speed
  ELSE IF next.age > 0 THEN AssumedSpeed
  ELSE next.speed

-----------------------------------------------------------------------------
\* dynamic_safety_distance on a straight road, and the floors of _range_action.
Margin(ego) == (75 + 4 * ego) \div 10
Factor(class) == CASE class = "vru" -> 175 [] class = "vehicle" -> 100 [] OTHER -> 110
EmergencyFactor(class) == IF class = "vru" THEN 120 ELSE Factor(class)
EnvelopeCaution(ego, closing, class) ==
  (Factor(class) * (30 + 4 * ego + (4 * closing * closing) \div 15)) \div 100 + Margin(ego)
EnvelopeEmergency(ego, closing, class) ==
  Smaller(EnvelopeCaution(ego, closing, class),
    Larger(IF class = "vru" THEN 80 ELSE 15,
           (EmergencyFactor(class) * (15 + (14 * ego) \div 10 + (4 * closing * closing) \div 25)) \div 100
             + Margin(ego) \div 2))

RangeAction(gap, closing, ego, class) ==
  LET vru == class = "vru"
      shown == IF closing = None THEN ego ELSE closing
      hurry == closing # None /\ closing > 0 IN
  IF \/ hurry /\ gap <= 6 * closing
     \/ gap <= Larger(IF vru THEN 80 ELSE 50, EnvelopeEmergency(ego, shown, class))
  THEN "EMERGENCY_BRAKE"
  ELSE IF \/ hurry /\ gap <= 10 * closing
          \/ gap <= Larger(IF vru THEN 250 ELSE 100, EnvelopeCaution(ego, shown, class))
  THEN "SLOW_DOWN"
  ELSE "KEEP_SPEED"

\* Closing speed: from the lead's speed, or two range rates in a row that agree.
Candidate(gap, since) ==
  IF started /\ previous # None /\ since <= 1 THEN (previous - gap) \div since ELSE None
Plausible(candidate, ego) == candidate # None /\ candidate > 0 /\ candidate <= Smaller(100, ego + 12)
Confirmed(candidate, ego) ==
  Plausible(candidate, ego) /\ pending # None /\ Apart(candidate, pending) <= 12
Closing(gap, speed, since, ego) ==
  IF gap = None THEN None
  ELSE IF speed # None THEN Larger(0, ego - speed)
  ELSE IF Confirmed(Candidate(gap, since), ego)
  THEN (Candidate(gap, since) + IF pending = None THEN Candidate(gap, since) ELSE pending) \div 2
  ELSE None
Pending(gap, speed, since, ego) ==
  IF gap # None /\ speed = None /\ Plausible(Candidate(gap, since), ego) THEN Candidate(gap, since) ELSE None

InZone(gap, closing, ego, class) ==
  class = "vru" /\ gap # None
  /\ gap <= Larger(250, EnvelopeCaution(ego, IF closing = None THEN ego ELSE closing, class))
CautionMutant(zone, since) == IF zone THEN VruHold ELSE None
Caution(zone, since) ==
  IF zone THEN VruHold ELSE IF caution = None \/ caution < since THEN None ELSE caution - since

\* ConservativeSensorFusion.update with a valid LiDAR.
Action(gap, closing, ego, class, held) ==
  LET found == CASE class \in {"vru", "vehicle"} /\ gap = None -> "FULL_BRAKE"
                 [] gap # None -> RangeAction(gap, closing, ego, class)
                 [] OTHER -> "KEEP_SPEED" IN
  IF held # None /\ found = "KEEP_SPEED" THEN "SLOW_DOWN" ELSE found
Cap(action, held) ==
  IF action # "SLOW_DOWN" THEN "none" ELSE IF held # None THEN "vru" ELSE "hazard"

\* One perceived frame; a frame whose acquisition failed reaches none of this.
Perceive(lidar, radar, ego, class, dt) ==
  LET since == IF started THEN dt ELSE 0
      lead == RawLead(lidar, radar, ego)
      next == Tracked(lead, since, ego)
      gap == IF next = None THEN None ELSE next.gap
      speed == LeadSpeed(lead, since, ego)
      closing == Closing(gap, speed, since, ego)
      zone == InZone(gap, closing, ego, class)
      held == Caution(zone, since)
      action == Action(gap, closing, ego, class, held) IN
  /\ (class # None => detector)
  /\ started' = TRUE /\ track' = next /\ previous' = gap
  /\ pending' = Pending(gap, speed, since, ego) /\ caution' = held
  /\ summary' = [raw |-> lead.gap, gap |-> gap, speed |-> speed, closing |-> closing, class |-> class,
                 action |-> action, cap |-> Cap(action, held)]
  /\ silence' = IF gap = lead.gap THEN 0 ELSE Smaller(silence + since, Hold + 1)
  /\ trend' = IF gap = None \/ speed # None THEN 0
              ELSE IF since <= 1 /\ previous # None /\ gap < previous THEN Smaller(trend + 1, 2) ELSE 0
  /\ vruAge' = IF zone THEN 0 ELSE Smaller(vruAge + since, VruHold + 1)
  /\ UNCHANGED detector

LeadInit ==
  /\ detector \in BOOLEAN /\ track = None /\ previous = None /\ pending = None /\ caution = None
  /\ summary = [raw |-> None, gap |-> None, speed |-> None, closing |-> None, class |-> None,
                action |-> "KEEP_SPEED", cap |-> "none"]
  /\ started = FALSE /\ silence = 0 /\ trend = 0 /\ vruAge = VruHold + 1
LeadNext ==
  \E lidar \in Ranges \cup {None}, radar \in Returns \cup {None}, ego \in Speeds,
     class \in {None, "vru", "vehicle", "other"}, dt \in Gaps : Perceive(lidar, radar, ego, class, dt)

-----------------------------------------------------------------------------
LeadTypeOK ==
  /\ track = None \/ (track.gap \in Nat \ {0} /\ track.age \in 0..Hold
                      /\ (track.speed = None \/ track.speed \in 0..MaxLeadSpeed))
  /\ caution = None \/ caution \in 0..VruHold
  /\ summary.action \in {"KEEP_SPEED", "SLOW_DOWN", "FULL_BRAKE", "EMERGENCY_BRAKE"}
  /\ summary.cap \in {"none", "vru", "hazard"}

(* A target that has left is followed for hold_s and no longer: a reported  *)
(* lead was a return of some frame at most that long ago, however many far  *)
(* returns were taken for background in between (carla_perception.py:481-   *)
(* 489, 525-547, 579-588).                                                  *)
PhantomExpires == summary.gap # None => silence <= Hold

(* The lead that is reported is never farther than the return of the frame: *)
(* a cut-in replaces whatever is being tracked (:543-547).                  *)
CloserReturnWins ==
  summary.raw # None /\ summary.gap # None => summary.gap <= summary.raw

(* A lead speed comes with a lead: fusion refuses the pair otherwise with   *)
(* an error that the frame loop does not take for a failed perception       *)
(* (safety_state.py:234-235, carla_runner.py:5076).                         *)
SpeedHasRange == summary.speed # None => summary.gap # None

(* A closing speed that no sensor measured takes two range rates in a row:  *)
(* the nearest return changing from one object to another does not brake as *)
(* an imminent collision (safety_state.py:92-95, 259-288).                  *)
SwitchIsNotClosing == summary.closing # None /\ summary.speed = None => trend >= 2

(* For the hold time after a vulnerable road user was seen within reach the *)
(* vehicle is never told to keep its speed, and creeps where it may drive,  *)
(* whatever the detector and the ranges then lose (:312-323, 343-352).      *)
VruHoldLasts ==
  vruAge <= VruHold => summary.action # "KEEP_SPEED" /\ summary.cap # "hazard"

(* The lead that control sees is one that is there: not a phantom, not the  *)
(* background behind a nearer return, not a speed without a range, not a    *)
(* closing speed made of two objects.                                       *)
LeadIsReal == PhantomExpires /\ CloserReturnWins /\ SpeedHasRange /\ SwitchIsNotClosing
=============================================================================
