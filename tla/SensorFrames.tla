---------------------------- MODULE SensorFrames ----------------------------
(* Sensor callbacks meeting the frame loop: SensorFrameBuffer (continuous   *)
(* sensors, car_control_A/simulator.py), EventLedger (collision and lane    *)
(* events) and CarlaPerceptionBridge.acquire, which waits on the first and  *)
(* then empties the second (integration/carla_perception.py).               *)
EXTENDS Integers, FiniteSets, FiniteSetsExt

CONSTANTS Required, Optional, \* continuous sensors
          EventKind,          \* "collision", "lane_invasion"
          MaxFrames,          \* max_frames of the buffer
          RetainFrames,       \* retain_frames of the ledger
          LastFrame,          \* bound of the simulation
          MaxEvents           \* bound of the events that happen

ASSUME SensorAssumption ==
  /\ Required # {} /\ Required \cap Optional = {}
  /\ {MaxFrames, RetainFrames} \subseteq Nat \ {0} /\ {LastFrame, MaxEvents} \subseteq Nat

Sensor == Required \cup Optional
Frame == 0..LastFrame

VARIABLES frame,     \* the frame the world last ticked to, -1 before the first
          emitted,   \* measurements on their way: <<sensor, frame>>
          buffer,    \* _frames: the sensors each buffered frame has
          consumed,  \* _consumed_through
          wait,      \* "idle" (the rest of the frame), "required", "grace", "flags"
          delivered, \* sensors whose callback for the frame has returned
          happened,  \* the events that happened: <<kind, frame>>
          arriving,  \* event callbacks between reading the set and taking the lock
          ledger,    \* the two sets of frames, by kind
          told,      \* events flags_for_frame has reported
          orphaned,  \* events added to a set that had been replaced
          forgotten  \* events dropped by the ledger's bound
bufferVars == <<frame, emitted, buffer, consumed, wait, delivered>>
eventVars == <<happened, arriving, ledger, told, orphaned, forgotten>>
sensorVars == <<bufferVars, eventVars>>

Buffered == {f \in Frame : buffer[f] # {}}
Recorded == UNION {ledger[k] : k \in EventKind}
EventFrame(e) == e[2]

SensorTypeOK ==
  /\ frame \in Frame \cup {-1} /\ consumed \in Frame \cup {-1}
  /\ emitted \subseteq Sensor \X Frame /\ buffer \in [Frame -> SUBSET Sensor]
  /\ wait \in {"idle", "required", "grace", "flags"} /\ delivered \subseteq Sensor
  /\ Recorded \subseteq happened /\ told \subseteq happened /\ orphaned \cup forgotten \subseteq happened
  /\ \A a \in arriving : a.event \in happened /\ a.set \in {"unread", "current", "replaced"}

SensorInit ==
  /\ frame = -1 /\ emitted = {} /\ buffer = [f \in Frame |-> {}] /\ consumed = -1
  /\ wait = "idle" /\ delivered = {}
  /\ happened = {} /\ arriving = {} /\ ledger = [k \in EventKind |-> {}]
  /\ told = {} /\ orphaned = {} /\ forgotten = {}

\* world.tick(): every sensor measures the new frame, or misses it, and events happen.
Tick ==
  /\ wait = "idle" /\ frame < LastFrame /\ frame' = frame + 1
  /\ \E s \in SUBSET Sensor : emitted' = emitted \cup (s \X {frame + 1})
  /\ wait' = "required" /\ delivered' = {}
  /\ \E k \in SUBSET EventKind :
       /\ happened' = happened \cup (k \X {frame + 1}) /\ Cardinality(happened') <= MaxEvents
       /\ arriving' = arriving \cup {[event |-> e, set |-> "unread"] : e \in k \X {frame + 1}}
  /\ UNCHANGED <<buffer, consumed, ledger, told, orphaned, forgotten>>

-----------------------------------------------------------------------------
Evict(frames) == Min(frames)
\* A callback thread delivers a measurement: the oldest frame goes when there are too many.
Push(s, f) ==
  /\ <<s, f>> \in emitted /\ emitted' = emitted \ {<<s, f>>}
  /\ delivered' = IF f = frame THEN delivered \cup {s} ELSE delivered
  /\ LET put == [buffer EXCEPT ![f] = @ \cup {s}]
         full == {g \in Frame : put[g] # {}} IN
       buffer' = IF f <= consumed THEN buffer
                 ELSE IF Cardinality(full) <= MaxFrames THEN put
                 ELSE [put EXCEPT ![Evict(full)] = {}]
  /\ UNCHANGED <<frame, consumed, wait, eventVars>>

Ready == Required \subseteq buffer[frame]

\* pop_aligned_optional returns: this frame and the older ones leave the buffer.
Align ==
  /\ wait' = "flags"
  /\ buffer' = [f \in Frame |-> IF f <= frame THEN {} ELSE buffer[f]]
  /\ consumed' = frame
  /\ UNCHANGED <<frame, emitted, delivered, eventVars>>

\* The waiting thread wakes up with the required sensors there: it takes the
\* set when it is whole and otherwise starts the grace of the optional ones.
Wake ==
  /\ wait \in {"required", "grace"} /\ Ready
  /\ IF Optional \subseteq buffer[frame] THEN Align
     ELSE wait = "required" /\ wait' = "grace"
          /\ UNCHANGED <<frame, emitted, buffer, consumed, delivered, eventVars>>

GraceOver == wait = "grace" /\ Ready /\ Align

\* The deadline passes: what is there is looked at once more before giving up.
Timeout ==
  /\ wait \in {"required", "grace"} /\ ~Ready /\ wait' = "idle"
  /\ UNCHANGED <<frame, emitted, buffer, consumed, delivered, eventVars>>

\* A detector or a range fails on the aligned data: the frame ends without its events.
DataError ==
  /\ wait = "flags" /\ wait' = "idle"
  /\ UNCHANGED <<frame, emitted, buffer, consumed, delivered, eventVars>>

-----------------------------------------------------------------------------
\* A callback evaluates self._collision_frames before _record takes the lock.
Bind(a) ==
  /\ a \in arriving /\ a.set = "unread"
  /\ arriving' = (arriving \ {a}) \cup {[a EXCEPT !.set = "current"]}
  /\ UNCHANGED <<bufferVars, happened, ledger, told, orphaned, forgotten>>

\* Rebinding both attributes to new sets leaves those who read the old ones with them.
Rebound(callbacks) ==
  {IF a.set = "current" THEN [a EXCEPT !.set = "replaced"] ELSE a : a \in callbacks}

\* The newest retained frames, and the sets rebuilt from them.
Kept(sets) ==
  LET frames == {EventFrame(e) : e \in UNION {sets[k] : k \in EventKind}}
      recent == {f \in frames : Cardinality({g \in frames : g >= f}) <= RetainFrames} IN
  [k \in EventKind |-> {e \in sets[k] : EventFrame(e) \in recent}]
TooMany(sets) == Cardinality({EventFrame(e) : e \in UNION {sets[k] : k \in EventKind}}) > RetainFrames

\* _record under the lock: the set that was read gets the frame, whether or not it still counts.
Record(a) ==
  /\ a \in arriving /\ a.set # "unread"
  /\ LET added == IF a.set = "current" THEN [ledger EXCEPT ![a.event[1]] = @ \cup {a.event}] ELSE ledger IN
       /\ orphaned' = IF a.set = "current" THEN orphaned ELSE orphaned \cup {a.event}
       /\ ledger' = IF TooMany(added) THEN Kept(added) ELSE added
       /\ arriving' = IF TooMany(added) THEN Rebound(arriving \ {a}) ELSE arriving \ {a}
       /\ forgotten' = forgotten \cup UNION {added[j] \ ledger'[j] : j \in EventKind}
  /\ UNCHANGED <<bufferVars, happened, told>>

DueMutant(e) == EventFrame(e) = frame  \* only the events of the frame itself
Due(e) == EventFrame(e) <= frame

\* flags_for_frame at the end of acquire: every event up to the frame is told and dropped.
Flags ==
  /\ wait = "flags" /\ wait' = "idle"
  /\ told' = told \cup {e \in Recorded : Due(e)}
  /\ ledger' = [k \in EventKind |-> {e \in ledger[k] : ~(EventFrame(e) <= frame)}]
  /\ arriving' = Rebound(arriving)
  /\ UNCHANGED <<frame, emitted, buffer, consumed, delivered, happened, orphaned, forgotten>>

Callback == (\E s \in Sensor, f \in Frame : Push(s, f)) \/ (\E a \in arriving : Bind(a) \/ Record(a))
Acquire == Wake \/ GraceOver \/ Timeout \/ DataError \/ Flags
SensorNext == Tick \/ Callback \/ Acquire

-----------------------------------------------------------------------------
(* A frame is given up only if one of its required measurements never came  *)
(* in: no older callback may push a newer frame out of a full buffer, and a *)
(* set completed just before the deadline is still taken                    *)
(* (simulator.py:76-82, 128-157).                                           *)
GivenUpMeansMissing == [][Timeout => ~(Required \subseteq delivered)]_sensorVars

(* The buffer holds no frame that can never be asked for again, however     *)
(* late a callback delivers, and never more than its capacity (:72-82, 145).*)
BufferOnlyFuture ==
  /\ \A f \in Buffered : f > consumed
  /\ Cardinality(Buffered) <= MaxFrames

(* An event whose callback has returned is reported once: it waits in the   *)
(* ledger or has been told, whichever frame it meets and whatever stopped a *)
(* frame before it asked; only the ledger's bound and the race of           *)
(* EventsAreKept lose any (carla_perception.py:250-264).                    *)
EventsAreToldOnce ==
  /\ told \cap Recorded = {}
  /\ \A e \in happened \ (orphaned \cup forgotten) :
       e \in told \cup Recorded \/ \E a \in arriving : a.event = e

(* "An event for frame N that arrives after N was acquired is therefore     *)
(* surfaced on frame N+1 instead of being discarded forever"                *)
(* (carla_perception.py:253-256).                                           *)
EventsAreKept ==
  \A e \in happened \ forgotten :
    e \in told \cup Recorded \/ \E a \in arriving : a.event = e

(* What the sensors measured and what happened reaches the frame loop, at   *)
(* the frame it belongs to or the next, whatever the callbacks' order.      *)
SensorsReachTheLoop ==
  [](BufferOnlyFuture /\ EventsAreToldOnce) /\ GivenUpMeansMissing
=============================================================================
