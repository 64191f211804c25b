-------------------------- MODULE SimulatorSession --------------------------
(* CarlaSession, SynchronousWorld and ActorRegistry (simulator.py), and the *)
(* two ways carla_perception.py attaches a sensor: what the process leaves  *)
(* behind in a simulator that others use, whichever call fails.  A call     *)
(* into the simulator either works or raises.                               *)
EXTENDS Integers, Sequences, FiniteSets, SequencesExt

CONSTANTS Ego, Streamed, Event \* the ego actor, continuous and event sensors

ASSUME SessionAssumption == Ego \notin Streamed \cup Event /\ Streamed \cap Event = {}

Actor == {Ego} \cup Streamed \cup Event

VARIABLES hasManager, \* a traffic manager was given
          world,      \* the settings in force: "previous" or "synchronous"
          manager,    \* the traffic manager's mode, likewise
          session,    \* "new", "active", "unwinding", "over"
          registry,   \* _actors, in the order they were tracked
          spawned,    \* actors the simulator has created
          destroyed,  \* how often each has been destroyed
          sticks,     \* actors whose destroy() raises
          parentless, \* sensors destroyed after the vehicle they hang on
          kept        \* restoring calls that raised
sessionVars == <<hasManager, world, manager, session, registry, spawned, destroyed,
                 sticks, parentless, kept>>

SessionTypeOK ==
  /\ {world, manager} \subseteq {"previous", "synchronous"}
  /\ hasManager \in BOOLEAN
  /\ session \in {"new", "active", "unwinding", "over"}
  /\ ToSet(registry) \subseteq spawned /\ spawned \cup sticks \cup parentless \subseteq Actor
  /\ destroyed \in [Actor -> Nat] /\ kept \subseteq {"manager", "world"}

SessionInit ==
  /\ hasManager \in BOOLEAN /\ world = "previous" /\ manager = "previous"
  /\ session = "new" /\ registry = <<>> /\ spawned = {}
  /\ destroyed = [a \in Actor |-> 0] /\ sticks \in SUBSET Actor /\ parentless = {}
  /\ kept = {}

\* __enter__: the world first, then the traffic manager, whose failure (perhaps
\* after it took effect) puts both back and re-raises.
Enter ==
  /\ session = "new"
  /\ \/ /\ session' = "active" /\ world' = "synchronous"
        /\ manager' = IF hasManager THEN "synchronous" ELSE manager
        /\ UNCHANGED kept
     \/ session' = "over" /\ UNCHANGED <<world, manager, kept>>  \* apply_settings raises
     \/ /\ hasManager /\ session' = "over"
        /\ kept' \in SUBSET {"manager", "world"}
        /\ manager' = IF "manager" \in kept' THEN "synchronous" ELSE "previous"
        /\ world' = IF "world" \in kept' THEN "synchronous" ELSE "previous"
  /\ UNCHANGED <<hasManager, registry, spawned, destroyed, sticks, parentless>>

\* The body raises, and with it the rest of the body is skipped.
BodyRaises == session' = "unwinding"

\* Destroying actors one after another, best effort.
Disposing(sequence) ==
  /\ destroyed' = [a \in Actor |-> IF a \in sticks THEN destroyed[a]
                     ELSE destroyed[a] + Cardinality({i \in DOMAIN sequence : sequence[i] = a})]
  /\ parentless' = parentless \cup
       {s \in ToSet(sequence) \ {Ego} : \/ destroyed[Ego] > 0
                                        \/ \E i, j \in DOMAIN sequence :
                                             sequence[i] = Ego /\ sequence[j] = s /\ i < j}

NothingDisposed == UNCHANGED <<destroyed, parentless>>

SpawnEgo ==
  /\ session = "active" /\ Ego \notin spawned
  /\ \/ spawned' = spawned \cup {Ego} /\ registry' = Append(registry, Ego)
        /\ UNCHANGED session
     \/ BodyRaises /\ UNCHANGED <<spawned, registry>>
  /\ NothingDisposed /\ UNCHANGED <<hasManager, world, manager, sticks, kept>>

\* attach_sensor: spawn, listen, and only then track; a sensor that cannot listen is disposed of.
Attach(s) ==
  /\ session = "active" /\ Ego \in spawned /\ s \notin spawned
  /\ \/ spawned' = spawned \cup {s} /\ registry' = Append(registry, s)
        /\ NothingDisposed /\ UNCHANGED session
     \/ BodyRaises /\ NothingDisposed /\ UNCHANGED <<spawned, registry>>
     \/ spawned' = spawned \cup {s} /\ Disposing(<<s>>) /\ BodyRaises /\ UNCHANGED registry
  /\ UNCHANGED <<hasManager, world, manager, sticks, kept>>

\* attach_default_sensors, event sensors: spawn, track, and then listen.
AttachEvent(s) ==
  /\ session = "active" /\ Ego \in spawned /\ s \notin spawned
  /\ \/ spawned' = spawned \cup {s} /\ registry' = Append(registry, s)
        /\ (UNCHANGED session \/ BodyRaises)
     \/ BodyRaises /\ UNCHANGED <<spawned, registry>>
  /\ NothingDisposed /\ UNCHANGED <<hasManager, world, manager, sticks, kept>>

\* release(): an owned actor is forgotten and disposed of before the session ends.
Release(a) ==
  /\ session = "active"
  /\ \E i \in DOMAIN registry : registry[i] = a /\ registry' = RemoveAt(registry, i)
  /\ Disposing(<<a>>)
  /\ UNCHANGED <<hasManager, world, manager, session, spawned, sticks, kept>>

\* The frames are over, or one of them raises.
Leave ==
  /\ session = "active" /\ session' = "unwinding"
  /\ UNCHANGED <<hasManager, world, manager, registry, spawned, destroyed, sticks, parentless, kept>>

CleanupOrderMutant == registry
CleanupOrder == Reverse(registry)
\* The settings are restored whatever became of the traffic manager.
WorldKept == "world" \in kept'
Exit ==
  /\ session = "unwinding" /\ session' = "over"
  /\ Disposing(CleanupOrder) /\ registry' = <<>>
  /\ kept' \in SUBSET {x \in {"manager", "world"} : x = "manager" => hasManager}
  /\ manager' = IF hasManager /\ "manager" \notin kept' THEN "previous" ELSE manager
  /\ world' = IF WorldKept THEN world ELSE "previous"
  /\ UNCHANGED <<hasManager, spawned, sticks>>

SessionNext ==
  \/ Enter \/ SpawnEgo \/ Leave \/ Exit
  \/ \E s \in Streamed : Attach(s)
  \/ \E s \in Event : AttachEvent(s)
  \/ \E a \in Streamed \cup Event : Release(a)

-----------------------------------------------------------------------------
(* No actor outlives the session unless destroying it failed, however the   *)
(* set-up broke off: there is no moment at which a spawned actor belongs to *)
(* nobody (simulator.py:323-340, 342-347, carla_perception.py:337-357).     *)
NoActorLeaks ==
  session = "over" => \A a \in spawned \ sticks : destroyed[a] > 0

(* An actor released early is not destroyed again at the end, and sensors   *)
(* go before the vehicle they hang on (simulator.py:172-191).               *)
DisposedInOrder ==
  /\ \A a \in Actor : destroyed[a] <= 1
  /\ parentless = {}

(* The shared simulator is asynchronous again afterwards: one restoring     *)
(* call that fails does not keep the others from being made (:246-286).     *)
WorldRestored ==
  session = "over" =>
    /\ world = "synchronous" => "world" \in kept
    /\ manager = "synchronous" => "manager" \in kept

(* A session leaves the simulator as it found it, wherever it broke off.    *)
NothingLeftBehind == NoActorLeaks /\ DisposedInOrder /\ WorldRestored
=============================================================================
