------------------------------ MODULE Watchdog ------------------------------
(* RuntimeWatchdog (car_control_A/watchdog.py) as the frame loop drives it:  *)
(* paused while the simulator ticks, resumed and checked before the frame,   *)
(* told of each module during the frame and at its end.  The wall clock may  *)
(* advance between any two calls.                                            *)
EXTENDS Integers, FiniteSets

CONSTANTS Module,       \* the required modules: perception and control
          StaleAfter,   \* timeout_s
          StartupGrace, \* startup_grace_s
          Horizon       \* bound of the wall clock

ASSUME WatchdogAssumption ==
  /\ IsFiniteSet(Module) /\ "perception" \in Module
  /\ StaleAfter \in Nat \ {0} /\ StartupGrace \in Nat /\ Horizon \in Nat

NoBeat == -1

VARIABLES clock,    \* time.monotonic()
          beats,    \* _heartbeats, NoBeat where there is none
          startup,  \* _startup_deadline_s
          paused,   \* _paused_at_s, NoBeat when active
          stage,    \* where the frame is
          alert,    \* runtime_watchdog_timed_out of the last check
          exposed,  \* active time since each module's last beat, or since the start
          idle      \* active time since the last frame ended, or since the start
watchVars == <<clock, beats, startup, paused, stage, alert, exposed, idle>>

WatchTypeOK ==
  /\ clock \in 0..Horizon /\ beats \in [Module -> Int] /\ startup \in Nat
  /\ paused \in 0..Horizon \cup {NoBeat}
  /\ stage \in {"created", "tick", "resumed", "sense", "work", "done"}
  /\ alert \in BOOLEAN /\ exposed \in [Module -> Nat] /\ idle \in Nat

WatchInit ==
  /\ clock = 0 /\ beats = [m \in Module |-> NoBeat]
  /\ startup = StartupGrace + StaleAfter
  /\ paused = NoBeat /\ stage = "created" /\ alert = FALSE
  /\ exposed = [m \in Module |-> 0] /\ idle = 0

\* Time passes; it counts against the modules only while the watchdog is active.
Elapse ==
  /\ clock < Horizon /\ clock' = clock + 1
  /\ exposed' = IF paused = NoBeat THEN [m \in Module |-> exposed[m] + 1] ELSE exposed
  /\ idle' = IF paused = NoBeat THEN idle + 1 ELSE idle
  /\ UNCHANGED <<beats, startup, paused, stage, alert>>

Heartbeat(modules) ==
  /\ paused = NoBeat
  /\ beats' = [m \in Module |-> IF m \in modules THEN clock ELSE beats[m]]
  /\ exposed' = [m \in Module |-> IF m \in modules THEN 0 ELSE exposed[m]]
  /\ UNCHANGED <<clock, startup, paused>>

Pause ==
  /\ stage \in {"created", "done"} /\ stage' = "tick"
  /\ paused = NoBeat /\ paused' = clock
  /\ UNCHANGED <<clock, beats, startup, alert, exposed, idle>>

\* The time away is given back to every beat and to the startup deadline.
ShiftedMutant(away) == beats
Shifted(away) == [m \in Module |-> IF beats[m] = NoBeat THEN NoBeat ELSE beats[m] + away]
Deadline(away) == startup + away

Resume ==
  /\ stage = "tick" /\ stage' = "resumed"
  /\ paused # NoBeat /\ paused' = NoBeat
  /\ startup' = Deadline(clock - paused) /\ beats' = Shifted(clock - paused)
  /\ UNCHANGED <<clock, alert, exposed, idle>>

Starved == clock >= startup /\ \E m \in Module : beats[m] = NoBeat
Stale == \E m \in Module : beats[m] # NoBeat /\ clock - beats[m] > StaleAfter

Check ==
  /\ stage = "resumed" /\ stage' = "sense"
  /\ paused = NoBeat /\ alert' = (Starved \/ Stale)
  /\ UNCHANGED <<clock, beats, startup, paused, exposed, idle>>

\* Perception acquires the frame, or it does not and does not beat.
Sense ==
  /\ stage = "sense" /\ stage' = "work"
  /\ Heartbeat({"perception"}) \/ UNCHANGED <<clock, beats, startup, paused, exposed>>
  /\ UNCHANGED <<alert, idle>>

\* The end of the frame beats for every module, whatever became of it.
FrameDone ==
  /\ stage = "work" /\ stage' = "done"
  /\ Heartbeat(Module) /\ idle' = 0 /\ UNCHANGED alert

WatchNext == Elapse \/ Pause \/ Resume \/ Check \/ Sense \/ FrameDone

-----------------------------------------------------------------------------
(* At a check the age of a beat is the time the watchdog was active since:  *)
(* neither a long tick nor several of them can make a healthy module look   *)
(* stalled, nor can a pause hide time a module really spent (resume()).     *)
BeatAgeIsActiveTime ==
  paused = NoBeat => \A m \in Module : beats[m] # NoBeat => clock - beats[m] = exposed[m]

(* A module that never reported is starved exactly when the startup time    *)
(* has been spent with the watchdog active, not while the world was frozen. *)
StarvedAfterActiveStartup ==
  paused = NoBeat =>
    \A m \in Module : beats[m] = NoBeat =>
      (clock >= startup <=> exposed[m] >= StartupGrace + StaleAfter)

(* Once a frame has ended, a check reports only time lost between its end   *)
(* and the check: work inside a frame, however long, cannot latch the brake *)
(* (carla_runner.py:4267-4270, 6415-6422).                                  *)
SlowWorkIsNoOutage ==
  [][Check /\ alert' =>
       IF \E m \in Module : beats[m] = NoBeat THEN idle >= StartupGrace + StaleAfter
                                              ELSE idle > StaleAfter]_watchVars

(* The alert means what it says: lost time of the controlled system, never  *)
(* the simulator's, the renderer's or a stage's that was only slow.         *)
AlertIsLostTime ==
  [](BeatAgeIsActiveTime /\ StarvedAfterActiveStartup) /\ SlowWorkIsNoOutage
=============================================================================
