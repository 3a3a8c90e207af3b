----------------------------- MODULE MCCollector -----------------------------
(* The collector with the program, and the calls and the timers of the      *)
(* program: a behaviour is of the one that the initial state picks.         *)
EXTENDS MCHeapRefinement, AsyncCalls

CONSTANTS MAX_GATHERED, FALLBACK, Delays, MaxTimers, MaxTime, SetUntil,
          MaxFailures, MaxHelpers, NULL

VARIABLES view,
          instance, now, timers, retries, lastTimerId, global_timer, sent, helpers,
          failures, ran, oneshot, cancelled, late

TI == INSTANCE MCTimerInstances

ASSUME ConstantsOfCalls == AsyncConstants
ASSUME ConstantsOfTimers == TI!TimerConstants

collector == <<vars, operations, graph, garbage>>
timerVars == <<instance, now, timers, retries, lastTimerId, global_timer, sent, helpers,
               failures, ran, oneshot, cancelled, late>>

CollectorInit ==
  /\ view \in {"pointers", "calls", "timers"}
  /\ RefinementInit /\ AsyncInit /\ TI!MCInit
  /\ view # "timers" => instance = "trees"

CollectorNext ==
  /\ UNCHANGED view
  /\ \/ view = "pointers" /\ RefinementNext /\ UNCHANGED <<asyncVars, timerVars>>
     \/ view = "calls" /\ AsyncNext /\ UNCHANGED <<collector, timerVars>>
     \/ view = "timers" /\ TI!MCNext /\ UNCHANGED <<collector, asyncVars>>

CollectorSpec == CollectorInit /\ [][CollectorNext]_<<view, collector, asyncVars, timerVars>>
-----------------------------------------------------------------------------
\* The timers of MCTimerInstances (internals.mo): none is lost or doubled, and their tree
\* stays sorted, which the search relies on.
NoTimerLost == view = "timers" => TI!NoTimerLost /\ TI!NodeInvariant

\* A cancelled timer does not run.
CancelIsFinal == view = "timers" => TI!CancelIsFinal

\* The global timer is set for the next timer or retry.
Armed == view = "timers" => TI!Armed
=============================================================================
