----------------------------- MODULE MCProgress -----------------------------
(* What must eventually happen, while the mutator or the platform goes on:   *)
(* the collection of arrays in slices, timers whose dispatch fails, the      *)
(* calls that a controller makes for an upgrade by graph copy, and a thread  *)
(* that awaits futures.  A behaviour is of the one that the initial state    *)
(* picks.                                                                    *)
EXTENDS MCIncrementalGC, Lifecycle

CONSTANTS MAX_GATHERED, FALLBACK, Delays, MaxTimers, MaxTime, SetUntil,
          MaxFailures, MaxHelpers, NULL,
          Threads, MaxFutures, Index, TRAP, NONE

VARIABLES part,
          now, timers, retries, lastTimerId, global_timer, sent, helpers,
          failures, ran, oneshot, cancelled, late,
          pc, created, owner, result, trapped, waiter, cleanup, getRefund, cycles,
          refund, table, outcome, calls, leaked, msg

T == INSTANCE Timers
AC == INSTANCE AsyncCalls

gcVars == <<vars, operations>>
timerVars == <<now, timers, retries, lastTimerId, global_timer, sent, helpers,
               failures, ran, oneshot, cancelled, late>>
callVars == <<pc, created, owner, result, trapped, waiter, cleanup, getRefund, cycles,
              refund, table, outcome, calls, leaked, msg>>
allVars == <<part, gcVars, timerVars, lifecycleVars, callVars>>

Collects(A) == part = "collector" /\ A /\ UNCHANGED <<part, timerVars, lifecycleVars, callVars>>
Serves(A) == part = "timers" /\ A /\ UNCHANGED <<part, gcVars, lifecycleVars, callVars>>
Lives(A) == part = "lifecycle" /\ A /\ UNCHANGED <<part, gcVars, timerVars, callVars>>
Awaits(A) == part = "calls" /\ A /\ UNCHANGED <<part, gcVars, timerVars, lifecycleVars>>

PartInit == part \in {"collector", "timers", "lifecycle", "calls"}
            /\ MCInit /\ T!Init /\ LifecycleInit /\ AC!AsyncInit

\* The fairness of the modules.
PartFairSpec ==
  /\ PartInit
  /\ [][Collects(MCNext) \/ Serves(T!Next) \/ Lives(LifecycleNext) \/ Awaits(AC!AsyncNext)]_allVars
  /\ WF_allVars(Collects(EndMessage /\ UNCHANGED operations))
  /\ SF_allVars(Collects(Increment /\ UNCHANGED operations))
  /\ WF_allVars(Serves(T!Execute))
  /\ WF_allVars(Serves(T!Tick))
  /\ \A s \in Sequences : WF_allVars(Lives(Delivered(s)))
  /\ WF_allVars(Awaits(AC!Answers))
  /\ \A t \in Threads :
       SF_allVars(Awaits(\E response \in {"reply", "reject"} : AC!Finish(t, response)))
-----------------------------------------------------------------------------
\* Every one-shot timer that is not cancelled runs (internals.mo timer_helper).
OneShotRuns == T!OneShotRuns

\* A suspended thread comes to an end (async.ml, internals.mo @new_async).
ThreadsEnd == AC!ThreadsEnd
=============================================================================
