-------------------------- MODULE MCTimerInstances --------------------------
(* Three instances beside each other: two timers with overlapping helpers   *)
(* and a failure, one timer with repeated failures, and the trees of up to  *)
(* four timers.  The constants of the cfg are the bounds of all.            *)
EXTENDS Timers

VARIABLE instance

Few == INSTANCE Timers WITH Delays <- {0, 1}, MaxTimers <- 2, MaxFailures <- 1
Failing == INSTANCE Timers WITH Delays <- {0, 1}, MaxTimers <- 1
Trees == INSTANCE Timers WITH Delays <- {1, 2}, MaxTime <- 2, SetUntil <- 1,
                              MaxFailures <- 0, MaxHelpers <- 1

MCInit == instance \in {"few", "failing", "trees"} /\ Init

MCNext == /\ UNCHANGED instance
          /\ \/ instance = "few" /\ Few!Next
             \/ instance = "failing" /\ Failing!Next
             \/ instance = "trees" /\ Trees!Next

MCSpec == MCInit /\ [][MCNext]_<<instance, vars>>
=============================================================================
