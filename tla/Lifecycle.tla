------------------------------ MODULE Lifecycle ------------------------------
(***************************************************************************)
(* The life cycle of a canister (Lifecycle, RTS_Exports,                   *)
(* IncrementalGraphStabilization and Persistence of codegen/compile.ml,    *)
(* stabilization/ic.rs): which messages run in which state, while a        *)
(* controller takes the canister through an explicit stabilization, an     *)
(* upgrade and an explicit destabilization, each of which consists of as   *)
(* many calls of the canister to itself as the copy of its heap takes.     *)
(*                                                                         *)
(* An action is a message; one that traps changes nothing, and is an       *)
(* action only if its caller gets to know.  GraphCopy has the copy itself, *)
(* AsyncCalls the calls of the program.                                    *)
(***************************************************************************)
EXTENDS Integers, Sequences, SequencesExt

CONSTANTS Sequences,     \* the calls that a controller makes at a time
          CopyUnits,     \* how much there is to copy
          MaxCalls,      \* bounds on the continuations of the program,
          MaxChanges,    \* on the changes that the program makes to its state,
          MaxUpgrades    \* and on upgrades

VARIABLES lifecycle,         \* the state between two messages
          gc_stopped,        \* the phase of the collector is Stop
          actor,             \* the changes that are in the state of the program
          stabilization,     \* STABILIZATION_STATE
          stabilization_completed,
          destabilization,   \* DESTABILIZATION_STATE
          destabilized_actor,
          sequence,          \* where each call of a controller is
          outstanding,       \* calls of the program that are not answered
          entries,           \* continuations in the table
          changes, preupgrades, postupgrades, upgrades, disturbed   \* history

lifecycleVars == <<lifecycle, gc_stopped, actor, stabilization, stabilization_completed,
                   destabilization, destabilized_actor, sequence, outstanding, entries,
                   changes, preupgrades, postupgrades, upgrades, disturbed>>

collector == gc_stopped
copies == <<stabilization, stabilization_completed, destabilization, destabilized_actor>>
hooks == <<preupgrades, postupgrades, upgrades>>

NotStarted == [left |-> -1, actor |-> 0]
Started(a) == [left |-> CopyUnits, actor |-> a]

\* Which states may come before one.
pre_states(state) ==
  CASE state = "InUpdate" -> {"Idle"}
    [] state = "Idle" -> {"InInit", "InUpdate", "InPostUpgrade", "InDestabilization"}
    [] state = "InPreUpgrade" -> {"Idle", "InStabilization"}
    [] state = "PostPreUpgrade" -> {"InPreUpgrade"}
    [] state = "InInit" -> {"PreInit"}
    [] state = "InPostUpgrade" -> {"InInit", "InDestabilization"}
    [] state = "InStabilization" -> {"Idle", "InStabilization"}
    [] state = "InDestabilization" -> {"InInit"}

\* The transitions of one message, none of which may trap.
trans(from, path) ==
  LET states == <<from>> \o path
  IN  \A i \in 1 .. Len(path) : states[i] \in pre_states(states[i + 1])

Through(path) == trans(lifecycle, path) /\ lifecycle' = Last(path)
-----------------------------------------------------------------------------
(* The program *)

\* What the program does to its state: n changes, if it changes it at all.
Program(n) == changes + n <= MaxChanges /\ changes' = changes + n

Changed(n) == Program(n) /\ actor' = actor + n

\* mutant: the collector is not stopped by what it asserts
collect_garbage_always == TRUE

\* GC.collect_garbage at the end of a message; incremental_gc has an assertion.
collect_garbage == ~gc_stopped

\* It may make a call, whose continuations are in the table.
MayCall == \E n \in 0 .. 1 : /\ entries + n <= MaxCalls
                             /\ outstanding' = outstanding + n /\ entries' = entries + n

\* A shared function.
Update == /\ Through(<<"InUpdate", "Idle">>)
          /\ \E n \in 0 .. 1 : Changed(n)
          /\ MayCall /\ collect_garbage
          /\ UNCHANGED <<collector, copies, sequence, hooks, disturbed>>

\* Heartbeat, timer and low memory hook look at no state.
SystemMessage == /\ \E n \in 0 .. 1 : Changed(n)
                 /\ MayCall /\ collect_garbage
                 /\ UNCHANGED <<lifecycle, collector, copies, sequence, hooks, disturbed>>

\* The reply or reject callback of a call.
Callback == /\ outstanding > 0
            /\ Through(<<"InUpdate", "Idle">>)
            /\ \E n \in 0 .. 1 : Changed(n)
            /\ outstanding' = outstanding - 1 /\ entries' = entries - 1
            /\ collect_garbage
            /\ UNCHANGED <<collector, copies, sequence, hooks, disturbed>>

\* A callback traps, by itself or because it is blocked: the cleanup callback runs
\* next, in whatever state, with the program's finally clauses.  Objects that are
\* copied already are not copied again.
CleanupCallback ==
  /\ outstanding > 0
  /\ \E n \in 0 .. 1 : \E m \in 0 .. n :
       /\ Changed(n)
       /\ IF lifecycle = "InStabilization"
          THEN /\ stabilization.left = 0 => m = 0
               /\ stabilization' = [stabilization EXCEPT !.actor = @ + m]
               /\ disturbed' = TRUE
          ELSE m = 0 /\ UNCHANGED <<stabilization, disturbed>>
  /\ outstanding' = outstanding - 1 /\ entries' = entries - 1
  /\ UNCHANGED <<lifecycle, collector, stabilization_completed, destabilization,
                 destabilized_actor, sequence, hooks>>

\* The cleanup callback traps as well: its entry stays in the table.
CleanupTraps ==
  /\ outstanding > 0 /\ outstanding' = outstanding - 1
  /\ UNCHANGED <<lifecycle, collector, actor, copies, sequence, entries, changes, hooks, disturbed>>
-----------------------------------------------------------------------------
(* The explicit stabilization *)

At(s, point) == sequence[s] = point
Moves(s, point) == sequence' = [sequence EXCEPT ![s] = point]

\* get_actor_to_persist calls the preupgrade hook.
start_graph_stabilization ==
  IF stabilization # NotStarted
  THEN UNCHANGED <<gc_stopped, actor, changes, preupgrades, stabilization>>
  ELSE /\ gc_stopped' = TRUE
       /\ \E n \in 0 .. 1 : Changed(n)
       /\ preupgrades' = preupgrades + 1
       /\ stabilization' = Started(actor')

stabilize_before_upgrade(s) ==
  /\ At(s, "idle") /\ Moves(s, "stabilize")
  /\ Through(<<"InStabilization">>)
  /\ start_graph_stabilization
  /\ UNCHANGED <<stabilization_completed, destabilization, destabilized_actor, outstanding,
                 entries, postupgrades, upgrades, disturbed>>

\* What an increment leaves: it does some of the work, all if that is not too much.
Increments(state) == IF state.left = 0 THEN {state}
                     ELSE {[state EXCEPT !.left = k] : k \in 0 .. state.left - 1}

\* @motoko_async_stabilization, the call of the canister to itself.
async_stabilization(s) ==
  /\ At(s, "stabilize") /\ Moves(s, "stabilized")
  /\ Through(<<"InStabilization">>)
  /\ stabilization' \in Increments(stabilization)
  /\ stabilization_completed' = (stabilization'.left = 0)
  /\ UNCHANGED <<collector, actor, destabilization, destabilized_actor, outstanding, entries,
                 changes, hooks, disturbed>>

Unmoved == UNCHANGED <<lifecycle, collector, actor, copies, outstanding, entries, changes,
                       hooks, disturbed>>

\* mutant: it does not look whether the copy is complete
async_stabilization_reply_callback_always(s) ==
  At(s, "stabilized") /\ Moves(s, "stabilize") /\ Unmoved

\* The next call, or the reply to the controller.
async_stabilization_reply_callback(s) ==
  /\ At(s, "stabilized")
  /\ Moves(s, IF stabilization_completed THEN "idle" ELSE "stabilize")
  /\ Unmoved

\* A call that traps, in particular in a state that has no use for it, or that the
\* platform cannot deliver, is rejected.
Rejected(s) == \E point \in {"stabilize", "destabilize"} :
                 At(s, point) /\ Moves(s, "rejected") /\ Unmoved

\* msg_reject of the reject callbacks; a callback that traps, since it cannot send
\* the next call, or since it finds another function at its place in the table of a
\* later version, has the same effect.
reject_callback(s) == \E point \in {"stabilized", "destabilized", "rejected"} :
                        At(s, point) /\ Moves(s, "idle") /\ Unmoved
-----------------------------------------------------------------------------
(* The upgrade *)

\* Statics and globals of the new program.
Fresh == /\ stabilization' = NotStarted /\ stabilization_completed' = FALSE
         /\ entries' = 0 /\ outstanding' = 0

\* initialize_main_actor: the initializers, and the postupgrade hook.
initialize_main_actor(a) ==
  /\ \E n \in 0 .. 1 : Program(n) /\ actor' = a + n
  /\ postupgrades' = postupgrades + 1

\* canister_status, or no continuations.
Stopped == outstanding = 0 /\ \A s \in Sequences : At(s, "idle")

pre_upgrade == /\ upgrades < MaxUpgrades /\ upgrades' = upgrades + 1
               /\ trans(lifecycle, <<"InPreUpgrade", "PostPreUpgrade">>)
               /\ Stopped \/ entries = 0

\* Without an explicit stabilization the heap stays, and the preupgrade hook runs in
\* pre_upgrade.
UpgradeInPlace ==
  /\ pre_upgrade /\ stabilization = NotStarted
  /\ \E n \in 0 .. 2 : /\ Changed(n)
                       /\ preupgrades' = preupgrades + 1
                       /\ postupgrades' = postupgrades + 1
  /\ trans("PreInit", <<"InInit", "InPostUpgrade", "Idle">>) /\ lifecycle' = "Idle"
  /\ Fresh /\ destabilization' = NotStarted /\ destabilized_actor' = FALSE
  /\ UNCHANGED <<collector, sequence, disturbed>>

\* The new program has the whole graph: it starts, and so does the collector.
complete_graph_destabilization(a) ==
  /\ initialize_main_actor(a)
  /\ gc_stopped' = FALSE /\ destabilized_actor' = TRUE

\* pre_upgrade completes the copy.  The new program starts to read it back; if it
\* cannot do so within post_upgrade, all messages stay blocked but those that go on.
UpgradeByCopy ==
  /\ pre_upgrade /\ stabilization # NotStarted
  /\ destabilization' \in Increments(Started(stabilization.actor))
  /\ IF destabilization'.left = 0
     THEN /\ complete_graph_destabilization(stabilization.actor)
          /\ trans("PreInit", <<"InInit", "InPostUpgrade", "Idle">>) /\ lifecycle' = "Idle"
     ELSE /\ trans("PreInit", <<"InInit", "InDestabilization">>)
          /\ lifecycle' = "InDestabilization"
          /\ gc_stopped' = TRUE /\ destabilized_actor' = FALSE /\ actor' = 0
          /\ UNCHANGED <<changes, postupgrades>>
  /\ Fresh
  /\ UNCHANGED <<sequence, preupgrades, disturbed>>

\* __motoko_destabilize_after_upgrade looks at no state.
destabilize_after_upgrade(s) == At(s, "idle") /\ Moves(s, "destabilize") /\ Unmoved

\* @motoko_async_destabilization; nothing is left to do if the actor is there.
async_destabilization(s) ==
  /\ At(s, "destabilize") /\ Moves(s, "destabilized")
  /\ IF destabilized_actor
     THEN UNCHANGED <<lifecycle, collector, actor, destabilization, destabilized_actor, changes,
                      postupgrades>>
     ELSE /\ destabilization' \in Increments(destabilization)
          /\ IF destabilization'.left = 0
             THEN /\ complete_graph_destabilization(destabilization.actor)
                  /\ Through(<<"InPostUpgrade", "Idle">>)
             ELSE UNCHANGED <<lifecycle, collector, actor, destabilized_actor, changes, postupgrades>>
  /\ UNCHANGED <<stabilization, stabilization_completed, outstanding, entries, preupgrades,
                 upgrades, disturbed>>

async_destabilization_reply_callback(s) ==
  /\ At(s, "destabilized")
  /\ Moves(s, IF destabilized_actor THEN "idle" ELSE "destabilize")
  /\ Unmoved
-----------------------------------------------------------------------------
LifecycleInit ==
  /\ lifecycle = "Idle" /\ gc_stopped = FALSE /\ actor = 0
  /\ stabilization = NotStarted /\ stabilization_completed = FALSE
  /\ destabilization = NotStarted /\ destabilized_actor = FALSE
  /\ sequence = [s \in Sequences |-> "idle"]
  /\ outstanding = 0 /\ entries = 0
  /\ changes = 0 /\ preupgrades = 0 /\ postupgrades = 0 /\ upgrades = 0 /\ disturbed = FALSE

\* What the platform delivers to the calls of a controller.
Delivered(s) ==
  \/ async_stabilization(s) \/ async_stabilization_reply_callback(s)
  \/ async_destabilization(s) \/ async_destabilization_reply_callback(s)
  \/ Rejected(s) \/ reject_callback(s)

LifecycleNext ==
  \/ Update \/ SystemMessage \/ Callback \/ CleanupCallback \/ CleanupTraps
  \/ \E s \in Sequences : \/ stabilize_before_upgrade(s) \/ destabilize_after_upgrade(s)
                          \/ Delivered(s)
  \/ UpgradeInPlace \/ UpgradeByCopy

LifecycleSpec == LifecycleInit /\ [][LifecycleNext]_lifecycleVars

\* The platform delivers and answers all messages.
LifecycleFairSpec == LifecycleSpec /\ \A s \in Sequences : WF_lifecycleVars(Delivered(s))
-----------------------------------------------------------------------------
\* Whenever the program runs, it has the state that it left, through upgrades of
\* both kinds: what is copied does not change any more, since messages are blocked
\* or trap.  The exception is a cleanup callback during the stabilization.
NothingLost == lifecycle = "Idle" /\ ~disturbed => actor = changes

\* Each upgrade has run the hooks once, the one before the copy started and the
\* other one when the graph was complete, whatever calls of controllers were
\* repeated, rejected or late.
HooksInStep ==
  /\ preupgrades = upgrades + (IF lifecycle = "InStabilization" THEN 1 ELSE 0)
  /\ postupgrades = upgrades - (IF lifecycle = "InDestabilization" THEN 1 ELSE 0)

\* The collector runs when the heap is there, and only then.
CollectorInStep == gc_stopped <=> lifecycle # "Idle"

StateSurvives == NothingLost /\ HooksInStep /\ CollectorInStep

\* Every call of a controller is answered, also when another call, an upgrade or
\* an older version of the program interferes.
CallsAnswered == \A s \in Sequences : sequence[s] # "idle" ~> sequence[s] = "idle"

\* compile.ml: "All messages are blocked except this method and the upgrade."
MessagesAreBlocked ==
  [][lifecycle = "InStabilization" /\ lifecycle' = lifecycle => changes' = changes]_lifecycleVars
=============================================================================
