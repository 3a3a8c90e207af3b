--------------------------- MODULE LifecycleProofs ---------------------------
(***************************************************************************)
(* The state of the program survives all upgrades: for all numbers of      *)
(* changes, continuations, upgrades and calls of controllers, and however  *)
(* much there is to copy.                                                  *)
(***************************************************************************)
EXTENDS Lifecycle, TLAPS

IsCopy(state) == state \in [left : Int, actor : Int]

TypesOK ==
    /\ actor \in Int /\ changes \in Int /\ outstanding \in Int
    /\ gc_stopped \in BOOLEAN /\ destabilized_actor \in BOOLEAN /\ disturbed \in BOOLEAN
    /\ IsCopy(stabilization) /\ IsCopy(destabilization)
    /\ preupgrades \in Int /\ postupgrades \in Int /\ upgrades \in Int

\* Where the state of the program is: in the heap, in a heap that is copied and
\* does not change any more, or in the copy that is read back.
IdleOK ==
    /\ ~gc_stopped
    /\ stabilization = NotStarted
    /\ destabilized_actor \/ destabilization = NotStarted
    /\ ~disturbed => actor = changes
StabilizationOK ==
    /\ gc_stopped
    /\ stabilization.left \in Nat
    /\ destabilized_actor \/ destabilization = NotStarted
    /\ ~disturbed => stabilization.actor = changes
DestabilizationOK ==
    /\ gc_stopped
    /\ stabilization = NotStarted
    /\ ~destabilized_actor
    /\ outstanding = 0
    /\ ~disturbed => destabilization.actor = changes

IInv ==
    /\ TypesOK
    /\ HooksInStep
    /\ \/ lifecycle = "Idle" /\ IdleOK
       \/ lifecycle = "InStabilization" /\ StabilizationOK
       \/ lifecycle = "InDestabilization" /\ DestabilizationOK
-----------------------------------------------------------------------------
\* The checks of the transitions that a message makes.
LEMMA OneTransition ==
    ASSUME NEW from, NEW a, trans(from, <<a>>)
    PROVE  from \in pre_states(a)
  BY DEF trans

\* The same for a path of two transitions.
LEMMA TwoTransitions ==
    ASSUME NEW from, NEW a, NEW b, trans(from, <<a, b>>)
    PROVE  from \in pre_states(a)
  BY DEF trans

\* A message that goes through a path ends where it does.
LEMMA ThroughOne ==
    ASSUME NEW a, Through(<<a>>)
    PROVE  lifecycle \in pre_states(a) /\ lifecycle' = a
  BY OneTransition DEF Through, Last

\* The same for a path of two transitions.
LEMMA ThroughTwo ==
    ASSUME NEW a, NEW b, Through(<<a, b>>)
    PROVE  lifecycle \in pre_states(a) /\ lifecycle' = b
  BY TwoTransitions DEF Through, Last

\* An increment of a copy that has started copies no more and no less.
LEMMA IncrementKeeps ==
    ASSUME NEW state, IsCopy(state), NEW next \in Increments(state)
    PROVE  /\ IsCopy(next) /\ next.actor = state.actor
           /\ next.left \in Nat /\ state # NotStarted
<1>1. CASE state.left = 0
  BY <1>1 DEF Increments, IsCopy, NotStarted
<1>2. CASE state.left # 0
  <2>1. PICK k \in 0 .. state.left - 1 : next = [state EXCEPT !.left = k]
    BY <1>2 DEF Increments
  <2>2. state.left \in Int /\ k \in Nat /\ state.left > 0
    BY <2>1 DEF IsCopy
  <2> QED BY <2>1, <2>2 DEF IsCopy, NotStarted
<1> QED BY <1>1, <1>2
-----------------------------------------------------------------------------
\* A canister is installed.
LEMMA InitOK ==
    ASSUME LifecycleInit
    PROVE  IInv
<1>1. IsCopy(NotStarted)
  BY DEF IsCopy, NotStarted
<1>2. TypesOK
  <2>1. gc_stopped \in BOOLEAN /\ destabilized_actor \in BOOLEAN /\ disturbed \in BOOLEAN
    BY Zenon DEF LifecycleInit
  <2>2. IsCopy(stabilization) /\ IsCopy(destabilization)
    BY <1>1, Zenon DEF LifecycleInit
  <2>3. /\ actor \in Int /\ changes \in Int /\ outstanding \in Int
        /\ preupgrades \in Int /\ postupgrades \in Int /\ upgrades \in Int
    BY DEF LifecycleInit
  <2> QED BY <2>1, <2>2, <2>3 DEF TypesOK
<1>3. HooksInStep /\ IdleOK /\ lifecycle = "Idle"
  BY DEF LifecycleInit, HooksInStep, IdleOK
<1> QED BY <1>2, <1>3 DEF IInv

\* The program changes its state, and the history of its changes with it.
LEMMA ChangedTypes ==
    ASSUME TypesOK, NEW n \in 0 .. 2, Changed(n)
    PROVE  actor' \in Int /\ changes' \in Int /\ (actor' = changes' <=> actor = changes)
  BY DEF TypesOK, Changed, Program

\* The messages of the program run in a state in which the heap is there.
LEMMA UpdatePreserves ==
    ASSUME IInv, Update \/ SystemMessage \/ Callback
    PROVE  IInv'
<1>1. /\ \E n \in 0 .. 1 : Changed(n)
      /\ UNCHANGED <<collector, copies, sequence, hooks, disturbed>> /\ ~gc_stopped
  BY DEF Update, SystemMessage, Callback, collect_garbage
<1>2. lifecycle = "Idle" /\ IdleOK
  BY <1>1 DEF IInv, IdleOK, StabilizationOK, DestabilizationOK
<1>3. lifecycle' = "Idle"
  BY <1>2, ThroughTwo DEF Update, SystemMessage, Callback
<1>4. outstanding' \in Int
  BY DEF Update, SystemMessage, Callback, MayCall, IInv, TypesOK
<1>5. actor' \in Int /\ changes' \in Int /\ (actor' = changes' <=> actor = changes)
  BY <1>1, ChangedTypes DEF IInv
<1>6. TypesOK'
  BY <1>1, <1>4, <1>5 DEF IInv, TypesOK, collector, copies, hooks
<1>7. IdleOK' /\ HooksInStep'
  BY <1>1, <1>2, <1>3, <1>5 DEF IInv, IdleOK, HooksInStep, collector, copies, hooks
<1> QED BY <1>3, <1>6, <1>7 DEF IInv

\* A cleanup callback runs in any state.
LEMMA CleanupCallbackPreserves ==
    ASSUME IInv, CleanupCallback
    PROVE  IInv'
<1>1. /\ outstanding > 0 /\ outstanding' = outstanding - 1
      /\ UNCHANGED <<lifecycle, collector, stabilization_completed, destabilization,
                     destabilized_actor, sequence, hooks>>
  BY DEF CleanupCallback
<1>2. PICK n \in 0 .. 1, m \in 0 .. 1 :
        /\ Changed(n)
        /\ IF lifecycle = "InStabilization"
           THEN /\ stabilization' = [stabilization EXCEPT !.actor = @ + m]
                /\ disturbed' = TRUE
                /\ stabilization.left = 0 => m = 0
           ELSE UNCHANGED <<stabilization, disturbed>>
  BY DEF CleanupCallback
<1>3. actor' \in Int /\ changes' \in Int /\ (actor' = changes' <=> actor = changes)
  BY <1>2, ChangedTypes DEF IInv
<1>4. lifecycle # "InDestabilization"
  BY <1>1 DEF IInv, DestabilizationOK
<1>5. /\ IsCopy(stabilization') /\ disturbed' \in BOOLEAN
      /\ stabilization'.left = stabilization.left
      /\ lifecycle # "InStabilization" => stabilization' = stabilization
  <2>1. stabilization \in [left : Int, actor : Int] /\ disturbed \in BOOLEAN
    BY DEF IInv, TypesOK, IsCopy
  <2>2. CASE lifecycle = "InStabilization"
    BY <1>2, <2>1, <2>2 DEF IsCopy
  <2>3. CASE lifecycle # "InStabilization"
    BY <1>2, <2>1, <2>3 DEF IsCopy
  <2> QED BY <2>2, <2>3
<1>6. TypesOK'
  BY <1>1, <1>3, <1>5 DEF IInv, TypesOK, collector, hooks
<1>7. HooksInStep'
  BY <1>1 DEF IInv, HooksInStep, hooks
<1>8. CASE lifecycle = "Idle"
  BY <1>1, <1>2, <1>3, <1>6, <1>7, <1>8 DEF IInv, IdleOK, collector
<1>9. CASE lifecycle = "InStabilization"
  BY <1>1, <1>2, <1>5, <1>6, <1>7, <1>9 DEF IInv, StabilizationOK, collector
<1> QED BY <1>4, <1>8, <1>9 DEF IInv

\* The stabilization starts from the state of the program, and goes on with it.
LEMMA StabilizationPreserves ==
    ASSUME CopyUnits \in Nat, IInv, NEW s \in Sequences,
           stabilize_before_upgrade(s) \/ async_stabilization(s)
    PROVE  IInv'
<1>1. lifecycle \in {"Idle", "InStabilization"} /\ lifecycle' = "InStabilization"
  BY ThroughOne DEF stabilize_before_upgrade, async_stabilization, pre_states
<1>2. UNCHANGED <<destabilization, destabilized_actor, outstanding, postupgrades, upgrades, disturbed>>
  BY DEF stabilize_before_upgrade, async_stabilization, hooks
<1>3. CASE stabilize_before_upgrade(s)
  <2>1. CASE stabilization # NotStarted
    <3>1. UNCHANGED <<gc_stopped, actor, changes, preupgrades, stabilization>>
      BY <1>3, <2>1 DEF stabilize_before_upgrade, start_graph_stabilization
    <3>2. lifecycle = "InStabilization"
      BY <1>1, <2>1 DEF IInv, IdleOK
    <3> QED BY <1>1, <1>2, <3>1, <3>2 DEF IInv, TypesOK, HooksInStep, StabilizationOK
  <2>2. CASE stabilization = NotStarted
    <3>1. /\ gc_stopped' = TRUE /\ preupgrades' = preupgrades + 1
          /\ \E n \in 0 .. 1 : Changed(n)
          /\ stabilization' = Started(actor')
      BY <1>3, <2>2 DEF stabilize_before_upgrade, start_graph_stabilization
    <3>2. lifecycle = "Idle" /\ IdleOK
      BY <1>1, <2>2 DEF IInv, StabilizationOK, NotStarted
    <3>3. actor' \in Int /\ changes' \in Int /\ (actor' = changes' <=> actor = changes)
      BY <3>1, ChangedTypes DEF IInv
    <3>4. IsCopy(stabilization') /\ stabilization'.left \in Nat /\ stabilization'.actor = actor'
      BY <3>1, <3>3 DEF Started, IsCopy
    <3>5. TypesOK'
      BY <1>2, <3>1, <3>3, <3>4 DEF IInv, TypesOK
    <3>6. HooksInStep'
      BY <1>1, <1>2, <3>1, <3>2 DEF IInv, TypesOK, HooksInStep
    <3>7. StabilizationOK'
      BY <1>2, <3>1, <3>2, <3>3, <3>4 DEF IdleOK, StabilizationOK
    <3> QED BY <1>1, <3>5, <3>6, <3>7 DEF IInv
  <2> QED BY <2>1, <2>2
<1>4. CASE async_stabilization(s)
  <2>1. /\ stabilization' \in Increments(stabilization)
        /\ UNCHANGED <<collector, actor, changes, hooks>>
    BY <1>4 DEF async_stabilization
  <2>2. /\ IsCopy(stabilization') /\ stabilization'.actor = stabilization.actor
        /\ stabilization'.left \in Nat /\ stabilization # NotStarted
    BY <2>1, IncrementKeeps DEF IInv, TypesOK
  <2>3. lifecycle = "InStabilization"
    BY <1>1, <2>2 DEF IInv, IdleOK
  <2>4. TypesOK'
    BY <1>2, <2>1, <2>2 DEF IInv, TypesOK, collector, hooks
  <2>5. HooksInStep'
    BY <1>1, <1>2, <2>1, <2>3 DEF IInv, HooksInStep, hooks
  <2>6. StabilizationOK'
    BY <1>2, <2>1, <2>2, <2>3 DEF IInv, StabilizationOK, collector
  <2> QED BY <1>1, <2>4, <2>5, <2>6 DEF IInv
<1> QED BY <1>3, <1>4
\* An upgrade runs between the messages.
LEMMA UpgradeInPlacePreserves ==
    ASSUME IInv, UpgradeInPlace
    PROVE  IInv'
<1>1. /\ stabilization = NotStarted /\ upgrades' = upgrades + 1
      /\ preupgrades' = preupgrades + 1 /\ postupgrades' = postupgrades + 1
      /\ lifecycle' = "Idle" /\ destabilization' = NotStarted /\ destabilized_actor' = FALSE
      /\ stabilization' = NotStarted /\ outstanding' = 0
      /\ gc_stopped' = gc_stopped /\ disturbed' = disturbed
      /\ \E n \in 0 .. 2 : Changed(n)
  BY DEF UpgradeInPlace, pre_upgrade, Fresh, collector
<1>2. lifecycle = "Idle"
  <2>1. lifecycle \in {"Idle", "InStabilization"}
    BY TwoTransitions DEF UpgradeInPlace, pre_upgrade, pre_states
  <2> QED BY <1>1, <2>1 DEF IInv, StabilizationOK, NotStarted
<1>3. actor' \in Int /\ changes' \in Int /\ (actor' = changes' <=> actor = changes)
  BY <1>1, ChangedTypes DEF IInv
<1>4. IsCopy(NotStarted)
  BY DEF IsCopy, NotStarted
<1>5. TypesOK'
  <2>1. IsCopy(stabilization') /\ IsCopy(destabilization')
    BY <1>1, <1>4
  <2>2. gc_stopped' \in BOOLEAN /\ destabilized_actor' \in BOOLEAN /\ disturbed' \in BOOLEAN
    BY <1>1, Zenon DEF IInv, TypesOK
  <2> QED BY <1>1, <1>3, <2>1, <2>2 DEF IInv, TypesOK
<1>6. HooksInStep'
  BY <1>1, <1>2 DEF IInv, TypesOK, HooksInStep
<1>7. IdleOK'
  BY <1>1, <1>2, <1>3 DEF IInv, IdleOK
<1> QED BY <1>1, <1>5, <1>6, <1>7 DEF IInv

\* The graph is complete: the new program starts from the state that was copied.
LEMMA CompletePreserves ==
    ASSUME TypesOK, NEW a \in Int, complete_graph_destabilization(a)
    PROVE  /\ actor' \in Int /\ changes' \in Int /\ (actor' = changes' <=> a = changes)
           /\ gc_stopped' = FALSE /\ destabilized_actor' = TRUE
           /\ postupgrades' = postupgrades + 1
  BY DEF complete_graph_destabilization, initialize_main_actor, Program, TypesOK

\* An upgrade by graph copy, started by one message and continued by later ones.
LEMMA UpgradeByCopyPreserves ==
    ASSUME CopyUnits \in Nat, IInv, UpgradeByCopy
    PROVE  IInv'
<1> DEFINE a == stabilization.actor
<1>1. /\ stabilization # NotStarted /\ upgrades' = upgrades + 1
      /\ stabilization' = NotStarted /\ outstanding' = 0
      /\ destabilization' \in Increments(Started(a))
      /\ UNCHANGED <<sequence, preupgrades, disturbed>>
  BY DEF UpgradeByCopy, pre_upgrade, Fresh
<1>2. lifecycle = "InStabilization" /\ StabilizationOK
  <2>1. lifecycle \in {"Idle", "InStabilization"}
    BY TwoTransitions DEF UpgradeByCopy, pre_upgrade, pre_states
  <2> QED BY <1>1, <2>1 DEF IInv, IdleOK
<1>3. a \in Int
  BY DEF IInv, TypesOK, IsCopy
<1>4. IsCopy(destabilization') /\ destabilization'.actor = a /\ IsCopy(stabilization')
  <2>1. IsCopy(Started(a)) /\ Started(a).actor = a /\ IsCopy(NotStarted)
    BY <1>3 DEF IsCopy, Started, NotStarted
  <2> QED BY <1>1, <2>1, IncrementKeeps
<1>5. CASE destabilization'.left = 0
  <2>1. complete_graph_destabilization(a) /\ lifecycle' = "Idle"
    BY <1>5 DEF UpgradeByCopy
  <2>2. /\ actor' \in Int /\ changes' \in Int /\ (actor' = changes' <=> a = changes)
        /\ gc_stopped' = FALSE /\ destabilized_actor' = TRUE
        /\ postupgrades' = postupgrades + 1
    BY <1>3, <2>1, CompletePreserves DEF IInv
  <2>3. TypesOK'
    <3>1. gc_stopped' \in BOOLEAN /\ destabilized_actor' \in BOOLEAN /\ disturbed' \in BOOLEAN
      BY <1>1, <2>2, Zenon DEF IInv, TypesOK
    <3> QED BY <1>1, <1>4, <2>2, <3>1 DEF IInv, TypesOK
  <2>4. HooksInStep'
    BY <1>1, <1>2, <2>1, <2>2 DEF IInv, TypesOK, HooksInStep
  <2>5. IdleOK'
    BY <1>1, <1>2, <2>2 DEF StabilizationOK, IdleOK
  <2> QED BY <2>1, <2>3, <2>4, <2>5 DEF IInv
<1>6. CASE destabilization'.left # 0
  <2>1. /\ lifecycle' = "InDestabilization" /\ gc_stopped' = TRUE
        /\ destabilized_actor' = FALSE /\ actor' = 0 /\ UNCHANGED <<changes, postupgrades>>
    BY <1>6 DEF UpgradeByCopy
  <2>2. TypesOK'
    <3>1. gc_stopped' \in BOOLEAN /\ destabilized_actor' \in BOOLEAN /\ disturbed' \in BOOLEAN
      BY <1>1, <2>1, Zenon DEF IInv, TypesOK
    <3> QED BY <1>1, <1>4, <2>1, <3>1 DEF IInv, TypesOK
  <2>3. HooksInStep'
    BY <1>1, <1>2, <2>1 DEF IInv, TypesOK, HooksInStep
  <2>4. DestabilizationOK'
    BY <1>1, <1>2, <1>4, <2>1 DEF StabilizationOK, DestabilizationOK
  <2> QED BY <2>1, <2>2, <2>3, <2>4 DEF IInv
<1> QED BY <1>5, <1>6

\* ... in the last of the calls that read the copy back.
LEMMA DestabilizationPreserves ==
    ASSUME IInv, NEW s \in Sequences, async_destabilization(s)
    PROVE  IInv'
<1>1. UNCHANGED <<stabilization, stabilization_completed, outstanding, entries, preupgrades,
                  upgrades, disturbed>>
  BY DEF async_destabilization
<1>2. CASE UNCHANGED <<lifecycle, collector, actor, destabilization, destabilized_actor, changes,
                       postupgrades>>
  BY <1>1, <1>2 DEF IInv, TypesOK, HooksInStep, IdleOK, StabilizationOK, DestabilizationOK, collector
<1>3. CASE ~destabilized_actor
  <2>1. destabilization' \in Increments(destabilization)
    BY <1>3 DEF async_destabilization
  <2>2. /\ IsCopy(destabilization') /\ destabilization'.actor = destabilization.actor
        /\ destabilization # NotStarted
    BY <2>1, IncrementKeeps DEF IInv, TypesOK
  <2>3. lifecycle = "InDestabilization" /\ DestabilizationOK
    BY <1>3, <2>2 DEF IInv, IdleOK, StabilizationOK
  <2>4. destabilization.actor \in Int
    BY DEF IInv, TypesOK, IsCopy
  <2>5. CASE destabilization'.left = 0
    <3>1. complete_graph_destabilization(destabilization.actor) /\ lifecycle' = "Idle"
      BY <1>3, <2>5, ThroughTwo DEF async_destabilization
    <3>2. /\ actor' \in Int /\ changes' \in Int
          /\ (actor' = changes' <=> destabilization.actor = changes)
          /\ gc_stopped' = FALSE /\ destabilized_actor' = TRUE
          /\ postupgrades' = postupgrades + 1
      BY <2>4, <3>1, CompletePreserves DEF IInv
    <3>3. TypesOK'
      <4>1. gc_stopped' \in BOOLEAN /\ destabilized_actor' \in BOOLEAN /\ disturbed' \in BOOLEAN
        BY <1>1, <3>2, Zenon DEF IInv, TypesOK
      <4> QED BY <1>1, <2>2, <3>2, <4>1 DEF IInv, TypesOK
    <3>4. HooksInStep'
      BY <1>1, <2>3, <3>1, <3>2 DEF IInv, TypesOK, HooksInStep
    <3>5. IdleOK'
      BY <1>1, <2>3, <3>2 DEF DestabilizationOK, IdleOK
    <3> QED BY <3>1, <3>3, <3>4, <3>5 DEF IInv
  <2>6. CASE destabilization'.left # 0
    <3>1. UNCHANGED <<lifecycle, collector, actor, destabilized_actor, changes, postupgrades>>
      BY <1>3, <2>6 DEF async_destabilization
    <3>2. TypesOK'
      BY <1>1, <2>2, <3>1 DEF IInv, TypesOK, collector
    <3>3. HooksInStep' /\ DestabilizationOK'
      BY <1>1, <2>2, <2>3, <3>1 DEF IInv, HooksInStep, DestabilizationOK, collector
    <3> QED BY <2>3, <3>1, <3>2, <3>3 DEF IInv
  <2> QED BY <2>5, <2>6
<1> QED BY <1>2, <1>3 DEF async_destabilization

\* What moves only the call of a controller, or the counts of continuations.
LEMMA UnmovedPreserves ==
    ASSUME IInv, UNCHANGED <<lifecycle, collector, actor, copies, changes, hooks, disturbed>>,
           outstanding' \in Int, outstanding' = outstanding \/ outstanding > 0
    PROVE  IInv'
  BY DEF IInv, TypesOK, HooksInStep, IdleOK, StabilizationOK, DestabilizationOK, collector,
         copies, hooks

\* No step breaks the invariant.
LEMMA StepOK ==
    ASSUME CopyUnits \in Nat, IInv, [LifecycleNext]_lifecycleVars
    PROVE  IInv'
<1>1. CASE UNCHANGED lifecycleVars
  BY <1>1, UnmovedPreserves DEF lifecycleVars, collector, copies, hooks, IInv, TypesOK
<1>2. CASE Update \/ SystemMessage \/ Callback \/ CleanupCallback
  BY <1>2, UpdatePreserves, CleanupCallbackPreserves
<1>3. CASE CleanupTraps
  <2>1. /\ outstanding > 0 /\ outstanding' = outstanding - 1
        /\ UNCHANGED <<lifecycle, collector, actor, copies, changes, hooks, disturbed>>
    BY <1>3 DEF CleanupTraps
  <2>2. outstanding' \in Int
    BY <2>1 DEF IInv, TypesOK
  <2> QED BY <2>1, <2>2, UnmovedPreserves
<1>4. ASSUME NEW s \in Sequences, stabilize_before_upgrade(s) \/ async_stabilization(s)
      PROVE  IInv'
  BY <1>4, StabilizationPreserves
<1>5. ASSUME NEW s \in Sequences, async_destabilization(s)
      PROVE  IInv'
  BY <1>5, DestabilizationPreserves
<1>6. ASSUME NEW s \in Sequences,
             \/ destabilize_after_upgrade(s) \/ async_stabilization_reply_callback(s)
             \/ async_destabilization_reply_callback(s) \/ Rejected(s) \/ reject_callback(s)
      PROVE  IInv'
  <2>1. Unmoved
    BY <1>6 DEF destabilize_after_upgrade, async_stabilization_reply_callback,
                async_destabilization_reply_callback, Rejected, reject_callback
  <2> QED BY <2>1, UnmovedPreserves DEF Unmoved, IInv, TypesOK
<1>7. CASE UpgradeInPlace \/ UpgradeByCopy
  BY <1>7, UpgradeInPlacePreserves, UpgradeByCopyPreserves
<1> QED BY <1>1, <1>2, <1>3, <1>4, <1>5, <1>6, <1>7 DEF LifecycleNext, Delivered

\* The invariant holds of every behaviour.
LEMMA Invariance == ASSUME CopyUnits \in Nat PROVE LifecycleSpec => []IInv
<1>1. LifecycleInit => IInv
  BY InitOK
<1>2. IInv /\ [LifecycleNext]_lifecycleVars => IInv'
  BY StepOK
<1> QED BY <1>1, <1>2, PTL DEF LifecycleSpec

\* The program has the state that it left, through upgrades in place and by copy
\* (compile.ml: Persistence, IncrementalGraphStabilization), its hooks have run
\* once for each, and the collector runs when the heap is there, whatever messages,
\* calls of controllers and traps come in between.
THEOREM UpgradesKeepState == ASSUME CopyUnits \in Nat PROVE LifecycleSpec => []StateSurvives
<1>1. IInv => StateSurvives
  BY DEF IInv, IdleOK, StabilizationOK, DestabilizationOK, StateSurvives, NothingLost,
         CollectorInStep
<1> QED BY <1>1, Invariance, PTL
=============================================================================
