-------------------------- MODULE AsyncCallsProofs --------------------------
(***************************************************************************)
(* The invariants of futures and calls, for all numbers of threads,        *)
(* futures and indices of the table.                                       *)
(*                                                                         *)
(* A trap brings back the state in which the message started, so what is   *)
(* invariant is said of a state s, a record like Saved, of the indices E   *)
(* of the calls whose callbacks are still to come, and of those in L that  *)
(* are leaked.  It is true of the current state, and while a message may   *)
(* trap, also of the saved one.                                            *)
(***************************************************************************)
EXTENDS AsyncCalls, FiniteSetTheorems, TLAPS

States == {"idle", "running", "suspended"} \cup Ended
Calls == [env : Index, owner : Threads, callee : Threads \cup {"remote", "self"},
          response : {"none", "reply", "reject"}]

Envs(cs) == {c.env : c \in cs}

\* One call for each index.
OneEach(cs) == \A c, d \in cs : c.env = d.env => c = d

StateOK(s) ==
    /\ s.pc \in [Threads -> States]
    /\ s.created \in 0 .. MaxFutures
    /\ s.owner \in [Futures -> Threads \cup {NONE}]
    /\ s.result \in [Futures -> {"ok", "error", NONE}]
    /\ s.trapped \in [Futures -> BOOLEAN]
    /\ s.waiter \in [Futures -> Threads \cup {NONE}]
    /\ s.cleanup \in [Futures -> Threads \cup {NONE}]
    /\ s.getRefund \in [Futures -> BOOLEAN]
    /\ s.cycles \in Threads \cup {NONE}
    /\ s.refund \in Futures \cup {0}

\* The table has the entries of the outstanding calls and the leaked ones.
TableOf(s, E, L) ==
    /\ DOMAIN s.table = E \cup L
    /\ E \cup L \subseteq Index
    /\ E \cap L = {}
    /\ \A i \in E \cup L : s.table[i] \in Entries

IsOf(s, i, f) == s.table[i].kind = "future" /\ s.table[i].future = f

\* The callbacks of index i go on with thread t.
GoesOn(s, i, t) ==
    IF s.table[i].kind = "future" THEN s.waiter[s.table[i].future] = t
                                  ELSE s.table[i].thread = t

\* A future whose call is outstanding is open, and its waiter is its owner.
Open(s, E) ==
    \A i \in E, f \in Futures : IsOf(s, i, f) =>
        /\ f <= s.created
        /\ s.result[f] = NONE /\ ~s.trapped[f]
        /\ s.waiter[f] = s.cleanup[f]
        /\ s.waiter[f] # NONE => s.waiter[f] = s.owner[f]

\* It has one call.
OneCall(s, E) == \A i, j \in E, f \in Futures : IsOf(s, i, f) /\ IsOf(s, j, f) => i = j

\* A call goes on with a suspended thread, and each of them has exactly one.
Awaited(s, E) ==
    /\ \A i \in E, t \in Threads : GoesOn(s, i, t) => s.pc[t] = "suspended"
    /\ \A i, j \in E, t \in Threads : GoesOn(s, i, t) /\ GoesOn(s, j, t) => i = j
    /\ \A t \in Threads : s.pc[t] = "suspended" => \E i \in E : GoesOn(s, i, t)

\* Futures that are not created yet.
Unborn(s) ==
    \A f \in Futures : f > s.created =>
        /\ s.result[f] = NONE /\ ~s.trapped[f]
        /\ s.waiter[f] = NONE /\ s.cleanup[f] = NONE /\ s.owner[f] = NONE

\* A future that is open has a call, unless the callback was lost, and the owner with it.
Called(s, E) ==
    \A f \in Futures :
        s.owner[f] # NONE /\ s.result[f] = NONE /\ ~s.trapped[f] =>
            s.pc[s.owner[f]] = "lost" \/ \E i \in E : IsOf(s, i, f)

\* Who awaits a trapped future bails out, at once or when its self-call is answered.
BailsOut(s, E) ==
    \A f \in Futures : s.trapped[f] /\ s.cleanup[f] # NONE =>
        \/ s.pc[s.cleanup[f]] \in {"bailed", "lost"}
        \/ /\ s.pc[s.cleanup[f]] = "suspended"
           /\ \A i \in E : GoesOn(s, i, s.cleanup[f]) => s.table[i].kind = "bail"

Consistent(s, E, L) ==
    /\ TableOf(s, E, L) /\ Open(s, E) /\ OneCall(s, E) /\ Awaited(s, E)
    /\ Unborn(s) /\ Called(s, E) /\ BailsOut(s, E)

\* The index whose callback is executed, and which is in no call any more.
Consumed(kinds) == IF msg.kind \in kinds THEN {msg.env} ELSE {}

MessageOK ==
    msg # NoMessage =>
        /\ msg = [kind |-> msg.kind, thread |-> msg.thread, first |-> msg.first,
                  env |-> msg.env, awaited |-> msg.awaited, saved |-> msg.saved,
                  calls |-> msg.calls]
        /\ msg.kind \in {"update", "async", "callback", "cleanup", "cleaned"}
        /\ msg.thread \in Threads \cup {NONE}
        /\ msg.awaited \in 0 .. created
        /\ msg.kind \in {"cleanup", "cleaned"} => msg.thread = NONE

\* What a trap brings back.
SavedOK ==
    msg # NoMessage /\ msg.kind \in {"update", "async", "callback"} =>
        /\ StateOK(msg.saved) /\ msg.calls \subseteq Calls /\ OneEach(msg.calls)
        /\ Consistent(msg.saved, Envs(msg.calls) \cup Consumed({"callback"}), leaked)
        /\ Consumed({"callback"}) \cap Envs(msg.calls) = {}
        /\ msg.kind # "callback" => msg.first \in Threads /\ msg.saved.pc[msg.first] = "idle"

CurrentOK ==
    /\ StateOK(Saved) /\ calls \subseteq Calls /\ OneEach(calls)
    /\ Consistent(Saved, Envs(calls) \cup Consumed({"cleanup"}), leaked)
    /\ Consumed({"cleanup"}) \cap Envs(calls) = {}

IInv == CurrentOK /\ MessageOK /\ SavedOK /\ RefundOfAwaited
-----------------------------------------------------------------------------
(***************************************************************************)
(* What the steps do to a consistent state.                                *)
(***************************************************************************)
SameFutures(s, q) ==
    /\ q.created = s.created /\ q.owner = s.owner /\ q.result = s.result /\ q.trapped = s.trapped
    /\ q.waiter = s.waiter

\* The entry of an outstanding call is of a future or of a thread.
LEMMA EntryTypes ==
    ASSUME NEW s, NEW E, NEW L, TableOf(s, E, L), NEW i \in E
    PROVE  \/ s.table[i].kind = "future" /\ s.table[i].future \in Futures
           \/ s.table[i].kind \in Suspension /\ s.table[i].thread \in Threads
              /\ s.table[i].kind # "future"
  BY DEF TableOf, Entries, Suspension

\* A thread that waits for nothing starts, or comes to an end.
LEMMA ThreadChanges ==
    ASSUME NEW s, NEW q, NEW E, NEW L, NEW t \in Threads, NEW x \in States,
           StateOK(s), Consistent(s, E, L),
           s.pc[t] \in {"idle", "running"}, x # "suspended",
           q.pc = [s.pc EXCEPT ![t] = x],
           SameFutures(s, q), q.cleanup = s.cleanup, q.table = s.table
    PROVE  Consistent(q, E, L)
<1> USE DEF StateOK, Consistent, SameFutures
<1>a. \A i \in E : /\ \A g : IsOf(q, i, g) <=> IsOf(s, i, g)
                 /\ \A u : GoesOn(q, i, u) <=> GoesOn(s, i, u)
  BY DEF IsOf, GoesOn
<1>b. \A i \in E : q.table[i] = s.table[i]
  OBVIOUS
<1>1. TableOf(q, E, L)
  BY DEF TableOf
<1>2. Open(q, E)
  BY <1>a DEF Open
<1>3. OneCall(q, E)
  BY <1>a DEF OneCall
<1>4. Awaited(q, E)
  BY <1>a DEF Awaited
<1>5. Unborn(q)
  BY DEF Unborn
<1>6. Called(q, E)
  BY <1>a DEF Called
<1>7. BailsOut(q, E)
  BY <1>a, <1>b DEF BailsOut
<1> QED BY <1>1, <1>2, <1>3, <1>4, <1>5, <1>6, <1>7

\* An await of a future with a trapped callback ends the thread.
LEMMA AwaitStops ==
    ASSUME NEW s, NEW q, NEW E, NEW L, NEW t \in Threads, NEW f \in Futures,
           StateOK(s), Consistent(s, E, L),
           s.pc[t] = "running", s.owner[f] = t, s.trapped[f],
           q.pc = [s.pc EXCEPT ![t] = "bailed"],
           q.cleanup = [s.cleanup EXCEPT ![f] = t],
           SameFutures(s, q), q.table = s.table
    PROVE  Consistent(q, E, L)
<1> USE DEF StateOK, Consistent, SameFutures
<1>a. \A i \in E : /\ \A g : IsOf(q, i, g) <=> IsOf(s, i, g)
                 /\ \A u : GoesOn(q, i, u) <=> GoesOn(s, i, u)
  BY DEF IsOf, GoesOn
<1>b. \A i \in E : q.table[i] = s.table[i]
  OBVIOUS
<1>1. TableOf(q, E, L)
  BY DEF TableOf
<1>2. Open(q, E)
  BY <1>a DEF Open
<1>3. OneCall(q, E)
  BY <1>a DEF OneCall
<1>4. Awaited(q, E)
  BY <1>a DEF Awaited
<1>5. Unborn(q)
  BY DEF Unborn
<1>6. Called(q, E)
  BY <1>a DEF Called
<1>7. BailsOut(q, E)
  BY <1>a, <1>b DEF BailsOut
<1> QED BY <1>1, <1>2, <1>3, <1>4, <1>5, <1>6, <1>7

\* await? of a completed future changes nothing but its cleanup.
LEMMA AwaitGoesOn ==
    ASSUME NEW s, NEW q, NEW E, NEW L, NEW t \in Threads, NEW f \in Futures,
           StateOK(s), Consistent(s, E, L),
           s.pc[t] = "running", s.owner[f] = t, ~s.trapped[f], s.result[f] # NONE,
           q.pc = s.pc,
           q.cleanup = [s.cleanup EXCEPT ![f] = t],
           SameFutures(s, q), q.table = s.table
    PROVE  Consistent(q, E, L)
<1> USE DEF StateOK, Consistent, SameFutures
<1>a. \A i \in E : /\ \A g : IsOf(q, i, g) <=> IsOf(s, i, g)
                 /\ \A u : GoesOn(q, i, u) <=> GoesOn(s, i, u)
  BY DEF IsOf, GoesOn
<1>b. \A i \in E : q.table[i] = s.table[i]
  OBVIOUS
<1>1. TableOf(q, E, L)
  BY DEF TableOf
<1>2. Open(q, E)
  BY <1>a DEF Open
<1>3. OneCall(q, E)
  BY <1>a DEF OneCall
<1>4. Awaited(q, E)
  BY <1>a DEF Awaited
<1>5. Unborn(q)
  BY DEF Unborn
<1>6. Called(q, E)
  BY <1>a DEF Called
<1>7. BailsOut(q, E)
  BY <1>a, <1>b DEF BailsOut
<1> QED BY <1>1, <1>2, <1>3, <1>4, <1>5, <1>6, <1>7

\* A thread waits for the answer of an open future.
LEMMA Suspends ==
    ASSUME NEW s, NEW q, NEW E, NEW L, NEW t \in Threads, NEW f \in Futures,
           StateOK(s), Consistent(s, E, L),
           s.pc[t] = "running", s.owner[f] = t, ~s.trapped[f], s.result[f] = NONE,
           q.pc = [s.pc EXCEPT ![t] = "suspended"],
           q.waiter = [s.waiter EXCEPT ![f] = t],
           q.cleanup = [s.cleanup EXCEPT ![f] = t],
           q.created = s.created, q.owner = s.owner, q.result = s.result, q.trapped = s.trapped,
           q.table = s.table, NONE \notin Threads
    PROVE  Consistent(q, E, L)
<1> USE DEF StateOK, Consistent, SameFutures
<1>a. \A i \in E, g \in Futures : IsOf(q, i, g) <=> IsOf(s, i, g)
  BY DEF IsOf
<1>b. PICK k \in E : IsOf(s, k, f)
  BY DEF Called
<1>c. \A i \in E : ~GoesOn(s, i, t)
  BY DEF Awaited
<1>d. \A i \in E, u \in Threads : GoesOn(q, i, u) <=> GoesOn(s, i, u) \/ (i = k /\ u = t)
  <2> SUFFICES ASSUME NEW i \in E, NEW u \in Threads
               PROVE  GoesOn(q, i, u) <=> GoesOn(s, i, u) \/ (i = k /\ u = t)
    OBVIOUS
  <2>1. CASE i = k
    <3>1. s.waiter[f] # u
      BY <1>b, <1>c DEF Open, GoesOn, IsOf, Awaited
    <3> QED BY <2>1, <3>1, <1>b DEF GoesOn, IsOf
  <2>2. CASE i # k
    <3>1. TableOf(s, E, L) /\ OneCall(s, E)
      OBVIOUS
    <3>2. CASE s.table[i].kind = "future"
      <4>1. s.table[i].future \in Futures /\ s.table[i].future # f
        BY <2>2, <3>1, <3>2, <1>b, EntryTypes DEF IsOf, OneCall
      <4> QED BY <2>2, <3>2, <4>1 DEF GoesOn
    <3>3. CASE s.table[i].kind # "future"
      BY <2>2, <3>3 DEF GoesOn
    <3> QED BY <3>2, <3>3
  <2> QED BY <2>1, <2>2
<1>1. TableOf(q, E, L)
  BY DEF TableOf
<1>2. Open(q, E)
  BY <1>a, <1>b DEF Open
<1>3. OneCall(q, E)
  BY <1>a DEF OneCall
<1>4. Awaited(q, E)
  <2>1. ASSUME NEW i \in E, NEW u \in Threads, GoesOn(q, i, u) PROVE q.pc[u] = "suspended"
    BY <2>1, <1>d DEF Awaited
  <2>2. ASSUME NEW i \in E, NEW j \in E, NEW u \in Threads, GoesOn(q, i, u), GoesOn(q, j, u)
        PROVE  i = j
    BY <2>2, <1>c, <1>d DEF Awaited
  <2>3. ASSUME NEW u \in Threads, q.pc[u] = "suspended" PROVE \E i \in E : GoesOn(q, i, u)
    BY <2>3, <1>d DEF Awaited
  <2> QED BY <2>1, <2>2, <2>3 DEF Awaited
<1>5. Unborn(q)
  BY DEF Unborn
<1>6. Called(q, E)
  BY <1>a, <1>b DEF Called
<1>7. BailsOut(q, E)
  BY <1>b, <1>c, <1>d DEF BailsOut
<1> QED BY <1>1, <1>2, <1>3, <1>4, <1>5, <1>6, <1>7

\* A thread waits for its self-call.
LEMMA CallsSelf ==
    ASSUME NEW s, NEW q, NEW E, NEW L, NEW t \in Threads, NEW f \in Futures,
           NEW n \in Index, NEW kind \in Suspension,
           StateOK(s), Consistent(s, E, L),
           n \notin E \cup L, s.pc[t] = "running", s.owner[f] = t,
           IF s.trapped[f] THEN kind = "bail" ELSE s.result[f] # NONE,
           q.pc = [s.pc EXCEPT ![t] = "suspended"],
           q.cleanup = [s.cleanup EXCEPT ![f] = t],
           SameFutures(s, q),
           q.table = [j \in DOMAIN s.table \cup {n} |->
                        IF j = n THEN [kind |-> kind, thread |-> t, future |-> f] ELSE s.table[j]]
    PROVE  Consistent(q, E \cup {n}, L)
<1> USE DEF StateOK, Consistent, SameFutures
<1>a. /\ \A j \in E \cup L : q.table[j] = s.table[j]
      /\ q.table[n] = [kind |-> kind, thread |-> t, future |-> f]
      /\ DOMAIN q.table = E \cup L \cup {n} /\ kind # "future"
  BY DEF TableOf, Suspension
<1>b. \A j \in E \cup {n}, g \in Futures : IsOf(q, j, g) <=> j \in E /\ IsOf(s, j, g)
  BY <1>a DEF IsOf
<1>c. \A j \in E : ~GoesOn(s, j, t)
  BY DEF Awaited
<1>d. \A j \in E \cup {n}, u \in Threads :
        GoesOn(q, j, u) <=> (j \in E /\ GoesOn(s, j, u)) \/ (j = n /\ u = t)
  BY <1>a DEF GoesOn
<1>e. [kind |-> kind, thread |-> t, future |-> f] \in Entries
  BY DEF Entries
<1>1. TableOf(q, E \cup {n}, L)
  BY <1>a, <1>e DEF TableOf
<1>2. Open(q, E \cup {n})
  BY <1>b DEF Open
<1>3. OneCall(q, E \cup {n})
  BY <1>b DEF OneCall
<1>4. Awaited(q, E \cup {n})
  <2>1. ASSUME NEW i \in E \cup {n}, NEW u \in Threads, GoesOn(q, i, u) PROVE q.pc[u] = "suspended"
    BY <2>1, <1>c, <1>d DEF Awaited
  <2>2. ASSUME NEW i \in E \cup {n}, NEW j \in E \cup {n}, NEW u \in Threads, GoesOn(q, i, u), GoesOn(q, j, u)
        PROVE  i = j
    BY <2>2, <1>c, <1>d DEF Awaited
  <2>3. ASSUME NEW u \in Threads, q.pc[u] = "suspended" PROVE \E i \in E \cup {n} : GoesOn(q, i, u)
    BY <2>3, <1>c, <1>d DEF Awaited
  <2> QED BY <2>1, <2>2, <2>3 DEF Awaited
<1>5. Unborn(q)
  BY DEF Unborn
<1>6. Called(q, E \cup {n})
  BY <1>b DEF Called
<1>7. BailsOut(q, E \cup {n})
  BY <1>a, <1>c, <1>d DEF BailsOut
<1> QED BY <1>1, <1>2, <1>3, <1>4, <1>5, <1>6, <1>7

\* A call has a future of its own.
LEMMA CallsOut ==
    ASSUME NEW s, NEW q, NEW E, NEW L, NEW t \in Threads, NEW n \in Index,
           NEW f \in Futures,
           StateOK(s), Consistent(s, E, L),
           n \notin E \cup L, s.pc[t] = "running", f = s.created + 1,
           q.pc = s.pc, q.created = f, q.owner = [s.owner EXCEPT ![f] = t],
           q.result = s.result, q.trapped = s.trapped, q.waiter = s.waiter, q.cleanup = s.cleanup,
           q.table = [j \in DOMAIN s.table \cup {n} |->
                        IF j = n THEN [kind |-> "future", future |-> f] ELSE s.table[j]],
           AsyncConstants
    PROVE  Consistent(q, E \cup {n}, L)
<1> USE DEF StateOK, Consistent, SameFutures
<1>a. /\ \A j \in E \cup L : q.table[j] = s.table[j]
      /\ q.table[n] = [kind |-> "future", future |-> f]
      /\ DOMAIN q.table = E \cup L \cup {n}
  BY DEF TableOf
<1>b. \A g \in Futures : /\ g > f => g > s.created
                         /\ g <= s.created => g <= f /\ g # f
      /\ f > s.created
  BY DEF AsyncConstants, Futures
<1>c. \A j \in E : ~IsOf(s, j, f)
  BY <1>b DEF Open
<1>d. \A j \in E \cup {n}, g \in Futures :
        IsOf(q, j, g) <=> (j \in E /\ IsOf(s, j, g)) \/ (j = n /\ g = f)
  BY <1>a DEF IsOf
<1>e. s.waiter[f] = NONE /\ s.result[f] = NONE /\ ~s.trapped[f] /\ s.cleanup[f] = NONE
  BY <1>b DEF Unborn
<1>f. \A j \in E \cup {n}, u \in Threads : GoesOn(q, j, u) <=> j \in E /\ GoesOn(s, j, u)
  BY <1>a, <1>e DEF GoesOn, AsyncConstants
<1>g. [kind |-> "future", future |-> f] \in Entries
  BY DEF Entries
<1>1. TableOf(q, E \cup {n}, L)
  BY <1>a, <1>g DEF TableOf
<1>2. Open(q, E \cup {n})
  BY <1>b, <1>d, <1>e DEF Open
<1>3. OneCall(q, E \cup {n})
  BY <1>c, <1>d DEF OneCall
<1>4. Awaited(q, E \cup {n})
  <2>1. ASSUME NEW i \in E \cup {n}, NEW u \in Threads, GoesOn(q, i, u) PROVE q.pc[u] = "suspended"
    BY <2>1, <1>f DEF Awaited
  <2>2. ASSUME NEW i \in E \cup {n}, NEW j \in E \cup {n}, NEW u \in Threads, GoesOn(q, i, u), GoesOn(q, j, u)
        PROVE  i = j
    BY <2>2, <1>f DEF Awaited
  <2>3. ASSUME NEW u \in Threads, q.pc[u] = "suspended" PROVE \E i \in E \cup {n} : GoesOn(q, i, u)
    BY <2>3, <1>f DEF Awaited
  <2> QED BY <2>1, <2>2, <2>3 DEF Awaited
<1>5. Unborn(q)
  BY <1>b DEF Unborn
<1>6. Called(q, E \cup {n})
  BY <1>d DEF Called
<1>7. BailsOut(q, E \cup {n})
  BY <1>a, <1>f DEF BailsOut
<1> QED BY <1>1, <1>2, <1>3, <1>4, <1>5, <1>6, <1>7

\* The answer of a self-call goes on with the thread.
LEMMA Schedules ==
    ASSUME NEW s, NEW q, NEW E, NEW L, NEW n \in E, NEW t \in Threads,
           StateOK(s), Consistent(s, E, L),
           s.table[n].kind = "schedule", s.table[n].thread = t,
           q.pc = [s.pc EXCEPT ![t] = "running"],
           SameFutures(s, q), q.cleanup = s.cleanup,
           q.table = [j \in DOMAIN s.table \ {n} |-> s.table[j]]
    PROVE  Consistent(q, E \ {n}, L)
<1> USE DEF StateOK, Consistent, SameFutures
<1>a. DOMAIN q.table = (E \cup L) \ {n} /\ \A j \in (E \cup L) \ {n} : q.table[j] = s.table[j]
  BY DEF TableOf
<1>b. \A j \in E \ {n}, g \in Futures : IsOf(q, j, g) <=> IsOf(s, j, g)
  BY <1>a DEF IsOf
<1>c. \A j \in E \ {n}, u \in Threads : GoesOn(q, j, u) <=> GoesOn(s, j, u)
  BY <1>a DEF GoesOn
<1>d. /\ \A u \in Threads : GoesOn(s, n, u) <=> u = t
      /\ \A g \in Futures : ~IsOf(s, n, g)
      /\ s.pc[t] = "suspended"
  BY DEF GoesOn, IsOf, Awaited
<1>1. TableOf(q, E \ {n}, L)
  BY <1>a DEF TableOf
<1>2. Open(q, E \ {n})
  BY <1>b DEF Open
<1>3. OneCall(q, E \ {n})
  BY <1>b DEF OneCall
<1>4. Awaited(q, E \ {n})
  <2>1. ASSUME NEW i \in E \ {n}, NEW u \in Threads, GoesOn(q, i, u) PROVE q.pc[u] = "suspended"
    BY <2>1, <1>c, <1>d DEF Awaited
  <2>2. ASSUME NEW i \in E \ {n}, NEW j \in E \ {n}, NEW u \in Threads, GoesOn(q, i, u), GoesOn(q, j, u)
        PROVE  i = j
    BY <2>2, <1>c, <1>d DEF Awaited
  <2>3. ASSUME NEW u \in Threads, q.pc[u] = "suspended" PROVE \E i \in E \ {n} : GoesOn(q, i, u)
    <3>1. PICK j \in E : GoesOn(s, j, u)
      <4>1. s.pc[u] = "suspended"
        BY <2>3
      <4> QED BY <4>1 DEF Awaited
    <3>2. j # n
      BY <2>3, <3>1, <1>d
    <3> QED BY <3>1, <3>2, <1>c
  <2> QED BY <2>1, <2>2, <2>3 DEF Awaited
<1>5. Unborn(q)
  BY DEF Unborn
<1>6. Called(q, E \ {n})
  <2> SUFFICES ASSUME NEW g \in Futures, q.owner[g] # NONE, q.result[g] = NONE, ~q.trapped[g],
                      q.pc[q.owner[g]] # "lost"
               PROVE  \E j \in E \ {n} : IsOf(q, j, g)
    BY DEF Called
  <2>1. s.pc[s.owner[g]] # "lost"
    BY <1>d
  <2>2. PICK j \in E : IsOf(s, j, g)
    BY <2>1 DEF Called
  <2> QED BY <2>2, <1>b, <1>d
<1>7. BailsOut(q, E \ {n})
  <2> SUFFICES ASSUME NEW g \in Futures, q.trapped[g], q.cleanup[g] # NONE
               PROVE  \/ q.pc[q.cleanup[g]] \in {"bailed", "lost"}
                      \/ /\ q.pc[q.cleanup[g]] = "suspended"
                         /\ \A j \in E \ {n} : GoesOn(q, j, q.cleanup[g]) => q.table[j].kind = "bail"
    BY DEF BailsOut
  <2>1. q.cleanup[g] \in Threads /\ q.cleanup[g] = s.cleanup[g]
    OBVIOUS
  <2>2. q.cleanup[g] # t
    BY <2>1, <1>d DEF BailsOut
  <2> QED BY <2>1, <2>2, <1>a, <1>c DEF BailsOut
<1> QED BY <1>1, <1>2, <1>3, <1>4, <1>5, <1>6, <1>7

\* ... or lets it bail out, or is its last callback.
LEMMA BailsOnAnswer ==
    ASSUME NEW s, NEW q, NEW E, NEW L, NEW n \in E, NEW t \in Threads, NEW x \in {"bailed", "lost"},
           StateOK(s), Consistent(s, E, L),
           s.table[n].kind \in Suspension, s.table[n].thread = t,
           q.pc = [s.pc EXCEPT ![t] = x],
           SameFutures(s, q), q.cleanup = s.cleanup,
           q.table = [j \in DOMAIN s.table \ {n} |-> s.table[j]]
    PROVE  Consistent(q, E \ {n}, L)
<1> USE DEF StateOK, Consistent, SameFutures
<1>a. DOMAIN q.table = (E \cup L) \ {n} /\ \A j \in (E \cup L) \ {n} : q.table[j] = s.table[j]
  BY DEF TableOf
<1>b. \A j \in E \ {n}, g \in Futures : IsOf(q, j, g) <=> IsOf(s, j, g)
  BY <1>a DEF IsOf
<1>c. \A j \in E \ {n}, u \in Threads : GoesOn(q, j, u) <=> GoesOn(s, j, u)
  BY <1>a DEF GoesOn
<1>d. /\ \A u \in Threads : GoesOn(s, n, u) <=> u = t
      /\ \A g \in Futures : ~IsOf(s, n, g)
      /\ s.pc[t] = "suspended"
  BY DEF GoesOn, IsOf, Awaited, Suspension
<1>1. TableOf(q, E \ {n}, L)
  BY <1>a DEF TableOf
<1>2. Open(q, E \ {n})
  BY <1>b DEF Open
<1>3. OneCall(q, E \ {n})
  BY <1>b DEF OneCall
<1>4. Awaited(q, E \ {n})
  <2>1. ASSUME NEW i \in E \ {n}, NEW u \in Threads, GoesOn(q, i, u) PROVE q.pc[u] = "suspended"
    BY <2>1, <1>c, <1>d DEF Awaited
  <2>2. ASSUME NEW i \in E \ {n}, NEW j \in E \ {n}, NEW u \in Threads, GoesOn(q, i, u), GoesOn(q, j, u)
        PROVE  i = j
    BY <2>2, <1>c, <1>d DEF Awaited
  <2>3. ASSUME NEW u \in Threads, q.pc[u] = "suspended" PROVE \E i \in E \ {n} : GoesOn(q, i, u)
    <3>1. PICK j \in E : GoesOn(s, j, u)
      <4>1. s.pc[u] = "suspended"
        BY <2>3
      <4> QED BY <4>1 DEF Awaited
    <3>2. j # n
      BY <2>3, <3>1, <1>d
    <3> QED BY <3>1, <3>2, <1>c
  <2> QED BY <2>1, <2>2, <2>3 DEF Awaited
<1>5. Unborn(q)
  BY DEF Unborn
<1>6. Called(q, E \ {n})
  <2> SUFFICES ASSUME NEW g \in Futures, q.owner[g] # NONE, q.result[g] = NONE, ~q.trapped[g],
                      q.pc[q.owner[g]] # "lost"
               PROVE  \E j \in E \ {n} : IsOf(q, j, g)
    BY DEF Called
  <2>1. s.pc[s.owner[g]] # "lost"
    BY <1>d
  <2>2. PICK j \in E : IsOf(s, j, g)
    BY <2>1 DEF Called
  <2> QED BY <2>2, <1>b, <1>d
<1>7. BailsOut(q, E \ {n})
  BY <1>a, <1>c, <1>d DEF BailsOut
<1> QED BY <1>1, <1>2, <1>3, <1>4, <1>5, <1>6, <1>7

\* The answer of a call completes its future and goes on with who waits for it.
LEMMA Completes ==
    ASSUME NEW s, NEW q, NEW E, NEW L, NEW n \in E, NEW f \in Futures,
           NEW value \in {"ok", "error"},
           StateOK(s), Consistent(s, E, L),
           IsOf(s, n, f),
           q.pc = IF s.waiter[f] = NONE THEN s.pc ELSE [s.pc EXCEPT ![s.waiter[f]] = "running"],
           q.result = [s.result EXCEPT ![f] = value], q.waiter = [s.waiter EXCEPT ![f] = NONE],
           q.created = s.created, q.owner = s.owner, q.trapped = s.trapped, q.cleanup = s.cleanup,
           q.table = [j \in DOMAIN s.table \ {n} |-> s.table[j]],
           AsyncConstants
    PROVE  Consistent(q, E \ {n}, L)
<1> USE DEF StateOK, Consistent, SameFutures
<1>a. DOMAIN q.table = (E \cup L) \ {n} /\ \A j \in (E \cup L) \ {n} : q.table[j] = s.table[j]
  BY DEF TableOf
<1>b. \A j \in E \ {n}, g \in Futures : IsOf(q, j, g) <=> IsOf(s, j, g)
  BY <1>a DEF IsOf
<1>c. \A j \in E \ {n}, u \in Threads : GoesOn(q, j, u) <=> GoesOn(s, j, u)
  <2> SUFFICES ASSUME NEW j \in E \ {n}, NEW u \in Threads
               PROVE  GoesOn(q, j, u) <=> GoesOn(s, j, u)
    OBVIOUS
  <2>1. CASE s.table[j].kind = "future"
    <3>1. TableOf(s, E, L) /\ OneCall(s, E)
      OBVIOUS
    <3>2. s.table[j].future \in Futures /\ s.table[j].future # f
      BY <2>1, <3>1, EntryTypes DEF IsOf, OneCall, Suspension
    <3> QED BY <2>1, <3>2, <1>a DEF GoesOn
  <2>2. CASE s.table[j].kind # "future"
    BY <2>2, <1>a DEF GoesOn
  <2> QED BY <2>1, <2>2
<1>d. /\ \A u \in Threads : GoesOn(s, n, u) <=> u = s.waiter[f]
      /\ s.waiter[f] \in Threads => s.pc[s.waiter[f]] = "suspended"
      /\ s.waiter[f] \in Threads \cup {NONE} /\ NONE \notin Threads
  BY DEF GoesOn, IsOf, Awaited, AsyncConstants
<1>e. /\ f <= s.created /\ s.result[f] = NONE /\ ~s.trapped[f] /\ s.waiter[f] = s.cleanup[f]
      /\ s.table[n].kind = "future" /\ s.table[n].future = f
  BY DEF Open, IsOf
<1>f. \A g \in Futures : g > q.created => g # f
  BY <1>e DEF Futures, AsyncConstants
<1>1. TableOf(q, E \ {n}, L)
  BY <1>a DEF TableOf
<1>2. Open(q, E \ {n})
  BY <1>b, <1>e DEF Open, OneCall
<1>3. OneCall(q, E \ {n})
  BY <1>b DEF OneCall
<1>4. Awaited(q, E \ {n})
  <2>1. ASSUME NEW j \in E \ {n}, NEW u \in Threads, GoesOn(q, j, u) PROVE q.pc[u] = "suspended"
    BY <2>1, <1>c, <1>d DEF Awaited
  <2>2. ASSUME NEW i \in E \ {n}, NEW j \in E \ {n}, NEW u \in Threads, GoesOn(q, i, u), GoesOn(q, j, u)
        PROVE  i = j
    BY <2>2, <1>c DEF Awaited
  <2>3. ASSUME NEW u \in Threads, q.pc[u] = "suspended" PROVE \E j \in E \ {n} : GoesOn(q, j, u)
    <3>1. s.pc[u] = "suspended"
      BY <2>3, <1>d
    <3>2. PICK j \in E : GoesOn(s, j, u)
      BY <3>1 DEF Awaited
    <3>3. j # n
      BY <2>3, <3>2, <1>d
    <3> QED BY <3>2, <3>3, <1>c
  <2> QED BY <2>1, <2>2, <2>3 DEF Awaited
<1>5. Unborn(q)
  BY <1>f DEF Unborn
<1>6. Called(q, E \ {n})
  <2> SUFFICES ASSUME NEW g \in Futures, q.owner[g] # NONE, q.result[g] = NONE, ~q.trapped[g],
                      q.pc[q.owner[g]] # "lost"
               PROVE  \E j \in E \ {n} : IsOf(q, j, g)
    BY DEF Called
  <2>1. s.pc[s.owner[g]] # "lost" /\ s.result[g] = NONE /\ ~s.trapped[g] /\ s.owner[g] # NONE /\ g # f
    BY <1>d, <1>e DEF AsyncConstants
  <2>2. PICK j \in E : IsOf(s, j, g)
    BY <2>1 DEF Called
  <2>3. j # n
    BY <2>1, <2>2, <1>e DEF IsOf
  <2> QED BY <2>2, <2>3, <1>b
<1>7. BailsOut(q, E \ {n})
  <2> SUFFICES ASSUME NEW g \in Futures, q.trapped[g], q.cleanup[g] # NONE
               PROVE  \/ q.pc[q.cleanup[g]] \in {"bailed", "lost"}
                      \/ /\ q.pc[q.cleanup[g]] = "suspended"
                         /\ \A j \in E \ {n} : GoesOn(q, j, q.cleanup[g]) => q.table[j].kind = "bail"
    BY DEF BailsOut
  <2>1. q.cleanup[g] \in Threads /\ q.cleanup[g] = s.cleanup[g]
    OBVIOUS
  <2>2. q.cleanup[g] # s.waiter[f]
    BY <2>1, <1>d, <1>e DEF BailsOut
  <2> QED BY <2>1, <2>2, <1>a, <1>c DEF BailsOut
<1> QED BY <1>1, <1>2, <1>3, <1>4, <1>5, <1>6, <1>7

\* The cleanup callback of a future lets who waits for it bail out.
LEMMA Cleans ==
    ASSUME NEW s, NEW q, NEW E, NEW L, NEW n \in E, NEW f \in Futures,
           StateOK(s), Consistent(s, E, L),
           IsOf(s, n, f),
           q.pc = IF s.cleanup[f] = NONE THEN s.pc ELSE [s.pc EXCEPT ![s.cleanup[f]] = "bailed"],
           q.trapped = [s.trapped EXCEPT ![f] = TRUE], q.waiter = [s.waiter EXCEPT ![f] = NONE],
           q.created = s.created, q.owner = s.owner, q.result = s.result, q.cleanup = s.cleanup,
           q.table = [j \in DOMAIN s.table \ {n} |-> s.table[j]],
           AsyncConstants
    PROVE  Consistent(q, E \ {n}, L)
<1> USE DEF StateOK, Consistent, SameFutures
<1>a. DOMAIN q.table = (E \cup L) \ {n} /\ \A j \in (E \cup L) \ {n} : q.table[j] = s.table[j]
  BY DEF TableOf
<1>b. \A j \in E \ {n}, g \in Futures : IsOf(q, j, g) <=> IsOf(s, j, g)
  BY <1>a DEF IsOf
<1>c. \A j \in E \ {n}, u \in Threads : GoesOn(q, j, u) <=> GoesOn(s, j, u)
  <2> SUFFICES ASSUME NEW j \in E \ {n}, NEW u \in Threads
               PROVE  GoesOn(q, j, u) <=> GoesOn(s, j, u)
    OBVIOUS
  <2>1. CASE s.table[j].kind = "future"
    <3>1. TableOf(s, E, L) /\ OneCall(s, E)
      OBVIOUS
    <3>2. s.table[j].future \in Futures /\ s.table[j].future # f
      BY <2>1, <3>1, EntryTypes DEF IsOf, OneCall, Suspension
    <3> QED BY <2>1, <3>2, <1>a DEF GoesOn
  <2>2. CASE s.table[j].kind # "future"
    BY <2>2, <1>a DEF GoesOn
  <2> QED BY <2>1, <2>2
<1>d. /\ \A u \in Threads : GoesOn(s, n, u) <=> u = s.waiter[f]
      /\ s.waiter[f] \in Threads => s.pc[s.waiter[f]] = "suspended"
      /\ s.waiter[f] \in Threads \cup {NONE} /\ NONE \notin Threads
  BY DEF GoesOn, IsOf, Awaited, AsyncConstants
<1>e. /\ f <= s.created /\ s.result[f] = NONE /\ ~s.trapped[f] /\ s.waiter[f] = s.cleanup[f]
      /\ s.table[n].kind = "future" /\ s.table[n].future = f
  BY DEF Open, IsOf
<1>f. \A g \in Futures : g > q.created => g # f
  BY <1>e DEF Futures, AsyncConstants
<1>1. TableOf(q, E \ {n}, L)
  BY <1>a DEF TableOf
<1>2. Open(q, E \ {n})
  BY <1>b, <1>e DEF Open, OneCall
<1>3. OneCall(q, E \ {n})
  BY <1>b DEF OneCall
<1>4. Awaited(q, E \ {n})
  <2>1. ASSUME NEW j \in E \ {n}, NEW u \in Threads, GoesOn(q, j, u) PROVE q.pc[u] = "suspended"
    BY <2>1, <1>c, <1>d, <1>e DEF Awaited
  <2>2. ASSUME NEW i \in E \ {n}, NEW j \in E \ {n}, NEW u \in Threads, GoesOn(q, i, u), GoesOn(q, j, u)
        PROVE  i = j
    BY <2>2, <1>c DEF Awaited
  <2>3. ASSUME NEW u \in Threads, q.pc[u] = "suspended" PROVE \E j \in E \ {n} : GoesOn(q, j, u)
    <3>1. s.pc[u] = "suspended"
      BY <2>3, <1>d
    <3>2. PICK j \in E : GoesOn(s, j, u)
      BY <3>1 DEF Awaited
    <3>3. j # n
      BY <2>3, <3>2, <1>d, <1>e
    <3> QED BY <3>2, <3>3, <1>c
  <2> QED BY <2>1, <2>2, <2>3 DEF Awaited
<1>5. Unborn(q)
  BY <1>f DEF Unborn
<1>6. Called(q, E \ {n})
  <2> SUFFICES ASSUME NEW g \in Futures, q.owner[g] # NONE, q.result[g] = NONE, ~q.trapped[g],
                      q.pc[q.owner[g]] # "lost"
               PROVE  \E j \in E \ {n} : IsOf(q, j, g)
    BY DEF Called
  <2>1. s.pc[s.owner[g]] # "lost" /\ s.result[g] = NONE /\ ~s.trapped[g] /\ s.owner[g] # NONE
    BY <1>d, <1>e
  <2>2. PICK j \in E : IsOf(s, j, g)
    BY <2>1 DEF Called
  <2>3. j # n
    BY <2>1, <2>2, <1>e DEF IsOf
  <2> QED BY <2>2, <2>3, <1>b
<1>7. BailsOut(q, E \ {n})
  <2> SUFFICES ASSUME NEW g \in Futures, q.trapped[g], q.cleanup[g] # NONE
               PROVE  \/ q.pc[q.cleanup[g]] \in {"bailed", "lost"}
                      \/ /\ q.pc[q.cleanup[g]] = "suspended"
                         /\ \A j \in E \ {n} : GoesOn(q, j, q.cleanup[g]) => q.table[j].kind = "bail"
    BY DEF BailsOut
  <2>1. q.cleanup[g] \in Threads /\ q.cleanup[g] = s.cleanup[g]
    OBVIOUS
  <2>2. CASE q.cleanup[g] = s.waiter[f]
    BY <2>1, <2>2, <1>e
  <2>3. CASE q.cleanup[g] # s.waiter[f]
    BY <2>1, <2>3, <1>a, <1>c, <1>e DEF BailsOut
  <2> QED BY <2>2, <2>3
<1> QED BY <1>1, <1>2, <1>3, <1>4, <1>5, <1>6, <1>7

\* The cleanup callback traps: the thread is lost, and the entry leaked.
LEMMA Leaks ==
    ASSUME NEW s, NEW q, NEW E, NEW L, NEW n \in E, NEW t \in Threads,
           StateOK(s), Consistent(s, E, L),
           t = IF s.table[n].kind = "future" THEN s.cleanup[s.table[n].future] ELSE s.table[n].thread,
           q.pc = [s.pc EXCEPT ![t] = "lost"],
           SameFutures(s, q), q.cleanup = s.cleanup, q.table = s.table, AsyncConstants
    PROVE  Consistent(q, E \ {n}, L \cup {n})
<1> USE DEF StateOK, Consistent, SameFutures
<1>a. TableOf(s, E, L)
  OBVIOUS
<1>b. \A j \in E, g \in Futures : IsOf(q, j, g) <=> IsOf(s, j, g)
  BY DEF IsOf
<1>c. \A j \in E, u \in Threads : GoesOn(q, j, u) <=> GoesOn(s, j, u)
  BY DEF GoesOn
<1>d. \A u \in Threads : GoesOn(s, n, u) <=> u = t
  BY <1>a, EntryTypes DEF GoesOn, Open, IsOf, Suspension
<1>e. s.pc[t] = "suspended"
  BY <1>d DEF Awaited
<1>f. \A g \in Futures : IsOf(s, n, g) => s.owner[g] = t
  BY <1>d DEF Open, IsOf, AsyncConstants
<1>1. TableOf(q, E \ {n}, L \cup {n})
  BY <1>a DEF TableOf
<1>2. Open(q, E \ {n})
  BY <1>b DEF Open
<1>3. OneCall(q, E \ {n})
  BY <1>b DEF OneCall
<1>4. Awaited(q, E \ {n})
  <2>1. ASSUME NEW j \in E \ {n}, NEW u \in Threads, GoesOn(q, j, u) PROVE q.pc[u] = "suspended"
    BY <2>1, <1>c, <1>d, <1>e DEF Awaited
  <2>2. ASSUME NEW i \in E \ {n}, NEW j \in E \ {n}, NEW u \in Threads, GoesOn(q, i, u), GoesOn(q, j, u)
        PROVE  i = j
    BY <2>2, <1>c DEF Awaited
  <2>3. ASSUME NEW u \in Threads, q.pc[u] = "suspended" PROVE \E j \in E \ {n} : GoesOn(q, j, u)
    <3>1. s.pc[u] = "suspended"
      BY <2>3, <1>d
    <3>2. PICK j \in E : GoesOn(s, j, u)
      BY <3>1 DEF Awaited
    <3>3. j # n
      BY <2>3, <3>2, <1>d
    <3> QED BY <3>2, <3>3, <1>c
  <2> QED BY <2>1, <2>2, <2>3 DEF Awaited
<1>5. Unborn(q)
  BY DEF Unborn
<1>6. Called(q, E \ {n})
  <2> SUFFICES ASSUME NEW g \in Futures, q.owner[g] # NONE, q.result[g] = NONE, ~q.trapped[g],
                      q.pc[q.owner[g]] # "lost"
               PROVE  \E j \in E \ {n} : IsOf(q, j, g)
    BY DEF Called
  <2>1. s.pc[s.owner[g]] # "lost" /\ s.result[g] = NONE /\ ~s.trapped[g] /\ s.owner[g] # NONE
    BY <1>e
  <2>2. PICK j \in E : IsOf(s, j, g)
    BY <2>1 DEF Called
  <2>3. j # n
    BY <2>1, <2>2, <1>f
  <2> QED BY <2>2, <2>3, <1>b
<1>7. BailsOut(q, E \ {n})
  <2> SUFFICES ASSUME NEW g \in Futures, q.trapped[g], q.cleanup[g] # NONE
               PROVE  \/ q.pc[q.cleanup[g]] \in {"bailed", "lost"}
                      \/ /\ q.pc[q.cleanup[g]] = "suspended"
                         /\ \A j \in E \ {n} : GoesOn(q, j, q.cleanup[g]) => q.table[j].kind = "bail"
    BY DEF BailsOut
  <2>1. q.cleanup[g] \in Threads /\ q.cleanup[g] = s.cleanup[g]
    OBVIOUS
  <2> QED BY <2>1, <1>c, <1>e DEF BailsOut
<1> QED BY <1>1, <1>2, <1>3, <1>4, <1>5, <1>6, <1>7

\* An upgrade drops what the program has in memory.
LEMMA Upgrades ==
    ASSUME NEW s, NEW q, NEW E, NEW L,
           StateOK(s), Consistent(s, E, L),
           E = {},
           q.pc = s.pc, q.owner = [g \in Futures |-> NONE], q.table = [j \in {} |-> TRAP],
           q.created = s.created, q.result = s.result, q.trapped = s.trapped,
           q.waiter = s.waiter, q.cleanup = s.cleanup
    PROVE  Consistent(q, {}, {})
<1> USE DEF StateOK, Consistent, SameFutures
<1>1. TableOf(q, {}, {})
  BY DEF TableOf
<1>2. Open(q, {})
  BY DEF Open
<1>3. OneCall(q, {})
  BY DEF OneCall
<1>4. Awaited(q, {})
  BY DEF Awaited
<1>5. Unborn(q)
  BY DEF Unborn
<1>6. Called(q, {})
  BY DEF Called
<1>7. BailsOut(q, {})
  BY DEF BailsOut
<1> QED BY <1>1, <1>2, <1>3, <1>4, <1>5, <1>6, <1>7

-----------------------------------------------------------------------------
(***************************************************************************)
(* What the steps do to the set of calls.                                  *)
(***************************************************************************)
\* An answer stays with its call.
LEMMA AnswerKeeps ==
    ASSUME NEW cs \in SUBSET Calls, OneEach(cs), NEW c \in cs, NEW r \in {"reply", "reject"},
           NEW ds, ds = (cs \ {c}) \cup {Answered(c, r)}
    PROVE  ds \in SUBSET Calls /\ OneEach(ds) /\ Envs(ds) = Envs(cs)
<1>1. Answered(c, r) \in Calls /\ Answered(c, r).env = c.env
  BY DEF Calls, Answered
<1>2. OneEach(ds)
  BY <1>1 DEF OneEach
<1>3. Envs(ds) = Envs(cs)
  BY <1>1 DEF Envs
<1> QED BY <1>1, <1>2, <1>3

\* ... also when it is the thread that replies.
LEMMA CallerAnsweredKeeps ==
    ASSUME NEW cs \in SUBSET Calls, OneEach(cs), NEW t, NEW r \in {"reply", "reject"}
    PROVE  /\ CallerAnswered(cs, t, r) \in SUBSET Calls /\ OneEach(CallerAnswered(cs, t, r))
           /\ Envs(CallerAnswered(cs, t, r)) = Envs(cs)
<1>1. \A c \in cs : Answered(c, r) \in Calls /\ Answered(c, r).env = c.env
  BY DEF Calls, Answered
<1> DEFINE g(c) == IF c.callee = t THEN Answered(c, r) ELSE c
<1>2. \A c \in cs : g(c) \in Calls /\ g(c).env = c.env
  BY <1>1
<1>3. CallerAnswered(cs, t, r) = {g(c) : c \in cs}
  BY DEF CallerAnswered
<1> HIDE DEF g
<1>4. OneEach(CallerAnswered(cs, t, r))
  BY <1>2, <1>3 DEF OneEach
<1>5. Envs(CallerAnswered(cs, t, r)) = Envs(cs)
  <2>1. \A i : i \in Envs(CallerAnswered(cs, t, r)) <=> \E c \in cs : g(c).env = i
    BY <1>3 DEF Envs
  <2>2. \A i : i \in Envs(cs) <=> \E c \in cs : c.env = i
    BY DEF Envs
  <2> QED BY <1>2, <2>1, <2>2
<1> QED BY <1>2, <1>3, <1>4, <1>5

\* A callback takes the index of its call with it.
LEMMA CallRemoved ==
    ASSUME NEW cs \in SUBSET Calls, OneEach(cs), NEW c \in cs
    PROVE  /\ cs \ {c} \in SUBSET Calls /\ OneEach(cs \ {c})
           /\ Envs(cs \ {c}) = Envs(cs) \ {c.env} /\ c.env \in Envs(cs)
  BY DEF OneEach, Envs

\* A call has an index of its own.
LEMMA CallAdded ==
    ASSUME NEW cs \in SUBSET Calls, OneEach(cs), NEW c \in Calls, c.env \notin Envs(cs)
    PROVE  /\ cs \cup {c} \in SUBSET Calls /\ OneEach(cs \cup {c})
           /\ Envs(cs \cup {c}) = Envs(cs) \cup {c.env}
  BY DEF OneEach, Envs
-----------------------------------------------------------------------------
(***************************************************************************)
(* What the steps do to the saved state.                                   *)
(***************************************************************************)
\* A message that begins saves the state.
LEMMA SavesCurrent ==
    ASSUME CurrentOK, msg = NoMessage, leaked' = leaked,
           NEW t \in Threads \cup {NONE}, NEW kind \in {"update", "async"}, NEW first \in Threads,
           pc[first] = "idle", NEW awaited, Begin(kind, t, first, NONE, awaited, calls)
    PROVE  SavedOK'
<1>1. msg'.kind = kind /\ msg'.saved = Saved /\ msg'.calls = calls /\ msg'.first = first
  BY DEF Begin
<1>2. Consumed({"cleanup"}) = {} /\ Consumed({"callback"})' = {}
  BY <1>1 DEF Consumed, NoMessage
<1>3. Saved.pc[first] = "idle"
  BY DEF Saved
<1> QED BY <1>1, <1>2, <1>3 DEF CurrentOK, SavedOK

\* So does a callback, whose call is not outstanding any more.
LEMMA SavesBefore ==
    ASSUME CurrentOK, msg = NoMessage, leaked' = leaked, NEW c \in calls,
           NEW t \in Threads \cup {NONE}, NEW awaited,
           Begin("callback", t, NONE, c.env, awaited, calls \ {c})
    PROVE  SavedOK'
<1>1. /\ msg'.kind = "callback" /\ msg'.saved = Saved /\ msg'.calls = calls \ {c}
      /\ msg'.env = c.env
  BY DEF Begin
<1>2. Consumed({"cleanup"}) = {} /\ Consumed({"callback"})' = {c.env}
  BY <1>1 DEF Consumed, NoMessage
<1>3. /\ calls \ {c} \subseteq Calls /\ OneEach(calls \ {c})
      /\ Envs(calls \ {c}) = Envs(calls) \ {c.env} /\ c.env \in Envs(calls)
  BY CallRemoved DEF CurrentOK
<1>4. Envs(calls \ {c}) \cup {c.env} = Envs(calls) /\ {c.env} \cap Envs(calls \ {c}) = {}
  BY <1>3
<1>5. Consistent(msg'.saved, Envs(msg'.calls) \cup Consumed({"callback"})', leaked')
  BY <1>1, <1>2, <1>4 DEF CurrentOK
<1> QED BY <1>1, <1>2, <1>3, <1>4, <1>5 DEF CurrentOK, SavedOK

\* What has been saved stays until the end of the message.
LEMMA SavedStays ==
    ASSUME SavedOK, MessageOK, msg # NoMessage, leaked' = leaked,
           NEW t, NEW awaited,
           msg' \in {msg, [msg EXCEPT !.thread = t], [msg EXCEPT !.awaited = awaited]}
    PROVE  SavedOK'
<1>1. msg'.kind = msg.kind /\ msg'.saved = msg.saved /\ msg'.calls = msg.calls
      /\ msg'.first = msg.first /\ msg'.env = msg.env
  BY DEF MessageOK
<1>2. Consumed({"callback"})' = Consumed({"callback"})
  BY <1>1 DEF Consumed
<1> QED BY <1>1, <1>2 DEF SavedOK

-----------------------------------------------------------------------------
(***************************************************************************)
(* The actions.                                                            *)
(***************************************************************************)
\* Between messages, a call is answered and the rest stays.
LEMMA AnswerPreserves ==
    ASSUME IInv, msg = NoMessage, NEW c \in calls, NEW r \in {"reply", "reject"}, Answer(c, r),
           UNCHANGED <<pc, promise, globals, table, leaked, msg>>
    PROVE  IInv'
<1>1. Saved' = Saved
  BY DEF Saved, promise, globals
<1>2. calls' \in SUBSET Calls /\ OneEach(calls') /\ Envs(calls') = Envs(calls)
  <2>1. calls \in SUBSET Calls /\ OneEach(calls)
    BY DEF IInv, CurrentOK
  <2> QED BY <2>1, AnswerKeeps DEF Answer
<1>3. Consumed({"cleanup"})' = Consumed({"cleanup"})
  BY DEF Consumed
<1>4. CurrentOK'
  <2>1. Consistent(Saved', Envs(calls') \cup Consumed({"cleanup"})', leaked')
    BY <1>1, <1>2, <1>3 DEF IInv, CurrentOK
  <2> QED BY <1>1, <1>2, <1>3, <2>1 DEF IInv, CurrentOK
<1>5. msg' = NoMessage
  OBVIOUS
<1> QED BY <1>4, <1>5 DEF IInv, MessageOK, SavedOK, RefundOfAwaited, NoMessage

\* A thread starts in a message of its own.
LEMMA StartPreserves ==
    ASSUME AsyncConstants, IInv, msg = NoMessage, NEW t \in Threads, pc[t] = "idle",
           NEW kind \in {"update", "async"},
           pc' = [pc EXCEPT ![t] = "running"], cycles' \in {cycles, NONE}, refund' \in {refund, 0},
           Begin(kind, t, t, NONE, 0, calls),
           UNCHANGED <<promise, table, calls, leaked>>
    PROVE  IInv'
<1>1. /\ Saved'.pc = [Saved.pc EXCEPT ![t] = "running"] /\ Saved.pc[t] = "idle"
      /\ SameFutures(Saved, Saved') /\ Saved'.cleanup = Saved.cleanup /\ Saved'.table = Saved.table
  BY DEF Saved, promise, SameFutures
<1>2. StateOK(Saved) /\ Consistent(Saved, Envs(calls), leaked)
  BY DEF IInv, CurrentOK, Consumed, NoMessage
<1>3. StateOK(Saved')
  BY <1>2 DEF StateOK, Saved, promise, States
<1>4. Consistent(Saved', Envs(calls), leaked)
  BY <1>1, <1>2, ThreadChanges DEF States
<1>5. msg' = [kind |-> kind, thread |-> t, first |-> t, env |-> NONE, awaited |-> 0,
              saved |-> Saved, calls |-> calls]
  BY DEF Begin
<1>6. Consumed({"cleanup"})' = {}
  BY <1>5 DEF Consumed
<1>7. CurrentOK'
  BY <1>3, <1>4, <1>6 DEF CurrentOK, IInv
<1>8. MessageOK'
  BY <1>3, <1>5 DEF MessageOK, StateOK, Saved
<1>9. SavedOK'
  BY SavesCurrent DEF IInv
<1>10. RefundOfAwaited'
  BY <1>5 DEF RefundOfAwaited
<1> QED BY <1>7, <1>8, <1>9, <1>10 DEF IInv

\* The message ends.
LEMMA CommitPreserves ==
    ASSUME IInv, Commit
    PROVE  IInv'
<1>1. Saved' = Saved /\ msg' = NoMessage
  BY DEF Saved, promise, globals, Commit
<1>2. Consumed({"cleanup"}) = {} /\ Consumed({"cleanup"})' = {}
  BY <1>1 DEF Consumed, NoMessage, Commit
<1>3. CurrentOK'
  BY <1>1, <1>2 DEF CurrentOK, IInv, Commit
<1> QED BY <1>1, <1>3 DEF IInv, MessageOK, SavedOK, RefundOfAwaited

\* While a thread runs.
LEMMA RunningFacts ==
    ASSUME AsyncConstants, IInv, NEW t \in Threads, Running(t)
    PROVE  /\ msg # NoMessage /\ msg.thread = t /\ Saved.pc[t] = "running" /\ t # NONE
           /\ StateOK(Saved) /\ calls \in SUBSET Calls /\ OneEach(calls)
           /\ Consistent(Saved, Envs(calls), leaked)
           /\ msg.kind \in {"update", "async", "callback"}
           /\ msg.awaited \in 0 .. created
<1>1. msg.kind \notin {"cleanup", "cleaned"}
  BY DEF Running, IInv, MessageOK, AsyncConstants
<1>2. Consumed({"cleanup"}) = {}
  BY <1>1 DEF Consumed
<1> QED BY <1>1, <1>2 DEF Running, IInv, MessageOK, CurrentOK, AsyncConstants, Saved

\* A step of the running thread is a step of its message.
LEMMA InMessage ==
    ASSUME AsyncConstants, IInv, NEW t \in Threads, Running(t),
           StateOK(Saved'), calls' \in SUBSET Calls, OneEach(calls'),
           Consistent(Saved', Envs(calls'), leaked'),
           leaked' = leaked, created <= created',
           msg' \in {msg, [msg EXCEPT !.thread = NONE]},
           msg'.thread # NONE => refund' = refund
                                 /\ \A f \in Futures : f <= created => getRefund'[f] = getRefund[f]
    PROVE  IInv'
<1>1. /\ msg # NoMessage /\ msg.thread = t /\ t # NONE
      /\ msg.kind \in {"update", "async", "callback"} /\ msg.awaited \in 0 .. created
  BY RunningFacts
<1>2. /\ msg'.kind = msg.kind /\ msg'.awaited = msg.awaited
      /\ msg'.thread \in {t, NONE}
      /\ msg' = [kind |-> msg.kind, thread |-> msg'.thread, first |-> msg.first,
                 env |-> msg.env, awaited |-> msg.awaited, saved |-> msg.saved,
                 calls |-> msg.calls]
  BY <1>1 DEF IInv, MessageOK
<1>3. Consumed({"cleanup"})' = {}
  BY <1>1, <1>2 DEF Consumed
<1>4. CurrentOK'
  BY <1>3 DEF CurrentOK
<1>5. created \in Nat /\ created' \in Nat
  BY DEF StateOK, Saved, IInv, CurrentOK
<1>6. MessageOK'
  BY <1>1, <1>2, <1>5 DEF MessageOK
<1>7. SavedOK'
  BY <1>1, SavedStays DEF IInv
<1>8. RefundOfAwaited'
  <2> SUFFICES ASSUME msg'.thread # NONE, msg'.awaited # 0
               PROVE  refund' = RefundOf(msg.awaited)'
    BY DEF RefundOfAwaited
  <2>1. msg.awaited \in Futures /\ msg.awaited <= created
    BY <1>1, <1>2, <1>5 DEF Futures, IInv, CurrentOK, StateOK, Saved, AsyncConstants
  <2>2. getRefund'[msg.awaited] = getRefund[msg.awaited]
    BY <2>1
  <2>3. refund = RefundOf(msg.awaited)
    BY <1>1, <1>2 DEF IInv, RefundOfAwaited
  <2> QED BY <1>2, <2>2, <2>3 DEF RefundOf
<1> QED BY <1>4, <1>6, <1>7, <1>8 DEF IInv


\* A call that is performed has an index of its own, under which the table has its entry.
LEMMA Performs ==
    ASSUME calls \in SUBSET Calls, OneEach(calls), TableOf(Saved, Envs(calls), leaked),
           NEW t \in Threads, NEW entry, NEW callee \in Threads \cup {"remote", "self"},
           Perform(t, entry, callee)
    PROVE  \E n \in Index :
              /\ n \notin Envs(calls) \cup leaked
              /\ Saved'.table = [j \in DOMAIN Saved.table \cup {n} |->
                                    IF j = n THEN entry ELSE Saved.table[j]]
              /\ calls' \in SUBSET Calls /\ OneEach(calls')
              /\ Envs(calls') = Envs(calls) \cup {n}
<1>1. PICK n \in Index \ DOMAIN table :
        /\ table' = [j \in DOMAIN table \cup {n} |-> IF j = n THEN entry ELSE table[j]]
        /\ outcome'.value = n
  <2>1. Table!Remember(entry) /\ outcome'.value # TRAP
    BY DEF Perform
  <2>2. CASE outcome' = Table!Returned("remember", entry, TRAP)
    BY <2>1, <2>2 DEF Table!Returned
  <2>3. CASE \E n \in Index \ DOMAIN table :
               /\ table' = [j \in DOMAIN table \cup {n} |-> IF j = n THEN entry ELSE table[j]]
               /\ outcome' = Table!Returned("remember", entry, n)
    BY <2>3 DEF Table!Returned
  <2> QED BY <2>1, <2>2, <2>3 DEF Table!Remember
<1>2. n \notin Envs(calls) \cup leaked
  BY DEF TableOf, Saved
<1>3. /\ Saved'.table = table' /\ Saved.table = table
  BY DEF Saved
<1> DEFINE c == [env |-> n, owner |-> t, callee |-> callee, response |-> "none"]
<1>4. c \in Calls /\ c.env = n
  BY DEF Calls
<1>5. calls' = calls \cup {c}
  BY <1>1 DEF Perform
<1> HIDE DEF c
<1>6. calls' \in SUBSET Calls /\ OneEach(calls') /\ Envs(calls') = Envs(calls) \cup {n}
  BY <1>2, <1>4, <1>5, CallAdded
<1> QED BY <1>1, <1>2, <1>3, <1>6

\* The actions of a running thread: Cycles.add,
LEMMA AddCyclesPreserves ==
    ASSUME AsyncConstants, IInv, NEW t \in Threads, AddCycles(t)
    PROVE  IInv'
<1>1. Running(t)
  BY DEF AddCycles
<1>2. /\ StateOK(Saved) /\ calls \in SUBSET Calls /\ OneEach(calls)
      /\ Consistent(Saved, Envs(calls), leaked) /\ Saved.pc[t] = "running"
  BY <1>1, RunningFacts
<1>3. StateOK(Saved')
  BY <1>2 DEF StateOK, Saved, AddCycles, promise
<1>4. /\ Saved'.pc = [Saved.pc EXCEPT ![t] = "running"]
      /\ SameFutures(Saved, Saved') /\ Saved'.cleanup = Saved.cleanup /\ Saved'.table = Saved.table
  BY <1>2 DEF StateOK, Saved, AddCycles, promise, SameFutures, tableVars
<1>5. Consistent(Saved', Envs(calls), leaked)
  BY <1>2, <1>4, ThreadChanges DEF States
<1>6. created' = created /\ created \in Nat
  BY <1>2 DEF StateOK, Saved, AddCycles, promise
<1> QED BY <1>1, <1>2, <1>3, <1>5, <1>6, InMessage DEF AddCycles, promise

\* ... a call,
LEMMA CallPreserves ==
    ASSUME AsyncConstants, IInv, NEW t \in Threads, NEW callee \in Threads \cup {"remote"},
           NEW withCycles \in BOOLEAN, Call(t, callee, withCycles)
    PROVE  IInv'
<1> DEFINE f == created + 1
<1>1. Running(t) /\ f \in Futures
  BY DEF Call, IInv, CurrentOK, StateOK, Saved, AsyncConstants, Futures
<1>2. /\ StateOK(Saved) /\ calls \in SUBSET Calls /\ OneEach(calls)
      /\ Consistent(Saved, Envs(calls), leaked) /\ Saved.pc[t] = "running"
  BY <1>1, RunningFacts
<1>3. created \in Nat /\ cycles' = NONE /\ UNCHANGED <<pc, refund, leaked, msg>>
      /\ UNCHANGED <<result, trapped, waiter, cleanup>>
  BY <1>2 DEF StateOK, Saved, Call, promise
<1>4. CASE /\ Perform(t, [kind |-> "future", future |-> f], callee)
           /\ created' = f
           /\ owner' = [owner EXCEPT ![f] = t]
           /\ getRefund' = [getRefund EXCEPT ![f] = withCycles \/ cycles # NONE]
  <2>1. PICK n \in Index :
              /\ n \notin Envs(calls) \cup leaked
              /\ Saved'.table = [j \in DOMAIN Saved.table \cup {n} |->
                                    IF j = n THEN [kind |-> "future", future |-> f]
                                    ELSE Saved.table[j]]
              /\ calls' \in SUBSET Calls /\ OneEach(calls')
              /\ Envs(calls') = Envs(calls) \cup {n}
    <3>1. callee \in Threads \cup {"remote", "self"} /\ TableOf(Saved, Envs(calls), leaked)
      BY <1>2 DEF Consistent
    <3> QED BY <1>2, <1>4, <3>1, Performs, SMTT(30)
  <2>2. StateOK(Saved')
    BY <1>1, <1>2, <1>3, <1>4 DEF StateOK, Saved, Futures
  <2>3. /\ f = Saved.created + 1 /\ Saved'.pc = Saved.pc /\ Saved'.created = f
        /\ Saved'.owner = [Saved.owner EXCEPT ![f] = t]
        /\ Saved'.result = Saved.result /\ Saved'.trapped = Saved.trapped
        /\ Saved'.waiter = Saved.waiter /\ Saved'.cleanup = Saved.cleanup
    BY <1>3, <1>4 DEF Saved
  <2> HIDE DEF f
  <2>4. Consistent(Saved', Envs(calls) \cup {n}, leaked)
    BY <1>1, <1>2, <2>1, <2>3, CallsOut
  <2>5. created <= created' /\ \A g \in Futures : g <= created => getRefund'[g] = getRefund[g]
    <3>1. \A g \in Futures : g <= created => g # f
      BY <1>3 DEF f, Futures
    <3> QED BY <1>2, <1>3, <1>4, <3>1 DEF StateOK, Saved, f
  <2> QED BY <1>1, <1>3, <2>1, <2>2, <2>4, <2>5, InMessage
<1>5. CASE NotPerformed /\ UNCHANGED promise
  <2>1. StateOK(Saved')
    BY <1>2, <1>3, <1>5 DEF StateOK, Saved, promise, NotPerformed, tableVars
  <2>2. /\ Saved'.pc = [Saved.pc EXCEPT ![t] = "running"]
        /\ SameFutures(Saved, Saved') /\ Saved'.cleanup = Saved.cleanup /\ Saved'.table = Saved.table
    BY <1>2, <1>3, <1>5 DEF StateOK, Saved, promise, SameFutures, NotPerformed, tableVars
  <2>3. Consistent(Saved', Envs(calls), leaked)
    BY <1>2, <2>2, ThreadChanges DEF States
  <2> QED BY <1>1, <1>2, <1>3, <1>5, <2>1, <2>3, InMessage DEF promise, NotPerformed
<1> QED BY <1>4, <1>5 DEF Call

\* ... its return or throw,
LEMMA FinishPreserves ==
    ASSUME AsyncConstants, IInv, NEW t \in Threads, NEW response \in {"reply", "reject"},
           Finish(t, response)
    PROVE  IInv'
<1>1. Running(t)
  BY DEF Finish
<1>2. /\ StateOK(Saved) /\ calls \in SUBSET Calls /\ OneEach(calls)
      /\ Consistent(Saved, Envs(calls), leaked) /\ Saved.pc[t] = "running"
  BY <1>1, RunningFacts
<1>3. StateOK(Saved') /\ created' = created /\ created \in Nat
  BY <1>2 DEF StateOK, Saved, Finish, Stop, promise, globals, States, Ended
<1>4. /\ Saved'.pc = [Saved.pc EXCEPT ![t] = "finished"]
      /\ SameFutures(Saved, Saved') /\ Saved'.cleanup = Saved.cleanup /\ Saved'.table = Saved.table
  BY DEF Saved, Finish, Stop, promise, tableVars, SameFutures
<1>5. Consistent(Saved', Envs(calls), leaked)
  BY <1>2, <1>4, ThreadChanges DEF States, Ended
<1>6. calls' \in SUBSET Calls /\ OneEach(calls') /\ Envs(calls') = Envs(calls)
  BY <1>2, CallerAnsweredKeeps DEF Finish
<1>7. msg' = [msg EXCEPT !.thread = NONE] /\ msg'.thread = NONE
  BY DEF Finish, Stop, Running, IInv, MessageOK
<1> QED BY <1>1, <1>3, <1>5, <1>6, <1>7, InMessage DEF Finish


\* ... an await,
LEMMA AwaitPreserves ==
    ASSUME AsyncConstants, IInv, NEW t \in Threads, NEW f \in Futures, Await(t, f)
    PROVE  IInv'
<1>1. /\ Running(t) /\ owner[f] = t /\ cleanup' = [cleanup EXCEPT ![f] = t]
      /\ UNCHANGED <<created, owner, result, trapped, getRefund, refund, leaked>>
  BY DEF Await
<1>2. /\ StateOK(Saved) /\ calls \in SUBSET Calls /\ OneEach(calls)
      /\ Consistent(Saved, Envs(calls), leaked) /\ Saved.pc[t] = "running" /\ t # NONE
  BY <1>1, RunningFacts
<1>3. created' = created /\ created \in Nat /\ Saved.owner[f] = t
      /\ Saved'.cleanup = [Saved.cleanup EXCEPT ![f] = t]
  BY <1>1, <1>2 DEF StateOK, Saved
<1>4. ASSUME Stop(t, "suspended") \/ Stop(t, "bailed")
      PROVE  msg' = [msg EXCEPT !.thread = NONE] /\ msg'.thread = NONE
  BY <1>1, <1>4 DEF Stop, Running, IInv, MessageOK
<1>5. ASSUME NEW kind \in Suspension,
             IF trapped[f] THEN kind = "bail" ELSE result[f] # NONE,
             cycles' = NONE, Perform(t, [kind |-> kind, thread |-> t, future |-> f], "self"),
             Stop(t, "suspended"), UNCHANGED waiter
      PROVE  IInv'
  <2>1. PICK n \in Index :
              /\ n \notin Envs(calls) \cup leaked
              /\ Saved'.table = [j \in DOMAIN Saved.table \cup {n} |->
                                    IF j = n THEN [kind |-> kind, thread |-> t, future |-> f]
                                    ELSE Saved.table[j]]
              /\ calls' \in SUBSET Calls /\ OneEach(calls')
              /\ Envs(calls') = Envs(calls) \cup {n}
    <3>1. TableOf(Saved, Envs(calls), leaked)
      BY <1>2 DEF Consistent
    <3> QED BY <1>2, <1>5, <3>1, Performs
  <2>2. StateOK(Saved')
    BY <1>1, <1>2, <1>5 DEF StateOK, Saved, Stop, States
  <2>3. /\ Saved'.pc = [Saved.pc EXCEPT ![t] = "suspended"] /\ SameFutures(Saved, Saved')
        /\ IF Saved.trapped[f] THEN kind = "bail" ELSE Saved.result[f] # NONE
    BY <1>1, <1>5 DEF Saved, SameFutures, Stop
  <2>4. Consistent(Saved', Envs(calls) \cup {n}, leaked)
    BY <1>2, <1>3, <1>5, <2>1, <2>3, CallsSelf
  <2>5. msg' = [msg EXCEPT !.thread = NONE] /\ msg'.thread = NONE
    BY <1>4, <1>5
  <2>6. /\ Consistent(Saved', Envs(calls'), leaked') /\ leaked' = leaked /\ created <= created'
        /\ msg' \in {msg, [msg EXCEPT !.thread = NONE]}
    BY <1>1, <1>3, <2>1, <2>4, <2>5
  <2> QED BY <1>1, <2>1, <2>2, <2>5, <2>6, InMessage
<1>6. CASE trapped[f] /\ SelfCall(t, f, "bail") /\ UNCHANGED waiter
  <2>1. CASE NotPerformed /\ Stop(t, "bailed") /\ cycles' = NONE
    <3>1. StateOK(Saved')
      BY <1>1, <1>2, <1>6, <2>1 DEF StateOK, Saved, Stop, States, Ended, NotPerformed, tableVars
    <3>2. /\ Saved'.pc = [Saved.pc EXCEPT ![t] = "bailed"] /\ SameFutures(Saved, Saved')
          /\ Saved'.table = Saved.table /\ Saved.trapped[f]
      BY <1>1, <1>6, <2>1 DEF Saved, SameFutures, Stop, NotPerformed, tableVars
    <3>3. Consistent(Saved', Envs(calls), leaked)
      BY <1>2, <1>3, <3>2, AwaitStops
    <3> QED BY <1>1, <1>2, <1>3, <1>4, <2>1, <3>1, <3>3, InMessage DEF NotPerformed
  <2> QED BY <1>5, <1>6, <2>1 DEF SelfCall, Suspension
<1>7. CASE ~trapped[f] /\ result[f] = NONE /\ Suspend(t, f)
  <2>1. StateOK(Saved')
    BY <1>1, <1>2, <1>7 DEF StateOK, Saved, Suspend, Stop, States, tableVars
  <2>2. /\ Saved'.pc = [Saved.pc EXCEPT ![t] = "suspended"]
        /\ Saved'.waiter = [Saved.waiter EXCEPT ![f] = t]
        /\ Saved'.created = Saved.created /\ Saved'.owner = Saved.owner /\ Saved'.result = Saved.result
        /\ Saved'.trapped = Saved.trapped /\ Saved'.table = Saved.table
        /\ ~Saved.trapped[f] /\ Saved.result[f] = NONE
    BY <1>1, <1>7 DEF Saved, Suspend, Stop, tableVars
  <2>3. Consistent(Saved', Envs(calls), leaked)
    BY <1>2, <1>3, <2>2, Suspends DEF AsyncConstants
  <2> QED BY <1>1, <1>2, <1>3, <1>4, <1>7, <2>1, <2>3, InMessage DEF Suspend
<1>8. CASE ~trapped[f] /\ result[f] # NONE /\ SelfCall(t, f, "schedule") /\ UNCHANGED waiter
  <2>1. CASE NotPerformed /\ UNCHANGED <<pc, msg>> /\ cycles' = NONE
    <3>1. StateOK(Saved')
      BY <1>1, <1>2, <1>8, <2>1 DEF StateOK, Saved, NotPerformed, tableVars
    <3>2. /\ Saved'.pc = Saved.pc /\ SameFutures(Saved, Saved')
          /\ Saved'.table = Saved.table /\ ~Saved.trapped[f] /\ Saved.result[f] # NONE
      BY <1>1, <1>8, <2>1 DEF Saved, SameFutures, NotPerformed, tableVars
    <3>3. Consistent(Saved', Envs(calls), leaked)
      BY <1>2, <1>3, <3>2, AwaitGoesOn
    <3> QED BY <1>1, <1>2, <1>3, <2>1, <3>1, <3>3, InMessage DEF NotPerformed
  <2> QED BY <1>5, <1>8, <2>1 DEF SelfCall, Suspension
<1> QED BY <1>6, <1>7, <1>8 DEF Await

\* ... and an await?.
LEMMA AwaitNowPreserves ==
    ASSUME AsyncConstants, IInv, NEW t \in Threads, NEW f \in Futures, AwaitNow(t, f)
    PROVE  IInv'
<1>1. /\ Running(t) /\ owner[f] = t /\ cleanup' = [cleanup EXCEPT ![f] = t]
      /\ UNCHANGED <<created, owner, result, trapped, getRefund, leaked>>
  BY DEF AwaitNow
<1>2. /\ StateOK(Saved) /\ calls \in SUBSET Calls /\ OneEach(calls)
      /\ Consistent(Saved, Envs(calls), leaked) /\ Saved.pc[t] = "running" /\ t # NONE
  BY <1>1, RunningFacts
<1>3. created' = created /\ created \in Nat /\ Saved.owner[f] = t
      /\ Saved'.cleanup = [Saved.cleanup EXCEPT ![f] = t]
  BY <1>1, <1>2 DEF StateOK, Saved
<1>4. ASSUME Stop(t, "suspended") \/ Stop(t, "bailed")
      PROVE  msg' = [msg EXCEPT !.thread = NONE] /\ msg'.thread = NONE
  BY <1>1, <1>4 DEF Stop, Running, IInv, MessageOK
<1>5. CASE trapped[f] /\ Stop(t, "bailed") /\ UNCHANGED <<waiter, globals, tableVars, calls>>
  <2>1. StateOK(Saved')
    BY <1>1, <1>2, <1>5 DEF StateOK, Saved, Stop, States, Ended, tableVars, globals
  <2>2. /\ Saved'.pc = [Saved.pc EXCEPT ![t] = "bailed"] /\ SameFutures(Saved, Saved')
        /\ Saved'.table = Saved.table /\ Saved.trapped[f]
    BY <1>1, <1>5 DEF Saved, SameFutures, Stop, tableVars
  <2>3. Consistent(Saved', Envs(calls), leaked)
    BY <1>2, <1>3, <2>2, AwaitStops
  <2> QED BY <1>1, <1>2, <1>3, <1>4, <1>5, <2>1, <2>3, InMessage
<1>6. CASE ~trapped[f] /\ result[f] = NONE /\ Suspend(t, f) /\ UNCHANGED refund
  <2>1. StateOK(Saved')
    BY <1>1, <1>2, <1>6 DEF StateOK, Saved, Suspend, Stop, States, tableVars
  <2>2. /\ Saved'.pc = [Saved.pc EXCEPT ![t] = "suspended"]
        /\ Saved'.waiter = [Saved.waiter EXCEPT ![f] = t]
        /\ Saved'.created = Saved.created /\ Saved'.owner = Saved.owner /\ Saved'.result = Saved.result
        /\ Saved'.trapped = Saved.trapped /\ Saved'.table = Saved.table
        /\ ~Saved.trapped[f] /\ Saved.result[f] = NONE
    BY <1>1, <1>6 DEF Saved, Suspend, Stop, tableVars
  <2>3. Consistent(Saved', Envs(calls), leaked)
    BY <1>2, <1>3, <2>2, Suspends DEF AsyncConstants
  <2> QED BY <1>1, <1>2, <1>3, <1>4, <1>6, <2>1, <2>3, InMessage DEF Suspend
<1>7. CASE /\ ~trapped[f] /\ result[f] # NONE /\ UNCHANGED <<pc, waiter, cycles, tableVars, calls>>
           /\ refund' \in {refund, RefundOf(f)}
  <2>1. RefundOf(f) \in Futures \cup {0}
    BY DEF RefundOf
  <2>2. StateOK(Saved')
    BY <1>1, <1>2, <1>7, <2>1 DEF StateOK, Saved, tableVars
  <2>3. /\ Saved'.pc = Saved.pc /\ SameFutures(Saved, Saved')
        /\ Saved'.table = Saved.table /\ ~Saved.trapped[f] /\ Saved.result[f] # NONE
    BY <1>1, <1>7 DEF Saved, SameFutures, tableVars
  <2>4. Consistent(Saved', Envs(calls), leaked)
    BY <1>2, <1>3, <2>3, AwaitGoesOn
  <2>5. CASE UNCHANGED <<refund, msg>>
    BY <1>1, <1>2, <1>3, <1>7, <2>2, <2>4, <2>5, InMessage
  <2>6. CASE refund' = RefundOf(f) /\ msg' = [msg EXCEPT !.awaited = f]
    <3>1. f \in 0 .. created
      <4>1. ~(f > Saved.created)
        BY <1>2, <1>3 DEF Consistent, Unborn
      <4> QED BY <1>3, <4>1 DEF Saved, Futures
    <3>2. /\ msg # NoMessage /\ msg.thread = t /\ msg.kind \in {"update", "async", "callback"}
      BY <1>1, RunningFacts
    <3>3. msg' = [kind |-> msg.kind, thread |-> t, first |-> msg.first, env |-> msg.env,
                  awaited |-> f, saved |-> msg.saved, calls |-> msg.calls]
      BY <2>6, <3>2 DEF IInv, MessageOK
    <3>4. Consumed({"cleanup"})' = {}
      BY <3>2, <3>3 DEF Consumed
    <3>5. CurrentOK'
      BY <1>1, <1>2, <1>7, <2>2, <2>4, <3>4 DEF CurrentOK
    <3>6. MessageOK'
      BY <1>3, <3>1, <3>2, <3>3 DEF MessageOK
    <3>7. SavedOK'
      <4>1. msg' \in {msg, [msg EXCEPT !.thread = t], [msg EXCEPT !.awaited = f]}
        BY <2>6
      <4> QED BY <1>1, <3>2, <4>1, SavedStays DEF IInv
    <3>8. RefundOfAwaited'
      BY <1>1, <2>6, <3>3 DEF RefundOfAwaited, RefundOf
    <3> QED BY <3>5, <3>6, <3>7, <3>8 DEF IInv
  <2> QED BY <1>1, <1>7, <2>5, <2>6 DEF AwaitNow, Suspend
<1> QED
  <2>1. CASE ~trapped[f] /\ result[f] # NONE
    <3>1. /\ UNCHANGED <<pc, waiter, cycles, tableVars, calls>>
          /\ refund' \in {refund, RefundOf(f)}
      BY <2>1 DEF AwaitNow
    <3> QED BY <1>7, <2>1, <3>1
  <2> QED BY <1>5, <1>6, <2>1 DEF AwaitNow


\* The continuation of an outstanding call is there.
LEMMA Recalls ==
    ASSUME AsyncConstants, NEW E, NEW L, TableOf(Saved, E, L), NEW i \in E, Table!Recall(i)
    PROVE  /\ outcome'.value = table[i] /\ table[i] \in Entries /\ table[i] # TRAP
           /\ Saved'.table = [j \in DOMAIN Saved.table \ {i} |-> Saved.table[j]]
<1>1. i \in DOMAIN table /\ table[i] \in Entries
  BY DEF TableOf, Saved
<1>2. table' = [j \in DOMAIN table \ {i} |-> table[j]] /\ outcome'.value = table[i]
  BY <1>1 DEF Table!Recall, Table!Returned
<1> QED BY <1>1, <1>2 DEF Saved, AsyncConstants

\* A callback begins, with what its entry stands for.
LEMMA CallbackBegins ==
    ASSUME AsyncConstants, IInv, msg = NoMessage, NEW c \in calls, calls' = calls \ {c}, leaked' = leaked,
           NEW t \in Threads \cup {NONE}, NEW awaited \in 0 .. created',
           Begin("callback", t, NONE, c.env, awaited, calls \ {c}),
           StateOK(Saved'), Consistent(Saved', Envs(calls) \ {c.env}, leaked),
           t # NONE /\ awaited # 0 => refund' = RefundOf(awaited) /\ getRefund' = getRefund
    PROVE  IInv'
<1>1. msg' = [kind |-> "callback", thread |-> t, first |-> NONE, env |-> c.env,
              awaited |-> awaited, saved |-> Saved, calls |-> calls \ {c}]
  BY DEF Begin
<1>2. /\ calls' \in SUBSET Calls /\ OneEach(calls') /\ Envs(calls') = Envs(calls) \ {c.env}
  BY CallRemoved DEF IInv, CurrentOK
<1>3. Consumed({"cleanup"})' = {}
  BY <1>1 DEF Consumed
<1>4. CurrentOK'
  BY <1>2, <1>3 DEF CurrentOK
<1>5. MessageOK'
  BY <1>1 DEF MessageOK
<1>6. SavedOK'
  BY SavesBefore DEF IInv
<1>7. RefundOfAwaited'
  BY <1>1 DEF RefundOfAwaited, RefundOf
<1> QED BY <1>4, <1>5, <1>6, <1>7 DEF IInv

\* A future is completed by one answer.
LEMMA CompletePreserves ==
    ASSUME AsyncConstants, IInv, msg = NoMessage, NEW c \in calls, calls' = calls \ {c}, leaked' = leaked,
           NEW f \in Futures, IsOf(Saved, c.env, f), NEW value \in {"ok", "error"},
           Complete(c, f, value),
           Saved'.table = [j \in DOMAIN Saved.table \ {c.env} |-> Saved.table[j]]
    PROVE  IInv'
<1> DEFINE t == waiter[f]
<1>1. StateOK(Saved) /\ Consistent(Saved, Envs(calls), leaked) /\ c.env \in Envs(calls)
  BY DEF IInv, CurrentOK, Consumed, NoMessage, Envs
<1>2. /\ result' = [result EXCEPT ![f] = value] /\ waiter' = [waiter EXCEPT ![f] = NONE]
      /\ UNCHANGED <<created, owner, trapped, cleanup, getRefund>>
      /\ IF t = NONE THEN UNCHANGED globals
         ELSE cycles' = NONE /\ refund' = IF value = "ok" THEN RefundOf(f) ELSE 0
      /\ pc' = IF t = NONE THEN pc ELSE [pc EXCEPT ![t] = "running"]
      /\ Begin("callback", t, NONE, c.env, IF t # NONE /\ value = "ok" THEN f ELSE 0, calls \ {c})
  BY DEF Complete, Run
<1>3. t \in Threads \cup {NONE} /\ RefundOf(f) \in Futures \cup {0}
  BY <1>1 DEF StateOK, Saved, RefundOf
<1>4. StateOK(Saved')
  BY <1>1, <1>2, <1>3 DEF StateOK, Saved, States, globals
<1>5. /\ Saved'.pc = IF Saved.waiter[f] = NONE THEN Saved.pc
                     ELSE [Saved.pc EXCEPT ![Saved.waiter[f]] = "running"]
      /\ Saved'.result = [Saved.result EXCEPT ![f] = value]
      /\ Saved'.waiter = [Saved.waiter EXCEPT ![f] = NONE]
      /\ Saved'.created = Saved.created /\ Saved'.owner = Saved.owner
      /\ Saved'.trapped = Saved.trapped /\ Saved'.cleanup = Saved.cleanup
  BY <1>2 DEF Saved
<1>6. Consistent(Saved', Envs(calls) \ {c.env}, leaked)
  BY <1>1, <1>5, Completes
<1>7. f \in 0 .. created' /\ 0 \in 0 .. created'
  <2>1. f <= Saved.created
    BY <1>1 DEF Consistent, Open
  <2> QED BY <1>1, <1>2, <2>1 DEF Saved, Futures, StateOK
<1> HIDE DEF t
<1>8. CASE t # NONE /\ value = "ok"
  BY <1>2, <1>3, <1>4, <1>6, <1>7, <1>8, CallbackBegins
<1>9. CASE ~(t # NONE /\ value = "ok")
  BY <1>2, <1>3, <1>4, <1>6, <1>7, <1>9, CallbackBegins
<1> QED BY <1>8, <1>9

\* The answer of a self-call.
LEMMA SelfCallPreserves ==
    ASSUME AsyncConstants, IInv, msg = NoMessage, NEW c \in calls, calls' = calls \ {c}, leaked' = leaked,
           NEW t \in Threads, NEW f \in Futures,
           Saved.table[c.env].kind \in Suspension, Saved.table[c.env].thread = t,
           \/ Saved.table[c.env].kind = "schedule" /\ schedule(c, t, f)
           \/ bail(c, t),
           Saved'.table = [j \in DOMAIN Saved.table \ {c.env} |-> Saved.table[j]]
    PROVE  IInv'
<1>1. StateOK(Saved) /\ Consistent(Saved, Envs(calls), leaked) /\ c.env \in Envs(calls)
  BY DEF IInv, CurrentOK, Consumed, NoMessage, Envs
<1>2. UNCHANGED promise
  BY DEF schedule, bail
<1>3. SameFutures(Saved, Saved') /\ Saved'.cleanup = Saved.cleanup
  BY <1>2 DEF Saved, SameFutures, promise
<1>4. created' = created /\ created \in Nat /\ getRefund' = getRefund
  BY <1>1, <1>2 DEF promise, StateOK, Saved
<1>5. CASE Saved.table[c.env].kind = "schedule" /\ schedule(c, t, f)
  <2>1. /\ pc' = [pc EXCEPT ![t] = "running"] /\ cycles' = cycles
        /\ \/ /\ result[f] = "ok" /\ refund' = RefundOf(f)
              /\ Begin("callback", t, NONE, c.env, f, calls \ {c})
           \/ refund' = refund /\ Begin("callback", t, NONE, c.env, 0, calls \ {c})
    BY <1>5 DEF schedule, Run, AsyncConstants
  <2>2. RefundOf(f) \in Futures \cup {0}
    BY DEF RefundOf
  <2>3. StateOK(Saved')
    BY <1>1, <1>2, <2>1, <2>2 DEF StateOK, Saved, States, promise
  <2>4. Saved'.pc = [Saved.pc EXCEPT ![t] = "running"]
    BY <2>1 DEF Saved
  <2>5. Consistent(Saved', Envs(calls) \ {c.env}, leaked)
    BY <1>1, <1>3, <1>5, <2>4, Schedules
  <2>6. ASSUME result[f] = "ok" PROVE f \in 0 .. created'
    <3>1. ~(f > Saved.created)
      BY <1>1, <2>6 DEF Consistent, Unborn, Saved, AsyncConstants
    <3> QED BY <1>4, <3>1 DEF Saved, Futures
  <2>7. CASE result[f] = "ok" /\ refund' = RefundOf(f)
             /\ Begin("callback", t, NONE, c.env, f, calls \ {c})
    BY <1>4, <2>3, <2>5, <2>6, <2>7, CallbackBegins
  <2>8. CASE refund' = refund /\ Begin("callback", t, NONE, c.env, 0, calls \ {c})
    <3>1. t \in Threads \cup {NONE} /\ 0 \in 0 .. created'
      BY <1>4
    <3>2. Begin("callback", t, NONE, c.env, 0, calls \ {c})
      BY <2>8
    <3> QED BY <2>3, <2>5, <3>1, <3>2, CallbackBegins
  <2> QED BY <2>1, <2>7, <2>8
<1>6. CASE bail(c, t)
  <2>1. /\ pc' = [pc EXCEPT ![t] = "bailed"] /\ UNCHANGED globals
        /\ Begin("callback", NONE, NONE, c.env, 0, calls \ {c})
    BY <1>6 DEF bail
  <2>2. StateOK(Saved')
    BY <1>1, <1>2, <2>1 DEF StateOK, Saved, States, Ended, promise, globals
  <2>3. Saved'.pc = [Saved.pc EXCEPT ![t] = "bailed"]
    BY <2>1 DEF Saved
  <2>4. Consistent(Saved', Envs(calls) \ {c.env}, leaked)
    BY <1>1, <1>3, <2>3, BailsOnAnswer
  <2>5. NONE \in Threads \cup {NONE} /\ 0 \in 0 .. created'
    BY <1>4
  <2> QED BY <2>1, <2>2, <2>4, <2>5, CallbackBegins
<1> QED BY <1>5, <1>6

\* The reply or reject callback of any call.
LEMMA CallbackPreserves ==
    ASSUME AsyncConstants, IInv, NEW c \in calls, Callback(c)
    PROVE  IInv'
<1>1. msg = NoMessage /\ calls' = calls \ {c} /\ leaked' = leaked /\ Table!Recall(c.env)
  BY DEF Callback
<1>2. TableOf(Saved, Envs(calls), leaked) /\ c.env \in Envs(calls)
  BY <1>1 DEF IInv, CurrentOK, Consistent, Consumed, NoMessage, Envs
<1>3. /\ outcome'.value = table[c.env] /\ table[c.env] # TRAP
      /\ Saved'.table = [j \in DOMAIN Saved.table \ {c.env} |-> Saved.table[j]]
      /\ Saved.table = table
  BY <1>1, <1>2, Recalls DEF Saved
<1> DEFINE e == table[c.env]
<1>4. \/ e.kind = "future" /\ (fulfill(c, e.future) \/ fail(c, e.future))
      \/ e.kind = "schedule" /\ schedule(c, e.thread, e.future)
      \/ e.kind = "bail" /\ bail(c, e.thread)
  <2>1. e.kind \in {"future", "schedule", "bail"}
    BY <1>2, <1>3, EntryTypes DEF Suspension
  <2> QED BY <1>3, <2>1 DEF Callback
<1>5. CASE e.kind = "future" /\ (fulfill(c, e.future) \/ fail(c, e.future))
  <2>1. e.future \in Futures /\ IsOf(Saved, c.env, e.future)
    BY <1>2, <1>3, <1>5, EntryTypes DEF IsOf, Suspension
  <2>2. Complete(c, e.future, "ok") \/ Complete(c, e.future, "error")
    BY <1>5 DEF fulfill, fail
  <2> QED BY <1>1, <1>3, <2>1, <2>2, CompletePreserves
<1>6. CASE \/ e.kind = "schedule" /\ schedule(c, e.thread, e.future)
           \/ e.kind = "bail" /\ bail(c, e.thread)
  <2>1. e \in Entries /\ e.kind \in Suspension
    BY <1>2, <1>3, <1>6 DEF TableOf, Suspension
  <2>2. e.thread \in Threads /\ e.future \in Futures
    BY <2>1 DEF Entries, Suspension
  <2> QED BY <1>1, <1>3, <1>6, <2>1, <2>2, SelfCallPreserves
<1> QED BY <1>4, <1>5, <1>6


\* A state with the same fields is as consistent.
LEMMA SameState ==
    ASSUME NEW s, NEW q, NEW E, NEW L, Consistent(s, E, L),
           SameFutures(s, q), q.pc = s.pc, q.cleanup = s.cleanup, q.table = s.table
    PROVE  Consistent(q, E, L)
<1> USE DEF Consistent, SameFutures
<1>a. \A i \in E : /\ \A g : IsOf(q, i, g) <=> IsOf(s, i, g)
                 /\ \A u : GoesOn(q, i, u) <=> GoesOn(s, i, u)
  BY DEF IsOf, GoesOn
<1>1. TableOf(q, E, L) /\ OneCall(q, E) /\ Unborn(q)
  BY <1>a DEF TableOf, OneCall, Unborn
<1>2. Open(q, E) /\ Awaited(q, E)
  BY <1>a DEF Open, Awaited
<1>3. Called(q, E) /\ BailsOut(q, E)
  BY <1>a DEF Called, BailsOut
<1> QED BY <1>1, <1>2, <1>3

\* A trap brings back the state before the message, without its answer.
LEMMA TrapPreserves ==
    ASSUME AsyncConstants, IInv, Trap
    PROVE  IInv'
<1> DEFINE s == msg.saved
           f == msg.first
<1>1. /\ msg # NoMessage /\ msg.kind \in {"update", "async", "callback"} /\ leaked' = leaked
  BY DEF Trap
<1>2. /\ StateOK(s) /\ msg.calls \in SUBSET Calls /\ OneEach(msg.calls)
      /\ Consistent(s, Envs(msg.calls) \cup Consumed({"callback"}), leaked)
      /\ Consumed({"callback"}) \cap Envs(msg.calls) = {}
      /\ msg.kind # "callback" => f \in Threads /\ s.pc[f] = "idle"
  BY <1>1 DEF IInv, SavedOK
<1>3. /\ SameFutures(s, Saved') /\ Saved'.cleanup = s.cleanup /\ Saved'.table = s.table
      /\ Saved'.pc = pc'
  BY DEF Trap, Rollback, Saved, SameFutures
<1>4. CASE msg.kind = "callback"
  <2>1. /\ Saved'.pc = s.pc /\ calls' = msg.calls
        /\ msg' = [msg EXCEPT !.kind = "cleanup", !.thread = NONE, !.awaited = 0]
    BY <1>3, <1>4 DEF Trap
  <2>2. StateOK(Saved')
    BY <1>2, <2>1 DEF StateOK, Saved, Trap, Rollback
  <2>3. msg' = [kind |-> "cleanup", thread |-> NONE, first |-> msg.first, env |-> msg.env,
                awaited |-> 0, saved |-> s, calls |-> msg.calls]
    BY <1>1, <2>1 DEF IInv, MessageOK
  <2>4. Consumed({"callback"}) = {msg.env} /\ Consumed({"cleanup"})' = {msg.env}
    BY <1>4, <2>3 DEF Consumed
  <2>5. Consistent(Saved', Envs(calls') \cup Consumed({"cleanup"})', leaked')
    BY <1>1, <1>2, <1>3, <2>1, <2>4, SameState
  <2>6. CurrentOK'
    BY <1>2, <2>1, <2>2, <2>4, <2>5 DEF CurrentOK
  <2>7. MessageOK'
    BY <2>2, <2>3 DEF MessageOK, StateOK, Saved
  <2> QED BY <2>3, <2>6, <2>7 DEF IInv, SavedOK, RefundOfAwaited
<1>5. CASE msg.kind # "callback"
  <2>1. /\ Saved'.pc = [s.pc EXCEPT ![f] = "trapped"] /\ msg' = NoMessage
        /\ calls' = CallerAnswered(msg.calls, f, "reject")
    BY <1>3, <1>5 DEF Trap
  <2>2. StateOK(Saved')
    BY <1>2, <1>5, <2>1 DEF StateOK, Saved, Trap, Rollback, States, Ended
  <2>3. Consumed({"callback"}) = {} /\ Consumed({"cleanup"})' = {}
    BY <1>5, <2>1 DEF Consumed, NoMessage
  <2>4. calls' \in SUBSET Calls /\ OneEach(calls') /\ Envs(calls') = Envs(msg.calls)
    BY <1>2, <2>1, CallerAnsweredKeeps
  <2>5. Consistent(Saved', Envs(msg.calls), leaked)
    <3>1. Consistent(s, Envs(msg.calls), leaked)
      BY <1>2, <2>3
    <3> QED BY <1>2, <1>3, <1>5, <2>1, <3>1, ThreadChanges DEF States, Ended
  <2>6. CurrentOK'
    BY <1>1, <2>2, <2>3, <2>4, <2>5 DEF CurrentOK
  <2> QED BY <2>1, <2>6 DEF IInv, MessageOK, SavedOK, RefundOfAwaited
<1> QED BY <1>4, <1>5

\* In the cleanup callback of index i.
LEMMA CleanupFacts ==
    ASSUME AsyncConstants, IInv, msg # NoMessage, msg.kind = "cleanup"
    PROVE  /\ StateOK(Saved) /\ calls \in SUBSET Calls /\ OneEach(calls)
           /\ Consistent(Saved, Envs(calls) \cup {msg.env}, leaked)
           /\ (Envs(calls) \cup {msg.env}) \ {msg.env} = Envs(calls)
  BY DEF IInv, CurrentOK, Consumed

\* After the cleanup callback.
LEMMA CleanedPreserves ==
    ASSUME IInv, msg # NoMessage, msg.kind = "cleanup", Cleaned, calls' = calls, created' = created,
           StateOK(Saved'), Consistent(Saved', Envs(calls), leaked')
    PROVE  IInv'
<1>1. msg' = [kind |-> "cleaned", thread |-> NONE, first |-> msg.first, env |-> msg.env,
              awaited |-> msg.awaited, saved |-> msg.saved, calls |-> msg.calls]
  BY DEF Cleaned, IInv, MessageOK
<1>2. Consumed({"cleanup"})' = {}
  BY <1>1 DEF Consumed
<1>3. CurrentOK'
  BY <1>2 DEF IInv, CurrentOK
<1>4. MessageOK'
  BY <1>1 DEF IInv, MessageOK
<1> QED BY <1>1, <1>3, <1>4 DEF IInv, SavedOK, RefundOfAwaited

\* The cleanup callback, which runs after the trap of a callback.
LEMMA CleanupCallbackPreserves ==
    ASSUME AsyncConstants, IInv, CleanupCallback
    PROVE  IInv'
<1> DEFINE i == msg.env
           e == table[i]
           E == Envs(calls) \cup {i}
<1>1. /\ msg # NoMessage /\ msg.kind = "cleanup" /\ Table!Recall(i) /\ Cleaned
      /\ UNCHANGED globals /\ calls' = calls /\ leaked' = leaked
  BY DEF CleanupCallback
<1>2. StateOK(Saved) /\ Consistent(Saved, E, leaked) /\ E \ {i} = Envs(calls) /\ i \in E
  BY <1>1, CleanupFacts
<1>3. TableOf(Saved, E, leaked)
  BY <1>2 DEF Consistent
<1>4. /\ outcome'.value = e /\ e # TRAP /\ Saved.table[i] = e
      /\ Saved'.table = [j \in DOMAIN Saved.table \ {i} |-> Saved.table[j]]
  <2>1. i \in E
    OBVIOUS
  <2> HIDE DEF E, i
  <2>2. /\ outcome'.value = table[i] /\ table[i] # TRAP
        /\ Saved'.table = [j \in DOMAIN Saved.table \ {i} |-> Saved.table[j]]
    BY <1>1, <1>3, <2>1, Recalls
  <2> QED BY <2>2 DEF Saved
<1>5. \/ e.kind = "future" /\ e.future \in Futures /\ clean(e.future)
      \/ e.kind = "schedule" /\ e.thread \in Threads /\ BailOut(e.thread) /\ UNCHANGED promise
      \/ /\ e.kind = "bail" /\ e.thread \in Threads
         /\ pc' = [pc EXCEPT ![e.thread] = "lost"] /\ UNCHANGED promise
  <2>1. \/ e.kind = "future" /\ e.future \in Futures
        \/ e.kind \in Suspension /\ e.thread \in Threads /\ e.kind # "future"
    BY <1>2, <1>3, <1>4, EntryTypes
  <2> QED BY <1>4, <2>1 DEF CleanupCallback, Suspension
<1> HIDE DEF E, i
<1>6. CASE e.kind = "future" /\ e.future \in Futures /\ clean(e.future)
  <2> DEFINE f == e.future
  <2>1. /\ trapped' = [trapped EXCEPT ![f] = TRUE] /\ waiter' = [waiter EXCEPT ![f] = NONE]
        /\ pc' = IF cleanup[f] = NONE THEN pc ELSE [pc EXCEPT ![cleanup[f]] = "bailed"]
        /\ UNCHANGED <<created, owner, result, cleanup, getRefund>>
    BY <1>6 DEF clean, BailOut
  <2>2. f \in Futures /\ IsOf(Saved, i, f)
    BY <1>4, <1>6 DEF IsOf
  <2> HIDE DEF e, f
  <2>3. StateOK(Saved') /\ created' = created
    BY <1>1, <1>2, <2>1, <2>2 DEF StateOK, Saved, States, Ended, globals
  <2>4. /\ Saved'.pc = IF Saved.cleanup[f] = NONE THEN Saved.pc
                       ELSE [Saved.pc EXCEPT ![Saved.cleanup[f]] = "bailed"]
        /\ Saved'.trapped = [Saved.trapped EXCEPT ![f] = TRUE]
        /\ Saved'.waiter = [Saved.waiter EXCEPT ![f] = NONE]
        /\ Saved'.created = Saved.created /\ Saved'.owner = Saved.owner
        /\ Saved'.result = Saved.result /\ Saved'.cleanup = Saved.cleanup
    BY <2>1 DEF Saved
  <2>5. Consistent(Saved', E \ {i}, leaked)
    BY <1>2, <1>4, <2>2, <2>4, Cleans
  <2> QED BY <1>1, <1>2, <2>3, <2>5, CleanedPreserves
<1>7. CASE /\ e.kind \in Suspension /\ e.thread \in Threads /\ UNCHANGED promise
           /\ \E x \in {"bailed", "lost"} : pc' = [pc EXCEPT ![e.thread] = x]
  <2>1. PICK x \in {"bailed", "lost"} : pc' = [pc EXCEPT ![e.thread] = x]
    BY <1>7
  <2>2. StateOK(Saved') /\ created' = created
    BY <1>1, <1>2, <1>7, <2>1 DEF StateOK, Saved, States, Ended, globals, promise
  <2>3. /\ Saved'.pc = [Saved.pc EXCEPT ![e.thread] = x]
        /\ SameFutures(Saved, Saved') /\ Saved'.cleanup = Saved.cleanup
    BY <1>7, <2>1 DEF Saved, SameFutures, promise
  <2>4. Consistent(Saved', E \ {i}, leaked)
    <3> DEFINE u == e.thread
    <3>1. u \in Threads /\ i \in E /\ Saved.table[i].kind \in Suspension /\ Saved.table[i].thread = u
      BY <1>2, <1>4, <1>7
    <3>2. Saved'.pc = [Saved.pc EXCEPT ![u] = x]
      BY <2>3
    <3>3. Saved'.table = [j \in DOMAIN Saved.table \ {i} |-> Saved.table[j]]
      BY <1>4
    <3> HIDE DEF u
    <3> QED BY <1>2, <2>1, <2>3, <3>1, <3>2, <3>3, BailsOnAnswer, ZenonT(40)
  <2> QED BY <1>1, <1>2, <2>2, <2>4, CleanedPreserves
<1> QED BY <1>5, <1>6, <1>7 DEF BailOut, AsyncConstants, Suspension

\* ... and its own trap.
LEMMA CleanupTrapsPreserves ==
    ASSUME AsyncConstants, IInv, CleanupTraps
    PROVE  IInv'
<1> DEFINE i == msg.env
           e == table[i]
           E == Envs(calls) \cup {i}
           t == IF e.kind = "future" THEN cleanup[e.future] ELSE e.thread
<1>1. /\ msg # NoMessage /\ msg.kind = "cleanup" /\ Cleaned /\ leaked' = leaked \cup {i}
      /\ t # NONE /\ pc' = [pc EXCEPT ![t] = "lost"]
      /\ UNCHANGED <<promise, globals, tableVars, calls>>
  BY DEF CleanupTraps
<1>2. StateOK(Saved) /\ Consistent(Saved, E, leaked) /\ E \ {i} = Envs(calls) /\ i \in E
  BY <1>1, CleanupFacts
<1>3. TableOf(Saved, E, leaked) /\ Saved.table[i] = e
  BY <1>2 DEF Consistent, Saved
<1>4. t \in Threads
  <2>1. \/ e.kind = "future" /\ e.future \in Futures
        \/ e.kind \in Suspension /\ e.thread \in Threads /\ e.kind # "future"
    BY <1>2, <1>3, EntryTypes
  <2> QED BY <1>1, <1>2, <2>1 DEF StateOK, Saved
<1>5. t = IF Saved.table[i].kind = "future" THEN Saved.cleanup[Saved.table[i].future]
                                            ELSE Saved.table[i].thread
  BY <1>3 DEF Saved
<1> HIDE DEF t, E, i
<1>6. StateOK(Saved') /\ created' = created
  BY <1>1, <1>2, <1>4 DEF StateOK, Saved, States, Ended, globals, promise
<1>7. /\ Saved'.pc = [Saved.pc EXCEPT ![t] = "lost"] /\ Saved'.table = Saved.table
      /\ SameFutures(Saved, Saved') /\ Saved'.cleanup = Saved.cleanup
  BY <1>1 DEF Saved, SameFutures, promise, tableVars
<1>8. Consistent(Saved', E \ {i}, leaked \cup {i})
  BY <1>2, <1>4, <1>5, <1>7, Leaks
<1> QED BY <1>1, <1>2, <1>6, <1>8, CleanedPreserves

\* Nothing is outstanding when the canister is upgraded.
LEMMA UpgradePreserves ==
    ASSUME AsyncConstants, IInv, ProgramUpgrade
    PROVE  IInv'
<1>1. /\ msg = NoMessage /\ msg' = NoMessage /\ calls' = calls /\ leaked' = {}
      /\ DOMAIN table = {} \/ calls = {}
      /\ table' = [j \in {} |-> TRAP] /\ owner' = [f \in Futures |-> NONE]
      /\ cycles' = NONE /\ refund' = 0
      /\ UNCHANGED <<pc, created, result, trapped, waiter, cleanup, getRefund>>
  BY DEF ProgramUpgrade
<1>2. StateOK(Saved) /\ Consistent(Saved, Envs(calls), leaked)
  BY <1>1 DEF IInv, CurrentOK, Consumed, NoMessage
<1>3. Envs(calls) = {}
  BY <1>1, <1>2 DEF Consistent, TableOf, Saved, Envs
<1>4. StateOK(Saved')
  BY <1>1, <1>2 DEF StateOK, Saved
<1>5. /\ Saved'.pc = Saved.pc /\ Saved'.owner = [g \in Futures |-> NONE]
      /\ Saved'.table = [j \in {} |-> TRAP]
      /\ Saved'.created = Saved.created /\ Saved'.result = Saved.result /\ Saved'.trapped = Saved.trapped
      /\ Saved'.waiter = Saved.waiter /\ Saved'.cleanup = Saved.cleanup
  BY <1>1 DEF Saved
<1>6. Consistent(Saved', {}, {})
  BY <1>2, <1>3, <1>5, Upgrades
<1>7. CurrentOK'
  BY <1>1, <1>3, <1>4, <1>6 DEF CurrentOK, IInv, Consumed, NoMessage
<1> QED BY <1>1, <1>7 DEF IInv, MessageOK, SavedOK, RefundOfAwaited

-----------------------------------------------------------------------------
(***************************************************************************)
(* The invariant, and what follows from it.                                *)
(***************************************************************************)
\* The invariant holds at first, with no call and no message,
LEMMA InitOK ==
    ASSUME AsyncConstants, AsyncInit
    PROVE  IInv
<1>1. StateOK(Saved)
  BY DEF AsyncInit, StateOK, Saved, States, AsyncConstants
<1>2. msg = NoMessage /\ calls = {} /\ leaked = {} /\ table = [i \in {} |-> TRAP]
  BY DEF AsyncInit, Table!Empty
<1>3. Consistent(Saved, {}, {})
  <2>1. TableOf(Saved, {}, {})
    BY <1>2 DEF TableOf, Saved
  <2>2. Open(Saved, {}) /\ OneCall(Saved, {}) /\ Awaited(Saved, {})
    BY DEF Open, OneCall, Awaited, Saved, AsyncInit
  <2>3. Unborn(Saved) /\ Called(Saved, {}) /\ BailsOut(Saved, {})
    BY DEF Unborn, Called, BailsOut, Saved, AsyncInit
  <2> QED BY <2>1, <2>2, <2>3 DEF Consistent
<1>4. Envs(calls) = {} /\ Consumed({"cleanup"}) = {}
  BY <1>2 DEF Envs, Consumed, NoMessage
<1>5. CurrentOK
  BY <1>1, <1>2, <1>3, <1>4 DEF CurrentOK, OneEach
<1> QED BY <1>2, <1>5 DEF IInv, MessageOK, SavedOK, RefundOfAwaited

\* ... and after every step,
LEMMA StepOK ==
    ASSUME AsyncConstants, IInv, [AsyncNext]_asyncVars
    PROVE  IInv'
<1>1. CASE UNCHANGED asyncVars
  <2>1. Saved' = Saved /\ UNCHANGED <<calls, leaked, msg, created, refund, getRefund>>
    BY <1>1 DEF Saved, asyncVars, promise, globals, tableVars
  <2>2. Consumed({"cleanup"})' = Consumed({"cleanup"})
        /\ Consumed({"callback"})' = Consumed({"callback"})
    BY <2>1 DEF Consumed
  <2>3. CurrentOK' /\ MessageOK'
    BY <2>1, <2>2 DEF IInv, CurrentOK, MessageOK
  <2>4. SavedOK' /\ RefundOfAwaited'
    BY <2>1, <2>2 DEF IInv, SavedOK, RefundOfAwaited, RefundOf
  <2> QED BY <2>3, <2>4 DEF IInv
<1>2. ASSUME NEW t \in Threads, StartUpdate(t) PROVE IInv'
  BY <1>2, StartPreserves DEF StartUpdate, tableVars
<1>3. ASSUME NEW t \in Threads, Steps(t) PROVE IInv'
  <2>1. CASE AddCycles(t)
    BY <2>1, AddCyclesPreserves
  <2>2. CASE \E callee \in {"remote"} \cup (Threads \ {t}), withCycles \in BOOLEAN :
                Call(t, callee, withCycles)
    BY <2>2, CallPreserves
  <2>3. CASE \E f \in Futures : Await(t, f) \/ AwaitNow(t, f)
    BY <2>3, AwaitPreserves, AwaitNowPreserves
  <2> QED BY <1>3, <2>1, <2>2, <2>3 DEF Steps
<1>4. ASSUME NEW t \in Threads, NEW response \in {"reply", "reject"}, Finish(t, response)
      PROVE  IInv'
  BY <1>4, FinishPreserves
<1>5. ASSUME NEW c \in calls, StartAsync(c) PROVE IInv'
  <2>1. /\ msg = NoMessage /\ c.callee \in Threads /\ pc[c.callee] = "idle"
        /\ UNCHANGED <<promise, globals, leaked>>
    BY <1>5 DEF StartAsync
  <2>2. table' = table
    BY <1>5 DEF StartAsync, Table!Peek
  <2>3. \/ Answer(c, "reject") /\ UNCHANGED <<pc, msg>>
        \/ /\ pc' = [pc EXCEPT ![c.callee] = "running"]
           /\ Begin("async", c.callee, c.callee, NONE, 0, calls)
           /\ UNCHANGED calls
    BY <1>5 DEF StartAsync
  <2>4. CASE Answer(c, "reject") /\ UNCHANGED <<pc, msg>>
    BY <2>1, <2>2, <2>4, AnswerPreserves
  <2>5. CASE /\ pc' = [pc EXCEPT ![c.callee] = "running"]
             /\ Begin("async", c.callee, c.callee, NONE, 0, calls)
             /\ UNCHANGED calls
    BY <2>1, <2>2, <2>5, StartPreserves DEF globals
  <2> QED BY <2>3, <2>4, <2>5
<1>6. ASSUME NEW c \in calls, RunSelfCall(c) \/ Respond(c) \/ NoReply(c) PROVE IInv'
  <2>1. /\ \E r \in {"reply", "reject"} : Answer(c, r)
        /\ UNCHANGED <<pc, promise, globals, tableVars, leaked, msg>>
    BY <1>6 DEF RunSelfCall, Respond, NoReply
  <2>2. msg = NoMessage
    BY <1>6 DEF RunSelfCall, Respond, NoReply
  <2> QED BY <2>1, <2>2, AnswerPreserves DEF tableVars
<1>7. ASSUME NEW c \in calls, Callback(c) PROVE IInv'
  BY <1>7, CallbackPreserves
<1>8. CASE CleanupCallback \/ Commit \/ Trap \/ CleanupTraps \/ ProgramUpgrade
  BY <1>8, CleanupCallbackPreserves, CommitPreserves, TrapPreserves, CleanupTrapsPreserves,
     UpgradePreserves
<1> QED BY <1>1, <1>2, <1>3, <1>4, <1>5, <1>6, <1>7, <1>8 DEF AsyncNext, Answers

\* ... so that it always holds.
LEMMA Invariance == ASSUME AsyncConstants PROVE AsyncSpec => []IInv
<1>1. AsyncInit => IInv
  BY InitOK
<1>2. IInv /\ [AsyncNext]_asyncVars => IInv'
  BY StepOK
<1> QED BY <1>1, <1>2, PTL DEF AsyncSpec

\* The continuation table holds the continuations of the outstanding calls and
\* no others but those of trapped cleanup callbacks (continuation_table.rs, and
\* the callbacks that async.ml and internals.mo make): no failed send, trap or
\* upgrade leaks one, and no callback misses its own.
THEOREM TableIsTheCalls == ASSUME AsyncConstants PROVE AsyncSpec => []TableHoldsOutstanding
<1>1. IInv => AsyncTypeOK
  <2> SUFFICES ASSUME IInv PROVE AsyncTypeOK
    OBVIOUS
  <2>1. StateOK(Saved) /\ calls \subseteq Calls
        /\ TableOf(Saved, Envs(calls) \cup Consumed({"cleanup"}), leaked)
    BY DEF IInv, CurrentOK, Consistent
  <2> QED BY <2>1 DEF AsyncTypeOK, StateOK, Saved, States, Calls, TableOf
<1>2. IInv /\ msg = NoMessage =>
        /\ DOMAIN table = leaked \cup {c.env : c \in calls}
        /\ \A c \in calls : c.env \notin leaked
        /\ \A c, d \in calls : c.env = d.env => c = d
        /\ \A c \in calls : table[c.env].kind = "future" =>
              result[table[c.env].future] = NONE /\ ~trapped[table[c.env].future]
  <2> SUFFICES ASSUME IInv, msg = NoMessage
               PROVE  /\ DOMAIN table = leaked \cup {c.env : c \in calls}
                      /\ \A c \in calls : c.env \notin leaked
                      /\ \A c, d \in calls : c.env = d.env => c = d
                      /\ \A c \in calls : table[c.env].kind = "future" =>
                            result[table[c.env].future] = NONE /\ ~trapped[table[c.env].future]
    OBVIOUS
  <2>1. Consistent(Saved, Envs(calls), leaked) /\ OneEach(calls)
    BY DEF IInv, CurrentOK, Consumed, NoMessage
  <2>2. DOMAIN table = leaked \cup Envs(calls) /\ Envs(calls) \cap leaked = {}
    BY <2>1 DEF Consistent, TableOf, Saved
  <2>3. ASSUME NEW c \in calls, table[c.env].kind = "future"
        PROVE  result[table[c.env].future] = NONE /\ ~trapped[table[c.env].future]
    <3>1. c.env \in Envs(calls) /\ TableOf(Saved, Envs(calls), leaked) /\ Saved.table = table
      BY <2>1 DEF Envs, Consistent, Saved
    <3>2. table[c.env].future \in Futures /\ IsOf(Saved, c.env, table[c.env].future)
      BY <2>3, <3>1, EntryTypes DEF IsOf, Suspension
    <3> QED BY <2>1, <3>1, <3>2 DEF Consistent, Open, Saved
  <2> QED BY <2>1, <2>2, <2>3 DEF OneEach, Envs
<1> QED BY <1>1, <1>2, Invariance, PTL DEF TableHoldsOutstanding

\* A suspended thread is never stranded, by no order of answers, traps, failed
\* self-calls and upgrades (internals.mo: @new_async, @async_helper): exactly
\* one outstanding call goes on with it or lets it bail out.
THEOREM NobodyStranded == ASSUME AsyncConstants PROVE AsyncSpec => []NoneStranded
<1>1. IInv => NoneStranded
  <2> SUFFICES ASSUME IInv, msg = NoMessage, NEW t \in Threads, pc[t] = "suspended"
               PROVE  Cardinality({c \in calls : c.env \in DOMAIN table /\ Continues(c, t)}) = 1
    BY DEF NoneStranded
  <2>1. Consistent(Saved, Envs(calls), leaked) /\ OneEach(calls)
    BY DEF IInv, CurrentOK, Consumed, NoMessage
  <2>2. TableOf(Saved, Envs(calls), leaked) /\ Envs(calls) \subseteq DOMAIN table
    BY <2>1 DEF Consistent, TableOf, Saved
  <2>3. \A c \in calls : Continues(c, t) <=> GoesOn(Saved, c.env, t)
    <3> SUFFICES ASSUME NEW c \in calls PROVE Continues(c, t) <=> GoesOn(Saved, c.env, t)
      OBVIOUS
    <3>1. c.env \in Envs(calls) /\ Saved.table = table /\ Saved.waiter = waiter
          /\ Saved.cleanup = cleanup
      BY DEF Envs, Saved
    <3>2. CASE table[c.env].kind = "future"
      <4>1. table[c.env].future \in Futures /\ IsOf(Saved, c.env, table[c.env].future)
        BY <2>2, <3>1, <3>2, EntryTypes DEF IsOf, Suspension
      <4>2. waiter[table[c.env].future] = cleanup[table[c.env].future]
        BY <2>1, <3>1, <4>1 DEF Consistent, Open
      <4> QED BY <3>1, <3>2, <4>2 DEF Continues, GoesOn
    <3>3. CASE table[c.env].kind # "future"
      BY <3>1, <3>3 DEF Continues, GoesOn
    <3> QED BY <3>2, <3>3
  <2>4. PICK i \in Envs(calls) : GoesOn(Saved, i, t)
    BY <2>1 DEF Consistent, Awaited, Saved
  <2>5. PICK c \in calls : c.env = i
    BY DEF Envs
  <2>6. \A d \in calls : GoesOn(Saved, d.env, t) => d = c
    BY <2>1, <2>4, <2>5 DEF Consistent, Awaited, OneEach, Envs
  <2>7. {d \in calls : d.env \in DOMAIN table /\ Continues(d, t)} = {c}
    BY <2>2, <2>3, <2>4, <2>5, <2>6
  <2> QED BY <2>7, FS_Singleton
<1> QED BY <1>1, Invariance, PTL

\* Who awaits a future whose callback has trapped bails out: the trap cannot be
\* caught, also if the self-call is not performed (internals.mo: enqueue).
THEOREM TrapsAreNotCaught == ASSUME AsyncConstants PROVE AsyncSpec => []TrapNotCaught
<1>1. IInv => TrapNotCaught
  BY DEF IInv, CurrentOK, Consistent, BailsOut, TrapNotCaught, Saved
<1> QED BY <1>1, Invariance, PTL

\* The refund that a thread reads is that of the future it has awaited, whatever
\* others have awaited meanwhile (internals.mo: @refund, set by fulfill and enqueue).
THEOREM RefundIsOfAwaited == ASSUME AsyncConstants PROVE AsyncSpec => []RefundOfAwaited
<1>1. IInv => RefundOfAwaited
  BY DEF IInv
<1> QED BY <1>1, Invariance, PTL
=============================================================================
