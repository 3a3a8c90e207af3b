------------------------------- MODULE Timers -------------------------------
(***************************************************************************)
(* The default timer mechanism (src/prelude/internals.mo): a search tree   *)
(* of expirations, one global timer of the platform, and a helper message  *)
(* that takes a bounded number of expired timers, sends a self-call for    *)
(* each of their jobs and then awaits these in order.                      *)
(*                                                                         *)
(* A self-call may fail when it is sent, be rejected before it runs, or    *)
(* run for any time; other messages set and cancel timers meanwhile.  Each *)
(* action is one message execution, which the platform makes atomic.       *)
(***************************************************************************)
EXTENDS Integers, Sequences, FiniteSets

CONSTANTS
    MAX_GATHERED,   \* thunks.size(): jobs that one helper dispatches
    FALLBACK,       \* delay of @timer_fallback
    Delays,         \* delays that the program asks for
    MaxTimers,      \* bound: timers ever set
    MaxTime,        \* bound: the clock, but for a FALLBACK after each failure
    SetUntil,       \* bound: the last time at which a timer is set
    MaxFailures,    \* bound: self-calls that fail or are rejected
    MaxHelpers,     \* bound: helpers sent or running at a time
    NULL

TimerConstants ==
    /\ MAX_GATHERED \in Nat \ {0}
    /\ FALLBACK \in Nat \ {0}
    /\ Delays \subseteq Nat
    /\ MaxTimers \in Nat
    /\ MaxTime \in Nat
    /\ SetUntil \in 0 .. MaxTime
    /\ MaxFailures \in Nat
    /\ MaxHelpers \in Nat

VARIABLES
    now,            \* prim "time"
    timers,         \* @timers: NULL or a node [expire, id, delay, pre, post]
    retries,        \* @retries: timer ids, in order
    lastTimerId,
    global_timer,   \* the platform's timer: 0 when it is not set
    sent,           \* helper messages on their way
    helpers,        \* helpers that await their jobs
    failures,       \* failures so far
    ran,            \* history: how often the job of each timer has started
    oneshot,        \* history: the timers that do not recur
    cancelled,      \* history: the cancelled timers
    late            \* history: ... and what their dispatched jobs were then

clock == <<now, failures>>
queue == <<timers, retries, lastTimerId, global_timer>>
history == <<ran, oneshot, cancelled, late>>
vars == <<clock, queue, sent, helpers, history>>

Ids == 1 .. lastTimerId

Init ==
    /\ now = 1
    /\ timers = NULL
    /\ retries = <<>>
    /\ lastTimerId = 0
    /\ global_timer = 0
    /\ sent = 0
    /\ helpers = <<>>
    /\ failures = 0
    /\ ran = [i \in 1 .. MaxTimers |-> 0]
    /\ oneshot = {}
    /\ cancelled = {}
    /\ late = [i \in 1 .. MaxTimers |-> {}]

(***************************************************************************)
(* The tree.  A node with expire = 0 has been served.                      *)
(***************************************************************************)
RECURSIVE prune(_)
prune(n) ==
    IF n = NULL THEN NULL
    ELSE IF n.expire = 0 THEN prune(n.post)
    ELSE [n EXCEPT !.pre = prune(n.pre)]

RECURSIVE nextExpiration(_)
nextExpiration(n) ==
    IF n = NULL THEN 0
    ELSE IF n.expire = 0 THEN nextExpiration(n.post)
    ELSE LET exp == nextExpiration(n.pre) IN IF exp = 0 THEN n.expire ELSE exp

\* insert and reinsert
RECURSIVE insert(_, _)
insert(n, new) ==
    IF n = NULL THEN new
    ELSE IF new.expire < n.expire THEN [n EXCEPT !.pre = insert(n.pre, new)]
    ELSE [n EXCEPT !.post = insert(n.post, new)]

Leaf(id, expire, delay) ==
    [expire |-> expire, id |-> id, delay |-> delay, pre |-> NULL, post |-> NULL]

RECURSIVE graft(_, _)
graft(onto, branch) ==
    IF onto = NULL THEN branch
    ELSE IF branch = NULL THEN onto
    ELSE [onto EXCEPT !.post = graft(onto.post, branch)]

RECURSIVE hunt(_, _)
hunt(n, id) ==
    IF n = NULL THEN n
    ELSE IF n.id = id THEN graft(n.pre, n.post)
    ELSE [n EXCEPT !.pre = hunt(n.pre, id), !.post = hunt(n.post, id)]

\* n.expire[0] := 0, through the cell that all copies of the node share.
RECURSIVE expunge(_, _)
expunge(n, id) ==
    IF n = NULL THEN n
    ELSE IF n.id = id THEN [n EXCEPT !.expire = 0]
    ELSE [n EXCEPT !.pre = expunge(n.pre, id), !.post = expunge(n.post, id)]

(***************************************************************************)
(* The helper's gathering.  It walks the tree that it found, in order,     *)
(* while @timers changes below it: g is [timers, jobs].                    *)
(***************************************************************************)
Take(n, g) ==
    LET expire == n.expire + n.delay * (1 + (now - n.expire) \div n.delay)
        served == expunge(g.timers, n.id)
    IN [timers |-> IF n.delay = 0 THEN served
                   ELSE insert(prune(served), Leaf(n.id, expire, n.delay)),
        jobs   |-> Append(g.jobs, [id |-> n.id, recurring |-> n.delay # 0])]


RECURSIVE gatherExpired(_, _)
gatherExpired(n, g) ==
    IF n = NULL THEN g
    ELSE LET g1 == IF n.expire > 0 THEN gatherExpired(n.pre, g) ELSE g
         IN IF n.expire <= now /\ Len(g1.jobs) < MAX_GATHERED
            THEN gatherExpired(n.post, IF n.expire > 0 THEN Take(n, g1) ELSE g1)
            ELSE g1

(***************************************************************************)
(* setTimer and cancelTimer, from any message of the program.              *)
(***************************************************************************)
retrying(r) == r # <<>>

Expiration(t, r) == IF retrying(r) THEN 1 ELSE nextExpiration(t)

setTimer(delayNanos, recurring) ==
    LET id == lastTimerId + 1
        delay == IF recurring THEN delayNanos ELSE 0
        t == insert(prune(timers), Leaf(id, now + delayNanos, delay))
    IN
    /\ lastTimerId < MaxTimers /\ now <= SetUntil
    /\ lastTimerId' = id
    /\ timers' = IF nextExpiration(t) = 0 THEN NULL ELSE t
    /\ global_timer' = Expiration(t, retries)
    /\ oneshot' = IF delay = 0 THEN oneshot \cup {id} ELSE oneshot
    /\ UNCHANGED <<clock, retries, sent, helpers, ran, cancelled, late>>

\* The dispatched jobs of a timer: sent, running, or resolved but not yet
\* looked at by the helper that awaits them in order.
Slots(S) == {<<h, k>> \in (1 .. Len(helpers)) \X (1 .. MAX_GATHERED) :
                /\ k \in DOMAIN helpers[h].jobs
                /\ k >= helpers[h].i
                /\ helpers[h].jobs[k].state \in S}
JobOf(s) == helpers[s[1]].jobs[s[2]]
Unresolved == {"sent", "running"}
Dispatched(id) == {s \in Slots({"sent", "transient"}) : JobOf(s).id = id}

CancelKeepsRetries(id) ==  \* mutant: a waiting retry is not dropped
    LET t == hunt(timers, id)
        idle == nextExpiration(t) = 0 /\ ~retrying(retries)
    IN
    /\ timers' = IF idle THEN NULL ELSE t
    /\ global_timer' = IF idle THEN 0 ELSE global_timer
    /\ cancelled' = cancelled \cup {id}
    /\ late' = [late EXCEPT ![id] = {JobOf(s).state : s \in Dispatched(id)}]
    /\ UNCHANGED <<clock, retries, lastTimerId, sent, helpers, ran, oneshot>>

cancelTimer(id) ==
    LET t == hunt(timers, id)
        drop(r) == SelectSeq(r, LAMBDA x : x # id)
        idle == nextExpiration(t) = 0 /\ ~retrying(drop(retries))
    IN
    /\ retries' = drop(retries)
    /\ timers' = IF idle THEN NULL ELSE t
    /\ global_timer' = IF idle THEN 0 ELSE global_timer
    /\ cancelled' = cancelled \cup {id}
    /\ late' = [late EXCEPT ![id] = {JobOf(s).state : s \in Dispatched(id)}]
    /\ UNCHANGED <<clock, lastTimerId, sent, helpers, ran, oneshot>>

(***************************************************************************)
(* The handler of the global timer: the platform has cleared the timer,    *)
(* the fallback is set, and a helper message is sent.  If that fails, the  *)
(* timer is set to expire at once.                                         *)
(***************************************************************************)
Fail(n) == failures + n <= MaxFailures /\ failures' = failures + n

HandlerWithoutFallback ==  \* mutant
    /\ global_timer # 0 /\ global_timer <= now
    /\ sent + Len(helpers) < MaxHelpers
    /\ \/ /\ sent' = sent + 1
          /\ global_timer' = 0
          /\ UNCHANGED failures
       \/ /\ Fail(1)
          /\ global_timer' = 1
          /\ UNCHANGED sent
    /\ UNCHANGED <<now, timers, retries, lastTimerId, helpers, history>>

canister_global_timer ==
    /\ global_timer # 0 /\ global_timer <= now
    /\ sent + Len(helpers) < MaxHelpers
    /\ \/ /\ sent' = sent + 1
          /\ global_timer' = now + FALLBACK
          /\ UNCHANGED failures
       \/ /\ Fail(1)
          /\ global_timer' = 1
          /\ UNCHANGED sent
    /\ UNCHANGED <<now, timers, retries, lastTimerId, helpers, history>>

\* A helper message is rejected before it runs.
HelperLost ==
    /\ sent > 0
    /\ sent' = sent - 1
    /\ Fail(1)
    /\ UNCHANGED <<now, queue, helpers, history>>

(***************************************************************************)
(* A helper awaits its jobs in order; await? goes on at once past the ones *)
(* that are resolved.  RetryIds are the jobs, from position i up to k, to  *)
(* be retried.                                                             *)
(***************************************************************************)

AwaitsAt(h) ==
    LET open == {k \in DOMAIN h.jobs : k >= h.i /\ h.jobs[k].state \in Unresolved}
    IN IF open = {} THEN Len(h.jobs) + 1 ELSE CHOOSE k \in open : \A m \in open : k <= m

RetryIds(h, k) ==
    LET again(j) == ~j.recurring /\ j.state = "transient"
        taken == SelectSeq(SubSeq(h.jobs, h.i, k - 1), again)
    IN [m \in DOMAIN taken |-> taken[m].id]

Without(s, h) == SubSeq(s, 1, h - 1) \o SubSeq(s, h + 1, Len(s))

\* The helper at position h of hs goes on until it has to wait.
Continue(hs, h) ==
    LET k == AwaitsAt(hs[h]) IN
    IF k > Len(hs[h].jobs) THEN Without(hs, h) ELSE [hs EXCEPT ![h].i = k]

(***************************************************************************)
(* @timer_helper: gather the retries and the expired timers, set the       *)
(* global timer, and dispatch.  A one-shot job whose self-call cannot be   *)
(* sent is queued for a retry.                                             *)
(***************************************************************************)
HelperDropsUnsent ==  \* mutant: a job that cannot be sent is forgotten
    LET n == IF Len(retries) < MAX_GATHERED THEN Len(retries) ELSE MAX_GATHERED
        again == [k \in 1 .. n |-> [id |-> retries[k], recurring |-> FALSE]]
        left == SubSeq(retries, n + 1, Len(retries))
        g == gatherExpired(timers, [timers |-> timers, jobs |-> again])
    IN
    /\ sent > 0
    /\ sent' = sent - 1
    /\ timers' = IF nextExpiration(g.timers) = 0 THEN NULL ELSE g.timers
    /\ retries' = left
    /\ global_timer' = Expiration(g.timers, left)
    /\ \E unsent \in SUBSET DOMAIN g.jobs :
          LET job(k) == [id |-> g.jobs[k].id, recurring |-> g.jobs[k].recurring,
                         state |-> IF k \in unsent THEN "unsent" ELSE "sent"]
              h == [i |-> 1, jobs |-> [k \in DOMAIN g.jobs |-> job(k)]]
          IN /\ Fail(Cardinality(unsent))
             /\ helpers' = Continue(Append(helpers, h), Len(helpers) + 1)
    /\ UNCHANGED <<now, lastTimerId, history>>

timer_helper ==
    LET n == IF Len(retries) < MAX_GATHERED THEN Len(retries) ELSE MAX_GATHERED
        again == [k \in 1 .. n |-> [id |-> retries[k], recurring |-> FALSE]]
        left == SubSeq(retries, n + 1, Len(retries))
        g == gatherExpired(timers, [timers |-> timers, jobs |-> again])
    IN
    /\ sent > 0
    /\ sent' = sent - 1
    /\ timers' = IF nextExpiration(g.timers) = 0 THEN NULL ELSE g.timers
    /\ \E unsent \in SUBSET DOMAIN g.jobs :
          LET job(k) == [id |-> g.jobs[k].id, recurring |-> g.jobs[k].recurring,
                         state |-> IF k \in unsent THEN "unsent" ELSE "sent"]
              h == [i |-> 1, jobs |-> [k \in DOMAIN g.jobs |-> job(k)]]
              failed(j) == ~j.recurring /\ j.state = "unsent"
              retry == SelectSeq(h.jobs, failed)
          IN /\ Fail(Cardinality(unsent))
             /\ retries' = left \o [m \in DOMAIN retry |-> retry[m].id]
             /\ global_timer' = IF retry # <<>> THEN 1 ELSE Expiration(g.timers, left)
             /\ helpers' = Continue(Append(helpers, h), Len(helpers) + 1)
    /\ UNCHANGED <<now, lastTimerId, history>>

(***************************************************************************)
(* The job messages.                                                       *)
(***************************************************************************)
JobStarts(s) ==
    /\ JobOf(s).state = "sent"
    /\ helpers' = [helpers EXCEPT ![s[1]].jobs[s[2]].state = "running"]
    /\ ran' = [ran EXCEPT ![JobOf(s).id] = @ + 1]
    /\ UNCHANGED <<clock, queue, sent, oneshot, cancelled, late>>

\* The callback of a job resolves its future and runs the helper, if that is
\* the job that it awaits.
Resolve(s, state) ==
    LET hs == [helpers EXCEPT ![s[1]].jobs[s[2]].state = state]
        h == hs[s[1]]
        retry == RetryIds(h, AwaitsAt(h))
    IN
    /\ helpers' = Continue(hs, s[1])
    /\ retries' = retries \o retry
    /\ global_timer' = IF retry # <<>> THEN 1 ELSE global_timer
    /\ UNCHANGED <<now, timers, lastTimerId, sent, history>>

\* The job returns, or throws or traps.
JobEnds(s) ==
    /\ JobOf(s).state = "running"
    /\ \/ Resolve(s, "ok") /\ UNCHANGED failures
       \/ Resolve(s, "failed") /\ Fail(1)

\* The job's message is rejected as transient before it runs.
JobRejected(s) ==
    /\ JobOf(s).state = "sent"
    /\ Resolve(s, "transient") /\ Fail(1)

LastTime == MaxTime + failures * FALLBACK

Tick ==
    /\ now < LastTime
    /\ now' = now + 1
    /\ UNCHANGED <<failures, queue, sent, helpers, history>>

Next ==
    \/ \E d \in Delays, recurring \in BOOLEAN : setTimer(d, recurring)
    \/ \E id \in Ids : cancelTimer(id)
    \/ canister_global_timer
    \/ HelperLost
    \/ timer_helper
    \/ \E s \in Slots(Unresolved) : JobStarts(s) \/ JobEnds(s) \/ JobRejected(s)
    \/ Tick

Spec == Init /\ [][Next]_vars

(***************************************************************************)
(* Messages are executed and answered, time goes on, and the platform      *)
(* runs the timer's handler when it is due.                                *)
(***************************************************************************)
Execute ==
    \/ canister_global_timer
    \/ timer_helper
    \/ \E s \in Slots(Unresolved) : JobStarts(s) \/ JobEnds(s)

Fairness == WF_vars(Execute) /\ WF_vars(Tick)

FairSpec == Spec /\ Fairness
-----------------------------------------------------------------------------
RECURSIVE InOrder(_)
InOrder(n) ==
    IF n = NULL THEN <<>> ELSE InOrder(n.pre) \o <<n>> \o InOrder(n.post)

IsSorted(s) == \A i, j \in DOMAIN s : i <= j => s[i].expire <= s[j].expire

LiveNodes == SelectSeq(InOrder(timers), LAMBDA n : n.expire # 0)
Copies(id) == {k \in DOMAIN LiveNodes : LiveNodes[k].id = id}
Waiting(id) == {k \in DOMAIN retries : retries[k] = id}

\* The state keeps its types; no helper waits for a job that is resolved.
TypeOK ==
    /\ now \in 1 .. LastTime
    /\ retries \in Seq(Ids)
    /\ lastTimerId \in 0 .. MaxTimers
    /\ global_timer \in Nat
    /\ sent \in Nat
    /\ failures \in 0 .. MaxFailures
    /\ \A h \in DOMAIN helpers :
          /\ Len(helpers[h].jobs) <= MAX_GATHERED
          /\ helpers[h].jobs[helpers[h].i].state \in Unresolved

\* The "fundamental node invariant" of the source, max_exp pre <= expire <=
\* min_exp post, for the whole tree: it is what lets prune, nextExpiration and
\* gatherExpired skip branches, and a served node (expire 0) has nothing live
\* before it.
NodeInvariant == TypeOK /\ IsSorted(InOrder(timers))

\* A timer that was set is in exactly one place until it is cancelled: in the
\* tree, among the retries or dispatched.  A recurring one is always in the
\* tree, a one-shot one until its job has run: it is neither lost nor doubled
\* by any order of gathering, failed sends, rejections and cancellations.
NoTimerLost ==
    \A id \in Ids \ cancelled :
        LET tree == Cardinality(Copies(id))
            elsewhere == Cardinality(Waiting(id)) + Cardinality(Dispatched(id))
        IN IF id \in oneshot THEN tree + elsewhere + ran[id] = 1
           ELSE tree = 1 /\ Waiting(id) = {}

\* cancelTimer is final, but for the jobs that were dispatched before it: it
\* takes a timer out of the tree and out of the retries, for good.
CancelIsFinal ==
    \A id \in cancelled :
        /\ Copies(id) = {}
        /\ late[id] = {} => Waiting(id) = {} /\ Dispatched(id) = {}
        /\ id \notin oneshot => Waiting(id) = {}

\* As long as there is something to serve, the global timer is set, and it is
\* set no later than the fallback after the earliest expiration.
Armed ==
    LET exp == Expiration(timers, retries) IN
    exp # 0 =>
        /\ global_timer # 0
        /\ global_timer <= (IF exp > now THEN exp ELSE now) + FALLBACK

\* "one-shot jobs whose dispatch failed [...] under their own id so that
\* cancelTimer still reaches them": once cancelled, such a job does not run.
CancelReachesFailedDispatch ==
    \A id \in cancelled \cap oneshot : late[id] = {"transient"} => ran[id] = 0

\* Every one-shot timer runs, unless it is cancelled: a failed send, a lost
\* helper or a rejected job only delays it.
OneShotRuns ==
    \A id \in 1 .. MaxTimers : id \in oneshot ~> (ran[id] > 0 \/ id \in cancelled)
=============================================================================
