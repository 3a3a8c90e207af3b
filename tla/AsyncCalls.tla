----------------------------- MODULE AsyncCalls -----------------------------
(***************************************************************************)
(* Futures, await and the callbacks of calls.  A thread is an activation   *)
(* of an async function: it runs in one message after another, suspended   *)
(* in between.  A call creates a future, whose functions fulfill, fail and *)
(* clean are the reply, reject and cleanup callbacks; the continuation     *)
(* table keeps them until the answer arrives.  An await of a completed     *)
(* future commits by means of a call of the canister to itself.            *)
(*                                                                         *)
(* The actions are steps of one message at a time.  A message that traps   *)
(* is rolled back to its start; if it was a callback, its cleanup callback *)
(* runs next.  The scope parameters of async types ensure that a future is *)
(* awaited only by the thread that created it.                             *)
(***************************************************************************)
EXTENDS Naturals, FiniteSets

CONSTANTS
    Threads,      \* activations of async functions and async blocks
    MaxFutures,   \* bound: futures ever created
    Index,        \* indices of the continuation table
    TRAP,
    NONE

Futures == 1 .. MaxFutures

VARIABLES
    pc,          \* idle, running, suspended, or how the thread has ended
    created,        \* number of futures created
    owner,       \* the thread that created a future
    result,      \* NONE until the future is completed
    trapped,     \* its reply callback has trapped
    waiter,      \* the thread in ws and rs
    cleanup,     \* the thread whose bail continuation is registered
    getRefund,   \* cycles were attached to its call
    cycles,      \* @cycles: who has added cycles that are not yet sent
    refund,      \* @refund: the future that it was set from, or 0
    table,       \* the continuation table
    outcome,     \* ... and its last answer
    calls,       \* calls without a callback yet
    leaked,      \* history: table indices of trapped cleanup callbacks
    msg          \* the message that is executed

promise == <<created, owner, result, trapped, waiter, cleanup, getRefund>>
tableVars == <<table, outcome>>
globals == <<cycles, refund>>
asyncVars == <<pc, promise, globals, tableVars, calls, leaked, msg>>

Suspension == {"schedule", "bail"}

\* The tuples in the table: the callbacks of a future, or those of a self-call
\* that a suspended thread waits for.
Entries == [kind : {"future"}, future : Futures]
    \cup [kind : Suspension, thread : Threads, future : Futures]

\* Nothing that can be taken for a thread, a result or an entry of the table.
AsyncConstants ==
    MaxFutures \in Nat /\ NONE \notin Threads \cup {"ok", "error"} /\ TRAP \notin Entries

Table == INSTANCE ContinuationMap WITH
    Continuation <- Entries, map <- table, count <- Cardinality(DOMAIN table),
    result <- outcome

Quiet == Table!Returned("none", TRAP, TRAP)

NoMessage == [kind |-> "none"]

AsyncInit ==
    /\ pc = [t \in Threads |-> "idle"]
    /\ created = 0
    /\ owner = [f \in Futures |-> NONE]
    /\ result = [f \in Futures |-> NONE]
    /\ trapped = [f \in Futures |-> FALSE]
    /\ waiter = [f \in Futures |-> NONE]
    /\ cleanup = [f \in Futures |-> NONE]
    /\ getRefund = [f \in Futures |-> FALSE]
    /\ cycles = NONE
    /\ refund = 0
    /\ Table!Empty /\ outcome = Quiet
    /\ calls = {}
    /\ leaked = {}
    /\ msg = NoMessage

(***************************************************************************)
(* Messages.                                                               *)
(***************************************************************************)
\* What a trap brings back; the answer that started the message is consumed.
Saved == [pc |-> pc, created |-> created, owner |-> owner, result |-> result,
          trapped |-> trapped, waiter |-> waiter, cleanup |-> cleanup,
          getRefund |-> getRefund, cycles |-> cycles, refund |-> refund, table |-> table]

\* first: the thread that the message starts; awaited: the future whose value
\* the running thread has last been given.
Begin(kind, t, first, env, awaited, others) ==
    msg' = [kind |-> kind, thread |-> t, first |-> first, env |-> env,
            awaited |-> awaited, saved |-> Saved, calls |-> others]

Running(t) == msg # NoMessage /\ msg.thread = t /\ pc[t] = "running"

\* The thread has nothing more to do in this message.
Stop(t, state) ==
    /\ pc' = [pc EXCEPT ![t] = state]
    /\ msg' = [msg EXCEPT !.thread = NONE]

Unanswered(c) == c \in calls /\ c.response = "none"
Answered(c, response) == [c EXCEPT !.response = response]
Answer(c, response) == calls' = (calls \ {c}) \cup {Answered(c, response)}

\* The calls after thread t has replied or been rejected.
CallerAnswered(cs, t, response) ==
    {IF c.callee = t THEN Answered(c, response) ELSE c : c \in cs}

\* A message from outside runs a shared function.
StartUpdate(t) ==
    /\ msg = NoMessage
    /\ pc[t] = "idle" /\ \A c \in calls : c.callee # t
    /\ pc' = [pc EXCEPT ![t] = "running"]
    /\ cycles' = NONE
    /\ refund' = 0
    /\ Begin("update", t, t, NONE, 0, calls)
    /\ UNCHANGED <<promise, tableVars, calls, leaked>>

\* The exported async method runs the body of an async block, which it finds
\* in the table.
StartAsync(c) ==
    /\ msg = NoMessage
    /\ Unanswered(c) /\ c.callee \in Threads /\ pc[c.callee] = "idle"
    /\ Table!Peek(c.env)
    /\ IF outcome'.value = TRAP
       THEN Answer(c, "reject") /\ UNCHANGED <<pc, msg>>
       ELSE /\ pc' = [pc EXCEPT ![c.callee] = "running"]
            /\ Begin("async", c.callee, c.callee, NONE, 0, calls)
            /\ UNCHANGED calls
    /\ UNCHANGED <<promise, globals, leaked>>

\* ... or the empty body of an await's self-call.
RunSelfCall(c) ==
    /\ msg = NoMessage
    /\ Unanswered(c) /\ c.callee = "self"
    /\ Answer(c, IF c.env \in DOMAIN table THEN "reply" ELSE "reject")
    /\ UNCHANGED <<pc, promise, globals, tableVars, leaked, msg>>

\* Other canisters answer; and any message may be rejected before it runs.
Respond(c) ==
    /\ msg = NoMessage
    /\ Unanswered(c)
    /\ \/ c.callee = "remote" /\ Answer(c, "reply")
       \/ /\ c.callee \in Threads => pc[c.callee] = "idle"
          /\ Answer(c, "reject")
    /\ UNCHANGED <<pc, promise, globals, tableVars, leaked, msg>>

\* The platform rejects for a thread that has ended without an answer and that
\* no other callback can continue.
NoReply(c) ==
    /\ msg = NoMessage
    /\ Unanswered(c) /\ c.callee \in Threads /\ pc[c.callee] \in {"bailed", "lost"}
    /\ \A d \in calls : d.owner # c.callee
    /\ Answer(c, "reject")
    /\ UNCHANGED <<pc, promise, globals, tableVars, leaked, msg>>

Commit ==
    /\ msg # NoMessage /\ msg.kind # "cleanup" /\ msg.thread = NONE
    /\ msg' = NoMessage
    /\ outcome' = Quiet
    /\ UNCHANGED <<pc, promise, globals, table, calls, leaked>>
(***************************************************************************)
(* What a running thread does.                                             *)
(***************************************************************************)
\* Cycles.add, not followed by a call.
AddCycles(t) ==
    /\ Running(t)
    /\ cycles' = t
    /\ UNCHANGED <<pc, promise, refund, tableVars, calls, leaked, msg>>

Perform(t, entry, callee) ==
    /\ Table!Remember(entry)
    /\ outcome'.value # TRAP
    /\ calls' = calls \cup {[env |-> outcome'.value, owner |-> t, callee |-> callee,
                             response |-> "none"]}

LeakNotPerformed ==  \* mutant: the entry is not recalled
    Table!Remember([kind |-> "future", future |-> created + 1]) /\ UNCHANGED calls

\* If a call cannot be performed, its table entry is recalled at once.
NotPerformed == UNCHANGED <<tableVars, calls>>

\* A call of another canister, or an async block.  If it is not performed, the
\* error is thrown, and the thread may catch it.
Call(t, callee, withCycles) ==
    LET f == created + 1 IN
    /\ Running(t) /\ created < MaxFutures
    /\ callee \in Threads => pc[callee] = "idle" /\ \A c \in calls : c.callee # callee
    /\ cycles' = NONE
    /\ \/ /\ Perform(t, [kind |-> "future", future |-> f], callee)
          /\ created' = f
          /\ owner' = [owner EXCEPT ![f] = t]
          /\ getRefund' = [getRefund EXCEPT ![f] = withCycles \/ cycles # NONE]
          /\ UNCHANGED <<result, trapped, waiter, cleanup>>
       \/ NotPerformed /\ UNCHANGED promise
    /\ UNCHANGED <<pc, refund, leaked, msg>>

RefundOf(f) == IF getRefund[f] THEN f ELSE 0

SelfCallThrows(t, f, kind) ==  \* mutant: an await that cannot bail out throws
    /\ cycles' = NONE
    /\ \/ /\ Perform(t, [kind |-> kind, thread |-> t, future |-> f], "self")
          /\ Stop(t, "suspended")
       \/ NotPerformed /\ UNCHANGED <<pc, msg>>

\* The self-call by which an await of a completed future commits; its callbacks
\* go on with the thread, or bail out.  If it is not performed, the thread goes
\* on at once: with the error of the call, or bailing out.
SelfCall(t, f, kind) ==
    /\ cycles' = NONE
    /\ \/ /\ Perform(t, [kind |-> kind, thread |-> t, future |-> f], "self")
          /\ Stop(t, "suspended")
       \/ /\ NotPerformed
          /\ IF kind = "bail" THEN Stop(t, "bailed") ELSE UNCHANGED <<pc, msg>>

Suspend(t, f) ==
    /\ waiter' = [waiter EXCEPT ![f] = t]
    /\ Stop(t, "suspended")
    /\ UNCHANGED <<cycles, tableVars, calls>>

AwaitIgnoringTraps(t, f) ==  \* mutant: trapped is not looked at
    /\ Running(t) /\ owner[f] = t
    /\ cleanup' = [cleanup EXCEPT ![f] = t]
    /\ \/ result[f] = NONE /\ Suspend(t, f)
       \/ result[f] # NONE /\ SelfCall(t, f, "schedule") /\ UNCHANGED waiter
    /\ UNCHANGED <<created, owner, result, trapped, getRefund, refund, leaked>>

Await(t, f) ==
    /\ Running(t) /\ owner[f] = t
    /\ cleanup' = [cleanup EXCEPT ![f] = t]
    /\ \/ trapped[f] /\ SelfCall(t, f, "bail") /\ UNCHANGED waiter
       \/ ~trapped[f] /\ result[f] = NONE /\ Suspend(t, f)
       \/ ~trapped[f] /\ result[f] # NONE /\ SelfCall(t, f, "schedule") /\ UNCHANGED waiter
    /\ UNCHANGED <<created, owner, result, trapped, getRefund, refund, leaked>>

\* await? goes on at once with what is completed.
AwaitNow(t, f) ==
    /\ Running(t) /\ owner[f] = t
    /\ cleanup' = [cleanup EXCEPT ![f] = t]
    /\ \/ /\ trapped[f]
          /\ Stop(t, "bailed")
          /\ UNCHANGED <<waiter, globals, tableVars, calls>>
       \/ /\ ~trapped[f] /\ result[f] = NONE
          /\ Suspend(t, f)
          /\ UNCHANGED refund
       \/ /\ ~trapped[f] /\ result[f] # NONE
          /\ IF result[f] = "ok"
             THEN refund' = RefundOf(f) /\ msg' = [msg EXCEPT !.awaited = f]
             ELSE UNCHANGED <<refund, msg>>
          /\ UNCHANGED <<pc, waiter, cycles, tableVars, calls>>
    /\ UNCHANGED <<created, owner, result, trapped, getRefund, leaked>>

\* The thread returns or throws, its finally clauses included.
Finish(t, response) ==
    /\ Running(t)
    /\ Stop(t, "finished")
    /\ calls' = CallerAnswered(calls, t, response)
    /\ UNCHANGED <<promise, globals, tableVars, leaked>>
(***************************************************************************)
(* The reply and reject callbacks.                                         *)
(***************************************************************************)
\* The message of an answer, which runs thread t, or no thread.
Run(c, t, awaited) ==
    /\ pc' = IF t = NONE THEN pc ELSE [pc EXCEPT ![t] = "running"]
    /\ Begin("callback", t, NONE, c.env, awaited, calls \ {c})

Complete(c, f, value) ==
    LET t == waiter[f] IN
    /\ result[f] = NONE
    /\ result' = [result EXCEPT ![f] = value]
    /\ waiter' = [waiter EXCEPT ![f] = NONE]
    /\ IF t = NONE THEN UNCHANGED globals
       ELSE cycles' = NONE /\ refund' = IF value = "ok" THEN RefundOf(f) ELSE 0
    /\ Run(c, t, IF t # NONE /\ value = "ok" THEN f ELSE 0)
    /\ UNCHANGED <<created, owner, trapped, cleanup, getRefund>>

fulfill(c, f) == c.response = "reply" /\ Complete(c, f, "ok")
fail(c, f) == c.response = "reject" /\ Complete(c, f, "error")

ScheduleKeepsRefund(c, t, f) ==  \* mutant: the refund is not set
    /\ Run(c, t, IF c.response = "reply" /\ result[f] = "ok" THEN f ELSE 0)
    /\ UNCHANGED <<promise, globals>>

\* The self-call of an await: k if it is answered, r with its error if not.
schedule(c, t, f) ==
    /\ IF c.response = "reply" /\ result[f] = "ok"
       THEN refund' = RefundOf(f) /\ Run(c, t, f)
       ELSE UNCHANGED refund /\ Run(c, t, 0)
    /\ UNCHANGED <<promise, cycles>>

\* Either answer lets the thread bail out.
bail(c, t) ==
    /\ pc' = [pc EXCEPT ![t] = "bailed"]
    /\ Begin("callback", NONE, NONE, c.env, 0, calls \ {c})
    /\ UNCHANGED <<promise, globals>>

Callback(c) ==
    /\ msg = NoMessage
    /\ c.response # "none"
    /\ Table!Recall(c.env)
    /\ calls' = calls \ {c}
    /\ UNCHANGED leaked
    /\ LET e == outcome'.value IN
       CASE e = TRAP -> UNCHANGED <<pc, promise, globals, msg>>
         [] e.kind = "future" -> fulfill(c, e.future) \/ fail(c, e.future)
         [] e.kind = "schedule" -> schedule(c, e.thread, e.future)
         [] e.kind = "bail" -> bail(c, e.thread)

(***************************************************************************)
(* Traps.                                                                  *)
(***************************************************************************)
Rollback ==
    /\ created' = msg.saved.created
    /\ owner' = msg.saved.owner
    /\ result' = msg.saved.result
    /\ trapped' = msg.saved.trapped
    /\ waiter' = msg.saved.waiter
    /\ cleanup' = msg.saved.cleanup
    /\ getRefund' = msg.saved.getRefund
    /\ cycles' = msg.saved.cycles
    /\ refund' = msg.saved.refund
    /\ table' = msg.saved.table

\* The program traps, or an answer cannot be decoded, or the message runs out
\* of instructions.
Trap ==
    /\ msg # NoMessage /\ msg.kind \in {"update", "async", "callback"}
    /\ Rollback
    /\ outcome' = Quiet
    /\ IF msg.kind = "callback"
       THEN /\ pc' = msg.saved.pc
            /\ calls' = msg.calls
            /\ msg' = [msg EXCEPT !.kind = "cleanup", !.thread = NONE, !.awaited = 0]
       ELSE /\ pc' = [msg.saved.pc EXCEPT ![msg.first] = "trapped"]
            /\ calls' = CallerAnswered(msg.calls, msg.first, "reject")
            /\ msg' = NoMessage
    /\ UNCHANGED leaked

\* The cleanup callback: clean of a future, bail of a scheduled thread, or
\* nothing for a thread whose bail has trapped.
Cleaned == msg' = [msg EXCEPT !.kind = "cleaned"]

BailOut(t) == pc' = IF t = NONE THEN pc ELSE [pc EXCEPT ![t] = "bailed"]

CleanWithoutBail(f) ==  \* mutant: the bail continuation is not called
    /\ trapped' = [trapped EXCEPT ![f] = TRUE]
    /\ waiter' = [waiter EXCEPT ![f] = NONE]
    /\ UNCHANGED <<pc, created, owner, result, cleanup, getRefund>>

clean(f) ==
    /\ trapped' = [trapped EXCEPT ![f] = TRUE]
    /\ waiter' = [waiter EXCEPT ![f] = NONE]
    /\ BailOut(cleanup[f])
    /\ UNCHANGED <<created, owner, result, cleanup, getRefund>>

CleanupCallback ==
    /\ msg # NoMessage /\ msg.kind = "cleanup"
    /\ Table!Recall(msg.env)
    /\ LET e == outcome'.value IN
       CASE e.kind = "future" -> clean(e.future)
         [] e.kind = "schedule" -> BailOut(e.thread) /\ UNCHANGED promise
         [] e.kind = "bail" -> pc' = [pc EXCEPT ![e.thread] = "lost"] /\ UNCHANGED promise
    /\ Cleaned
    /\ UNCHANGED <<globals, calls, leaked>>

\* A finally clause traps in the cleanup callback: this is rolled back too, and
\* the table entry stays.
CleanupTraps ==
    /\ msg # NoMessage /\ msg.kind = "cleanup"
    /\ LET e == table[msg.env]
           t == IF e.kind = "future" THEN cleanup[e.future] ELSE e.thread
       IN t # NONE /\ e.kind # "bail" /\ pc' = [pc EXCEPT ![t] = "lost"]
    /\ leaked' = leaked \cup {msg.env}
    /\ Cleaned
    /\ UNCHANGED <<promise, globals, tableVars, calls>>

(***************************************************************************)
(* pre_upgrade traps if there are continuations in the table, unless the   *)
(* canister is stopped, so that nothing is outstanding.  What the program  *)
(* has in memory is transient.                                             *)
(***************************************************************************)
ProgramUpgrade ==
    /\ msg = NoMessage
    /\ DOMAIN table = {} \/ calls = {}
    /\ table' = [i \in {} |-> TRAP] /\ outcome' = Quiet
    /\ owner' = [f \in Futures |-> NONE]
    /\ cycles' = NONE
    /\ refund' = 0
    /\ leaked' = {}
    /\ UNCHANGED <<pc, created, result, trapped, waiter, cleanup, getRefund, calls, msg>>

Steps(t) ==
    \/ AddCycles(t)
    \/ \E callee \in {"remote"} \cup (Threads \ {t}), withCycles \in BOOLEAN :
          Call(t, callee, withCycles)
    \/ \E f \in Futures : Await(t, f) \/ AwaitNow(t, f)

Answers ==
    \/ \E c \in calls : StartAsync(c) \/ RunSelfCall(c) \/ Respond(c) \/ NoReply(c)
    \/ \E c \in calls : Callback(c)
    \/ CleanupCallback
    \/ Commit

AsyncNext ==
    \/ \E t \in Threads : StartUpdate(t) \/ Steps(t)
    \/ \E t \in Threads, response \in {"reply", "reject"} : Finish(t, response)
    \/ Answers
    \/ Trap \/ CleanupTraps
    \/ ProgramUpgrade

AsyncSpec == AsyncInit /\ [][AsyncNext]_asyncVars

(***************************************************************************)
(* The platform delivers and answers messages, one answer to each call,    *)
(* and a thread that runs comes to an end at some time.                    *)
(***************************************************************************)
AsyncFairness ==
    /\ WF_asyncVars(Answers)
    /\ \A t \in Threads : SF_asyncVars(\E response \in {"reply", "reject"} : Finish(t, response))

AsyncFairSpec == AsyncSpec /\ AsyncFairness
-----------------------------------------------------------------------------
Ended == {"finished", "trapped", "bailed", "lost"}

\* The state keeps its types.
AsyncTypeOK ==
    /\ pc \in [Threads -> {"idle", "running", "suspended"} \cup Ended]
    /\ created \in 0 .. MaxFutures
    /\ owner \in [Futures -> Threads \cup {NONE}]
    /\ result \in [Futures -> {"ok", "error", NONE}]
    /\ trapped \in [Futures -> BOOLEAN]
    /\ waiter \in [Futures -> Threads \cup {NONE}]
    /\ cleanup \in [Futures -> Threads \cup {NONE}]
    /\ getRefund \in [Futures -> BOOLEAN]
    /\ cycles \in Threads \cup {NONE}
    /\ refund \in Futures \cup {0}
    /\ DOMAIN table \subseteq Index
    /\ \A i \in DOMAIN table : table[i] \in Entries
    /\ \A c \in calls : c.env \in Index /\ c.owner \in Threads
    /\ leaked \subseteq Index

\* Between messages the table holds exactly the continuations of the calls that
\* are outstanding, one each, and those that a trapping finally clause has left
\* behind: failed sends, traps and cleanups leak nothing, no callback will trap
\* for want of its continuation, and the assertions in fulfill and fail hold.
TableHoldsOutstanding ==
    /\ AsyncTypeOK
    /\ msg = NoMessage =>
        /\ DOMAIN table = leaked \cup {c.env : c \in calls}
        /\ \A c \in calls : c.env \notin leaked
        /\ \A c, d \in calls : c.env = d.env => c = d
        /\ \A c \in calls : table[c.env].kind = "future" =>
              result[table[c.env].future] = NONE /\ ~trapped[table[c.env].future]

\* A suspended thread is never stranded: between messages there is exactly one
\* outstanding call whose callbacks go on with it or let it bail out, also if
\* the answer that it awaits has trapped before, and after an upgrade.
Continues(c, t) ==
    LET e == table[c.env] IN
    IF e.kind = "future" THEN waiter[e.future] = t /\ cleanup[e.future] = t ELSE e.thread = t
NoneStranded ==
    msg = NoMessage =>
        \A t \in Threads : pc[t] = "suspended" =>
            Cardinality({c \in calls : c.env \in DOMAIN table /\ Continues(c, t)}) = 1

\* A trapped answer cannot be caught: the thread that awaits it does not go on,
\* not even if the self-call that lets it bail out fails.
TrapNotCaught ==
    \A f \in Futures : trapped[f] /\ cleanup[f] # NONE =>
        pc[cleanup[f]] \in {"suspended", "bailed", "lost"}

\* A thread that goes on with the value of a future sees the refund of its call,
\* whatever other threads have awaited meanwhile.
RefundOfAwaited ==
    msg # NoMessage /\ msg.thread # NONE /\ msg.awaited # 0 => refund = RefundOf(msg.awaited)

\* "cycles initially zero, additive, reset on context switches" and "refunds
\* initially zero, reset on context switches, set on await": a running thread
\* does not send the cycles that another one has added, nor see its refund.
GlobalsAreOwn ==
    msg # NoMessage /\ msg.thread # NONE =>
        /\ cycles \in {NONE, msg.thread}
        /\ refund # 0 => owner[refund] = msg.thread

\* Every suspended thread comes to an end.
ThreadsEnd == \A t \in Threads : pc[t] = "suspended" ~> pc[t] \in Ended
=============================================================================
