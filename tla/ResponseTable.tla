---------------------------- MODULE ResponseTable ----------------------------
(* The request/response layer of a stream server: OneShotTable                *)
(* (utils/channel.py), the request and response paths of StreamServer         *)
(* (server/abc.py) and the time limit Client.request puts around them         *)
(* (client/abc.py). Callers, one handler task per received response and the   *)
(* callers of wait_requests_completed run as tasks of one event loop: a step  *)
(* is what a task does between two awaits that can suspend it.                *)
(* A response is received at most once per element of Copies, so that more    *)
(* than one copy is a server that answers a request twice.                    *)
EXTENDS FiniteSets

CONSTANTS Requests, Copies, Waiters

VARIABLES
    pending,    \* the keys of OneShotTable._pending
    caller,     \* where the task that made a request stands
    handler,    \* where the task that handles a copy of its response stands
    waiter,     \* where a caller of wait_requests_completed stands
    reader,     \* the read loop of StreamServer._dispatch
    answered,   \* history: requests whose caller was handed the response
    owed        \* history: what was unanswered when a waiter began to wait

vars == <<pending, caller, handler, waiter, reader, answered, owed>>

Handlers == Requests \X Copies

CallerStates == {"idle", "sending", "waiting", "delivered",
                 "done", "failed", "timedout", "cancelled"}
HandlerStates == {"none", "spawned", "blocked", "handed", "broken", "locking",
                  "notifying", "done", "failed", "cancelled"}
WaiterStates == {"out", "acquiring", "checking", "parking", "parked", "woken",
                 "expired", "returned", "timedout", "cancelled"}

(* Every variable holds a state the tasks have a continuation for.            *)
TypeOK ==
    /\ pending \in SUBSET Requests
    /\ caller \in [Requests -> CallerStates]
    /\ handler \in [Handlers -> HandlerStates]
    /\ waiter \in [Waiters -> WaiterStates]
    /\ reader \in {"running", "eof", "failed"}
    /\ answered \in SUBSET Requests
    /\ owed \in [Waiters -> SUBSET Requests]

Init ==
    /\ pending = {}
    /\ caller = [r \in Requests |-> "idle"]
    /\ handler = [h \in Handlers |-> "none"]
    /\ waiter = [w \in Waiters |-> "out"]
    /\ reader = "running"
    /\ answered = {}
    /\ owed = [w \in Waiters |-> {}]

-----------------------------------------------------------------------------
(* The condition's lock has no owner: nobody is between acquire and release.  *)
LockFree ==
    /\ \A h \in Handlers : handler[h] # "notifying"
    /\ \A w \in Waiters : waiter[w] \notin {"checking", "parking"}

(* Tasks blocked in send on the rendezvous channel of r.                      *)
Blocked(r) == {h \in Handlers : h[1] = r /\ handler[h] = "blocked"}

-----------------------------------------------------------------------------
(* What a slip in the code would make of an action below: the variants TLC    *)
(* must tell from the code. No specification uses them.                       *)

(* The sender is stored under another key than the id it is looked up by.     *)
ReserveByPair(r) ==
    /\ caller[r] = "idle"
    /\ r \notin pending
    /\ pending' = pending \cup {<<r, "id">>}
    /\ caller' = [caller EXCEPT ![r] = "sending"]
    /\ UNCHANGED <<handler, waiter, reader, answered, owed>>

(* The entry is popped before the send suspends.                              *)
BlockAfterPop(h) ==
    /\ handler[h] = "spawned"
    /\ h[1] \in pending
    /\ caller[h[1]] \notin {"waiting", "done"}
    /\ handler' = [handler EXCEPT ![h] = "blocked"]
    /\ pending' = pending \ {h[1]}
    /\ UNCHANGED <<caller, waiter, reader, answered, owed>>

(* request removes its entry when it is cancelled.                            *)
TimeoutDropsEntry(r) ==
    /\ caller[r] \in {"sending", "waiting", "delivered"}
    /\ caller' = [caller EXCEPT ![r] = "timedout"]
    /\ pending' = pending \ {r}
    /\ UNCHANGED <<handler, waiter, reader, answered, owed>>

(* if self._pending instead of while self._pending.                           *)
WakeWithoutCheck(w) ==
    /\ waiter[w] \in {"acquiring", "woken"}
    /\ LockFree
    /\ waiter' = [waiter EXCEPT ![w] =
           IF waiter[w] = "woken" THEN "returned" ELSE "checking"]
    /\ UNCHANGED <<pending, caller, handler, reader, answered, owed>>

(* send pops and never notifies.                                              *)
PopSilently(h) ==
    /\ pending' = pending \ {h[1]}
    /\ handler' = [handler EXCEPT ![h] = "done"]

-----------------------------------------------------------------------------
(* The caller: Client.request around StreamServer.request                     *)

(* reserve, then the write; the send suspends while the pipe drains.          *)
Reserve(r) ==
    /\ caller[r] = "idle"
    /\ r \notin pending
    /\ pending' = pending \cup {r}
    /\ caller' = [caller EXCEPT ![r] = "sending"]
    /\ UNCHANGED <<handler, waiter, reader, answered, owed>>

(* The transport breaks under the write: request raises, the entry stays.     *)
SendFails(r) ==
    /\ caller[r] = "sending"
    /\ caller' = [caller EXCEPT ![r] = "failed"]
    /\ UNCHANGED <<pending, handler, waiter, reader, answered, owed>>

(* receive() finds a handler blocked on the channel: it takes that item and   *)
(* closes the receiver, which breaks any other blocked send.                  *)
TakeBlocked(r) ==
    /\ caller[r] = "sending"
    /\ \E h \in Blocked(r) :
          handler' = [g \in Handlers |->
              IF g = h THEN "handed"
              ELSE IF g \in Blocked(r) THEN "broken" ELSE handler[g]]
    /\ caller' = [caller EXCEPT ![r] = "done"]
    /\ answered' = answered \cup {r}
    /\ UNCHANGED <<pending, waiter, reader, owed>>

(* receive() finds nothing and suspends until a handler hands it the item.    *)
AwaitResponse(r) ==
    /\ caller[r] = "sending"
    /\ Blocked(r) = {}
    /\ caller' = [caller EXCEPT ![r] = "waiting"]
    /\ UNCHANGED <<pending, handler, waiter, reader, answered, owed>>

(* receive() resumes with the item and closes the receiver.                   *)
Resume(r) ==
    /\ caller[r] = "delivered"
    /\ caller' = [caller EXCEPT ![r] = "done"]
    /\ handler' = [h \in Handlers |->
           IF h \in Blocked(r) THEN "broken" ELSE handler[h]]
    /\ UNCHANGED <<pending, waiter, reader, answered, owed>>

(* fail_after(request_timeout) cancels the caller. StreamServer.request has   *)
(* no finally: the entry stays and the receiver is not closed.                *)
RequestTimeout(r) ==
    /\ caller[r] \in {"sending", "waiting", "delivered"}
    /\ caller' = [caller EXCEPT ![r] = "timedout"]
    /\ UNCHANGED <<pending, handler, waiter, reader, answered, owed>>

-----------------------------------------------------------------------------
(* The read loop and the handler of one response                              *)

(* The server's response to r is read and its handler task is spawned.        *)
ReceiveResponse(h) ==
    /\ reader = "running"
    /\ caller[h[1]] # "idle"
    /\ handler[h] = "none"
    /\ handler' = [handler EXCEPT ![h] = "spawned"]
    /\ UNCHANGED <<pending, caller, waiter, reader, answered, owed>>

(* receive returns None: the loop ends, handlers already spawned go on.       *)
StreamEnds ==
    /\ reader = "running"
    /\ reader' = "eof"
    /\ UNCHANGED <<pending, caller, handler, waiter, answered, owed>>

(* After its entry is popped a handler notifies if the table became empty.    *)
PopEntry(h) ==
    /\ pending' = pending \ {h[1]}
    /\ handler' = [handler EXCEPT ![h] =
           IF pending' = {} THEN "locking" ELSE "done"]

(* The caller waits: the item is handed over and the entry popped at once.    *)
HandOver(h) ==
    /\ handler[h] = "spawned"
    /\ h[1] \in pending
    /\ caller[h[1]] = "waiting"
    /\ caller' = [caller EXCEPT ![h[1]] = "delivered"]
    /\ answered' = answered \cup {h[1]}
    /\ PopEntry(h)
    /\ UNCHANGED <<waiter, reader, owed>>

(* Nobody receives yet, or nobody ever will: the rendezvous send suspends.    *)
Block(h) ==
    /\ handler[h] = "spawned"
    /\ h[1] \in pending
    /\ caller[h[1]] \notin {"waiting", "done"}
    /\ handler' = [handler EXCEPT ![h] = "blocked"]
    /\ UNCHANGED <<pending, caller, waiter, reader, answered, owed>>

(* The id is unknown, or the receiver is closed: the exception leaves the     *)
(* handler and with it the task group of the whole session.                   *)
Refuse(h) ==
    /\ \/ handler[h] = "spawned" /\ h[1] \notin pending
       \/ handler[h] = "spawned" /\ h[1] \in pending /\ caller[h[1]] = "done"
       \/ handler[h] = "broken"
    /\ handler' = [handler EXCEPT ![h] = "failed"]
    /\ reader' = "failed"
    /\ UNCHANGED <<pending, caller, waiter, answered, owed>>

(* The blocked send returns.                                                  *)
Pop(h) ==
    /\ handler[h] = "handed"
    /\ PopEntry(h)
    /\ UNCHANGED <<caller, waiter, reader, answered, owed>>

AcquireToNotify(h) ==
    /\ handler[h] = "locking"
    /\ LockFree
    /\ handler' = [handler EXCEPT ![h] = "notifying"]
    /\ UNCHANGED <<pending, caller, waiter, reader, answered, owed>>

NotifyAll(h) ==
    /\ handler[h] = "notifying"
    /\ handler' = [handler EXCEPT ![h] = "done"]
    /\ waiter' = [w \in Waiters |->
           IF waiter[w] = "parked" THEN "woken" ELSE waiter[w]]
    /\ UNCHANGED <<pending, caller, reader, answered, owed>>

-----------------------------------------------------------------------------
(* wait_requests_completed: fail_after(timeout) around wait_until_empty       *)

BeginWait(w) ==
    /\ waiter[w] = "out"
    /\ waiter' = [waiter EXCEPT ![w] = "acquiring"]
    /\ owed' = [owed EXCEPT ![w] = pending \ answered]
    /\ UNCHANGED <<pending, caller, handler, reader, answered>>

AcquireToCheck(w) ==
    /\ waiter[w] \in {"acquiring", "woken"}
    /\ LockFree
    /\ waiter' = [waiter EXCEPT ![w] = "checking"]
    /\ UNCHANGED <<pending, caller, handler, reader, answered, owed>>

(* while self._pending: await self._condition.wait()                          *)
CheckEmpty(w) ==
    /\ waiter[w] = "checking"
    /\ waiter' = [waiter EXCEPT ![w] =
           IF pending = {} THEN "returned" ELSE "parking"]
    /\ UNCHANGED <<pending, caller, handler, reader, answered, owed>>

(* wait() joins the wait set and releases the lock in one step.               *)
Park(w) ==
    /\ waiter[w] = "parking"
    /\ waiter' = [waiter EXCEPT ![w] = "parked"]
    /\ UNCHANGED <<pending, caller, handler, reader, answered, owed>>

WaitTimeout(w) ==
    /\ waiter[w] \in {"acquiring", "parking", "parked"}
    /\ waiter' = [waiter EXCEPT ![w] =
           IF waiter[w] = "parked" THEN "expired" ELSE "timedout"]
    /\ UNCHANGED <<pending, caller, handler, reader, answered, owed>>

(* A waiter cancelled in wait() takes the lock back before it leaves.         *)
LeaveExpired(w) ==
    /\ waiter[w] = "expired"
    /\ LockFree
    /\ waiter' = [waiter EXCEPT ![w] = "timedout"]
    /\ UNCHANGED <<pending, caller, handler, reader, answered, owed>>

-----------------------------------------------------------------------------
(* After a handler failed, its task group cancels what still runs.            *)
CancelCaller(r) ==
    /\ reader = "failed"
    /\ caller[r] \in {"sending", "waiting", "delivered"}
    /\ caller' = [caller EXCEPT ![r] = "cancelled"]
    /\ UNCHANGED <<pending, handler, waiter, reader, answered, owed>>

CancelHandler(h) ==
    /\ reader = "failed"
    /\ handler[h] \in {"spawned", "blocked", "handed", "broken", "locking", "notifying"}
    /\ handler' = [handler EXCEPT ![h] = "cancelled"]
    /\ UNCHANGED <<pending, caller, waiter, reader, answered, owed>>

CancelWaiter(w) ==
    /\ reader = "failed"
    /\ waiter[w] \in {"acquiring", "checking", "parking", "parked", "woken", "expired"}
    /\ waiter' = [waiter EXCEPT ![w] = "cancelled"]
    /\ UNCHANGED <<pending, caller, handler, reader, answered, owed>>

-----------------------------------------------------------------------------
CallerStep(r) ==
    \/ TakeBlocked(r) \/ AwaitResponse(r) \/ Resume(r)
    \/ RequestTimeout(r) \/ CancelCaller(r)

HandlerStep(h) ==
    \/ HandOver(h) \/ Block(h) \/ Refuse(h) \/ Pop(h)
    \/ AcquireToNotify(h) \/ NotifyAll(h) \/ CancelHandler(h)

WaiterStep(w) ==
    \/ AcquireToCheck(w) \/ CheckEmpty(w) \/ Park(w)
    \/ LeaveExpired(w) \/ CancelWaiter(w)

(* What the program's users, the server and the clock of a waiter may do.     *)
Environment ==
    \/ \E r \in Requests : Reserve(r) \/ SendFails(r)
    \/ \E h \in Handlers : ReceiveResponse(h)
    \/ \E w \in Waiters : BeginWait(w) \/ WaitTimeout(w)
    \/ StreamEnds

Next ==
    \/ \E r \in Requests : CallerStep(r)
    \/ \E h \in Handlers : HandlerStep(h)
    \/ \E w \in Waiters : WaiterStep(w)
    \/ Environment

Spec == Init /\ [][Next]_vars

(* The event loop runs every task that can run, and a request's own timer     *)
(* fires; nothing makes the server answer or a waiter without timeout leave.  *)
Fairness ==
    /\ \A r \in Requests : WF_vars(CallerStep(r))
    /\ \A h \in Handlers : WF_vars(HandlerStep(h))
    /\ \A w \in Waiters : WF_vars(WaiterStep(w))

FairSpec == Spec /\ Fairness

-----------------------------------------------------------------------------
(* Properties                                                                 *)

(* OneShotTable.send pops an entry only after the hand-over: a request that   *)
(* was sent and not answered is still in the table, whatever its caller and   *)
(* the handlers did meanwhile, and an answered one is in it only while the    *)
(* handler that handed the response over has yet to pop it.                   *)
EntryUntilAnswered ==
    /\ \A r \in Requests :
          caller[r] # "idle" /\ r \notin answered => r \in pending
    /\ \A r \in pending \cap answered :
          \E h \in Handlers : h[1] = r /\ handler[h] \in {"handed", "cancelled"}

(* wait_until_empty never sleeps through the moment it waits for: a waiter    *)
(* parked on an empty table has a handler on its way to notify_all, although  *)
(* handlers pop entries without holding the condition's lock.                 *)
NoLostWakeup ==
    reader # "failed" /\ pending = {} /\ (\E w \in Waiters : waiter[w] = "parked")
        => \E h \in Handlers : handler[h] \in {"locking", "notifying"}

(* The ValueError of OneShotTable.send and the broken rendezvous stream, both *)
(* fatal for the session, need a server that answers a request twice: no      *)
(* timeout, failed write or late response leads to them.                      *)
SessionSurvives ==
    reader = "failed" =>
        \E r \in Requests, c, d \in Copies :
            c # d /\ handler[<<r, c>>] # "none" /\ handler[<<r, d>>] # "none"

Unanswered == pending \ answered

(* Once every request that is still in the table has been handed its          *)
(* response for good, nobody stays in wait_requests_completed.                *)
WaitReturns ==
    <>[](Unanswered = {}) =>
        \A w \in Waiters : waiter[w] = "acquiring" ~>
            waiter[w] \in {"returned", "timedout", "cancelled"}

(* server/abc.py:62 "Wait until all pending requests are completed": every    *)
(* caller completes, if only by its timeout, so the wait ends.                *)
WaitEnds ==
    \A w \in Waiters : waiter[w] = "acquiring" ~>
        waiter[w] \in {"returned", "timedout", "cancelled"}

-----------------------------------------------------------------------------
(* What the callers of the layer are promised                                 *)
Fate(r) ==
    CASE r \in answered -> "answered"
      [] r \notin answered /\ caller[r] = "idle" -> "unsent"
      [] r \notin answered /\ caller[r] \in {"timedout", "failed", "cancelled"} -> "abandoned"
      [] OTHER -> "open"

Place(w) ==
    CASE waiter[w] = "out" -> "outside"
      [] waiter[w] = "returned" -> "passed"
      [] waiter[w] \in {"timedout", "cancelled"} -> "left"
      [] OTHER -> "inside"

P == INSTANCE Promises WITH
        status <- [r \in Requests |-> Fate(r)],
        place <- [w \in Waiters |-> Place(w)]

(* A response reaches the caller of its request at most once and never after  *)
(* the caller gave up, and wait_until_empty lets a waiter through only when   *)
(* everything unanswered at its call was answered: the table implements       *)
(* Promises.                                                                  *)
KeepsPromises == P!Spec
=============================================================================
