------------------------- MODULE ResponseTableProofs -------------------------
(* Proofs about ResponseTable for every set of requests, copies and waiters.  *)
(* The strengthening IInv adds to the properties where a request stands when  *)
(* it counts as answered, who answered it, and that the lock excludes.        *)
EXTENDS ResponseTable, TLAPS

(* The handlers that handed a response over, or were cancelled doing so.      *)
HasHandedOver(h) ==
    handler[h] \in {"handed", "locking", "notifying", "done", "cancelled"}

Awaited ==
    \A r \in Requests : caller[r] \in {"idle", "sending", "waiting"} => r \notin answered

Received ==
    \A r \in Requests : caller[r] \in {"delivered", "done"} => r \in answered

AnsweredBySome ==
    \A r \in answered : \E h \in Handlers : h[1] = r /\ HasHandedOver(h)

HandlersOfAnswered ==
    \A h \in Handlers : handler[h] \in {"handed", "broken"} => h[1] \in answered

HandlersOfSent ==
    \A h \in Handlers : handler[h] # "none" => caller[h[1]] # "idle"

LockExcludes ==
    \A h \in Handlers, w \in Waiters :
        ~ (handler[h] = "notifying" /\ waiter[w] \in {"checking", "parking"})

WakeupDue ==
    reader # "failed" /\ pending = {}
            /\ (\E w \in Waiters : waiter[w] \in {"parking", "parked"})
        => \E h \in Handlers : handler[h] \in {"locking", "notifying"}

IInv ==
    /\ TypeOK
    /\ EntryUntilAnswered
    /\ Awaited
    /\ Received
    /\ AnsweredBySome
    /\ HandlersOfAnswered
    /\ HandlersOfSent
    /\ LockExcludes
    /\ WakeupDue
    /\ SessionSurvives

-----------------------------------------------------------------------------
LEMMA TypeOKInductive ==
    ASSUME TypeOK, [Next]_vars
    PROVE  TypeOK'
<1>1. ASSUME NEW r \in Requests,
             CallerStep(r) \/ Reserve(r) \/ SendFails(r)
      PROVE  TypeOK'
  BY <1>1 DEF TypeOK, CallerStep, TakeBlocked, AwaitResponse, Resume, RequestTimeout,
              CancelCaller, Reserve, SendFails, CallerStates, HandlerStates, Handlers
<1>2. ASSUME NEW h \in Handlers,
             HandlerStep(h) \/ ReceiveResponse(h)
      PROVE  TypeOK'
  <2>. h[1] \in Requests
    BY DEF Handlers
  <2>. QED
    BY <1>2 DEF TypeOK, HandlerStep, HandOver, Block, Refuse, Pop, AcquireToNotify,
                NotifyAll, CancelHandler, ReceiveResponse, PopEntry, CallerStates,
                HandlerStates, WaiterStates
<1>3. ASSUME NEW w \in Waiters,
             WaiterStep(w) \/ BeginWait(w) \/ WaitTimeout(w)
      PROVE  TypeOK'
  BY <1>3 DEF TypeOK, WaiterStep, AcquireToCheck, CheckEmpty, Park, LeaveExpired,
              CancelWaiter, BeginWait, WaitTimeout, WaiterStates
<1>4. CASE StreamEnds \/ UNCHANGED vars
  BY <1>4 DEF TypeOK, StreamEnds, vars
<1>. QED
  BY <1>1, <1>2, <1>3, <1>4 DEF Next, Environment

(* Every variable of the response layer holds a state its tasks continue from.*)
THEOREM TypeCorrect == Spec => []TypeOK
<1>1. Init => TypeOK
  BY DEF Init, TypeOK, CallerStates, HandlerStates, WaiterStates
<1>. QED
  BY <1>1, TypeOKInductive, PTL DEF Spec
-----------------------------------------------------------------------------
(* A conjunct is undisturbed by a step that leaves its variables alone.       *)
LEMMA Frame ==
    ASSUME IInv
    PROVE  /\ UNCHANGED <<pending, caller, handler, answered>> => EntryUntilAnswered'
           /\ UNCHANGED <<caller, answered>> => Awaited' /\ Received'
           /\ UNCHANGED <<handler, answered>> => AnsweredBySome' /\ HandlersOfAnswered'
           /\ UNCHANGED <<handler, caller>> => HandlersOfSent'
           /\ UNCHANGED <<handler, waiter>> => LockExcludes'
           /\ UNCHANGED <<reader, pending, waiter, handler>> => WakeupDue'
           /\ UNCHANGED <<reader, handler>> => SessionSurvives'
<1>1. UNCHANGED <<pending, caller, handler, answered>> => EntryUntilAnswered'
  BY DEF IInv, EntryUntilAnswered
<1>2. UNCHANGED <<caller, answered>> => Awaited' /\ Received'
  BY DEF IInv, Awaited, Received
<1>3. UNCHANGED <<handler, answered>> => AnsweredBySome' /\ HandlersOfAnswered'
  BY DEF IInv, AnsweredBySome, HandlersOfAnswered, HasHandedOver
<1>4. UNCHANGED <<handler, caller>> => HandlersOfSent'
  BY DEF IInv, HandlersOfSent
<1>5. UNCHANGED <<handler, waiter>> => LockExcludes'
  BY DEF IInv, LockExcludes
<1>6. UNCHANGED <<reader, pending, waiter, handler>> => WakeupDue'
  BY DEF IInv, WakeupDue
<1>7. UNCHANGED <<reader, handler>> => SessionSurvives'
  BY DEF IInv, SessionSurvives
<1>. QED
  BY <1>1, <1>2, <1>3, <1>4, <1>5, <1>6, <1>7

(* No handler forgets that its copy of a response arrived.                    *)
LEMMA StartedStays ==
    ASSUME IInv, UNCHANGED reader,
           \A h \in Handlers : handler[h] # "none" => handler'[h] # "none"
    PROVE  SessionSurvives'
<1>. SUFFICES ASSUME reader = "failed"
              PROVE  SessionSurvives'
  BY DEF SessionSurvives
<1>1. PICK r \in Requests, c \in Copies, d \in Copies :
         c # d /\ handler[<<r, c>>] # "none" /\ handler[<<r, d>>] # "none"
  BY DEF IInv, SessionSurvives
<1>2. <<r, c>> \in Handlers /\ <<r, d>> \in Handlers
  BY DEF Handlers
<1>. QED
  BY <1>1, <1>2 DEF SessionSurvives

LEMMA StrengthenedInductive ==
    ASSUME IInv, [Next]_vars
    PROVE  IInv'
<1>0. TypeOK'
  BY TypeOKInductive DEF IInv
<1>1. ASSUME NEW r \in Requests, TakeBlocked(r)
      PROVE  IInv'
  <2>1. EntryUntilAnswered'
    BY <1>1 DEF TakeBlocked, Blocked, IInv, TypeOK, EntryUntilAnswered,
         Awaited, HandlersOfAnswered, Handlers
  <2>2. Awaited'
    BY <1>1 DEF TakeBlocked, Blocked, IInv, TypeOK, Awaited, Handlers
  <2>3. Received'
    BY <1>1 DEF TakeBlocked, Blocked, IInv, TypeOK, Received, Handlers
  <2>4. AnsweredBySome'
    BY <1>1 DEF TakeBlocked, Blocked, IInv, TypeOK, AnsweredBySome,
         Handlers, HasHandedOver
  <2>5. HandlersOfAnswered'
    BY <1>1 DEF TakeBlocked, Blocked, IInv, TypeOK, HandlersOfAnswered,
         Handlers
  <2>6. HandlersOfSent'
    BY <1>1 DEF TakeBlocked, Blocked, IInv, TypeOK, HandlersOfSent,
         Handlers
  <2>7. LockExcludes'
    BY <1>1 DEF TakeBlocked, Blocked, IInv, TypeOK, LockExcludes,
         Handlers
  <2>8. WakeupDue'
    BY <1>1 DEF TakeBlocked, Blocked, IInv, TypeOK, WakeupDue, Handlers
  <2>9. SessionSurvives'
    BY <1>1, StartedStays DEF TakeBlocked, Blocked, IInv, TypeOK
  <2>. QED
    BY <1>0, <2>1, <2>2, <2>3, <2>4, <2>5, <2>6, <2>7, <2>8, <2>9 DEF IInv
<1>2. ASSUME NEW r \in Requests, AwaitResponse(r)
      PROVE  IInv'
  <2>1. Awaited'
    BY <1>2 DEF AwaitResponse, IInv, TypeOK, Awaited, Handlers
  <2>2. EntryUntilAnswered'
    BY <1>2 DEF AwaitResponse, IInv, TypeOK, EntryUntilAnswered,
         Handlers
  <2>3. Received'
    BY <1>2 DEF AwaitResponse, IInv, TypeOK, Received, Handlers
  <2>4. HandlersOfSent'
    BY <1>2 DEF AwaitResponse, IInv, TypeOK, HandlersOfSent, Handlers
  <2>5. AnsweredBySome' /\ HandlersOfAnswered' /\ LockExcludes' /\ WakeupDue'
       /\ SessionSurvives'
    BY Frame, <1>2 DEF AwaitResponse
  <2>. QED
    BY <1>0, <2>1, <2>2, <2>3, <2>4, <2>5 DEF IInv
<1>3. ASSUME NEW r \in Requests, Resume(r)
      PROVE  IInv'
  <2>1. EntryUntilAnswered'
    BY <1>3 DEF Resume, Blocked, IInv, TypeOK, EntryUntilAnswered,
         Handlers
  <2>2. Received'
    BY <1>3 DEF Resume, Blocked, IInv, TypeOK, Received, Handlers
  <2>3. AnsweredBySome'
    BY <1>3 DEF Resume, Blocked, IInv, TypeOK, AnsweredBySome, Handlers,
         HasHandedOver
  <2>4. HandlersOfAnswered'
    BY <1>3 DEF Resume, Blocked, IInv, TypeOK, HandlersOfAnswered,
         Received, Handlers
  <2>5. Awaited'
    BY <1>3 DEF Resume, Blocked, IInv, TypeOK, Awaited, Handlers
  <2>6. HandlersOfSent'
    BY <1>3 DEF Resume, Blocked, IInv, TypeOK, HandlersOfSent, Handlers
  <2>7. LockExcludes'
    BY <1>3 DEF Resume, Blocked, IInv, TypeOK, LockExcludes, Handlers
  <2>8. WakeupDue'
    BY <1>3 DEF Resume, Blocked, IInv, TypeOK, WakeupDue, Handlers
  <2>9. SessionSurvives'
    BY <1>3, StartedStays DEF Resume, Blocked, IInv, TypeOK
  <2>. QED
    BY <1>0, <2>1, <2>2, <2>3, <2>4, <2>5, <2>6, <2>7, <2>8, <2>9 DEF IInv
<1>4. ASSUME NEW r \in Requests, RequestTimeout(r)
      PROVE  IInv'
  <2>1. EntryUntilAnswered'
    BY <1>4 DEF RequestTimeout, IInv, TypeOK, EntryUntilAnswered,
         Handlers
  <2>2. Awaited'
    BY <1>4 DEF RequestTimeout, IInv, TypeOK, Awaited, Handlers
  <2>3. Received'
    BY <1>4 DEF RequestTimeout, IInv, TypeOK, Received, Handlers
  <2>4. HandlersOfSent'
    BY <1>4 DEF RequestTimeout, IInv, TypeOK, HandlersOfSent, Handlers
  <2>5. AnsweredBySome' /\ HandlersOfAnswered' /\ LockExcludes' /\ WakeupDue'
       /\ SessionSurvives'
    BY Frame, <1>4 DEF RequestTimeout
  <2>. QED
    BY <1>0, <2>1, <2>2, <2>3, <2>4, <2>5 DEF IInv
<1>5. ASSUME NEW r \in Requests, CancelCaller(r)
      PROVE  IInv'
  <2>1. EntryUntilAnswered'
    BY <1>5 DEF CancelCaller, IInv, TypeOK, EntryUntilAnswered, Handlers
  <2>2. Awaited'
    BY <1>5 DEF CancelCaller, IInv, TypeOK, Awaited, Handlers
  <2>3. Received'
    BY <1>5 DEF CancelCaller, IInv, TypeOK, Received, Handlers
  <2>4. HandlersOfSent'
    BY <1>5 DEF CancelCaller, IInv, TypeOK, HandlersOfSent, Handlers
  <2>5. AnsweredBySome' /\ HandlersOfAnswered' /\ LockExcludes' /\ WakeupDue'
       /\ SessionSurvives'
    BY Frame, <1>5 DEF CancelCaller
  <2>. QED
    BY <1>0, <2>1, <2>2, <2>3, <2>4, <2>5 DEF IInv
<1>6. ASSUME NEW r \in Requests, Reserve(r)
      PROVE  IInv'
  <2>1. EntryUntilAnswered'
    BY <1>6 DEF Reserve, IInv, TypeOK, EntryUntilAnswered, Awaited,
         Handlers
  <2>2. Awaited'
    BY <1>6 DEF Reserve, IInv, TypeOK, Awaited, Handlers
  <2>3. WakeupDue'
    BY <1>6 DEF Reserve, IInv, TypeOK, WakeupDue, Handlers
  <2>4. Received'
    BY <1>6 DEF Reserve, IInv, TypeOK, Received, Handlers
  <2>5. HandlersOfSent'
    BY <1>6 DEF Reserve, IInv, TypeOK, HandlersOfSent, Handlers
  <2>6. AnsweredBySome' /\ HandlersOfAnswered' /\ LockExcludes' /\
       SessionSurvives'
    BY Frame, <1>6 DEF Reserve
  <2>. QED
    BY <1>0, <2>1, <2>2, <2>3, <2>4, <2>5, <2>6 DEF IInv
<1>7. ASSUME NEW r \in Requests, SendFails(r)
      PROVE  IInv'
  <2>1. EntryUntilAnswered'
    BY <1>7 DEF SendFails, IInv, TypeOK, EntryUntilAnswered, Handlers
  <2>2. Awaited'
    BY <1>7 DEF SendFails, IInv, TypeOK, Awaited, Handlers
  <2>3. Received'
    BY <1>7 DEF SendFails, IInv, TypeOK, Received, Handlers
  <2>4. HandlersOfSent'
    BY <1>7 DEF SendFails, IInv, TypeOK, HandlersOfSent, Handlers
  <2>5. AnsweredBySome' /\ HandlersOfAnswered' /\ LockExcludes' /\ WakeupDue'
       /\ SessionSurvives'
    BY Frame, <1>7 DEF SendFails
  <2>. QED
    BY <1>0, <2>1, <2>2, <2>3, <2>4, <2>5 DEF IInv
<1>8. ASSUME NEW h \in Handlers, HandOver(h)
      PROVE  IInv'
  <2>1. EntryUntilAnswered'
    BY <1>8 DEF HandOver, PopEntry, IInv, TypeOK, EntryUntilAnswered,
         Handlers
  <2>2. Received'
    BY <1>8 DEF HandOver, PopEntry, IInv, TypeOK, Received, Handlers
  <2>3. AnsweredBySome'
    BY <1>8 DEF HandOver, PopEntry, IInv, TypeOK, AnsweredBySome,
         Handlers, HasHandedOver
  <2>4. HandlersOfSent'
    BY <1>8 DEF HandOver, PopEntry, IInv, TypeOK, HandlersOfSent,
         Handlers
  <2>5. WakeupDue'
    BY <1>8 DEF HandOver, PopEntry, IInv, TypeOK, WakeupDue, Handlers
  <2>6. Awaited'
    BY <1>8 DEF HandOver, PopEntry, IInv, TypeOK, Awaited, Handlers
  <2>7. HandlersOfAnswered'
    BY <1>8 DEF HandOver, PopEntry, IInv, TypeOK, HandlersOfAnswered,
         Handlers
  <2>8. LockExcludes'
    BY <1>8 DEF HandOver, PopEntry, IInv, TypeOK, LockExcludes, Handlers
  <2>9. SessionSurvives'
    BY <1>8, StartedStays DEF HandOver, PopEntry, IInv, TypeOK
  <2>. QED
    BY <1>0, <2>1, <2>2, <2>3, <2>4, <2>5, <2>6, <2>7, <2>8, <2>9 DEF IInv
<1>9. ASSUME NEW h \in Handlers, Block(h)
      PROVE  IInv'
  <2>1. EntryUntilAnswered'
    BY <1>9 DEF Block, IInv, TypeOK, EntryUntilAnswered, Handlers
  <2>2. AnsweredBySome'
    BY <1>9 DEF Block, IInv, TypeOK, AnsweredBySome, Handlers,
         HasHandedOver
  <2>3. HandlersOfSent'
    BY <1>9 DEF Block, IInv, TypeOK, HandlersOfSent, Handlers
  <2>4. HandlersOfAnswered'
    BY <1>9 DEF Block, IInv, TypeOK, HandlersOfAnswered, Handlers
  <2>5. LockExcludes'
    BY <1>9 DEF Block, IInv, TypeOK, LockExcludes, Handlers
  <2>6. WakeupDue'
    BY <1>9 DEF Block, IInv, TypeOK, WakeupDue, Handlers
  <2>7. SessionSurvives'
    BY <1>9, StartedStays DEF Block, IInv, TypeOK
  <2>8. Awaited' /\ Received'
    BY Frame, <1>9 DEF Block
  <2>. QED
    BY <1>0, <2>1, <2>2, <2>3, <2>4, <2>5, <2>6, <2>7, <2>8 DEF IInv
<1>10. ASSUME NEW h \in Handlers, Refuse(h)
      PROVE  IInv'
  <2>1. EntryUntilAnswered'
    BY <1>10 DEF Refuse, IInv, TypeOK, EntryUntilAnswered, Handlers
  <2>2. AnsweredBySome'
    BY <1>10 DEF Refuse, IInv, TypeOK, AnsweredBySome, Handlers,
         HasHandedOver
  <2>3. SessionSurvives'
    <3>1. h[1] \in Requests /\ h[2] \in Copies /\ h = <<h[1], h[2]>>
      BY DEF Handlers
    <3>2. h[1] \in answered
      BY <1>10, <3>1 DEF Refuse, IInv, EntryUntilAnswered, Received,
                       HandlersOfAnswered, HandlersOfSent
    <3>3. PICK g \in Handlers : g[1] = h[1] /\ HasHandedOver(g)
      BY <3>2 DEF IInv, AnsweredBySome
    <3>4. g[2] \in Copies /\ g = <<h[1], g[2]>> /\ g # h
      BY <1>10, <3>3 DEF Refuse, Handlers, HasHandedOver
    <3>5. handler'[h] # "none" /\ handler'[g] # "none"
      BY <1>10, <3>3, <3>4 DEF Refuse, HasHandedOver, IInv, TypeOK
    <3>6. h[2] # g[2] /\ handler'[<<h[1], h[2]>>] # "none"
                     /\ handler'[<<h[1], g[2]>>] # "none"
      BY <3>1, <3>4, <3>5
    <3>. QED
      BY <3>1, <3>4, <3>6 DEF SessionSurvives
  <2>4. HandlersOfAnswered'
    BY <1>10 DEF Refuse, IInv, TypeOK, HandlersOfAnswered, Handlers
  <2>5. HandlersOfSent'
    BY <1>10 DEF Refuse, IInv, TypeOK, HandlersOfSent, Handlers
  <2>6. LockExcludes'
    BY <1>10 DEF Refuse, IInv, TypeOK, LockExcludes, Handlers
  <2>7. WakeupDue'
    BY <1>10 DEF Refuse, IInv, TypeOK, WakeupDue, Handlers
  <2>8. Awaited' /\ Received'
    BY Frame, <1>10 DEF Refuse
  <2>. QED
    BY <1>0, <2>1, <2>2, <2>3, <2>4, <2>5, <2>6, <2>7, <2>8 DEF IInv
<1>11. ASSUME NEW h \in Handlers, Pop(h)
      PROVE  IInv'
  <2>1. EntryUntilAnswered'
    BY <1>11 DEF Pop, PopEntry, IInv, TypeOK, EntryUntilAnswered,
         HandlersOfAnswered, Handlers
  <2>2. AnsweredBySome'
    BY <1>11 DEF Pop, PopEntry, IInv, TypeOK, AnsweredBySome, Handlers,
         HasHandedOver
  <2>3. WakeupDue'
    BY <1>11 DEF Pop, PopEntry, IInv, TypeOK, WakeupDue, Handlers
  <2>4. HandlersOfAnswered'
    BY <1>11 DEF Pop, PopEntry, IInv, TypeOK, HandlersOfAnswered,
         Handlers
  <2>5. HandlersOfSent'
    BY <1>11 DEF Pop, PopEntry, IInv, TypeOK, HandlersOfSent, Handlers
  <2>6. LockExcludes'
    BY <1>11 DEF Pop, PopEntry, IInv, TypeOK, LockExcludes, Handlers
  <2>7. SessionSurvives'
    BY <1>11, StartedStays DEF Pop, PopEntry, IInv, TypeOK
  <2>8. Awaited' /\ Received'
    BY Frame, <1>11 DEF Pop, PopEntry
  <2>. QED
    BY <1>0, <2>1, <2>2, <2>3, <2>4, <2>5, <2>6, <2>7, <2>8 DEF IInv
<1>12. ASSUME NEW h \in Handlers, AcquireToNotify(h)
      PROVE  IInv'
  <2>1. EntryUntilAnswered'
    BY <1>12 DEF AcquireToNotify, LockFree, IInv, TypeOK,
         EntryUntilAnswered, Handlers
  <2>2. AnsweredBySome'
    BY <1>12 DEF AcquireToNotify, LockFree, IInv, TypeOK,
         AnsweredBySome, Handlers, HasHandedOver
  <2>3. LockExcludes'
    BY <1>12 DEF AcquireToNotify, LockFree, IInv, TypeOK, LockExcludes,
         Handlers
  <2>4. WakeupDue'
    BY <1>12 DEF AcquireToNotify, LockFree, IInv, TypeOK, WakeupDue,
         Handlers
  <2>5. HandlersOfAnswered'
    BY <1>12 DEF AcquireToNotify, LockFree, IInv, TypeOK,
         HandlersOfAnswered, Handlers
  <2>6. HandlersOfSent'
    BY <1>12 DEF AcquireToNotify, LockFree, IInv, TypeOK,
         HandlersOfSent, Handlers
  <2>7. SessionSurvives'
    BY <1>12, StartedStays DEF AcquireToNotify, LockFree, IInv, TypeOK
  <2>8. Awaited' /\ Received'
    BY Frame, <1>12 DEF AcquireToNotify, LockFree
  <2>. QED
    BY <1>0, <2>1, <2>2, <2>3, <2>4, <2>5, <2>6, <2>7, <2>8 DEF IInv
<1>13. ASSUME NEW h \in Handlers, NotifyAll(h)
      PROVE  IInv'
  <2>1. EntryUntilAnswered'
    BY <1>13 DEF NotifyAll, IInv, TypeOK, EntryUntilAnswered, Handlers
  <2>2. AnsweredBySome'
    BY <1>13 DEF NotifyAll, IInv, TypeOK, AnsweredBySome, Handlers,
         HasHandedOver
  <2>3. LockExcludes'
    BY <1>13 DEF NotifyAll, IInv, TypeOK, LockExcludes, Handlers
  <2>4. WakeupDue'
    BY <1>13 DEF NotifyAll, IInv, TypeOK, LockExcludes, WakeupDue,
         Handlers
  <2>5. HandlersOfAnswered'
    BY <1>13 DEF NotifyAll, IInv, TypeOK, HandlersOfAnswered, Handlers
  <2>6. HandlersOfSent'
    BY <1>13 DEF NotifyAll, IInv, TypeOK, HandlersOfSent, Handlers
  <2>7. SessionSurvives'
    BY <1>13, StartedStays DEF NotifyAll, IInv, TypeOK
  <2>8. Awaited' /\ Received'
    BY Frame, <1>13 DEF NotifyAll
  <2>. QED
    BY <1>0, <2>1, <2>2, <2>3, <2>4, <2>5, <2>6, <2>7, <2>8 DEF IInv
<1>14. ASSUME NEW h \in Handlers, CancelHandler(h)
      PROVE  IInv'
  <2>1. EntryUntilAnswered'
    BY <1>14 DEF CancelHandler, IInv, TypeOK, EntryUntilAnswered,
         Handlers
  <2>2. AnsweredBySome'
    BY <1>14 DEF CancelHandler, IInv, TypeOK, AnsweredBySome, Handlers,
         HasHandedOver
  <2>3. WakeupDue'
    BY <1>14 DEF CancelHandler, IInv, TypeOK, WakeupDue, Handlers
  <2>4. HandlersOfAnswered'
    BY <1>14 DEF CancelHandler, IInv, TypeOK, HandlersOfAnswered,
         Handlers
  <2>5. HandlersOfSent'
    BY <1>14 DEF CancelHandler, IInv, TypeOK, HandlersOfSent, Handlers
  <2>6. LockExcludes'
    BY <1>14 DEF CancelHandler, IInv, TypeOK, LockExcludes, Handlers
  <2>7. SessionSurvives'
    BY <1>14, StartedStays DEF CancelHandler, IInv, TypeOK
  <2>8. Awaited' /\ Received'
    BY Frame, <1>14 DEF CancelHandler
  <2>. QED
    BY <1>0, <2>1, <2>2, <2>3, <2>4, <2>5, <2>6, <2>7, <2>8 DEF IInv
<1>15. ASSUME NEW h \in Handlers, ReceiveResponse(h)
      PROVE  IInv'
  <2>1. EntryUntilAnswered'
    BY <1>15 DEF ReceiveResponse, IInv, TypeOK, EntryUntilAnswered,
         Handlers
  <2>2. AnsweredBySome'
    BY <1>15 DEF ReceiveResponse, IInv, TypeOK, AnsweredBySome,
         Handlers, HasHandedOver
  <2>3. HandlersOfSent'
    BY <1>15 DEF ReceiveResponse, IInv, TypeOK, HandlersOfSent, Handlers
  <2>4. SessionSurvives'
    BY <1>15 DEF ReceiveResponse, IInv, TypeOK, SessionSurvives,
         Handlers
  <2>5. HandlersOfAnswered'
    BY <1>15 DEF ReceiveResponse, IInv, TypeOK, HandlersOfAnswered,
         Handlers
  <2>6. LockExcludes'
    BY <1>15 DEF ReceiveResponse, IInv, TypeOK, LockExcludes, Handlers
  <2>7. WakeupDue'
    BY <1>15 DEF ReceiveResponse, IInv, TypeOK, WakeupDue, Handlers
  <2>8. Awaited' /\ Received'
    BY Frame, <1>15 DEF ReceiveResponse
  <2>. QED
    BY <1>0, <2>1, <2>2, <2>3, <2>4, <2>5, <2>6, <2>7, <2>8 DEF IInv
<1>16. ASSUME NEW w \in Waiters, AcquireToCheck(w)
      PROVE  IInv'
  <2>1. LockExcludes'
    BY <1>16 DEF AcquireToCheck, LockFree, IInv, TypeOK, LockExcludes,
         Handlers
  <2>2. WakeupDue'
    BY <1>16 DEF AcquireToCheck, LockFree, IInv, TypeOK, WakeupDue,
         Handlers
  <2>3. EntryUntilAnswered' /\ Awaited' /\ Received' /\ AnsweredBySome' /\
       HandlersOfAnswered' /\ HandlersOfSent' /\ SessionSurvives'
    BY Frame, <1>16 DEF AcquireToCheck, LockFree
  <2>. QED
    BY <1>0, <2>1, <2>2, <2>3 DEF IInv
<1>17. ASSUME NEW w \in Waiters, CheckEmpty(w)
      PROVE  IInv'
  <2>1. LockExcludes'
    BY <1>17 DEF CheckEmpty, IInv, TypeOK, LockExcludes, Handlers
  <2>2. WakeupDue'
    BY <1>17 DEF CheckEmpty, IInv, TypeOK, WakeupDue, Handlers
  <2>3. EntryUntilAnswered' /\ Awaited' /\ Received' /\ AnsweredBySome' /\
       HandlersOfAnswered' /\ HandlersOfSent' /\ SessionSurvives'
    BY Frame, <1>17 DEF CheckEmpty
  <2>. QED
    BY <1>0, <2>1, <2>2, <2>3 DEF IInv
<1>18. ASSUME NEW w \in Waiters, Park(w)
      PROVE  IInv'
  <2>1. LockExcludes'
    BY <1>18 DEF Park, IInv, TypeOK, LockExcludes, Handlers
  <2>2. WakeupDue'
    BY <1>18 DEF Park, IInv, TypeOK, WakeupDue, Handlers
  <2>3. EntryUntilAnswered' /\ Awaited' /\ Received' /\ AnsweredBySome' /\
       HandlersOfAnswered' /\ HandlersOfSent' /\ SessionSurvives'
    BY Frame, <1>18 DEF Park
  <2>. QED
    BY <1>0, <2>1, <2>2, <2>3 DEF IInv
<1>19. ASSUME NEW w \in Waiters, LeaveExpired(w)
      PROVE  IInv'
  <2>1. LockExcludes'
    BY <1>19 DEF LeaveExpired, IInv, TypeOK, LockExcludes, Handlers
  <2>2. WakeupDue'
    BY <1>19 DEF LeaveExpired, IInv, TypeOK, WakeupDue, Handlers
  <2>3. EntryUntilAnswered' /\ Awaited' /\ Received' /\ AnsweredBySome' /\
       HandlersOfAnswered' /\ HandlersOfSent' /\ SessionSurvives'
    BY Frame, <1>19 DEF LeaveExpired
  <2>. QED
    BY <1>0, <2>1, <2>2, <2>3 DEF IInv
<1>20. ASSUME NEW w \in Waiters, CancelWaiter(w)
      PROVE  IInv'
  <2>1. LockExcludes'
    BY <1>20 DEF CancelWaiter, IInv, TypeOK, LockExcludes, Handlers
  <2>2. WakeupDue'
    BY <1>20 DEF CancelWaiter, IInv, TypeOK, WakeupDue, Handlers
  <2>3. EntryUntilAnswered' /\ Awaited' /\ Received' /\ AnsweredBySome' /\
       HandlersOfAnswered' /\ HandlersOfSent' /\ SessionSurvives'
    BY Frame, <1>20 DEF CancelWaiter
  <2>. QED
    BY <1>0, <2>1, <2>2, <2>3 DEF IInv
<1>21. ASSUME NEW w \in Waiters, BeginWait(w)
      PROVE  IInv'
  <2>1. LockExcludes'
    BY <1>21 DEF BeginWait, IInv, TypeOK, LockExcludes, Handlers
  <2>2. WakeupDue'
    BY <1>21 DEF BeginWait, IInv, TypeOK, WakeupDue, Handlers
  <2>3. EntryUntilAnswered' /\ Awaited' /\ Received' /\ AnsweredBySome' /\
       HandlersOfAnswered' /\ HandlersOfSent' /\ SessionSurvives'
    BY Frame, <1>21 DEF BeginWait
  <2>. QED
    BY <1>0, <2>1, <2>2, <2>3 DEF IInv
<1>22. ASSUME NEW w \in Waiters, WaitTimeout(w)
      PROVE  IInv'
  <2>1. LockExcludes'
    BY <1>22 DEF WaitTimeout, IInv, TypeOK, LockExcludes, Handlers
  <2>2. WakeupDue'
    BY <1>22 DEF WaitTimeout, IInv, TypeOK, WakeupDue, Handlers
  <2>3. EntryUntilAnswered' /\ Awaited' /\ Received' /\ AnsweredBySome' /\
       HandlersOfAnswered' /\ HandlersOfSent' /\ SessionSurvives'
    BY Frame, <1>22 DEF WaitTimeout
  <2>. QED
    BY <1>0, <2>1, <2>2, <2>3 DEF IInv
<1>23. CASE StreamEnds \/ UNCHANGED vars
  <2>1. UNCHANGED <<pending, caller, handler, waiter, answered>>
    BY <1>23 DEF StreamEnds, vars
  <2>2. WakeupDue' /\ SessionSurvives'
    <3>1. (reader' = "failed") <=> (reader = "failed")
      BY <1>23 DEF StreamEnds, vars
    <3>2. WakeupDue /\ SessionSurvives
      BY DEF IInv
    <3>3. WakeupDue'
      BY <2>1, <3>1, <3>2 DEF WakeupDue
    <3>4. SessionSurvives'
      BY <2>1, <3>1, <3>2 DEF SessionSurvives
    <3>. QED
      BY <3>3, <3>4
  <2>3. EntryUntilAnswered' /\ Awaited' /\ Received' /\ AnsweredBySome' /\
       HandlersOfAnswered' /\ HandlersOfSent' /\ LockExcludes'
    BY <2>1, Frame
  <2>. QED
    BY <1>0, <2>2, <2>3 DEF IInv
<1>. QED
  BY <1>1, <1>2, <1>3, <1>4, <1>5, <1>6, <1>7, <1>8, <1>9, <1>10,
         <1>11, <1>12, <1>13, <1>14, <1>15, <1>16, <1>17, <1>18, <1>19,
         <1>20, <1>21, <1>22, <1>23 DEF Next, CallerStep, HandlerStep,
         WaiterStep, Environment

LEMMA StrengthenedHolds == Spec => []IInv
<1>1. Init => IInv
  <2>. HAVE Init
  <2>1. TypeOK
    BY DEF Init, TypeOK, CallerStates, HandlerStates, WaiterStates
  <2>. QED
    BY <2>1 DEF Init, IInv, EntryUntilAnswered, Awaited, Received, AnsweredBySome,
                HandlersOfAnswered, HandlersOfSent, LockExcludes, WakeupDue,
                SessionSurvives
<1>. QED
  BY <1>1, StrengthenedInductive, PTL DEF Spec

(* However timeouts, failed writes and late responses interleave, the table   *)
(* keeps an entry until its response is handed over, and no longer than the   *)
(* handler that did needs to pop it.                                          *)
THEOREM EntriesAccounted == Spec => []EntryUntilAnswered
<1>1. IInv => EntryUntilAnswered
  BY DEF IInv
<1>. QED
  BY <1>1, StrengthenedHolds, PTL

(* No interleaving of pops, reservations, expiring waiters and notifications  *)
(* leaves a waiter parked on an empty table with nobody about to wake it.     *)
THEOREM WakeupsNotLost == Spec => []NoLostWakeup
<1>1. IInv => NoLostWakeup
  BY DEF IInv, WakeupDue, NoLostWakeup
<1>. QED
  BY <1>1, StrengthenedHolds, PTL

(* With a server that answers each request at most once, the response path    *)
(* never raises: whatever times out, the session is not torn down.            *)
THEOREM SessionSurvivesLateResponses == Spec => []SessionSurvives
<1>1. IInv => SessionSurvives
  BY DEF IInv
<1>. QED
  BY <1>1, StrengthenedHolds, PTL

-----------------------------------------------------------------------------
(* ResponseTable implements Promises, for every set of requests, copies and   *)
(* waiters: every step of a task is a step of the promised behaviour, or none.*)
(* It rests on the strengthening IInv and on the table holding nothing but    *)
(* requests that were sent.                                                   *)

GaveUp == {"timedout", "failed", "cancelled"}

PendingSent == \A r \in pending : caller[r] # "idle"

LEMMA PendingSentHolds == Spec => []PendingSent
<1>1. Init => PendingSent
  BY DEF Init, PendingSent
<1>2. IInv /\ PendingSent /\ [Next]_vars => PendingSent'
  <2>. SUFFICES ASSUME IInv, PendingSent, [Next]_vars
                PROVE  PendingSent'
    OBVIOUS
  <2>1. ASSUME NEW r \in Requests,
               CallerStep(r) \/ Reserve(r) \/ SendFails(r)
        PROVE  PendingSent'
    BY <2>1 DEF PendingSent, IInv, TypeOK, CallerStep, TakeBlocked, AwaitResponse,
                Resume, RequestTimeout, CancelCaller, Reserve, SendFails
  <2>2. ASSUME NEW h \in Handlers,
               HandlerStep(h) \/ ReceiveResponse(h)
        PROVE  PendingSent'
    <3>. h[1] \in Requests
      BY DEF Handlers
    <3>. QED
      BY <2>2 DEF PendingSent, IInv, TypeOK, HandlerStep, HandOver, Block, Refuse, Pop,
                  PopEntry, AcquireToNotify, NotifyAll, CancelHandler, ReceiveResponse
  <2>3. ASSUME NEW w \in Waiters,
               WaiterStep(w) \/ BeginWait(w) \/ WaitTimeout(w)
        PROVE  PendingSent'
    BY <2>3 DEF PendingSent, WaiterStep, AcquireToCheck, CheckEmpty, Park,
                LeaveExpired, CancelWaiter, BeginWait, WaitTimeout
  <2>4. CASE StreamEnds \/ UNCHANGED vars
    BY <2>4 DEF PendingSent, StreamEnds, vars
  <2>. QED
    BY <2>1, <2>2, <2>3, <2>4 DEF Next, Environment
<1>. QED
  BY <1>1, <1>2, StrengthenedHolds, PTL DEF Spec

-----------------------------------------------------------------------------
(* The abstract state, spelled out without CASE.                              *)
LEMMA FateOf ==
    ASSUME NEW r \in Requests
    PROVE  /\ r \in answered => Fate(r) = "answered"
           /\ r \notin answered /\ caller[r] = "idle" => Fate(r) = "unsent"
           /\ r \notin answered /\ caller[r] \in GaveUp => Fate(r) = "abandoned"
           /\ r \notin answered /\ caller[r] \notin GaveUp \cup {"idle"} => Fate(r) = "open"
  BY DEF Fate, GaveUp

LEMMA FateOfNext ==
    ASSUME NEW r \in Requests
    PROVE  /\ r \in answered' => Fate(r)' = "answered"
           /\ r \notin answered' /\ caller'[r] = "idle" => Fate(r)' = "unsent"
           /\ r \notin answered' /\ caller'[r] \in GaveUp => Fate(r)' = "abandoned"
           /\ r \notin answered' /\ caller'[r] \notin GaveUp \cup {"idle"}
                  => Fate(r)' = "open"
  BY DEF Fate, GaveUp

(* What the promises count as unanswered is what the table has not answered.  *)
LEMMA SameUnanswered ==
    ASSUME IInv, PendingSent
    PROVE  P!Unanswered = pending \ answered
<1>1. pending \subseteq Requests
  BY DEF IInv, TypeOK
<1>2. ASSUME NEW r \in Requests
      PROVE  Fate(r) \in {"open", "abandoned"} <=> r \in pending \ answered
  <2>1. CASE r \in answered
    BY <2>1, FateOf
  <2>2. CASE r \notin answered /\ caller[r] = "idle"
    BY <2>2, FateOf DEF PendingSent
  <2>3. CASE r \notin answered /\ caller[r] # "idle"
    <3>1. r \in pending
      BY <2>3 DEF IInv, EntryUntilAnswered
    <3>2. Fate(r) \in {"open", "abandoned"}
      BY <2>3, FateOf DEF GaveUp
    <3>. QED
      BY <2>3, <3>1, <3>2
  <2>. QED
    BY <2>1, <2>2, <2>3
<1>. QED
  BY <1>1, <1>2 DEF P!Unanswered

-----------------------------------------------------------------------------
(* The steps of a caller                                                      *)

(* The fate of the other requests does not change with one.                   *)
LEMMA OthersKeepFate ==
    ASSUME TypeOK, NEW r \in Requests, NEW to,
           caller' = [caller EXCEPT ![r] = to],
           answered' \in {answered, answered \cup {r}}
    PROVE  \A q \in Requests : q # r => Fate(q)' = Fate(q)
<1>. TAKE q \in Requests
<1>. HAVE q # r
<1>1. caller'[q] = caller[q] /\ (q \in answered' <=> q \in answered)
  BY DEF TypeOK
<1>2. caller[q] \in CallerStates
  BY DEF TypeOK
<1>. QED
  BY <1>1, <1>2, FateOf, FateOfNext

(* Where the waiters and what they are owed stay, one request moves on.       *)
LEMMA Sends ==
    ASSUME TypeOK, IInv, NEW r \in Requests, Reserve(r)
    PROVE  P!Ask(r)
<1>1. Fate(r) = "unsent" /\ Fate(r)' = "open"
  BY FateOf, FateOfNext DEF Reserve, IInv, TypeOK, Awaited, GaveUp
<1>2. \A q \in Requests : q # r => Fate(q)' = Fate(q)
  BY OthersKeepFate DEF Reserve
<1>. QED
  BY <1>1, <1>2 DEF P!Ask, Reserve, Place

LEMMA Answers ==
    ASSUME TypeOK, IInv, NEW r \in Requests,
           TakeBlocked(r) \/ \E h \in Handlers : h[1] = r /\ HandOver(h)
    PROVE  P!Answer(r)
<1>1. caller[r] \in {"sending", "waiting"} /\ r \notin answered
  BY DEF TakeBlocked, HandOver, IInv, Awaited
<1>2. \E to : caller' = [caller EXCEPT ![r] = to]
  BY DEF TakeBlocked, HandOver
<1>3. answered' = answered \cup {r} /\ UNCHANGED <<waiter, owed>>
  BY DEF TakeBlocked, HandOver
<1>4. Fate(r) = "open" /\ Fate(r)' = "answered"
  BY <1>1, <1>3, FateOf, FateOfNext DEF GaveUp
<1>5. \A q \in Requests : q # r => Fate(q)' = Fate(q)
  BY <1>2, <1>3, OthersKeepFate
<1>. QED
  BY <1>3, <1>4, <1>5 DEF P!Answer, Place

(* One that was handed its response before its time was up stays answered.    *)
LEMMA GivesUp ==
    ASSUME TypeOK, IInv, NEW r \in Requests,
           SendFails(r) \/ RequestTimeout(r) \/ CancelCaller(r)
    PROVE  P!Abandon(r) \/ UNCHANGED P!vars
<1>1. caller[r] \notin GaveUp \cup {"idle"} /\ caller'[r] \in GaveUp
  BY DEF SendFails, RequestTimeout, CancelCaller, GaveUp, TypeOK
<1>2. \E to : caller' = [caller EXCEPT ![r] = to]
  BY DEF SendFails, RequestTimeout, CancelCaller
<1>3. UNCHANGED <<waiter, owed, answered>>
  BY DEF SendFails, RequestTimeout, CancelCaller
<1>4. \A q \in Requests : q # r => Fate(q)' = Fate(q)
  BY <1>2, <1>3, OthersKeepFate
<1>5. CASE r \in answered
  <2>1. Fate(r)' = Fate(r)
    BY <1>3, <1>5, FateOf, FateOfNext
  <2>. QED
    BY <1>3, <1>4, <2>1 DEF P!vars, Place
<1>6. CASE r \notin answered
  <2>1. Fate(r) = "open" /\ Fate(r)' = "abandoned"
    BY <1>1, <1>3, <1>6, FateOf, FateOfNext
  <2>. QED
    BY <1>3, <1>4, <2>1 DEF P!Abandon, Place
<1>. QED
  BY <1>5, <1>6

(* Waiting for the response, and taking it up once it was handed over.        *)
LEMMA Receives ==
    ASSUME TypeOK, NEW r \in Requests, AwaitResponse(r) \/ Resume(r)
    PROVE  UNCHANGED P!vars
<1>1. /\ caller[r] \notin GaveUp \cup {"idle"} /\ caller'[r] \notin GaveUp \cup {"idle"}
      /\ UNCHANGED <<waiter, owed, answered>>
  BY DEF AwaitResponse, Resume, GaveUp, TypeOK
<1>2. \E to : caller' = [caller EXCEPT ![r] = to]
  BY DEF AwaitResponse, Resume
<1>3. \A q \in Requests : q # r => Fate(q)' = Fate(q)
  BY <1>1, <1>2, OthersKeepFate
<1>4. Fate(r)' = Fate(r)
  BY <1>1, FateOf, FateOfNext
<1>. QED
  BY <1>1, <1>3, <1>4 DEF P!vars, Place

-----------------------------------------------------------------------------
(* The steps of a handler but the hand-over, and of the read loop             *)

(* A waiter that notify_all wakes is still inside.                            *)
LEMMA Handles ==
    ASSUME TypeOK, NEW h \in Handlers,
           ReceiveResponse(h) \/ (HandlerStep(h) /\ ~ HandOver(h))
    PROVE  UNCHANGED P!vars
<1>1. UNCHANGED <<caller, answered, owed>>
  BY DEF ReceiveResponse, HandlerStep, Block, Refuse, Pop, AcquireToNotify, NotifyAll,
         CancelHandler
<1>2. \A r \in Requests : Fate(r)' = Fate(r)
  BY <1>1 DEF Fate
<1>3. \A w \in Waiters :
         waiter'[w] = waiter[w] \/ (waiter[w] = "parked" /\ waiter'[w] = "woken")
  BY DEF ReceiveResponse, HandlerStep, Block, Refuse, Pop, AcquireToNotify, NotifyAll,
         CancelHandler
<1>4. \A w \in Waiters : Place(w)' = Place(w)
  BY <1>3 DEF Place
<1>. QED
  BY <1>1, <1>2, <1>4 DEF P!vars

-----------------------------------------------------------------------------
(* The steps of a waiter                                                      *)

LEMMA PlaceOf ==
    ASSUME NEW w \in Waiters
    PROVE  /\ waiter[w] = "out" => Place(w) = "outside"
           /\ waiter[w] = "returned" => Place(w) = "passed"
           /\ waiter[w] \in {"timedout", "cancelled"} => Place(w) = "left"
           /\ waiter[w] \notin {"out", "returned", "timedout", "cancelled"}
                  => Place(w) = "inside"
  BY DEF Place

LEMMA PlaceOfNext ==
    ASSUME NEW w \in Waiters
    PROVE  /\ waiter'[w] = "out" => Place(w)' = "outside"
           /\ waiter'[w] = "returned" => Place(w)' = "passed"
           /\ waiter'[w] \in {"timedout", "cancelled"} => Place(w)' = "left"
           /\ waiter'[w] \notin {"out", "returned", "timedout", "cancelled"}
                  => Place(w)' = "inside"
  BY DEF Place

LEMMA OthersKeepPlace ==
    ASSUME NEW w \in Waiters, NEW to, TypeOK, waiter' = [waiter EXCEPT ![w] = to]
    PROVE  \A v \in Waiters : v # w => Place(v)' = Place(v)
  BY DEF TypeOK, Place

(* A waiter owes its place to what the table holds when it comes.             *)
LEMMA Enters ==
    ASSUME TypeOK, IInv, PendingSent, NEW w \in Waiters, BeginWait(w)
    PROVE  P!Enter(w)
<1>1. /\ waiter[w] = "out" /\ waiter' = [waiter EXCEPT ![w] = "acquiring"]
      /\ owed' = [owed EXCEPT ![w] = pending \ answered]
      /\ UNCHANGED <<caller, answered>>
  BY DEF BeginWait
<1>2. Place(w) = "outside" /\ Place(w)' = "inside"
  BY <1>1, PlaceOf, PlaceOfNext DEF TypeOK
<1>3. \A v \in Waiters : v # w => Place(v)' = Place(v)
  BY <1>1, OthersKeepPlace
<1>4. \A r \in Requests : Fate(r)' = Fate(r)
  BY <1>1 DEF Fate
<1>5. P!Unanswered = pending \ answered
  BY SameUnanswered
<1>. QED
  BY <1>1, <1>2, <1>3, <1>4, <1>5 DEF P!Enter

(* It leaves an empty table behind, so what it was owed is answered.          *)
LEMMA Passes ==
    ASSUME TypeOK, IInv, PendingSent, NEW w \in Waiters, CheckEmpty(w)
    PROVE  P!Pass(w) \/ UNCHANGED P!vars
<1>1. /\ waiter[w] = "checking"
      /\ waiter' = [waiter EXCEPT ![w] = IF pending = {} THEN "returned" ELSE "parking"]
      /\ UNCHANGED <<caller, answered, owed>>
  BY DEF CheckEmpty
<1>2. Place(w) = "inside"
  BY <1>1, PlaceOf
<1>3. \A v \in Waiters : v # w => Place(v)' = Place(v)
  BY <1>1, OthersKeepPlace
<1>4. \A r \in Requests : Fate(r)' = Fate(r)
  BY <1>1 DEF Fate
<1>5. CASE pending = {}
  <2>1. P!Unanswered = {}
    BY <1>5, SameUnanswered
  <2>2. Place(w)' = "passed"
    BY <1>1, <1>5, PlaceOfNext DEF TypeOK
  <2>. QED
    BY <1>1, <1>2, <1>3, <1>4, <2>1, <2>2 DEF P!Pass
<1>6. CASE pending # {}
  <2>1. Place(w)' = "inside"
    BY <1>1, <1>6, PlaceOfNext DEF TypeOK
  <2>. QED
    BY <1>1, <1>2, <1>3, <1>4, <2>1 DEF P!vars
<1>. QED
  BY <1>5, <1>6

LEMMA Leaves ==
    ASSUME TypeOK, NEW w \in Waiters,
           WaitTimeout(w) \/ LeaveExpired(w) \/ CancelWaiter(w)
    PROVE  P!Leave(w) \/ UNCHANGED P!vars
<1>1. /\ waiter[w] \notin {"out", "returned", "timedout", "cancelled"}
      /\ waiter'[w] \in {"expired", "timedout", "cancelled"}
      /\ UNCHANGED <<caller, answered, owed>>
  BY DEF WaitTimeout, LeaveExpired, CancelWaiter, TypeOK
<1>2. Place(w) = "inside"
  BY <1>1, PlaceOf
<1>3. \E to : waiter' = [waiter EXCEPT ![w] = to]
  BY DEF WaitTimeout, LeaveExpired, CancelWaiter
<1>4. \A v \in Waiters : v # w => Place(v)' = Place(v)
  BY <1>3, OthersKeepPlace
<1>5. \A r \in Requests : Fate(r)' = Fate(r)
  BY <1>1 DEF Fate
<1>6. Place(w)' \in {"inside", "left"}
  BY <1>1, PlaceOfNext
<1>. QED
  BY <1>1, <1>2, <1>4, <1>5, <1>6 DEF P!Leave, P!vars

LEMMA Waits ==
    ASSUME TypeOK, NEW w \in Waiters, AcquireToCheck(w) \/ Park(w)
    PROVE  UNCHANGED P!vars
<1>1. /\ waiter[w] \notin {"out", "returned", "timedout", "cancelled"}
      /\ waiter'[w] \notin {"out", "returned", "timedout", "cancelled"}
      /\ UNCHANGED <<caller, answered, owed>>
  BY DEF AcquireToCheck, Park, TypeOK
<1>2. \E to : waiter' = [waiter EXCEPT ![w] = to]
  BY DEF AcquireToCheck, Park
<1>3. \A v \in Waiters : v # w => Place(v)' = Place(v)
  BY <1>2, OthersKeepPlace
<1>4. Place(w)' = Place(w)
  BY <1>1, PlaceOf, PlaceOfNext
<1>5. \A r \in Requests : Fate(r)' = Fate(r)
  BY <1>1 DEF Fate
<1>. QED
  BY <1>1, <1>3, <1>4, <1>5 DEF P!vars

-----------------------------------------------------------------------------
LEMMA StepKept ==
    ASSUME IInv, PendingSent, [Next]_vars
    PROVE  P!Next \/ UNCHANGED P!vars
<1>0. TypeOK
  BY DEF IInv
<1>1. ASSUME NEW r \in Requests, CallerStep(r) \/ Reserve(r) \/ SendFails(r)
      PROVE  P!Next \/ UNCHANGED P!vars
  BY <1>0, <1>1, Sends, Answers, GivesUp, Receives DEF CallerStep, P!Next
<1>2. ASSUME NEW h \in Handlers, HandlerStep(h) \/ ReceiveResponse(h)
      PROVE  P!Next \/ UNCHANGED P!vars
  <2>1. CASE HandOver(h)
    <3>. h[1] \in Requests
      BY DEF Handlers
    <3>. QED
      BY <1>0, <2>1, Answers DEF P!Next
  <2>2. CASE ~ HandOver(h)
    BY <1>0, <1>2, <2>2, Handles
  <2>. QED
    BY <2>1, <2>2
<1>3. ASSUME NEW w \in Waiters, WaiterStep(w) \/ BeginWait(w) \/ WaitTimeout(w)
      PROVE  P!Next \/ UNCHANGED P!vars
  BY <1>0, <1>3, Enters, Passes, Leaves, Waits DEF WaiterStep, P!Next
<1>4. CASE StreamEnds \/ UNCHANGED vars
  BY <1>4 DEF StreamEnds, vars, P!vars, Fate, Place
<1>. QED
  BY <1>1, <1>2, <1>3, <1>4 DEF Next, Environment

(* OneShotTable with its callers, handlers and waiters keeps its promises: a  *)
(* request is answered at most once and not after its caller gave up, and     *)
(* wait_until_empty lets nobody through who is still owed an answer.          *)
THEOREM ImplementsPromises == Spec => KeepsPromises
<1>1. Init => P!Init
  <2>. HAVE Init
  <2>1. \A r \in Requests : Fate(r) = "unsent"
    BY FateOf DEF Init
  <2>2. \A w \in Waiters : Place(w) = "outside"
    BY PlaceOf DEF Init
  <2>. QED
    BY <2>1, <2>2 DEF Init, P!Init
<1>2. IInv /\ PendingSent /\ [Next]_vars => [P!Next]_P!vars
  BY StepKept
<1>. QED
  BY <1>1, <1>2, StrengthenedHolds, PendingSentHolds, PTL DEF Spec, KeepsPromises, P!Spec
=============================================================================
