--------------------------- MODULE ServerDispatch ---------------------------
(* The way of a server's requests and notifications to the client's hooks and *)
(* of the responses back: StreamServer._handle_package (server/abc.py), the   *)
(* bounded channel (utils/channel.py), Client._dispatch_server_requests       *)
(* (client/abc.py) and the hook registry (protocol/hook.py).                  *)
(* Every package gets a handler task, every item taken from the channel a     *)
(* dispatch task, every notification hook a task of its own. New tasks of the *)
(* event loop start in the order they were spawned: started is a queue.       *)
EXTENDS Naturals, Sequences, SequencesExt

CONSTANTS
    ServerRequests, Notifications,
    Registries,     \* how many hooks a client may have for the method of a package
    Capacity        \* max_buffer_size of the channel

Packages == ServerRequests \cup Notifications

(* The registry, built when the session starts: register replaces the hook of *)
(* a request, and adds one to the hooks of a notification.                    *)
HookCounts ==
    {registry \in [Packages -> Nat] : \A r \in ServerRequests : registry[r] <= 1}

ASSUME DispatchAssumption ==
    /\ ServerRequests \cap Notifications = {}
    /\ \A registry \in Registries : registry \in HookCounts
    /\ Capacity \in Nat \ {0}

VARIABLES
    hooks,      \* the registry, filled when the session starts
    stream,     \* the output of the server, "open" or "ended"
    arrived,    \* the packages read from the stream, in order
    spawned,    \* tasks not started yet: the handler, dispatch or hook of a package
    queue,      \* the channel's buffer
    stalled,    \* handlers suspended in the channel's send
    fate,       \* what became of every package
    hooked,     \* history: packages in the order their hooks began to run
    session     \* "running", or "failed" when a task raised

vars == <<hooks, stream, arrived, spawned, queue, stalled, fate, hooked, session>>

Task(kind, p) == [kind |-> kind, package |-> p]
Kinds == {"handle", "dispatch", "hook"}
Fates == {"unread", "moving", "hooking", "responding", "answered",
          "finished", "ignored", "unhandled", "raised", "misread", "unsent"}

TypeOK ==
    /\ hooks \in Registries
    /\ stream \in {"open", "ended"}
    /\ arrived \in Seq(Packages)
    /\ spawned \in Seq([kind : Kinds, package : Packages])
    /\ queue \in Seq(Packages)
    /\ stalled \in Seq(Packages)
    /\ fate \in [Packages -> Fates]
    /\ hooked \in Seq(Packages)
    /\ session \in {"running", "failed"}

Init ==
    /\ hooks \in Registries
    /\ stream = "open"
    /\ arrived = <<>> /\ spawned = <<>> /\ queue = <<>> /\ stalled = <<>>
    /\ fate = [p \in Packages |-> "unread"]
    /\ hooked = <<>>
    /\ session = "running"

Running == session = "running"

(* The next task the event loop starts is the one of this kind for p.         *)
Starts(kind, p) == spawned # <<>> /\ Head(spawned) = Task(kind, p)

-----------------------------------------------------------------------------
(* What a slip in the code would make of an action below: the variants TLC    *)
(* must tell from the code. No specification uses them.                       *)

(* A stalled sender's item is not moved up when the buffer gets a free place. *)
TakeOnly ==
    /\ Running /\ queue # <<>>
    /\ queue' = Tail(queue)
    /\ spawned' = Append(spawned, Task("dispatch", Head(queue)))
    /\ UNCHANGED <<hooks, stream, arrived, stalled, fate, hooked, session>>

(* The suspended handler, not its item, is moved into the buffer.             *)
TakeTask ==
    /\ Running /\ queue # <<>>
    /\ IF stalled = <<>>
       THEN queue' = Tail(queue) /\ UNCHANGED stalled
       ELSE /\ queue' = Append(Tail(queue), Task("handle", Head(stalled)))
            /\ stalled' = Tail(stalled)
    /\ spawned' = Append(spawned, Task("dispatch", Head(queue)))
    /\ UNCHANGED <<hooks, stream, arrived, fate, hooked, session>>

(* The last suspended send is moved up instead of the first.                  *)
TakeLast ==
    /\ Running /\ queue # <<>>
    /\ IF stalled = <<>>
       THEN queue' = Tail(queue) /\ UNCHANGED stalled
       ELSE queue' = Append(Tail(queue), Last(stalled)) /\ stalled' = Front(stalled)
    /\ spawned' = Append(spawned, Task("dispatch", Head(queue)))
    /\ UNCHANGED <<hooks, stream, arrived, fate, hooked, session>>

(* The handler of a notification spawns its dispatch past the channel.        *)
EnqueueRequest(p) ==
    /\ Running
    /\ Starts("handle", p)
    /\ IF p \in Notifications
       THEN /\ spawned' = Append(Tail(spawned), Task("dispatch", p))
            /\ UNCHANGED <<queue, stalled>>
       ELSE /\ spawned' = Tail(spawned)
            /\ IF Len(queue) < Capacity
               THEN queue' = Append(queue, p) /\ UNCHANGED stalled
               ELSE stalled' = Append(stalled, p) /\ UNCHANGED queue
    /\ UNCHANGED <<hooks, stream, arrived, fate, hooked, session>>

(* The response of a hook is dropped.                                         *)
ForgetResponse(p) ==
    /\ Running
    /\ fate[p] = "hooking"
    /\ fate' = [fate EXCEPT ![p] = "finished"]
    /\ UNCHANGED <<hooks, stream, arrived, spawned, queue, stalled, hooked, session>>

-----------------------------------------------------------------------------
(* The read loop reads a package and spawns its handler.                      *)
ReadPackage(p) ==
    /\ Running /\ stream = "open"
    /\ fate[p] = "unread"
    /\ arrived' = Append(arrived, p)
    /\ spawned' = Append(spawned, Task("handle", p))
    /\ fate' = [fate EXCEPT ![p] = "moving"]
    /\ UNCHANGED <<hooks, stream, queue, stalled, hooked, session>>

(* The read loop leaves its while, and waits for the handlers it spawned.      *)
StreamEnds ==
    /\ Running /\ stream = "open"
    /\ stream' = "ended"
    /\ UNCHANGED <<hooks, arrived, spawned, queue, stalled, fate, hooked, session>>

(* The handler sends to the channel, and suspends if the buffer is full.      *)
Enqueue(p) ==
    /\ Running
    /\ Starts("handle", p)
    /\ spawned' = Tail(spawned)
    /\ IF Len(queue) < Capacity
       THEN queue' = Append(queue, p) /\ UNCHANGED stalled
       ELSE stalled' = Append(stalled, p) /\ UNCHANGED queue
    /\ UNCHANGED <<hooks, stream, arrived, fate, hooked, session>>

(* The dispatch loop receives an item, which moves the first suspended send   *)
(* into the buffer, and spawns a dispatch task.                               *)
Take ==
    /\ Running /\ queue # <<>>
    /\ IF stalled = <<>>
       THEN queue' = Tail(queue) /\ UNCHANGED stalled
       ELSE queue' = Append(Tail(queue), Head(stalled)) /\ stalled' = Tail(stalled)
    /\ spawned' = Append(spawned, Task("dispatch", Head(queue)))
    /\ UNCHANGED <<hooks, stream, arrived, fate, hooked, session>>

(* A request with a hook: the dispatch task itself runs it.                   *)
DispatchRequest(p) ==
    /\ Running
    /\ Starts("dispatch", p)
    /\ p \in ServerRequests /\ hooks[p] = 1
    /\ spawned' = Tail(spawned)
    /\ fate' = [fate EXCEPT ![p] = "hooking"]
    /\ hooked' = Append(hooked, p)
    /\ UNCHANGED <<hooks, stream, arrived, queue, stalled, session>>

(* The package does not have the shape of the hook's class.                   *)
DeserializeRaises(p) ==
    /\ Running
    /\ Starts("dispatch", p)
    /\ hooks[p] > 0
    /\ spawned' = Tail(spawned)
    /\ fate' = [fate EXCEPT ![p] = "raised"]
    /\ session' = "failed"
    /\ UNCHANGED <<hooks, stream, arrived, queue, stalled, hooked>>

(* A request without a hook raises ClientRuntimeError.                        *)
DispatchUnhandled(p) ==
    /\ Running
    /\ Starts("dispatch", p)
    /\ p \in ServerRequests /\ hooks[p] = 0
    /\ spawned' = Tail(spawned)
    /\ fate' = [fate EXCEPT ![p] = "unhandled"]
    /\ session' = "failed"
    /\ UNCHANGED <<hooks, stream, arrived, queue, stalled, hooked>>

(* A notification with hooks: the first gets a task. For a second, the loop   *)
(* structures what it structured for the first, which raises.                 *)
DispatchNotification(p) ==
    /\ Running
    /\ Starts("dispatch", p)
    /\ p \in Notifications /\ hooks[p] > 0
    /\ spawned' = Append(Tail(spawned), Task("hook", p))
    /\ IF hooks[p] = 1
       THEN UNCHANGED <<fate, session>>
       ELSE /\ fate' = [fate EXCEPT ![p] = "misread"]
            /\ session' = "failed"
    /\ UNCHANGED <<hooks, stream, arrived, queue, stalled, hooked>>

DispatchUnhooked(p) ==
    /\ Running
    /\ Starts("dispatch", p)
    /\ p \in Notifications /\ hooks[p] = 0
    /\ spawned' = Tail(spawned)
    /\ fate' = [fate EXCEPT ![p] = "ignored"]
    /\ UNCHANGED <<hooks, stream, arrived, queue, stalled, hooked, session>>

StartHook(p) ==
    /\ Running
    /\ Starts("hook", p)
    /\ spawned' = Tail(spawned)
    /\ fate' = [fate EXCEPT ![p] = "hooking"]
    /\ hooked' = Append(hooked, p)
    /\ UNCHANGED <<hooks, stream, arrived, queue, stalled, session>>

(* The hook ends: the response of a request goes to its handler.              *)
HookReturns(p) ==
    /\ Running
    /\ fate[p] = "hooking"
    /\ fate' = [fate EXCEPT ![p] = IF p \in ServerRequests THEN "responding" ELSE "finished"]
    /\ UNCHANGED <<hooks, stream, arrived, spawned, queue, stalled, hooked, session>>

HookRaises(p) ==
    /\ Running
    /\ fate[p] = "hooking"
    /\ fate' = [fate EXCEPT ![p] = "raised"]
    /\ session' = "failed"
    /\ UNCHANGED <<hooks, stream, arrived, spawned, queue, stalled, hooked>>

(* The handler, suspended since it enqueued the request, writes the response. *)
WriteResponse(p) ==
    /\ Running
    /\ fate[p] = "responding"
    /\ fate' = [fate EXCEPT ![p] = "answered"]
    /\ UNCHANGED <<hooks, stream, arrived, spawned, queue, stalled, hooked, session>>

(* The server is gone, whether the read loop knows it yet or not.             *)
WriteFails(p) ==
    /\ Running
    /\ fate[p] = "responding"
    /\ fate' = [fate EXCEPT ![p] = "unsent"]
    /\ session' = "failed"
    /\ UNCHANGED <<hooks, stream, arrived, spawned, queue, stalled, hooked>>

-----------------------------------------------------------------------------
(* What the client's own tasks do, the hooks included.                        *)
Step(p) ==
    \/ Enqueue(p) \/ DispatchRequest(p) \/ DispatchUnhandled(p)
    \/ DispatchNotification(p) \/ DispatchUnhooked(p) \/ StartHook(p)
    \/ HookReturns(p) \/ WriteResponse(p)

Next ==
    \/ Take \/ StreamEnds
    \/ \E p \in Packages :
          ReadPackage(p) \/ Step(p) \/ DeserializeRaises(p) \/ HookRaises(p) \/ WriteFails(p)

Spec == Init /\ [][Next]_vars

(* Tasks that can run do, and hooks end.                                      *)
Fairness == WF_vars(Take) /\ \A p \in Packages : WF_vars(Step(p))

FairSpec == Spec /\ Fairness

-----------------------------------------------------------------------------
(* Properties                                                                 *)

Hooked == {p \in Packages : hooks[p] > 0}
Noted == Hooked \cap Notifications
Asked == Hooked \cap ServerRequests

Before(s, p, q) == \E i, j \in DOMAIN s : i < j /\ s[i] = p /\ s[j] = q

(* Four queues and a task per package between the stream and the hooks keep   *)
(* the order of the notifications: a hook never sees a later one first, none  *)
(* is passed over, none comes twice and none that was not read.               *)
NotificationsInOrder ==
    /\ \A p \in Noted : ~ Before(hooked, p, p)
    /\ \A q \in Noted : Contains(hooked, q) =>
          /\ Contains(arrived, q)
          /\ \A p \in Noted : Before(arrived, p, q) => Before(hooked, p, q)

(* The changes a server asks for begin in the order it asked: a request is    *)
(* carried out once at most, only if it was read, and begins before whatever  *)
(* was read after it, a notification too. It may begin before a notification  *)
(* read earlier, whose hook is one task further away.                         *)
RequestsInOrder ==
    /\ \A r \in Asked : /\ ~ Before(hooked, r, r)
                         /\ Contains(hooked, r) => Contains(arrived, r)
    /\ \A r \in Asked, q \in Hooked :
          Before(arrived, r, q) /\ Contains(hooked, q) => Before(hooked, r, q)

(* A handler is suspended in the channel only while its buffer is full: the   *)
(* dispatch loop never leaves room behind that nobody fills.                  *)
StalledOnlyWhenFull ==
    /\ Len(queue) <= Capacity
    /\ stalled # <<>> => Len(queue) = Capacity

(* While the session lasts the handler of every package ends, of a request    *)
(* with its response written, however many packages crowd the channel, and    *)
(* although the server's output may have ended: the read loop, which waits    *)
(* for its handlers, does not keep the session.                               *)
Handled(p) ==
    IF p \in ServerRequests THEN fate[p] = "answered"
    ELSE ~ Contains(stalled, p) /\ ~ Contains(spawned, Task("handle", p))

HandlersEnd ==
    \A p \in Packages : fate[p] = "moving" ~> Handled(p) \/ session = "failed"
=============================================================================
