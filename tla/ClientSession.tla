---------------------------- MODULE ClientSession ----------------------------
(* One managed session of a client on a local server process: the body of     *)
(* Client.__asynccontextmanager__ (client/abc.py) inside StreamServer.run     *)
(* (server/abc.py) inside LocalServer.run_process (server/local.py), from the *)
(* spawned process to the end of all three. Three things can end a phase:     *)
(* its own result, a failure in the task group of StreamServer.run, whose     *)
(* cancellation stops at that group, and a cancellation from outside (the     *)
(* user's scope, or a failed hook in the client's own group), which also      *)
(* hits the cleanup. What the user's requests leave in the response table is  *)
(* reduced to what wait_requests_completed sees of it.                        *)
EXTENDS Naturals, Sequences

VARIABLES
    phase,      \* where the session stands
    failed,     \* an exception is on its way out
    cancelled,  \* the scope around the session is cancelled
    unanswered, \* a user's request in the table: none, one in flight, one abandoned,
                \* or one made after the session waited for them
    wire,       \* lifecycle messages sent to the server, in order
    answers,    \* the lifecycle requests the server has answered
    process,    \* the server process
    signalled,  \* it was sent SIGTERM
    serving     \* a handler waits for the hook of a request of the server

vars == <<phase, failed, cancelled, unanswered, wire, answers, process, signalled, serving>>

Phases == {"starting", "initializing", "configuring", "body", "settling",
           "shutting down", "draining", "reaping", "closed"}
Lifecycle == <<"initialize", "initialized", "shutdown", "exit">>

TypeOK ==
    /\ phase \in Phases
    /\ failed \in BOOLEAN /\ cancelled \in BOOLEAN /\ signalled \in BOOLEAN
    /\ serving \in BOOLEAN
    /\ unanswered \in {"none", "live", "abandoned", "late"}
    /\ wire \in {SubSeq(Lifecycle, 1, n) : n \in 0 .. 4}
    /\ answers \subseteq {"initialize", "shutdown"}
    /\ process \in {"running", "exited"}

Init ==
    /\ phase = "starting"
    /\ failed = FALSE /\ cancelled = FALSE /\ signalled = FALSE /\ serving = FALSE
    /\ unanswered = "none"
    /\ wire = <<>> /\ answers = {}
    /\ process = "running"

InSession == phase \notin {"reaping", "closed"}

Sent(m) == \E i \in DOMAIN wire : wire[i] = m

(* An exception skips what the session has not done yet, up to the cleanup of *)
(* the process, and cancels the handlers.                                     *)
Unwind ==
    /\ phase' = "reaping"
    /\ failed' = TRUE
    /\ serving' = FALSE

-----------------------------------------------------------------------------
(* What a slip in the code would make of an action below: the variants TLC    *)
(* must tell from the code. No specification uses them.                       *)

(* shutdown is sent without waiting for the requests.                         *)
SettleAtOnce ==
    /\ phase = "settling"
    /\ phase' = "shutting down"
    /\ wire' = Append(wire, "shutdown")
    /\ UNCHANGED <<failed, cancelled, unanswered, answers, process, signalled, serving>>

(* A process that does not react to SIGTERM is left alone.                    *)
GiveUpOnProcess ==
    /\ phase = "reaping" /\ signalled /\ process = "running"
    /\ ~ cancelled
    /\ phase' = "closed"
    /\ UNCHANGED <<failed, cancelled, unanswered, wire, answers, process, signalled, serving>>


(* The wrong notification follows the initialize response.                    *)
ExitBeforeInitialized ==
    /\ phase = "initializing" /\ "initialize" \in answers
    /\ phase' = "configuring"
    /\ wire' = Append(wire, "exit")
    /\ UNCHANGED <<failed, cancelled, unanswered, answers, process, signalled, serving>>

-----------------------------------------------------------------------------
(* Opening                                                                    *)
SendInitialize ==
    /\ phase = "starting"
    /\ phase' = "initializing"
    /\ wire' = Append(wire, "initialize")
    /\ UNCHANGED <<failed, cancelled, unanswered, answers, process, signalled, serving>>

(* The response passes the compatibility checks; initialized is sent.         *)
Initialized ==
    /\ phase = "initializing" /\ "initialize" \in answers
    /\ phase' = "configuring"
    /\ wire' = Append(wire, "initialized")
    /\ UNCHANGED <<failed, cancelled, unanswered, answers, process, signalled, serving>>

(* update_global with the default configuration, then the user's body.        *)
Configured ==
    /\ phase = "configuring"
    /\ phase' = "body"
    /\ UNCHANGED <<failed, cancelled, unanswered, wire, answers, process, signalled, serving>>

(* Building the parameters fails, or no answer comes in time, an error        *)
(* response, a failed check, a failed write, or an exception of a             *)
(* configuration callback. No try encloses these phases.                      *)
OpeningFails ==
    /\ phase \in {"starting", "initializing", "configuring"}
    /\ Unwind
    /\ UNCHANGED <<cancelled, unanswered, wire, answers, process, signalled>>

-----------------------------------------------------------------------------
(* The user's body and requests. A request may come from any of the user's    *)
(* tasks, so also when the body has ended; one that comes when the session has*)
(* waited for the others is nobody's to wait for any more.                    *)
Counted == phase \in {"body", "settling"}

UserRequest ==
    /\ Counted \/ phase \in {"shutting down", "draining"}
    /\ unanswered = "none"
    /\ unanswered' = IF Counted THEN "live" ELSE "late"
    /\ UNCHANGED <<phase, failed, cancelled, wire, answers, process, signalled, serving>>

UserAnswered ==
    /\ InSession /\ unanswered \in {"live", "late"} /\ process = "running"
    /\ unanswered' = "none"
    /\ UNCHANGED <<phase, failed, cancelled, wire, answers, process, signalled, serving>>

(* The request times out; its entry stays in the table.                       *)
UserTimeout ==
    /\ Counted /\ unanswered = "live"
    /\ unanswered' = "abandoned"
    /\ UNCHANGED <<phase, failed, cancelled, wire, answers, process, signalled, serving>>

(* The body ends, with or without an exception.                               *)
BodyEnds ==
    /\ phase = "body"
    /\ phase' = "settling"
    /\ failed' \in BOOLEAN
    /\ UNCHANGED <<cancelled, unanswered, wire, answers, process, signalled, serving>>

-----------------------------------------------------------------------------
(* Closing                                                                    *)

(* wait_requests_completed returns; shutdown is sent.                         *)
Settled ==
    /\ phase = "settling" /\ unanswered = "none"
    /\ phase' = "shutting down"
    /\ wire' = Append(wire, "shutdown")
    /\ UNCHANGED <<failed, cancelled, unanswered, answers, process, signalled, serving>>

(* Its time limit raises, and the rest of the finally block is skipped.       *)
SettleTimeout ==
    /\ phase = "settling" /\ unanswered # "none"
    /\ Unwind
    /\ UNCHANGED <<cancelled, unanswered, wire, answers, process, signalled>>

(* exit is sent and the session left: with an exception from the body the     *)
(* task group cancels its read loop, without one it waits for it.             *)
ShutdownAnswered ==
    /\ phase = "shutting down" /\ "shutdown" \in answers
    /\ phase' = IF failed THEN "reaping" ELSE "draining"
    /\ serving' = (serving /\ ~ failed)
    /\ wire' = Append(wire, "exit")
    /\ UNCHANGED <<failed, cancelled, unanswered, answers, process, signalled>>

ShutdownFails ==
    /\ phase = "shutting down"
    /\ Unwind
    /\ UNCHANGED <<cancelled, unanswered, wire, answers, process, signalled>>

(* The read loop ends with the server's output and its last handler, and there*)
(* is no time limit.                                                          *)
Drained ==
    /\ phase = "draining" /\ process = "exited" /\ ~ serving
    /\ phase' = "reaping"
    /\ UNCHANGED <<failed, cancelled, unanswered, wire, answers, process, signalled, serving>>

-----------------------------------------------------------------------------
(* The finally block of run_process                                           *)
Terminate ==
    /\ phase = "reaping" /\ process = "running" /\ ~ signalled
    /\ signalled' = TRUE
    /\ UNCHANGED <<phase, failed, cancelled, unanswered, wire, answers, process, serving>>

Reaped ==
    /\ phase = "reaping" /\ process = "exited"
    /\ phase' = "closed"
    /\ UNCHANGED <<failed, cancelled, unanswered, wire, answers, process, signalled, serving>>

(* shutdown_timeout is over: the process is killed.                           *)
Kill ==
    /\ phase = "reaping" /\ signalled /\ process = "running"
    /\ ~ cancelled
    /\ process' = "exited"
    /\ phase' = "closed"
    /\ UNCHANGED <<failed, cancelled, unanswered, wire, answers, signalled, serving>>

(* In a cancelled scope the wait for the process raises at once, and what it  *)
(* raises is neither TimeoutError nor OSError.                                *)
CancelledWait ==
    /\ phase = "reaping" /\ signalled /\ process = "running"
    /\ cancelled
    /\ phase' = "closed"
    /\ UNCHANGED <<failed, cancelled, unanswered, wire, answers, process, signalled, serving>>

-----------------------------------------------------------------------------
(* Failures from beside the session                                           *)
(* A handler or the read loop raises in the task group of StreamServer.run.   *)
DispatchFails ==
    /\ InSession
    /\ Unwind
    /\ UNCHANGED <<cancelled, unanswered, wire, answers, process, signalled>>

(* The user's scope is cancelled, or a hook fails in the client's group.      *)
CancelFromOutside ==
    /\ phase # "closed" /\ ~ cancelled
    /\ cancelled' = TRUE
    /\ phase' = "reaping"
    /\ serving' = FALSE
    /\ UNCHANGED <<failed, unanswered, wire, answers, process, signalled>>

-----------------------------------------------------------------------------
(* The server                                                                 *)
ServerAnswers(m) ==
    /\ process = "running"
    /\ Sent(m) /\ m \notin answers
    /\ answers' = answers \cup {m}
    /\ UNCHANGED <<phase, failed, cancelled, unanswered, wire, process, signalled, serving>>

(* It asks the client for something, and a handler waits for the hook.        *)
ServerCalls ==
    /\ process = "running" /\ InSession
    /\ ~ serving /\ serving' = TRUE
    /\ UNCHANGED <<phase, failed, cancelled, unanswered, wire, answers, process, signalled>>

(* The hook returns and the response is written. DispatchFails has one that   *)
(* cannot be, CancelFromOutside a hook that raises.                           *)
HookReturns ==
    /\ serving /\ serving' = FALSE
    /\ UNCHANGED <<phase, failed, cancelled, unanswered, wire, answers, process, signalled>>

(* It exits when told to, when signalled, or crashes.                         *)
ServerExits ==
    /\ process = "running"
    /\ process' = "exited"
    /\ UNCHANGED <<phase, failed, cancelled, unanswered, wire, answers, signalled, serving>>

-----------------------------------------------------------------------------
ClientStep ==
    \/ SendInitialize \/ Initialized \/ Configured \/ OpeningFails
    \/ UserTimeout \/ Settled \/ SettleTimeout \/ ShutdownAnswered \/ ShutdownFails
    \/ Drained \/ Terminate \/ Reaped \/ Kill \/ CancelledWait

Environment ==
    \/ UserRequest \/ UserAnswered \/ BodyEnds
    \/ DispatchFails \/ CancelFromOutside
    \/ \E m \in {"initialize", "shutdown"} : ServerAnswers(m)
    \/ ServerCalls \/ HookReturns \/ ServerExits

Next == ClientStep \/ Environment

Spec == Init /\ [][Next]_vars

(* The client's tasks run, its timers fire and its hooks return; the user, the*)
(* server and failures may take their time.                                   *)
FairSpec == Spec /\ WF_vars(ClientStep) /\ WF_vars(HookReturns)

(* A server that obeys exit.                                                  *)
ObedientSpec == FairSpec /\ WF_vars(Sent("exit") /\ ServerExits)

-----------------------------------------------------------------------------
(* Properties                                                                 *)

(* A session that ends without exception or cancellation has gone through the *)
(* whole protocol with every request of the user answered before shutdown, but*)
(* for those made behind it, and its server is gone.                          *)
CleanEnd ==
    phase = "closed" /\ ~ failed /\ ~ cancelled =>
        /\ wire = Lifecycle
        /\ answers = {"initialize", "shutdown"}
        /\ unanswered \in {"none", "late"}
        /\ process = "exited"

(* However a session ends, it leaves no server process behind, obedient or    *)
(* not, unless it is cancelled from outside: then nobody waits for the server *)
(* to react to SIGTERM, and nobody kills it.                                  *)
NoOrphan == phase = "closed" /\ ~ cancelled => process = "exited"


(* server/local.py:39 "shutdown_timeout: Maximum time in seconds to wait for  *)
(* graceful shutdown": a server that ignores exit does not keep the session.  *)
ShutdownTimed == phase = "draining" ~> phase = "closed"
=============================================================================
