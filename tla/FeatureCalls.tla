---------------------------- MODULE FeatureCalls ----------------------------
(* A client built from capability mixins, from the capabilities it declares   *)
(* to the calls its users make: build_client_capabilities walks the mixins,   *)
(* _initialize checks what the server announces, and then calls run as        *)
(* concurrent tasks, most in an open_files context around a file, some with a *)
(* task group that asks about every item of the answer. The contexts are      *)
(* those of DocumentSync, step by step: the stage of a call moves with its    *)
(* context. The response layer under a request is ResponseTable: of it        *)
(* remains that a request ends, with an answer or raising, since              *)
(* Client.request is bounded by its timeout.                                  *)
EXTENDS ClientClasses, DocumentSync

CONSTANTS
    Classes,    \* client classes by name, each the sequence of its mixins
    Used,       \* the names of those whose users make calls
    Items       \* what an answer may hold

ASSUME ItemsAssumption == IsFiniteSet(Items)

(* A task makes one call; the context it opens has its name.                  *)
Tasks == Contexts

VARIABLES
    class,      \* the name of the client's class
    phase,      \* "built", "declared", "running" or "refused"
    declared,   \* the capabilities sent with initialize
    hooked,     \* the methods of the server that have a hook
    call,       \* the call of each task
    stage,      \* where it stands
    items,      \* the items of its answer
    pending,    \* those being asked about
    answered    \* those answered

handshake == <<class, phase, declared, hooked>>
calls == <<vars, call, stage, items, pending, answered>>
callVars == <<handshake, calls>>

MixinsOf == [c \in DOMAIN Classes |-> {Classes[c][n] : n \in DOMAIN Classes[c]}]
Mixins == MixinsOf[class]

(* The calls of the class; symbols are resolved where the class can.          *)
Offered == [c \in DOMAIN Classes |->
    {k \in UNION {m.calls : m \in MixinsOf[c]} :
        k.each = "workspaceSymbol/resolve" =>
            WithRequestWorkspaceSymbolResolve \in MixinsOf[c]}]

(* A class starts with the mixin every client starts with and has the one     *)
(* every client hooks registrations with; no file is opened for a notification.*)
ASSUME ClassesAssumption ==
    \A c \in DOMAIN Classes :
        /\ 1 \in DOMAIN Classes[c] /\ Classes[c][1] = WithNotifyTextDocumentSynchronize
        /\ WithRespondRegisterCapability \in MixinsOf[c]
        /\ \A k \in Offered[c] :
              {k.file, k.inside, k.notifies} \subseteq BOOLEAN /\ (k.notifies => ~ k.file)

Ended == {"returned", "raised"}
Stages == {"idle", "opening", "asked", "following", "unwinding"} \cup Ended
Sections == {"workspace", "text_document", "window", "experimental"}

CallsTypeOK ==
    /\ TypeOK
    /\ class \in DOMAIN Classes
    /\ phase \in {"built", "declared", "running", "refused"}
    /\ phase = "built" <=> declared = {}
    /\ phase = "built" <=> hooked = {}
    /\ \A u \in URIs : refs[u] <= Cardinality(Tasks)
    /\ \A t \in Tasks :
          /\ stage[t] \in Stages
          /\ stage[t] # "idle" => call[t] \in Offered[class]
          /\ items[t] \subseteq Items
          /\ pending[t] \cup answered[t] \subseteq items[t]

CallsInit ==
    /\ Init
    /\ class \in DOMAIN Classes
    /\ phase = "built"
    /\ declared = {}
    /\ hooked = {}
    /\ call = [t \in Tasks |-> Plain(None)]
    /\ stage = [t \in Tasks |-> "idle"]
    /\ items = [t \in Tasks |-> {}]
    /\ pending = [t \in Tasks |-> {}]
    /\ answered = [t \in Tasks |-> {}]

-----------------------------------------------------------------------------
(* Building the client and shaking hands                                      *)

(* The mixins of a section that register_*_capability reaches: each but the   *)
(* base calls super() first, and one that does not ends the chain.            *)
Reached(section) ==
    LET mro == Classes[class] IN
    {mro[n] : n \in {n \in DOMAIN mro :
        /\ mro[n].section = section
        /\ \A k \in 1 .. n - 1 : mro[k].section = section => mro[k].chains}}

(* build_client_capabilities for the initialize request; the hooks are        *)
(* registered by then.                                                        *)
SendInitialize ==
    /\ phase = "built"
    /\ phase' = "declared"
    /\ declared' = UNION {{<<s, d>> : d \in UNION {m.declares : m \in Reached(s)}} :
                              s \in Sections}
    /\ hooked' = UNION {m.hooks : m \in Mixins}
    /\ UNCHANGED <<class, calls>>

(* check_server_capability: one assertion that fails ends the session.        *)
CheckServer(announced) ==
    /\ phase = "declared"
    /\ phase' = IF \A m \in Mixins : m.demands \subseteq announced
                THEN "running" ELSE "refused"
    /\ UNCHANGED <<class, declared, hooked, calls>>

Demanded == UNION {m.demands : m \in Mixins}

-----------------------------------------------------------------------------
(* What a slip in the code would make of an operator or action below: the     *)
(* variants TLC must tell from the code. No specification uses them.          *)

(* The task does not keep what it was answered.                               *)
FollowUnrecorded(t, S) ==
    /\ stage' = [stage EXCEPT ![t] = IF S = {} THEN "returned" ELSE "following"]
    /\ pending' = [pending EXCEPT ![t] = S]
    /\ UNCHANGED <<call, items, answered>>

(* Only requests about a file time out.                                       *)
FailOnFile(t) ==
    /\ stage[t] = "asked" /\ call[t].file
    /\ stage' = [stage EXCEPT ![t] = "raised"]
    /\ Exit(t)
    /\ UNCHANGED <<call, items, pending, answered>>

(* A request that fails leaves its file open.                                 *)
FailInside(t) ==
    /\ stage[t] = "asked"
    /\ stage' = [stage EXCEPT ![t] = "raised"]
    /\ UNCHANGED <<vars, call, items, pending, answered>>

(* The file is left with the answer, whatever is to be asked inside.          *)
LeaveAtOnce(t, leaves) == IF call[t].file THEN Exit(t) ELSE UNCHANGED vars

(* The call ends with the first item that fails, the others go on.            *)
ItemFailsAlone(t, i) ==
    /\ stage[t] = "following" /\ i \in pending[t]
    /\ stage' = [stage EXCEPT ![t] = "raised"]
    /\ pending' = [pending EXCEPT ![t] = @ \ {i}]
    /\ IF call[t].file /\ call[t].inside THEN Exit(t) ELSE UNCHANGED vars
    /\ UNCHANGED <<call, items, answered>>

-----------------------------------------------------------------------------
(* Calls                                                                      *)

(* The task asks about every item of S, or returns for want of any.           *)
Follow(t, S) ==
    /\ stage' = [stage EXCEPT ![t] = IF S = {} THEN "returned" ELSE "following"]
    /\ items' = [items EXCEPT ![t] = S]
    /\ pending' = [pending EXCEPT ![t] = S]
    /\ UNCHANGED <<call, answered>>

(* A notification is sent, or cannot be, and that is all; a request about no  *)
(* file goes out at once, as does one about a file that is tracked: whether   *)
(* its didOpen was sent is nothing open_files asks.                           *)
Begin(t, k) ==
    /\ phase = "running" /\ class \in Used /\ stage[t] = "idle"
    /\ call' = [call EXCEPT ![t] = k]
    /\ \/ ~ k.file /\ UNCHANGED vars
          /\ stage' \in IF k.notifies
                        THEN {[stage EXCEPT ![t] = s] : s \in Ended}
                        ELSE {[stage EXCEPT ![t] = "asked"]}
       \/ k.file /\ \E u \in URIs :
             /\ Enter(t, {u})
             /\ stage' = [stage EXCEPT ![t] = IF u \in Tracked THEN "asked" ELSE "opening"]
    /\ UNCHANGED <<items, pending, answered>>

(* The file is read and recorded, ...                                         *)
Open(t) ==
    /\ stage[t] = "opening"
    /\ Commit(t) \/ \E u \in URIs : ReadFile(t, u)
    /\ UNCHANGED <<call, stage, items, pending, answered>>

(* ... and announced: behind its own didOpen the request goes out.            *)
Ask(t) ==
    /\ stage[t] = "opening"
    /\ Announce(t)
    /\ stage' = [stage EXCEPT ![t] = "asked"]
    /\ UNCHANGED <<call, items, pending, answered>>

(* The file cannot be read or announced, or the caller is cancelled meanwhile:*)
(* the call raises before the try block of open_files.                        *)
OpenFails(t) ==
    /\ stage[t] = "opening"
    /\ ReadFails(t) \/ AnnounceFails(t)
    /\ stage' = [stage EXCEPT ![t] = "raised"]
    /\ UNCHANGED <<call, items, pending, answered>>

(* The body of open_files ends, the call with it or not.                      *)
Leave(t, leaves) == IF call[t].file /\ leaves THEN Exit(t) ELSE UNCHANGED vars

(* The answer holds the items of S: nothing to ask about for most calls, one  *)
(* edit for a rename. The file is left unless the items are asked inside.     *)
Answer(t, S) ==
    /\ stage[t] = "asked"
    /\ call[t].each = None => S = {}
    /\ call[t].each = ApplyEdit => Cardinality(S) <= 1
    /\ Follow(t, S)
    /\ Leave(t, ~ (call[t].inside /\ S # {}))

(* The server refuses, the request times out, or the caller is cancelled.     *)
Fail(t) ==
    /\ stage[t] = "asked"
    /\ stage' = [stage EXCEPT ![t] = "raised"]
    /\ Leave(t, TRUE)
    /\ UNCHANGED <<call, items, pending, answered>>

ItemAnswered(t, i) ==
    /\ stage[t] = "following" /\ i \in pending[t]
    /\ pending' = [pending EXCEPT ![t] = @ \ {i}]
    /\ answered' = [answered EXCEPT ![t] = @ \cup {i}]
    /\ UNCHANGED <<vars, call, stage, items>>

(* The request about an item fails, or the caller is cancelled: the task      *)
(* group cancels the other requests.                                          *)
ItemFails(t, i) ==
    /\ stage[t] = "following" /\ i \in pending[t]
    /\ stage' = [stage EXCEPT ![t] = "unwinding"]
    /\ pending' = [pending EXCEPT ![t] = @ \ {i}]
    /\ UNCHANGED <<vars, call, items, answered>>

CancelItem(t, i) ==
    /\ stage[t] = "unwinding" /\ i \in pending[t]
    /\ pending' = [pending EXCEPT ![t] = @ \ {i}]
    /\ UNCHANGED <<vars, call, stage, items, answered>>

(* The task group ends with its last task.                                    *)
Finish(t) ==
    /\ stage[t] \in {"following", "unwinding"} /\ pending[t] = {}
    /\ stage' = [stage EXCEPT ![t] = IF @ = "following" THEN "returned" ELSE "raised"]
    /\ Leave(t, call[t].inside)
    /\ UNCHANGED <<call, items, pending, answered>>

Handshake ==
    \/ SendInitialize
    \/ \E missing \in {{}} \cup {{d} : d \in Demanded} : CheckServer(Demanded \ missing)

(* The steps of a task after the first.                                       *)
Proceed(t) ==
    \/ Open(t) \/ Ask(t) \/ OpenFails(t)
    \/ \E S \in SUBSET Items : Answer(t, S)
    \/ Fail(t)
    \/ \E i \in Items : ItemAnswered(t, i) \/ ItemFails(t, i) \/ CancelItem(t, i)
    \/ Finish(t)

MakeCall(t) ==
    /\ (\E k \in Offered[class] : Begin(t, k)) \/ Proceed(t)
    /\ UNCHANGED handshake

CallsNext == Handshake \/ \E t \in Tasks : MakeCall(t)

CallsSpec == CallsInit /\ [][CallsNext]_callVars

(* A task that can run does, the reading of a file ends, and a notification   *)
(* or request times out if it is not taken or answered: answers are not       *)
(* counted on.                                                                *)
Fairness(t) ==
    /\ WF_calls(Open(t) \/ Ask(t) \/ OpenFails(t))
    /\ WF_calls(Fail(t))
    /\ WF_calls(\E i \in Items : ItemFails(t, i) \/ CancelItem(t, i))
    /\ WF_calls(Finish(t))

CallsFairSpec == CallsSpec /\ \A t \in Tasks : Fairness(t)

-----------------------------------------------------------------------------
(* What the protocol entitles a server to send to a client that declares a    *)
(* capability; unknown requests end the session (ServerDispatch).             *)
Entitles ==
    {<<<<"workspace", "apply_edit">>, "workspace/applyEdit">>,
     <<<<"workspace", "configuration">>, "workspace/configuration">>,
     <<<<"workspace", "workspace_folders">>, "workspace/workspaceFolders">>,
     <<<<"workspace", "inlay_hint">>, "workspace/inlayHint/refresh">>,
     <<<<"workspace", "diagnostics">>, "workspace/diagnostic/refresh">>,
     <<<<"window", "show_document">>, "window/showDocument">>,
     <<<<"window", "show_message">>, "window/showMessageRequest">>}

(* No mixin of the class is silenced by another: what each one declares       *)
(* reaches the server with the initialize request.                            *)
DeclaresAll ==
    phase = "declared" =>
        \A m \in Mixins : \A d \in m.declares : <<m.section, d>> \in declared

(* A client that tells the server it takes a request has a hook for it; the   *)
(* dispatcher ends the session at a request without one.                      *)
AnswersWhatItDeclares ==
    phase = "declared" => \A e \in Entitles : e[1] \in declared => e[2] \in hooked

(* The call has a request under way that it makes inside open_files.          *)
AskedInside(t) ==
    /\ call[t].file
    /\ stage[t] = "asked" \/ (stage[t] \in {"following", "unwinding"} /\ call[t].inside)

BeingAnnounced(u) ==
    \E c \in Tasks : context[c] = "announcing" /\ u \in DOMAIN texts[c]

(* While a request is under way inside open_files the client tracks the file, *)
(* and the server has it open if every didOpen can be sent, whoever else      *)
(* opens it, fails to and closes it meanwhile; but for a call that found the  *)
(* file tracked and whose request may be ahead of the other's didOpen. If     *)
(* calls do not begin while another opens the file, it is open once and with  *)
(* the client's text.                                                         *)
OpenWhileAsked ==
    \A t \in Tasks : AskedInside(t) =>
        \A u \in wants[t] :
            /\ u \in Tracked
            /\ "open" \notin regime.failures =>
                  server[u].opens >= 1 \/ (u \notin DOMAIN texts[t] /\ BeingAnnounced(u))
            /\ Orderly => InStep(u)

(* A call that has ended has no task asking about an item any more, and one   *)
(* that returns has the answer of every item: no partial result is returned.  *)
NothingOutlivesCall ==
    \A t \in Tasks :
        /\ stage[t] \in Ended => pending[t] = {}
        /\ stage[t] = "returned" => answered[t] = items[t]

(* The calls that raised while they were opening the file.                    *)
Leaks(u) == {t \in Tasks : stage[t] = "raised" /\ context[t] = "failed" /\ u \in wants[t]}

(* When all calls have ended, however they did, the file has a reference for  *)
(* each one that failed before it was inside open_files and for no other. If  *)
(* there is none the client has forgotten it and, unless calls overlapped in  *)
(* opening it, the server has it closed.                                      *)
NothingLeftOpen ==
    (\A t \in Tasks : stage[t] \in Ended \cup {"idle"}) =>
        \A u \in URIs :
            /\ refs[u] = Cardinality(Leaks(u))
            /\ Leaks(u) = {} => u \notin Tracked /\ (Orderly => server[u] = Unopened)

(* A call ends, whatever the server does.                                     *)
CallsEnd == \A t \in Tasks : stage[t] # "idle" ~> stage[t] \in Ended
=============================================================================
