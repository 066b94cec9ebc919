----------------------------- MODULE ClientLife -----------------------------
(* A client object over its life (client/abc.py): it is entered, finds a      *)
(* server (ServerSelection), runs a session on it (ClientSession) and may be  *)
(* entered again, while its configuration (Configuration) is changed before,  *)
(* in and between the sessions and is to reach the server of each. What       *)
(* outlives a session is the configuration with the callbacks registered so   *)
(* far, the program an installer put on the PATH, and, of the server, only a  *)
(* server object the user gave: with it the buffered stream of the process it *)
(* ran first, from which a second session hears nothing any more, and the     *)
(* entries of its response table. create_default_servers makes new objects.   *)
EXTENDS Configuration

CONSTANTS
    Lives       \* what is done with a client: each behaviour keeps to one

VARIABLES
    life,
    entered,    \* how often the client has been entered
    at,         \* outside, selecting a server, or inside a session
    worn,       \* the server object the user gave has run before
    changed     \* how often the user has changed the configuration

VARIABLES argument, machine, stage, trying, refusals, installed, result

selectionVars == <<argument, machine, stage, trying, refusals, installed, result>>

VARIABLES phase, failed, cancelled, unanswered, wire, answers, process, signalled, serving

sessionVars ==
    <<phase, failed, cancelled, unanswered, wire, answers, process, signalled, serving>>

lifeVars == <<life, entered, at, worn, changed>>
vars == <<lifeVars, selectionVars, sessionVars, configVars>>

S == INSTANCE ServerSelection
C == INSTANCE ClientSession

(* A tree is merged over the global configuration, replaces it, or is added   *)
(* as the scope of a pattern.                                                 *)
Ways == {"merge", "replace"} \cup Patterns

(* The server argument and the machine, how often the client may be entered,  *)
(* whether its sessions are followed, whether a notification may time out, the*)
(* defaults it has, and how often and by what its configuration may change.   *)
LifeType ==
    [argument : S!Arguments, machine : S!Machines, entries : Nat,
     followed : BOOLEAN, blocked : BOOLEAN, defaults : SUBSET Updates,
     changes : Nat, updates : SUBSET (Updates \X Ways)]

ASSUME LivesAssumption == Lives \subseteq LifeType

TypeOK ==
    /\ S!TypeOK /\ C!TypeOK /\ ConfigTypeOK
    /\ life \in Lives
    /\ entered \in 0 .. life.entries
    /\ at \in {"outside", "selecting", "inside"}
    /\ worn \in BOOLEAN /\ changed \in 0 .. life.changes
    /\ argument = life.argument

Init ==
    /\ life \in Lives
    /\ entered = 0 /\ at = "outside" /\ worn = FALSE /\ changed = 0
    /\ argument = life.argument /\ machine = life.machine /\ S!Init
    /\ C!Init
    /\ ConfigInit

-----------------------------------------------------------------------------
(* Entering and leaving                                                       *)

(* run_server asks for the candidates anew.                                   *)
Enter ==
    /\ at = "outside" /\ entered < life.entries
    /\ entered' = entered + 1
    /\ at' = "selecting"
    /\ stage' = "argument" /\ trying' = "nobody"
    /\ refusals' = <<>> /\ installed' = FALSE /\ result' = "open"
    /\ UNCHANGED <<life, worn, changed, argument, machine, sessionVars, configVars>>

Select ==
    /\ at = "selecting"
    /\ S!Next
    /\ UNCHANGED <<lifeVars, sessionVars, configVars>>

EnterFails ==
    /\ at = "selecting" /\ result \in {"raised", "exhausted"}
    /\ at' = "outside"
    /\ UNCHANGED <<life, entered, worn, changed, selectionVars, sessionVars, configVars>>

(* A session on the server that runs. The entries an earlier session left in  *)
(* the table of a given server are there for this one to wait for.            *)
StartSession ==
    /\ at = "selecting" /\ result \in S!Candidates
    /\ life.followed
    /\ at' = "inside"
    /\ phase' = "starting"
    /\ failed' = FALSE /\ cancelled' = FALSE /\ signalled' = FALSE /\ serving' = FALSE
    /\ unanswered' = IF result = "given" /\ unanswered # "none" THEN "abandoned" ELSE "none"
    /\ wire' = <<>> /\ answers' = {}
    /\ process' = "running"
    /\ Register
    /\ UNCHANGED <<life, entered, worn, changed, selectionVars>>

-----------------------------------------------------------------------------
(* Inside                                                                     *)

(* From a worn server nothing is heard. With the initialized notification the *)
(* defaults are merged over what the configuration holds by then, and the     *)
(* body begins when the callbacks of that change have returned. One that fails*)
(* is among the failures of opening, with which the change ends.              *)
Around ==
    /\ worn => answers' = answers /\ ~ serving'
    /\ phase = "configuring" /\ phase' = "body" => notices["client"] = 0
    /\ CASE phase = "initializing" /\ phase' = "configuring" /\ life.defaults # {} ->
                \E config \in life.defaults : UpdateGlobal("client", config, TRUE)
         [] phase = "configuring" /\ phase' = "reaping" -> Withdraw("client")
         [] OTHER -> UNCHANGED configVars
    /\ UNCHANGED <<lifeVars, selectionVars>>

ClientStep == at = "inside" /\ C!ClientStep /\ Around

Environment == at = "inside" /\ C!Environment /\ Around

HookReturns == at = "inside" /\ C!HookReturns /\ Around

Leave ==
    /\ at = "inside" /\ phase = "closed"
    /\ at' = "outside"
    /\ worn' = (worn \/ result = "given")
    /\ UNCHANGED <<life, entered, changed, selectionVars, sessionVars, configVars>>

-----------------------------------------------------------------------------
(* The configuration                                                          *)
UserChanges ==
    /\ changed < life.changes
    /\ changed' = changed + 1
    /\ \E config \in Updates, way \in Ways :
          /\ <<config, way>> \in life.updates
          /\ \/ way \notin Patterns /\ UpdateGlobal("user", config, way = "merge")
             \/ way \in Patterns /\ AddScope(way, config)
    /\ UNCHANGED <<life, entered, at, worn, selectionVars, sessionVars>>

(* Callbacks write to the server of the present session, or of the last one,  *)
(* which may not take it in time.                                             *)
Connected == at = "inside" /\ process = "running"

Notify ==
    /\ \/ Connected /\ \E who \in Updaters : SendNotice(who)
       \/ (~ Connected \/ life.blocked) /\ NoticeFails("user")
    /\ UNCHANGED <<lifeVars, selectionVars, sessionVars>>

Hears == Connected /\ C!InSession /\ C!Sent("initialized")

Synchronise ==
    /\ Hears
    /\ ServerAsks \/ RespondConfiguration \/ ServerLearns
    /\ UNCHANGED <<lifeVars, selectionVars, sessionVars>>

-----------------------------------------------------------------------------
Next ==
    \/ Enter \/ Select \/ EnterFails \/ StartSession \/ Leave
    \/ ClientStep \/ Environment
    \/ UserChanges \/ Notify \/ Synchronise

Spec == Init /\ [][Next]_vars

(* The client's tasks run, its timers fire and its hooks return, and servers  *)
(* ask, learn and obey exit; the user, the answers of servers and failures    *)
(* take their time.                                                           *)
FairSpec ==
    /\ Spec
    /\ WF_vars(Select) /\ WF_vars(ClientStep) /\ WF_vars(Notify) /\ WF_vars(Synchronise)
    /\ WF_vars(HookReturns)
    /\ WF_vars(Environment /\ C!Sent("exit") /\ process' = "exited")

-----------------------------------------------------------------------------
(* Properties, of every time the client is entered                            *)

(* The server that runs is the first of the documented order that can.        *)
FirstThatRuns == S!FirstThatRuns

(* Nothing is installed where a server that needs no installing would run.    *)
InstallsLast == S!InstallsLast

(* Every selection ends: with a server, an error that left the loop, or the   *)
(* errors of all candidates, and then with one error for each.                *)
SelectionEnds ==
    at = "selecting" ~>
        /\ result # "open"
        /\ result = "exhausted" => Len(refusals) = Len(S!Order)

(* A session that ends without exception or cancellation has gone through the *)
(* whole protocol, with every request answered that was made before it ended, *)
(* and its server is gone.                                                    *)
CleanEnd == C!CleanEnd

(* However a session ends, it leaves no server process behind, unless it is   *)
(* cancelled from outside.                                                    *)
NoOrphan == C!NoOrphan


(* README.md:133 "ensuring the language server always has the latest          *)
(* settings": whenever and however often the configuration is changed, before *)
(* the session, beside its start or in its body, and whatever the callbacks   *)
(* of earlier sessions do, the server comes to know the settings as they are, *)
(* if it takes what it is sent in time.                                       *)
SettingsArrive ==
    ~ life.blocked /\ Hears /\ phase = "body" ~> known = Settings \/ ~ (Hears /\ phase = "body")
=============================================================================
