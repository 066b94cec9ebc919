--------------------------- MODULE ServerSelection ---------------------------
(* How a client finds a server: the candidates that                           *)
(* Client._iter_candidate_servers yields, and the loop of Client.run_server   *)
(* (client/abc.py) over the start of a local process (server/local.py), of a  *)
(* container (server/container.py) or of the server the user gave. A start    *)
(* ends in one of three ways: the server runs, ServerRuntimeError sends the   *)
(* loop to the next candidate, and any other exception leaves run_server.     *)
EXTENDS Naturals, Sequences

Arguments == {"none", "given", "local", "container"}
Outcomes == {"runs", "refused", "raises"}

(* What the machine offers: whether the local program is on the PATH and can  *)
(* be spawned, what installing it does, whether installing and containers are *)
(* allowed, the container backend likewise, whether the container's arguments *)
(* can be built, and what becomes of the server the user gave.                *)
Machines == [
    onPath : BOOLEAN, spawns : BOOLEAN,
    installer : {"none", "installs", "installs elsewhere", "raises"},
    mayInstall : BOOLEAN, containers : BOOLEAN,
    backendOnPath : BOOLEAN, backendSpawns : BOOLEAN,
    arguments : BOOLEAN, given : Outcomes]

VARIABLES
    argument,   \* the server argument of the client
    machine,
    stage,      \* the next candidate of the generator
    trying,     \* the candidate being started, or "nobody"
    refusals,   \* candidates whose start raised ServerRuntimeError, in order
    installed,  \* whether the installer was run
    result      \* "open", the candidate that runs, "raised" or "exhausted"

vars == <<argument, machine, stage, trying, refusals, installed, result>>

Stages == {"argument", "probe", "container", "last", "end"}
Candidates == {"given", "local", "container"}

TypeOK ==
    /\ argument \in Arguments /\ machine \in Machines
    /\ stage \in Stages
    /\ trying \in Candidates \cup {"nobody"}
    /\ refusals \in Seq(Candidates)
    /\ installed \in BOOLEAN
    /\ result \in Candidates \cup {"open", "raised", "exhausted"}

Init ==
    /\ argument \in Arguments /\ machine \in Machines
    /\ stage = "argument" /\ trying = "nobody"
    /\ refusals = <<>> /\ installed = FALSE /\ result = "open"

-----------------------------------------------------------------------------
(* Starting a candidate                                                       *)

(* run_process spawns the command. When the spawn fails its finally reads the *)
(* returncode of a process that is not there: the AttributeError replaces the *)
(* ServerRuntimeError.                                                        *)
Spawned(canSpawn) == IF canSpawn THEN "runs" ELSE "raises"

(* A program that is not found is installed if that is possible and allowed.  *)
InstallRuns == ~ machine.onPath /\ machine.mayInstall /\ machine.installer # "none"

StartLocal ==
    CASE machine.onPath -> Spawned(machine.spawns)
      [] ~ machine.onPath /\ ~ InstallRuns -> "refused"
      [] InstallRuns /\ machine.installer = "raises" -> "raises"
      [] InstallRuns /\ machine.installer = "installs elsewhere" -> Spawned(FALSE)
      [] OTHER -> Spawned(machine.spawns)

(* setup, then the backend as a local process that nothing installs.          *)
StartContainer ==
    CASE ~ machine.containers -> "refused"
      [] machine.containers /\ ~ machine.arguments -> "raises"
      [] machine.containers /\ machine.arguments /\ ~ machine.backendOnPath -> "refused"
      [] OTHER -> Spawned(machine.backendSpawns)

Start(s) ==
    CASE s = "given" -> machine.given [] s = "local" -> StartLocal [] OTHER -> StartContainer

-----------------------------------------------------------------------------
(* What a slip in the code would make of an operator below: the variants TLC  *)
(* must tell from the code. No specification uses them.                       *)

(* The local server is a candidate before the container, on the PATH or not.  *)
ProbeBlindly ==
    /\ stage = "probe"
    /\ trying' = "local"
    /\ stage' = "container"

(* The container is not a candidate when the argument does not name it.       *)
NeverContainer ==
    /\ stage = "container"
    /\ trying' = "nobody"
    /\ stage' = "last"

(* The errors of the candidates are collected only from the second on.        *)
RefusedUncounted ==
    /\ trying # "nobody" /\ Start(trying) = "refused"
    /\ refusals' = IF stage = "probe" THEN refusals ELSE Append(refusals, trying)
    /\ trying' = "nobody"
    /\ UNCHANGED <<stage, result, machine>>

(* What the start raised is collected without the candidate it is about.      *)
RefusedUnnamed ==
    /\ trying # "nobody" /\ Start(trying) = "refused"
    /\ refusals' = Append(refusals, "refused")
    /\ trying' = "nobody"
    /\ UNCHANGED <<stage, result, machine>>

-----------------------------------------------------------------------------
(* The generator of candidates                                                *)
ByArgument ==
    /\ stage = "argument"
    /\ trying' = IF argument = "none" THEN "nobody" ELSE argument
    /\ stage' = "probe"

(* with suppress(ServerRuntimeError): check_availability, then the candidate  *)
Probe ==
    /\ stage = "probe"
    /\ trying' = IF machine.onPath THEN "local" ELSE "nobody"
    /\ stage' = "container"

Container ==
    /\ stage = "container"
    /\ trying' = IF machine.containers THEN "container" ELSE "nobody"
    /\ stage' = "last"

LastLocal ==
    /\ stage = "last"
    /\ trying' = "local"
    /\ stage' = "end"

Candidate ==
    /\ result = "open" /\ trying = "nobody"
    /\ ByArgument \/ Probe \/ Container \/ LastLocal
    /\ UNCHANGED <<argument, machine, refusals, installed, result>>

-----------------------------------------------------------------------------
(* The loop of run_server                                                     *)
Runs ==
    /\ trying # "nobody" /\ Start(trying) = "runs"
    /\ result' = trying
    /\ machine' = IF trying = "local" /\ InstallRuns
                  THEN [machine EXCEPT !.onPath = TRUE] ELSE machine
    /\ UNCHANGED <<stage, trying, refusals>>

Refused ==
    /\ trying # "nobody" /\ Start(trying) = "refused"
    /\ refusals' = Append(refusals, trying)
    /\ trying' = "nobody"
    /\ UNCHANGED <<stage, result, machine>>

Raises ==
    /\ trying # "nobody" /\ Start(trying) = "raises"
    /\ result' = "raised"
    /\ UNCHANGED <<stage, trying, refusals, machine>>

Attempt ==
    /\ result = "open"
    /\ Runs \/ Refused \/ Raises
    /\ installed' = (installed \/ (trying = "local" /\ InstallRuns))
    /\ UNCHANGED argument

Exhausted ==
    /\ result = "open" /\ trying = "nobody" /\ stage = "end"
    /\ result' = "exhausted"
    /\ UNCHANGED <<argument, machine, stage, trying, refusals, installed>>

Next == Candidate \/ Attempt \/ Exhausted

Spec == Init /\ [][Next]_vars /\ WF_vars(Next)

-----------------------------------------------------------------------------
(* Properties                                                                 *)

(* The order client/abc.py:106-111 documents: the user's choice, the local    *)
(* server if it is available, the container if containers are enabled, the    *)
(* local server with installation.                                            *)
Order ==
    (IF argument = "none" THEN <<>> ELSE <<argument>>)
    \o (IF machine.onPath /\ ~ installed THEN <<"local">> ELSE <<>>)
    \o (IF machine.containers THEN <<"container">> ELSE <<>>)
    \o <<"local">>

(* The server that runs is the first of that order that can: every candidate  *)
(* passed over before it was tried and refused, none skipped.                 *)
FirstThatRuns ==
    result \in Candidates =>
        /\ Len(refusals) < Len(Order)
        /\ Order[Len(refusals) + 1] = result
        /\ \A i \in 1 .. Len(refusals) : refusals[i] = Order[i]

(* Nothing is installed on a machine where a server that needs no installing  *)
(* would have run, unless the user asked for the local server.                *)
InstallsLast ==
    installed /\ argument # "local" =>
        /\ argument = "given" => machine.given = "refused"
        /\ machine.containers => StartContainer = "refused"

(* Every selection ends: with a server, an error that left the loop, or the   *)
(* errors of all candidates, and then with one error for each.                *)
SelectionEnds ==
    <>(/\ result # "open"
       /\ result = "exhausted" => Len(refusals) = Len(Order))

(* server/error.py:16 "Raised when a server fails to start": a start that     *)
(* fails for the lack of a runnable local program is a ServerRuntimeError, so *)
(* it does not end the search.                                                *)
SpawnFailureRefused ==
    result = "raised" /\ trying = "local" => InstallRuns
=============================================================================
