------------------------------ MODULE Promises ------------------------------
(* What the request/response layer of a stream server promises its callers,   *)
(* with no table, no streams and no condition variable: a request is answered *)
(* at most once, a request its caller gave up on is never answered later, and *)
(* whoever waits for the requests to complete gets through only when every    *)
(* request that was unanswered when it began to wait has been answered.       *)
(* ResponseTable implements it.                                               *)
CONSTANTS Requests, Waiters

VARIABLES
    status,     \* the fate of every request
    owed,       \* the requests a waiter must see answered
    place       \* where a waiter stands

vars == <<status, owed, place>>

Statuses == {"unsent", "open", "answered", "abandoned"}
Places   == {"outside", "inside", "passed", "left"}

TypeOK ==
    /\ status \in [Requests -> Statuses]
    /\ owed \in [Waiters -> SUBSET Requests]
    /\ place \in [Waiters -> Places]

Init ==
    /\ status = [r \in Requests |-> "unsent"]
    /\ owed = [w \in Waiters |-> {}]
    /\ place = [w \in Waiters |-> "outside"]

Unanswered == {r \in Requests : status[r] \in {"open", "abandoned"}}

Ask(r) ==
    /\ status[r] = "unsent"
    /\ status' = [status EXCEPT ![r] = "open"]
    /\ UNCHANGED <<owed, place>>

Answer(r) ==
    /\ status[r] = "open"
    /\ status' = [status EXCEPT ![r] = "answered"]
    /\ UNCHANGED <<owed, place>>

Abandon(r) ==
    /\ status[r] = "open"
    /\ status' = [status EXCEPT ![r] = "abandoned"]
    /\ UNCHANGED <<owed, place>>

Enter(w) ==
    /\ place[w] = "outside"
    /\ place' = [place EXCEPT ![w] = "inside"]
    /\ owed' = [owed EXCEPT ![w] = Unanswered]
    /\ UNCHANGED status

Pass(w) ==
    /\ place[w] = "inside"
    /\ owed[w] \cap Unanswered = {}
    /\ place' = [place EXCEPT ![w] = "passed"]
    /\ UNCHANGED <<status, owed>>

Leave(w) ==
    /\ place[w] = "inside"
    /\ place' = [place EXCEPT ![w] = "left"]
    /\ UNCHANGED <<status, owed>>

Next ==
    \/ \E r \in Requests : Ask(r) \/ Answer(r) \/ Abandon(r)
    \/ \E w \in Waiters : Enter(w) \/ Pass(w) \/ Leave(w)

Spec == Init /\ [][Next]_vars
=============================================================================
