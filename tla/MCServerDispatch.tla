-------------------------- MODULE MCServerDispatch --------------------------
(* An instance of ServerDispatch for TLC. The channel holds 128 items in the  *)
(* program; a buffer of one with four packages fills up and suspends handlers.*)
(* The first request and the first notification have a hook, the second       *)
(* request has one or none, the second notification any number up to two.     *)
EXTENDS ServerDispatch

CONSTANTS req1, req2, note1, note2

MCRegistries ==
    {registry \in [Packages -> 0 .. 2] :
        registry[req1] = 1 /\ registry[note1] = 1 /\ registry[req2] < 2}
=============================================================================
