--------------------------- MODULE MCDocumentSync ---------------------------
(* Instances of DocumentSync for TLC: contexts and URIs are interchangeable.  *)
EXTENDS DocumentSync, TLC

(* Callers that overlap, one of them a writer, with failures of every kind;   *)
(* and callers that do not, all of the writers among them, with failures of   *)
(* the file system; and such callers in two sessions of one client.           *)
Overlapping ==
    {[overlap |-> TRUE, failures |-> Awaits \ {"edit"},
      writers |-> {CHOOSE w \in Writers : TRUE}, reentries |-> 0]}

Serial ==
    {[overlap |-> FALSE, failures |-> {"read", "write"}, writers |-> Writers, reentries |-> 0]}

Reentered ==
    {[overlap |-> FALSE, failures |-> {"read"},
      writers |-> {CHOOSE w \in Writers : TRUE}, reentries |-> 1]}

AnyRegime == Overlapping \cup Serial \cup Reentered

(* What a failing run needs and no more.                                      *)
OverlapOnly ==
    {[overlap |-> TRUE, failures |-> {}, writers |-> Writers, reentries |-> 0]}
ReadFailureOnly ==
    {[overlap |-> FALSE, failures |-> {"read"}, writers |-> Writers, reentries |-> 0]}

Symmetry == Permutations(Contexts) \cup Permutations(URIs)
=============================================================================
