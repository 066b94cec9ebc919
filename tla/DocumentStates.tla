--------------------------- MODULE DocumentStates ---------------------------
(* DocumentStateManager (client/document_state.py): the client's record of    *)
(* the open documents and how many open_files contexts hold each. Operators   *)
(* with a prime are what one synchronous stretch of a method does; the module *)
(* has no specification of its own, DocumentSync says who calls what.         *)
(* The encoding of a document is left out.                                    *)
EXTENDS Integers

CONSTANTS URIs, Contents, NotOpen

VARIABLES
    states,     \* _states: the document of every URI, or NotOpen
    refs        \* _ref_counts: 0 stands for a missing key

Documents == [content : Contents, version : Nat]

Tracked == {u \in URIs : states[u] # NotOpen}

-----------------------------------------------------------------------------
(* What a slip in the code would make of an operator below: the variants TLC  *)
(* must tell from the code. No specification uses them.                       *)

(* Only documents new to the manager are counted.                             *)
CountNewOnly(U) ==
    refs' = [u \in URIs |-> IF u \in U \ Tracked THEN refs[u] + 1 ELSE refs[u]]

(* A document is released when one other holder is left.                      *)
ReleasedEarly(U) == {u \in U : refs[u] - 1 <= 1}

(* close returns every URI it was given.                                      *)
CloseAllWanted(U) == U

(* The version is raised and the text forgotten.                              *)
VersionOnly(u, text) ==
    states' = IF u \in Tracked THEN [states EXCEPT ![u].version = @ + 1] ELSE states

-----------------------------------------------------------------------------
(* open, before its first await: what to read, and a reference for every URI. *)
NewURIs(U) == U \ Tracked

CountReferences(U) ==
    refs' = [u \in URIs |-> IF u \in U THEN refs[u] + 1 ELSE refs[u]]

(* open, after its last await: the documents read overwrite what is there.    *)
CommitDocuments(texts) ==
    states' = [u \in URIs |->
        IF u \in DOMAIN texts THEN [content |-> texts[u], version |-> 0] ELSE states[u]]

(* close: URIs whose count falls to zero are forgotten and returned.          *)
Released(U) == {u \in U : refs[u] - 1 <= 0}

ClosedURIs(U) == Released(U) \cap Tracked

Close(U) ==
    /\ refs' = [u \in URIs |->
           IF u \in Released(U) THEN 0 ELSE IF u \in U THEN refs[u] - 1 ELSE refs[u]]
    /\ states' = [u \in URIs |-> IF u \in Released(U) THEN NotOpen ELSE states[u]]

(* update_content: replaces the text of a tracked document, one version on.   *)
UpdateContent(u, text) ==
    states' = IF u \in Tracked
              THEN [states EXCEPT ![u] = [content |-> text, version |-> @.version + 1]]
              ELSE states

(* unregister: a tracked document is forgotten, whoever holds it.             *)
Unregister(u) ==
    /\ states' = [states EXCEPT ![u] = NotOpen]
    /\ refs' = IF u \in Tracked THEN [refs EXCEPT ![u] = 0] ELSE refs

(* unregister and then register, as the rename of a tracked document does: it *)
(* goes on under its new name with one reference, unless that is tracked.     *)
MoveDocument(old, new) ==
    LET registers == new \notin Tracked \/ new = old IN
    /\ states' = IF registers
                 THEN [states EXCEPT ![old] = NotOpen, ![new] = states[old]]
                 ELSE [states EXCEPT ![old] = NotOpen]
    /\ refs' = IF registers
               THEN [refs EXCEPT ![old] = 0, ![new] = 1]
               ELSE [refs EXCEPT ![old] = 0]
=============================================================================
