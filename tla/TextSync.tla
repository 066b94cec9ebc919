------------------------------ MODULE TextSync ------------------------------
(* What a language server may assume of the text document notifications it    *)
(* receives, in the order of the wire: a document is opened when it is not    *)
(* open, changed and closed only while it is, and every change carries the    *)
(* version after the last. DocumentSync implements it for callers that leave  *)
(* a document alone while it is being opened or written.                      *)
EXTENDS Naturals

CONSTANTS URIs, Contents, NotOpen

VARIABLE server     \* opens of each URI not yet closed, and the last text and version

Documents == [content : Contents, version : Nat]
View == [opens : Nat, doc : Documents \cup {NotOpen}]
Unopened == [opens |-> 0, doc |-> NotOpen]

Init == server = [u \in URIs |-> Unopened]

(* A context may open or close several documents in one go.                   *)
DidOpen(texts) ==
    /\ \A u \in DOMAIN texts : server[u] = Unopened
    /\ server' = [u \in URIs |->
           IF u \in DOMAIN texts
           THEN [opens |-> 1, doc |-> [content |-> texts[u], version |-> 0]]
           ELSE server[u]]

DidChange(u, text) ==
    /\ server[u].opens = 1
    /\ server' = [server EXCEPT
           ![u].doc = [content |-> text, version |-> @.version + 1]]

DidClose(U) ==
    /\ \A u \in U : server[u].opens = 1
    /\ server' = [u \in URIs |-> IF u \in U THEN Unopened ELSE server[u]]

(* Another server takes over.                                                 *)
Replaced == server' = [u \in URIs |-> Unopened]

Next ==
    \/ \E U \in SUBSET URIs : \E texts \in [U -> Contents] : DidOpen(texts)
    \/ \E u \in URIs, text \in Contents : DidChange(u, text)
    \/ \E U \in SUBSET URIs : DidClose(U)
    \/ Replaced

Spec == Init /\ [][Next]_server
=============================================================================
