---------------------------- MODULE DocumentSync ----------------------------
(* The document synchronisation of a client (client/abc.py): open_files       *)
(* contexts and write_file calls as concurrent tasks over the shared          *)
(* DocumentStateManager, the files on disk, and the text document             *)
(* notifications as the server sees them in the order of the wire.            *)
(* A context opens a set of documents, once; a writer replaces one document   *)
(* by a text of its own, once. The pipe takes a notification when the task    *)
(* that sends it starts, so the notifications a step spawns together are one  *)
(* step; the end of a context and its didClose are one step, since no reader  *)
(* that starts after the end can announce before them.                        *)
EXTENDS DocumentStates, FiniteSets, Sequences

CONSTANTS
    Contexts, Writers,
    Original,   \* the text every file has at first
    Emptied,    \* the text of a file truncated by a failed write
    Missing,    \* what the disk holds of a file that is not there
    Regimes     \* what callers do and what fails: each behaviour keeps to one

(* The awaits that may fail, "edit" standing for those of workspace edits.    *)
Awaits == {"read", "open", "write", "change", "edit"}

(* Whether callers may touch a document that is being opened or written, the  *)
(* awaits that may fail, the writers that write, and how often the client is  *)
(* entered again, with its DocumentStateManager and another server.           *)
RegimeType ==
    [overlap : BOOLEAN, failures : SUBSET Awaits, writers : SUBSET Writers, reentries : Nat]

ASSUME ConstantsAssumption ==
    /\ IsFiniteSet(Contexts)
    /\ Writers \cup {Original, Emptied} \subseteq Contents
    /\ NotOpen \notin Documents
    /\ Missing \notin Contents
    /\ Regimes \subseteq RegimeType

VARIABLES
    regime,
    earlier,    \* for every session before this one the documents it left counted
    disk,       \* the text of every file, or Missing
    server,     \* what the notifications sent so far tell the server
    context,    \* where each open_files context stands
    wants,      \* the URIs it was asked to open
    texts,      \* what its readers have read of the documents new to it
    writer,     \* where each write_file call stands
    target      \* the URI it writes

vars == <<regime, earlier, states, refs, disk, server, context, wants, texts, writer, target>>

ContextStates == {"out", "reading", "announcing", "inside", "left", "failed"}
WriterStates == {"idle", "writing", "written", "done", "failed"}
Unopened == [opens |-> 0, doc |-> NotOpen]
Unread == [read |-> FALSE]

TypeOK ==
    /\ regime \in Regimes
    /\ earlier \in Seq(SUBSET URIs) /\ Len(earlier) <= regime.reentries
    /\ states \in [URIs -> Documents \cup {NotOpen}]
    /\ refs \in [URIs -> Nat]
    /\ disk \in [URIs -> Contents \cup {Missing}]
    /\ server \in [URIs -> [opens : Nat, doc : Documents \cup {NotOpen}]]
    /\ context \in [Contexts -> ContextStates]
    /\ wants \in [Contexts -> SUBSET URIs]
    /\ DOMAIN texts = Contexts
    /\ \A c \in Contexts :
          /\ DOMAIN texts[c] \subseteq wants[c]
          /\ texts[c] \in [DOMAIN texts[c] -> Contents \cup {Unread}]
    /\ writer \in [Writers -> WriterStates]
    /\ target \in [Writers -> URIs]

InitClients ==
    /\ regime \in Regimes /\ earlier = <<>>
    /\ states = [u \in URIs |-> NotOpen]
    /\ refs = [u \in URIs |-> 0]
    /\ server = [u \in URIs |-> Unopened]
    /\ context = [c \in Contexts |-> "out"]
    /\ wants = [c \in Contexts |-> {}]
    /\ texts = [c \in Contexts |-> <<>>]
    /\ writer = [w \in Writers |-> "idle"]
    /\ target \in [Writers -> URIs]

Init == InitClients /\ disk = [u \in URIs |-> Original]

-----------------------------------------------------------------------------
(* Callers that do not overlap leave a document alone while it is opened or   *)
(* written.                                                                   *)
BeingOpened(u) ==
    \E c \in Contexts : context[c] \in {"reading", "announcing"} /\ u \in wants[c]

BeingWritten(u) ==
    \E w \in Writers : writer[w] \in {"writing", "written"} /\ target[w] = u

Quiet(u) == ~ BeingOpened(u) /\ ~ BeingWritten(u)

Free(u) == regime.overlap \/ Quiet(u)

-----------------------------------------------------------------------------
(* What a slip in the code would make of an action below: the variants TLC    *)
(* must tell from the code. No specification uses them.                       *)

(* The context forgets which documents are its own.                           *)
EnterUnrecorded(c, U) ==
    /\ context[c] = "out"
    /\ \A u \in U : Free(u)
    /\ context' = [context EXCEPT ![c] = IF NewURIs(U) = {} THEN "inside" ELSE "reading"]
    /\ texts' = [texts EXCEPT ![c] = [u \in NewURIs(U) |-> Unread]]
    /\ CountReferences(U)
    /\ UNCHANGED <<regime, earlier, wants, states, disk, server, writer, target>>

(* The document is updated and no didChange is sent.                          *)
SyncSilently(w) ==
    /\ writer[w] = "written"
    /\ UpdateContent(target[w], w)
    /\ writer' = [writer EXCEPT ![w] = "done"]
    /\ UNCHANGED <<regime, earlier, refs, disk, server, context, wants, texts, target>>

-----------------------------------------------------------------------------
(* open_files                                                                 *)

(* Up to the first await: references are counted, new documents selected.     *)
Enter(c, U) ==
    /\ context[c] = "out"
    /\ \A u \in U : Free(u)
    /\ context' = [context EXCEPT ![c] = IF NewURIs(U) = {} THEN "inside" ELSE "reading"]
    /\ wants' = [wants EXCEPT ![c] = U]
    /\ texts' = [texts EXCEPT ![c] = [u \in NewURIs(U) |-> Unread]]
    /\ CountReferences(U)
    /\ UNCHANGED <<regime, earlier, states, disk, server, writer, target>>

(* One of the reader tasks gets the file's bytes.                             *)
ReadFile(c, u) ==
    /\ context[c] = "reading"
    /\ u \in DOMAIN texts[c] /\ texts[c][u] = Unread
    /\ disk[u] # Missing
    /\ texts' = [texts EXCEPT ![c][u] = disk[u]]
    /\ UNCHANGED <<regime, earlier, states, refs, disk, server, context, wants, writer, target>>

(* A file is missing or cannot be decoded, or the opener is cancelled: open   *)
(* raises before the try block, nothing gives the references back.            *)
ReadFails(c) ==
    /\ context[c] = "reading"
    /\ \/ "read" \in regime.failures
       \/ \E u \in DOMAIN texts[c] : texts[c][u] = Unread /\ disk[u] = Missing
    /\ context' = [context EXCEPT ![c] = "failed"]
    /\ UNCHANGED <<regime, earlier, states, refs, disk, server, wants, texts, writer, target>>

(* All readers done: the documents are recorded, their didOpen tasks spawned. *)
Commit(c) ==
    /\ context[c] = "reading"
    /\ \A u \in DOMAIN texts[c] : texts[c][u] # Unread
    /\ CommitDocuments(texts[c])
    /\ context' = [context EXCEPT ![c] = "announcing"]
    /\ UNCHANGED <<regime, earlier, refs, disk, server, wants, texts, writer, target>>

(* didOpen for the documents of U, with the text read and version 0.          *)
DidOpen(c, U) ==
    server' = [u \in URIs |->
        IF u \in U
        THEN [opens |-> server[u].opens + 1,
              doc |-> [content |-> texts[c][u], version |-> 0]]
        ELSE server[u]]

Announce(c) ==
    /\ context[c] = "announcing"
    /\ DidOpen(c, DOMAIN texts[c])
    /\ context' = [context EXCEPT ![c] = "inside"]
    /\ UNCHANGED <<regime, earlier, states, refs, disk, wants, texts, writer, target>>

(* A send raises: open_files leaves before its try block.                     *)
AnnounceFails(c) ==
    /\ "open" \in regime.failures
    /\ context[c] = "announcing"
    /\ \E sent \in SUBSET DOMAIN texts[c] : DidOpen(c, sent)
    /\ context' = [context EXCEPT ![c] = "failed"]
    /\ UNCHANGED <<regime, earlier, states, refs, disk, wants, texts, writer, target>>

(* The body ends, normally or not: close, and didClose for what it returned.  *)
Exit(c) ==
    /\ context[c] = "inside"
    /\ Close(wants[c])
    /\ server' = [u \in URIs |->
           IF u \in ClosedURIs(wants[c])
           THEN IF server[u].opens <= 1 THEN Unopened
                ELSE [server[u] EXCEPT !.opens = @ - 1]
           ELSE server[u]]
    /\ context' = [context EXCEPT ![c] = "left"]
    /\ UNCHANGED <<regime, earlier, disk, wants, texts, writer, target>>

-----------------------------------------------------------------------------
(* write_file                                                                 *)

BeginWrite(w) ==
    /\ w \in regime.writers /\ writer[w] = "idle"
    /\ Free(target[w])
    /\ writer' = [writer EXCEPT ![w] = "writing"]
    /\ UNCHANGED <<regime, earlier, states, refs, disk, server, context, wants, texts, target>>

WriteDisk(w) ==
    /\ writer[w] = "writing"
    /\ disk' = [disk EXCEPT ![target[w]] = w]
    /\ writer' = [writer EXCEPT ![w] = "written"]
    /\ UNCHANGED <<regime, earlier, states, refs, server, context, wants, texts, target>>

(* The file cannot be opened, or cannot hold the text in the encoding of the  *)
(* document after it was truncated.                                           *)
WriteFails(w) ==
    /\ "write" \in regime.failures
    /\ writer[w] = "writing"
    /\ disk' \in {disk, [disk EXCEPT ![target[w]] = Emptied]}
    /\ writer' = [writer EXCEPT ![w] = "failed"]
    /\ UNCHANGED <<regime, earlier, states, refs, server, context, wants, texts, target>>

(* update_content, and didChange if the document is tracked by now.           *)
SyncState(w) ==
    LET u == target[w] IN
    /\ writer[w] = "written"
    /\ UpdateContent(u, w)
    /\ \/ /\ server' = IF u \in Tracked
                       THEN [server EXCEPT ![u].doc = states'[u]] ELSE server
          /\ writer' = [writer EXCEPT ![w] = "done"]
       \/ /\ "change" \in regime.failures /\ u \in Tracked     \* the send raises
          /\ server' = server
          /\ writer' = [writer EXCEPT ![w] = "failed"]
    /\ UNCHANGED <<regime, earlier, refs, disk, context, wants, texts, target>>

-----------------------------------------------------------------------------
(* The body of a session ends after its contexts and writes, one way or the   *)
(* other; the next server has nothing open, the manager is that of before.    *)
EnterAgain ==
    /\ Len(earlier) < regime.reentries
    /\ \A u \in URIs : Quiet(u)
    /\ \A c \in Contexts : context[c] # "inside"
    /\ earlier' = Append(earlier, {u \in URIs : refs[u] > 0})
    /\ server' = [u \in URIs |-> Unopened]
    /\ UNCHANGED <<regime, states, refs, disk, context, wants, texts, writer, target>>

-----------------------------------------------------------------------------
Next ==
    \/ \E c \in Contexts :
          \/ \E U \in (SUBSET URIs) \ {{}} : Enter(c, U)
          \/ \E u \in URIs : ReadFile(c, u)
          \/ ReadFails(c) \/ Commit(c) \/ Announce(c) \/ AnnounceFails(c) \/ Exit(c)
    \/ \E w \in Writers :
          BeginWrite(w) \/ WriteDisk(w) \/ WriteFails(w) \/ SyncState(w)
    \/ EnterAgain

Spec == Init /\ [][Next]_vars

-----------------------------------------------------------------------------
(* Properties                                                                 *)

(* The contexts that count in the references of u. One that failed on the way *)
(* in never gives its reference back.                                         *)
Holders(u) ==
    {c \in Contexts : u \in wants[c]
        /\ context[c] \in {"reading", "announcing", "inside", "failed"}}

(* open and close balance whatever the overlap of contexts, shared documents  *)
(* and failures: the count of a document is the number of its holders, and    *)
(* nothing stays tracked without one.                                         *)
Counted(u) ==
    /\ refs[u] = Cardinality(Holders(u))
    /\ u \in Tracked => refs[u] > 0

ReferencesCounted == \A u \in URIs : Counted(u)

(* Inside open_files every document asked for is tracked, although others     *)
(* open, close and fail around it: reads and writes go to the shared state.   *)
HoldersTracked ==
    \A c \in Contexts : context[c] \in {"announcing", "inside"} => wants[c] \subseteq Tracked

(* A reference that was never given back keeps its document tracked into the  *)
(* next session, whose server is never told of it.                            *)
Stale == UNION {earlier[n] : n \in DOMAIN earlier}

(* What server and client agree on is promised to callers that do not overlap *)
(* on a document, as long as every notification can be sent.                  *)
Orderly == ~ regime.overlap /\ regime.failures \cap {"open", "change"} = {}

(* When nobody is opening or writing a document, the server has it open       *)
(* exactly when the client tracks it, with the client's text and version, for *)
(* orderly callers, in this session and, but for the documents it left        *)
(* counted, in the next.                                                      *)
InStep(u) ==
    server[u] = IF u \in Tracked THEN [opens |-> 1, doc |-> states[u]] ELSE Unopened

ServerInStep == Orderly => \A u \in URIs \ Stale : Quiet(u) => InStep(u)

(* ... and the tracked text is that of the file, if no write of it failed and *)
(* callers do not overlap.                                                    *)
FileKept(u) ==
    (\A w \in Writers : target[w] = u => writer[w] # "failed") =>
        states[u].content = disk[u]

TextOfFile == ~ regime.overlap => \A u \in Tracked : Quiet(u) => FileKept(u)

(* Nothing is promised of the notifications of callers that are not orderly,  *)
(* nor of those about stale documents.                                        *)
Told == [u \in URIs |-> IF Orderly /\ u \notin Stale THEN server[u] ELSE Unopened]

T == INSTANCE TextSync WITH server <- Told

(* The notifications of all contexts and writers together are ones a server   *)
(* expects: no document is opened twice, changed or closed while not open,    *)
(* and each change carries the next version.                                  *)
SpeaksTextSync == T!Spec

(* client/document_state.py:48 "Open files and track state. Only return newly *)
(* opened documents.": no document is announced that already is.              *)
OpenedOnce == \A u \in URIs : server[u].opens <= 1

(* tests/unit/test_client/test_open_files.py:68 "After all closed, should be  *)
(* fully cleaned up": with no context left nothing is tracked or counted.     *)
CleanedUp ==
    (\A c \in Contexts : context[c] \in {"out", "left", "failed"}) =>
        \A u \in URIs : refs[u] = 0 /\ u \notin Tracked
=============================================================================
