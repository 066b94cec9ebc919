----------------------------- MODULE FileChanges -----------------------------
(* What an edit promises of the files: its changes are made in their order,   *)
(* each once and where its options allow it, up to the first that is refused; *)
(* it is reported as applied only when all of them are made, and nothing of   *)
(* it is made after a refusal. Files also change by the writes of others.     *)
(* WorkspaceEdits implements it for callers that do not overlap.              *)
EXTENDS Naturals, Sequences

CONSTANTS URIs, Contents, Missing, Emptied, Editors, Edits, Inside

VARIABLES
    files,      \* the text of every file, or Missing
    edit,       \* the edit of every editor, <<>> before it has one
    made,       \* how many of its changes are made
    report      \* "open", "applied", or "failed"

vars == <<files, edit, made, report>>

Init ==
    /\ files \in [URIs -> Contents \cup {Missing}]
    /\ edit = [e \in Editors |-> <<>>]
    /\ made = [e \in Editors |-> 0]
    /\ report = [e \in Editors |-> "open"]

There(u) == files[u] # Missing

(* The files after a change, for the changes that may be made as files are.   *)
Put(u, text) == files' = [files EXCEPT ![u] = text]

Write(change) == change.op = "text" /\ Put(change.uri, change.text)

Create(change) ==
    /\ change.op = "create"
    /\ There(change.uri) => change.option = "overwrite"
    /\ Put(change.uri, Emptied)

Rename(change) ==
    /\ change.op = "rename"
    /\ There(change.uri) /\ ~ There(change.to)
    /\ files' = [files EXCEPT ![change.uri] = Missing, ![change.to] = files[change.uri]]

Delete(change) == change.op = "delete" /\ There(change.uri) /\ Put(change.uri, Missing)

RemoveTree(change) ==
    /\ change.op = "remove"
    /\ change.recursive \/ \A u \in Inside[change.dir] : ~ There(u)
    /\ files' = [u \in URIs |-> IF u \in Inside[change.dir] THEN Missing ELSE files[u]]

(* A change that asks to be passed over when it cannot be made.               *)
PassOver(change) ==
    /\ change.op # "text" /\ change.option = "ignore"
    /\ CASE change.op = "create" -> There(change.uri)
         [] change.op = "rename" -> There(change.to)
         [] change.op = "delete" -> ~ There(change.uri)
         [] OTHER -> \A u \in Inside[change.dir] : ~ There(u)
    /\ UNCHANGED files

(* The target of a rename that may overwrite it goes in a step of its own.    *)
ClearTarget(change) ==
    /\ change.op = "rename" /\ change.option = "overwrite"
    /\ There(change.uri) /\ Put(change.to, Missing)

(* What a change that fails on the way leaves behind.                         *)
Tear(change) ==
    \/ UNCHANGED files
    \/ change.op \in {"text", "create"} /\ Put(change.uri, Emptied)
    \/ /\ change.op = "remove" /\ change.recursive
       /\ \E gone \in SUBSET Inside[change.dir] :
             files' = [u \in URIs |-> IF u \in gone THEN Missing ELSE files[u]]

-----------------------------------------------------------------------------
Begin(e) ==
    /\ edit[e] = <<>>
    /\ \E new \in Edits : edit' = [edit EXCEPT ![e] = new]
    /\ UNCHANGED <<files, made, report>>

Open(e) == edit[e] # <<>> /\ report[e] = "open"

Upcoming(e) == edit[e][made[e] + 1]

Make(e) ==
    /\ Open(e) /\ made[e] < Len(edit[e])
    /\ LET change == Upcoming(e) IN
          \/ Write(change) \/ Create(change) \/ Rename(change)
          \/ Delete(change) \/ RemoveTree(change) \/ PassOver(change)
    /\ made' = [made EXCEPT ![e] = @ + 1]
    /\ report' \in {report, [report EXCEPT ![e] = "applied"]}
    /\ report'[e] = "applied" => made'[e] = Len(edit[e])
    /\ UNCHANGED edit

Prepare(e) ==
    /\ Open(e) /\ made[e] < Len(edit[e])
    /\ ClearTarget(Upcoming(e))
    /\ UNCHANGED <<edit, made, report>>

Succeed(e) ==
    /\ Open(e) /\ made[e] = Len(edit[e])
    /\ report' = [report EXCEPT ![e] = "applied"]
    /\ UNCHANGED <<files, edit, made>>

Fail(e) ==
    /\ Open(e)
    /\ IF made[e] < Len(edit[e]) THEN Tear(Upcoming(e)) ELSE UNCHANGED files
    /\ report' = [report EXCEPT ![e] = "failed"]
    /\ UNCHANGED <<edit, made>>

WriteByOthers ==
    /\ \E u \in URIs, text \in Contents : Put(u, text)
    /\ UNCHANGED <<edit, made, report>>

Next ==
    \/ \E e \in Editors : Begin(e) \/ Make(e) \/ Prepare(e) \/ Succeed(e) \/ Fail(e)
    \/ WriteByOthers

Spec == Init /\ [][Next]_vars
=============================================================================
