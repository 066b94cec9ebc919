--------------------------- MODULE WorkspaceEdits ---------------------------
(* WorkspaceEditApplicator (utils/workspace_edit.py) beside the contexts and  *)
(* writers of DocumentSync: the edits a server asks for with                  *)
(* workspace/applyEdit or a user applies, each a sequence of changes that are *)
(* made one after the other, every await of them apart except for the look at *)
(* the file system that a change begins with (exists of the file, of the      *)
(* target and of the parent directory, and the mkdir of a missing parent).    *)
(* What apply_text_edits makes of a text is the subject of TextEdits: here a  *)
(* text change carries the text that results.                                 *)
EXTENDS DocumentSync

CONSTANTS
    Editors,
    Edits,      \* the edits an editor may be given, sequences of changes
    Dirs,
    Inside,     \* the files of every directory
    Layouts     \* the files there may be at first

Unversioned == -1

TextChange(u, version, text) ==
    [op |-> "text", uri |-> u, version |-> version, text |-> text]

CreateFile(u, option) ==
    [op |-> "create", uri |-> u, option |-> option, text |-> Emptied]

RenameFile(u, to, option) == [op |-> "rename", uri |-> u, to |-> to, option |-> option]

DeleteFile(u, option) == [op |-> "delete", uri |-> u, option |-> option]

DeleteDir(d, option, recursive) ==
    [op |-> "remove", dir |-> d, option |-> option, recursive |-> recursive]

(* overwrite wins over ignore_if_exists, so one option is enough.             *)
Options == {"fail", "ignore", "overwrite"}

Changes ==
    [op : {"text"}, uri : URIs, version : Nat \cup {Unversioned}, text : Contents]
    \cup [op : {"create"}, uri : URIs, option : Options, text : {Emptied}]
    \cup [op : {"rename"}, uri : URIs, to : URIs, option : Options]
    \cup [op : {"delete"}, uri : URIs, option : {"fail", "ignore"}]
    \cup [op : {"remove"}, dir : Dirs, option : {"fail", "ignore"}, recursive : BOOLEAN]

(* No directory of Dirs is inside another.                                    *)
ASSUME EditsAssumption ==
    /\ Edits \subseteq Seq(Changes) \ {<<>>}
    /\ Inside \in [Dirs -> SUBSET URIs]
    /\ \A d1, d2 \in Dirs : d1 # d2 => Inside[d1] \cap Inside[d2] = {}
    /\ Layouts \subseteq SUBSET URIs

VARIABLES
    dirs,       \* the directories that exist
    edit,       \* the edit an editor applies, or <<>>
    at,         \* the change it has come to
    step,       \* how far it is with that change
    made,       \* history: how many of its changes are in the files
    disturbed   \* history: documents whose file an edit moved, removed or
                \* truncated while they were tracked

editVars == <<dirs, edit, at, step, made, disturbed>>
allVars == <<vars, editVars>>

Underway == {"reading", "writing", "written", "unlinking", "moving", "moved",
             "deleting", "deleted", "removing"}
Steps == {"idle", "next", "applied", "refused", "escaped"} \cup Underway

Change(e) == edit[e][at[e]]

Touched(change) ==
    CASE change.op = "rename" -> {change.uri, change.to}
      [] change.op = "remove" -> Inside[change.dir]
      [] OTHER -> {change.uri}

BeingEdited(u) == \E e \in Editors : step[e] \in Underway /\ u \in Touched(Change(e))

EditsTypeOK ==
    /\ TypeOK
    /\ dirs \subseteq Dirs
    /\ edit \in [Editors -> Edits \cup {<<>>}]
    /\ at \in [Editors -> Nat]
    /\ \A e \in Editors : step[e] # "idle" => at[e] \in DOMAIN edit[e]
    /\ step \in [Editors -> Steps]
    /\ made \in [Editors -> Nat]
    /\ disturbed \subseteq URIs

EditsInit ==
    /\ InitClients
    /\ \E files \in Layouts :
          /\ disk = [u \in URIs |-> IF u \in files THEN Original ELSE Missing]
          /\ dirs = {d \in Dirs : Inside[d] \cap files # {}}
    /\ edit = [e \in Editors |-> <<>>]
    /\ at = [e \in Editors |-> 1]
    /\ step = [e \in Editors |-> "idle"]
    /\ made = [e \in Editors |-> 0]
    /\ disturbed = {}

-----------------------------------------------------------------------------
Exists(u) == disk[u] # Missing

Parents(u) == {d \in Dirs : u \in Inside[d]}

Reachable(u) == Parents(u) \subseteq dirs

(* Editors that do not overlap with others leave a document alone while it is *)
(* opened, written or edited.                                                 *)
MayStart(e) ==
    /\ step[e] = "next"
    /\ \A u \in Touched(Change(e)) : Free(u) /\ (regime.overlap \/ ~ BeingEdited(u))

(* The state changed by no more than e's own progress.                        *)
Looks == UNCHANGED <<vars, edit, disturbed>>

Disturb(U) == disturbed' = disturbed \cup (U \cap Tracked)

-----------------------------------------------------------------------------
(* What a slip in the code would make of an operator or action below: the     *)
(* variants TLC must tell from the code. No specification uses them.          *)

(* The loop over the changes does not end with the last one.                  *)
NextChangeAlways(e) ==
    at' = [at EXCEPT ![e] = @ + 1] /\ step' = [step EXCEPT ![e] = "next"]

-----------------------------------------------------------------------------
(* What e goes on with: more of this change, which may by now be made in the  *)
(* files, the next change, or an answer. A change passed over counts as made. *)
GoTo(e, s) == step' = [step EXCEPT ![e] = s] /\ UNCHANGED <<at, made>>

IsMade(e) == made' = [made EXCEPT ![e] = @ + 1]

MadeGoTo(e, s) == step' = [step EXCEPT ![e] = s] /\ IsMade(e) /\ UNCHANGED at

NextChange(e) ==
    IF at[e] < Len(edit[e])
    THEN at' = [at EXCEPT ![e] = @ + 1] /\ step' = [step EXCEPT ![e] = "next"]
    ELSE step' = [step EXCEPT ![e] = "applied"] /\ UNCHANGED at

Advance(e) == NextChange(e) /\ UNCHANGED made

PassOver(e) == NextChange(e) /\ IsMade(e)

Refuse(e) == GoTo(e, "refused")

-----------------------------------------------------------------------------
(* Variants, as above.                                                        *)

(* Any version will do.                                                       *)
ReadTextUnchecked(e) ==
    LET change == Change(e) IN
    /\ MayStart(e) /\ change.op = "text"
    /\ GoTo(e, IF change.uri \in Tracked THEN "writing" ELSE "reading")
    /\ Looks /\ UNCHANGED dirs

(* The tracked text is replaced and the server not told.                      *)
SyncTextSilently(e) ==
    /\ step[e] = "written"
    /\ UpdateContent(Change(e).uri, Change(e).text)
    /\ Advance(e)
    /\ UNCHANGED <<regime, earlier, server, refs, disk, context, wants, texts, writer, target>>
    /\ UNCHANGED <<dirs, edit, disturbed>>

(* The target is removed whatever the options.                                *)
CheckRenameForce(e) ==
    LET change == Change(e) IN
    /\ MayStart(e) /\ change.op = "rename"
    /\ IF Exists(change.uri)
       THEN GoTo(e, IF Exists(change.to) THEN "unlinking" ELSE "moving")
       ELSE Refuse(e)
    /\ Looks /\ UNCHANGED dirs

(* The new name is registered although the old one was not tracked.           *)
FollowUntracked(e) ==
    LET change == Change(e) IN
    /\ step[e] = "moved"
    /\ states' = [states EXCEPT ![change.uri] = NotOpen,
                               ![change.to] = [content |-> Emptied, version |-> 0]]
    /\ refs' = [refs EXCEPT ![change.uri] = 0, ![change.to] = 1]
    /\ Disturb({change.uri})
    /\ Advance(e)
    /\ UNCHANGED <<regime, earlier, server, disk, context, wants, texts, writer, target>>
    /\ UNCHANGED <<dirs, edit>>

-----------------------------------------------------------------------------
BeginEdit(e) ==
    /\ step[e] = "idle"
    /\ \E new \in Edits : edit' = [edit EXCEPT ![e] = new]
    /\ GoTo(e, "next")
    /\ UNCHANGED <<vars, dirs, disturbed>>

(* Text changes: a version asked for must be that of a tracked document. The  *)
(* text of a tracked document is at hand, so that nothing is awaited between  *)
(* the check and the write.                                                   *)
VersionAccepted(change) ==
    \/ change.version = Unversioned
    \/ change.uri \in Tracked /\ states[change.uri].version = change.version

ReadText(e) ==
    LET change == Change(e) IN
    /\ MayStart(e) /\ change.op = "text"
    /\ IF VersionAccepted(change)
       THEN GoTo(e, IF change.uri \in Tracked THEN "writing" ELSE "reading")
       ELSE Refuse(e)
    /\ Looks /\ UNCHANGED dirs

ReadDone(e) ==
    /\ step[e] = "reading"
    /\ IF Exists(Change(e).uri) THEN GoTo(e, "writing") ELSE Refuse(e)
    /\ Looks /\ UNCHANGED dirs

(* create: the file must not be there, or may be overwritten or kept.         *)
CheckCreate(e) ==
    LET change == Change(e) IN
    /\ MayStart(e) /\ change.op = "create"
    /\ CASE Exists(change.uri) /\ change.option = "ignore" -> PassOver(e)
         [] Exists(change.uri) /\ change.option = "fail" -> Refuse(e)
         [] OTHER -> GoTo(e, "writing")
    /\ dirs' = IF Exists(change.uri) /\ change.option # "overwrite" THEN dirs
               ELSE dirs \cup Parents(change.uri)
    /\ Looks

(* write_file, for a text change and for the empty text of a new file.        *)
WriteText(e) ==
    /\ step[e] = "writing"
    /\ Reachable(Change(e).uri)
    /\ disk' = [disk EXCEPT ![Change(e).uri] = Change(e).text]
    /\ MadeGoTo(e, "written")
    /\ UNCHANGED <<regime, earlier, states, refs, server, context, wants, texts, writer, target>>
    /\ UNCHANGED <<dirs, edit, disturbed>>

WriteTextFails(e) ==
    LET u == Change(e).uri IN
    /\ step[e] = "writing"
    /\ \/ disk' = disk /\ UNCHANGED disturbed
       \/ Reachable(u) /\ disk' = [disk EXCEPT ![u] = Emptied] /\ Disturb({u})
    /\ "write" \in regime.failures \/ ~ Reachable(u)
    /\ Refuse(e)
    /\ UNCHANGED <<regime, earlier, states, refs, server, context, wants, texts, writer, target>>
    /\ UNCHANGED <<dirs, edit>>

(* A send that times out is an OSError and refuses the edit, any other        *)
(* failure of it is not caught.                                               *)
SyncText(e) ==
    LET u == Change(e).uri IN
    /\ step[e] = "written"
    /\ UpdateContent(u, Change(e).text)
    /\ \/ /\ server' = IF u \in Tracked
                       THEN [server EXCEPT ![u].doc = states'[u]] ELSE server
          /\ Advance(e)
       \/ /\ "change" \in regime.failures /\ u \in Tracked
          /\ \E s \in {"refused", "escaped"} : GoTo(e, s)
          /\ UNCHANGED server
    /\ UNCHANGED <<regime, earlier, refs, disk, context, wants, texts, writer, target>>
    /\ UNCHANGED <<dirs, edit, disturbed>>

-----------------------------------------------------------------------------
(* rename                                                                     *)
CheckRename(e) ==
    LET change == Change(e) IN
    /\ MayStart(e) /\ change.op = "rename"
    /\ CASE ~ Exists(change.uri) -> Refuse(e)
         [] Exists(change.uri) /\ ~ Exists(change.to) -> GoTo(e, "moving")
         [] OTHER -> CASE change.option = "overwrite" -> GoTo(e, "unlinking")
                       [] change.option = "ignore" -> PassOver(e)
                       [] OTHER -> Refuse(e)
    /\ dirs' = IF Exists(change.uri) /\ ~ Exists(change.to)
               THEN dirs \cup Parents(change.to) ELSE dirs
    /\ Looks

UnlinkTarget(e) ==
    LET to == Change(e).to IN
    /\ step[e] = "unlinking"
    /\ IF Exists(to) THEN GoTo(e, "moving") ELSE Refuse(e)
    /\ disk' = [disk EXCEPT ![to] = Missing]
    /\ Disturb(IF Exists(to) THEN {to} ELSE {})
    /\ UNCHANGED <<regime, earlier, states, refs, server, context, wants, texts, writer, target>>
    /\ UNCHANGED <<dirs, edit>>

Move(e) ==
    LET change == Change(e)
        moves == Exists(change.uri) /\ Reachable(change.to) IN
    /\ step[e] = "moving"
    /\ IF moves THEN MadeGoTo(e, "moved") ELSE Refuse(e)
    /\ disk' = IF moves
               THEN [disk EXCEPT ![change.uri] = Missing, ![change.to] = disk[change.uri]]
               ELSE disk
    /\ Disturb(IF moves THEN {change.uri, change.to} ELSE {})
    /\ UNCHANGED <<regime, earlier, states, refs, server, context, wants, texts, writer, target>>
    /\ UNCHANGED <<dirs, edit>>

(* A tracked document follows its file; the server is not told.               *)
Follow(e) ==
    LET change == Change(e) IN
    /\ step[e] = "moved"
    /\ IF change.uri \in Tracked
       THEN /\ MoveDocument(change.uri, change.to)
            /\ disturbed' = disturbed \cup {change.uri, change.to}
       ELSE UNCHANGED <<states, refs, disturbed>>
    /\ Advance(e)
    /\ UNCHANGED <<regime, earlier, server, disk, context, wants, texts, writer, target>>
    /\ UNCHANGED <<dirs, edit>>

-----------------------------------------------------------------------------
(* delete, of a file or of a directory                                        *)
CheckDelete(e) ==
    LET change == Change(e)
        there == IF change.op = "remove" THEN change.dir \in dirs ELSE Exists(change.uri) IN
    /\ step[e] = "next" /\ change.op \in {"delete", "remove"} /\ MayStart(e)
    /\ CASE there -> GoTo(e, IF change.op = "remove" THEN "removing" ELSE "deleting")
         [] ~ there /\ change.option = "ignore" -> PassOver(e)
         [] OTHER -> Refuse(e)
    /\ Looks /\ UNCHANGED dirs

Unlink(e) ==
    LET u == Change(e).uri IN
    /\ step[e] = "deleting"
    /\ IF Exists(u) THEN MadeGoTo(e, "deleted") ELSE Refuse(e)
    /\ disk' = [disk EXCEPT ![u] = Missing]
    /\ Disturb(IF Exists(u) THEN {u} ELSE {})
    /\ UNCHANGED <<regime, earlier, states, refs, server, context, wants, texts, writer, target>>
    /\ UNCHANGED <<dirs, edit>>

(* The deleted document is forgotten; its holders and the server are not told.*)
Forget(e) ==
    LET u == Change(e).uri IN
    /\ step[e] = "deleted"
    /\ Unregister(u)
    /\ Disturb({u})
    /\ Advance(e)
    /\ UNCHANGED <<regime, earlier, server, disk, context, wants, texts, writer, target>>
    /\ UNCHANGED <<dirs, edit>>

(* rmtree may fail when some of the files are gone. Documents under the       *)
(* directory stay as they are: only the directory's own URI is forgotten.     *)
RemoveDir(e) ==
    LET change == Change(e)
        files == {u \in Inside[change.dir] : Exists(u)} IN
    /\ step[e] = "removing"
    /\ \/ /\ change.dir \in dirs
          /\ change.recursive \/ files = {}
          /\ disk' = [u \in URIs |-> IF u \in files THEN Missing ELSE disk[u]]
          /\ dirs' = dirs \ {change.dir}
          /\ Disturb(files)
          /\ PassOver(e)
       \/ /\ change.recursive /\ "edit" \in regime.failures
          /\ \E gone \in SUBSET files :
                /\ disk' = [u \in URIs |-> IF u \in gone THEN Missing ELSE disk[u]]
                /\ Disturb(gone)
          /\ Refuse(e)
          /\ UNCHANGED dirs
       \/ /\ change.dir \notin dirs \/ (~ change.recursive /\ files # {})
          /\ Refuse(e)
          /\ UNCHANGED <<disk, dirs, disturbed>>
    /\ UNCHANGED <<regime, earlier, states, refs, server, context, wants, texts, writer, target, edit>>

(* Reading, unlinking or renaming fails for a reason of the file system.      *)
EditFails(e) ==
    /\ "edit" \in regime.failures
    /\ step[e] \in {"reading", "unlinking", "moving", "deleting"}
    /\ Refuse(e)
    /\ Looks /\ UNCHANGED dirs

-----------------------------------------------------------------------------
(* Contexts and writers as in DocumentSync, held off by editors as well when  *)
(* callers do not overlap, and without a directory nothing is written to.     *)
HeldOff(u) == ~ regime.overlap /\ BeingEdited(u)

Others ==
    /\ \/ \E c \in Contexts :
             \/ \E U \in (SUBSET URIs) \ {{}} :
                   (\A u \in U : ~ HeldOff(u)) /\ Enter(c, U)
             \/ \E u \in URIs : ReadFile(c, u)
             \/ ReadFails(c) \/ Commit(c) \/ Announce(c) \/ AnnounceFails(c) \/ Exit(c)
       \/ \E w \in Writers :
             \/ ~ HeldOff(target[w]) /\ BeginWrite(w)
             \/ Reachable(target[w]) /\ WriteDisk(w)
             \/ (Reachable(target[w]) \/ disk' = disk) /\ WriteFails(w)
             \/ SyncState(w)
    /\ UNCHANGED editVars

EditStep(e) ==
    \/ BeginEdit(e) \/ ReadText(e) \/ ReadDone(e) \/ CheckCreate(e)
    \/ WriteText(e) \/ WriteTextFails(e) \/ SyncText(e)
    \/ CheckRename(e) \/ UnlinkTarget(e) \/ Move(e) \/ Follow(e)
    \/ CheckDelete(e) \/ Unlink(e) \/ Forget(e) \/ RemoveDir(e) \/ EditFails(e)

EditsNext == Others \/ \E e \in Editors : EditStep(e)

EditsSpec == EditsInit /\ [][EditsNext]_allVars

-----------------------------------------------------------------------------
(* Properties                                                                 *)

(* However edits rename, delete and truncate documents under the contexts     *)
(* that hold them, the damage stays with those documents: for all others the  *)
(* references are those of the holders, whoever is inside open_files finds    *)
(* them tracked, and a document tracked without a holder is a renamed one.    *)
CountsConfined ==
    /\ \A u \in URIs \ disturbed : Counted(u)
    /\ \A c \in Contexts :
          context[c] \in {"announcing", "inside"} => wants[c] \subseteq Tracked \cup disturbed

(* ... and for all others server, client and file agree when nobody opens,    *)
(* writes or edits them.                                                      *)
InStepConfined ==
    Orderly =>
        \A u \in URIs \ disturbed :
            Quiet(u) /\ ~ BeingEdited(u) =>
                /\ InStep(u)
                /\ u \in Tracked => FileKept(u)

(* A text change made for a version of a document replaces that version, or   *)
(* is written to the file of a document closed meanwhile: no other text is    *)
(* lost to it as long as callers do not overlap.                              *)
Replaces(e) ==
    /\ step[e] = "written" /\ step'[e] # "written"
    /\ Change(e).op = "text" /\ Change(e).version # Unversioned
    /\ Change(e).uri \in Tracked

VersionedEditsLand ==
    [][~ regime.overlap =>
          \A e \in Editors :
              Replaces(e) => states[Change(e).uri].version = Change(e).version]_allVars

(* Nothing is promised to callers that do overlap: their edits do not show.   *)
ShownFiles == IF regime.overlap THEN [u \in URIs |-> Missing] ELSE disk
ShownEdit == [e \in Editors |-> IF regime.overlap THEN <<>> ELSE edit[e]]
ShownMade == [e \in Editors |-> IF regime.overlap THEN 0 ELSE made[e]]

Report(e) ==
    CASE step[e] = "applied" -> "applied"
      [] step[e] \in {"refused", "escaped"} -> "failed"
      [] OTHER -> "open"

ShownReport == [e \in Editors |-> IF regime.overlap THEN "open" ELSE Report(e)]

F == INSTANCE FileChanges
        WITH files <- ShownFiles, edit <- ShownEdit, made <- ShownMade, report <- ShownReport

(* What the files show of the edits, and what is reported of them: applied    *)
(* only with all of it done, nothing after a refusal, no file lost that the   *)
(* options protect.                                                           *)
EditsKeepPromises == F!Spec
=============================================================================
