------------------------- MODULE WorkspaceEditsProofs -------------------------
(* Proofs about WorkspaceEdits for any number of editors beside any number of *)
(* contexts and writers, any files and directories and any edits. What holds  *)
(* of a document as long as no edit disturbs it is proved of each document    *)
(* with the lemmas of DocumentSyncProofs, for the steps of                    *)
(* contexts and writers; and an editor that has begun a change is alone with  *)
(* the documents of the change, when callers do not overlap.                  *)
EXTENDS WorkspaceEdits, DocumentSyncProofs

(* Where an editor stands: the changes made are those before the one it has   *)
(* come to, or that one too, and what it does is part of such a change.       *)
Progress(e) ==
    /\ step[e] = "idle" => edit[e] = <<>> /\ at[e] = 1 /\ made[e] = 0
    /\ step[e] # "idle" => edit[e] \in Edits /\ at[e] \in 1 .. Len(edit[e])
    /\ step[e] \in {"next", "reading", "writing", "unlinking", "moving", "deleting",
                    "removing"} => made[e] = at[e] - 1
    /\ step[e] \in {"written", "moved", "deleted", "applied"} => made[e] = at[e]
    /\ step[e] = "applied" => at[e] = Len(edit[e])

Occupied(e) ==
    /\ step[e] = "reading" => Change(e).op = "text"
    /\ step[e] \in {"writing", "written"} => Change(e).op \in {"text", "create"}
    /\ step[e] = "unlinking" => Change(e).op = "rename" /\ Change(e).option = "overwrite"
    /\ step[e] \in {"moving", "moved"} => Change(e).op = "rename"
    /\ step[e] \in {"deleting", "deleted"} => Change(e).op = "delete"
    /\ step[e] = "removing" => Change(e).op = "remove"

(* The client is not entered again in this model.                             *)
Types == EditsTypeOK /\ ReadAll /\ earlier = <<>>
Editing == \A e \in Editors : Progress(e) /\ Occupied(e)

(* The editor has begun a change of the document's file.                      *)
EditorAt(e, u) == step[e] \in Underway /\ u \in Touched(Change(e))

-----------------------------------------------------------------------------
(* Changes                                                                    *)
LEMMA ChangeTyped ==
    ASSUME Types, NEW e \in Editors, Progress(e), step[e] # "idle"
    PROVE  Change(e) \in Changes
  BY EditsAssumption DEF Types, EditsTypeOK, Progress, Change

LEMMA ChangeKinds ==
    ASSUME NEW change \in Changes
    PROVE  /\ change.op \in {"text", "create", "rename", "delete", "remove"}
           /\ Touched(change) \subseteq URIs
           /\ change.op # "remove" => change.uri \in URIs /\ change.uri \in Touched(change)
           /\ change.op \in {"text", "create"} => change.text \in Contents
           /\ change.op = "text" => change.version \in Nat \cup {Unversioned}
           /\ change.op = "create" => change.text = Emptied
           /\ change.op = "rename" => change.to \in URIs /\ change.to \in Touched(change)
           /\ change.op = "remove" =>
                 change.dir \in Dirs /\ Inside[change.dir] = Touched(change)
<1>1. CASE change \in [op : {"text"}, uri : URIs, version : Nat \cup {Unversioned}, text : Contents]
  BY <1>1 DEF Touched
<1>2. CASE change \in [op : {"create"}, uri : URIs, option : Options, text : {Emptied}]
  BY <1>2, ConstantsAssumption DEF Touched
<1>3. CASE change \in [op : {"rename"}, uri : URIs, to : URIs, option : Options]
  BY <1>3 DEF Touched
<1>4. CASE change \in [op : {"delete"}, uri : URIs, option : {"fail", "ignore"}]
  BY <1>4 DEF Touched
<1>5. CASE change \in [op : {"remove"}, dir : Dirs, option : {"fail", "ignore"},
                       recursive : BOOLEAN]
  BY <1>5, EditsAssumption DEF Touched
<1>. QED
  BY <1>1, <1>2, <1>3, <1>4, <1>5 DEF Changes

(* What an editor may change beside documents, files and its own progress.    *)
LEMMA EditFrame ==
    ASSUME Types, NEW e \in Editors, EditStep(e)
    PROVE  /\ UNCHANGED <<regime, earlier, context, wants, texts, writer, target>>
           /\ \A f \in Editors : f # e => /\ step'[f] = step[f] /\ at'[f] = at[f]
                                          /\ made'[f] = made[f] /\ edit'[f] = edit[f]
<1>1. CASE BeginEdit(e)
  BY <1>1 DEF Types, EditsTypeOK, BeginEdit, GoTo, vars
<1>2. CASE ReadText(e) \/ ReadDone(e) \/ CheckCreate(e) \/ CheckRename(e) \/ CheckDelete(e)
           \/ EditFails(e)
  BY <1>2 DEF Types, EditsTypeOK, ReadText, ReadDone, CheckCreate, CheckRename, CheckDelete,
              EditFails, Looks, vars, GoTo, Refuse, PassOver, NextChange, IsMade
<1>3. CASE WriteText(e) \/ WriteTextFails(e) \/ SyncText(e) \/ UnlinkTarget(e) \/ Move(e)
           \/ Follow(e) \/ Unlink(e) \/ Forget(e)
  BY <1>3 DEF Types, EditsTypeOK, WriteText, WriteTextFails, SyncText, UnlinkTarget, Move,
              Follow, Unlink, Forget, GoTo, Refuse, Advance, MadeGoTo, NextChange, IsMade
<1>4. CASE RemoveDir(e)
  BY <1>4 DEF Types, EditsTypeOK, RemoveDir, GoTo, Refuse, PassOver, NextChange, IsMade
<1>. QED
  BY <1>1, <1>2, <1>3, <1>4 DEF EditStep

-----------------------------------------------------------------------------
(* Progress                                                                   *)
ProgressTypes ==
    /\ edit \in [Editors -> Edits \cup {<<>>}]
    /\ at \in [Editors -> Nat]
    /\ step \in [Editors -> Steps]
    /\ made \in [Editors -> Nat]

LEMMA Going ==
    ASSUME Types, NEW e \in Editors, NEW s \in Steps, GoTo(e, s), edit' = edit
    PROVE  /\ ProgressTypes'
           /\ step'[e] = s /\ at'[e] = at[e] /\ made'[e] = made[e]
           /\ Change(e)' = Change(e)
  BY DEF Types, EditsTypeOK, ProgressTypes, GoTo, Change

LEMMA GoingMade ==
    ASSUME Types, NEW e \in Editors, NEW s \in Steps, MadeGoTo(e, s), edit' = edit
    PROVE  /\ ProgressTypes'
           /\ step'[e] = s /\ at'[e] = at[e] /\ made'[e] = made[e] + 1
           /\ Change(e)' = Change(e)
  BY DEF Types, EditsTypeOK, ProgressTypes, MadeGoTo, IsMade, Change

(* An editor comes to its next change, or to the end, with this one made.     *)
LEMMA Advancing ==
    ASSUME Types, NEW e \in Editors, Progress(e), step[e] # "idle", edit' = edit,
           \/ Advance(e) /\ made[e] = at[e]
           \/ PassOver(e) /\ made[e] = at[e] - 1
    PROVE  /\ ProgressTypes' /\ Progress(e)' /\ Occupied(e)'
           /\ step'[e] \in {"next", "applied"}
           /\ step'[e] = "applied" => made'[e] = Len(edit[e])
<1>1. edit[e] \in Seq(Changes) /\ Len(edit[e]) \in Nat /\ at[e] \in 1 .. Len(edit[e])
  BY EditsAssumption DEF Progress
<1>2. made' \in [Editors -> Nat] /\ made'[e] = at[e]
  <2>1. made \in [Editors -> Nat] /\ at[e] \in Nat
    BY DEF Types, EditsTypeOK
  <2>2. CASE made' = made
    BY <2>1, <2>2 DEF Advance, PassOver, IsMade
  <2>3. CASE made' = [made EXCEPT ![e] = made[e] + 1] /\ made[e] = at[e] - 1
    BY <2>1, <2>3
  <2>. QED
    BY <2>2, <2>3 DEF Advance, PassOver, IsMade
<1>3. NextChange(e)
  BY DEF Advance, PassOver
<1>4. CASE at[e] < Len(edit[e])
  <2>1. /\ at' \in [Editors -> Nat] /\ at'[e] = at[e] + 1
        /\ step' \in [Editors -> Steps] /\ step'[e] = "next"
    <3>1. at' = [at EXCEPT ![e] = at[e] + 1] /\ step' = [step EXCEPT ![e] = "next"]
      BY <1>3, <1>4 DEF NextChange
    <3>2. at' \in [Editors -> Nat] /\ at'[e] = at[e] + 1
      BY <3>1 DEF Types, EditsTypeOK
    <3>3. step' \in [Editors -> Steps] /\ step'[e] = "next"
      BY <3>1 DEF Types, EditsTypeOK, Steps
    <3>. QED
      BY <3>2, <3>3
  <2>2. at'[e] \in 1 .. Len(edit[e]) /\ made'[e] = at'[e] - 1
    <3>1. \A i, j, k, m \in Nat : i \in 1 .. j /\ i < j /\ m = i + 1 /\ k = i =>
              m \in 1 .. j /\ k = m - 1
      OBVIOUS
    <3>. QED
      BY <1>1, <1>2, <1>4, <2>1, <3>1
  <2>3. edit'[e] \in Edits
    BY DEF Progress
  <2>. QED
    BY <1>2, <2>1, <2>2, <2>3 DEF Types, EditsTypeOK, ProgressTypes, Progress, Occupied
<1>5. CASE ~ (at[e] < Len(edit[e]))
  <2>1. /\ at' = at /\ at[e] = Len(edit[e])
        /\ step' \in [Editors -> Steps] /\ step'[e] = "applied"
    <3>1. at' = at /\ step' = [step EXCEPT ![e] = "applied"]
      BY <1>3, <1>5 DEF NextChange
    <3>2. \A i, j \in Nat : i \in 1 .. j /\ ~ (i < j) => i = j
      OBVIOUS
    <3>3. at[e] = Len(edit[e])
      BY <1>1, <1>5, <3>2
    <3>4. step' \in [Editors -> Steps] /\ step'[e] = "applied"
      BY <3>1 DEF Types, EditsTypeOK, Steps
    <3>. QED
      BY <3>1, <3>3, <3>4
  <2>2. edit'[e] \in Edits
    BY DEF Progress
  <2>. QED
    BY <1>1, <1>2, <2>1, <2>2 DEF Types, EditsTypeOK, ProgressTypes, Progress, Occupied
<1>. QED
  BY <1>4, <1>5

LEMMA BeginProgress ==
    ASSUME Types, NEW e \in Editors, Progress(e), BeginEdit(e)
    PROVE  ProgressTypes' /\ Progress(e)' /\ Occupied(e)'
<1>1. PICK new \in Edits : edit' = [edit EXCEPT ![e] = new]
  BY DEF BeginEdit
<1>2. /\ edit' \in [Editors -> Edits \cup {<<>>}] /\ edit'[e] = new
      /\ step' \in [Editors -> Steps] /\ step'[e] = "next" /\ at' = at /\ made' = made
  BY <1>1 DEF Types, EditsTypeOK, BeginEdit, GoTo, Steps
<1>3. Len(new) \in Nat /\ Len(new) > 0
  BY EditsAssumption
<1>4. at[e] = 1 /\ made[e] = 0
  BY DEF BeginEdit, Progress
<1>. QED
  BY <1>2, <1>3, <1>4 DEF Types, EditsTypeOK, ProgressTypes, Progress, Occupied

(* The looks that begin a change.                                             *)
LEMMA LookProgress ==
    ASSUME Types, NEW e \in Editors, Progress(e), Occupied(e),
           \/ ReadText(e) \/ ReadDone(e) \/ CheckCreate(e) \/ CheckRename(e)
           \/ CheckDelete(e) \/ EditFails(e)
    PROVE  ProgressTypes' /\ Progress(e)' /\ Occupied(e)'
<1>1. edit' = edit
  BY DEF ReadText, ReadDone, CheckCreate, CheckRename, CheckDelete, EditFails, Looks
<1>2. /\ step[e] \in {"next", "reading", "unlinking", "moving", "deleting"}
      /\ made[e] = at[e] - 1
  BY DEF Progress, ReadText, ReadDone, CheckCreate, CheckRename, CheckDelete, EditFails,
         MayStart
<1>3. CASE PassOver(e)
  BY <1>1, <1>2, <1>3, Advancing
<1>4. ASSUME NEW s \in {"reading", "writing", "unlinking", "moving", "deleting", "removing",
                        "refused"},
             GoTo(e, s),
             /\ s = "reading" => Change(e).op = "text"
             /\ s = "writing" => Change(e).op \in {"text", "create"}
             /\ s = "unlinking" => Change(e).op = "rename" /\ Change(e).option = "overwrite"
             /\ s = "moving" => Change(e).op = "rename"
             /\ s = "deleting" => Change(e).op = "delete"
             /\ s = "removing" => Change(e).op = "remove"
      PROVE  ProgressTypes' /\ Progress(e)' /\ Occupied(e)'
  <2>1. /\ ProgressTypes'
        /\ step'[e] = s /\ at'[e] = at[e] /\ made'[e] = made[e]
        /\ Change(e)' = Change(e)
    BY <1>1, <1>4, Going DEF Steps, Underway
  <2>. QED
    BY <1>1, <1>2, <1>4, <2>1 DEF Progress, Occupied
<1>5. CASE ReadText(e)
  BY <1>4, <1>5 DEF ReadText, Refuse
<1>6. CASE ReadDone(e)
  BY <1>4, <1>6 DEF ReadDone, Refuse, Occupied
<1>7. CASE CheckCreate(e)
  BY <1>3, <1>4, <1>7 DEF CheckCreate, Refuse
<1>8. CASE CheckRename(e)
  BY <1>3, <1>4, <1>8 DEF CheckRename, Refuse
<1>9. CASE CheckDelete(e)
  BY <1>3, <1>4, <1>9 DEF CheckDelete, Refuse
<1>10. CASE EditFails(e)
  BY <1>4, <1>10 DEF EditFails, Refuse
<1>. QED
  BY <1>5, <1>6, <1>7, <1>8, <1>9, <1>10

(* The steps that make a change, record it or fail at it.                     *)
LEMMA MakeProgress ==
    ASSUME Types, NEW e \in Editors, Progress(e), Occupied(e),
           \/ WriteText(e) \/ WriteTextFails(e) \/ SyncText(e) \/ UnlinkTarget(e) \/ Move(e)
           \/ Follow(e) \/ Unlink(e) \/ Forget(e) \/ RemoveDir(e)
    PROVE  ProgressTypes' /\ Progress(e)' /\ Occupied(e)'
<1>1. edit' = edit
  BY DEF WriteText, WriteTextFails, SyncText, UnlinkTarget, Move, Follow, Unlink, Forget,
         RemoveDir
<1>2. ASSUME step[e] # "idle", \E s \in {"refused", "escaped"} : GoTo(e, s)
      PROVE  ProgressTypes' /\ Progress(e)' /\ Occupied(e)'
  <2>1. PICK s \in {"refused", "escaped"} : GoTo(e, s)
    BY <1>2
  <2>2. /\ ProgressTypes'
        /\ step'[e] = s /\ at'[e] = at[e] /\ made'[e] = made[e]
    BY <1>1, <2>1, Going DEF Steps
  <2>. QED
    BY <1>1, <1>2, <2>2 DEF Progress, Occupied
<1>3. ASSUME NEW s \in {"written", "moved", "deleted"}, MadeGoTo(e, s), made[e] = at[e] - 1,
             step[e] # "idle",
             /\ s = "written" => Change(e).op \in {"text", "create"}
             /\ s = "moved" => Change(e).op = "rename"
             /\ s = "deleted" => Change(e).op = "delete"
      PROVE  ProgressTypes' /\ Progress(e)' /\ Occupied(e)'
  <2>1. /\ ProgressTypes'
        /\ step'[e] = s /\ at'[e] = at[e] /\ made'[e] = made[e] + 1
        /\ Change(e)' = Change(e)
    BY <1>1, <1>3, GoingMade DEF Steps, Underway
  <2>2. made'[e] = at'[e]
    BY <1>3, <2>1 DEF Types, EditsTypeOK
  <2>. QED
    BY <1>1, <1>3, <2>1, <2>2 DEF Progress, Occupied
<1>4. CASE WriteText(e)
  BY <1>3, <1>4 DEF WriteText, Progress, Occupied
<1>5. CASE WriteTextFails(e)
  BY <1>2, <1>5 DEF WriteTextFails, Refuse
<1>6. CASE SyncText(e)
  BY <1>1, <1>2, <1>6, Advancing DEF SyncText, Progress
<1>7. CASE UnlinkTarget(e)
  <2>1. CASE GoTo(e, "moving")
    <3>1. /\ ProgressTypes'
          /\ step'[e] = "moving" /\ at'[e] = at[e] /\ made'[e] = made[e]
          /\ Change(e)' = Change(e)
      BY <1>1, <2>1, Going DEF Steps, Underway
    <3>. QED
      BY <1>1, <1>7, <3>1 DEF UnlinkTarget, Progress, Occupied
  <2>. QED
    BY <1>2, <1>7, <2>1 DEF UnlinkTarget, Refuse
<1>8. CASE Move(e)
  BY <1>2, <1>3, <1>8 DEF Move, Refuse, Progress, Occupied
<1>9. CASE Follow(e) \/ Forget(e)
  BY <1>1, <1>9, Advancing DEF Follow, Forget, Progress
<1>10. CASE Unlink(e)
  BY <1>2, <1>3, <1>10 DEF Unlink, Refuse, Progress, Occupied
<1>11. CASE RemoveDir(e)
  BY <1>1, <1>2, <1>11, Advancing DEF RemoveDir, Refuse, Progress
<1>. QED
  BY <1>4, <1>5, <1>6, <1>7, <1>8, <1>9, <1>10, <1>11
-----------------------------------------------------------------------------
(* Types                                                                      *)
DataTypes ==
    /\ states \in [URIs -> Documents \cup {NotOpen}]
    /\ refs \in [URIs -> Nat]
    /\ disk \in [URIs -> Contents \cup {Missing}]
    /\ server \in [URIs -> [opens : Nat, doc : Documents \cup {NotOpen}]]
    /\ dirs \subseteq Dirs
    /\ disturbed \subseteq URIs

(* The changes an editor that is not idle is at, by what it does.             *)
LEMMA ChangeAt ==
    ASSUME Types, NEW e \in Editors, Progress(e), Occupied(e), step[e] \in Underway
    PROVE  /\ Touched(Change(e)) \subseteq URIs
           /\ step[e] # "removing" =>
                 Change(e).uri \in URIs /\ Change(e).uri \in Touched(Change(e))
           /\ step[e] \in {"writing", "written"} => Change(e).text \in Contents
           /\ step[e] \in {"unlinking", "moving", "moved"} =>
                 Change(e).to \in URIs /\ Change(e).to \in Touched(Change(e))
           /\ step[e] = "removing" =>
                 Change(e).dir \in Dirs /\ Inside[Change(e).dir] = Touched(Change(e))
<1>1. Change(e) \in Changes
  BY ChangeTyped DEF Underway
<1>. QED
  BY <1>1, ChangeKinds DEF Occupied, Underway

LEMMA DisturbTypes ==
    ASSUME Types, NEW U, Disturb(U)
    PROVE  disturbed' \subseteq URIs
  BY DEF Types, EditsTypeOK, Disturb, Tracked

LEMMA EditData ==
    ASSUME Types, NEW e \in Editors, Progress(e), Occupied(e), EditStep(e)
    PROVE  DataTypes'
<1>1. DataTypes
  BY DEF Types, EditsTypeOK, TypeOK, DataTypes
<1>2. CASE BeginEdit(e) \/ ReadText(e) \/ ReadDone(e) \/ EditFails(e) \/ CheckDelete(e)
  BY <1>1, <1>2 DEF DataTypes, BeginEdit, ReadText, ReadDone, EditFails, CheckDelete, Looks,
                    vars
<1>3. CASE CheckCreate(e) \/ CheckRename(e)
  BY <1>1, <1>3 DEF DataTypes, CheckCreate, CheckRename, Looks, vars, Parents
<1>4. CASE WriteText(e)
  <2>1. step[e] \in Underway /\ step[e] = "writing"
    BY <1>4 DEF WriteText, Underway
  <2>. QED
    BY <1>1, <1>4, <2>1, ChangeAt DEF DataTypes, WriteText
<1>5. CASE WriteTextFails(e)
  <2>1. disk' \in [URIs -> Contents \cup {Missing}]
    BY <1>1, <1>5, ConstantsAssumption DEF DataTypes, WriteTextFails
  <2>2. disturbed' \subseteq URIs
    BY <1>1, <1>5, DisturbTypes DEF DataTypes, WriteTextFails
  <2>. QED
    BY <1>1, <1>5, <2>1, <2>2 DEF DataTypes, WriteTextFails
<1>6. CASE SyncText(e)
  <2>1. step[e] \in Underway /\ step[e] = "written"
    BY <1>6 DEF SyncText, Underway
  <2>2. Change(e).uri \in URIs /\ Change(e).text \in Contents
    BY <2>1, ChangeAt
  <2>3. states' \in [URIs -> Documents \cup {NotOpen}]
    BY <1>1, <1>6, <2>2 DEF DataTypes, SyncText, UpdateContent, Tracked, Documents
  <2>4. server' \in [URIs -> [opens : Nat, doc : Documents \cup {NotOpen}]]
    <3>. DEFINE u == Change(e).uri
                Known == [opens : Nat, doc : Documents \cup {NotOpen}]
    <3>1. server \in [URIs -> Known] /\ u \in URIs
      BY <1>1, <2>2 DEF DataTypes
    <3>2. \/ server' = server
          \/ server' = [server EXCEPT ![u] = [server[u] EXCEPT !.doc = states'[u]]]
      BY <1>6 DEF SyncText
    <3>3. [server[u] EXCEPT !.doc = states'[u]] \in Known
      BY <2>3, <3>1
    <3>4. server' \in [URIs -> Known]
      <4>. HIDE DEF Known, u
      <4>. QED
        BY <3>1, <3>2, <3>3
    <3>. QED
      BY <3>4
  <2>. QED
    BY <1>1, <1>6, <2>3, <2>4 DEF DataTypes, SyncText
<1>7. CASE UnlinkTarget(e)
  BY <1>1, <1>7, DisturbTypes DEF DataTypes, UnlinkTarget
<1>8. CASE Move(e)
  <2>1. step[e] \in Underway /\ step[e] = "moving"
    BY <1>8 DEF Move, Underway
  <2>2. disk' \in [URIs -> Contents \cup {Missing}]
    BY <1>1, <1>8, <2>1, ChangeAt DEF DataTypes, Move
  <2>3. disturbed' \subseteq URIs
    BY <1>8, DisturbTypes DEF Move
  <2>. QED
    BY <1>1, <1>8, <2>2, <2>3 DEF DataTypes, Move
<1>9. CASE Follow(e)
  <2>1. step[e] \in Underway /\ step[e] = "moved"
    BY <1>9 DEF Follow, Underway
  <2>2. Change(e).uri \in URIs /\ Change(e).to \in URIs
    BY <2>1, ChangeAt
  <2>3. states' \in [URIs -> Documents \cup {NotOpen}] /\ refs' \in [URIs -> Nat]
    BY <1>1, <1>9, <2>2 DEF DataTypes, Follow, MoveDocument
  <2>4. disturbed' \subseteq URIs
    BY <1>1, <1>9, <2>2 DEF DataTypes, Follow
  <2>. QED
    BY <1>1, <1>9, <2>3, <2>4 DEF DataTypes, Follow
<1>10. CASE Unlink(e)
  BY <1>1, <1>10, DisturbTypes DEF DataTypes, Unlink
<1>11. CASE Forget(e)
  BY <1>1, <1>11, DisturbTypes DEF DataTypes, Forget, Unregister
<1>12. CASE RemoveDir(e)
  <2>1. disk' \in [URIs -> Contents \cup {Missing}]
    BY <1>1, <1>12 DEF DataTypes, RemoveDir
  <2>2. disturbed' \subseteq URIs /\ dirs' \subseteq Dirs
    BY <1>1, <1>12, DisturbTypes DEF DataTypes, RemoveDir
  <2>. QED
    BY <1>1, <1>12, <2>1, <2>2 DEF DataTypes, RemoveDir
<1>. QED
  BY <1>2, <1>3, <1>4, <1>5, <1>6, <1>7, <1>8, <1>9, <1>10, <1>11, <1>12 DEF EditStep

(* What contexts and writers do is a step of DocumentSync.                    *)
LEMMA OthersStep ==
    ASSUME Others
    PROVE  Next /\ UNCHANGED editVars /\ earlier' = earlier
<1>1. Next /\ UNCHANGED editVars
  BY DEF Others, Next
<1>2. earlier' = earlier
  BY DEF Others, Enter, ReadFile, ReadFails, Commit, Announce, AnnounceFails, Exit,
         BeginWrite, WriteDisk, WriteFails, SyncState
<1>. QED
  BY <1>1, <1>2

LEMMA OthersTypes ==
    ASSUME Types, Editing, Others \/ UNCHANGED allVars
    PROVE  Types' /\ Editing'
<1>1. [Next]_vars /\ UNCHANGED editVars /\ earlier' = earlier
  BY OthersStep DEF allVars, vars
<1>2. TypeOK' /\ ReadAll'
  BY <1>1, TypesKept DEF Types, EditsTypeOK
<1>. QED
  BY <1>1, <1>2 DEF Types, EditsTypeOK, Editing, Progress, Occupied, Change, editVars

LEMMA EditTypes ==
    ASSUME Types, Editing, NEW e \in Editors, EditStep(e)
    PROVE  Types' /\ Editing'
<1>1. ProgressTypes' /\ Progress(e)' /\ Occupied(e)'
  BY BeginProgress, LookProgress, MakeProgress DEF Editing, EditStep
<1>2. DataTypes'
  BY EditData DEF Editing
<1>3. /\ UNCHANGED <<regime, earlier, context, wants, texts, writer, target>>
      /\ \A f \in Editors : f # e => /\ step'[f] = step[f] /\ at'[f] = at[f]
                                     /\ made'[f] = made[f] /\ edit'[f] = edit[f]
  BY EditFrame
<1>4. TypeOK' /\ ReadAll' /\ earlier' = <<>>
  <2>1. TypeOK'
    BY <1>2, <1>3 DEF Types, EditsTypeOK, TypeOK, DataTypes
  <2>. QED
    BY <1>3, <2>1 DEF Types, ReadAll
<1>5. \A f \in Editors : Progress(f)' /\ Occupied(f)'
  <2>. SUFFICES ASSUME NEW f \in Editors, f # e
                PROVE  Progress(f)' /\ Occupied(f)'
    BY <1>1
  <2>1. /\ step'[f] = step[f] /\ at'[f] = at[f]
        /\ made'[f] = made[f] /\ edit'[f] = edit[f]
    BY <1>3
  <2>2. Change(f)' = Change(f)
    BY <2>1 DEF Change
  <2>3. Progress(f) /\ Occupied(f)
    BY DEF Editing
  <2>4. Progress(f)'
    BY <2>1, <2>3 DEF Progress
  <2>5. Occupied(f)'
    BY <2>1, <2>2, <2>3 DEF Occupied
  <2>. QED
    BY <2>4, <2>5
<1>6. \A f \in Editors : step'[f] # "idle" => at'[f] \in DOMAIN edit'[f]
  BY <1>5, EditsAssumption DEF Progress
<1>. QED
  BY <1>1, <1>2, <1>4, <1>5, <1>6 DEF Types, EditsTypeOK, ProgressTypes, DataTypes, Editing

LEMMA InitEditTypes == EditsInit => Types /\ Editing
<1>. SUFFICES ASSUME EditsInit
              PROVE  Types /\ Editing
  OBVIOUS
<1>1. disk \in [URIs -> Contents \cup {Missing}] /\ dirs \subseteq Dirs
  BY ConstantsAssumption DEF EditsInit
<1>2. TypeOK /\ ReadAll /\ earlier = <<>>
  BY <1>1, ConstantsAssumption
     DEF EditsInit, InitClients, TypeOK, ReadAll, RegimeType, ContextStates, WriterStates,
         Unopened
<1>. QED
  BY <1>1, <1>2 DEF EditsInit, Types, EditsTypeOK, Steps, Underway, Editing, Progress, Occupied

LEMMA TypesHold == EditsSpec => [](Types /\ Editing)
<1>1. Types /\ Editing /\ [EditsNext]_allVars => Types' /\ Editing'
  BY OthersTypes, EditTypes DEF EditsNext
<1>. QED
  BY <1>1, InitEditTypes, PTL DEF EditsSpec

(* Editors keep to their edits, one change after the other, and documents,    *)
(* files, directories and what contexts and writers keep have their types.    *)
THEOREM EditTypesCorrect == EditsSpec => []EditsTypeOK
  BY TypesHold, PTL DEF Types
-----------------------------------------------------------------------------
(* Counting                                                                   *)
Undisturbed == URIs \ disturbed

(* An edit that records a document anew or forgets it disturbs it.            *)
LEMMA EditTracks ==
    ASSUME Types, NEW e \in Editors, Progress(e), Occupied(e), EditStep(e),
           NEW u \in URIs, u \notin disturbed'
    PROVE  refs'[u] = refs[u] /\ (u \in Tracked' <=> u \in Tracked) /\ u \notin disturbed
<1>1. refs \in [URIs -> Nat] /\ states \in [URIs -> Documents \cup {NotOpen}]
  BY DEF Types, EditsTypeOK, TypeOK
<1>2. CASE BeginEdit(e) \/ ReadText(e) \/ ReadDone(e) \/ CheckCreate(e) \/ CheckRename(e)
           \/ CheckDelete(e) \/ EditFails(e)
  BY <1>2 DEF BeginEdit, ReadText, ReadDone, CheckCreate, CheckRename, CheckDelete,
              EditFails, Looks, vars, Tracked
<1>3. CASE WriteText(e) \/ WriteTextFails(e) \/ UnlinkTarget(e) \/ Move(e) \/ Unlink(e)
           \/ RemoveDir(e)
  BY <1>3 DEF WriteText, WriteTextFails, UnlinkTarget, Move, Unlink, RemoveDir, Disturb,
              Tracked
<1>4. CASE SyncText(e)
  <2>1. step[e] \in Underway /\ step[e] = "written"
    BY <1>4 DEF SyncText, Underway
  <2>2. Change(e).uri \in URIs /\ Change(e).text \in Contents
    BY <2>1, ChangeAt
  <2>3. Change(e).uri \in Tracked =>
          [content |-> Change(e).text, version |-> states[Change(e).uri].version + 1] # NotOpen
    BY <1>1, <2>2, ConstantsAssumption DEF Tracked, Documents
  <2>4. UNCHANGED <<refs, disturbed>> /\ UpdateContent(Change(e).uri, Change(e).text)
    BY <1>4 DEF SyncText
  <2>. QED
    BY <1>1, <2>2, <2>3, <2>4 DEF UpdateContent, Tracked
<1>5. CASE Follow(e)
  <2>1. step[e] \in Underway /\ step[e] = "moved"
    BY <1>5 DEF Follow, Underway
  <2>2. Change(e).uri \in URIs /\ Change(e).to \in URIs
    BY <2>1, ChangeAt
  <2>3. CASE Change(e).uri \in Tracked
    BY <1>1, <1>5, <2>2, <2>3 DEF Follow, MoveDocument, Tracked
  <2>4. CASE Change(e).uri \notin Tracked
    BY <1>5, <2>4 DEF Follow, Tracked
  <2>. QED
    BY <2>3, <2>4
<1>6. CASE Forget(e)
  BY <1>1, <1>6 DEF Forget, Unregister, Disturb, Tracked
<1>. QED
  BY <1>2, <1>3, <1>4, <1>5, <1>6 DEF EditStep

Balanced == \A u \in Undisturbed : Counted(u) /\ HeldTracked(u)

LEMMA BalancedKept ==
    ASSUME Types, Editing, Balanced, [EditsNext]_allVars
    PROVE  Balanced'
<1>1. CASE Others \/ UNCHANGED allVars
  <2>1. [Next]_vars /\ disturbed' = disturbed
    BY <1>1, OthersStep DEF allVars, vars, editVars
  <2>. QED
    BY <2>1, CountKept, HeldKept DEF Balanced, Undisturbed, Types, EditsTypeOK
<1>2. ASSUME NEW e \in Editors, EditStep(e), NEW u \in URIs, u \notin disturbed'
      PROVE  Counted(u)' /\ HeldTracked(u)'
  <2>1. /\ refs'[u] = refs[u] /\ (u \in Tracked' <=> u \in Tracked)
        /\ Counted(u) /\ HeldTracked(u)
    BY <1>2, EditTracks DEF Editing, Balanced, Undisturbed
  <2>2. UNCHANGED <<context, wants, texts>>
    BY <1>2, EditFrame
  <2>. QED
    BY <2>1, <2>2 DEF Counted, HeldTracked, Holders
<1>. QED
  BY <1>1, <1>2 DEF EditsNext, Balanced, Undisturbed

LEMMA InitBalanced == EditsInit => Balanced
<1>. SUFFICES ASSUME EditsInit, NEW u \in URIs
              PROVE  Counted(u) /\ HeldTracked(u)
  BY DEF Balanced, Undisturbed
<1>1. Holders(u) = {} /\ u \notin Tracked /\ refs[u] = 0
  BY DEF EditsInit, InitClients, Holders, Tracked
<1>2. HeldTracked(u)
  BY DEF EditsInit, InitClients, HeldTracked
<1>. QED
  BY <1>1, <1>2, FS_EmptySet DEF Counted

LEMMA BalancedHolds == EditsSpec => []Balanced
<1>1. Types /\ Editing /\ Balanced /\ [EditsNext]_allVars => Balanced'
  BY BalancedKept
<1>. QED
  BY <1>1, InitBalanced, TypesHold, PTL DEF EditsSpec

(* Edits that rename, delete and truncate documents confuse the references of *)
(* no other document, and no context that holds one loses it.                 *)
THEOREM EditsKeepCounts == EditsSpec => []CountsConfined
<1>1. Types /\ Balanced => CountsConfined
  BY DEF Types, EditsTypeOK, TypeOK, Balanced, Undisturbed, HeldTracked, CountsConfined
<1>. QED
  BY <1>1, BalancedHolds, TypesHold, PTL
-----------------------------------------------------------------------------
(* Editors alone                                                              *)

(* Without overlap nobody else is at a document that an editor is at.         *)
Apart ==
    ~ regime.overlap =>
        \A e \in Editors, u \in URIs : EditorAt(e, u) =>
            /\ \A c \in Contexts : ~ Opening(c, u)
            /\ \A w \in Writers : ~ Busy(w, u)
            /\ \A f \in Editors : EditorAt(f, u) => f = e

(* An editor comes to a document when it begins a change.                     *)
LEMMA EditorStays ==
    ASSUME Types, NEW e \in Editors, EditStep(e), step'[e] \in Underway
    PROVE  Change(e)' = Change(e) /\ (MayStart(e) \/ step[e] \in Underway)
<1>1. step \in [Editors -> Steps]
  BY DEF Types, EditsTypeOK
<1>2. CASE BeginEdit(e)
  BY <1>1, <1>2 DEF BeginEdit, GoTo, Underway
<1>3. ASSUME NextChange(e) PROVE at' = at
  BY <1>1, <1>3 DEF NextChange, Underway
<1>4. CASE ReadText(e) \/ ReadDone(e) \/ CheckCreate(e) \/ CheckRename(e) \/ CheckDelete(e)
           \/ EditFails(e)
  <2>1. edit' = edit /\ at' = at
    BY <1>3, <1>4 DEF ReadText, ReadDone, CheckCreate, CheckRename, CheckDelete, EditFails,
                      Looks, GoTo, Refuse, PassOver
  <2>. QED
    BY <1>4, <2>1 DEF Change, ReadText, ReadDone, CheckCreate, CheckRename, CheckDelete,
                      EditFails, Underway
<1>5. CASE WriteText(e) \/ WriteTextFails(e) \/ SyncText(e) \/ UnlinkTarget(e) \/ Move(e)
           \/ Follow(e) \/ Unlink(e) \/ Forget(e) \/ RemoveDir(e)
  <2>1. edit' = edit /\ at' = at
    BY <1>3, <1>5 DEF WriteText, WriteTextFails, SyncText, UnlinkTarget, Move, Follow, Unlink,
                      Forget, RemoveDir, GoTo, MadeGoTo, Refuse, Advance, PassOver
  <2>. QED
    BY <1>5, <2>1 DEF Change, WriteText, WriteTextFails, SyncText, UnlinkTarget, Move, Follow,
                      Unlink, Forget, RemoveDir, Underway
<1>. QED
  BY <1>2, <1>4, <1>5 DEF EditStep

LEMMA ApartKeptByOthers ==
    ASSUME Types, Apart, Others \/ UNCHANGED allVars
    PROVE  Apart'
<1>1. regime' = regime /\ TypeOK
  BY OthersStep, SameRegime DEF Types, EditsTypeOK, allVars, vars
<1>2. \A e \in Editors, u \in URIs : EditorAt(e, u)' <=> EditorAt(e, u)
  BY OthersStep DEF EditorAt, Change, editVars, allVars
<1>. SUFFICES ASSUME ~ regime.overlap, NEW e \in Editors, NEW u \in URIs, EditorAt(e, u)
              PROVE  /\ \A c \in Contexts : ~ Opening(c, u)'
                     /\ \A w \in Writers : ~ Busy(w, u)'
  BY <1>1, <1>2 DEF Apart
<1>3. HeldOff(u)
  BY DEF HeldOff, BeingEdited, EditorAt
<1>4. /\ \A c \in Contexts : ~ Opening(c, u)
      /\ \A w \in Writers : ~ Busy(w, u)
  BY DEF Apart
<1>5. ASSUME NEW d \in Contexts, NEW U \in SUBSET URIs, \A v \in U : ~ HeldOff(v), Enter(d, U)
      PROVE  /\ \A c \in Contexts : ~ Opening(c, u)'
             /\ \A w \in Writers : ~ Busy(w, u)'
  BY <1>1, <1>3, <1>4, <1>5 DEF TypeOK, Enter, Opening, Busy
<1>6. ASSUME NEW v \in Writers, ~ HeldOff(target[v]), BeginWrite(v)
      PROVE  /\ \A c \in Contexts : ~ Opening(c, u)'
             /\ \A w \in Writers : ~ Busy(w, u)'
  BY <1>1, <1>3, <1>4, <1>6 DEF TypeOK, BeginWrite, Opening, Busy
<1>7. CASE \/ \E c \in Contexts :
                 \/ \E v \in URIs : ReadFile(c, v)
                 \/ ReadFails(c) \/ Commit(c) \/ Announce(c) \/ AnnounceFails(c) \/ Exit(c)
           \/ \E w \in Writers : WriteDisk(w) \/ WriteFails(w) \/ SyncState(w)
           \/ UNCHANGED vars
  BY <1>1, <1>4, <1>7, NobodyNew
<1>. QED
  BY <1>5, <1>6, <1>7 DEF Others, allVars

LEMMA ApartKept ==
    ASSUME Types, Editing, Apart, [EditsNext]_allVars
    PROVE  Apart'
<1>1. ASSUME NEW e \in Editors, EditStep(e)
      PROVE  Apart'
  <2>1. /\ UNCHANGED <<regime, context, wants, writer, target>>
        /\ \A f \in Editors, u \in URIs : f # e => (EditorAt(f, u)' <=> EditorAt(f, u))
    BY <1>1, EditFrame DEF EditorAt, Change
  <2>2. ASSUME NEW u \in URIs, EditorAt(e, u)', ~ regime.overlap
        PROVE  EditorAt(e, u) \/ (Quiet(u) /\ ~ BeingEdited(u))
    BY <1>1, <2>2, EditorStays DEF EditorAt, MayStart, Free
  <2>3. ASSUME NEW u \in URIs, Quiet(u), ~ BeingEdited(u)
        PROVE  /\ \A c \in Contexts : ~ Opening(c, u)
               /\ \A w \in Writers : ~ Busy(w, u)
               /\ \A f \in Editors : ~ EditorAt(f, u)
    BY <2>3 DEF Quiet, BeingOpened, BeingWritten, BeingEdited, Opening, Busy, EditorAt
  <2>4. ASSUME NEW u \in URIs
        PROVE  /\ \A c \in Contexts : Opening(c, u)' <=> Opening(c, u)
               /\ \A w \in Writers : Busy(w, u)' <=> Busy(w, u)
    BY <2>1 DEF Opening, Busy
  <2>. QED
    BY <2>1, <2>2, <2>3, <2>4 DEF Apart
<1>. QED
  BY <1>1, ApartKeptByOthers DEF EditsNext

LEMMA InitApart == EditsInit => Apart
  BY DEF EditsInit, Apart, EditorAt, Underway

LEMMA ApartHolds == EditsSpec => []Apart
<1>1. Types /\ Editing /\ Apart /\ [EditsNext]_allVars => Apart'
  BY ApartKept
<1>. QED
  BY <1>1, InitApart, TypesHold, PTL DEF EditsSpec
(* An editor changes no document or file but those of the change it is at.    *)
LEMMA EditReaches ==
    ASSUME Types, NEW e \in Editors, Progress(e), Occupied(e), EditStep(e),
           NEW u \in URIs, ~ EditorAt(e, u)
    PROVE  disk'[u] = disk[u] /\ states'[u] = states[u] /\ server'[u] = server[u]
<1>1. /\ states \in [URIs -> Documents \cup {NotOpen}]
      /\ disk \in [URIs -> Contents \cup {Missing}]
      /\ server \in [URIs -> [opens : Nat, doc : Documents \cup {NotOpen}]]
  BY DEF Types, EditsTypeOK, TypeOK
<1>2. step[e] \in Underway => u \notin Touched(Change(e))
  BY DEF EditorAt
<1>3. CASE BeginEdit(e) \/ ReadText(e) \/ ReadDone(e) \/ CheckCreate(e) \/ CheckRename(e)
           \/ CheckDelete(e) \/ EditFails(e)
  BY <1>3 DEF BeginEdit, ReadText, ReadDone, CheckCreate, CheckRename, CheckDelete,
              EditFails, Looks, vars
<1>4. CASE WriteText(e) \/ WriteTextFails(e)
  <2>1. step[e] \in Underway /\ step[e] = "writing"
    BY <1>4 DEF WriteText, WriteTextFails, Underway
  <2>2. u # Change(e).uri
    BY <1>2, <2>1, ChangeAt
  <2>. QED
    BY <1>1, <1>4, <2>2 DEF WriteText, WriteTextFails
<1>5. CASE SyncText(e)
  <2>1. step[e] \in Underway /\ step[e] = "written"
    BY <1>5 DEF SyncText, Underway
  <2>2. u # Change(e).uri
    BY <1>2, <2>1, ChangeAt
  <2>. QED
    BY <1>1, <1>5, <2>2 DEF SyncText, UpdateContent
<1>6. CASE UnlinkTarget(e) \/ Move(e) \/ Follow(e)
  <2>1. step[e] \in Underway /\ step[e] \in {"unlinking", "moving", "moved"}
    BY <1>6 DEF UnlinkTarget, Move, Follow, Underway
  <2>2. u # Change(e).uri /\ u # Change(e).to
    BY <1>2, <2>1, ChangeAt
  <2>. QED
    BY <1>1, <1>6, <2>2 DEF UnlinkTarget, Move, Follow, MoveDocument
<1>7. CASE Unlink(e) \/ Forget(e)
  <2>1. step[e] \in Underway /\ step[e] \in {"deleting", "deleted"}
    BY <1>7 DEF Unlink, Forget, Underway
  <2>2. u # Change(e).uri
    BY <1>2, <2>1, ChangeAt
  <2>. QED
    BY <1>1, <1>7, <2>2 DEF Unlink, Forget, Unregister
<1>8. CASE RemoveDir(e)
  <2>1. step[e] \in Underway /\ step[e] = "removing"
    BY <1>8 DEF RemoveDir, Underway
  <2>2. u \notin Inside[Change(e).dir]
    BY <1>2, <2>1, ChangeAt
  <2>. QED
    BY <1>1, <1>8, <2>2 DEF RemoveDir
<1>. QED
  BY <1>3, <1>4, <1>5, <1>6, <1>7, <1>8 DEF EditStep

(* ... so that what holds of contexts and writers alone holds beside editors. *)
LEMMA AccessKeptByEdits ==
    ASSUME Types, Editing, Apart, Access, [EditsNext]_allVars
    PROVE  Access'
<1>1. CASE Others \/ UNCHANGED allVars
  <2>1. [Next]_vars
    BY <1>1, OthersStep DEF allVars
  <2>. QED
    BY <2>1, AccessKept DEF Types, EditsTypeOK
<1>2. ASSUME NEW e \in Editors, EditStep(e)
      PROVE  Access'
  <2>1. UNCHANGED <<regime, context, wants, texts, writer, target>> /\ TypeOK
    BY <1>2, EditFrame DEF Types, EditsTypeOK
  <2>2. ASSUME NEW u \in URIs, ~ regime.overlap,
               \/ \E c \in Contexts : Opening(c, u)
               \/ \E w \in Writers : Busy(w, u)
        PROVE  disk'[u] = disk[u] /\ states'[u] = states[u]
    BY <1>2, <2>2, EditReaches DEF Editing, Apart
  <2>3. OneAtATime'
    BY <2>1 DEF Access, OneAtATime, Opening, Busy
  <2>4. ReadersCurrent'
    <3>. SUFFICES ASSUME ~ regime.overlap, NEW c \in Contexts, context[c] = "reading",
                         NEW u \in DOMAIN texts[c]
                  PROVE  (u \notin Tracked)' /\ (texts[c][u] # Unread => texts[c][u] = disk'[u])
      BY <2>1 DEF ReadersCurrent
    <3>1. u \notin Tracked /\ (texts[c][u] # Unread => texts[c][u] = disk[u])
      BY DEF Access, ReadersCurrent
    <3>2. u \in URIs /\ Opening(c, u)
      BY <2>1, SomebodyAt
    <3>. QED
      BY <2>2, <3>1, <3>2 DEF Tracked
  <2>5. WritersCurrent'
    <3>. SUFFICES ASSUME ~ regime.overlap, NEW w \in Writers, writer[w] = "written"
                  PROVE  disk'[target[w]] = w
      BY <2>1 DEF WritersCurrent
    <3>1. disk[target[w]] = w
      BY DEF Access, WritersCurrent
    <3>2. target[w] \in URIs /\ Busy(w, target[w])
      BY <2>1, SomebodyAt
    <3>. QED
      BY <2>2, <3>1, <3>2
  <2>. QED
    BY <2>3, <2>4, <2>5 DEF Access
<1>. QED
  BY <1>1, <1>2 DEF EditsNext

LEMMA InitAccess == EditsInit => Access
  BY DEF EditsInit, InitClients, Access, OneAtATime, Opening, Busy, ReadersCurrent,
         WritersCurrent

LEMMA AccessHolds == EditsSpec => []Access
<1>1. Types /\ Editing /\ Apart /\ Access /\ [EditsNext]_allVars => Access'
  BY AccessKeptByEdits
<1>. QED
  BY <1>1, InitAccess, TypesHold, ApartHolds, PTL DEF EditsSpec

(* Nobody else changes the file of a document that an editor is at, nor its   *)
(* text, though a context may close it.                                       *)
LEMMA OthersLeave ==
    ASSUME Types, Apart, ~ regime.overlap, NEW e \in Editors, NEW u \in URIs,
           EditorAt(e, u), Others \/ UNCHANGED allVars
    PROVE  disk'[u] = disk[u] /\ (u \in Tracked' => u \in Tracked /\ states'[u] = states[u])
<1>1. TypeOK
  BY DEF Types, EditsTypeOK
<1>2. /\ \A c \in Contexts : ~ Opening(c, u)
      /\ \A w \in Writers : ~ Busy(w, u)
  BY DEF Apart
<1>3. ASSUME NEW c \in Contexts,
             \/ \E U \in SUBSET URIs : Enter(c, U)
             \/ \E v \in URIs : ReadFile(c, v)
             \/ ReadFails(c) \/ Announce(c) \/ AnnounceFails(c)
      PROVE  disk' = disk /\ states' = states
  BY <1>3 DEF Enter, ReadFile, ReadFails, Announce, AnnounceFails
<1>4. ASSUME NEW c \in Contexts, Commit(c)
      PROVE  disk' = disk /\ states'[u] = states[u]
  <2>1. u \notin DOMAIN texts[c]
    BY <1>1, <1>2, <1>4, SomebodyAt DEF Commit
  <2>. QED
    BY <1>1, <1>4, <2>1, CommitTracks DEF Commit
<1>5. ASSUME NEW c \in Contexts, Exit(c)
      PROVE  disk' = disk /\ (u \in Tracked' => u \in Tracked /\ states'[u] = states[u])
  BY <1>5 DEF Exit, Close, Tracked
<1>6. ASSUME NEW w \in Writers, BeginWrite(w)
      PROVE  disk' = disk /\ states' = states
  BY <1>6 DEF BeginWrite
<1>7. ASSUME NEW w \in Writers, WriteDisk(w) \/ WriteFails(w) \/ SyncState(w)
      PROVE  disk'[u] = disk[u] /\ states'[u] = states[u]
  <2>1. u # target[w]
    BY <1>1, <1>2, <1>7, SomebodyAt DEF WriteDisk, WriteFails, SyncState
  <2>. QED
    BY <1>1, <1>7, <2>1 DEF TypeOK, WriteDisk, WriteFails, SyncState, UpdateContent
<1>8. CASE UNCHANGED allVars
  BY <1>8 DEF allVars, vars, Tracked
<1>. QED
  BY <1>3, <1>4, <1>5, <1>6, <1>7, <1>8 DEF Others, Tracked
-----------------------------------------------------------------------------
(* Changes under way                                                          *)

(* What an editor has seen of its documents when it began a change is still   *)
(* so when it makes the change, and what it has written is in the file.       *)
Versioned(change) == change.op = "text" /\ change.version # Unversioned

Due(e) ==
    LET change == Change(e) IN
    /\ step[e] = "reading" => ~ Versioned(change)
    /\ ~ regime.overlap =>
          /\ step[e] = "writing" /\ change.op = "create" /\ Exists(change.uri) =>
                change.option = "overwrite"
          /\ step[e] = "unlinking" => Exists(change.uri)
          /\ step[e] = "moving" => ~ Exists(change.to)
          /\ step[e] = "written" => disk[change.uri] = change.text
          /\ /\ step[e] \in {"writing", "written"} /\ Versioned(change)
             /\ change.uri \in Tracked
             => states[change.uri].version = change.version

LEMMA LeftAlone ==
    ASSUME Types, Editing, Apart, ~ regime.overlap, NEW e \in Editors,
           NEW u \in URIs, EditorAt(e, u),
           \/ Others \/ UNCHANGED allVars
           \/ \E f \in Editors : f # e /\ EditStep(f)
    PROVE  disk'[u] = disk[u] /\ (u \in Tracked' => u \in Tracked /\ states'[u] = states[u])
<1>1. ASSUME NEW f \in Editors, f # e, EditStep(f)
      PROVE  disk'[u] = disk[u] /\ states'[u] = states[u]
  BY <1>1, EditReaches DEF Editing, Apart
<1>. QED
  BY <1>1, OthersLeave DEF Tracked

LEMMA DueKeptByOthers ==
    ASSUME Types, Editing, Apart, NEW e \in Editors, Due(e),
           \/ Others \/ UNCHANGED allVars
           \/ \E f \in Editors : f # e /\ EditStep(f)
    PROVE  Due(e)'
<1>1. /\ regime' = regime /\ step'[e] = step[e] /\ Change(e)' = Change(e)
  <2>1. CASE Others \/ UNCHANGED allVars
    BY <2>1, OthersStep, SameRegime DEF editVars, allVars, vars, Change
  <2>2. ASSUME NEW f \in Editors, f # e, EditStep(f)
        PROVE  regime' = regime /\ step'[e] = step[e] /\ Change(e)' = Change(e)
    BY <2>2, EditFrame DEF Change
  <2>. QED
    BY <2>1, <2>2
<1>. DEFINE change == Change(e)
<1>2. ASSUME step[e] \in {"writing", "written", "unlinking", "moving"}
      PROVE  change.uri \in URIs /\ EditorAt(e, change.uri)
  BY <1>2, ChangeAt DEF EditorAt, Editing, Underway
<1>3. ASSUME step[e] = "moving"
      PROVE  change.to \in URIs /\ EditorAt(e, change.to)
  BY <1>3, ChangeAt DEF EditorAt, Editing, Underway
<1>4. ASSUME ~ regime.overlap, step[e] \in {"writing", "written", "unlinking", "moving"}
      PROVE  /\ disk'[change.uri] = disk[change.uri]
             /\ change.uri \in Tracked' =>
                   change.uri \in Tracked /\ states'[change.uri] = states[change.uri]
  BY <1>2, <1>4, LeftAlone
<1>5. ASSUME ~ regime.overlap, step[e] = "moving"
      PROVE  disk'[change.to] = disk[change.to]
  BY <1>3, <1>5, LeftAlone
<1>. QED
  BY <1>1, <1>4, <1>5 DEF Due, Exists

(* A change goes on only as the look at the files allows.                     *)
LEMMA DueLooks ==
    ASSUME Types, NEW e \in Editors, Progress(e), Occupied(e), Due(e),
           \/ ReadText(e) \/ ReadDone(e) \/ CheckCreate(e) \/ CheckRename(e)
    PROVE  Due(e)'
<1>1. /\ UNCHANGED <<regime, disk, states, edit>> /\ Tracked' = Tracked
      /\ step \in [Editors -> Steps]
  BY DEF Types, EditsTypeOK, ReadText, ReadDone, CheckCreate, CheckRename, Looks, vars, Tracked
<1>2. ASSUME step'[e] \notin {"reading", "writing", "written", "unlinking", "moving"}
      PROVE  Due(e)'
  BY <1>2 DEF Due
<1>3. ASSUME at' = at PROVE Change(e)' = Change(e)
  BY <1>1, <1>3 DEF Change
<1>4. ASSUME PassOver(e) \/ Refuse(e)
      PROVE  Due(e)'
  BY <1>1, <1>2, <1>4 DEF PassOver, NextChange, Refuse, GoTo
<1>5. CASE ReadText(e)
  <2>1. CASE VersionAccepted(Change(e))
    <3>1. /\ Change(e)' = Change(e) /\ Change(e).op = "text"
          /\ step'[e] = IF Change(e).uri \in Tracked THEN "writing" ELSE "reading"
      BY <1>1, <1>3, <1>5, <2>1 DEF ReadText, GoTo
    <3>. QED
      BY <1>1, <2>1, <3>1 DEF Due, Versioned, VersionAccepted
  <2>. QED
    BY <1>4, <1>5, <2>1 DEF ReadText
<1>6. CASE ReadDone(e)
  <2>1. CASE GoTo(e, "writing")
    <3>1. /\ Change(e)' = Change(e) /\ step'[e] = "writing"
          /\ Change(e).op = "text" /\ ~ Versioned(Change(e))
      BY <1>1, <1>3, <1>6, <2>1 DEF ReadDone, GoTo, Occupied, Due
    <3>. QED
      BY <3>1 DEF Due
  <2>. QED
    BY <1>4, <1>6, <2>1 DEF ReadDone
<1>7. CASE CheckCreate(e)
  <2>1. Change(e) \in Changes /\ Change(e).op = "create"
    BY <1>7, ChangeTyped DEF CheckCreate, MayStart
  <2>2. Change(e).option \in Options
    BY <2>1 DEF Changes
  <2>3. ASSUME GoTo(e, "writing"), Exists(Change(e).uri) => Change(e).option = "overwrite"
        PROVE  Due(e)'
    <3>1. Change(e)' = Change(e) /\ step'[e] = "writing"
      BY <1>1, <1>3, <2>3 DEF GoTo
    <3>. QED
      BY <1>1, <2>1, <2>3, <3>1 DEF Due, Versioned, Exists
  <2>. QED
    BY <1>4, <1>7, <2>2, <2>3 DEF CheckCreate, Options
<1>8. CASE CheckRename(e)
  <2>1. ASSUME NEW s \in {"unlinking", "moving"}, GoTo(e, s),
               s = "unlinking" => Exists(Change(e).uri),
               s = "moving" => ~ Exists(Change(e).to)
        PROVE  Due(e)'
    <3>1. Change(e)' = Change(e) /\ step'[e] = s
      BY <1>1, <1>3, <2>1 DEF GoTo
    <3>. QED
      BY <1>1, <2>1, <3>1 DEF Due, Exists
  <2>. QED
    BY <1>4, <1>8, <2>1 DEF CheckRename
<1>. QED
  BY <1>5, <1>6, <1>7, <1>8

LEMMA DueSteps ==
    ASSUME Types, NEW e \in Editors, Progress(e), Occupied(e), Due(e), EditStep(e)
    PROVE  Due(e)'
<1>1. /\ step \in [Editors -> Steps] /\ disk \in [URIs -> Contents \cup {Missing}]
      /\ regime' = regime
  BY EditFrame DEF Types, EditsTypeOK, TypeOK
<1>2. ASSUME step'[e] \notin {"reading", "writing", "written", "unlinking", "moving"}
      PROVE  Due(e)'
  BY <1>2 DEF Due
<1>3. CASE BeginEdit(e) \/ CheckDelete(e) \/ EditFails(e) \/ WriteTextFails(e) \/ SyncText(e)
           \/ Move(e) \/ Follow(e) \/ Unlink(e) \/ Forget(e) \/ RemoveDir(e)
  BY <1>1, <1>2, <1>3
     DEF BeginEdit, CheckDelete, EditFails, WriteTextFails, SyncText, Move, Follow, Unlink,
         Forget, RemoveDir, GoTo, MadeGoTo, Refuse, Advance, PassOver, NextChange
<1>4. CASE WriteText(e)
  <2>1. step[e] = "writing" /\ step'[e] = "written" /\ Change(e)' = Change(e)
    BY <1>1, <1>4 DEF WriteText, MadeGoTo, Change
  <2>2. Change(e).uri \in URIs
    BY <2>1, ChangeAt DEF Underway
  <2>3. disk'[Change(e).uri] = Change(e).text /\ states' = states
    BY <1>1, <1>4, <2>2 DEF WriteText
  <2>. QED
    BY <1>1, <2>1, <2>3 DEF Due, Tracked
<1>5. CASE UnlinkTarget(e)
  <2>1. CASE GoTo(e, "moving")
    <3>1. step[e] = "unlinking" /\ step'[e] = "moving" /\ Change(e)' = Change(e)
      BY <1>1, <1>5, <2>1 DEF UnlinkTarget, GoTo, Change
    <3>2. Change(e).to \in URIs
      BY <3>1, ChangeAt DEF Underway
    <3>3. disk'[Change(e).to] = Missing
      BY <1>1, <1>5, <3>2 DEF UnlinkTarget
    <3>. QED
      BY <3>1, <3>3 DEF Due, Exists
  <2>. QED
    BY <1>1, <1>2, <1>5, <2>1 DEF UnlinkTarget, Refuse, GoTo
<1>. QED
  BY <1>3, <1>4, <1>5, DueLooks DEF EditStep

AllDue == \A e \in Editors : Due(e)

LEMMA AllDueHold == EditsSpec => []AllDue
<1>1. EditsInit => AllDue
  BY DEF EditsInit, AllDue, Due
<1>2. Types /\ Editing /\ Apart /\ AllDue /\ [EditsNext]_allVars => AllDue'
  BY DueKeptByOthers, DueSteps DEF EditsNext, AllDue, Editing
<1>. QED
  BY <1>1, <1>2, TypesHold, ApartHolds, PTL DEF EditsSpec

(* A text change made for a version of a document replaces that version, as   *)
(* long as callers do not overlap: no other text is lost to it.               *)
THEOREM VersionedEditsKeepTexts == EditsSpec => VersionedEditsLand
<1>1. AllDue => (~ regime.overlap =>
          \A e \in Editors :
              Replaces(e) => states[Change(e).uri].version = Change(e).version)
  BY DEF AllDue, Due, Replaces, Versioned
<1>. QED
  BY <1>1, AllDueHold, PTL DEF VersionedEditsLand
-----------------------------------------------------------------------------
(* Server, client and file                                                    *)
EditAhead(u) == \E e \in Editors : step[e] = "written" /\ Change(e).uri = u

(* Between the write of an editor, too, and the update of the document.       *)
FileInStep(u) ==
    ~ regime.overlap /\ u \in Tracked /\ ~ Ahead(u) /\ ~ EditAhead(u) => FileKept(u)

Harmonious == \A u \in Undisturbed : Agreed(u) /\ FileInStep(u)

LEMMA HarmoniousKeptByOthers ==
    ASSUME Types, Balanced, Access, Harmonious, Others \/ UNCHANGED allVars
    PROVE  Harmonious'
<1>1. [Next]_vars /\ disturbed' = disturbed /\ regime' = regime /\ TypeOK
  BY OthersStep, SameRegime DEF allVars, editVars, vars, Types, EditsTypeOK
<1>2. \A u \in URIs : EditAhead(u)' <=> EditAhead(u)
  BY OthersStep DEF EditAhead, Change, editVars, allVars
<1>3. ASSUME NEW u \in Undisturbed
      PROVE  Agreed(u)' /\ FileInStep(u)'
  <2>1. Agreed(u)'
    BY <1>1, <1>3, StaysAgreed DEF Undisturbed, Balanced, Harmonious
  <2>2. CASE EditAhead(u)
    BY <1>2, <2>1, <2>2 DEF FileInStep, Undisturbed
  <2>3. CASE ~ EditAhead(u)
    <3>1. FileCurrent(u)
      BY <2>3 DEF Harmonious, FileInStep, FileCurrent
    <3>2. FileCurrent(u)'
      BY <1>1, <1>3, <3>1, FileStaysCurrent DEF Undisturbed
    <3>. QED
      BY <2>1, <3>2 DEF FileInStep, FileCurrent
  <2>. QED
    BY <2>2, <2>3
<1>. QED
  BY <1>1, <1>3 DEF Harmonious, Undisturbed

(* An undisturbed document an edit has not written or updated stays as it is, *)
(* and its file with it if it is tracked.                                     *)
LEMMA EditSpares ==
    ASSUME Types, NEW e \in Editors, Progress(e), Occupied(e), EditStep(e), ~ SyncText(e),
           NEW u \in URIs, u \notin disturbed'
    PROVE  /\ states'[u] = states[u] /\ server' = server
           /\ u \in Tracked /\ ~ WriteText(e) => disk'[u] = disk[u]
<1>1. /\ states \in [URIs -> Documents \cup {NotOpen}]
      /\ disk \in [URIs -> Contents \cup {Missing}]
  BY DEF Types, EditsTypeOK, TypeOK
<1>2. CASE BeginEdit(e) \/ ReadText(e) \/ ReadDone(e) \/ CheckCreate(e) \/ CheckRename(e)
           \/ CheckDelete(e) \/ EditFails(e)
  BY <1>2 DEF BeginEdit, ReadText, ReadDone, CheckCreate, CheckRename, CheckDelete,
              EditFails, Looks, vars
<1>3. CASE WriteText(e)
  BY <1>3 DEF WriteText
<1>4. CASE WriteTextFails(e)
  BY <1>1, <1>4 DEF WriteTextFails, Disturb
<1>5. CASE UnlinkTarget(e)
  BY <1>1, <1>5 DEF UnlinkTarget, Disturb, Exists
<1>6. CASE Move(e)
  BY <1>1, <1>6 DEF Move, Disturb
<1>7. CASE Follow(e)
  <2>1. CASE Change(e).uri \in Tracked
    BY <1>1, <1>7, <2>1 DEF Follow, MoveDocument
  <2>2. CASE Change(e).uri \notin Tracked
    BY <1>7, <2>2 DEF Follow
  <2>. QED
    BY <2>1, <2>2
<1>8. CASE Unlink(e)
  BY <1>1, <1>8 DEF Unlink, Disturb, Exists
<1>9. CASE Forget(e)
  BY <1>1, <1>9 DEF Forget, Unregister, Disturb, Tracked
<1>10. CASE RemoveDir(e)
  BY <1>1, <1>10 DEF RemoveDir, Disturb
<1>. QED
  BY <1>2, <1>3, <1>4, <1>5, <1>6, <1>7, <1>8, <1>9, <1>10 DEF EditStep

LEMMA HarmoniousKeptByEdits ==
    ASSUME Types, Editing, Harmonious, NEW e \in Editors, EditStep(e), ~ SyncText(e)
    PROVE  Harmonious'
<1>. SUFFICES ASSUME NEW u \in URIs, u \notin disturbed'
              PROVE  Agreed(u)' /\ FileInStep(u)'
  BY DEF Harmonious, Undisturbed
<1>1. /\ states'[u] = states[u] /\ server' = server
      /\ u \in Tracked /\ ~ WriteText(e) => disk'[u] = disk[u]
  BY EditSpares DEF Editing
<1>2. u \notin disturbed
  BY EditTracks DEF Editing
<1>3. UNCHANGED <<regime, earlier, context, wants, texts, writer, target>>
  BY EditFrame
<1>4. Agreed(u) /\ FileInStep(u)
  BY <1>2 DEF Harmonious, Undisturbed
<1>5. Agreed(u)'
  <2>1. /\ InStep(u)' <=> InStep(u)
        /\ \A c \in Contexts : /\ Announcing(c, u)' <=> Announcing(c, u)
                               /\ Fresh(c, u)' <=> Fresh(c, u)
    BY <1>1, <1>3, SameStale DEF InStep, Tracked, Announcing, Fresh
  <2>. QED
    BY <1>3, <1>4, <2>1, SameStale DEF Agreed
<1>6. CASE WriteText(e) /\ u = Change(e).uri
  <2>1. step'[e] = "written" /\ Change(e)' = Change(e)
    BY <1>6 DEF Types, EditsTypeOK, WriteText, MadeGoTo, Change
  <2>2. EditAhead(u)'
    BY <1>6, <2>1 DEF EditAhead
  <2>. QED
    BY <1>5, <2>2 DEF FileInStep
<1>7. CASE ~ (WriteText(e) /\ u = Change(e).uri)
  <2>1. u \in Tracked => disk'[u] = disk[u]
    BY <1>1, <1>7 DEF Types, EditsTypeOK, TypeOK, WriteText
  <2>2. ~ EditAhead(u)' => ~ EditAhead(u)
    <3>1. step[e] # "written" \/ Change(e).uri # u \/ EditAhead(u)'
      <4>. SUFFICES ASSUME step[e] = "written", Change(e).uri = u
                    PROVE  EditAhead(u)'
        OBVIOUS
      <4>1. FALSE
        BY DEF EditStep, BeginEdit, ReadText, ReadDone, CheckCreate, WriteText,
               WriteTextFails, CheckRename, UnlinkTarget, Move, Follow, CheckDelete, Unlink,
               Forget, RemoveDir, EditFails, MayStart
      <4>. QED
        BY <4>1
    <3>. QED
      BY <3>1, EditFrame DEF EditAhead, Change
  <2>3. (u \in Tracked' <=> u \in Tracked) /\ (Ahead(u)' <=> Ahead(u))
    BY <1>1, <1>3 DEF Tracked, Ahead
  <2>. QED
    BY <1>1, <1>3, <1>4, <1>5, <2>1, <2>2, <2>3 DEF FileInStep, FileKept
<1>. QED
  BY <1>6, <1>7

(* The update of a document by an edit meets the server's copy.               *)
LEMMA HarmoniousKeptBySync ==
    ASSUME Types, Editing, Apart, AllDue, Harmonious, NEW e \in Editors, SyncText(e)
    PROVE  Harmonious'
<1>1. EditStep(e) /\ step[e] = "written" /\ disturbed' = disturbed
  BY DEF EditStep, SyncText
<1>2. /\ UNCHANGED <<regime, earlier, context, wants, texts, writer, target, disk>>
      /\ \A f \in Editors : f # e => step'[f] = step[f] /\ Change(f)' = Change(f)
  BY <1>1, EditFrame DEF SyncText, Change
<1>. DEFINE v == Change(e).uri
<1>3. v \in URIs /\ EditorAt(e, v) /\ Change(e).text \in Contents
  BY <1>1, ChangeAt DEF Editing, EditorAt, Underway
<1>4. /\ states \in [URIs -> Documents \cup {NotOpen}]
      /\ server \in [URIs -> [opens : Nat, doc : Documents \cup {NotOpen}]]
  BY DEF Types, EditsTypeOK, TypeOK
<1>. SUFFICES ASSUME NEW u \in URIs, u \notin disturbed
              PROVE  Agreed(u)' /\ FileInStep(u)'
  BY <1>1 DEF Harmonious, Undisturbed
<1>5. Agreed(u) /\ FileInStep(u)
  BY DEF Harmonious, Undisturbed
<1>6. \A c \in Contexts : Announcing(c, u)' <=> Announcing(c, u)
  BY <1>2 DEF Announcing
<1>7. u \in Tracked' <=> u \in Tracked
  BY <1>1, EditTracks DEF Editing
<1>8. CASE u # v
  <2>1. states'[u] = states[u] /\ server'[u] = server[u]
    BY <1>3, <1>4, <1>8 DEF SyncText, UpdateContent
  <2>2. /\ InStep(u)' <=> InStep(u)
        /\ \A c \in Contexts : Fresh(c, u)' <=> Fresh(c, u)
    BY <1>2, <2>1, SameStale DEF InStep, Tracked, Fresh
  <2>3. Agreed(u)'
    BY <1>2, <1>5, <1>6, <2>2, SameStale DEF Agreed
  <2>4. ~ EditAhead(u)' => ~ EditAhead(u)
    BY <1>2, <1>8 DEF EditAhead
  <2>. QED
    BY <1>2, <1>5, <1>7, <2>1, <2>3, <2>4 DEF FileInStep, FileKept, Ahead
<1>9. CASE u = v
  <2>1. ~ regime.overlap => \A c \in Contexts : ~ Announcing(c, u)
    BY <1>3, <1>9, AnnouncingOpens DEF Apart, Types, EditsTypeOK
  <2>2. ~ regime.overlap => disk[u] = Change(e).text
    BY <1>1, <1>9 DEF AllDue, Due
  <2>3. u \in Tracked => states'[u] = [content |-> Change(e).text,
                                       version |-> states[u].version + 1]
    BY <1>3, <1>4, <1>9 DEF SyncText, UpdateContent
  <2>4. FileInStep(u)'
    BY <1>2, <1>7, <2>2, <2>3 DEF FileInStep, FileKept
  <2>5. ASSUME Orderly, u \notin Stale, InStep(u)
        PROVE  InStep(u)'
    <3>1. server' = IF u \in Tracked THEN [server EXCEPT ![u].doc = states'[u]] ELSE server
      BY <1>9, <2>5 DEF SyncText, Orderly
    <3>2. CASE u \in Tracked
      <4>1. server[u] = [opens |-> 1, doc |-> states[u]]
        BY <2>5, <3>2 DEF InStep
      <4>2. server' = [server EXCEPT ![u] = [server[u] EXCEPT !.doc = states'[u]]]
        BY <3>1, <3>2
      <4>3. [server[u] EXCEPT !.doc = states'[u]] = [opens |-> 1, doc |-> states'[u]]
        BY <4>1
      <4>4. server'[u] = [opens |-> 1, doc |-> states'[u]]
        BY <1>4, <4>2, <4>3
      <4>. QED
        BY <1>7, <3>2, <4>4 DEF InStep
    <3>3. CASE u \notin Tracked
      <4>1. server'[u] = server[u]
        BY <3>1, <3>3
      <4>. QED
        BY <1>7, <2>5, <3>3, <4>1 DEF InStep
    <3>. QED
      BY <3>2, <3>3
  <2>6. Agreed(u)'
    <3>1. Orderly' = Orderly /\ Stale' = Stale
      BY <1>2, SameStale
    <3>2. Orderly => ~ regime.overlap
      BY DEF Orderly
    <3>. QED
      BY <1>5, <1>6, <2>1, <2>5, <3>1, <3>2 DEF Agreed
  <2>. QED
    BY <2>4, <2>6
<1>. QED
  BY <1>8, <1>9

LEMMA HarmoniousHolds == EditsSpec => []Harmonious
<1>1. EditsInit => Harmonious
  <2>. SUFFICES ASSUME EditsInit, NEW u \in URIs
                PROVE  Agreed(u) /\ FileInStep(u)
    BY DEF Harmonious, Undisturbed
  <2>1. u \notin Tracked /\ server[u] = Unopened /\ \A c \in Contexts : context[c] = "out"
    BY DEF EditsInit, InitClients, Tracked
  <2>. QED
    BY <2>1 DEF Agreed, Announcing, InStep, FileInStep
<1>2. /\ Types /\ Editing /\ Balanced /\ Apart /\ Access /\ AllDue /\ Harmonious
      /\ [EditsNext]_allVars
      => Harmonious'
  <2>. SUFFICES ASSUME Types, Editing, Balanced, Apart, Access, AllDue, Harmonious,
                       [EditsNext]_allVars
                PROVE  Harmonious'
    OBVIOUS
  <2>1. CASE Others \/ UNCHANGED allVars
    BY <2>1, HarmoniousKeptByOthers
  <2>2. ASSUME NEW e \in Editors, EditStep(e)
        PROVE  Harmonious'
    BY <2>2, HarmoniousKeptByEdits, HarmoniousKeptBySync
  <2>. QED
    BY <2>1, <2>2 DEF EditsNext
<1>. QED
  BY <1>1, <1>2, TypesHold, BalancedHolds, ApartHolds, AccessHolds, AllDueHold, PTL
     DEF EditsSpec

(* Server, client and file agree on every document that no edit disturbed and *)
(* nobody opens, writes or edits, whatever edits are applied beside.          *)
THEOREM EditsKeepInStep == EditsSpec => []InStepConfined
<1>1. Types /\ Editing /\ Harmonious => InStepConfined
  <2>. SUFFICES ASSUME Types, Editing, Harmonious, Orderly, NEW u \in URIs \ disturbed, Quiet(u),
                       ~ BeingEdited(u)
                PROVE  InStep(u) /\ (u \in Tracked => FileKept(u))
    BY DEF InStepConfined
  <2>1. Agreed(u) /\ FileInStep(u) /\ ~ regime.overlap
    BY DEF Harmonious, Undisturbed, Orderly
  <2>2. Stale = {}
    BY DEF Types, Stale
  <2>3. \A c \in Contexts : ~ Announcing(c, u)
    BY AnnouncingOpens DEF Quiet, BeingOpened, Opening, Types, EditsTypeOK
  <2>4. ~ Ahead(u)
    BY DEF Ahead, Quiet, BeingWritten
  <2>5. ~ EditAhead(u)
    BY ChangeAt DEF EditAhead, BeingEdited, Editing, Underway
  <2>. QED
    BY <2>1, <2>2, <2>3, <2>4, <2>5 DEF Agreed, FileInStep
<1>. QED
  BY <1>1, HarmoniousHolds, TypesHold, PTL
-----------------------------------------------------------------------------
(* Promises                                                                   *)

(* No file is where there is no directory.                                    *)
Rooted == \A u \in URIs : Exists(u) => Reachable(u)

LEMMA RootedKept ==
    ASSUME Types, Editing, Rooted, [EditsNext]_allVars
    PROVE  Rooted'
<1>. SUFFICES ASSUME NEW u \in URIs, Exists(u)'
              PROVE  Reachable(u)'
  BY DEF Rooted
<1>1. /\ disk \in [URIs -> Contents \cup {Missing}] /\ target \in [Writers -> URIs]
      /\ Exists(u) => Reachable(u)
  BY DEF Types, EditsTypeOK, TypeOK, Rooted
<1>2. ASSUME disk'[u] = disk[u] \/ Reachable(u), dirs \subseteq dirs'
      PROVE  Reachable(u)'
  BY <1>1, <1>2 DEF Exists, Reachable, Parents
<1>3. CASE Others \/ UNCHANGED allVars
  <2>1. dirs' = dirs
    BY <1>3, OthersStep DEF allVars, editVars
  <2>2. disk'[u] = disk[u] \/ Reachable(u)
    BY <1>1, <1>3
       DEF allVars, vars, Others, Enter, ReadFile, ReadFails, Commit, Announce, AnnounceFails,
           Exit, BeginWrite, WriteDisk, WriteFails, SyncState
  <2>. QED
    BY <1>2, <2>1, <2>2
<1>4. ASSUME NEW e \in Editors, EditStep(e), ~ RemoveDir(e), ~ Move(e)
      PROVE  Reachable(u)'
  <2>1. dirs \subseteq dirs'
    BY <1>4 DEF EditStep, BeginEdit, ReadText, ReadDone, CheckCreate, WriteText,
                WriteTextFails, SyncText, CheckRename, UnlinkTarget, Follow, CheckDelete,
                Unlink, Forget, EditFails
  <2>2. disk'[u] = disk[u] \/ Reachable(u)
    <3>1. CASE WriteText(e) \/ WriteTextFails(e)
      BY <1>1, <3>1 DEF WriteText, WriteTextFails
    <3>2. CASE UnlinkTarget(e) \/ Unlink(e)
      BY <1>1, <3>2 DEF UnlinkTarget, Unlink, Exists
    <3>3. CASE \/ BeginEdit(e) \/ ReadText(e) \/ ReadDone(e) \/ CheckCreate(e) \/ SyncText(e)
               \/ CheckRename(e) \/ Follow(e) \/ CheckDelete(e) \/ Forget(e) \/ EditFails(e)
      BY <3>3 DEF BeginEdit, ReadText, ReadDone, CheckCreate, SyncText, CheckRename, Follow,
                  CheckDelete, Forget, EditFails, Looks, vars
    <3>. QED
      BY <1>4, <3>1, <3>2, <3>3 DEF EditStep
  <2>. QED
    BY <1>2, <2>1, <2>2
<1>5. ASSUME NEW e \in Editors, Move(e)
      PROVE  Reachable(u)'
  <2>1. disk'[u] = disk[u] \/ Reachable(u)
    BY <1>1, <1>5 DEF Move, Exists
  <2>. QED
    BY <1>2, <1>5, <2>1 DEF Move
<1>6. ASSUME NEW e \in Editors, RemoveDir(e)
      PROVE  Reachable(u)'
  <2>1. CASE dirs' = dirs \ {Change(e).dir}
    <3>1. CASE Change(e).dir \in dirs /\ u \in Inside[Change(e).dir]
      <4>1. dirs' # dirs
        BY <2>1, <3>1
      <4>. QED
        BY <1>1, <1>6, <3>1, <4>1 DEF RemoveDir, Exists
    <3>2. CASE ~ (Change(e).dir \in dirs /\ u \in Inside[Change(e).dir])
      <4>1. Exists(u)
        BY <1>1, <1>6 DEF RemoveDir, Exists
      <4>. QED
        BY <1>1, <2>1, <3>2, <4>1 DEF Reachable, Parents
    <3>. QED
      BY <3>1, <3>2
  <2>2. CASE dirs' = dirs
    <3>1. Exists(u)
      BY <1>1, <1>6 DEF RemoveDir, Exists
    <3>. QED
      BY <1>1, <2>2, <3>1 DEF Reachable, Parents
  <2>. QED
    BY <1>6, <2>1, <2>2 DEF RemoveDir
<1>. QED
  BY <1>3, <1>4, <1>5, <1>6 DEF EditsNext

LEMMA RootedHolds == EditsSpec => []Rooted
<1>1. EditsInit => Rooted
  BY ConstantsAssumption DEF EditsInit, Rooted, Exists, Reachable, Parents
<1>2. Types /\ Editing /\ Rooted /\ [EditsNext]_allVars => Rooted'
  BY RootedKept
<1>. QED
  BY <1>1, <1>2, TypesHold, PTL DEF EditsSpec

(* Without overlap what is shown is what there is.                            *)
LEMMA ShownStep ==
    ASSUME Types, Types', ~ regime.overlap, NEW e \in Editors, EditStep(e)
    PROVE  /\ ShownFiles = disk /\ ShownFiles' = disk'
           /\ ShownEdit = edit /\ ShownEdit' = edit'
           /\ ShownMade = made /\ ShownMade' = made'
           /\ ShownReport[e] = Report(e)
           /\ ShownReport' = [ShownReport EXCEPT ![e] = Report(e)']
           /\ ShownReport \in [Editors -> {"open", "applied", "failed"}]
<1>1. /\ regime' = regime
      /\ \A f \in Editors : f # e => step'[f] = step[f]
  BY EditFrame
<1>2. /\ edit \in [Editors -> Edits \cup {<<>>}] /\ made \in [Editors -> Nat]
      /\ edit' \in [Editors -> Edits \cup {<<>>}] /\ made' \in [Editors -> Nat]
  BY DEF Types, EditsTypeOK
<1>3. \A f \in Editors : f # e => Report(f)' = Report(f)
  BY <1>1 DEF Report
<1>4. \A f \in Editors : Report(f) \in {"open", "applied", "failed"}
  BY DEF Report
<1>. QED
  BY <1>1, <1>2, <1>3, <1>4 DEF ShownFiles, ShownEdit, ShownMade, ShownReport

(* An editor that has not answered is open to the promise, and its next       *)
(* change is the one it is at, unless that is already made.                   *)
LEMMA StillOpen ==
    ASSUME Types, Types', ~ regime.overlap, NEW e \in Editors, Progress(e), EditStep(e),
           step[e] # "idle"
    PROVE  /\ F!Open(e)
           /\ made[e] = at[e] - 1 => made[e] < Len(edit[e]) /\ F!Upcoming(e) = Change(e)
<1>1. edit[e] \in Edits /\ at[e] \in 1 .. Len(edit[e]) /\ edit[e] # <<>>
  BY EditsAssumption DEF Progress
<1>2. step[e] \notin {"applied", "refused", "escaped"}
  BY DEF EditStep, BeginEdit, ReadText, ReadDone, CheckCreate, WriteText, WriteTextFails,
         SyncText, CheckRename, UnlinkTarget, Move, Follow, CheckDelete, Unlink, Forget,
         RemoveDir, EditFails, MayStart
<1>3. Report(e) = "open"
  BY <1>2 DEF Report
<1>4. Len(edit[e]) \in Nat /\ made[e] \in Nat /\ at[e] \in Nat
  BY <1>1, EditsAssumption DEF Types, EditsTypeOK
<1>5. ASSUME made[e] = at[e] - 1
      PROVE  made[e] < Len(edit[e]) /\ made[e] + 1 = at[e]
  BY <1>1, <1>4, <1>5
<1>. QED
  BY <1>1, <1>3, <1>5, ShownStep DEF F!Open, F!Upcoming, Change

LEMMA StepFails ==
    ASSUME Types, Types', ~ regime.overlap, NEW e \in Editors, Progress(e), EditStep(e),
           step[e] # "idle", \E s \in {"refused", "escaped"} : GoTo(e, s), edit' = edit,
           made[e] \in {at[e], at[e] - 1},
           disk' = disk \/ (made[e] = at[e] - 1 /\ F!Tear(Change(e)))
    PROVE  F!Fail(e)
<1>1. step'[e] \in {"refused", "escaped"} /\ made' = made
  BY DEF Types, EditsTypeOK, GoTo
<1>2. Report(e)' = "failed"
  BY <1>1 DEF Report
<1>3. IF made[e] < Len(edit[e]) THEN F!Tear(F!Upcoming(e)) ELSE disk' = disk
  <2>1. CASE disk' = disk
    BY <2>1, ShownStep DEF F!Tear
  <2>2. CASE made[e] = at[e] - 1 /\ F!Tear(Change(e))
    BY <2>2, StillOpen
  <2>. QED
    BY <2>1, <2>2
<1>. QED
  BY <1>1, <1>2, <1>3, StillOpen, ShownStep DEF F!Fail

LEMMA StepMakes ==
    ASSUME Types, Types', ~ regime.overlap, NEW e \in Editors, Progress(e), EditStep(e),
           step[e] # "idle", made[e] = at[e] - 1, IsMade(e), edit' = edit,
           step'[e] \notin {"refused", "escaped"},
           step'[e] = "applied" => made'[e] = Len(edit[e]),
           \/ F!Write(Change(e)) \/ F!Create(Change(e)) \/ F!Rename(Change(e))
           \/ F!Delete(Change(e)) \/ F!RemoveTree(Change(e)) \/ F!PassOver(Change(e))
    PROVE  F!Make(e)
<1>1. made' = [made EXCEPT ![e] = @ + 1]
  BY DEF IsMade
<1>2. /\ Report(e)' \in {"open", "applied"}
      /\ Report(e)' = "applied" => made'[e] = Len(edit[e])
  BY DEF Report
<1>3. Report(e) = "open"
  BY StillOpen, ShownStep DEF F!Open
<1>4. /\ ShownReport' \in {ShownReport, [ShownReport EXCEPT ![e] = "applied"]}
      /\ ShownReport'[e] = "applied" => ShownMade'[e] = Len(ShownEdit[e])
  BY <1>2, <1>3, ShownStep
<1>. QED
  BY <1>1, <1>4, StillOpen, ShownStep DEF F!Make

LEMMA StepAdvances ==
    ASSUME Types, Types', ~ regime.overlap, NEW e \in Editors, Progress(e), EditStep(e),
           step[e] # "idle", made[e] = at[e], Advance(e), edit' = edit, disk' = disk
    PROVE  F!Succeed(e) \/ UNCHANGED F!vars
<1>1. /\ made' = made /\ step'[e] \in {"next", "applied"}
      /\ step'[e] = "applied" => made'[e] = Len(edit[e])
  BY Advancing DEF Advance
<1>2. Report(e) = "open" /\ F!Open(e)
  BY StillOpen, ShownStep DEF F!Open
<1>3. CASE step'[e] = "next"
  <2>1. Report(e)' = "open"
    BY <1>3 DEF Report
  <2>2. ShownReport' = ShownReport
    BY <1>2, <2>1, ShownStep
  <2>. QED
    BY <1>1, <2>2, ShownStep DEF F!vars
<1>4. CASE step'[e] = "applied"
  <2>1. Report(e)' = "applied"
    BY <1>4 DEF Report
  <2>. QED
    BY <1>1, <1>2, <1>4, <2>1, ShownStep DEF F!Succeed
<1>. QED
  BY <1>1, <1>3, <1>4

LEMMA StepHides ==
    ASSUME Types, Types', ~ regime.overlap, NEW e \in Editors, Progress(e), EditStep(e),
           step[e] # "idle", edit' = edit, NEW s \in Underway, GoTo(e, s), disk' = disk
    PROVE  UNCHANGED F!vars
<1>1. made' = made /\ step'[e] = s
  BY DEF Types, EditsTypeOK, GoTo
<1>2. Report(e) = "open" /\ Report(e)' = "open"
  BY <1>1, StillOpen, ShownStep DEF F!Open, Report, Underway
<1>3. ShownReport' = ShownReport
  BY <1>2, ShownStep
<1>. QED
  BY <1>1, <1>3, ShownStep DEF F!vars
LEMMA BeginShown ==
    ASSUME Types, Types', ~ regime.overlap, NEW e \in Editors, Progress(e), BeginEdit(e)
    PROVE  F!Begin(e)
<1>1. EditStep(e) /\ step[e] = "idle" /\ step'[e] = "next" /\ UNCHANGED <<disk, made>>
  BY DEF EditStep, BeginEdit, GoTo, Types, EditsTypeOK, vars
<1>2. Report(e) = "open" /\ Report(e)' = "open"
  BY <1>1 DEF Report
<1>3. ShownReport' = ShownReport
  BY <1>1, <1>2, ShownStep
<1>. QED
  BY <1>1, <1>3, ShownStep DEF F!Begin, BeginEdit, Progress

(* Looks and what follows them: nothing shows, the change is passed over or   *)
(* refused.                                                                   *)
LEMMA LookShown ==
    ASSUME Types, Types', ~ regime.overlap, NEW e \in Editors, Progress(e), Rooted,
           \/ ReadText(e) \/ ReadDone(e) \/ CheckCreate(e) \/ CheckRename(e)
           \/ CheckDelete(e) \/ EditFails(e)
    PROVE  [F!Next]_(F!vars)
<1>1. /\ EditStep(e) /\ UNCHANGED <<disk, edit>> /\ step[e] # "idle"
      /\ made[e] = at[e] - 1
  BY DEF EditStep, Progress, ReadText, ReadDone, CheckCreate, CheckRename, CheckDelete,
         EditFails, Looks, vars, MayStart
<1>2. CASE Refuse(e)
  BY <1>1, <1>2, StepFails DEF Refuse, F!Next
<1>3. ASSUME NEW s \in Underway, GoTo(e, s)
      PROVE  UNCHANGED F!vars
  BY <1>1, <1>3, StepHides
<1>4. ASSUME PassOver(e), F!PassOver(Change(e))
      PROVE  F!Next
  <2>1. /\ step'[e] \in {"next", "applied"} /\ IsMade(e)
        /\ step'[e] = "applied" => made'[e] = Len(edit[e])
    BY <1>1, <1>4, Advancing DEF PassOver
  <2>2. F!Make(e)
    BY <1>1, <1>4, <2>1, StepMakes
  <2>. QED
    BY <2>2 DEF F!Next
<1>5. Change(e) \in Changes
  BY <1>1, ChangeTyped
<1>6. \A u \in URIs : F!There(u) <=> Exists(u)
  BY <1>1, ShownStep DEF F!There, Exists
<1>7. CASE ReadText(e) \/ ReadDone(e)
  BY <1>2, <1>3, <1>7 DEF ReadText, ReadDone, Underway
<1>8. CASE CheckCreate(e)
  <2>1. Change(e).op = "create" /\ Change(e).uri \in URIs
    BY <1>5, <1>8, ChangeKinds DEF CheckCreate
  <2>2. PassOver(e) /\ Exists(Change(e).uri) /\ Change(e).option = "ignore"
          => F!PassOver(Change(e))
    BY <1>1, <1>6, <2>1, ShownStep DEF F!PassOver
  <2>. QED
    BY <1>2, <1>3, <1>4, <1>8, <2>2 DEF CheckCreate, Underway
<1>9. CASE CheckRename(e)
  <2>1. Change(e).op = "rename" /\ Change(e).to \in URIs
    BY <1>5, <1>9, ChangeKinds DEF CheckRename
  <2>2. PassOver(e) /\ Exists(Change(e).to) /\ Change(e).option = "ignore"
          => F!PassOver(Change(e))
    BY <1>1, <1>6, <2>1, ShownStep DEF F!PassOver
  <2>. QED
    BY <1>2, <1>3, <1>4, <1>9, <2>2 DEF CheckRename, Underway
<1>10. CASE CheckDelete(e)
  <2>1. CASE Change(e).op = "delete"
    <3>1. Change(e).uri \in URIs
      BY <1>5, <2>1, ChangeKinds
    <3>2. PassOver(e) /\ ~ Exists(Change(e).uri) /\ Change(e).option = "ignore"
            => F!PassOver(Change(e))
      BY <1>1, <1>6, <2>1, <3>1, ShownStep DEF F!PassOver
    <3>. QED
      BY <1>2, <1>3, <1>4, <1>10, <2>1, <3>2 DEF CheckDelete, Underway
  <2>2. CASE Change(e).op = "remove"
    <3>1. Change(e).dir \in Dirs /\ Inside[Change(e).dir] \subseteq URIs
      BY <1>5, <2>2, ChangeKinds
    <3>2. Change(e).dir \notin dirs => \A u \in Inside[Change(e).dir] : ~ Exists(u)
      BY <3>1 DEF Rooted, Reachable, Parents
    <3>3. PassOver(e) /\ Change(e).dir \notin dirs /\ Change(e).option = "ignore"
            => F!PassOver(Change(e))
      BY <1>1, <1>6, <2>2, <3>1, <3>2, ShownStep DEF F!PassOver
    <3>. QED
      BY <1>2, <1>3, <1>4, <1>10, <2>2, <3>3 DEF CheckDelete, Underway
  <2>. QED
    BY <1>10, <2>1, <2>2 DEF CheckDelete
<1>11. CASE EditFails(e)
  BY <1>2, <1>11 DEF EditFails
<1>. QED
  BY <1>7, <1>8, <1>9, <1>10, <1>11

(* Writes, and what follows them.                                             *)
LEMMA WriteShown ==
    ASSUME Types, Types', ~ regime.overlap, NEW e \in Editors, Progress(e), Occupied(e),
           Due(e), WriteText(e) \/ WriteTextFails(e) \/ SyncText(e)
    PROVE  [F!Next]_(F!vars)
<1>1. EditStep(e) /\ edit' = edit /\ step[e] # "idle"
  BY DEF EditStep, WriteText, WriteTextFails, SyncText
<1>2. Change(e) \in Changes
  BY <1>1, ChangeTyped
<1>3. CASE WriteText(e)
  <2>1. step[e] = "writing" /\ step'[e] = "written" /\ IsMade(e) /\ made[e] = at[e] - 1
    BY <1>3 DEF WriteText, MadeGoTo, Progress, Types, EditsTypeOK
  <2>2. /\ Change(e).op \in {"text", "create"} /\ Change(e).uri \in URIs
        /\ Change(e).op = "create" => Change(e).text = Emptied
    BY <1>2, <2>1, ChangeKinds DEF Occupied
  <2>3. F!Put(Change(e).uri, Change(e).text)
    BY <1>1, <1>3, ShownStep DEF WriteText, F!Put
  <2>4. F!Write(Change(e)) \/ F!Create(Change(e))
    BY <1>1, <2>1, <2>2, <2>3, ShownStep DEF F!Write, F!Create, F!There, Due, Exists
  <2>5. F!Make(e)
    BY <1>1, <2>1, <2>4, StepMakes
  <2>. QED
    BY <2>5 DEF F!Next
<1>4. CASE WriteTextFails(e)
  <2>1. step[e] = "writing" /\ GoTo(e, "refused") /\ made[e] = at[e] - 1
    BY <1>4 DEF WriteTextFails, Refuse, Progress
  <2>2. Change(e).op \in {"text", "create"}
    BY <2>1 DEF Occupied
  <2>3. disk' = disk \/ F!Tear(Change(e))
    BY <1>1, <1>4, <2>2, ShownStep DEF WriteTextFails, F!Tear, F!Put
  <2>4. F!Fail(e)
    BY <1>1, <2>1, <2>3, StepFails
  <2>. QED
    BY <2>4 DEF F!Next
<1>5. CASE SyncText(e)
  <2>1. disk' = disk /\ made[e] = at[e]
    BY <1>5 DEF SyncText, Progress
  <2>2. CASE Advance(e)
    BY <1>1, <2>1, <2>2, StepAdvances DEF F!Next
  <2>3. CASE \E s \in {"refused", "escaped"} : GoTo(e, s)
    BY <1>1, <2>1, <2>3, StepFails DEF F!Next
  <2>. QED
    BY <1>5, <2>2, <2>3 DEF SyncText
<1>. QED
  BY <1>3, <1>4, <1>5

(* Renames: the target is cleared only if it may be overwritten.              *)
LEMMA RenameShown ==
    ASSUME Types, Types', ~ regime.overlap, NEW e \in Editors, Progress(e), Occupied(e),
           Due(e), UnlinkTarget(e) \/ Move(e) \/ Follow(e)
    PROVE  [F!Next]_(F!vars)
<1>1. EditStep(e) /\ edit' = edit /\ step[e] # "idle" /\ Change(e).op = "rename"
  BY DEF EditStep, UnlinkTarget, Move, Follow, Occupied
<1>2. Change(e).uri \in URIs /\ Change(e).to \in URIs
  BY <1>1, ChangeTyped, ChangeKinds
<1>3. disk \in [URIs -> Contents \cup {Missing}]
  BY DEF Types, EditsTypeOK, TypeOK
<1>4. CASE UnlinkTarget(e)
  <2>1. step[e] = "unlinking" /\ made[e] = at[e] - 1
    BY <1>4 DEF UnlinkTarget, Progress
  <2>2. CASE GoTo(e, "moving")
    <3>1. made' = made /\ step'[e] = "moving"
      BY <2>2 DEF GoTo, Types, EditsTypeOK
    <3>2. ShownReport' = ShownReport
      <4>1. Report(e) = "open" /\ Report(e)' = "open"
        BY <2>1, <3>1 DEF Report
      <4>. QED
        BY <1>1, <4>1, ShownStep
    <3>3. F!ClearTarget(F!Upcoming(e))
      <4>1. F!Upcoming(e) = Change(e)
        BY <1>1, <2>1, StillOpen
      <4>2. Change(e).option = "overwrite" /\ Exists(Change(e).uri)
        BY <2>1 DEF Occupied, Due
      <4>3. F!ClearTarget(Change(e))
        BY <1>1, <1>4, <4>2, ShownStep DEF UnlinkTarget, F!ClearTarget, F!There, F!Put, Exists
      <4>. QED
        BY <4>1, <4>3
    <3>4. F!Prepare(e)
      BY <1>1, <2>1, <3>1, <3>2, <3>3, StillOpen, ShownStep DEF F!Prepare
    <3>. QED
      BY <3>4 DEF F!Next
  <2>3. CASE Refuse(e) /\ ~ Exists(Change(e).to)
    <3>1. disk' = disk
      BY <1>2, <1>3, <1>4, <2>3 DEF UnlinkTarget, Exists
    <3>2. F!Fail(e)
      BY <1>1, <2>1, <2>3, <3>1, StepFails DEF Refuse
    <3>. QED
      BY <3>2 DEF F!Next
  <2>. QED
    BY <1>4, <2>2, <2>3 DEF UnlinkTarget
<1>5. CASE Move(e)
  <2>1. step[e] = "moving" /\ made[e] = at[e] - 1
    BY <1>5 DEF Move, Progress
  <2>2. CASE MadeGoTo(e, "moved")
    <3>1. step'[e] = "moved" /\ IsMade(e)
      BY <2>2 DEF MadeGoTo, Types, EditsTypeOK
    <3>2. /\ Exists(Change(e).uri) /\ ~ Exists(Change(e).to)
          /\ disk' = [disk EXCEPT ![Change(e).uri] = Missing,
                                  ![Change(e).to] = disk[Change(e).uri]]
      <4>1. Exists(Change(e).uri) /\ Reachable(Change(e).to)
        <5>. SUFFICES ASSUME Refuse(e) PROVE FALSE
          BY <1>5 DEF Move
        <5>. QED
          BY <3>1 DEF Refuse, GoTo, Types, EditsTypeOK
      <4>. QED
        BY <1>5, <2>1, <4>1 DEF Move, Due
    <3>3. F!Rename(Change(e))
      BY <1>1, <3>2, ShownStep DEF F!Rename, F!There, Exists
    <3>4. F!Make(e)
      BY <1>1, <2>1, <3>1, <3>3, StepMakes
    <3>. QED
      BY <3>4 DEF F!Next
  <2>3. CASE Refuse(e)
    <3>1. disk' = disk
      <4>1. step'[e] = "refused"
        BY <2>3 DEF Refuse, GoTo, Types, EditsTypeOK
      <4>2. ~ MadeGoTo(e, "moved")
        BY <4>1 DEF MadeGoTo, Types, EditsTypeOK
      <4>. QED
        BY <1>5, <4>2 DEF Move
    <3>2. F!Fail(e)
      BY <1>1, <2>1, <2>3, <3>1, StepFails DEF Refuse
    <3>. QED
      BY <3>2 DEF F!Next
  <2>. QED
    BY <1>5, <2>2, <2>3 DEF Move
<1>6. CASE Follow(e)
  <2>1. disk' = disk /\ made[e] = at[e] /\ Advance(e)
    BY <1>6 DEF Follow, Progress
  <2>. QED
    BY <1>1, <2>1, StepAdvances DEF F!Next
<1>. QED
  BY <1>4, <1>5, <1>6
(* Deletions, of a file or of a directory and all that is in it.              *)
LEMMA DeleteShown ==
    ASSUME Types, Types', ~ regime.overlap, NEW e \in Editors, Progress(e), Occupied(e),
           Unlink(e) \/ Forget(e) \/ RemoveDir(e)
    PROVE  [F!Next]_(F!vars)
<1>1. EditStep(e) /\ edit' = edit /\ step[e] # "idle"
  BY DEF EditStep, Unlink, Forget, RemoveDir
<1>2. Change(e) \in Changes
  BY <1>1, ChangeTyped
<1>3. disk \in [URIs -> Contents \cup {Missing}]
  BY DEF Types, EditsTypeOK, TypeOK
<1>4. CASE Unlink(e)
  <2>1. step[e] = "deleting" /\ made[e] = at[e] - 1 /\ Change(e).op = "delete"
    BY <1>4 DEF Unlink, Progress, Occupied
  <2>2. Change(e).uri \in URIs
    BY <1>2, <2>1, ChangeKinds
  <2>3. CASE Exists(Change(e).uri)
    <3>1. step'[e] = "deleted" /\ IsMade(e)
      BY <1>4, <2>3 DEF Unlink, MadeGoTo, Types, EditsTypeOK
    <3>2. F!Delete(Change(e))
      BY <1>1, <1>4, <2>1, <2>3, ShownStep DEF Unlink, F!Delete, F!There, F!Put, Exists
    <3>3. F!Make(e)
      BY <1>1, <2>1, <3>1, <3>2, StepMakes
    <3>. QED
      BY <3>3 DEF F!Next
  <2>4. CASE ~ Exists(Change(e).uri)
    <3>1. disk' = disk /\ Refuse(e)
      BY <1>3, <1>4, <2>2, <2>4 DEF Unlink, Exists
    <3>2. F!Fail(e)
      BY <1>1, <2>1, <3>1, StepFails DEF Refuse
    <3>. QED
      BY <3>2 DEF F!Next
  <2>. QED
    BY <2>3, <2>4
<1>5. CASE Forget(e)
  <2>1. disk' = disk /\ made[e] = at[e] /\ Advance(e)
    BY <1>5 DEF Forget, Progress
  <2>. QED
    BY <1>1, <2>1, StepAdvances DEF F!Next
<1>6. CASE RemoveDir(e)
  <2>. DEFINE change == Change(e)
              files == {u \in Inside[change.dir] : Exists(u)}
  <2>1. step[e] = "removing" /\ made[e] = at[e] - 1 /\ change.op = "remove"
    BY <1>6 DEF RemoveDir, Progress, Occupied
  <2>2. Inside[change.dir] \subseteq URIs
    BY <1>2, <2>1, ChangeKinds
  <2>3. ASSUME change.recursive \/ files = {}, PassOver(e),
               disk' = [u \in URIs |-> IF u \in files THEN Missing ELSE disk[u]]
        PROVE  F!Next
    <3>1. /\ step'[e] \in {"next", "applied"} /\ IsMade(e)
          /\ step'[e] = "applied" => made'[e] = Len(edit[e])
      BY <1>1, <2>1, <2>3, Advancing DEF PassOver
    <3>2. disk' = [u \in URIs |-> IF u \in Inside[change.dir] THEN Missing ELSE disk[u]]
      BY <2>3 DEF Exists
    <3>3. change.recursive \/ \A u \in Inside[change.dir] : ~ Exists(u)
      BY <2>3
    <3>4. F!RemoveTree(change)
      BY <1>1, <2>1, <3>2, <3>3, ShownStep DEF F!RemoveTree, F!There, Exists
    <3>5. F!Make(e)
      BY <1>1, <2>1, <3>1, <3>4, StepMakes
    <3>. QED
      BY <3>5 DEF F!Next
  <2>4. ASSUME Refuse(e), disk' = disk \/ F!Tear(change)
        PROVE  F!Next
    <3>1. F!Fail(e)
      BY <1>1, <2>1, <2>4, StepFails DEF Refuse
    <3>. QED
      BY <3>1 DEF F!Next
  <2>5. ASSUME change.recursive, NEW gone \in SUBSET files,
               disk' = [u \in URIs |-> IF u \in gone THEN Missing ELSE disk[u]]
        PROVE  F!Tear(change)
    <3>1. gone \in SUBSET Inside[change.dir]
      OBVIOUS
    <3>. QED
      BY <1>1, <2>1, <2>5, <3>1, ShownStep DEF F!Tear
  <2>. QED
    BY <1>6, <2>3, <2>4, <2>5 DEF RemoveDir
<1>. QED
  BY <1>4, <1>5, <1>6

(* Contexts and writers change files only by what writers write.              *)
LEMMA OthersShown ==
    ASSUME Types, Types', ~ regime.overlap, Others \/ UNCHANGED allVars
    PROVE  [F!Next]_(F!vars)
<1>1. regime' = regime /\ UNCHANGED editVars
  BY OthersStep, SameRegime DEF allVars, vars
<1>2. UNCHANGED <<ShownEdit, ShownMade, ShownReport>>
  BY <1>1 DEF ShownEdit, ShownMade, ShownReport, Report, editVars
<1>3. ShownFiles = disk /\ ShownFiles' = disk'
  BY <1>1 DEF ShownFiles
<1>4. ASSUME NEW w \in Writers, WriteDisk(w) \/ WriteFails(w)
      PROVE  [F!Next]_(F!vars)
  <2>1. target[w] \in URIs /\ w \in Contents /\ Emptied \in Contents
    BY ConstantsAssumption DEF Types, EditsTypeOK, TypeOK
  <2>2. disk' = disk \/ \E text \in Contents : disk' = [disk EXCEPT ![target[w]] = text]
    BY <1>4, <2>1 DEF WriteDisk, WriteFails
  <2>3. CASE disk' = disk
    BY <1>2, <1>3, <2>3 DEF F!vars
  <2>4. CASE \E text \in Contents : disk' = [disk EXCEPT ![target[w]] = text]
    BY <1>2, <1>3, <2>1, <2>4 DEF F!WriteByOthers, F!Put, F!Next
  <2>. QED
    BY <2>2, <2>3, <2>4
<1>5. CASE disk' = disk
  BY <1>2, <1>3, <1>5 DEF F!vars
<1>6. CASE \/ \E c \in Contexts :
                 \/ \E U \in SUBSET URIs : Enter(c, U)
                 \/ \E u \in URIs : ReadFile(c, u)
                 \/ ReadFails(c) \/ Commit(c) \/ Announce(c) \/ AnnounceFails(c) \/ Exit(c)
           \/ \E w \in Writers : BeginWrite(w) \/ SyncState(w)
           \/ UNCHANGED allVars
  BY <1>5, <1>6 DEF Enter, ReadFile, ReadFails, Commit, Announce, AnnounceFails, Exit,
                    BeginWrite, SyncState, allVars, vars
<1>. QED
  BY <1>4, <1>6 DEF Others

LEMMA StepShown ==
    ASSUME Types, Editing, Rooted, AllDue, [EditsNext]_allVars
    PROVE  [F!Next]_(F!vars)
<1>1. CASE regime.overlap
  <2>1. regime' = regime
    BY OthersStep, SameRegime, EditFrame DEF EditsNext, allVars, vars
  <2>. QED
    BY <1>1, <2>1 DEF F!vars, ShownFiles, ShownEdit, ShownMade, ShownReport
<1>2. CASE ~ regime.overlap
  <2>1. Types'
    BY OthersTypes, EditTypes DEF EditsNext
  <2>2. ASSUME NEW e \in Editors, EditStep(e)
        PROVE  [F!Next]_(F!vars)
    <3>1. Progress(e) /\ Occupied(e) /\ Due(e)
      BY DEF Editing, AllDue
    <3>2. CASE BeginEdit(e)
      BY <1>2, <2>1, <3>1, <3>2, BeginShown DEF F!Next
    <3>3. CASE ReadText(e) \/ ReadDone(e) \/ CheckCreate(e) \/ CheckRename(e)
               \/ CheckDelete(e) \/ EditFails(e)
      BY <1>2, <2>1, <3>1, <3>3, LookShown
    <3>4. CASE WriteText(e) \/ WriteTextFails(e) \/ SyncText(e)
      BY <1>2, <2>1, <3>1, <3>4, WriteShown
    <3>5. CASE UnlinkTarget(e) \/ Move(e) \/ Follow(e)
      BY <1>2, <2>1, <3>1, <3>5, RenameShown
    <3>6. CASE Unlink(e) \/ Forget(e) \/ RemoveDir(e)
      BY <1>2, <2>1, <3>1, <3>6, DeleteShown
    <3>. QED
      BY <2>2, <3>2, <3>3, <3>4, <3>5, <3>6 DEF EditStep
  <2>. QED
    BY <1>2, <2>1, <2>2, OthersShown DEF EditsNext
<1>. QED
  BY <1>1, <1>2

(* What edits promise of the files is kept beside contexts, writers and other *)
(* edits, for callers that do not overlap: the changes are made in order and  *)
(* as their options allow, applied is reported when all are, nothing follows  *)
(* a refusal. WorkspaceEdits implements FileChanges.                          *)
THEOREM EditsImplementFileChanges == EditsSpec => EditsKeepPromises
<1>1. EditsInit => F!Init
  <2>. SUFFICES ASSUME EditsInit
                PROVE  F!Init
    OBVIOUS
  <2>1. ShownFiles \in [URIs -> Contents \cup {Missing}]
    BY ConstantsAssumption DEF EditsInit, ShownFiles
  <2>2. /\ ShownEdit = [e \in Editors |-> <<>>]
        /\ ShownMade = [e \in Editors |-> 0]
        /\ ShownReport = [e \in Editors |-> "open"]
    BY DEF EditsInit, ShownEdit, ShownMade, ShownReport, Report
  <2>. QED
    BY <2>1, <2>2 DEF F!Init
<1>2. Types /\ Editing /\ Rooted /\ AllDue /\ [EditsNext]_allVars => [F!Next]_(F!vars)
  BY StepShown
<1>. QED
  BY <1>1, <1>2, TypesHold, RootedHolds, AllDueHold, PTL
     DEF EditsSpec, EditsKeepPromises, F!Spec
=============================================================================
