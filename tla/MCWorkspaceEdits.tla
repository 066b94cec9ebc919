-------------------------- MODULE MCWorkspaceEdits --------------------------
(* An instance of WorkspaceEdits for TLC: a file a, and a directory with a    *)
(* file b, there or not at first. The edits are every change of them alone    *)
(* and some whose changes depend on one another.                              *)
EXTENDS WorkspaceEdits, TLC

CONSTANTS a, b, dir, edited

MCInside == [d \in {dir} |-> {b}]

SingleEdits ==
    {<<TextChange(a, v, edited)>> : v \in {0, 1}}
    \cup {<<TextChange(b, Unversioned, edited)>>}
    \cup {<<CreateFile(b, o)>> : o \in Options}
    \cup {<<RenameFile(a, b, o)>> : o \in Options}
    \cup {<<DeleteFile(b, o)>> : o \in {"fail", "ignore"}}
    \cup {<<DeleteDir(dir, o, r)>> : o \in {"fail", "ignore"}, r \in BOOLEAN}

EditsInOrder ==
    {<<TextChange(a, 0, edited), TextChange(b, Unversioned, edited)>>,
     <<RenameFile(a, b, "fail"), TextChange(b, 1, edited)>>,
     <<DeleteFile(b, "fail"), DeleteDir(dir, "fail", FALSE), CreateFile(b, "fail")>>,
     <<DeleteDir(dir, "fail", TRUE), RenameFile(a, b, "fail"), DeleteDir(dir, "fail", TRUE)>>}

AllEdits == SingleEdits \cup EditsInOrder

(* Callers that leave alone what others open, write or edit, under failures   *)
(* of the file system; and a context and edits that do not, with failures of  *)
(* the pipe.                                                                  *)
AnyRegime ==
    {[overlap |-> FALSE, failures |-> {"read", "write", "edit"}, writers |-> Writers,
      reentries |-> 0],
     [overlap |-> TRUE, failures |-> {"write", "change"}, writers |-> {}, reentries |-> 0]}

Symmetry == Permutations(Contexts)
=============================================================================
