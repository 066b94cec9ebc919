-------------------------- MODULE DocumentSyncProofs --------------------------
(* Proofs about DocumentSync for any number of contexts, writers and files,   *)
(* for every regime: whatever the callers overlap on and whatever fails.      *)
(* ReadAll makes the types inductive; what contexts still read, with the      *)
(* balance of the references, makes HoldersTracked inductive. The lemmas are  *)
(* about one document each, so that they serve where others are not in order. *)
EXTENDS DocumentSync, FiniteSetTheorems, TLAPS

(* A context announces only what it has read.                                 *)
ReadAll ==
    \A c \in Contexts :
        context[c] = "announcing" => \A u \in DOMAIN texts[c] : texts[c][u] # Unread

(* A document is tracked while it is announced or inside a context, and, if   *)
(* the context does not read it itself, already before.                       *)
HeldTracked(u) ==
    \A c \in Contexts : u \in wants[c] =>
        /\ context[c] = "reading" => u \in DOMAIN texts[c] \cup Tracked
        /\ context[c] \in {"announcing", "inside"} => u \in Tracked

AllHeld == \A u \in URIs : HeldTracked(u)

-----------------------------------------------------------------------------
(* Types                                                                      *)
LEMMA InitTypes == Init => TypeOK /\ ReadAll
  BY ConstantsAssumption
     DEF Init, InitClients, TypeOK, ReadAll, RegimeType, ContextStates, WriterStates,
         Unopened

LEMMA OpenTypes ==
    ASSUME TypeOK, ReadAll, NEW c \in Contexts,
           \/ \E U \in (SUBSET URIs) \ {{}} : Enter(c, U)
           \/ \E u \in URIs : ReadFile(c, u)
           \/ ReadFails(c)
    PROVE  TypeOK' /\ ReadAll'
<1>1. ASSUME NEW U \in SUBSET URIs, Enter(c, U)
      PROVE  TypeOK' /\ ReadAll'
  BY <1>1 DEF TypeOK, ReadAll, Enter, NewURIs, CountReferences, ContextStates
<1>2. ASSUME NEW u \in URIs, ReadFile(c, u)
      PROVE  TypeOK' /\ ReadAll'
  BY <1>2 DEF TypeOK, ReadAll, ReadFile, ContextStates
<1>3. CASE ReadFails(c)
  BY <1>3 DEF TypeOK, ReadAll, ReadFails, ContextStates
<1>. QED
  BY <1>1, <1>2, <1>3

LEMMA AnnounceTypes ==
    ASSUME TypeOK, ReadAll, NEW c \in Contexts,
           Commit(c) \/ Announce(c) \/ AnnounceFails(c) \/ Exit(c)
    PROVE  TypeOK' /\ ReadAll'
<1>1. CASE Commit(c)
  BY <1>1 DEF TypeOK, ReadAll, Commit, CommitDocuments, ContextStates, Documents
<1>2. ASSUME NEW sent \in SUBSET DOMAIN texts[c], context[c] = "announcing",
             DidOpen(c, sent)
      PROVE  server' \in [URIs -> [opens : Nat, doc : Documents \cup {NotOpen}]]
  BY <1>2 DEF TypeOK, ReadAll, DidOpen, Documents
<1>3. CASE Announce(c)
  BY <1>2, <1>3 DEF TypeOK, ReadAll, Announce, ContextStates
<1>4. CASE AnnounceFails(c)
  BY <1>2, <1>4 DEF TypeOK, ReadAll, AnnounceFails, ContextStates
<1>5. CASE Exit(c)
  <2>1. /\ refs' \in [URIs -> Nat]
        /\ states' \in [URIs -> Documents \cup {NotOpen}]
    BY <1>5 DEF TypeOK, Exit, Close, Released
  <2>2. server' \in [URIs -> [opens : Nat, doc : Documents \cup {NotOpen}]]
    <3>1. ASSUME NEW u \in URIs
          PROVE  /\ Unopened \in [opens : Nat, doc : Documents \cup {NotOpen}]
                 /\ server[u].opens > 1 =>
                      [server[u] EXCEPT !.opens = @ - 1]
                          \in [opens : Nat, doc : Documents \cup {NotOpen}]
      <4>1. server[u] \in [opens : Nat, doc : Documents \cup {NotOpen}]
        BY DEF TypeOK
      <4>. QED
        BY <4>1 DEF Unopened
    <3>. QED
      BY <1>5, <3>1 DEF TypeOK, Exit
  <2>. QED
    BY <1>5, <2>1, <2>2 DEF TypeOK, ReadAll, Exit, ContextStates
<1>. QED
  BY <1>1, <1>3, <1>4, <1>5

LEMMA WriteTypes ==
    ASSUME TypeOK, ReadAll, NEW w \in Writers,
           BeginWrite(w) \/ WriteDisk(w) \/ WriteFails(w) \/ SyncState(w)
    PROVE  TypeOK' /\ ReadAll'
<1>1. CASE BeginWrite(w) \/ WriteDisk(w) \/ WriteFails(w)
  <2>1. disk' \in [URIs -> Contents \cup {Missing}]
    BY <1>1, ConstantsAssumption DEF TypeOK, BeginWrite, WriteDisk, WriteFails
  <2>2. writer' \in [Writers -> WriterStates]
    BY <1>1 DEF TypeOK, BeginWrite, WriteDisk, WriteFails, WriterStates
  <2>3. UNCHANGED <<regime, earlier, states, refs, server, context, wants, texts, target>>
    BY <1>1 DEF BeginWrite, WriteDisk, WriteFails
  <2>. QED
    BY <2>1, <2>2, <2>3 DEF TypeOK, ReadAll
<1>2. CASE SyncState(w)
  <2>1. states' \in [URIs -> Documents \cup {NotOpen}]
    BY <1>2, ConstantsAssumption
       DEF TypeOK, SyncState, UpdateContent, Tracked, Documents
  <2>2. server' \in [URIs -> [opens : Nat, doc : Documents \cup {NotOpen}]]
    <3>. DEFINE Known == [opens : Nat, doc : Documents \cup {NotOpen}]
    <3>1. server \in [URIs -> Known] /\ target[w] \in URIs
      BY DEF TypeOK
    <3>2. \/ server' = server
          \/ server' = [server EXCEPT ![target[w]] =
                          [server[target[w]] EXCEPT !.doc = states'[target[w]]]]
      BY <1>2 DEF SyncState
    <3>3. [server[target[w]] EXCEPT !.doc = states'[target[w]]] \in Known
      BY <2>1, <3>1
    <3>4. server' \in [URIs -> Known]
      <4>. HIDE DEF Known
      <4>. QED
        BY <3>1, <3>2, <3>3
    <3>. QED
      BY <3>4
  <2>. QED
    BY <1>2, <2>1, <2>2 DEF TypeOK, ReadAll, SyncState, WriterStates
<1>. QED
  BY <1>1, <1>2

LEMMA TypesKept ==
    ASSUME TypeOK, ReadAll, [Next]_vars
    PROVE  TypeOK' /\ ReadAll'
<1>1. CASE EnterAgain
  BY <1>1, ConstantsAssumption DEF TypeOK, ReadAll, EnterAgain, RegimeType, Unopened
<1>2. CASE UNCHANGED vars
  BY <1>2 DEF TypeOK, ReadAll, vars
<1>. QED
  BY <1>1, <1>2, OpenTypes, AnnounceTypes, WriteTypes DEF Next

(* Contexts, writers, documents and the server's view keep their types.       *)
THEOREM TypesCorrect == Spec => []TypeOK
<1>1. TypeOK /\ ReadAll /\ [Next]_vars => TypeOK' /\ ReadAll'
  BY TypesKept
<1>. QED
  BY <1>1, InitTypes, PTL DEF Spec

-----------------------------------------------------------------------------
(* Counting                                                                   *)
LEMMA HoldersFinite ==
    ASSUME NEW u
    PROVE  IsFiniteSet(Holders(u)) /\ Cardinality(Holders(u)) \in Nat
<1>1. Holders(u) \subseteq Contexts /\ IsFiniteSet(Contexts)
  BY ConstantsAssumption DEF Holders
<1>2. IsFiniteSet(Holders(u))
  BY <1>1, FS_Subset
<1>. QED
  BY <1>2, FS_CardinalityType

LEMMA HeldCounts ==
    ASSUME TypeOK, NEW u \in URIs, Counted(u), NEW c \in Holders(u)
    PROVE  refs[u] >= 1
<1>1. refs[u] = Cardinality(Holders(u)) /\ refs[u] \in Nat
  BY DEF Counted, TypeOK
<1>2. Cardinality(Holders(u)) # 0
  BY HoldersFinite, FS_EmptySet
<1>. QED
  BY <1>1, <1>2

(* A document that two contexts hold is not released by one of them.          *)
LEMMA SharedCounts ==
    ASSUME TypeOK, NEW u \in URIs, Counted(u),
           NEW c \in Holders(u), NEW d \in Holders(u), c # d
    PROVE  refs[u] >= 2
<1>1. refs[u] = Cardinality(Holders(u)) /\ refs[u] \in Nat
  BY DEF Counted, TypeOK
<1>2. /\ IsFiniteSet(Holders(u) \ {c})
      /\ Cardinality(Holders(u) \ {c}) = Cardinality(Holders(u)) - 1
  BY HoldersFinite, FS_RemoveElement
<1>3. Cardinality(Holders(u) \ {c}) # 0
  BY <1>2, FS_EmptySet
<1>4. Cardinality(Holders(u) \ {c}) \in Nat
  BY <1>2, FS_CardinalityType
<1>. QED
  BY <1>1, <1>2, <1>3, <1>4

LEMMA EnterCounts ==
    ASSUME TypeOK, NEW u \in URIs, Counted(u), NEW c \in Contexts, NEW U \in SUBSET URIs,
           Enter(c, U)
    PROVE  Counted(u)'
<1>1. refs[u] \in Nat
  BY DEF TypeOK
<1>2. (u \in Tracked)' <=> u \in Tracked
  BY DEF Enter, Tracked
<1>3. CASE u \in U
  <2>1. Holders(u)' = Holders(u) \cup {c} /\ c \notin Holders(u)
    BY <1>3 DEF TypeOK, Enter, Holders, ContextStates
  <2>2. Cardinality(Holders(u)') = Cardinality(Holders(u)) + 1
    BY <2>1, HoldersFinite, FS_AddElement
  <2>3. refs'[u] = refs[u] + 1
    BY <1>3 DEF TypeOK, Enter, CountReferences
  <2>. QED
    BY <1>1, <1>2, <2>2, <2>3 DEF Counted
<1>4. CASE u \notin U
  <2>1. Holders(u)' = Holders(u)
    BY <1>4 DEF TypeOK, Enter, Holders, ContextStates
  <2>2. refs'[u] = refs[u]
    BY <1>4 DEF TypeOK, Enter, CountReferences
  <2>. QED
    BY <1>1, <1>2, <2>1, <2>2 DEF Counted
<1>. QED
  BY <1>3, <1>4

(* The documents of a context are recorded while it holds them.               *)
LEMMA CommitCounts ==
    ASSUME TypeOK, NEW u \in URIs, Counted(u), NEW c \in Contexts, Commit(c)
    PROVE  Counted(u)'
<1>1. refs' = refs
  BY DEF Commit
<1>2. Holders(u)' = Holders(u)
  BY DEF TypeOK, Commit, Holders, ContextStates
<1>3. ASSUME (u \in Tracked)', u \notin Tracked
      PROVE  refs[u] > 0
  <2>1. u \in DOMAIN texts[c]
    BY <1>3 DEF Commit, CommitDocuments, Tracked
  <2>2. c \in Holders(u)
    BY <2>1 DEF TypeOK, Commit, Holders
  <2>3. refs[u] >= 1 /\ refs[u] \in Nat
    BY <2>2, HeldCounts DEF TypeOK
  <2>. QED
    BY <2>3
<1>. QED
  BY <1>1, <1>2, <1>3 DEF Counted

LEMMA ExitCounts ==
    ASSUME TypeOK, NEW u \in URIs, Counted(u), NEW c \in Contexts, Exit(c)
    PROVE  Counted(u)'
<1>1. refs[u] \in Nat
  BY DEF TypeOK
<1>2. CASE u \in wants[c]
  <2>1. Holders(u)' = Holders(u) \ {c} /\ c \in Holders(u)
    BY <1>2 DEF TypeOK, Exit, Holders, ContextStates
  <2>2. Cardinality(Holders(u)') = Cardinality(Holders(u)) - 1
    BY <2>1, HoldersFinite, FS_RemoveElement
  <2>3. refs[u] >= 1
    BY <2>1, HeldCounts
  <2>4. refs'[u] = refs[u] - 1
    BY <1>1, <1>2, <2>3 DEF TypeOK, Exit, Close, Released
  <2>5. (u \in Tracked)' => refs[u] - 1 > 0
    BY <1>1, <1>2 DEF TypeOK, Exit, Close, Released, Tracked
  <2>. QED
    BY <1>1, <2>2, <2>4, <2>5 DEF Counted
<1>3. CASE u \notin wants[c]
  <2>1. Holders(u)' = Holders(u)
    BY <1>3 DEF TypeOK, Exit, Holders, ContextStates
  <2>2. refs'[u] = refs[u] /\ states'[u] = states[u]
    BY <1>3 DEF TypeOK, Exit, Close, Released
  <2>. QED
    BY <1>1, <2>1, <2>2 DEF Counted, Tracked
<1>. QED
  BY <1>2, <1>3

(* Whatever else happens neither gives nor takes references.                  *)
LEMMA SameHolders ==
    ASSUME TypeOK,
           \/ \E c \in Contexts :
                 \/ \E u \in URIs : ReadFile(c, u)
                 \/ ReadFails(c) \/ Announce(c) \/ AnnounceFails(c)
           \/ \E w \in Writers : BeginWrite(w) \/ WriteDisk(w) \/ WriteFails(w) \/ SyncState(w)
           \/ EnterAgain \/ UNCHANGED vars
    PROVE  /\ \A u \in URIs : Holders(u)' = Holders(u)
           /\ refs' = refs
           /\ Tracked' = Tracked
<1>1. ASSUME NEW c \in Contexts,
             \/ \E u \in URIs : ReadFile(c, u)
             \/ ReadFails(c) \/ Announce(c) \/ AnnounceFails(c)
      PROVE  (\A u \in URIs : Holders(u)' = Holders(u)) /\ refs' = refs /\ states' = states
  BY <1>1 DEF TypeOK, ReadFile, ReadFails, Announce, AnnounceFails, Holders, ContextStates
<1>2. ASSUME NEW w \in Writers, BeginWrite(w) \/ WriteDisk(w) \/ WriteFails(w)
      PROVE  (\A u \in URIs : Holders(u)' = Holders(u)) /\ refs' = refs /\ states' = states
  BY <1>2 DEF BeginWrite, WriteDisk, WriteFails, Holders
<1>3. ASSUME NEW w \in Writers, SyncState(w)
      PROVE  (\A u \in URIs : Holders(u)' = Holders(u)) /\ refs' = refs /\ Tracked' = Tracked
  <2>1. UNCHANGED <<refs, context, wants>>
    BY <1>3 DEF SyncState
  <2>2. [content |-> w, version |-> states[target[w]].version + 1] # NotOpen
          \/ target[w] \notin Tracked
    BY ConstantsAssumption DEF TypeOK, Tracked, Documents
  <2>3. Tracked' = Tracked
    BY <1>3, <2>2 DEF SyncState, UpdateContent, Tracked, TypeOK
  <2>. QED
    BY <2>1, <2>3 DEF Holders
<1>4. CASE EnterAgain \/ UNCHANGED vars
  BY <1>4 DEF EnterAgain, vars, Holders, Tracked
<1>. QED
  BY <1>1, <1>2, <1>3, <1>4 DEF Tracked

LEMMA CountKept ==
    ASSUME TypeOK, NEW u \in URIs, Counted(u), [Next]_vars
    PROVE  Counted(u)'
<1>1. CASE \/ \E c \in Contexts :
                 \/ \E v \in URIs : ReadFile(c, v)
                 \/ ReadFails(c) \/ Announce(c) \/ AnnounceFails(c)
           \/ \E w \in Writers : BeginWrite(w) \/ WriteDisk(w) \/ WriteFails(w) \/ SyncState(w)
           \/ EnterAgain \/ UNCHANGED vars
  BY <1>1, SameHolders DEF Counted
<1>. QED
  BY <1>1, EnterCounts, CommitCounts, ExitCounts DEF Next

(* The count of a document is the number of contexts that hold it, and none   *)
(* is tracked without a holder.                                               *)
THEOREM ReferencesBalance == Spec => []ReferencesCounted
<1>1. Init => ReferencesCounted
  <2>. SUFFICES ASSUME Init, NEW u \in URIs
                PROVE  Counted(u)
    BY DEF ReferencesCounted
  <2>1. Holders(u) = {} /\ u \notin Tracked /\ refs[u] = 0
    BY DEF Init, InitClients, Holders, Tracked
  <2>. QED
    BY <2>1, FS_EmptySet DEF Counted
<1>2. TypeOK /\ ReferencesCounted /\ [Next]_vars => ReferencesCounted'
  BY CountKept DEF ReferencesCounted
<1>. QED
  BY <1>1, <1>2, TypesCorrect, PTL DEF Spec

-----------------------------------------------------------------------------
(* Tracked documents                                                          *)

(* The documents of a context stay tracked when those of another are closed:  *)
(* the count of one that both hold does not fall to zero.                     *)
LEMMA ExitKeepsOthers ==
    ASSUME TypeOK, NEW u \in URIs, Counted(u), NEW d \in Contexts, Exit(d),
           NEW c \in Contexts, c # d, u \in wants[c], u \in Tracked,
           context[c] \in {"reading", "announcing", "inside"}
    PROVE  (u \in Tracked)'
<1>1. c \in Holders(u)
  BY DEF Holders
<1>2. CASE u \in wants[d]
  <2>1. d \in Holders(u)
    BY <1>2 DEF Exit, Holders
  <2>2. refs[u] >= 2 /\ refs[u] \in Nat
    BY <1>1, <2>1, SharedCounts DEF TypeOK
  <2>3. u \notin Released(wants[d])
    BY <2>2 DEF Released
  <2>. QED
    BY <2>3 DEF Exit, Close, Tracked
<1>3. CASE u \notin wants[d]
  BY <1>3 DEF Exit, Close, Released, Tracked
<1>. QED
  BY <1>2, <1>3

LEMMA ExitHeld ==
    ASSUME TypeOK, NEW u \in URIs, Counted(u), HeldTracked(u),
           NEW d \in Contexts, Exit(d)
    PROVE  HeldTracked(u)'
<1>1. /\ \A c \in Contexts : c # d => context'[c] = context[c]
      /\ context'[d] = "left"
      /\ wants' = wants /\ texts' = texts
  BY DEF TypeOK, Exit
<1>. QED
  BY <1>1, ExitKeepsOthers DEF HeldTracked

(* What a context does not find tracked it reads, and the rest was tracked.   *)
LEMMA EnterHeld ==
    ASSUME TypeOK, NEW u \in URIs, HeldTracked(u),
           NEW d \in Contexts, NEW U \in SUBSET URIs, Enter(d, U)
    PROVE  HeldTracked(u)'
<1>1. Tracked' = Tracked
  BY DEF Enter, Tracked
<1>2. \A c \in Contexts : c # d =>
          context'[c] = context[c] /\ wants'[c] = wants[c] /\ texts'[c] = texts[c]
  BY DEF TypeOK, Enter
<1>3. /\ wants'[d] = U /\ DOMAIN texts'[d] = U \ Tracked
      /\ context'[d] = IF U \ Tracked = {} THEN "inside" ELSE "reading"
  BY DEF TypeOK, Enter, NewURIs
<1>. QED
  BY <1>1, <1>2, <1>3 DEF HeldTracked

(* What a context has read is recorded before it goes on.                     *)
LEMMA CommitHeld ==
    ASSUME TypeOK, NEW u \in URIs, HeldTracked(u), NEW d \in Contexts, Commit(d)
    PROVE  HeldTracked(u)'
<1>1. Tracked' = Tracked \cup DOMAIN texts[d]
  <2>1. DOMAIN texts[d] \subseteq URIs
    BY DEF TypeOK
  <2>2. ASSUME NEW v \in DOMAIN texts[d]
        PROVE  [content |-> texts[d][v], version |-> 0] # NotOpen
    BY <2>2, ConstantsAssumption DEF TypeOK, Commit, Documents
  <2>. QED
    BY <2>1, <2>2 DEF Commit, CommitDocuments, Tracked
<1>2. /\ \A c \in Contexts : c # d => context'[c] = context[c]
      /\ context[d] = "reading" /\ context'[d] = "announcing"
      /\ wants' = wants /\ texts' = texts
  BY DEF TypeOK, Commit
<1>. QED
  BY <1>1, <1>2 DEF HeldTracked

(* The other steps leave alone what is tracked, and only an announcement lets *)
(* a context go on.                                                           *)
LEMMA OtherHeld ==
    ASSUME TypeOK, NEW u \in URIs, HeldTracked(u),
           \/ \E c \in Contexts :
                 \/ \E v \in URIs : ReadFile(c, v)
                 \/ ReadFails(c) \/ Announce(c) \/ AnnounceFails(c)
           \/ \E w \in Writers : BeginWrite(w) \/ WriteDisk(w) \/ WriteFails(w) \/ SyncState(w)
           \/ EnterAgain \/ UNCHANGED vars
    PROVE  HeldTracked(u)'
<1>1. Tracked' = Tracked
  BY SameHolders
<1>2. ASSUME NEW d \in Contexts, NEW v \in URIs, ReadFile(d, v)
      PROVE  HeldTracked(u)'
  <2>1. /\ context' = context /\ wants' = wants
        /\ \A c \in Contexts : DOMAIN texts'[c] = DOMAIN texts[c]
    BY <1>2 DEF TypeOK, ReadFile
  <2>. QED
    BY <1>1, <2>1 DEF HeldTracked
<1>3. ASSUME NEW d \in Contexts, ReadFails(d) \/ Announce(d) \/ AnnounceFails(d)
      PROVE  HeldTracked(u)'
  <2>1. /\ wants' = wants /\ texts' = texts
        /\ \A c \in Contexts : c # d => context'[c] = context[c]
        /\ \/ context'[d] = "failed"
           \/ context[d] = "announcing" /\ context'[d] = "inside"
    BY <1>3 DEF TypeOK, ReadFails, Announce, AnnounceFails
  <2>. QED
    BY <1>1, <2>1 DEF HeldTracked
<1>4. CASE \/ \E w \in Writers : BeginWrite(w) \/ WriteDisk(w) \/ WriteFails(w) \/ SyncState(w)
           \/ EnterAgain \/ UNCHANGED vars
  <2>1. UNCHANGED <<context, wants, texts>>
    BY <1>4 DEF BeginWrite, WriteDisk, WriteFails, SyncState, EnterAgain, vars
  <2>. QED
    BY <1>1, <2>1 DEF HeldTracked
<1>. QED
  BY <1>2, <1>3, <1>4

LEMMA HeldKept ==
    ASSUME TypeOK, NEW u \in URIs, Counted(u), HeldTracked(u), [Next]_vars
    PROVE  HeldTracked(u)'
<1>1. CASE \/ \E c \in Contexts :
                 \/ \E v \in URIs : ReadFile(c, v)
                 \/ ReadFails(c) \/ Announce(c) \/ AnnounceFails(c)
           \/ \E w \in Writers : BeginWrite(w) \/ WriteDisk(w) \/ WriteFails(w) \/ SyncState(w)
           \/ EnterAgain \/ UNCHANGED vars
  BY <1>1, OtherHeld
<1>. QED
  BY <1>1, EnterHeld, CommitHeld, ExitHeld DEF Next

LEMMA AllHeldHold == Spec => []AllHeld
<1>1. Init => AllHeld
  BY DEF Init, InitClients, AllHeld, HeldTracked
<1>2. TypeOK /\ ReferencesCounted /\ AllHeld /\ [Next]_vars => AllHeld'
  BY HeldKept DEF AllHeld, ReferencesCounted
<1>. QED
  BY <1>1, <1>2, TypesCorrect, ReferencesBalance, PTL DEF Spec

(* A context that has opened its documents finds all of them tracked until it *)
(* leaves, whatever the others open, close, write and fail at meanwhile.      *)
THEOREM HeldStayTracked == Spec => []HoldersTracked
<1>1. TypeOK /\ AllHeld => HoldersTracked
  BY DEF TypeOK, AllHeld, HeldTracked, HoldersTracked
<1>. QED
  BY <1>1, AllHeldHold, TypesCorrect, PTL

-----------------------------------------------------------------------------
(* DocumentSync implements TextSync, and server, client and file agree. The   *)
(* invariants of DocumentSync speak of quiet documents; FileCurrent and Agreed*)
(* say what holds of a document while it is opened or written, and the lemmas *)
(* about them are about one document each.                                    *)

Opening(c, u) == context[c] \in {"reading", "announcing"} /\ u \in wants[c]
Busy(w, u) == writer[w] \in {"writing", "written"} /\ target[w] = u
Announcing(c, u) == context[c] = "announcing" /\ u \in DOMAIN texts[c]

(* Only one context or writer is at a document.                               *)
OneAtATime ==
    ~ regime.overlap =>
        \A u \in URIs :
            /\ \A c, d \in Contexts : Opening(c, u) /\ Opening(d, u) => c = d
            /\ \A v, w \in Writers : Busy(v, u) /\ Busy(w, u) => v = w
            /\ \A c \in Contexts, w \in Writers : ~ (Opening(c, u) /\ Busy(w, u))

(* What a context reads is not tracked, and what it has read is in the file.  *)
ReadersCurrent ==
    ~ regime.overlap =>
        \A c \in Contexts : context[c] = "reading" =>
            \A u \in DOMAIN texts[c] :
                u \notin Tracked /\ (texts[c][u] # Unread => texts[c][u] = disk[u])

(* What a writer has written is in the file until it updates the document.    *)
WritersCurrent ==
    ~ regime.overlap =>
        \A w \in Writers : writer[w] = "written" => disk[target[w]] = w

(* Between the write and the update the file is ahead of the document.        *)
Ahead(u) == \E w \in Writers : writer[w] = "written" /\ target[w] = u

FileCurrent(u) == ~ regime.overlap /\ u \in Tracked /\ ~ Ahead(u) => FileKept(u)

(* A document whose didOpen is due is tracked as it was read, and not open.   *)
Fresh(c, u) ==
    /\ states[u] = [content |-> texts[c][u], version |-> 0]
    /\ u \notin Stale => server[u] = Unopened

(* Every other document is in step, also while it is written.                 *)
Agreed(u) ==
    Orderly =>
        /\ \A c \in Contexts : Announcing(c, u) => Fresh(c, u)
        /\ u \notin Stale /\ (\A c \in Contexts : ~ Announcing(c, u)) => InStep(u)

Access == OneAtATime /\ ReadersCurrent /\ WritersCurrent
Files == Access /\ \A u \in URIs : FileCurrent(u)
Agreement == \A u \in URIs : Agreed(u)
-----------------------------------------------------------------------------
(* One at a time                                                              *)
LEMMA SameRegime ==
    ASSUME [Next]_vars
    PROVE  regime' = regime
  BY DEF Next, vars, Enter, ReadFile, ReadFails, Commit, Announce, AnnounceFails, Exit,
         BeginWrite, WriteDisk, WriteFails, SyncState, EnterAgain

(* No step but the first of a context or a writer brings one to a document.   *)
LEMMA NobodyNew ==
    ASSUME TypeOK,
           \/ \E c \in Contexts :
                 \/ \E u \in URIs : ReadFile(c, u)
                 \/ ReadFails(c) \/ Commit(c) \/ Announce(c) \/ AnnounceFails(c) \/ Exit(c)
           \/ \E w \in Writers : WriteDisk(w) \/ WriteFails(w) \/ SyncState(w)
           \/ EnterAgain \/ UNCHANGED vars,
           NEW u \in URIs
    PROVE  /\ \A c \in Contexts : Opening(c, u)' => Opening(c, u)
           /\ \A w \in Writers : Busy(w, u)' => Busy(w, u)
<1>1. ASSUME NEW d \in Contexts,
             \/ \E v \in URIs : ReadFile(d, v)
             \/ ReadFails(d) \/ Commit(d) \/ Announce(d) \/ AnnounceFails(d) \/ Exit(d)
      PROVE  /\ \A c \in Contexts : Opening(c, u)' => Opening(c, u)
             /\ \A w \in Writers : Busy(w, u)' => Busy(w, u)
  <2>1. /\ UNCHANGED <<wants, writer, target>>
        /\ \A c \in Contexts : c # d => context'[c] = context[c]
        /\ context'[d] \in {"reading", "announcing"} =>
              context[d] \in {"reading", "announcing"}
    BY <1>1 DEF TypeOK, ReadFile, ReadFails, Commit, Announce, AnnounceFails, Exit
  <2>. QED
    BY <2>1 DEF Opening, Busy
<1>2. ASSUME NEW v \in Writers, WriteDisk(v) \/ WriteFails(v) \/ SyncState(v)
      PROVE  /\ \A c \in Contexts : Opening(c, u)' => Opening(c, u)
             /\ \A w \in Writers : Busy(w, u)' => Busy(w, u)
  <2>1. /\ UNCHANGED <<context, wants, target>>
        /\ \A w \in Writers : w # v => writer'[w] = writer[w]
        /\ writer[v] \in {"writing", "written"}
    BY <1>2 DEF TypeOK, WriteDisk, WriteFails, SyncState
  <2>. QED
    BY <2>1 DEF Opening, Busy
<1>3. CASE EnterAgain \/ UNCHANGED vars
  BY <1>3 DEF EnterAgain, vars, Opening, Busy
<1>. QED
  BY <1>1, <1>2, <1>3

LEMMA OneAtATimeKept ==
    ASSUME TypeOK, OneAtATime, [Next]_vars
    PROVE  OneAtATime'
<1>. SUFFICES ASSUME ~ regime.overlap, NEW u \in URIs
              PROVE  /\ \A c, d \in Contexts : Opening(c, u)' /\ Opening(d, u)' => c = d
                     /\ \A v, w \in Writers : Busy(v, u)' /\ Busy(w, u)' => v = w
                     /\ \A c \in Contexts, w \in Writers : ~ (Opening(c, u)' /\ Busy(w, u)')
  BY SameRegime DEF OneAtATime
<1>1. /\ \A c, d \in Contexts : Opening(c, u) /\ Opening(d, u) => c = d
      /\ \A v, w \in Writers : Busy(v, u) /\ Busy(w, u) => v = w
      /\ \A c \in Contexts, w \in Writers : ~ (Opening(c, u) /\ Busy(w, u))
  BY DEF OneAtATime
<1>2. ASSUME NEW d \in Contexts, NEW U \in SUBSET URIs, Enter(d, U)
      PROVE  /\ \A c \in Contexts : c # d => (Opening(c, u)' <=> Opening(c, u))
             /\ Opening(d, u)' => Quiet(u)
             /\ \A w \in Writers : Busy(w, u)' <=> Busy(w, u)
  BY <1>2 DEF TypeOK, Enter, Opening, Busy, Free
<1>3. ASSUME NEW v \in Writers, BeginWrite(v)
      PROVE  /\ \A w \in Writers : w # v => (Busy(w, u)' <=> Busy(w, u))
             /\ Busy(v, u)' => Quiet(u)
             /\ \A c \in Contexts : Opening(c, u)' <=> Opening(c, u)
  BY <1>3 DEF TypeOK, BeginWrite, Opening, Busy, Free
<1>4. Quiet(u) => /\ \A c \in Contexts : ~ Opening(c, u)
                  /\ \A w \in Writers : ~ Busy(w, u)
  BY DEF Quiet, BeingOpened, BeingWritten, Opening, Busy
<1>5. CASE \E d \in Contexts, U \in SUBSET URIs : Enter(d, U)
  BY <1>1, <1>2, <1>4, <1>5
<1>6. CASE \E v \in Writers : BeginWrite(v)
  BY <1>1, <1>3, <1>4, <1>6
<1>7. CASE \/ \E c \in Contexts :
                 \/ \E v \in URIs : ReadFile(c, v)
                 \/ ReadFails(c) \/ Commit(c) \/ Announce(c) \/ AnnounceFails(c) \/ Exit(c)
           \/ \E w \in Writers : WriteDisk(w) \/ WriteFails(w) \/ SyncState(w)
           \/ EnterAgain \/ UNCHANGED vars
  <2>1. /\ \A c \in Contexts : Opening(c, u)' => Opening(c, u)
        /\ \A w \in Writers : Busy(w, u)' => Busy(w, u)
    BY <1>7, NobodyNew
  <2>. QED
    BY <1>1, <2>1
<1>. QED
  BY <1>5, <1>6, <1>7 DEF Next

-----------------------------------------------------------------------------
(* Files                                                                      *)
LEMMA SomebodyAt ==
    ASSUME TypeOK
    PROVE  /\ \A c \in Contexts : context[c] = "reading" =>
                 \A u \in DOMAIN texts[c] : u \in URIs /\ Opening(c, u)
           /\ \A w \in Writers : writer[w] \in {"writing", "written"} =>
                 target[w] \in URIs /\ Busy(w, target[w])
  BY DEF TypeOK, Opening, Busy

(* What a context records was not tracked before it.                          *)
LEMMA CommitTracks ==
    ASSUME TypeOK, NEW d \in Contexts, Commit(d)
    PROVE  /\ Tracked' = Tracked \cup DOMAIN texts[d]
           /\ \A u \in DOMAIN texts[d] :
                 states'[u] = [content |-> texts[d][u], version |-> 0]
           /\ \A u \in URIs \ DOMAIN texts[d] : states'[u] = states[u]
<1>1. DOMAIN texts[d] \subseteq URIs
  BY DEF TypeOK
<1>2. ASSUME NEW u \in DOMAIN texts[d]
      PROVE  [content |-> texts[d][u], version |-> 0] # NotOpen
  BY <1>2, ConstantsAssumption DEF TypeOK, Commit, Documents
<1>3. states' = [u \in URIs |-> IF u \in DOMAIN texts[d]
                                THEN [content |-> texts[d][u], version |-> 0]
                                ELSE states[u]]
  BY DEF Commit, CommitDocuments
<1>. QED
  BY <1>1, <1>2, <1>3 DEF Tracked

LEMMA ReadersKept ==
    ASSUME TypeOK, OneAtATime, ReadersCurrent, [Next]_vars
    PROVE  ReadersCurrent'
<1>. SUFFICES ASSUME ~ regime.overlap,
                     NEW c \in Contexts, context'[c] = "reading",
                     NEW u \in DOMAIN texts'[c]
              PROVE  /\ (u \notin Tracked)'
                     /\ texts'[c][u] # Unread => texts'[c][u] = disk'[u]
  BY SameRegime DEF ReadersCurrent
<1>. DEFINE Current == u \notin Tracked /\ (texts[c][u] # Unread => texts[c][u] = disk[u])
<1>1. context[c] = "reading" /\ u \in DOMAIN texts[c] => Current
  BY DEF ReadersCurrent
<1>2. ASSUME NEW d \in Contexts, NEW U \in SUBSET URIs, Enter(d, U)
      PROVE  Current'
  <2>1. Tracked' = Tracked /\ disk' = disk
    BY <1>2 DEF Enter, Tracked
  <2>2. CASE c = d
    BY <1>2, <2>1, <2>2 DEF TypeOK, Enter, NewURIs
  <2>3. CASE c # d
    BY <1>1, <1>2, <2>1, <2>3 DEF TypeOK, Enter
  <2>. QED
    BY <2>2, <2>3
<1>3. ASSUME NEW d \in Contexts, NEW v \in URIs, ReadFile(d, v)
      PROVE  Current'
  <2>1. Tracked' = Tracked /\ disk' = disk /\ context' = context
    BY <1>3 DEF ReadFile, Tracked
  <2>2. /\ DOMAIN texts'[c] = DOMAIN texts[c]
        /\ texts'[c][u] = texts[c][u] \/ texts'[c][u] = disk[u]
    BY <1>3 DEF TypeOK, ReadFile
  <2>. QED
    BY <1>1, <2>1, <2>2
<1>4. ASSUME NEW d \in Contexts, Commit(d)
      PROVE  Current'
  <2>1. c # d /\ context[c] = "reading" /\ context[d] = "reading"
    BY <1>4 DEF TypeOK, Commit
  <2>2. texts' = texts /\ disk' = disk
    BY <1>4 DEF Commit
  <2>3. u \notin DOMAIN texts[d]
    BY <2>1, <2>2, SomebodyAt DEF OneAtATime
  <2>. QED
    BY <1>1, <1>4, <2>1, <2>2, <2>3, CommitTracks
<1>5. ASSUME NEW d \in Contexts,
             ReadFails(d) \/ Announce(d) \/ AnnounceFails(d) \/ Exit(d)
      PROVE  Current'
  <2>1. context[c] = "reading" /\ texts' = texts /\ disk' = disk
    BY <1>5 DEF TypeOK, ReadFails, Announce, AnnounceFails, Exit
  <2>2. Tracked' \subseteq Tracked
    BY <1>5 DEF ReadFails, Announce, AnnounceFails, Exit, Close, Tracked
  <2>. QED
    BY <1>1, <2>1, <2>2
<1>6. ASSUME NEW w \in Writers,
             BeginWrite(w) \/ WriteDisk(w) \/ WriteFails(w) \/ SyncState(w)
      PROVE  Current'
  <2>1. Tracked' = Tracked
    BY <1>6, SameHolders
  <2>2. UNCHANGED <<context, texts>>
    BY <1>6 DEF BeginWrite, WriteDisk, WriteFails, SyncState
  <2>3. Opening(c, u) /\ u \in URIs
    BY <2>2, SomebodyAt
  <2>4. disk'[u] = disk[u]
    <3>1. CASE BeginWrite(w) \/ SyncState(w)
      BY <3>1 DEF BeginWrite, SyncState
    <3>2. CASE WriteDisk(w) \/ WriteFails(w)
      <4>1. writer[w] = "writing"
        BY <3>2 DEF WriteDisk, WriteFails
      <4>2. target[w] # u
        BY <2>3, <4>1, SomebodyAt DEF OneAtATime
      <4>. QED
        BY <2>3, <3>2, <4>2 DEF TypeOK, WriteDisk, WriteFails
    <3>. QED
      BY <1>6, <3>1, <3>2
  <2>. QED
    BY <1>1, <2>1, <2>2, <2>4
<1>7. CASE EnterAgain \/ UNCHANGED vars
  BY <1>1, <1>7 DEF EnterAgain, vars, Tracked
<1>. QED
  BY <1>2, <1>3, <1>4, <1>5, <1>6, <1>7 DEF Next

LEMMA WritersKept ==
    ASSUME TypeOK, OneAtATime, WritersCurrent, [Next]_vars
    PROVE  WritersCurrent'
<1>. SUFFICES ASSUME ~ regime.overlap, NEW v \in Writers, writer'[v] = "written"
              PROVE  disk'[target'[v]] = v
  BY SameRegime DEF WritersCurrent
<1>1. target' = target
  BY DEF Next, vars, Enter, ReadFile, ReadFails, Commit, Announce, AnnounceFails, Exit,
         BeginWrite, WriteDisk, WriteFails, SyncState, EnterAgain
<1>2. writer[v] = "written" => disk[target[v]] = v
  BY DEF WritersCurrent
<1>3. ASSUME NEW w \in Writers, BeginWrite(w) \/ SyncState(w)
      PROVE  disk'[target[v]] = v
  BY <1>2, <1>3 DEF TypeOK, BeginWrite, SyncState
<1>4. ASSUME NEW w \in Writers, WriteDisk(w) \/ WriteFails(w)
      PROVE  disk'[target[v]] = v
  <2>1. CASE v = w
    BY <1>4, <2>1 DEF TypeOK, WriteDisk, WriteFails
  <2>2. CASE v # w
    <3>1. writer[v] = "written" /\ writer[w] = "writing"
      BY <1>4, <2>2 DEF TypeOK, WriteDisk, WriteFails
    <3>2. target[v] # target[w]
      BY <2>2, <3>1, SomebodyAt DEF OneAtATime, Busy
    <3>. QED
      BY <1>2, <1>4, <3>1, <3>2 DEF TypeOK, WriteDisk, WriteFails
  <2>. QED
    BY <2>1, <2>2
<1>5. CASE \/ \E c \in Contexts :
                 \/ \E U \in SUBSET URIs : Enter(c, U)
                 \/ \E u \in URIs : ReadFile(c, u)
                 \/ ReadFails(c) \/ Commit(c) \/ Announce(c) \/ AnnounceFails(c) \/ Exit(c)
           \/ EnterAgain \/ UNCHANGED vars
  <2>1. UNCHANGED <<disk, writer>>
    BY <1>5 DEF vars, Enter, ReadFile, ReadFails, Commit, Announce, AnnounceFails, Exit,
                EnterAgain
  <2>. QED
    BY <1>1, <1>2, <2>1
<1>. QED
  BY <1>1, <1>3, <1>4, <1>5 DEF Next

LEMMA AccessKept ==
    ASSUME TypeOK, Access, [Next]_vars
    PROVE  Access'
  BY OneAtATimeKept, ReadersKept, WritersKept DEF Access

(* Steps that leave states, files and writers as they are.                    *)
LEMMA FileKeptByOthers ==
    ASSUME TypeOK, NEW u \in URIs, FileCurrent(u),
           UNCHANGED <<regime, states, disk, writer, target>>
    PROVE  FileCurrent(u)'
  BY DEF FileCurrent, FileKept, Ahead, Tracked

LEMMA FileKeptByWriters ==
    ASSUME TypeOK, Access, NEW u \in URIs, FileCurrent(u), NEW w \in Writers,
           WriteDisk(w) \/ WriteFails(w) \/ SyncState(w)
    PROVE  FileCurrent(u)'
<1>. SUFFICES ASSUME ~ regime.overlap, u \in Tracked', ~ Ahead(u)'
              PROVE  FileKept(u)'
  BY DEF FileCurrent, WriteDisk, WriteFails, SyncState
<1>1. /\ target' = target /\ target[w] \in URIs
      /\ \A v \in Writers : v # w => writer'[v] = writer[v]
      /\ writer[w] \in {"writing", "written"}
  BY DEF TypeOK, WriteDisk, WriteFails, SyncState
<1>2. u \in Tracked
  BY SameHolders
<1>3. CASE u # target[w]
  <2>1. states'[u] = states[u] /\ disk'[u] = disk[u]
    BY <1>2, <1>3 DEF TypeOK, WriteDisk, WriteFails, SyncState, UpdateContent
  <2>2. ~ Ahead(u)
    BY <1>1, <1>3 DEF Ahead
  <2>3. FileKept(u)
    BY <1>2, <2>2 DEF FileCurrent
  <2>. QED
    BY <1>1, <1>3, <2>1, <2>3 DEF FileKept
<1>4. CASE u = target[w]
  <2>1. ~ WriteDisk(w)
    BY <1>1, <1>4 DEF TypeOK, WriteDisk, Ahead
  <2>2. ASSUME writer'[w] = "failed"
        PROVE  FileKept(u)'
    BY <1>1, <1>4, <2>2 DEF FileKept
  <2>3. CASE WriteFails(w)
    BY <2>2, <2>3 DEF TypeOK, WriteFails
  <2>4. CASE SyncState(w)
    <3>1. states'[u].content = w
      BY <1>2, <1>4, <2>4 DEF TypeOK, SyncState, UpdateContent
    <3>2. disk'[u] = w
      BY <1>4, <2>4 DEF SyncState, Access, WritersCurrent
    <3>. QED
      BY <3>1, <3>2 DEF FileKept
  <2>. QED
    BY <2>1, <2>3, <2>4
<1>. QED
  BY <1>3, <1>4

LEMMA FileKeptByReaders ==
    ASSUME TypeOK, Access, NEW u \in URIs, FileCurrent(u), NEW d \in Contexts,
           Commit(d) \/ Exit(d)
    PROVE  FileCurrent(u)'
<1>. SUFFICES ASSUME ~ regime.overlap, u \in Tracked', ~ Ahead(u)'
              PROVE  FileKept(u)'
  BY DEF FileCurrent, Commit, Exit
<1>1. UNCHANGED <<disk, writer, target>> /\ ~ Ahead(u)
  BY DEF Commit, Exit, Ahead
<1>2. CASE u \in Tracked /\ states'[u] = states[u]
  <2>1. FileKept(u)
    BY <1>1, <1>2 DEF FileCurrent
  <2>. QED
    BY <1>1, <1>2, <2>1 DEF FileKept
<1>3. CASE Exit(d)
  <2>1. u \in Tracked /\ states'[u] = states[u]
    BY <1>3 DEF Exit, Close, Tracked
  <2>. QED
    BY <1>2, <2>1
<1>4. CASE Commit(d)
  <2>1. CASE u \in DOMAIN texts[d]
    <3>1. texts[d][u] = disk[u]
      BY <1>4, <2>1 DEF Commit, Access, ReadersCurrent
    <3>2. states'[u] = [content |-> texts[d][u], version |-> 0]
      BY <1>4, <2>1, CommitTracks
    <3>3. states'[u].content = disk'[u]
      BY <1>1, <3>1, <3>2
    <3>. QED
      BY <3>3 DEF FileKept
  <2>2. CASE u \notin DOMAIN texts[d]
    <3>1. u \in Tracked /\ states'[u] = states[u]
      BY <1>4, <2>2, CommitTracks DEF Tracked
    <3>. QED
      BY <1>2, <3>1
  <2>. QED
    BY <2>1, <2>2
<1>. QED
  BY <1>3, <1>4

LEMMA FileStaysCurrent ==
    ASSUME TypeOK, Access, NEW u \in URIs, FileCurrent(u), [Next]_vars
    PROVE  FileCurrent(u)'
<1>1. CASE \/ \E c \in Contexts :
                 \/ \E U \in SUBSET URIs : Enter(c, U)
                 \/ \E v \in URIs : ReadFile(c, v)
                 \/ ReadFails(c) \/ Announce(c) \/ AnnounceFails(c)
           \/ EnterAgain \/ UNCHANGED vars
  <2>1. UNCHANGED <<regime, states, disk, writer, target>>
    BY <1>1 DEF vars, Enter, ReadFile, ReadFails, Announce, AnnounceFails, EnterAgain
  <2>. QED
    BY <2>1, FileKeptByOthers
<1>2. ASSUME NEW w \in Writers, BeginWrite(w)
      PROVE  FileCurrent(u)'
  <2>1. /\ UNCHANGED <<regime, states, disk, target>>
        /\ writer' = [writer EXCEPT ![w] = "writing"] /\ writer[w] = "idle"
    BY <1>2 DEF BeginWrite
  <2>2. \A v \in Writers :
           /\ writer'[v] = "written" <=> writer[v] = "written"
           /\ writer'[v] = "failed" <=> writer[v] = "failed"
    BY <2>1 DEF TypeOK
  <2>. QED
    BY <2>1, <2>2 DEF FileCurrent, FileKept, Ahead, Tracked
<1>. QED
  BY <1>1, <1>2, FileKeptByWriters, FileKeptByReaders DEF Next

LEMMA InitFiles == Init => Files
  BY DEF Init, InitClients, Files, Access, OneAtATime, Opening, Busy, ReadersCurrent,
         WritersCurrent, FileCurrent, Tracked

LEMMA FilesHold == Spec => []Files
<1>1. TypeOK /\ Files /\ [Next]_vars => Files'
  BY AccessKept, FileStaysCurrent DEF Files
<1>. QED
  BY <1>1, InitFiles, TypesCorrect, PTL DEF Spec

(* The text of a document that nobody opens or writes is that of its file, as *)
(* long as callers do not overlap on one and no write of it has failed,       *)
(* whatever else fails.                                                       *)
THEOREM TextKept == Spec => []TextOfFile
<1>1. Files => TextOfFile
  BY DEF Files, FileCurrent, TextOfFile, Tracked, Ahead, Quiet, BeingWritten
<1>. QED
  BY <1>1, FilesHold, PTL

-----------------------------------------------------------------------------
(* Server and client                                                          *)
LEMMA SameStale ==
    ASSUME UNCHANGED <<regime, earlier>>
    PROVE  Stale' = Stale /\ Orderly' = Orderly
  BY DEF Stale, Orderly

(* The documents a session leaves counted are stale in the next.              *)
LEMMA StaleGrows ==
    ASSUME TypeOK, EnterAgain
    PROVE  Stale' = Stale \cup {u \in URIs : refs[u] > 0}
<1>. DEFINE Left == {u \in URIs : refs[u] > 0}
<1>1. earlier \in Seq(SUBSET URIs) /\ Left \in SUBSET URIs /\ earlier' = Append(earlier, Left)
  BY DEF TypeOK, EnterAgain
<1>. HIDE DEF Left
<1>2. /\ DOMAIN earlier' = DOMAIN earlier \cup {Len(earlier) + 1}
      /\ \A n \in DOMAIN earlier : earlier'[n] = earlier[n]
      /\ earlier'[Len(earlier) + 1] = Left
  BY <1>1
<1>3. Stale' = Stale \cup Left
  BY <1>2 DEF Stale
<1>. QED
  BY <1>3 DEF Left

LEMMA AnnouncingOpens ==
    ASSUME TypeOK, NEW c \in Contexts, NEW u, Announcing(c, u)
    PROVE  u \in URIs /\ u \in wants[c] /\ Opening(c, u)
  BY DEF TypeOK, Announcing, Opening

(* Steps that send nothing and record nothing.                                *)
LEMMA AgreedAlone ==
    ASSUME NEW u \in URIs, Agreed(u),
           UNCHANGED <<regime, earlier, states, server>>,
           \A c \in Contexts : /\ Announcing(c, u)' <=> Announcing(c, u)
                               /\ Announcing(c, u) => texts'[c][u] = texts[c][u]
    PROVE  Agreed(u)'
<1>1. /\ Stale' = Stale /\ Orderly' = Orderly
      /\ InStep(u)' <=> InStep(u)
      /\ \A c \in Contexts : Announcing(c, u) => (Fresh(c, u)' <=> Fresh(c, u))
  BY SameStale DEF Fresh, InStep, Tracked
<1>. QED
  BY <1>1 DEF Agreed

LEMMA QuietSteps ==
    ASSUME TypeOK, NEW u \in URIs, Agreed(u),
           \/ \E c \in Contexts :
                 \/ \E U \in SUBSET URIs : Enter(c, U)
                 \/ \E v \in URIs : ReadFile(c, v)
                 \/ ReadFails(c)
           \/ \E w \in Writers : BeginWrite(w) \/ WriteDisk(w) \/ WriteFails(w)
           \/ UNCHANGED vars
    PROVE  Agreed(u)'
<1>1. UNCHANGED <<regime, earlier, states, server>>
  BY DEF Enter, ReadFile, ReadFails, BeginWrite, WriteDisk, WriteFails, vars
<1>2. ASSUME NEW c \in Contexts
      PROVE  /\ Announcing(c, u)' <=> Announcing(c, u)
             /\ Announcing(c, u) => texts'[c][u] = texts[c][u]
  <2>1. ASSUME NEW d \in Contexts,
               \/ \E U \in SUBSET URIs : Enter(d, U)
               \/ \E v \in URIs : ReadFile(d, v)
               \/ ReadFails(d)
        PROVE  /\ c # d => context'[c] = context[c] /\ texts'[c] = texts[c]
               /\ context[d] # "announcing" /\ context'[d] # "announcing"
    BY <2>1 DEF TypeOK, Enter, ReadFile, ReadFails
  <2>2. CASE \/ \E w \in Writers : BeginWrite(w) \/ WriteDisk(w) \/ WriteFails(w)
             \/ UNCHANGED vars
    <3>1. UNCHANGED <<context, texts>>
      BY <2>2 DEF BeginWrite, WriteDisk, WriteFails, vars
    <3>. QED
      BY <3>1 DEF Announcing
  <2>. QED
    BY <2>1, <2>2 DEF Announcing
<1>. QED
  BY <1>1, <1>2, AgreedAlone

(* What was read was not tracked and hence not open.                          *)
LEMMA CommitAgrees ==
    ASSUME TypeOK, Access, NEW u \in URIs, Agreed(u), NEW d \in Contexts, Commit(d)
    PROVE  Agreed(u)'
<1>1. UNCHANGED <<regime, earlier, server, wants, texts>>
  BY DEF Commit
<1>. SUFFICES ASSUME Orderly
              PROVE  /\ \A c \in Contexts : Announcing(c, u)' => Fresh(c, u)'
                     /\ u \notin Stale /\ (\A c \in Contexts : ~ Announcing(c, u)')
                           => InStep(u)'
  BY <1>1, SameStale DEF Agreed
<1>2. ~ regime.overlap
  BY DEF Orderly
<1>3. \A c \in Contexts : Announcing(c, u)' <=>
                             Announcing(c, u) \/ (c = d /\ u \in DOMAIN texts[d])
  BY DEF TypeOK, Commit, Announcing
<1>4. CASE u \in DOMAIN texts[d]
  <2>1. Opening(d, u)
    BY <1>4, SomebodyAt DEF Commit
  <2>2. \A c \in Contexts : ~ Announcing(c, u)
    BY <1>2, <2>1, AnnouncingOpens DEF Access, OneAtATime, Announcing, Commit
  <2>3. u \notin Tracked
    BY <1>2, <1>4 DEF Commit, Access, ReadersCurrent
  <2>4. u \notin Stale => server[u] = Unopened
    BY <2>2, <2>3 DEF Agreed, InStep
  <2>5. Fresh(d, u)'
    BY <1>1, <1>4, <2>4, CommitTracks, SameStale DEF Fresh
  <2>. QED
    BY <1>3, <1>4, <2>2, <2>5
<1>5. CASE u \notin DOMAIN texts[d]
  <2>1. states'[u] = states[u]
    BY <1>5, CommitTracks
  <2>2. \A c \in Contexts : Announcing(c, u) => Fresh(c, u)'
    BY <1>1, <2>1, SameStale DEF Agreed, Fresh
  <2>3. InStep(u) => InStep(u)'
    BY <1>1, <2>1 DEF InStep, Tracked
  <2>. QED
    BY <1>3, <1>5, <2>2, <2>3 DEF Agreed
<1>. QED
  BY <1>4, <1>5

(* didOpen for documents that are not open, with the text the client records. *)
LEMMA AnnounceAgrees ==
    ASSUME TypeOK, Access, NEW u \in URIs, HeldTracked(u), Agreed(u),
           NEW d \in Contexts, Announce(d)
    PROVE  Agreed(u)'
<1>1. UNCHANGED <<regime, earlier, states, wants, texts>>
  BY DEF Announce
<1>. SUFFICES ASSUME Orderly
              PROVE  /\ \A c \in Contexts : Announcing(c, u)' => Fresh(c, u)'
                     /\ u \notin Stale /\ (\A c \in Contexts : ~ Announcing(c, u)')
                           => InStep(u)'
  BY <1>1, SameStale DEF Agreed
<1>2. ~ regime.overlap
  BY DEF Orderly
<1>3. \A c \in Contexts : Announcing(c, u)' <=> c # d /\ Announcing(c, u)
  BY DEF TypeOK, Announce, Announcing
<1>4. CASE u \in DOMAIN texts[d]
  <2>1. Announcing(d, u)
    BY <1>4 DEF Announcing, Announce
  <2>2. \A c \in Contexts : c # d => ~ Announcing(c, u)
    BY <1>2, <2>1, AnnouncingOpens DEF Access, OneAtATime
  <2>3. Fresh(d, u)
    BY <2>1 DEF Agreed
  <2>4. u \in Tracked
    BY <2>1, AnnouncingOpens DEF HeldTracked, Announcing
  <2>5. u \notin Stale => server'[u] = [opens |-> 1, doc |-> states[u]]
    BY <1>4, <2>3 DEF Announce, DidOpen, Fresh, Unopened
  <2>. QED
    BY <1>1, <1>3, <2>2, <2>4, <2>5 DEF InStep, Tracked
<1>5. CASE u \notin DOMAIN texts[d]
  <2>1. server'[u] = server[u] /\ ~ Announcing(d, u)
    BY <1>5 DEF Announce, DidOpen, Announcing
  <2>2. \A c \in Contexts : Announcing(c, u) => Fresh(c, u)'
    BY <1>1, <2>1, SameStale DEF Agreed, Fresh
  <2>3. InStep(u) => InStep(u)'
    BY <1>1, <2>1 DEF InStep, Tracked
  <2>. QED
    BY <1>3, <2>1, <2>2, <2>3 DEF Agreed
<1>. QED
  BY <1>4, <1>5

(* What is closed was nobody else's and open once.                            *)
LEMMA ReleasedAlone ==
    ASSUME TypeOK, NEW u \in URIs, Counted(u), HeldTracked(u), NEW d \in Contexts, Exit(d),
           u \in Released(wants[d]), NEW c \in Contexts, Announcing(c, u)
    PROVE  FALSE
<1>1. u \in URIs /\ states'[u] = NotOpen
  BY AnnouncingOpens DEF Exit, Close
<1>2. c # d /\ context[c] = "announcing" /\ u \in wants[c] /\ u \in Tracked
  BY AnnouncingOpens DEF Announcing, HeldTracked, Exit
<1>3. (u \in Tracked)'
  BY <1>2, ExitKeepsOthers
<1>. QED
  BY <1>1, <1>3 DEF Tracked

LEMMA ExitAgrees ==
    ASSUME TypeOK, NEW u \in URIs, Counted(u), HeldTracked(u), Agreed(u),
           NEW d \in Contexts, Exit(d)
    PROVE  Agreed(u)'
<1>1. UNCHANGED <<regime, earlier, wants, texts>>
  BY DEF Exit
<1>. SUFFICES ASSUME Orderly
              PROVE  /\ \A c \in Contexts : Announcing(c, u)' => Fresh(c, u)'
                     /\ u \notin Stale /\ (\A c \in Contexts : ~ Announcing(c, u)')
                           => InStep(u)'
  BY <1>1, SameStale DEF Agreed
<1>2. \A c \in Contexts : /\ Announcing(c, u)' <=> Announcing(c, u)
                          /\ Announcing(c, u) => c # d
  BY DEF TypeOK, Exit, Announcing
<1>3. CASE u \in Released(wants[d])
  <2>1. states'[u] = NotOpen
    BY <1>3 DEF Exit, Close
  <2>2. \A c \in Contexts : ~ Announcing(c, u)
    BY <1>3, ReleasedAlone
  <2>3. InStep(u) => server'[u] = Unopened
    BY <1>3 DEF Exit, ClosedURIs, InStep
  <2>. QED
    BY <1>2, <2>1, <2>2, <2>3 DEF Agreed, InStep, Tracked
<1>4. CASE u \notin Released(wants[d])
  <2>1. states'[u] = states[u] /\ server'[u] = server[u]
    BY <1>4 DEF Exit, Close, ClosedURIs
  <2>2. \A c \in Contexts : Announcing(c, u) => Fresh(c, u)'
    BY <1>1, <2>1, SameStale DEF Agreed, Fresh
  <2>3. InStep(u) => InStep(u)'
    BY <2>1 DEF InStep, Tracked
  <2>. QED
    BY <1>2, <2>2, <2>3 DEF Agreed
<1>. QED
  BY <1>3, <1>4

(* A document is not written while it is announced, so that its change goes   *)
(* to a server that has it.                                                   *)
LEMMA SyncMeetsOpen ==
    ASSUME TypeOK, Access, NEW w \in Writers, SyncState(w), Agreed(target[w]), Orderly
    PROVE  /\ \A c \in Contexts : ~ Announcing(c, target[w])
           /\ target[w] \notin Stale => InStep(target[w])
<1>1. writer[w] = "written" /\ ~ regime.overlap
  BY DEF SyncState, Orderly
<1>2. \A c \in Contexts : ~ Announcing(c, target[w])
  BY <1>1, SomebodyAt, AnnouncingOpens DEF Access, OneAtATime
<1>. QED
  BY <1>1, <1>2, SomebodyAt DEF Agreed

LEMMA SyncAgrees ==
    ASSUME TypeOK, Access, NEW u \in URIs, Agreed(u), NEW w \in Writers, SyncState(w)
    PROVE  Agreed(u)'
<1>1. UNCHANGED <<regime, earlier, context, wants, texts>> /\ target[w] \in URIs
  BY DEF TypeOK, SyncState
<1>. SUFFICES ASSUME Orderly
              PROVE  /\ \A c \in Contexts : Announcing(c, u)' => Fresh(c, u)'
                     /\ u \notin Stale /\ (\A c \in Contexts : ~ Announcing(c, u)')
                           => InStep(u)'
  BY <1>1, SameStale DEF Agreed
<1>2. \A c \in Contexts : Announcing(c, u)' <=> Announcing(c, u)
  BY <1>1 DEF Announcing
<1>3. CASE u = target[w]
  <2>1. u \notin Stale => InStep(u)
    BY <1>3, SyncMeetsOpen
  <2>2. server' = IF u \in Tracked THEN [server EXCEPT ![u].doc = states'[u]] ELSE server
    BY <1>3 DEF SyncState, Orderly
  <2>3. u \notin Tracked => states' = states
    BY <1>3 DEF SyncState, UpdateContent
  <2>4. InStep(u) => InStep(u)'
    <3>1. CASE u \in Tracked
      <4>1. InStep(u) => server'[u] = [opens |-> 1, doc |-> states'[u]]
        BY <2>2, <3>1 DEF TypeOK, InStep
      <4>2. (u \in Tracked)'
        BY <3>1, SameHolders
      <4>. QED
        BY <4>1, <4>2 DEF InStep
    <3>2. CASE u \notin Tracked
      BY <2>2, <2>3, <3>2 DEF InStep, Tracked
    <3>. QED
      BY <3>1, <3>2
  <2>. QED
    BY <1>2, <1>3, <2>1, <2>4, SyncMeetsOpen
<1>4. CASE u # target[w]
  <2>1. states'[u] = states[u] /\ server'[u] = server[u]
    BY <1>1, <1>4 DEF TypeOK, SyncState, UpdateContent
  <2>2. \A c \in Contexts : Announcing(c, u) => Fresh(c, u)'
    BY <1>1, <2>1, SameStale DEF Agreed, Fresh
  <2>3. InStep(u) => InStep(u)'
    BY <2>1 DEF InStep, Tracked
  <2>. QED
    BY <1>2, <2>2, <2>3 DEF Agreed
<1>. QED
  BY <1>3, <1>4

(* The next server has nothing open, and what is still tracked is stale.      *)
LEMMA AgainAgrees ==
    ASSUME TypeOK, NEW u \in URIs, Counted(u), Agreed(u), EnterAgain
    PROVE  Agreed(u)'
<1>1. UNCHANGED <<regime, states, refs, context, texts>>
  BY DEF EnterAgain
<1>2. \A c \in Contexts : ~ Announcing(c, u)'
  <2>. SUFFICES ASSUME NEW c \in Contexts, Announcing(c, u)
                PROVE  FALSE
    BY <1>1 DEF Announcing
  <2>. QED
    BY AnnouncingOpens DEF EnterAgain, Quiet, BeingOpened, Opening
<1>3. ASSUME u \notin Stale'
      PROVE  InStep(u)'
  <2>1. u \notin Tracked
    BY <1>3, StaleGrows DEF Counted
  <2>2. server'[u] = Unopened
    BY DEF EnterAgain
  <2>. QED
    BY <1>1, <2>1, <2>2 DEF InStep, Tracked
<1>. QED
  BY <1>2, <1>3 DEF Agreed

LEMMA StaysAgreed ==
    ASSUME TypeOK, Access, NEW u \in URIs, Counted(u), HeldTracked(u), Agreed(u), [Next]_vars
    PROVE  Agreed(u)'
<1>1. CASE \E d \in Contexts : AnnounceFails(d)
  <2>1. ~ Orderly /\ UNCHANGED <<regime, earlier>>
    BY <1>1 DEF AnnounceFails, Orderly
  <2>. QED
    BY <2>1, SameStale DEF Agreed
<1>. QED
  BY <1>1, QuietSteps, CommitAgrees, AnnounceAgrees, ExitAgrees, SyncAgrees, AgainAgrees
     DEF Next

LEMMA InitAgreement == Init => Agreement
  BY DEF Init, InitClients, Agreement, Agreed, Announcing, InStep, Tracked

LEMMA AgreementHolds == Spec => []Agreement
<1>1. /\ TypeOK /\ ReferencesCounted /\ AllHeld /\ Files /\ Agreement /\ [Next]_vars
      => Agreement'
  BY StaysAgreed DEF Files, Agreement, AllHeld, ReferencesCounted
<1>. QED
  BY <1>1, InitAgreement, FilesHold, TypesCorrect, ReferencesBalance, AllHeldHold, PTL
     DEF Spec

(* The server has a document open exactly when the client tracks it, with the *)
(* client's text and version, whenever nobody opens or writes it, for orderly *)
(* callers in any session, but for documents an earlier one left counted.     *)
THEOREM ServerKeptInStep == Spec => []ServerInStep
<1>1. TypeOK /\ Agreement => ServerInStep
  <2>. SUFFICES ASSUME TypeOK, Agreement, Orderly, NEW u \in URIs \ Stale, Quiet(u)
                PROVE  InStep(u)
    BY DEF ServerInStep
  <2>1. \A c \in Contexts : ~ Announcing(c, u)
    BY AnnouncingOpens DEF Quiet, BeingOpened, Opening
  <2>. QED
    BY <2>1 DEF Agreement, Agreed
<1>. QED
  BY <1>1, AgreementHolds, TypesCorrect, PTL

-----------------------------------------------------------------------------
(* What is told to the server                                                 *)
LEMMA AnnounceSpoken ==
    ASSUME TypeOK, AllHeld, Agreement, Orderly, NEW d \in Contexts, Announce(d)
    PROVE  T!Next
<1>. DEFINE new == [u \in DOMAIN texts[d] \ Stale |-> texts[d][u]]
<1>1. Stale' = Stale /\ Orderly'
  BY SameStale DEF Announce
<1>2. ASSUME NEW u \in DOMAIN texts[d]
      PROVE  /\ u \in URIs /\ texts[d][u] \in Contents
             /\ u \notin Stale => server[u] = Unopened
  <2>1. Announcing(d, u)
    BY <1>2 DEF Announcing, Announce
  <2>2. u \in Tracked
    BY <2>1, AnnouncingOpens DEF AllHeld, HeldTracked, Announcing
  <2>3. Fresh(d, u) /\ u \in URIs
    BY <2>1, AnnouncingOpens DEF Agreement, Agreed
  <2>4. states[u] \in Documents
    BY <2>2, <2>3 DEF TypeOK, Tracked
  <2>. QED
    BY <2>3, <2>4 DEF Fresh, Documents
<1>3. new \in [DOMAIN new -> Contents] /\ DOMAIN new \in SUBSET URIs
  BY <1>2
<1>4. \A u \in DOMAIN new : Told[u] = T!Unopened
  BY <1>2 DEF Told, T!Unopened, Unopened
<1>5. Told' = [u \in URIs |->
                 IF u \in DOMAIN new
                 THEN [opens |-> 1, doc |-> [content |-> new[u], version |-> 0]]
                 ELSE Told[u]]
  BY <1>1, <1>2 DEF Told, Announce, DidOpen, Unopened
<1>6. T!DidOpen(new)
  BY <1>4, <1>5 DEF T!DidOpen
<1>. HIDE DEF new
<1>. QED
  BY <1>3, <1>6 DEF T!Next

LEMMA ExitSpoken ==
    ASSUME TypeOK, ReferencesCounted, AllHeld, Agreement, Orderly,
           NEW d \in Contexts, Exit(d)
    PROVE  T!Next
<1>. DEFINE closed == ClosedURIs(wants[d]) \ Stale
<1>1. Stale' = Stale /\ Orderly'
  BY SameStale DEF Exit
<1>2. ASSUME NEW u \in closed
      PROVE  u \in URIs /\ server[u].opens = 1
  <2>1. u \in URIs /\ u \in Tracked /\ u \in Released(wants[d]) /\ u \notin Stale
    BY <1>2 DEF ClosedURIs, Tracked
  <2>2. \A c \in Contexts : ~ Announcing(c, u)
    BY <2>1, ReleasedAlone DEF ReferencesCounted, AllHeld
  <2>3. InStep(u)
    BY <2>1, <2>2 DEF Agreement, Agreed
  <2>. QED
    BY <2>1, <2>3 DEF InStep
<1>3. \A u \in closed : Told[u].opens = 1
  BY <1>2 DEF Told
<1>4. Told' = [u \in URIs |-> IF u \in closed THEN T!Unopened ELSE Told[u]]
  BY <1>1, <1>2 DEF Told, Exit, T!Unopened, Unopened
<1>5. T!DidClose(closed)
  BY <1>3, <1>4 DEF T!DidClose
<1>6. closed \in SUBSET URIs
  BY <1>2
<1>. QED
  BY <1>5, <1>6 DEF T!Next

LEMMA SyncSpoken ==
    ASSUME TypeOK, Access, Agreement, Orderly, NEW w \in Writers, SyncState(w)
    PROVE  [T!Next]_Told
<1>. DEFINE u == target[w]
<1>1. Stale' = Stale /\ Orderly'
  BY SameStale DEF SyncState
<1>2. u \in URIs /\ w \in Contents
  BY ConstantsAssumption DEF TypeOK
<1>3. server' = IF u \in Tracked THEN [server EXCEPT ![u].doc = states'[u]] ELSE server
  BY DEF SyncState, Orderly
<1>4. CASE u \in Tracked /\ u \notin Stale
  <2>1. server[u] = [opens |-> 1, doc |-> states[u]]
    BY <1>2, <1>4, SyncMeetsOpen DEF InStep, Agreement
  <2>2. states'[u] = [content |-> w, version |-> states[u].version + 1]
    BY <1>2, <1>4 DEF TypeOK, SyncState, UpdateContent
  <2>3. Told[u] = [opens |-> 1, doc |-> states[u]]
    BY <1>2, <1>4, <2>1 DEF Told
  <2>4. Told' = [Told EXCEPT ![u] = [opens |-> 1, doc |-> states'[u]]]
    <3>1. server' = [server EXCEPT ![u] = [server[u] EXCEPT !.doc = states'[u]]]
      BY <1>3, <1>4
    <3>2. [server[u] EXCEPT !.doc = states'[u]] = [opens |-> 1, doc |-> states'[u]]
      BY <2>1
    <3>. QED
      BY <1>1, <1>2, <1>4, <3>1, <3>2 DEF Told, TypeOK
  <2>5. T!DidChange(u, w)
    <3>1. [Told[u] EXCEPT !.doc = [content |-> w, version |-> Told[u].doc.version + 1]]
             = [opens |-> 1, doc |-> states'[u]]
      BY <2>2, <2>3
    <3>2. Told' = [Told EXCEPT ![u] =
            [Told[u] EXCEPT !.doc = [content |-> w, version |-> Told[u].doc.version + 1]]]
      BY <2>4, <3>1
    <3>. QED
      BY <2>3, <3>2 DEF T!DidChange
  <2>. QED
    BY <1>2, <2>5 DEF T!Next
<1>5. CASE u \notin Tracked \/ u \in Stale
  <2>1. \A v \in URIs \ Stale : server'[v] = server[v]
    BY <1>2, <1>3, <1>5 DEF TypeOK
  <2>. QED
    BY <1>1, <2>1 DEF Told
<1>. QED
  BY <1>4, <1>5

LEMMA StepSpoken ==
    ASSUME TypeOK, ReferencesCounted, AllHeld, Files, Agreement, [Next]_vars
    PROVE  [T!Next]_Told
<1>1. CASE ~ Orderly
  BY <1>1, SameRegime DEF Told, Orderly
<1>. SUFFICES ASSUME Orderly PROVE [T!Next]_Told
  BY <1>1
<1>2. CASE UNCHANGED <<regime, earlier, server>>
  BY <1>2, SameStale DEF Told
<1>3. CASE \/ \E c \in Contexts :
                 \/ \E U \in SUBSET URIs : Enter(c, U)
                 \/ \E v \in URIs : ReadFile(c, v)
                 \/ ReadFails(c) \/ Commit(c)
           \/ \E w \in Writers : BeginWrite(w) \/ WriteDisk(w) \/ WriteFails(w)
           \/ UNCHANGED vars
  BY <1>2, <1>3 DEF Enter, ReadFile, ReadFails, Commit, BeginWrite, WriteDisk, WriteFails, vars
<1>4. CASE \E c \in Contexts : AnnounceFails(c)
  BY <1>4 DEF AnnounceFails, Orderly
<1>5. CASE EnterAgain
  <2>1. Told' = [u \in URIs |-> T!Unopened]
    BY <1>5 DEF EnterAgain, Told, T!Unopened, Unopened
  <2>. QED
    BY <2>1 DEF T!Replaced, T!Next
<1>. QED
  BY <1>3, <1>4, <1>5, AnnounceSpoken, ExitSpoken, SyncSpoken DEF Next, Files

(* The notifications of all contexts and writers together open no document    *)
(* twice, change and close none that is not open, and number the changes of   *)
(* each, for orderly callers in any session: DocumentSync implements TextSync.*)
THEOREM ImplementsTextSync == Spec => SpeaksTextSync
<1>1. Init => T!Init
  BY DEF Init, InitClients, Told, T!Init, T!Unopened, Unopened
<1>2. /\ TypeOK /\ ReferencesCounted /\ AllHeld /\ Files /\ Agreement /\ [Next]_vars
      => [T!Next]_Told
  BY StepSpoken
<1>. QED
  BY <1>1, <1>2, AgreementHolds, FilesHold, TypesCorrect, ReferencesBalance, AllHeldHold, PTL
     DEF Spec, SpeaksTextSync, T!Spec
=============================================================================
