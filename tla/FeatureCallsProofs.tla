-------------------------- MODULE FeatureCallsProofs --------------------------
(* Proofs about FeatureCalls. Of the calls, for any number of tasks, files    *)
(* and items and any client classes: a step of a call is a step of its        *)
(* context or none, so what DocumentSyncProofs shows of contexts holds of     *)
(* calls, and with the stage of every call tied to its context it says which  *)
(* files are open while a call asks and after all calls have ended. Of the    *)
(* handshake, for any class composed of the catalogue's mixins: what a class  *)
(* has to look like for the server to be told of every mixin it has and of    *)
(* nothing that no hook answers for. The shipped classes do (MCFeatureCalls). *)
EXTENDS FeatureCalls, DocumentSyncProofs

(* Nothing is asked before the answer, and while the task group runs every    *)
(* item is answered or being asked about.                                     *)
Accounted(t) ==
    /\ stage[t] \in {"idle", "opening", "asked"} =>
           items[t] = {} /\ pending[t] = {} /\ answered[t] = {}
    /\ stage[t] = "following" => items[t] = pending[t] \cup answered[t]
    /\ stage[t] \in Ended => pending[t] = {}
    /\ stage[t] = "returned" => answered[t] = items[t]

ItemsAccounted == \A t \in Tasks : Accounted(t)

(* A call asks inside open_files, or is on its way in, or its context is over *)
(* or was never entered; one that failed is that of a call that raised.       *)
InItsContext(t) ==
    /\ AskedInside(t) => context[t] = "inside"
    /\ stage[t] = "opening" => call[t].file /\ context[t] \in {"reading", "announcing"}
    /\ ~ AskedInside(t) /\ stage[t] # "opening" =>
           context[t] \in {"out", "left"} \/ (stage[t] = "raised" /\ context[t] = "failed")

AllInContexts == \A t \in Tasks : InItsContext(t)

Calling ==
    /\ class \in DOMAIN Classes
    /\ DOMAIN call = Tasks
    /\ \A t \in Tasks : {call[t].file, call[t].inside} \subseteq BOOLEAN
    /\ \A t \in Tasks : stage[t] # "idle" => call[t] \in Offered[class]
    /\ stage \in [Tasks -> Stages]
    /\ items \in [Tasks -> SUBSET Items]
    /\ pending \in [Tasks -> SUBSET Items]
    /\ answered \in [Tasks -> SUBSET Items]
    /\ \A t \in Tasks : pending[t] \cup answered[t] \subseteq items[t]

ShakingHands ==
    /\ phase \in {"built", "declared", "running", "refused"}
    /\ phase = "built" <=> declared = {}
    /\ phase = "built" <=> hooked = {}

IInv == Calling /\ ItemsAccounted /\ AllInContexts

-----------------------------------------------------------------------------
(* Calls and contexts                                                         *)
ContextStep(c) ==
    \/ \E U \in (SUBSET URIs) \ {{}} : Enter(c, U)
    \/ \E u \in URIs : ReadFile(c, u)
    \/ ReadFails(c) \/ Commit(c) \/ Announce(c) \/ AnnounceFails(c) \/ Exit(c)
    \/ UNCHANGED vars

(* A call takes the steps of its context and no other's.                      *)
LEMMA CallStep ==
    ASSUME NEW t \in Tasks, MakeCall(t)
    PROVE  ContextStep(t) /\ UNCHANGED handshake
<1>1. ASSUME NEW k, Begin(t, k)
      PROVE  ContextStep(t)
  <2>1. CASE UNCHANGED vars
    BY <2>1 DEF ContextStep
  <2>2. ASSUME NEW u \in URIs, Enter(t, {u})
        PROVE  ContextStep(t)
    <3>1. {u} \in (SUBSET URIs) \ {{}}
      OBVIOUS
    <3>. QED
      BY <2>2, <3>1 DEF ContextStep
  <2>. QED
    BY <1>1, <2>1, <2>2 DEF Begin
<1>2. ASSUME Proceed(t)
      PROVE  ContextStep(t)
  BY <1>2 DEF Proceed, ContextStep, Open, Ask, OpenFails, Answer, Fail, Leave,
              ItemAnswered, ItemFails, CancelItem, Finish
<1>. QED
  BY <1>1, <1>2 DEF MakeCall

LEMMA CallsStep ==
    ASSUME [CallsNext]_callVars
    PROVE  \/ \E t \in Tasks : ContextStep(t) /\ UNCHANGED handshake
           \/ UNCHANGED calls
<1>1. CASE Handshake
  BY <1>1 DEF Handshake, SendInitialize, CheckServer
<1>2. CASE \E t \in Tasks : MakeCall(t)
  BY <1>2, CallStep
<1>3. CASE UNCHANGED callVars
  BY <1>3 DEF callVars
<1>. QED
  BY <1>1, <1>2, <1>3 DEF CallsNext

(* What the calls do, contexts do.                                            *)
LEMMA CallsAreContexts == CallsSpec => Spec
<1>1. CallsInit => Init
  BY DEF CallsInit
<1>2. [CallsNext]_callVars => [Next]_vars
  BY CallsStep DEF ContextStep, Tasks, calls, Next
<1>. QED
  BY <1>1, <1>2, PTL DEF CallsSpec, Spec

(* So of the contexts holds what DocumentSyncProofs shows.                    *)
Synchronised == TypeOK /\ ReferencesCounted /\ HoldersTracked /\ OneAtATime /\ Agreement

LEMMA SyncHolds == CallsSpec => []Synchronised
<1>1. Files => OneAtATime
  BY DEF Files, Access
<1>. QED
  BY <1>1, CallsAreContexts, TypesCorrect, ReferencesBalance, HeldStayTracked, FilesHold,
     AgreementHolds, PTL DEF Synchronised

-----------------------------------------------------------------------------
(* Calls                                                                      *)

SameOf(s) == UNCHANGED <<call[s], stage[s], items[s], pending[s], answered[s]>>

LEMMA OtherContexts ==
    ASSUME TypeOK, NEW t \in Tasks, ContextStep(t)
    PROVE  \A s \in Tasks : s # t => context'[s] = context[s]
  BY DEF TypeOK, Tasks, ContextStep, Enter, ReadFile, ReadFails, Commit, Announce,
         AnnounceFails, Exit, vars

(* A step of one task leaves the others alone.                                *)
LEMMA OthersKept ==
    ASSUME IInv, TypeOK, NEW t \in Tasks, ContextStep(t),
           Accounted(t)', InItsContext(t)',
           \A s \in Tasks : s # t => SameOf(s)
    PROVE  ItemsAccounted' /\ AllInContexts'
<1>. SUFFICES ASSUME NEW s \in Tasks, s # t
              PROVE  Accounted(s)' /\ InItsContext(s)'
  BY DEF ItemsAccounted, AllInContexts
<1>1. SameOf(s) /\ context'[s] = context[s]
  BY OtherContexts
<1>2. Accounted(s)'
  BY <1>1 DEF IInv, ItemsAccounted, Accounted, SameOf
<1>3. InItsContext(s)'
  BY <1>1 DEF IInv, AllInContexts, InItsContext, AskedInside, SameOf
<1>. QED
  BY <1>2, <1>3

(* Leaving the file ends the context of a call that is inside.                *)
LEMMA Leaves ==
    ASSUME IInv, TypeOK, NEW t \in Tasks, NEW leaves, Leave(t, leaves)
    PROVE  /\ call[t].file /\ leaves => context[t] = "inside" /\ context'[t] = "left"
           /\ ~ (call[t].file /\ leaves) => context'[t] = context[t]
  BY DEF TypeOK, Tasks, Leave, Exit, vars

LEMMA Begins ==
    ASSUME IInv, TypeOK, NEW t \in Tasks, NEW k \in Offered[class], Begin(t, k),
           MakeCall(t)
    PROVE  IInv'
<1>1. /\ {k.file, k.inside, k.notifies} \subseteq BOOLEAN
      /\ k.notifies => ~ k.file
  BY ClassesAssumption DEF IInv, Calling
<1>2. /\ call' = [call EXCEPT ![t] = k] /\ stage[t] = "idle" /\ class' = class
      /\ UNCHANGED <<items, pending, answered>>
  BY CallStep DEF Begin, handshake
<1>3. \/ /\ ~ k.file /\ context'[t] = context[t]
         /\ \E s \in {"asked"} \cup Ended :
               stage' = [stage EXCEPT ![t] = s] /\ (s = "raised" => k.notifies)
      \/ /\ k.file
         /\ \/ stage' = [stage EXCEPT ![t] = "asked"] /\ context'[t] = "inside"
            \/ stage' = [stage EXCEPT ![t] = "opening"] /\ context'[t] = "reading"
  <2>1. CASE ~ k.file
    BY <2>1 DEF Begin, vars, Ended
  <2>2. CASE k.file
    <3>1. PICK u \in URIs :
              /\ Enter(t, {u})
              /\ stage' = [stage EXCEPT ![t] = IF u \in Tracked THEN "asked" ELSE "opening"]
      BY <2>2 DEF Begin
    <3>2. NewURIs({u}) = {} <=> u \in Tracked
      BY DEF NewURIs
    <3>3. context'[t] = IF u \in Tracked THEN "inside" ELSE "reading"
      BY <3>1, <3>2 DEF Enter, TypeOK, Tasks
    <3>. QED
      BY <2>2, <3>1, <3>3
  <2>. QED
    BY <2>1, <2>2
<1>4. context[t] \in {"out", "left"}
  BY <1>2 DEF IInv, AllInContexts, InItsContext, AskedInside
<1>5. Calling'
  BY <1>1, <1>2, <1>3 DEF IInv, Calling, Stages, Ended
<1>6. InItsContext(t)'
  BY <1>2, <1>3, <1>4 DEF IInv, Calling, InItsContext, AskedInside, Ended
<1>7. Accounted(t)'
  BY <1>2, <1>3 DEF IInv, Calling, ItemsAccounted, Accounted, Ended
<1>8. \A s \in Tasks : s # t => SameOf(s)
  BY <1>2, <1>3 DEF IInv, Calling, SameOf
<1>. QED
  BY <1>5, <1>6, <1>7, <1>8, CallStep, OthersKept DEF IInv

LEMMA Opens ==
    ASSUME IInv, TypeOK, NEW t \in Tasks, Open(t) \/ Ask(t) \/ OpenFails(t), MakeCall(t)
    PROVE  IInv'
<1>1. /\ stage[t] = "opening" /\ call[t].file /\ class' = class
      /\ UNCHANGED <<call, items, pending, answered>>
  BY CallStep DEF Open, Ask, OpenFails, handshake, IInv, AllInContexts, InItsContext
<1>2. \/ stage' = stage /\ context'[t] \in {"reading", "announcing"}
      \/ stage' = [stage EXCEPT ![t] = "asked"] /\ context'[t] = "inside"
      \/ stage' = [stage EXCEPT ![t] = "raised"] /\ context'[t] = "failed"
  BY DEF TypeOK, Tasks, Open, Ask, OpenFails, Commit, ReadFile, Announce, ReadFails,
         AnnounceFails
<1>3. Calling'
  BY <1>1, <1>2 DEF IInv, Calling, Stages, Ended
<1>4. InItsContext(t)'
  BY <1>1, <1>2 DEF IInv, Calling, InItsContext, AskedInside
<1>5. Accounted(t)'
  BY <1>1, <1>2 DEF IInv, Calling, ItemsAccounted, Accounted, Ended
<1>6. \A s \in Tasks : s # t => SameOf(s)
  BY <1>1, <1>2 DEF IInv, Calling, SameOf
<1>. QED
  BY <1>3, <1>4, <1>5, <1>6, CallStep, OthersKept DEF IInv

LEMMA Answers ==
    ASSUME IInv, TypeOK, NEW t \in Tasks, NEW S \in SUBSET Items, Answer(t, S), MakeCall(t)
    PROVE  IInv'
<1>1. /\ stage' = [stage EXCEPT ![t] = IF S = {} THEN "returned" ELSE "following"]
      /\ items' = [items EXCEPT ![t] = S] /\ pending' = [pending EXCEPT ![t] = S]
      /\ UNCHANGED <<call, answered>> /\ stage[t] = "asked" /\ class' = class
  BY CallStep DEF Answer, Follow, handshake
<1>2. {call[t].file, call[t].inside} \subseteq BOOLEAN
  BY DEF IInv, Calling
<1>3. IF call[t].file
      THEN context'[t] = IF call[t].inside /\ S # {} THEN "inside" ELSE "left"
      ELSE context'[t] \in {"out", "left"}
  <2>1. IF call[t].file THEN context[t] = "inside" ELSE context[t] \in {"out", "left"}
    BY <1>1, <1>2 DEF IInv, AllInContexts, InItsContext, AskedInside
  <2>2. Leave(t, ~ (call[t].inside /\ S # {}))
    BY DEF Answer
  <2>. QED
    BY <1>2, <2>1, <2>2, Leaves
<1>4. Calling'
  BY <1>1 DEF IInv, Calling, ItemsAccounted, Accounted, Stages, Ended
<1>5. InItsContext(t)'
  BY <1>1, <1>2, <1>3 DEF IInv, Calling, InItsContext, AskedInside
<1>6. Accounted(t)'
  BY <1>1 DEF IInv, Calling, ItemsAccounted, Accounted, Ended
<1>7. \A s \in Tasks : s # t => SameOf(s)
  BY <1>1 DEF IInv, Calling, SameOf
<1>. QED
  BY <1>4, <1>5, <1>6, <1>7, CallStep, OthersKept DEF IInv

LEMMA Fails ==
    ASSUME IInv, TypeOK, NEW t \in Tasks, Fail(t), MakeCall(t)
    PROVE  IInv'
<1>1. /\ stage' = [stage EXCEPT ![t] = "raised"] /\ stage[t] = "asked" /\ class' = class
      /\ UNCHANGED <<call, items, pending, answered>>
  BY CallStep DEF Fail, handshake
<1>2. context'[t] \in {"out", "left"}
  <2>1. call[t].file \/ context[t] \in {"out", "left"}
    BY <1>1 DEF IInv, AllInContexts, InItsContext, AskedInside
  <2>. QED
    BY <2>1, Leaves DEF Fail
<1>3. Calling'
  BY <1>1 DEF IInv, Calling, Stages, Ended
<1>4. InItsContext(t)'
  BY <1>1, <1>2 DEF IInv, Calling, InItsContext, AskedInside
<1>5. Accounted(t)'
  BY <1>1 DEF IInv, Calling, ItemsAccounted, Accounted, Ended
<1>6. \A s \in Tasks : s # t => SameOf(s)
  BY <1>1 DEF IInv, Calling, SameOf
<1>. QED
  BY <1>3, <1>4, <1>5, <1>6, CallStep, OthersKept DEF IInv

LEMMA ItemSteps ==
    ASSUME IInv, TypeOK, NEW t \in Tasks, NEW i \in Items, MakeCall(t),
           ItemAnswered(t, i) \/ ItemFails(t, i) \/ CancelItem(t, i)
    PROVE  IInv'
<1>1. /\ pending' = [pending EXCEPT ![t] = @ \ {i}] /\ i \in pending[t]
      /\ UNCHANGED <<context, class, call, items>>
      /\ stage[t] \in {"following", "unwinding"}
      /\ \/ stage' = stage
         \/ stage' = [stage EXCEPT ![t] = "unwinding"]
      /\ \/ answered' = answered /\ stage'[t] = "unwinding"
         \/ answered' = [answered EXCEPT ![t] = @ \cup {i}] /\ stage' = stage
  BY CallStep DEF IInv, Calling, ItemAnswered, ItemFails, CancelItem, handshake, vars
<1>2. Calling'
  BY <1>1 DEF IInv, Calling, Stages
<1>3. InItsContext(t)'
  BY <1>1 DEF IInv, Calling, AllInContexts, InItsContext, AskedInside
<1>4. Accounted(t)'
  BY <1>1 DEF IInv, Calling, ItemsAccounted, Accounted, Ended
<1>5. \A s \in Tasks : s # t => SameOf(s)
  BY <1>1 DEF IInv, Calling, SameOf
<1>. QED
  BY <1>2, <1>3, <1>4, <1>5, CallStep, OthersKept DEF IInv

LEMMA Finishes ==
    ASSUME IInv, TypeOK, NEW t \in Tasks, Finish(t), MakeCall(t)
    PROVE  IInv'
<1>1. /\ stage[t] \in {"following", "unwinding"} /\ pending[t] = {}
      /\ stage' = [stage EXCEPT ![t] =
                     IF stage[t] = "following" THEN "returned" ELSE "raised"]
      /\ UNCHANGED <<call, items, pending, answered>> /\ class' = class
  BY CallStep DEF Finish, handshake
<1>2. context'[t] \in {"out", "left"}
  <2>1. (call[t].file /\ call[t].inside) \/ context[t] \in {"out", "left"}
    BY <1>1 DEF IInv, AllInContexts, InItsContext, AskedInside
  <2>. QED
    BY <2>1, Leaves DEF Finish
<1>3. Calling'
  BY <1>1 DEF IInv, Calling, Stages, Ended
<1>4. InItsContext(t)'
  BY <1>1, <1>2 DEF IInv, Calling, InItsContext, AskedInside
<1>5. Accounted(t)'
  BY <1>1 DEF IInv, Calling, ItemsAccounted, Accounted, Ended
<1>6. \A s \in Tasks : s # t => SameOf(s)
  BY <1>1 DEF IInv, Calling, SameOf
<1>. QED
  BY <1>3, <1>4, <1>5, <1>6, CallStep, OthersKept DEF IInv

LEMMA CallsKept ==
    ASSUME IInv, TypeOK, [CallsNext]_callVars
    PROVE  IInv'
<1>1. CASE Handshake \/ UNCHANGED callVars
  <2>1. UNCHANGED <<class, calls>>
    BY <1>1 DEF Handshake, SendInitialize, CheckServer, callVars, handshake
  <2>. QED
    BY <2>1 DEF calls, vars, IInv, Calling, ItemsAccounted, Accounted, AllInContexts,
                InItsContext, AskedInside
<1>2. ASSUME NEW t \in Tasks, MakeCall(t)
      PROVE  IInv'
  BY <1>2, Begins, Opens, Answers, Fails, ItemSteps, Finishes DEF MakeCall, Proceed
<1>. QED
  BY <1>1, <1>2 DEF CallsNext

LEMMA InitCalls == CallsInit => IInv
<1>. SUFFICES ASSUME CallsInit PROVE IInv
  OBVIOUS
<1>1. Plain(None).file = FALSE /\ Plain(None).inside = FALSE
  BY DEF Plain, Call
<1>2. Calling /\ ItemsAccounted
  BY <1>1 DEF CallsInit, Calling, ItemsAccounted, Accounted, Stages, Ended
<1>3. AllInContexts
  BY DEF CallsInit, Init, InitClients, Tasks, AllInContexts, InItsContext, AskedInside
<1>. QED
  BY <1>2, <1>3 DEF IInv

-----------------------------------------------------------------------------
(* Files                                                                      *)

(* Where every didOpen can be sent, a tracked document is open at the server  *)
(* or about to be, and open for those that have sent it themselves.           *)
AnnouncedOrDue ==
    "open" \notin regime.failures =>
        /\ \A u \in Tracked : server[u].opens >= 1 \/ BeingAnnounced(u)
        /\ \A c \in Contexts : context[c] = "inside" =>
              \A u \in DOMAIN texts[c] : server[u].opens >= 1

(* Nobody opens what another is inside of.                                    *)
OpenedApart ==
    ~ regime.overlap =>
        \A c, d \in Contexts :
            /\ context[c] \in {"reading", "announcing"} /\ context[d] = "inside"
            => DOMAIN texts[c] \cap wants[d] = {}

LEMMA ContextRegime ==
    ASSUME NEW t \in Contexts, ContextStep(t)
    PROVE  regime' = regime /\ earlier' = earlier
  BY DEF ContextStep, Enter, ReadFile, ReadFails, Commit, Announce, AnnounceFails, Exit, vars

(* The documents of a context that is inside are not released by another.     *)
LEMMA ExitSpares ==
    ASSUME Synchronised, NEW c \in Contexts, Exit(c), NEW d \in Contexts, d # c,
           context[d] = "inside", NEW u \in wants[d]
    PROVE  u \in URIs /\ server'[u] = server[u]
<1>1. u \in URIs /\ Counted(u)
  BY DEF Synchronised, TypeOK, ReferencesCounted
<1>2. CASE u \in wants[c]
  <2>1. c \in Holders(u) /\ d \in Holders(u)
    BY <1>1, <1>2 DEF Exit, Holders
  <2>2. refs[u] >= 2 /\ refs[u] \in Nat
    BY <1>1, <2>1, SharedCounts DEF Synchronised, TypeOK
  <2>. QED
    BY <1>1, <2>2 DEF Exit, ClosedURIs, Released
<1>3. CASE u \notin wants[c]
  BY <1>1, <1>3 DEF Exit, ClosedURIs, Released
<1>. QED
  BY <1>1, <1>2, <1>3

LEMMA DueKept ==
    ASSUME Synchronised, AnnouncedOrDue, NEW t \in Tasks, ContextStep(t)
    PROVE  AnnouncedOrDue'
<1>. SUFFICES ASSUME "open" \notin regime.failures
              PROVE  /\ \A u \in Tracked' : server'[u].opens >= 1 \/ BeingAnnounced(u)'
                     /\ \A c \in Contexts : context'[c] = "inside" =>
                           \A u \in DOMAIN texts'[c] : server'[u].opens >= 1
  BY ContextRegime DEF AnnouncedOrDue, Tasks
<1>1. /\ \A u \in Tracked : server[u].opens >= 1 \/ BeingAnnounced(u)
      /\ \A c \in Contexts : context[c] = "inside" =>
            \A u \in DOMAIN texts[c] : u \in URIs /\ server[u].opens >= 1
      /\ \A u \in URIs : server[u].opens \in Nat
      /\ t \in Contexts /\ Tracked \subseteq URIs
  BY DEF AnnouncedOrDue, Synchronised, TypeOK, Tasks, Tracked
<1>2. CASE \E U \in (SUBSET URIs) \ {{}} : Enter(t, U)
  <2>1. PICK U \in (SUBSET URIs) \ {{}} : Enter(t, U)
    BY <1>2
  <2>2. /\ UNCHANGED <<states, server>>
        /\ \A c \in Contexts : c # t => context'[c] = context[c] /\ texts'[c] = texts[c]
        /\ context[t] = "out"
        /\ context'[t] = "inside" => DOMAIN texts'[t] = {}
    BY <2>1 DEF Enter, Synchronised, TypeOK
  <2>3. \A u : BeingAnnounced(u) => BeingAnnounced(u)'
    BY <2>2 DEF BeingAnnounced, Tasks
  <2>. QED
    BY <1>1, <2>2, <2>3 DEF Tracked
<1>3. CASE \E u \in URIs : ReadFile(t, u)
  <2>1. /\ UNCHANGED <<states, server, context>>
        /\ \A c \in Contexts : DOMAIN texts'[c] = DOMAIN texts[c]
    BY <1>3 DEF ReadFile, Synchronised, TypeOK
  <2>2. \A u : BeingAnnounced(u) => BeingAnnounced(u)'
    BY <2>1 DEF BeingAnnounced, Tasks
  <2>. QED
    BY <1>1, <2>1, <2>2 DEF Tracked
<1>4. CASE ReadFails(t)
  <2>1. /\ UNCHANGED <<states, server, texts>>
        /\ context[t] = "reading" /\ context'[t] = "failed"
        /\ \A c \in Contexts : c # t => context'[c] = context[c]
    BY <1>1, <1>4 DEF ReadFails, Synchronised, TypeOK
  <2>2. \A u : BeingAnnounced(u) => BeingAnnounced(u)'
    BY <2>1 DEF BeingAnnounced, Tasks
  <2>. QED
    BY <1>1, <2>1, <2>2 DEF Tracked
<1>5. CASE Commit(t)
  <2>1. /\ UNCHANGED <<server, texts>>
        /\ context[t] = "reading" /\ context'[t] = "announcing"
        /\ \A c \in Contexts : c # t => context'[c] = context[c]
    BY <1>1, <1>5 DEF Commit, Synchronised, TypeOK
  <2>2. \A u : BeingAnnounced(u) => BeingAnnounced(u)'
    BY <2>1 DEF BeingAnnounced, Tasks
  <2>3. \A u \in Tracked' : u \in Tracked \/ BeingAnnounced(u)'
    BY <1>5, <2>1 DEF Commit, CommitDocuments, Tracked, BeingAnnounced, Tasks
  <2>. QED
    BY <1>1, <2>1, <2>2, <2>3
<1>6. CASE Announce(t)
  <2>1. /\ UNCHANGED <<states, texts>>
        /\ context[t] = "announcing" /\ context'[t] = "inside"
        /\ \A c \in Contexts : c # t => context'[c] = context[c]
    BY <1>1, <1>6 DEF Announce, Synchronised, TypeOK
  <2>2. \A u \in URIs : server'[u].opens = IF u \in DOMAIN texts[t]
                                           THEN server[u].opens + 1 ELSE server[u].opens
    BY <1>6 DEF Announce, DidOpen
  <2>3. \A u : BeingAnnounced(u) => BeingAnnounced(u)' \/ u \in DOMAIN texts[t]
    BY <2>1 DEF BeingAnnounced, Tasks
  <2>4. \A u \in DOMAIN texts[t] : u \in URIs /\ server'[u].opens >= 1
    BY <1>1, <2>2 DEF Synchronised, TypeOK
  <2>5. \A u \in URIs : server[u].opens >= 1 => server'[u].opens >= 1
    BY <1>1, <2>2
  <2>6. Tracked' = Tracked
    BY <2>1 DEF Tracked
  <2>. QED
    BY <1>1, <2>1, <2>3, <2>4, <2>5, <2>6
<1>7. CASE AnnounceFails(t)
  BY <1>7 DEF AnnounceFails
<1>8. CASE Exit(t)
  <2>1. /\ texts' = texts
        /\ context[t] = "inside" /\ context'[t] = "left"
        /\ \A c \in Contexts : c # t => context'[c] = context[c]
    BY <1>1, <1>8 DEF Exit, Synchronised, TypeOK
  <2>2. \A u \in Tracked' : u \in Tracked /\ server'[u] = server[u]
    BY <1>8 DEF Exit, Close, ClosedURIs, Released, Tracked
  <2>3. \A u : BeingAnnounced(u) => BeingAnnounced(u)'
    BY <2>1 DEF BeingAnnounced, Tasks
  <2>4. ASSUME NEW c \in Contexts, c # t, context[c] = "inside", NEW u \in DOMAIN texts[c]
        PROVE  server'[u] = server[u]
    <3>1. u \in wants[c]
      BY DEF Synchronised, TypeOK
    <3>. QED
      BY <1>1, <1>8, <2>4, <3>1, ExitSpares
  <2>. QED
    BY <1>1, <2>1, <2>2, <2>3, <2>4
<1>9. CASE UNCHANGED vars
  <2>1. UNCHANGED <<states, server, context, texts>>
    BY <1>9 DEF vars
  <2>. QED
    BY <1>1, <2>1 DEF Tracked, BeingAnnounced
<1>. QED
  BY <1>2, <1>3, <1>4, <1>5, <1>6, <1>7, <1>8, <1>9 DEF ContextStep

LEMMA ApartKept ==
    ASSUME Synchronised, OpenedApart, NEW t \in Tasks, ContextStep(t)
    PROVE  OpenedApart'
<1>. SUFFICES ASSUME ~ regime.overlap,
                     NEW c \in Contexts, NEW d \in Contexts,
                     context'[c] \in {"reading", "announcing"}, context'[d] = "inside",
                     NEW u \in DOMAIN texts'[c], u \in wants'[d]
              PROVE  FALSE
  BY ContextRegime DEF OpenedApart, Tasks
<1>1. /\ \A e, f \in Contexts :
            context[e] \in {"reading", "announcing"} /\ context[f] = "inside"
            => DOMAIN texts[e] \cap wants[f] = {}
      /\ \A e \in Contexts : DOMAIN texts[e] \subseteq wants[e] /\ wants[e] \subseteq URIs
      /\ \A e \in Contexts : context[e] = "inside" => wants[e] \subseteq Tracked
      /\ t \in Contexts
  BY DEF OpenedApart, Synchronised, TypeOK, HoldersTracked, Tasks
<1>2. CASE \E U \in (SUBSET URIs) \ {{}} : Enter(t, U)
  <2>1. PICK U \in (SUBSET URIs) \ {{}} : Enter(t, U)
    BY <1>2
  <2>2. /\ \A e \in Contexts : e # t =>
               context'[e] = context[e] /\ texts'[e] = texts[e] /\ wants'[e] = wants[e]
        /\ wants'[t] = U /\ DOMAIN texts'[t] = U \ Tracked
        /\ context'[t] = IF U \ Tracked = {} THEN "inside" ELSE "reading"
    BY <1>1, <2>1 DEF Enter, NewURIs, Synchronised, TypeOK
  <2>3. CASE c = t
    BY <1>1, <2>2, <2>3
  <2>4. CASE d = t /\ c # t
    <3>1. u \in U /\ BeingOpened(u)
      BY <1>1, <2>2, <2>4 DEF BeingOpened
    <3>. QED
      BY <2>1, <3>1 DEF Enter, Free, Quiet
  <2>5. CASE c # t /\ d # t
    BY <1>1, <2>2, <2>5
  <2>. QED
    BY <2>3, <2>4, <2>5
<1>3. CASE \E v \in URIs : ReadFile(t, v)
  <2>1. /\ UNCHANGED <<context, wants>>
        /\ \A e \in Contexts : DOMAIN texts'[e] = DOMAIN texts[e]
    BY <1>3 DEF ReadFile, Synchronised, TypeOK
  <2>. QED
    BY <1>1, <2>1
<1>4. CASE Announce(t)
  <2>1. /\ UNCHANGED <<wants, texts>>
        /\ context[t] = "announcing" /\ context'[t] = "inside"
        /\ \A e \in Contexts : e # t => context'[e] = context[e]
    BY <1>1, <1>4 DEF Announce, Synchronised, TypeOK
  <2>2. CASE d = t
    <3>1. c # t /\ Opening(c, u) /\ Opening(t, u) /\ u \in URIs
      BY <1>1, <2>1, <2>2 DEF Opening
    <3>. QED
      BY <1>1, <3>1 DEF Synchronised, OneAtATime
  <2>3. CASE d # t
    BY <1>1, <2>1, <2>3
  <2>. QED
    BY <2>2, <2>3
<1>5. CASE ReadFails(t) \/ Commit(t) \/ AnnounceFails(t) \/ Exit(t) \/ UNCHANGED vars
  <2>1. /\ UNCHANGED <<wants, texts>>
        /\ \A e \in Contexts :
              /\ context'[e] \in {"reading", "announcing"} =>
                    context[e] \in {"reading", "announcing"}
              /\ context'[e] = "inside" => context[e] = "inside"
    BY <1>1, <1>5 DEF ReadFails, Commit, AnnounceFails, Exit, vars, Synchronised, TypeOK
  <2>. QED
    BY <1>1, <2>1
<1>. QED
  BY <1>2, <1>3, <1>4, <1>5 DEF ContextStep

FilesInv == earlier = <<>> /\ AnnouncedOrDue /\ OpenedApart

LEMMA FilesKept ==
    ASSUME Synchronised, FilesInv, [CallsNext]_callVars
    PROVE  FilesInv'
<1>1. ASSUME NEW t \in Tasks, ContextStep(t)
      PROVE  FilesInv'
  BY <1>1, ContextRegime, DueKept, ApartKept DEF FilesInv, Tasks
<1>2. CASE UNCHANGED calls
  BY <1>2 DEF calls, vars, FilesInv, AnnouncedOrDue, OpenedApart, Tracked, BeingAnnounced
<1>. QED
  BY <1>1, <1>2, CallsStep

LEMMA InitFilesInv == CallsInit => FilesInv
  BY DEF CallsInit, Init, InitClients, FilesInv, AnnouncedOrDue, OpenedApart, Tracked

-----------------------------------------------------------------------------
(* Shaking hands                                                              *)

(* A client always declares something and hooks something.                    *)
LEMMA HandsKept ==
    ASSUME class \in DOMAIN Classes, ShakingHands, [CallsNext]_callVars
    PROVE  ShakingHands'
<1>1. CASE SendInitialize
  <2>1. WithNotifyTextDocumentSynchronize \in Reached("text_document")
    <3>1. /\ 1 \in DOMAIN Classes[class]
          /\ Classes[class][1] = WithNotifyTextDocumentSynchronize
      BY ClassesAssumption
    <3>2. WithNotifyTextDocumentSynchronize.section = "text_document"
      BY DEF WithNotifyTextDocumentSynchronize, Document, Mixin
    <3>. QED
      BY <3>1, <3>2 DEF Reached
  <2>2. "synchronization" \in WithNotifyTextDocumentSynchronize.declares
    BY DEF WithNotifyTextDocumentSynchronize, Document, Mixin
  <2>3. <<"text_document", "synchronization">> \in declared'
    BY <1>1, <2>1, <2>2 DEF SendInitialize, Sections
  <2>4. "client/registerCapability" \in WithRespondRegisterCapability.hooks
    BY DEF WithRespondRegisterCapability, Listener, Mixin
  <2>5. "client/registerCapability" \in hooked'
    BY <1>1, <2>4, ClassesAssumption DEF SendInitialize, Mixins
  <2>. QED
    BY <1>1, <2>3, <2>5 DEF SendInitialize, ShakingHands
<1>2. CASE \E missing \in {{}} \cup {{d} : d \in Demanded} : CheckServer(Demanded \ missing)
  BY <1>2 DEF CheckServer, ShakingHands
<1>3. CASE UNCHANGED <<phase, declared, hooked>>
  BY <1>3 DEF ShakingHands
<1>. QED
  BY <1>1, <1>2, <1>3 DEF CallsNext, Handshake, MakeCall, callVars, handshake

-----------------------------------------------------------------------------
CallsInv == Synchronised /\ IInv /\ FilesInv

LEMMA CallsHold == CallsSpec => []CallsInv
<1>1. Synchronised => TypeOK
  BY DEF Synchronised
<1>. QED
  BY <1>1, SyncHolds, InitCalls, CallsKept, InitFilesInv, FilesKept, PTL DEF CallsSpec, CallsInv

LEMMA HandsHold == CallsSpec => []ShakingHands
<1>1. CallsInit => ShakingHands
  BY DEF CallsInit, ShakingHands
<1>2. CallsInv /\ ShakingHands /\ [CallsNext]_callVars => ShakingHands'
  BY HandsKept DEF CallsInv, IInv, Calling
<1>. QED
  BY <1>1, <1>2, CallsHold, PTL DEF CallsSpec

(* Calls, their contexts and the handshake keep their types; the count of a   *)
(* file is at most the number of tasks.                                       *)
THEOREM CallTypesCorrect == CallsSpec => []CallsTypeOK
<1>1. CallsInv /\ ShakingHands => CallsTypeOK
  <2>. SUFFICES ASSUME CallsInv, ShakingHands PROVE CallsTypeOK
    OBVIOUS
  <2>1. ASSUME NEW u \in URIs
        PROVE  refs[u] <= Cardinality(Tasks)
    <3>1. Holders(u) \subseteq Tasks /\ IsFiniteSet(Tasks)
      BY ConstantsAssumption DEF Holders, Tasks
    <3>2. Cardinality(Holders(u)) <= Cardinality(Tasks)
      BY <3>1, FS_Subset
    <3>. QED
      BY <3>2 DEF CallsInv, Synchronised, ReferencesCounted, Counted
  <2>. QED
    BY <2>1 DEF CallsInv, Synchronised, IInv, Calling, ShakingHands, CallsTypeOK
<1>. QED
  BY <1>1, CallsHold, HandsHold, PTL

(* Whoever else opens and closes it, the file of a request that is under way  *)
(* inside open_files is tracked, and open at the server or, for who found it  *)
(* tracked, about to be; once, and with the client's text, if nobody begins   *)
(* while another opens.                                                       *)
THEOREM KeptOpen == CallsSpec => []OpenWhileAsked
<1>1. CallsInv => OpenWhileAsked
  <2>. SUFFICES ASSUME CallsInv, NEW t \in Tasks, AskedInside(t), NEW u \in wants[t]
                PROVE  /\ u \in Tracked
                       /\ "open" \notin regime.failures =>
                             \/ server[u].opens >= 1
                             \/ u \notin DOMAIN texts[t] /\ BeingAnnounced(u)
                       /\ Orderly => InStep(u)
    BY DEF OpenWhileAsked
  <2>1. context[t] = "inside" /\ t \in Contexts
    BY DEF CallsInv, IInv, AllInContexts, InItsContext, Tasks
  <2>2. u \in Tracked /\ u \in URIs
    BY <2>1 DEF CallsInv, Synchronised, HoldersTracked, Tracked
  <2>3. ASSUME "open" \notin regime.failures
        PROVE  \/ server[u].opens >= 1
               \/ u \notin DOMAIN texts[t] /\ BeingAnnounced(u)
    BY <2>1, <2>2, <2>3 DEF CallsInv, FilesInv, AnnouncedOrDue
  <2>4. ASSUME Orderly
        PROVE  InStep(u)
    <3>1. \A c \in Contexts : ~ Announcing(c, u)
      BY <2>1, <2>4 DEF CallsInv, FilesInv, OpenedApart, Orderly, Announcing
    <3>2. u \notin Stale
      BY DEF CallsInv, FilesInv, Stale
    <3>. QED
      BY <2>2, <2>4, <3>1, <3>2 DEF CallsInv, Synchronised, Agreement, Agreed
  <2>. QED
    BY <2>2, <2>3, <2>4
<1>. QED
  BY <1>1, CallsHold, PTL

(* No request about an item outlives its call, however many items there are   *)
(* and whichever fails, and a call returns with all of them answered.         *)
THEOREM NoneOutlives == CallsSpec => []NothingOutlivesCall
<1>1. CallsInv => NothingOutlivesCall
  BY DEF CallsInv, IInv, ItemsAccounted, Accounted, NothingOutlivesCall
<1>. QED
  BY <1>1, CallsHold, PTL

(* When all calls have ended the references of a file are those of the calls  *)
(* that failed while they were opening it, and without one the client has     *)
(* forgotten it and, if nobody began while another opened it, the server has  *)
(* it closed.                                                                 *)
THEOREM LeftClosed == CallsSpec => []NothingLeftOpen
<1>1. CallsInv => NothingLeftOpen
  <2>. SUFFICES ASSUME CallsInv, \A t \in Tasks : stage[t] \in Ended \cup {"idle"},
                       NEW u \in URIs
                PROVE  /\ refs[u] = Cardinality(Leaks(u))
                       /\ Leaks(u) = {} => u \notin Tracked /\ (Orderly => server[u] = Unopened)
    BY DEF NothingLeftOpen
  <2>1. \A t \in Tasks :
           \/ context[t] \in {"out", "left"}
           \/ stage[t] = "raised" /\ context[t] = "failed"
    BY DEF CallsInv, IInv, AllInContexts, InItsContext, AskedInside, Ended
  <2>2. Holders(u) = Leaks(u)
    BY <2>1 DEF Holders, Leaks, Tasks
  <2>3. Counted(u)
    BY DEF CallsInv, Synchronised, ReferencesCounted
  <2>4. ASSUME Leaks(u) = {}
        PROVE  u \notin Tracked
    BY <2>2, <2>3, <2>4, FS_EmptySet DEF Counted
  <2>5. ASSUME Leaks(u) = {}, Orderly
        PROVE  server[u] = Unopened
    <3>1. \A c \in Contexts : ~ Announcing(c, u)
      BY <2>1 DEF Announcing, Tasks
    <3>2. u \notin Stale
      BY DEF CallsInv, FilesInv, Stale
    <3>3. InStep(u)
      BY <2>5, <3>1, <3>2 DEF CallsInv, Synchronised, Agreement, Agreed
    <3>. QED
      BY <2>4, <2>5, <3>3 DEF InStep
  <2>. QED
    BY <2>2, <2>3, <2>4, <2>5 DEF Counted
<1>. QED
  BY <1>1, CallsHold, PTL

-----------------------------------------------------------------------------
(* What classes declare. The mixins of Capabilities, by the way they are      *)
(* written, and the one that is like no other.                                *)
DocumentMixins ==
    {WithNotifyTextDocumentSynchronize, WithRequestCallHierarchy,
     WithRequestTypeHierarchy, WithRequestCodeAction,
     WithRequestCompletion, WithRequestInlayHint, WithRequestRename,
     WithRequestDeclaration, WithRequestDefinition,
     WithRequestDocumentSymbol, WithRequestHover,
     WithRequestImplementation, WithRequestInlineValue,
     WithRequestReferences, WithRequestSignatureHelp,
     WithRequestTypeDefinition, WithDocumentDiagnostic}
WorkspaceMixins ==
    {WithNotifyDidChangeConfiguration,
     WithNotifyDidChangeWorkspaceFolders, WithNotifyDidCreateFiles,
     WithNotifyDidRenameFiles, WithNotifyDidDeleteFiles,
     WithRequestExecuteCommand, WithRequestWillCreateFiles,
     WithRequestWillRenameFiles, WithRequestWillDeleteFiles,
     WithRequestWorkspaceSymbol}
ListenerMixins ==
    {WithReceiveLogMessage, WithReceiveLogTrace,
     WithReceivePublishDiagnostics, WithReceiveShowMessage,
     WithRespondApplyEdit, WithRespondConfigurationRequest,
     WithRespondInlayHintRefresh, WithRespondRegisterCapability,
     WithRespondShowDocumentRequest, WithRespondShowMessageRequest,
     WithRespondWorkspaceFoldersRequest, WithReceiveDenoRegistryStatus,
     WithReceiveDenoTestModule, WithReceiveDenoTestModuleDelete,
     WithReceiveDenoTestRunProgress}
DenoMixins ==
    {WithRequestDenoCache, WithRequestDenoPerformance,
     WithRequestDenoReloadImportRegistries,
     WithRequestDenoVirtualTextDocument, WithRequestDenoTask,
     WithRequestDenoTestRunCancel}
OtherMixins ==
    {WithRequestWorkspaceSymbolResolve, WithWorkspaceDiagnostic,
     WithRequestDenoTestRun}
Catalogue ==
    DocumentMixins \cup WorkspaceMixins \cup ListenerMixins \cup DenoMixins \cup OtherMixins

(* A class of such mixins, each in it once, as Python's method resolution has *)
(* it.                                                                        *)
Composed(mro) ==
    mro \in Seq(Catalogue) /\ \A n, k \in DOMAIN mro : mro[n] = mro[k] => n = k

(* No mixin that writes to the workspace capabilities is behind the one that  *)
(* does not pass the call on.                                                 *)
ResolveBehind(mro) ==
    \A n, k \in DOMAIN mro :
        /\ k < n /\ mro[k] = WithRequestWorkspaceSymbolResolve
        /\ mro[n].section = "workspace"
        => mro[n].declares = {}

(* Two capabilities are declared by one mixin and answered for by another.    *)
Paired(mro) ==
    LET mixins == {mro[n] : n \in DOMAIN mro} IN
    /\ WithReceiveShowMessage \in mixins => WithRespondShowMessageRequest \in mixins
    /\ WithNotifyDidChangeWorkspaceFolders \in mixins =>
           WithRespondWorkspaceFoldersRequest \in mixins

LEMMA DocumentShape ==
    \A c, p, k : LET m == Document(c, p, k) IN
        m.section = "text_document" /\ m.declares = {c} /\ m.chains /\ m.hooks = {}
  BY DEF Document, Mixin

LEMMA WorkspaceShape ==
    \A c, p, k : LET m == Workspace(c, p, k) IN
        m.section = "workspace" /\ m.declares = {c} /\ m.chains /\ m.hooks = {}
  BY DEF Workspace, Mixin

LEMMA ListenerShape ==
    \A s, d, h : LET m == Listener(s, d, h) IN
        m.section = s /\ m.declares = d /\ m.chains /\ m.hooks = h
  BY DEF Listener, Mixin

LEMMA DenoShape ==
    \A h : LET m == Deno(h) IN
        m.section = None /\ m.declares = {} /\ m.chains /\ m.hooks = {}
  BY DEF Deno, Mixin

LEMMA OtherShapes ==
    /\ WithRequestWorkspaceSymbolResolve.section = "workspace"
    /\ WithRequestWorkspaceSymbolResolve.declares = {}
    /\ WithWorkspaceDiagnostic.section = "workspace" /\ WithWorkspaceDiagnostic.chains
    /\ WithWorkspaceDiagnostic.declares = {"diagnostics"}
    /\ "workspace/diagnostic/refresh" \in WithWorkspaceDiagnostic.hooks
    /\ WithRequestDenoTestRun.section = "experimental"
    /\ WithRequestDenoTestRun.declares = {"testingApi"}
  BY DEF WithRequestWorkspaceSymbolResolve, WithWorkspaceDiagnostic,
         WithRequestDenoTestRun, Deno, Mixin

(* Whether a mixin passes the call on, but for two; where it declares what it *)
(* does; and whether it has a hook for what that entitles the server to send, *)
(* but for two again.                                                         *)
Chains(m) ==
    m.chains \/ m \in {WithRequestWorkspaceSymbolResolve, WithRequestDenoTestRun}

Places(m) ==
    /\ m.declares # {} => m.section \in Sections
    /\ m.section = "experimental" => m = WithRequestDenoTestRun

Hooked(m) ==
    \A e \in Entitles : \A d \in m.declares :
        e[1] = <<m.section, d>> =>
            \/ e[2] \in m.hooks
            \/ m = WithReceiveShowMessage /\ e[2] = "window/showMessageRequest"
            \/ m = WithNotifyDidChangeWorkspaceFolders /\ e[2] = "workspace/workspaceFolders"

LEMMA Described == \A m \in Catalogue : Chains(m) /\ Places(m) /\ Hooked(m)
<1>1. \A m \in DocumentMixins : m.section = "text_document" /\ m.chains
  BY DocumentShape
     DEF DocumentMixins,
         WithNotifyTextDocumentSynchronize,
         WithRequestCallHierarchy, WithRequestTypeHierarchy,
         WithRequestCodeAction, WithRequestCompletion,
         WithRequestInlayHint, WithRequestRename,
         WithRequestDeclaration, WithRequestDefinition,
         WithRequestDocumentSymbol, WithRequestHover,
         WithRequestImplementation, WithRequestInlineValue,
         WithRequestReferences, WithRequestSignatureHelp,
         WithRequestTypeDefinition, WithDocumentDiagnostic
<1>2. \A m \in WorkspaceMixins : m.section = "workspace" /\ m.chains /\ Hooked(m)
  BY WorkspaceShape
     DEF Hooked, Entitles, WorkspaceMixins,
         WithNotifyDidChangeConfiguration,
         WithNotifyDidChangeWorkspaceFolders,
         WithNotifyDidCreateFiles, WithNotifyDidRenameFiles,
         WithNotifyDidDeleteFiles, WithRequestExecuteCommand,
         WithRequestWillCreateFiles, WithRequestWillRenameFiles,
         WithRequestWillDeleteFiles, WithRequestWorkspaceSymbol
<1>3. \A m \in ListenerMixins : m.chains /\ Places(m) /\ Hooked(m)
  BY ListenerShape
     DEF Hooked, Places, Entitles, Sections, None, ListenerMixins,
         WithReceiveLogMessage, WithReceiveLogTrace,
         WithReceivePublishDiagnostics, WithReceiveShowMessage,
         WithRespondApplyEdit, WithRespondConfigurationRequest,
         WithRespondInlayHintRefresh, WithRespondRegisterCapability,
         WithRespondShowDocumentRequest,
         WithRespondShowMessageRequest,
         WithRespondWorkspaceFoldersRequest,
         WithReceiveDenoRegistryStatus, WithReceiveDenoTestModule,
         WithReceiveDenoTestModuleDelete,
         WithReceiveDenoTestRunProgress
<1>4. \A m \in DenoMixins : m.declares = {} /\ m.section # "experimental" /\ m.chains
  BY DenoShape
     DEF None, DenoMixins,
         WithRequestDenoCache, WithRequestDenoPerformance,
         WithRequestDenoReloadImportRegistries,
         WithRequestDenoVirtualTextDocument, WithRequestDenoTask,
         WithRequestDenoTestRunCancel
<1>5. \A m \in OtherMixins : Chains(m) /\ Places(m) /\ Hooked(m)
  BY OtherShapes DEF OtherMixins, Chains, Places, Hooked, Sections, Entitles
<1>6. \A e \in Entitles : e[1][1] \in {"workspace", "window"}
  BY DEF Entitles
<1>7. \A m \in DocumentMixins : Hooked(m)
  BY <1>1, <1>6 DEF Hooked
<1>. QED
  BY <1>1, <1>2, <1>3, <1>4, <1>5, <1>7 DEF Catalogue, Chains, Places, Hooked, Sections

(* In such a class every mixin of a section is reached that declares anything.*)
LEMMA AllReached ==
    ASSUME class \in DOMAIN Classes,
           Composed(Classes[class]), ResolveBehind(Classes[class]),
           NEW m \in Mixins, m.declares # {}
    PROVE  m \in Reached(m.section) /\ m.section \in Sections
<1>. DEFINE mro == Classes[class]
<1>1. PICK n \in DOMAIN mro : mro[n] = m
  BY DEF Mixins, MixinsOf
<1>2. ASSUME NEW k \in 1 .. n - 1, mro[k].section = m.section
      PROVE  mro[k].chains
  <2>1. k \in DOMAIN mro /\ k < n
    BY <1>1 DEF Composed
  <2>2. mro[k] # m /\ mro[k] \in Catalogue /\ m \in Catalogue
    BY <1>1, <2>1 DEF Composed
  <2>3. CASE mro[k] = WithRequestWorkspaceSymbolResolve
    BY <1>1, <1>2, <2>1, <2>3, OtherShapes DEF ResolveBehind
  <2>4. CASE mro[k] = WithRequestDenoTestRun
    BY <1>2, <2>2, <2>4, OtherShapes, Described DEF Places
  <2>. QED
    BY <2>2, <2>3, <2>4, Described DEF Chains
<1>3. m \in Catalogue
  BY <1>1 DEF Composed
<1>4. m.section \in Sections
  BY <1>3, Described DEF Places
<1>5. m \in Reached(m.section)
  BY <1>1, <1>2 DEF Reached
<1>. QED
  BY <1>4, <1>5

(* Whatever mixins a client class is composed of: if none that writes to the  *)
(* workspace capabilities is behind WithRequestWorkspaceSymbolResolve, what   *)
(* each declares reaches the server.                                          *)
THEOREM Declared ==
    ASSUME \A c \in DOMAIN Classes : Composed(Classes[c]) /\ ResolveBehind(Classes[c])
    PROVE  CallsSpec => []DeclaresAll
<1>1. CallsInit => DeclaresAll
  BY DEF CallsInit, DeclaresAll
<1>2. CallsInv /\ DeclaresAll /\ [CallsNext]_callVars => DeclaresAll'
  <2>. SUFFICES ASSUME CallsInv, DeclaresAll, [CallsNext]_callVars
                PROVE  DeclaresAll'
    OBVIOUS
  <2>1. CASE SendInitialize
    <3>. SUFFICES ASSUME NEW m \in Mixins, NEW d \in m.declares
                  PROVE  <<m.section, d>> \in declared'
      BY <2>1 DEF DeclaresAll, SendInitialize, Mixins
    <3>1. m \in Reached(m.section) /\ m.section \in Sections
      BY AllReached DEF CallsInv, IInv, Calling
    <3>. QED
      BY <2>1, <3>1 DEF SendInitialize
  <2>2. ASSUME NEW announced, CheckServer(announced)
        PROVE  DeclaresAll'
    BY <2>2 DEF CheckServer, DeclaresAll
  <2>3. CASE UNCHANGED handshake
    BY <2>3 DEF handshake, DeclaresAll, Mixins
  <2>. QED
    BY <2>1, <2>2, <2>3 DEF CallsNext, Handshake, MakeCall, callVars, handshake
<1>. QED
  BY <1>1, <1>2, CallsHold, PTL DEF CallsSpec

(* Whatever mixins a client class is composed of: if it has the two that      *)
(* answer for what others declare, where it has those, no request comes that  *)
(* a declared capability entitles the server to and no hook takes.            *)
THEOREM HookedAll ==
    ASSUME \A c \in DOMAIN Classes : Composed(Classes[c]) /\ Paired(Classes[c])
    PROVE  CallsSpec => []AnswersWhatItDeclares
<1>1. CallsInit => AnswersWhatItDeclares
  BY DEF CallsInit, AnswersWhatItDeclares
<1>2. CallsInv /\ AnswersWhatItDeclares /\ [CallsNext]_callVars => AnswersWhatItDeclares'
  <2>. SUFFICES ASSUME CallsInv, AnswersWhatItDeclares, [CallsNext]_callVars
                PROVE  AnswersWhatItDeclares'
    OBVIOUS
  <2>1. CASE SendInitialize
    <3>. SUFFICES ASSUME NEW e \in Entitles, e[1] \in declared'
                  PROVE  e[2] \in hooked'
      BY DEF AnswersWhatItDeclares
    <3>1. PICK s \in Sections : \E m \in Reached(s) : \E d \in m.declares : e[1] = <<s, d>>
      BY <2>1 DEF SendInitialize
    <3>2. PICK m \in Reached(s) : \E d \in m.declares : e[1] = <<s, d>>
      BY <3>1
    <3>3. m \in Mixins /\ m.section = s /\ m \in Catalogue
      BY <3>2 DEF Reached, Mixins, MixinsOf, Composed, CallsInv, IInv, Calling
    <3>4. \/ e[2] \in m.hooks
          \/ m = WithReceiveShowMessage /\ e[2] = "window/showMessageRequest"
          \/ m = WithNotifyDidChangeWorkspaceFolders /\ e[2] = "workspace/workspaceFolders"
      BY <3>2, <3>3, Described DEF Hooked
    <3>5. /\ "window/showMessageRequest" \in WithRespondShowMessageRequest.hooks
          /\ "workspace/workspaceFolders" \in WithRespondWorkspaceFoldersRequest.hooks
      BY ListenerShape DEF WithRespondShowMessageRequest, WithRespondWorkspaceFoldersRequest
    <3>6. /\ m = WithReceiveShowMessage => WithRespondShowMessageRequest \in Mixins
          /\ m = WithNotifyDidChangeWorkspaceFolders =>
                 WithRespondWorkspaceFoldersRequest \in Mixins
      BY <3>3 DEF Paired, Mixins, MixinsOf, CallsInv, IInv, Calling
    <3>. QED
      BY <2>1, <3>3, <3>4, <3>5, <3>6 DEF SendInitialize
  <2>2. ASSUME NEW announced, CheckServer(announced)
        PROVE  AnswersWhatItDeclares'
    BY <2>2 DEF CheckServer, AnswersWhatItDeclares
  <2>3. CASE UNCHANGED handshake
    BY <2>3 DEF handshake, AnswersWhatItDeclares
  <2>. QED
    BY <2>1, <2>2, <2>3 DEF CallsNext, Handshake, MakeCall, callVars, handshake
<1>. QED
  BY <1>1, <1>2, CallsHold, PTL DEF CallsSpec
=============================================================================
