-------------------------- MODULE ClientLifeProofs --------------------------
(* Proofs about ClientLife for any lives and any updates of the configuration.*)
(* The invariant has a part for the session, in which the phase says what has *)
(* been sent and answered, one for the search for a server, in which the stage*)
(* says what has been refused, and the types of the configuration and of the  *)
(* client; none of them asks what deep_merge makes of two dictionaries. What  *)
(* a setting is does, and has an invariant of its own (SaysLast).             *)
EXTENDS ClientLife, SequenceTheorems, Induction, TLAPS

(* What may have been sent: the prefixes of the protocol.                     *)
Messages == {"initialize", "initialized", "shutdown", "exit"}

Wires ==
    {<<>>, <<"initialize">>, <<"initialize", "initialized">>,
     <<"initialize", "initialized", "shutdown">>, C!Lifecycle}

(* The session: what it has sent and what has been answered follow from its   *)
(* phase, until it unwinds.                                                   *)
SentSoFar ==
    /\ phase = "starting" => wire = <<>>
    /\ phase = "initializing" => wire = <<"initialize">>
    /\ phase \in {"configuring", "body", "settling"} =>
          wire = <<"initialize", "initialized">>
    /\ phase = "shutting down" => wire = <<"initialize", "initialized", "shutdown">>
    /\ phase = "draining" => wire = C!Lifecycle

AnsweredSoFar ==
    /\ phase \in {"configuring", "body", "settling", "shutting down", "draining"} =>
          "initialize" \in answers
    /\ phase = "draining" => "shutdown" \in answers
    /\ phase \in {"shutting down", "draining"} => unanswered \in {"none", "late"}

SessionTypes ==
    /\ phase \in C!Phases
    /\ failed \in BOOLEAN /\ cancelled \in BOOLEAN /\ signalled \in BOOLEAN
    /\ serving \in BOOLEAN
    /\ unanswered \in {"none", "live", "abandoned", "late"}
    /\ wire \in Wires
    /\ answers \subseteq {"initialize", "shutdown"}
    /\ process \in {"running", "exited"}

(* Who gets to the cleanup without exception or cancellation has gone through *)
(* the protocol, and who leaves it uncancelled has seen the process end.      *)
InOrder ==
    phase \in {"reaping", "closed"} /\ ~ failed /\ ~ cancelled =>
        /\ wire = C!Lifecycle
        /\ answers = {"initialize", "shutdown"}
        /\ unanswered \in {"none", "late"}

SessionInv == SessionTypes /\ SentSoFar /\ AnsweredSoFar /\ InOrder /\ C!NoOrphan

-----------------------------------------------------------------------------
LEMMA Protocol ==
    /\ C!Lifecycle \in Seq(Messages) /\ Len(C!Lifecycle) = 4
    /\ C!Lifecycle[1] = "initialize" /\ C!Lifecycle[2] = "initialized"
    /\ C!Lifecycle[3] = "shutdown"
  BY DEF C!Lifecycle, Messages

LEMMA PrefixIs ==
    ASSUME NEW n \in 0 .. 4, NEW t \in Seq(Messages),
           Len(t) = n, \A i \in 1 .. n : t[i] = C!Lifecycle[i]
    PROVE  SubSeq(C!Lifecycle, 1, n) = t
<1>. DEFINE prefix == SubSeq(C!Lifecycle, 1, n)
<1>1. \A i \in 1 .. n : C!Lifecycle[i] \in Messages
  BY Protocol
<1>2. 1 \in Int /\ n \in Int
  OBVIOUS
<1>3. /\ prefix \in Seq(Messages)
      /\ Len(prefix) = IF 1 <= n THEN n - 1 + 1 ELSE 0
      /\ \A i \in 1 .. n - 1 + 1 : prefix[i] = C!Lifecycle[1 + i - 1]
  BY <1>1, <1>2, SubSeqProperties DEF prefix
<1>. HIDE DEF prefix
<1>4. Len(prefix) = n /\ \A i \in 1 .. n : prefix[i] = t[i]
  BY <1>3
<1>5. prefix = t
  BY <1>3, <1>4, SeqEqual
<1>. QED
  BY <1>5 DEF prefix

LEMMA WireTypes == {SubSeq(C!Lifecycle, 1, n) : n \in 0 .. 4} = Wires
<1>1. /\ <<>> \in Seq(Messages) /\ Len(<<>>) = 0
      /\ \A i \in 1 .. 0 : <<>>[i] = C!Lifecycle[i]
  OBVIOUS
<1>2. SubSeq(C!Lifecycle, 1, 0) = <<>>
  BY <1>1, PrefixIs
<1>3. SubSeq(C!Lifecycle, 1, 1) = <<"initialize">>
  <2>. DEFINE t == <<"initialize">>
  <2>1. t \in Seq(Messages) /\ Len(t) = 1 /\ t[1] = "initialize"
    BY DEF Messages
  <2>. HIDE DEF t
  <2>2. SubSeq(C!Lifecycle, 1, 1) = t
    BY <2>1, Protocol, PrefixIs
  <2>. QED
    BY <2>2 DEF t
<1>4. SubSeq(C!Lifecycle, 1, 2) = <<"initialize", "initialized">>
  <2>. DEFINE t == <<"initialize", "initialized">>
  <2>1. t \in Seq(Messages) /\ Len(t) = 2 /\ t[1] = "initialize" /\ t[2] = "initialized"
    BY DEF Messages
  <2>. HIDE DEF t
  <2>2. SubSeq(C!Lifecycle, 1, 2) = t
    BY <2>1, Protocol, PrefixIs
  <2>. QED
    BY <2>2 DEF t
<1>5. SubSeq(C!Lifecycle, 1, 3) = <<"initialize", "initialized", "shutdown">>
  <2>. DEFINE t == <<"initialize", "initialized", "shutdown">>
  <2>1. /\ t \in Seq(Messages) /\ Len(t) = 3
        /\ t[1] = "initialize" /\ t[2] = "initialized" /\ t[3] = "shutdown"
    BY DEF Messages
  <2>. HIDE DEF t
  <2>2. SubSeq(C!Lifecycle, 1, 3) = t
    BY <2>1, Protocol, PrefixIs
  <2>. QED
    BY <2>2 DEF t
<1>6. SubSeq(C!Lifecycle, 1, 4) = C!Lifecycle
  BY Protocol, PrefixIs
<1>7. 0 .. 4 = {0, 1, 2, 3, 4}
  OBVIOUS
<1>. QED
  BY <1>2, <1>3, <1>4, <1>5, <1>6, <1>7 DEF Wires

LEMMA AppendIs ==
    ASSUME NEW s \in Seq(Messages), NEW m \in Messages, NEW t \in Seq(Messages),
           Len(t) = Len(s) + 1, t[Len(t)] = m, \A i \in 1 .. Len(s) : t[i] = s[i]
    PROVE  Append(s, m) = t
<1>1. /\ Append(s, m) \in Seq(Messages) /\ Len(Append(s, m)) = Len(t)
      /\ \A i \in 1 .. Len(t) : Append(s, m)[i] = t[i]
  OBVIOUS
<1>. HIDE DEF Messages
<1>. QED
  BY <1>1, SeqEqual

LEMMA Appended ==
    /\ Append(<<>>, "initialize") = <<"initialize">>
    /\ Append(<<"initialize">>, "initialized") = <<"initialize", "initialized">>
    /\ Append(<<"initialize", "initialized">>, "shutdown") =
          <<"initialize", "initialized", "shutdown">>
    /\ Append(<<"initialize", "initialized", "shutdown">>, "exit") = C!Lifecycle
<1>1. Append(<<>>, "initialize") = <<"initialize">>
  BY AppendIs DEF Messages
<1>2. Append(<<"initialize">>, "initialized") = <<"initialize", "initialized">>
  <2>. DEFINE s == <<"initialize">>
              t == <<"initialize", "initialized">>
  <2>1. s \in Seq(Messages) /\ Len(s) = 1
    BY DEF Messages
  <2>2. t \in Seq(Messages) /\ Len(t) = 2 /\ t[2] = "initialized" /\ "initialized" \in Messages
    BY DEF Messages
  <2>3. \A i \in 1 .. 1 : t[i] = s[i]
    OBVIOUS
  <2>. HIDE DEF s, t
  <2>4. /\ Len(t) = Len(s) + 1 /\ t[Len(t)] = "initialized"
        /\ \A i \in 1 .. Len(s) : t[i] = s[i]
    BY <2>1, <2>2, <2>3
  <2>5. Append(s, "initialized") = t
    BY <2>1, <2>2, <2>4, AppendIs, Zenon
  <2>. QED
    BY <2>5 DEF s, t
<1>3. Append(<<"initialize", "initialized">>, "shutdown") =
          <<"initialize", "initialized", "shutdown">>
  <2>. DEFINE s == <<"initialize", "initialized">>
              t == <<"initialize", "initialized", "shutdown">>
  <2>1. s \in Seq(Messages) /\ Len(s) = 2
    BY DEF Messages
  <2>2. t \in Seq(Messages) /\ Len(t) = 3 /\ t[3] = "shutdown" /\ "shutdown" \in Messages
    BY DEF Messages
  <2>3. \A i \in 1 .. 2 : t[i] = s[i]
    OBVIOUS
  <2>. HIDE DEF s, t
  <2>4. /\ Len(t) = Len(s) + 1 /\ t[Len(t)] = "shutdown"
        /\ \A i \in 1 .. Len(s) : t[i] = s[i]
    BY <2>1, <2>2, <2>3
  <2>5. Append(s, "shutdown") = t
    BY <2>1, <2>2, <2>4, AppendIs, Zenon
  <2>. QED
    BY <2>5 DEF s, t
<1>4. Append(<<"initialize", "initialized", "shutdown">>, "exit") = C!Lifecycle
  <2>. DEFINE s == <<"initialize", "initialized", "shutdown">>
              t == <<"initialize", "initialized", "shutdown", "exit">>
  <2>1. s \in Seq(Messages) /\ Len(s) = 3
    BY DEF Messages
  <2>2. t \in Seq(Messages) /\ Len(t) = 4 /\ t[4] = "exit" /\ "exit" \in Messages
    BY DEF Messages
  <2>3. \A i \in 1 .. 3 : t[i] = s[i]
    OBVIOUS
  <2>. HIDE DEF s, t
  <2>4. /\ Len(t) = Len(s) + 1 /\ t[Len(t)] = "exit"
        /\ \A i \in 1 .. Len(s) : t[i] = s[i]
    BY <2>1, <2>2, <2>3
  <2>5. Append(s, "exit") = t
    BY <2>1, <2>2, <2>4, AppendIs, Zenon
  <2>. QED
    BY <2>5 DEF s, t, C!Lifecycle
<1>. QED
  BY <1>1, <1>2, <1>3, <1>4

(* The steps that send.                                                       *)
LEMMA SendingKept ==
    ASSUME SessionInv,
           C!SendInitialize \/ C!Initialized \/ C!Settled \/ C!ShutdownAnswered
    PROVE  SessionInv'
<1>1. CASE C!SendInitialize
  <2>1. wire' = <<"initialize">>
    BY <1>1, Appended DEF SessionInv, SentSoFar, C!SendInitialize
  <2>. QED
    BY <1>1, <2>1
    DEF SessionInv, SessionTypes, Wires, SentSoFar, AnsweredSoFar, InOrder,
        C!NoOrphan, C!Phases, C!SendInitialize
<1>2. CASE C!Initialized
  <2>1. wire' = <<"initialize", "initialized">>
    BY <1>2, Appended DEF SessionInv, SentSoFar, C!Initialized
  <2>. QED
    BY <1>2, <2>1
    DEF SessionInv, SessionTypes, Wires, SentSoFar, AnsweredSoFar, InOrder,
        C!NoOrphan, C!Phases, C!Initialized
<1>3. CASE C!Settled
  <2>1. wire' = <<"initialize", "initialized", "shutdown">>
    BY <1>3, Appended DEF SessionInv, SentSoFar, C!Settled
  <2>. QED
    BY <1>3, <2>1
    DEF SessionInv, SessionTypes, Wires, SentSoFar, AnsweredSoFar, InOrder,
        C!NoOrphan, C!Phases, C!Settled
<1>4. CASE C!ShutdownAnswered
  <2>1. wire' = C!Lifecycle
    BY <1>4, Appended DEF SessionInv, SentSoFar, C!ShutdownAnswered
  <2>. QED
    BY <1>4, <2>1
    DEF SessionInv, SessionTypes, Wires, SentSoFar, AnsweredSoFar, InOrder,
        C!NoOrphan, C!Phases, C!ShutdownAnswered
<1>. QED
  BY <1>1, <1>2, <1>3, <1>4

(* The steps that unwind.                                                     *)
LEMMA UnwindingKept ==
    ASSUME SessionInv,
           \/ C!OpeningFails \/ C!SettleTimeout \/ C!ShutdownFails
           \/ C!DispatchFails \/ C!CancelFromOutside
    PROVE  SessionInv'
<1>1. CASE C!CancelFromOutside
  BY <1>1
  DEF SessionInv, SessionTypes, Wires, SentSoFar, AnsweredSoFar, InOrder,
      C!NoOrphan, C!Phases, C!CancelFromOutside
<1>2. CASE C!OpeningFails \/ C!SettleTimeout \/ C!ShutdownFails \/ C!DispatchFails
  <2>1. /\ phase' = "reaping" /\ failed' = TRUE /\ serving' = FALSE
        /\ UNCHANGED <<cancelled, unanswered, wire, answers, process, signalled>>
    BY <1>2
    DEF C!OpeningFails, C!SettleTimeout, C!ShutdownFails, C!DispatchFails, C!Unwind
  <2>. QED
    BY <2>1
    DEF SessionInv, SessionTypes, Wires, SentSoFar, AnsweredSoFar, InOrder,
        C!NoOrphan, C!Phases
<1>. QED
  BY <1>1, <1>2

(* The steps of the body and of the user's requests.                          *)
LEMMA BodyKept ==
    ASSUME SessionInv,
           \/ C!Configured \/ C!UserRequest \/ C!UserAnswered \/ C!UserTimeout
           \/ C!BodyEnds
    PROVE  SessionInv'
<1>1. CASE C!Configured
  BY <1>1
  DEF SessionInv, SessionTypes, Wires, SentSoFar, AnsweredSoFar, InOrder,
      C!NoOrphan, C!Phases, C!Configured
<1>2. CASE C!UserRequest \/ C!UserAnswered \/ C!UserTimeout
  <2>1. /\ phase \notin {"reaping", "closed"}
        /\ \/ unanswered' \in {"none", "late"}
           \/ phase \in {"body", "settling"} /\ unanswered' \in {"live", "abandoned"}
        /\ UNCHANGED <<phase, failed, cancelled, wire, answers, process, signalled, serving>>
    BY <1>2 DEF C!UserRequest, C!UserAnswered, C!UserTimeout, C!Counted, C!InSession
  <2>. QED
    BY <2>1
    DEF SessionInv, SessionTypes, Wires, SentSoFar, AnsweredSoFar, InOrder,
        C!NoOrphan
<1>3. CASE C!BodyEnds
  BY <1>3
  DEF SessionInv, SessionTypes, Wires, SentSoFar, AnsweredSoFar, InOrder,
      C!NoOrphan, C!Phases, C!BodyEnds
<1>. QED
  BY <1>1, <1>2, <1>3

(* The steps of the cleanup and of the server.                                *)
LEMMA ReapingKept ==
    ASSUME SessionInv,
           \/ C!Drained \/ C!Terminate \/ C!Reaped \/ C!Kill \/ C!CancelledWait
           \/ C!ServerExits \/ C!ServerCalls \/ C!HookReturns
           \/ \E m \in {"initialize", "shutdown"} : C!ServerAnswers(m)
    PROVE  SessionInv'
<1>1. CASE C!Drained
  BY <1>1
  DEF SessionInv, SessionTypes, Wires, SentSoFar, AnsweredSoFar, InOrder,
      C!NoOrphan, C!Phases, C!Drained
<1>2. CASE C!Terminate
  BY <1>2
  DEF SessionInv, SessionTypes, Wires, SentSoFar, AnsweredSoFar, InOrder,
      C!NoOrphan, C!Phases, C!Terminate
<1>3. CASE C!Reaped
  BY <1>3
  DEF SessionInv, SessionTypes, Wires, SentSoFar, AnsweredSoFar, InOrder,
      C!NoOrphan, C!Phases, C!Reaped
<1>4. CASE C!Kill
  BY <1>4
  DEF SessionInv, SessionTypes, Wires, SentSoFar, AnsweredSoFar, InOrder,
      C!NoOrphan, C!Phases, C!Kill
<1>5. CASE C!CancelledWait
  BY <1>5
  DEF SessionInv, SessionTypes, Wires, SentSoFar, AnsweredSoFar, InOrder,
      C!NoOrphan, C!Phases, C!CancelledWait
<1>6. CASE C!ServerExits
  BY <1>6
  DEF SessionInv, SessionTypes, Wires, SentSoFar, AnsweredSoFar, InOrder,
      C!NoOrphan, C!ServerExits
<1>7. CASE C!ServerCalls \/ C!HookReturns
  <2>1. serving' \in BOOLEAN
    BY <1>7 DEF C!ServerCalls, C!HookReturns
  <2>2. UNCHANGED <<phase, failed, cancelled, unanswered, wire, answers, process, signalled>>
    BY <1>7 DEF C!ServerCalls, C!HookReturns
  <2>. QED
    BY <2>1, <2>2 DEF SessionInv, SessionTypes, SentSoFar, AnsweredSoFar, InOrder, C!NoOrphan
<1>8. ASSUME NEW m \in {"initialize", "shutdown"}, C!ServerAnswers(m)
      PROVE  SessionInv'
  <2>1. /\ answers' = answers \cup {m}
        /\ UNCHANGED <<phase, failed, cancelled, unanswered, wire, process, signalled, serving>>
    BY <1>8 DEF C!ServerAnswers
  <2>2. SessionTypes'
    BY <2>1 DEF SessionInv, SessionTypes
  <2>3. InOrder'
    BY <2>1 DEF SessionInv, SessionTypes, InOrder
  <2>. QED
    BY <2>1, <2>2, <2>3 DEF SessionInv, SentSoFar, AnsweredSoFar, C!NoOrphan
<1>. QED
  BY <1>1, <1>2, <1>3, <1>4, <1>5, <1>6, <1>7, <1>8

LEMMA SessionStepKept ==
    ASSUME SessionInv, C!ClientStep \/ C!Environment
    PROVE  SessionInv'
  BY SendingKept, UnwindingKept, BodyKept, ReapingKept DEF C!ClientStep, C!Environment

(* A session on a fresh server begins as the first did.                       *)
LEMMA StartKept ==
    ASSUME SessionInv, StartSession
    PROVE  SessionInv'
<1>1. unanswered' \in {"none", "abandoned"}
  BY DEF StartSession
<1>. QED
  BY <1>1
  DEF SessionInv, SessionTypes, Wires, SentSoFar, AnsweredSoFar, InOrder,
      C!NoOrphan, C!Phases, StartSession

LEMMA SessionTypesAre == SessionTypes <=> C!TypeOK
  BY WireTypes DEF SessionTypes, C!TypeOK

LEMMA InitSession == Init => SessionInv
  BY DEF Init, C!Init, SessionInv, SessionTypes, Wires, SentSoFar, AnsweredSoFar,
         InOrder, C!NoOrphan, C!Phases

LEMMA SessionUnchanged ==
    ASSUME SessionInv, UNCHANGED sessionVars
    PROVE  SessionInv'
<1>1. SessionTypes'
  BY DEF SessionInv, SessionTypes, sessionVars
<1>2. InOrder' /\ C!NoOrphan'
  BY DEF SessionInv, SentSoFar, AnsweredSoFar, InOrder, C!NoOrphan, sessionVars
<1>. QED
  BY <1>1, <1>2 DEF SessionInv, SentSoFar, AnsweredSoFar, InOrder, sessionVars

-----------------------------------------------------------------------------
(* The configuration                                                          *)

(* A dictionary added to dictionaries that have been said.                    *)
LEMMA SaidMore ==
    ASSUME ConfigTypeOK, NEW config, IsDict(config)
    PROVE  /\ Append(said, config) \in Seq(Range(Append(said, config)))
           /\ \A n \in DOMAIN Append(said, config) : IsDict(Append(said, config)[n])
<1>. DEFINE more == Append(said, config)
            T == Range(said) \cup {config}
<1>1. said \in Seq(Range(said)) /\ \A n \in DOMAIN said : IsDict(said[n])
  BY DEF ConfigTypeOK
<1>2. said \in Seq(T) /\ config \in T
  BY <1>1
<1>. HIDE DEF T
<1>3. /\ more \in Seq(T) /\ Len(more) = Len(said) + 1
      /\ \A n \in 1 .. Len(said) : more[n] = said[n]
      /\ more[Len(said) + 1] = config
  BY <1>2
<1>. HIDE DEF more
<1>4. DOMAIN more = 1 .. Len(said) + 1 /\ DOMAIN said = 1 .. Len(said) /\ Len(said) \in Nat
  BY <1>2, <1>3
<1>5. more \in Seq(Range(more))
  BY <1>3 DEF Range
<1>6. \A n \in DOMAIN more : IsDict(more[n])
  <2>1. SUFFICES ASSUME NEW n \in 1 .. Len(said) + 1
                 PROVE  IsDict(more[n])
    BY <1>4
  <2>2. CASE n = Len(said) + 1
    BY <2>2, <1>3
  <2>3. CASE n # Len(said) + 1
    <3>1. n \in 1 .. Len(said)
      BY <2>3, <1>4
    <3>. QED
      BY <3>1, <1>1, <1>3, <1>4
  <2>. QED
    BY <2>2, <2>3
<1>. QED
  BY <1>5, <1>6 DEF more

LEMMA UpdateTypes ==
    ASSUME ConfigTypeOK, NEW who \in Updaters, NEW config \in Updates,
           NEW merge, UpdateGlobal(who, config, merge)
    PROVE  ConfigTypeOK'
<1>1. IsDict(config)
  BY UpdatesAssumption
<1>2. IsDict(global_config')
  BY <1>1 DEF UpdateGlobal, Merge, IsDict, Dict
<1>3. said' \in Seq(Range(said')) /\ \A n \in DOMAIN said' : IsDict(said'[n])
  <2>1. CASE merge
    BY <1>1, <2>1, SaidMore DEF UpdateGlobal
  <2>2. CASE ~ merge
    <3>1. said' = <<config>>
      BY <2>2 DEF UpdateGlobal
    <3>. QED
      BY <1>1, <3>1 DEF Range
  <2>. QED
    BY <2>1, <2>2
<1>4. notices' \in [Updaters -> Nat]
  BY DEF ConfigTypeOK, UpdateGlobal, NotifyChange
<1>. QED
  BY <1>2, <1>3, <1>4 DEF ConfigTypeOK, UpdateGlobal

LEMMA ScopeTypes ==
    ASSUME ConfigTypeOK, NEW pattern \in Patterns, NEW config \in Updates,
           AddScope(pattern, config)
    PROVE  ConfigTypeOK'
<1>. DEFINE Scope == [pattern : Patterns, config : Updates]
            scope == [pattern |-> pattern, config |-> config]
<1>1. scope \in Scope /\ scoped_configs \in Seq(Scope)
  BY DEF ConfigTypeOK
<1>2. scoped_configs' = Append(scoped_configs, scope)
  BY DEF AddScope
<1>. HIDE DEF Scope, scope
<1>3. scoped_configs' \in Seq(Scope)
  BY <1>1, <1>2
<1>4. notices' \in [Updaters -> Nat]
  BY DEF ConfigTypeOK, AddScope, NotifyChange, Updaters
<1>. QED
  BY <1>3, <1>4 DEF ConfigTypeOK, AddScope, Scope, scope

LEMMA NoticeTypes ==
    ASSUME ConfigTypeOK,
           \/ \E who \in Updaters : SendNotice(who) \/ Withdraw(who)
           \/ ServerAsks \/ RespondConfiguration \/ ServerLearns
    PROVE  ConfigTypeOK'
<1>1. ASSUME NEW who \in Updaters, SendNotice(who) \/ Withdraw(who)
      PROVE  ConfigTypeOK'
  <2>1. notices' \in [Updaters -> Nat]
    BY <1>1 DEF ConfigTypeOK, SendNotice, Withdraw
  <2>. QED
    BY <1>1, <2>1 DEF ConfigTypeOK, SendNotice, Withdraw
<1>2. CASE ServerAsks \/ RespondConfiguration \/ ServerLearns
  BY <1>2 DEF ConfigTypeOK, ServerAsks, RespondConfiguration, ServerLearns
<1>. QED
  BY <1>1, <1>2

LEMMA RegisterTypes ==
    ASSUME ConfigTypeOK, Register
    PROVE  ConfigTypeOK'
<1>1. callbacks' \in Nat
  BY DEF ConfigTypeOK, Register
<1>2. told' \in BOOLEAN /\ UNCHANGED <<global_config, scoped_configs, said, notices>>
  BY DEF Register
<1>. QED
  BY <1>1, <1>2 DEF ConfigTypeOK

LEMMA ConfigUnchanged ==
    ASSUME ConfigTypeOK, UNCHANGED configVars
    PROVE  ConfigTypeOK'
  BY DEF ConfigTypeOK, configVars

LEMMA InitConfig == ConfigInit => ConfigTypeOK
<1>1. /\ <<Empty>> \in Seq(Range(<<Empty>>))
      /\ \A n \in DOMAIN <<Empty>> : IsDict(<<Empty>>[n])
  BY DEF Range, Empty, Dict, IsDict
<1>2. IsDict(Empty)
  BY DEF Empty, Dict, IsDict
<1>. SUFFICES ASSUME ConfigInit
              PROVE  ConfigTypeOK
  OBVIOUS
<1>3. scoped_configs \in Seq([pattern : Patterns, config : Updates])
  BY DEF ConfigInit
<1>5. callbacks \in Nat /\ told \in BOOLEAN
  BY DEF ConfigInit
<1>6. notices \in [Updaters -> Nat]
  BY DEF ConfigInit
<1>4. global_config = Empty /\ said = <<Empty>>
  BY DEF ConfigInit
<1>. QED
  BY <1>1, <1>2, <1>3, <1>4, <1>5, <1>6 DEF ConfigTypeOK

-----------------------------------------------------------------------------
(* The search for a server                                                    *)

(* How many candidates of the documented order the generator has yielded.     *)
ArgumentFirst == IF argument = "none" THEN 0 ELSE 1
LocalNext == IF machine.onPath /\ ~ installed THEN 1 ELSE 0
ContainerNext == IF machine.containers THEN 1 ELSE 0

Yielded ==
    CASE stage = "argument" -> 0
      [] stage = "probe" -> ArgumentFirst
      [] stage = "container" -> ArgumentFirst + LocalNext
      [] stage = "last" -> ArgumentFirst + LocalNext + ContainerNext
      [] stage = "end" -> ArgumentFirst + LocalNext + ContainerNext + 1

(* Whoever is being started is what the last stage yields.                    *)
TryingYielded ==
    trying # "nobody" =>
        /\ stage # "argument"
        /\ stage = "probe" => argument # "none" /\ trying = argument
        /\ stage = "container" => machine.onPath /\ trying = "local"
        /\ stage = "last" => machine.containers /\ trying = "container"
        /\ stage = "end" => trying = "local"

(* While the search is open the refusals are the candidates yielded before,   *)
(* each of them refused, and nothing has been installed.                      *)
Searching ==
    result = "open" =>
        /\ ~ installed
        /\ Len(refusals) = IF trying = "nobody" THEN Yielded ELSE Yielded - 1
        /\ \A i \in 1 .. Len(refusals) :
              refusals[i] = S!Order[i] /\ S!Start(refusals[i]) = "refused"
        /\ TryingYielded

SelectionInv == S!TypeOK /\ Searching /\ FirstThatRuns /\ InstallsLast

(* The documented order, spelled out.                                         *)
LEMMA OrderIs ==
    ASSUME S!TypeOK
    PROVE  /\ S!Order \in Seq(S!Candidates)
           /\ Len(S!Order) = ArgumentFirst + LocalNext + ContainerNext + 1
           /\ ArgumentFirst = 1 => S!Order[1] = argument
           /\ LocalNext = 1 => S!Order[ArgumentFirst + 1] = "local"
           /\ ContainerNext = 1 => S!Order[ArgumentFirst + LocalNext + 1] = "container"
           /\ S!Order[Len(S!Order)] = "local"
<1>. DEFINE a == IF argument = "none" THEN <<>> ELSE <<argument>>
            l == IF machine.onPath /\ ~ installed THEN <<"local">> ELSE <<>>
            c == IF machine.containers THEN <<"container">> ELSE <<>>
            last == <<"local">>
<1>1. /\ a \in Seq(S!Candidates) /\ Len(a) = ArgumentFirst
      /\ ArgumentFirst = 1 => a[1] = argument
  <2>1. CASE argument # "none"
    <3>1. argument \in S!Candidates
      BY <2>1 DEF S!TypeOK, S!Arguments, S!Candidates
    <3>2. a = <<argument>> /\ ArgumentFirst = 1
      BY <2>1 DEF ArgumentFirst
    <3>. QED
      BY <3>1, <3>2
  <2>2. CASE ~ (argument # "none")
    <3>1. a = <<>> /\ ArgumentFirst = 0
      BY <2>2 DEF ArgumentFirst
    <3>. QED
      BY <3>1
  <2>. QED
    BY <2>1, <2>2
<1>2. /\ l \in Seq(S!Candidates) /\ Len(l) = LocalNext
      /\ LocalNext = 1 => l[1] = "local"
  <2>1. CASE machine.onPath /\ ~ installed
    <3>1. "local" \in S!Candidates
      BY <2>1 DEF S!Candidates
    <3>2. l = <<"local">> /\ LocalNext = 1
      BY <2>1 DEF LocalNext
    <3>. QED
      BY <3>1, <3>2
  <2>2. CASE ~ (machine.onPath /\ ~ installed)
    <3>1. l = <<>> /\ LocalNext = 0
      BY <2>2 DEF LocalNext
    <3>. QED
      BY <3>1
  <2>. QED
    BY <2>1, <2>2
<1>3. /\ c \in Seq(S!Candidates) /\ Len(c) = ContainerNext
      /\ ContainerNext = 1 => c[1] = "container"
  <2>1. CASE machine.containers
    <3>1. "container" \in S!Candidates
      BY <2>1 DEF S!Candidates
    <3>2. c = <<"container">> /\ ContainerNext = 1
      BY <2>1 DEF ContainerNext
    <3>. QED
      BY <3>1, <3>2
  <2>2. CASE ~ (machine.containers)
    <3>1. c = <<>> /\ ContainerNext = 0
      BY <2>2 DEF ContainerNext
    <3>. QED
      BY <3>1
  <2>. QED
    BY <2>1, <2>2
<1>4. last \in Seq(S!Candidates) /\ Len(last) = 1 /\ last[1] = "local"
  BY DEF S!Candidates
<1>5. ArgumentFirst \in {0, 1} /\ LocalNext \in {0, 1} /\ ContainerNext \in {0, 1}
  BY DEF ArgumentFirst, LocalNext, ContainerNext
<1>6. S!Order = a \o l \o c \o last
  BY DEF S!Order
<1>. HIDE DEF a, l, c, last
<1>7. /\ a \o l \in Seq(S!Candidates) /\ Len(a \o l) = ArgumentFirst + LocalNext
      /\ ArgumentFirst = 1 => (a \o l)[1] = argument
      /\ LocalNext = 1 => (a \o l)[ArgumentFirst + 1] = "local"
  BY <1>1, <1>2, <1>5
<1>. DEFINE before == a \o l \o c
<1>8. /\ before \in Seq(S!Candidates)
      /\ Len(before) = ArgumentFirst + LocalNext + ContainerNext
      /\ ArgumentFirst = 1 => before[1] = argument
      /\ LocalNext = 1 => before[ArgumentFirst + 1] = "local"
      /\ ContainerNext = 1 => before[ArgumentFirst + LocalNext + 1] = "container"
  BY <1>3, <1>5, <1>7
<1>9. S!Order = before \o last
  BY <1>6
<1>. HIDE DEF before
<1>10. /\ before \o last \in Seq(S!Candidates)
       /\ Len(before \o last) = Len(before) + 1
       /\ \A i \in 1 .. Len(before) : (before \o last)[i] = before[i]
       /\ (before \o last)[Len(before) + 1] = "local"
  <2>1. before \in Seq(S!Candidates)
    BY <1>8
  <2>2. /\ before \o last \in Seq(S!Candidates)
        /\ Len(before \o last) = Len(before) + Len(last)
        /\ \A i \in 1 .. Len(before) + Len(last) :
              (before \o last)[i] = IF i <= Len(before) THEN before[i]
                                     ELSE last[i - Len(before)]
    BY <1>4, <2>1, ConcatProperties, Zenon
  <2>3. Len(before) \in Nat
    BY <2>1
  <2>4. Len(before) + 1 - Len(before) = 1
    BY <2>3
  <2>. QED
    BY <1>4, <2>2, <2>3, <2>4
<1>11. /\ ArgumentFirst = 1 => 1 \in 1 .. Len(before)
       /\ LocalNext = 1 => ArgumentFirst + 1 \in 1 .. Len(before)
       /\ ContainerNext = 1 => ArgumentFirst + LocalNext + 1 \in 1 .. Len(before)
  BY <1>5, <1>8
<1>12. /\ Len(S!Order) = ArgumentFirst + LocalNext + ContainerNext + 1
       /\ S!Order[Len(S!Order)] = "local"
  BY <1>5, <1>8, <1>9, <1>10
<1>13. \A i \in 1 .. Len(before) : S!Order[i] = before[i]
  BY <1>9, <1>10
<1>14. /\ ArgumentFirst = 1 => S!Order[1] = argument
       /\ LocalNext = 1 => S!Order[ArgumentFirst + 1] = "local"
       /\ ContainerNext = 1 => S!Order[ArgumentFirst + LocalNext + 1] = "container"
  BY <1>8, <1>11, <1>13
<1>. QED
  BY <1>9, <1>10, <1>12, <1>14

(* Where the candidate that is being started stands in that order.            *)
LEMMA TryingIsNext ==
    ASSUME S!TypeOK, Searching, result = "open", trying # "nobody"
    PROVE  /\ Len(refusals) < Len(S!Order)
           /\ S!Order[Len(refusals) + 1] = trying
<1>1. ArgumentFirst \in {0, 1} /\ LocalNext \in {0, 1} /\ ContainerNext \in {0, 1}
  BY DEF ArgumentFirst, LocalNext, ContainerNext
<1>2. Len(refusals) = Yielded - 1 /\ TryingYielded /\ ~ installed
  BY DEF Searching
<1>3. stage \in {"probe", "container", "last", "end"}
  BY <1>2 DEF TryingYielded, S!TypeOK, S!Stages
<1>4. CASE stage = "probe"
  <2>1. ArgumentFirst = 1 /\ Yielded = 1 /\ trying = argument
    BY <1>2, <1>4 DEF TryingYielded, ArgumentFirst, Yielded
  <2>. QED
    BY <1>1, <1>2, <2>1, OrderIs
<1>5. CASE stage = "container"
  <2>1. LocalNext = 1 /\ Yielded = ArgumentFirst + 1 /\ trying = "local"
    BY <1>2, <1>5 DEF TryingYielded, LocalNext, Yielded
  <2>. QED
    BY <1>1, <1>2, <2>1, OrderIs
<1>6. CASE stage = "last"
  <2>1. /\ ContainerNext = 1 /\ Yielded = ArgumentFirst + LocalNext + 1
        /\ trying = "container"
    BY <1>2, <1>6 DEF TryingYielded, ContainerNext, Yielded
  <2>. QED
    BY <1>1, <1>2, <2>1, OrderIs
<1>7. CASE stage = "end"
  <2>1. Yielded = ArgumentFirst + LocalNext + ContainerNext + 1 /\ trying = "local"
    BY <1>2, <1>7 DEF TryingYielded, Yielded
  <2>. QED
    BY <1>1, <1>2, <2>1, OrderIs
<1>. QED
  BY <1>3, <1>4, <1>5, <1>6, <1>7

(* Only what is not on the PATH is installed, and its start refuses no more.   *)
LEMMA InstallingRuns ==
    S!InstallRuns => ~ machine.onPath /\ S!Start("local") # "refused"
  BY DEF S!InstallRuns, S!Start, S!StartLocal, S!Spawned

(* The generator yields the next candidate, or passes its stage over.         *)
LEMMA CandidateKept ==
    ASSUME SelectionInv, S!Candidate
    PROVE  SelectionInv'
<1>1. /\ result = "open" /\ trying = "nobody"
      /\ UNCHANGED <<argument, machine, refusals, installed, result>>
      /\ S!TypeOK /\ Searching
  BY DEF SelectionInv, S!Candidate
<1>2. /\ ~ installed /\ Len(refusals) = Yielded
      /\ \A i \in 1 .. Len(refusals) :
            refusals[i] = S!Order[i] /\ S!Start(refusals[i]) = "refused"
  BY <1>1 DEF Searching
<1>3. S!TypeOK'
  BY <1>1
  DEF S!Candidate, S!ByArgument, S!Probe, S!Container, S!LastLocal,
      S!TypeOK, S!Stages, S!Candidates, S!Arguments
<1>4. TryingYielded'
  BY <1>1
  DEF S!Candidate, S!ByArgument, S!Probe, S!Container, S!LastLocal, TryingYielded
<1>5. Yielded' = IF trying' = "nobody" THEN Yielded ELSE Yielded + 1
  <2>1. UNCHANGED <<ArgumentFirst, LocalNext, ContainerNext>>
    BY <1>1 DEF ArgumentFirst, LocalNext, ContainerNext
  <2>2. CASE S!ByArgument
    BY <1>1, <2>1, <2>2 DEF S!ByArgument, Yielded, ArgumentFirst, S!TypeOK, S!Arguments
  <2>3. CASE S!Probe
    BY <1>1, <1>2, <2>1, <2>3 DEF S!Probe, Yielded, ArgumentFirst, LocalNext
  <2>4. CASE S!Container
    BY <1>1, <2>1, <2>4 DEF S!Container, Yielded, ArgumentFirst, LocalNext, ContainerNext
  <2>5. CASE S!LastLocal
    BY <1>1, <2>1, <2>5 DEF S!LastLocal, Yielded, ArgumentFirst, LocalNext, ContainerNext
  <2>. QED
    BY <2>2, <2>3, <2>4, <2>5 DEF S!Candidate
<1>6. Len(refusals)' = IF trying' = "nobody" THEN Yielded' ELSE Yielded' - 1
  <2>1. Len(refusals) \in Nat
    BY <1>1 DEF S!TypeOK
  <2>. QED
    BY <1>1, <1>2, <1>5, <2>1
<1>7. UNCHANGED S!Order /\ \A s : S!Start(s)' = S!Start(s)
  BY <1>1
  DEF S!Order, S!Start, S!StartLocal, S!StartContainer, S!InstallRuns, S!Spawned
<1>8. Searching'
  BY <1>1, <1>2, <1>4, <1>6, <1>7 DEF Searching
<1>. QED
  BY <1>1, <1>2, <1>3, <1>8
  DEF SelectionInv, FirstThatRuns, InstallsLast, S!FirstThatRuns, S!InstallsLast,
      S!Candidates

(* Whoever is installed comes last: the others have refused before.           *)
LEMMA InstalledLast ==
    ASSUME S!TypeOK, Searching, result = "open", trying = "local", S!InstallRuns,
           argument # "local"
    PROVE  /\ argument = "given" => machine.given = "refused"
           /\ machine.containers => S!StartContainer = "refused"
<1>1. ~ machine.onPath
  BY DEF S!InstallRuns
<1>2. /\ TryingYielded /\ Len(refusals) = Yielded - 1
      /\ \A i \in 1 .. Len(refusals) :
            refusals[i] = S!Order[i] /\ S!Start(refusals[i]) = "refused"
  BY DEF Searching
<1>3. stage = "end"
  BY <1>1, <1>2 DEF TryingYielded, S!TypeOK, S!Stages
<1>4. LocalNext = 0 /\ ArgumentFirst \in {0, 1} /\ ContainerNext \in {0, 1}
  BY <1>1 DEF LocalNext, ArgumentFirst, ContainerNext
<1>5. Len(refusals) = ArgumentFirst + ContainerNext
  BY <1>2, <1>3, <1>4 DEF Yielded
<1>6. ASSUME argument = "given"
      PROVE  machine.given = "refused"
  <2>1. ArgumentFirst = 1
    BY <1>6 DEF ArgumentFirst
  <2>2. 1 \in 1 .. Len(refusals) /\ S!Order[1] = "given"
    BY <1>4, <1>5, <1>6, <2>1, OrderIs
  <2>3. S!Start("given") = "refused"
    BY <1>2, <2>2
  <2>. QED
    BY <2>3 DEF S!Start
<1>7. ASSUME machine.containers
      PROVE  S!StartContainer = "refused"
  <2>1. ContainerNext = 1
    BY <1>7 DEF ContainerNext
  <2>2. /\ ArgumentFirst + 1 \in 1 .. Len(refusals)
        /\ S!Order[ArgumentFirst + LocalNext + 1] = "container"
        /\ ArgumentFirst + LocalNext + 1 = ArgumentFirst + 1
    BY <1>4, <1>5, <2>1, OrderIs
  <2>3. S!Start("container") = "refused"
    BY <1>2, <2>2
  <2>. QED
    BY <2>3 DEF S!Start
<1>. QED
  BY <1>6, <1>7

(* A refused candidate joins the others; that installs nothing.               *)
LEMMA RefusedKept ==
    ASSUME SelectionInv, S!Attempt, S!Refused
    PROVE  SelectionInv'
<1>1. /\ result = "open" /\ trying # "nobody" /\ S!Start(trying) = "refused"
      /\ trying' = "nobody" /\ refusals' = Append(refusals, trying)
      /\ UNCHANGED <<argument, machine, stage, result>>
      /\ S!TypeOK /\ Searching
  BY DEF SelectionInv, S!Attempt, S!Refused
<1>2. /\ ~ installed /\ Len(refusals) = Yielded - 1
      /\ \A i \in 1 .. Len(refusals) :
            refusals[i] = S!Order[i] /\ S!Start(refusals[i]) = "refused"
  BY <1>1 DEF Searching
<1>3. installed' = FALSE
  BY <1>1, <1>2, InstallingRuns DEF S!Attempt
<1>4. trying \in S!Candidates /\ refusals \in Seq(S!Candidates)
  BY <1>1 DEF S!TypeOK
<1>5. /\ refusals' \in Seq(S!Candidates) /\ Len(refusals') = Len(refusals) + 1
      /\ \A i \in 1 .. Len(refusals) : refusals'[i] = refusals[i]
      /\ refusals'[Len(refusals) + 1] = trying
  BY <1>1, <1>4
<1>6. S!TypeOK'
  BY <1>1, <1>3, <1>5 DEF S!TypeOK
<1>7. UNCHANGED <<S!Order, Yielded>> /\ \A s : S!Start(s)' = S!Start(s)
  BY <1>1, <1>2, <1>3
  DEF S!Order, S!Start, S!StartLocal, S!StartContainer, S!InstallRuns, S!Spawned,
      Yielded, ArgumentFirst, LocalNext, ContainerNext
<1>8. S!Order[Len(refusals) + 1] = trying
  BY <1>1, TryingIsNext
<1>9. ASSUME NEW i \in 1 .. Len(refusals')
      PROVE  refusals'[i] = S!Order[i] /\ S!Start(refusals'[i]) = "refused"
  <2>1. Len(refusals) \in Nat
    BY <1>4
  <2>2. CASE i = Len(refusals) + 1
    BY <1>1, <1>5, <1>8, <2>2
  <2>3. CASE i # Len(refusals) + 1
    <3>1. i \in 1 .. Len(refusals)
      BY <1>5, <2>1, <2>3
    <3>. QED
      BY <1>2, <1>5, <3>1
  <2>. QED
    BY <2>2, <2>3
<1>10. Len(refusals') = Yielded
  <2>1. Len(refusals) \in Nat
    BY <1>4
  <2>2. Yielded \in Int
    BY <1>1 DEF Yielded, ArgumentFirst, LocalNext, ContainerNext, S!TypeOK, S!Stages
  <2>. QED
    BY <1>2, <1>5, <2>1, <2>2
<1>11. Searching'
  BY <1>1, <1>3, <1>7, <1>9, <1>10 DEF Searching, TryingYielded
<1>. QED
  BY <1>1, <1>3, <1>6, <1>11
  DEF SelectionInv, FirstThatRuns, InstallsLast, S!FirstThatRuns, S!InstallsLast,
      S!Candidates

(* A candidate runs: it is the next of the order, which its installation      *)
(* leaves as it was.                                                          *)
LEMMA RunsKept ==
    ASSUME SelectionInv, S!Attempt, S!Runs
    PROVE  SelectionInv'
<1>1. /\ result = "open" /\ trying # "nobody"
      /\ result' = trying /\ UNCHANGED <<argument, stage, trying, refusals>>
      /\ machine' = IF trying = "local" /\ S!InstallRuns
                    THEN [machine EXCEPT !.onPath = TRUE] ELSE machine
      /\ installed' = (installed \/ (trying = "local" /\ S!InstallRuns))
      /\ S!TypeOK /\ Searching
  BY DEF SelectionInv, S!Attempt, S!Runs
<1>2. /\ ~ installed
      /\ \A i \in 1 .. Len(refusals) : refusals[i] = S!Order[i]
  BY <1>1 DEF Searching
<1>3. trying \in S!Candidates
  BY <1>1 DEF S!TypeOK
<1>4. /\ machine' \in S!Machines
      /\ machine'.containers = machine.containers
      /\ machine'.arguments = machine.arguments
      /\ machine'.backendOnPath = machine.backendOnPath
      /\ machine'.backendSpawns = machine.backendSpawns
      /\ machine'.given = machine.given
  BY <1>1 DEF S!TypeOK, S!Machines
<1>5. S!TypeOK'
  <2>1. installed' \in BOOLEAN
    BY <1>1, <1>2
  <2>. QED
    BY <1>1, <1>3, <1>4, <2>1 DEF S!TypeOK
<1>6. UNCHANGED S!Order
  <2>1. CASE trying = "local" /\ S!InstallRuns
    BY <1>1, <1>4, <2>1 DEF S!Order, S!InstallRuns
  <2>2. CASE ~ (trying = "local" /\ S!InstallRuns)
    BY <1>1, <1>2, <2>2 DEF S!Order
  <2>. QED
    BY <2>1, <2>2
<1>7. FirstThatRuns'
  BY <1>1, <1>2, <1>6, TryingIsNext DEF FirstThatRuns, S!FirstThatRuns
<1>8. InstallsLast'
  <2>1. UNCHANGED S!StartContainer
    BY <1>4 DEF S!StartContainer, S!Spawned
  <2>. QED
    BY <1>1, <1>2, <1>4, <2>1, InstalledLast DEF InstallsLast, S!InstallsLast
<1>9. result' # "open"
  BY <1>1, <1>3 DEF S!Candidates
<1>. QED
  BY <1>5, <1>7, <1>8, <1>9 DEF SelectionInv, Searching

(* The start raises, and the search is over without a server.                 *)
LEMMA RaisesKept ==
    ASSUME SelectionInv, S!Attempt, S!Raises
    PROVE  SelectionInv'
<1>1. /\ result = "open" /\ trying # "nobody" /\ result' = "raised"
      /\ UNCHANGED <<argument, machine, stage, trying, refusals>>
      /\ installed' = (installed \/ (trying = "local" /\ S!InstallRuns))
      /\ S!TypeOK /\ Searching
  BY DEF SelectionInv, S!Attempt, S!Raises
<1>2. ~ installed
  BY <1>1 DEF Searching
<1>3. S!TypeOK'
  <2>1. installed' \in BOOLEAN
    BY <1>1, <1>2
  <2>. QED
    BY <1>1, <2>1 DEF S!TypeOK
<1>4. InstallsLast'
  <2>1. UNCHANGED S!StartContainer
    BY <1>1 DEF S!StartContainer, S!Spawned
  <2>. QED
    BY <1>1, <1>2, <2>1, InstalledLast DEF InstallsLast, S!InstallsLast
<1>. QED
  BY <1>1, <1>3, <1>4
  DEF SelectionInv, Searching, FirstThatRuns, S!FirstThatRuns, S!Candidates

LEMMA ExhaustedKept ==
    ASSUME SelectionInv, S!Exhausted
    PROVE  SelectionInv'
<1>1. /\ result' = "exhausted" /\ S!TypeOK /\ InstallsLast
      /\ UNCHANGED <<argument, machine, stage, trying, refusals, installed>>
  BY DEF SelectionInv, S!Exhausted
<1>2. S!TypeOK'
  BY <1>1 DEF S!TypeOK
<1>3. InstallsLast'
  BY <1>1 DEF InstallsLast, S!InstallsLast, S!StartContainer, S!Spawned
<1>. QED
  BY <1>1, <1>2, <1>3
  DEF SelectionInv, Searching, FirstThatRuns, S!FirstThatRuns, S!Candidates

LEMMA SelectKept ==
    ASSUME SelectionInv, S!Next
    PROVE  SelectionInv'
  BY CandidateKept, RefusedKept, RunsKept, RaisesKept, ExhaustedKept
  DEF S!Next, S!Attempt

(* Every search begins anew.                                                  *)
LEMMA SearchBegins ==
    ASSUME stage = "argument", trying = "nobody", refusals = <<>>,
           installed = FALSE, result = "open",
           argument \in S!Arguments, machine \in S!Machines
    PROVE  SelectionInv
<1>1. S!TypeOK
  <2>1. refusals \in Seq(S!Candidates)
    OBVIOUS
  <2>2. installed \in BOOLEAN
    OBVIOUS
  <2>. QED
    BY <2>1, <2>2 DEF S!TypeOK, S!Stages
<1>2. Searching
  BY DEF Searching, Yielded, TryingYielded
<1>. QED
  BY <1>1, <1>2
  DEF SelectionInv, FirstThatRuns, InstallsLast, S!FirstThatRuns, S!InstallsLast,
      S!Candidates

LEMMA EnterKept ==
    ASSUME SelectionInv, Enter
    PROVE  SelectionInv'
<1>1. /\ stage' = "argument" /\ trying' = "nobody" /\ refusals' = <<>>
      /\ installed' = FALSE /\ result' = "open"
      /\ argument' \in S!Arguments /\ machine' \in S!Machines
  BY DEF SelectionInv, S!TypeOK, Enter
<1>2. S!TypeOK'
  <2>1. refusals' \in Seq(S!Candidates)
    BY <1>1
  <2>2. installed' \in BOOLEAN
    BY <1>1
  <2>. QED
    BY <1>1, <2>1, <2>2 DEF S!TypeOK, S!Stages
<1>3. Searching'
  BY <1>1 DEF Searching, Yielded, TryingYielded
<1>. QED
  BY <1>1, <1>2, <1>3
  DEF SelectionInv, FirstThatRuns, InstallsLast, S!FirstThatRuns, S!InstallsLast,
      S!Candidates

LEMMA SelectionUnchanged ==
    ASSUME SelectionInv, UNCHANGED selectionVars
    PROVE  SelectionInv'
<1>1. UNCHANGED <<S!Order, Yielded, S!StartContainer>> /\ \A s : S!Start(s)' = S!Start(s)
  BY DEF selectionVars, S!Order, Yielded, ArgumentFirst, LocalNext, ContainerNext,
         S!Start, S!StartLocal, S!StartContainer, S!InstallRuns, S!Spawned
<1>2. S!TypeOK'
  BY DEF SelectionInv, S!TypeOK, selectionVars
<1>3. Searching'
  BY <1>1 DEF SelectionInv, Searching, TryingYielded, selectionVars
<1>. QED
  BY <1>1, <1>2, <1>3
  DEF SelectionInv, FirstThatRuns, InstallsLast, S!FirstThatRuns, S!InstallsLast,
      selectionVars

-----------------------------------------------------------------------------
(* The client                                                                 *)
LifeInv ==
    /\ life \in Lives
    /\ entered \in 0 .. life.entries
    /\ at \in {"outside", "selecting", "inside"}
    /\ worn \in BOOLEAN /\ changed \in 0 .. life.changes
    /\ argument = life.argument

IInv == SelectionInv /\ SessionInv /\ ConfigTypeOK /\ LifeInv

LEMMA LifeIs ==
    ASSUME NEW l \in Lives
    PROVE  /\ l.argument \in S!Arguments /\ l.machine \in S!Machines
           /\ l.entries \in Nat /\ l.changes \in Nat
           /\ l.defaults \subseteq Updates /\ l.updates \subseteq Updates \X Ways
  BY LivesAssumption DEF LifeType

LEMMA InitHolds == Init => IInv
<1>. SUFFICES ASSUME Init
              PROVE  IInv
  OBVIOUS
<1>1. SelectionInv
  BY LifeIs, SearchBegins DEF Init, S!Init
<1>2. SessionInv
  BY InitSession
<1>3. ConfigTypeOK
  BY InitConfig DEF Init
<1>4. LifeInv
  <2>1. entered \in 0 .. life.entries /\ changed \in 0 .. life.changes
    BY LifeIs DEF Init
  <2>2. worn \in BOOLEAN
    BY DEF Init
  <2>. QED
    BY <2>1, <2>2 DEF Init, LifeInv
<1>. QED
  BY <1>1, <1>2, <1>3, <1>4 DEF IInv

LEMMA LifeUnchanged ==
    ASSUME LifeInv, UNCHANGED <<lifeVars, argument>>
    PROVE  LifeInv'
  BY DEF LifeInv, lifeVars

(* No step of the search changes the server argument.                         *)
LEMMA ArgumentKept ==
    ASSUME S!Next
    PROVE  argument' = argument
  BY DEF S!Next, S!Candidate, S!Attempt, S!Exhausted

LEMMA OutsideKept ==
    ASSUME IInv, Enter \/ Select \/ EnterFails \/ StartSession \/ Leave
    PROVE  IInv'
<1>1. CASE Enter
  <2>1. SelectionInv'
    BY <1>1, EnterKept DEF IInv
  <2>2. SessionInv' /\ ConfigTypeOK'
    BY <1>1, SessionUnchanged, ConfigUnchanged DEF IInv, Enter, sessionVars, configVars
  <2>3. LifeInv'
    BY <1>1, LifeIs DEF IInv, LifeInv, Enter
  <2>. QED
    BY <2>1, <2>2, <2>3 DEF IInv
<1>2. CASE Select
  <2>1. SelectionInv' /\ argument' = argument
    BY <1>2, SelectKept, ArgumentKept DEF IInv, Select
  <2>2. SessionInv' /\ ConfigTypeOK'
    BY <1>2, SessionUnchanged, ConfigUnchanged DEF IInv, Select
  <2>3. LifeInv'
    BY <1>2, <2>1, LifeUnchanged DEF IInv, Select
  <2>. QED
    BY <2>1, <2>2, <2>3 DEF IInv
<1>3. CASE EnterFails
  <2>1. SelectionInv' /\ SessionInv' /\ ConfigTypeOK'
    BY <1>3, SelectionUnchanged, SessionUnchanged, ConfigUnchanged DEF IInv, EnterFails
  <2>2. LifeInv'
    BY <1>3 DEF IInv, LifeInv, EnterFails, selectionVars
  <2>. QED
    BY <2>1, <2>2 DEF IInv
<1>4. CASE StartSession
  <2>1. SelectionInv' /\ SessionInv'
    BY <1>4, SelectionUnchanged, StartKept DEF IInv, StartSession
  <2>2. ConfigTypeOK'
    BY <1>4, RegisterTypes DEF IInv, StartSession
  <2>3. LifeInv'
    BY <1>4 DEF IInv, LifeInv, StartSession, selectionVars
  <2>. QED
    BY <2>1, <2>2, <2>3 DEF IInv
<1>5. CASE Leave
  <2>1. SelectionInv' /\ SessionInv' /\ ConfigTypeOK'
    BY <1>5, SelectionUnchanged, SessionUnchanged, ConfigUnchanged DEF IInv, Leave
  <2>2. worn' \in BOOLEAN
    BY <1>5, Zenon DEF IInv, LifeInv, Leave
  <2>3. LifeInv'
    BY <1>5, <2>2 DEF IInv, LifeInv, Leave, selectionVars
  <2>. QED
    BY <2>1, <2>3 DEF IInv
<1>. QED
  BY <1>1, <1>2, <1>3, <1>4, <1>5

(* A step of the session, which may apply the defaults of the client.         *)
LEMMA InsideKept ==
    ASSUME IInv, ClientStep \/ Environment
    PROVE  IInv'
<1>1. (C!ClientStep \/ C!Environment) /\ Around
  BY DEF ClientStep, Environment
<1>2. SessionInv'
  BY <1>1, SessionStepKept DEF IInv
<1>3. UNCHANGED <<lifeVars, selectionVars>>
  BY <1>1 DEF Around
<1>4. SelectionInv'
  BY <1>3, SelectionUnchanged DEF IInv
<1>5. LifeInv'
  BY <1>3, LifeUnchanged DEF IInv, selectionVars
<1>6. ConfigTypeOK'
  <2>1. \/ \E config \in life.defaults : UpdateGlobal("client", config, TRUE)
        \/ Withdraw("client") \/ UNCHANGED configVars
    BY <1>1 DEF Around
  <2>2. life.defaults \subseteq Updates
    BY LifeIs DEF IInv, LifeInv
  <2>3. "client" \in Updaters
    BY DEF Updaters
  <2>. QED
    BY <2>1, <2>2, <2>3, UpdateTypes, NoticeTypes, ConfigUnchanged DEF IInv
<1>. QED
  BY <1>2, <1>4, <1>5, <1>6 DEF IInv

(* A step of the configuration.                                               *)
LEMMA ConfigurationKept ==
    ASSUME IInv, UserChanges \/ Notify \/ Synchronise
    PROVE  IInv'
<1>1. UNCHANGED <<selectionVars, sessionVars>>
  BY DEF UserChanges, Notify, Synchronise
<1>2. SelectionInv' /\ SessionInv'
  BY <1>1, SelectionUnchanged, SessionUnchanged DEF IInv
<1>3. CASE UserChanges
  <2>1. PICK config \in Updates, way \in Ways :
          \/ way \notin Patterns /\ UpdateGlobal("user", config, way = "merge")
          \/ way \in Patterns /\ AddScope(way, config)
    BY <1>3 DEF UserChanges
  <2>2. "user" \in Updaters
    BY DEF Updaters
  <2>3. ConfigTypeOK'
    BY <2>1, <2>2, UpdateTypes, ScopeTypes DEF IInv
  <2>4. LifeInv'
    BY <1>1, <1>3, LifeIs DEF IInv, LifeInv, UserChanges, selectionVars
  <2>. QED
    BY <1>2, <2>3, <2>4 DEF IInv
<1>4. CASE Notify \/ Synchronise
  <2>1. ConfigTypeOK'
    BY <1>4, NoticeTypes DEF IInv, Notify, NoticeFails, Synchronise, Updaters
  <2>2. LifeInv'
    BY <1>1, <1>4, LifeUnchanged DEF IInv, Notify, Synchronise, selectionVars
  <2>. QED
    BY <1>2, <2>1, <2>2 DEF IInv
<1>. QED
  BY <1>3, <1>4

LEMMA Invariant == Spec => []IInv
<1>1. IInv /\ [Next]_vars => IInv'
  <2>. SUFFICES ASSUME IInv, [Next]_vars
                PROVE  IInv'
    OBVIOUS
  <2>1. CASE Next
    BY <2>1, OutsideKept, InsideKept, ConfigurationKept DEF Next
  <2>2. CASE UNCHANGED vars
    BY <2>2, SelectionUnchanged, SessionUnchanged, ConfigUnchanged, LifeUnchanged
    DEF IInv, vars, selectionVars
  <2>. QED
    BY <2>1, <2>2
<1>. QED
  BY InitHolds, <1>1, PTL DEF Spec

-----------------------------------------------------------------------------
(* What merged dictionaries say. Trees is any set that has the updates, every *)
(* part of its trees and what merging makes of two; induction goes along the  *)
(* path, the trees that were merged, and the scopes.                          *)

(* The way down a path: it begins with the tree and goes on as the path does. *)
Below(tree, path, n) ==
    IF IsDict(tree) /\ path[n] \in DOMAIN tree.dict THEN tree.dict[path[n]] ELSE Nothing

LEMMA NothingIs == ~ IsDict(Nothing) /\ ~ IsLeaf(Nothing)
  BY DEF Nothing, IsDict, IsLeaf

LEMMA AlongSteps ==
    ASSUME NEW Trees, Closed(Trees), NEW tree \in Trees, NEW path, path \in Seq(Range(path))
    PROVE  /\ Along(tree, path)[0] = tree
           /\ \A n \in 1 .. Len(path) :
                 Along(tree, path)[n] = Below(Along(tree, path)[n - 1], path, n)
           /\ \A n \in 0 .. Len(path) : Along(tree, path)[n] \in Trees \cup {Nothing}
<1>. DEFINE T == Trees \cup {Nothing}
            step == [n \in Nat |-> [v \in T |->
                        IF n \in 1 .. Len(path) THEN Below(v, path, n) ELSE Nothing]]
            Down(f) == f = [n \in 0 .. Len(path) |->
                              IF n = 0 THEN tree ELSE Below(f[n - 1], path, n)]
<1>1. Len(path) \in Nat /\ tree \in T
  OBVIOUS
<1>2. ASSUME NEW v \in T, NEW n \in 1 .. Len(path)
      PROVE  Below(v, path, n) \in T
  BY NothingIs DEF Below, Closed
<1>3. step \in [Nat -> [T -> T]]
  <2>. HIDE DEF T
  <2>1. Nothing \in T
    BY DEF T
  <2>. QED
    BY <1>2, <2>1
<1>4. PICK g \in [0 .. Len(path) -> T] : Unrolls(g, Len(path), tree, step)
  <2>. HIDE DEF T, step
  <2>. QED
    BY <1>1, <1>3, RecursiveUpTo
<1>5. Down(g)
  <2>1. \A n \in 1 .. Len(path) : g[n - 1] \in T
    OBVIOUS
  <2>2. \A n \in 1 .. Len(path) : step[n][g[n - 1]] = Below(g[n - 1], path, n)
    <3>. HIDE DEF T
    <3>. QED
      BY <2>1
  <2>3. g = [i \in 0 .. Len(path) |-> IF i = 0 THEN tree ELSE step[i][g[i - 1]]]
    BY <1>4 DEF Unrolls
  <2>4. \A i \in 0 .. Len(path) : i # 0 => i \in 1 .. Len(path)
    OBVIOUS
  <2>. HIDE DEF step
  <2>. QED
    BY <2>2, <2>3, <2>4
<1>6. Along(tree, path) = CHOOSE f : Down(f)
  BY DEF Along, Below
<1>7. Down(Along(tree, path))
  <2>. HIDE DEF Down
  <2>. QED
    BY <1>5, <1>6
<1>. DEFINE f == Along(tree, path)
            D == {n \in Nat : n <= Len(path) => f[n] \in T}
<1>8. f[0] = tree /\ \A n \in 1 .. Len(path) : f[n] = Below(f[n - 1], path, n)
  <2>. HIDE DEF f
  <2>1. f = [n \in 0 .. Len(path) |-> IF n = 0 THEN tree ELSE Below(f[n - 1], path, n)]
    BY <1>7 DEF f
  <2>. QED
    BY <1>1, <2>1
<1>9. \A n \in Nat : n \in D
  <2>. HIDE DEF f, T
  <2>1. 0 \in D
    BY <1>1, <1>8
  <2>2. ASSUME NEW n \in Nat, n \in D
        PROVE  n + 1 \in D
    <3>. SUFFICES ASSUME n + 1 <= Len(path)
                  PROVE  f[n + 1] \in T
      OBVIOUS
    <3>1. n + 1 \in 1 .. Len(path) /\ f[(n + 1) - 1] \in T
      BY <1>1, <2>2
    <3>. QED
      BY <1>2, <1>8, <3>1
  <2>. HIDE DEF D
  <2>. QED
    BY <2>1, <2>2, Inductive
<1>10. \A n \in 0 .. Len(path) : f[n] \in T
  <2>. HIDE DEF f, T
  <2>. QED
    BY <1>1, <1>9
<1>. QED
  BY <1>8, <1>10

(* Where the update has said something about the way up to a place.           *)
LeafUpTo(tree, path, n) == \E m \in 0 .. n : IsLeaf(Along(tree, path)[m])

(* How a place of the merged tree comes from the places of the two: both are  *)
(* dictionaries and it is their merge, it is the update's place, or the       *)
(* base's, about which the update says nothing.                               *)
ComesFrom(base, update, merged, path, n) ==
    LET b == Along(base, path)[n]
        u == Along(update, path)[n]
        m == Along(merged, path)[n] IN
    \/ /\ IsDict(b) /\ IsDict(u) /\ m = Merge(b, u)
       /\ ~ LeafUpTo(update, path, n)
    \/ m = u /\ LeafUpTo(update, path, n)
    \/ m = u /\ ~ IsDict(b) /\ (u = Nothing => b = Nothing)
    \/ m = b /\ u = Nothing /\ ~ LeafUpTo(update, path, n)

LEMMA DictsAndLeaves ==
    /\ \A entries : IsDict(Dict(entries)) /\ Dict(entries).dict = entries
    /\ \A tree : IsDict(tree) => ~ IsLeaf(tree) /\ tree # Nothing
  BY NothingIs DEF Dict, IsDict, IsLeaf, Nothing

LEMMA MergedBelow ==
    ASSUME NEW Trees, Closed(Trees), MergesDeeply(Trees),
           NEW b \in Trees, NEW u \in Trees, IsDict(b), IsDict(u), NEW path, NEW n
    PROVE  LET m == Merge(b, u)
               key == path[n] IN
           /\ IsDict(m) /\ m \in Trees
           /\ key \notin DOMAIN u.dict => Below(m, path, n) = Below(b, path, n)
           /\ key \in DOMAIN u.dict =>
                 IF IsDict(Below(b, path, n)) /\ IsDict(u.dict[key])
                 THEN Below(m, path, n) = Merge(Below(b, path, n), u.dict[key])
                 ELSE Below(m, path, n) = u.dict[key]
<1>. DEFINE m == Merge(b, u)
            key == path[n]
            both == [k \in DOMAIN b.dict \cup DOMAIN u.dict |->
                        CASE k \notin DOMAIN u.dict -> b.dict[k]
                          [] k \notin DOMAIN b.dict -> u.dict[k]
                          [] OTHER -> IF IsDict(b.dict[k]) /\ IsDict(u.dict[k])
                                      THEN Dict(DeepMerge(b.dict[k].dict, u.dict[k].dict))
                                      ELSE u.dict[k]]
<1>1. DeepMerge(b.dict, u.dict) = both
  BY DEF MergesDeeply
<1>. HIDE DEF both
<1>2. IsDict(m) /\ m.dict = both /\ m \in Trees
  BY <1>1, DictsAndLeaves DEF Merge, Closed
<1>3. DOMAIN both = DOMAIN b.dict \cup DOMAIN u.dict
  BY DEF both
<1>. HIDE DEF m
<1>4. CASE key \notin DOMAIN u.dict
  <2>1. key \in DOMAIN b.dict => both[key] = b.dict[key]
    BY <1>4 DEF both
  <2>. QED
    BY <1>2, <1>3, <1>4, <2>1 DEF Below, m
<1>5. CASE key \in DOMAIN u.dict
  <2>1. Below(m, path, n) = both[key]
    BY <1>2, <1>3, <1>5 DEF Below
  <2>2. CASE key \notin DOMAIN b.dict
    <3>1. both[key] = u.dict[key]
      BY <1>5, <2>2 DEF both
    <3>2. Below(b, path, n) = Nothing
      BY <2>2 DEF Below
    <3>. QED
      BY <1>2, <1>5, <2>1, <3>1, <3>2, NothingIs DEF m
  <2>3. CASE key \in DOMAIN b.dict
    <3>1. both[key] = IF IsDict(b.dict[key]) /\ IsDict(u.dict[key])
                      THEN Merge(b.dict[key], u.dict[key]) ELSE u.dict[key]
      BY <1>5, <2>3 DEF both, Merge
    <3>2. Below(b, path, n) = b.dict[key]
      BY <2>3 DEF Below
    <3>. QED
      BY <1>2, <1>5, <2>1, <3>1, <3>2 DEF m
  <2>. QED
    BY <2>2, <2>3
<1>. QED
  BY <1>4, <1>5 DEF m

LEMMA ComesFromBelow ==
    ASSUME NEW Trees, Closed(Trees), MergesDeeply(Trees),
           NEW base \in Trees, NEW update \in Trees, NEW merged \in Trees,
           NEW path, path \in Seq(Range(path)),
           NEW n \in 0 .. Len(path), n + 1 \in 0 .. Len(path),
           ComesFrom(base, update, merged, path, n)
    PROVE  ComesFrom(base, update, merged, path, n + 1)
<1>. DEFINE b == Along(base, path)[n]
            u == Along(update, path)[n]
            m == Along(merged, path)[n]
            b2 == Along(base, path)[n + 1]
            u2 == Along(update, path)[n + 1]
            m2 == Along(merged, path)[n + 1]
            before == LeafUpTo(update, path, n)
            upto == LeafUpTo(update, path, n + 1)
<1>1. /\ b2 = Below(b, path, n + 1) /\ u2 = Below(u, path, n + 1) /\ m2 = Below(m, path, n + 1)
      /\ b \in Trees \cup {Nothing} /\ u \in Trees \cup {Nothing}
  <2>1. n + 1 \in 1 .. Len(path) /\ (n + 1) - 1 = n
    OBVIOUS
  <2>. QED
    BY <2>1, AlongSteps
<1>2. upto <=> before \/ IsLeaf(u2)
  <2>1. 0 .. n + 1 = (0 .. n) \cup {n + 1}
    OBVIOUS
  <2>. QED
    BY <2>1 DEF LeafUpTo
<1>3. \A t : ~ IsDict(t) => Below(t, path, n + 1) = Nothing
  BY DEF Below
<1>. HIDE DEF b, u, m, b2, u2, m2, before, upto
<1>4. CASE IsDict(b) /\ IsDict(u) /\ m = Merge(b, u) /\ ~ before
  <2>. DEFINE key == path[n + 1]
  <2>1. b \in Trees /\ u \in Trees
    BY <1>1, <1>4, NothingIs
  <2>2. /\ key \notin DOMAIN u.dict => m2 = b2
        /\ key \in DOMAIN u.dict =>
              IF IsDict(b2) /\ IsDict(u2) THEN m2 = Merge(b2, u2) ELSE m2 = u2
        /\ key \notin DOMAIN u.dict => u2 = Nothing
        /\ key \in DOMAIN u.dict => u2 = u.dict[key]
    <3>1. u2 = IF key \in DOMAIN u.dict THEN u.dict[key] ELSE Nothing
      BY <1>1, <1>4 DEF Below
    <3>. QED
      BY <1>1, <1>4, <2>1, <3>1, MergedBelow
  <2>3. key \in DOMAIN u.dict => u2 \in Trees /\ u2 # Nothing
    BY <1>4, <2>1, <2>2 DEF Closed
  <2>4. u2 # Nothing => IsLeaf(u2) \/ IsDict(u2)
    BY DEF IsLeaf
  <2>5. IsDict(u2) => ~ IsLeaf(u2)
    BY DictsAndLeaves
  <2>. HIDE DEF key
  <2>6. \/ IsDict(b2) /\ IsDict(u2) /\ m2 = Merge(b2, u2) /\ ~ upto
        \/ m2 = u2 /\ upto
        \/ m2 = u2 /\ ~ IsDict(b2) /\ (u2 = Nothing => b2 = Nothing)
        \/ m2 = b2 /\ u2 = Nothing /\ ~ upto
    BY <1>2, <1>4, <2>2, <2>3, <2>4, <2>5, NothingIs
  <2>. QED
    BY <2>6 DEF ComesFrom, b2, u2, m2, upto
<1>5. CASE m = u /\ before
  BY <1>1, <1>2, <1>5 DEF ComesFrom, b2, u2, m2, upto
<1>6. CASE m = u /\ ~ IsDict(b) /\ (u = Nothing => b = Nothing)
  <2>1. b2 = Nothing
    BY <1>1, <1>3, <1>6
  <2>. QED
    BY <1>1, <1>6, <2>1, NothingIs DEF ComesFrom, b2, u2, m2, upto
<1>7. CASE m = b /\ u = Nothing /\ ~ before
  <2>1. u2 = Nothing
    BY <1>1, <1>3, <1>7, NothingIs
  <2>. QED
    BY <1>1, <1>2, <1>7, <2>1, NothingIs DEF ComesFrom, b2, u2, m2, upto
<1>. QED
  BY <1>4, <1>5, <1>6, <1>7 DEF ComesFrom, b, u, m, before

(* A merged tree says what the update says, and of what the update says       *)
(* nothing of, what the base does.                                            *)
LEMMA MergeSays ==
    ASSUME NEW Trees, Closed(Trees), MergesDeeply(Trees),
           NEW base \in Trees, NEW update \in Trees, IsDict(base), IsDict(update),
           NEW path, path \in Seq(Range(path))
    PROVE  LeafOf(Merge(base, update), path) =
              IF Speaks(update, path) THEN LeafOf(update, path) ELSE LeafOf(base, path)
<1>. DEFINE merged == Merge(base, update)
            D == {n \in Nat : n <= Len(path) => ComesFrom(base, update, merged, path, n)}
            len == Len(path)
<1>1. IsDict(merged) /\ merged \in Trees /\ len \in Nat
  BY MergedBelow
<1>. HIDE DEF merged
<1>2. 0 \in D
  <2>1. ~ LeafUpTo(update, path, 0)
    <3>1. Along(update, path)[0] = update
      BY AlongSteps
    <3>2. 0 .. 0 = {0}
      OBVIOUS
    <3>. QED
      BY <3>1, <3>2, DictsAndLeaves DEF LeafUpTo
  <2>2. Along(update, path)[0] = update /\ Along(base, path)[0] = base
        /\ Along(merged, path)[0] = merged
    BY <1>1, AlongSteps
  <2>3. ComesFrom(base, update, merged, path, 0)
    BY <2>1, <2>2 DEF ComesFrom, merged
  <2>. QED
    BY <2>3
<1>3. ASSUME NEW n \in Nat, n \in D
      PROVE  n + 1 \in D
  <2>. SUFFICES ASSUME n + 1 <= len
                PROVE  ComesFrom(base, update, merged, path, n + 1)
    OBVIOUS
  <2>1. n \in 0 .. len /\ n + 1 \in 0 .. len /\ ComesFrom(base, update, merged, path, n)
    BY <1>1, <1>3
  <2>. QED
    BY <1>1, <2>1, ComesFromBelow
<1>4. ComesFrom(base, update, merged, path, len)
  <2>1. \A n \in Nat : n \in D
    <3>. HIDE DEF D
    <3>. QED
      BY <1>2, <1>3, Inductive
  <2>. QED
    BY <1>1, <2>1
<1>. DEFINE b == At(base, path)
            u == At(update, path)
            m == At(merged, path)
            spoken == LeafUpTo(update, path, len)
<1>5. Speaks(update, path) <=> u # Nothing \/ spoken
  BY DEF Speaks, LeafUpTo
<1>6. \/ IsDict(b) /\ IsDict(u) /\ m = Merge(b, u) /\ ~ spoken
      \/ m = u /\ spoken
      \/ m = u /\ ~ IsDict(b) /\ (u = Nothing => b = Nothing)
      \/ m = b /\ u = Nothing /\ ~ spoken
  BY <1>4 DEF ComesFrom, At
<1>7. \A x, y : IsDict(Merge(x, y))
  BY DictsAndLeaves DEF Merge
<1>. HIDE DEF b, u, m, spoken, len
<1>8. (IF IsLeaf(m) THEN m ELSE Nothing) =
         IF u # Nothing \/ spoken THEN IF IsLeaf(u) THEN u ELSE Nothing
                                ELSE IF IsLeaf(b) THEN b ELSE Nothing
  BY <1>6, <1>7, DictsAndLeaves, NothingIs
<1>. QED
  BY <1>5, <1>8 DEF LeafOf, b, u, m, merged

(* The same of an empty tree: it says nothing of a path.                      *)
LEMMA EmptySays ==
    ASSUME NEW Trees, Closed(Trees), NEW path, path \in Seq(Range(path)), Len(path) # 0
    PROVE  ~ Speaks(Empty, path)
<1>. DEFINE f == Along(Empty, path)
            len == Len(path)
            D == {n \in Nat : n + 1 <= len => f[n + 1] = Nothing}
<1>1. len \in Nat \ {0} /\ Empty \in Trees
  BY DEF Closed
<1>2. f[0] = Empty /\ \A n \in 1 .. len : f[n] = Below(f[n - 1], path, n)
  BY <1>1, AlongSteps
<1>3. \A n : Below(Empty, path, n) = Nothing /\ Below(Nothing, path, n) = Nothing
  <2>1. Empty.dict = <<>> /\ IsDict(Empty)
    BY DictsAndLeaves DEF Empty
  <2>2. DOMAIN <<>> = {}
    OBVIOUS
  <2>. QED
    BY <2>1, <2>2, NothingIs DEF Below
<1>. HIDE DEF f, len
<1>4. \A n \in Nat : n \in D
  <2>1. 0 \in D
    BY <1>1, <1>2, <1>3
  <2>2. ASSUME NEW n \in Nat, n \in D
        PROVE  n + 1 \in D
    <3>. SUFFICES ASSUME (n + 1) + 1 <= len
                  PROVE  f[(n + 1) + 1] = Nothing
      OBVIOUS
    <3>1. n + 1 <= len /\ (n + 1) + 1 \in 1 .. len /\ ((n + 1) + 1) - 1 = n + 1
      BY <1>1
    <3>. QED
      BY <1>2, <1>3, <2>2, <3>1
  <2>. HIDE DEF D
  <2>. QED
    BY <2>1, <2>2, Inductive
<1>5. ASSUME NEW n \in 0 .. len
      PROVE  ~ IsLeaf(f[n]) /\ (n # 0 => f[n] = Nothing)
  <2>1. CASE n = 0
    BY <1>2, <2>1, DictsAndLeaves DEF Empty
  <2>2. CASE n # 0
    <3>1. n - 1 \in Nat /\ (n - 1) + 1 = n /\ n <= len
      BY <1>1, <2>2
    <3>2. f[n] = Nothing
      BY <1>4, <3>1
    <3>. QED
      BY <3>2, NothingIs
  <2>. QED
    BY <2>1, <2>2
<1>6. f[len] = Nothing
  BY <1>1, <1>5
<1>. QED
  BY <1>5, <1>6 DEF Speaks, At, f, len

LEMMA NoPath ==
    ASSUME NEW Trees, Closed(Trees), NEW tree \in Trees, IsDict(tree),
           NEW path, path \in Seq(Range(path)), Len(path) = 0
    PROVE  LeafOf(tree, path) = Nothing
<1>1. Along(tree, path)[0] = tree
  BY AlongSteps
<1>. QED
  BY <1>1, DictsAndLeaves DEF LeafOf, At

-----------------------------------------------------------------------------
(* What the first of some trees say.                                          *)
LastOf(trees, k, path) ==
    LET speakers == {n \in 1 .. k : Speaks(trees[n], path)} IN
    IF speakers = {} THEN Nothing ELSE LeafOf(trees[Max(speakers)], path)

LEMMA LastIs ==
    ASSUME NEW T, NEW trees \in Seq(T), NEW path
    PROVE  LastSaid(trees, path) = LastOf(trees, Len(trees), path)
<1>1. DOMAIN trees = 1 .. Len(trees)
  OBVIOUS
<1>. QED
  BY <1>1 DEF LastSaid, LastOf

LEMMA LastStep ==
    ASSUME NEW trees, NEW path, NEW k \in Nat
    PROVE  /\ LastOf(trees, 0, path) = Nothing
           /\ LastOf(trees, k + 1, path) =
                 IF Speaks(trees[k + 1], path) THEN LeafOf(trees[k + 1], path)
                                               ELSE LastOf(trees, k, path)
<1>. DEFINE upTo(n) == {i \in 1 .. n : Speaks(trees[i], path)}
<1>1. upTo(0) = {}
  OBVIOUS
<1>2. CASE Speaks(trees[k + 1], path)
  <2>1. k + 1 \in upTo(k + 1) /\ \A i \in upTo(k + 1) : i \in Nat /\ k + 1 >= i
    BY <1>2
  <2>2. Max(upTo(k + 1)) = k + 1
    <3>. HIDE DEF upTo
    <3>. QED
      BY <2>1 DEF Max
  <2>. HIDE DEF upTo
  <2>. QED
    BY <1>1, <1>2, <2>1, <2>2 DEF LastOf, upTo
<1>3. CASE ~ Speaks(trees[k + 1], path)
  <2>1. 1 .. k + 1 = (1 .. k) \cup {k + 1}
    OBVIOUS
  <2>2. upTo(k + 1) = upTo(k)
    BY <1>3, <2>1
  <2>. HIDE DEF upTo
  <2>. QED
    BY <1>1, <1>3, <2>2 DEF LastOf, upTo
<1>. QED
  BY <1>2, <1>3

LEMMA LastSame ==
    ASSUME NEW s, NEW t, NEW path, NEW k \in Nat, \A n \in 1 .. k : s[n] = t[n]
    PROVE  LastOf(s, k, path) = LastOf(t, k, path)
<1>. DEFINE D == {n \in Nat : n <= k => LastOf(s, n, path) = LastOf(t, n, path)}
<1>1. 0 \in D
  BY LastStep
<1>2. ASSUME NEW n \in Nat, n \in D
      PROVE  n + 1 \in D
  <2>. SUFFICES ASSUME n + 1 <= k
                PROVE  LastOf(s, n + 1, path) = LastOf(t, n + 1, path)
    OBVIOUS
  <2>1. n <= k /\ n + 1 \in 1 .. k
    OBVIOUS
  <2>2. s[n + 1] = t[n + 1] /\ LastOf(s, n, path) = LastOf(t, n, path)
    BY <1>2, <2>1
  <2>. QED
    BY <2>2, LastStep
<1>3. k \in D
  <2>. HIDE DEF D
  <2>. QED
    BY <1>1, <1>2, Inductive
<1>. QED
  BY <1>3

(* The configuration says what the trees it was made of said last.            *)
SaysLast(Trees) ==
    /\ global_config \in Trees /\ IsDict(global_config)
    /\ said \in Seq(Trees)
    /\ \A path \in Paths : LeafOf(global_config, path) = LastSaid(said, path)

LEMMA UpdateSaysLast ==
    ASSUME NEW Trees, Closed(Trees), MergesDeeply(Trees), SaysLast(Trees),
           NEW who, NEW config \in Updates, NEW merge, UpdateGlobal(who, config, merge)
    PROVE  SaysLast(Trees)'
<1>1. config \in Trees /\ IsDict(config)
  BY UpdatesAssumption DEF Closed
<1>2. CASE merge
  <2>1. global_config' = Merge(global_config, config) /\ said' = Append(said, config)
    BY <1>2 DEF UpdateGlobal
  <2>2. global_config' \in Trees /\ IsDict(global_config')
    BY <1>1, <2>1, DictsAndLeaves DEF SaysLast, Closed, Merge
  <2>3. /\ said' \in Seq(Trees) /\ Len(said') = Len(said) + 1 /\ Len(said) \in Nat
        /\ said'[Len(said) + 1] = config
        /\ \A n \in 1 .. Len(said) : said'[n] = said[n]
    BY <1>1, <2>1 DEF SaysLast
  <2>4. ASSUME NEW path \in Paths
        PROVE  LeafOf(global_config', path) = LastSaid(said', path)
    <3>1. path \in Seq(Range(path))
      BY PathsAssumption
    <3>2. LeafOf(global_config', path) =
             IF Speaks(config, path) THEN LeafOf(config, path) ELSE LeafOf(global_config, path)
      BY <1>1, <2>1, <3>1, MergeSays DEF SaysLast
    <3>3. LeafOf(global_config, path) = LastOf(said, Len(said), path)
      BY LastIs DEF SaysLast
    <3>4. LastSaid(said', path) =
             IF Speaks(config, path) THEN LeafOf(config, path)
                                     ELSE LastOf(said', Len(said), path)
      <4>1. LastSaid(said', path) = LastOf(said', Len(said) + 1, path)
        BY <2>3, LastIs
      <4>. QED
        BY <2>3, <4>1, LastStep
    <3>5. LastOf(said', Len(said), path) = LastOf(said, Len(said), path)
      BY <2>3, LastSame
    <3>. QED
      BY <3>2, <3>3, <3>4, <3>5
  <2>. QED
    BY <2>2, <2>3, <2>4 DEF SaysLast
<1>3. CASE ~ merge
  <2>1. global_config' = config /\ said' = <<config>>
    BY <1>3 DEF UpdateGlobal
  <2>2. said' \in Seq(Trees) /\ Len(said') = 1 /\ said'[0 + 1] = config
    BY <1>1, <2>1
  <2>3. ASSUME NEW path \in Paths
        PROVE  LeafOf(config, path) = LastSaid(said', path)
    <3>1. LastSaid(said', path) = LastOf(said', 0 + 1, path)
      BY <2>2, LastIs
    <3>2. LastOf(said', 0, path) = Nothing
      BY LastStep
    <3>3. LastOf(said', 0 + 1, path) =
             IF Speaks(config, path) THEN LeafOf(config, path) ELSE Nothing
      BY <2>2, <3>2, LastStep
    <3>4. ~ Speaks(config, path) => LeafOf(config, path) = Nothing
      BY NothingIs DEF Speaks, LeafOf
    <3>. QED
      BY <3>1, <3>3, <3>4
  <2>. QED
    BY <1>1, <2>1, <2>2, <2>3 DEF SaysLast
<1>. QED
  BY <1>2, <1>3

LEMMA ScopesHold ==
    ASSUME ConfigTypeOK
    PROVE  /\ Len(scoped_configs) \in Nat
           /\ \A n \in 1 .. Len(scoped_configs) : scoped_configs[n].config \in Updates
<1>. DEFINE scopes == [pattern : Patterns, config : Updates]
<1>1. scoped_configs \in Seq(scopes)
  BY DEF ConfigTypeOK
<1>2. \A scope \in scopes : scope.config \in Updates
  OBVIOUS
<1>. HIDE DEF scopes
<1>3. /\ Len(scoped_configs) \in Nat
      /\ \A n \in 1 .. Len(scoped_configs) : scoped_configs[n] \in scopes
  BY <1>1
<1>. QED
  BY <1>2, <1>3

LEMMA Behind ==
    ASSUME NEW T, NEW s \in Seq(T), NEW t \in Seq(T)
    PROVE  /\ s \o t \in Seq(T) /\ Len(s \o t) = Len(s) + Len(t)
           /\ \A n \in 1 .. Len(s) : (s \o t)[n] = s[n]
           /\ \A n \in 1 .. Len(t) : (s \o t)[Len(s) + n] = t[n]
<1>1. s \o t \in Seq(T)
  OBVIOUS
<1>2. Len(s \o t) = Len(s) + Len(t)
  OBVIOUS
<1>3. \A n \in 1 .. Len(s) : (s \o t)[n] = s[n]
  OBVIOUS
<1>4. \A n \in 1 .. Len(t) : (s \o t)[Len(s) + n] = t[n]
  OBVIOUS
<1>. QED
  BY <1>1, <1>2, <1>3, <1>4

(* Get goes through the scopes: what it has after some of them.               *)
GetSteps(f, file) ==
    f = [n \in 0 .. Len(scoped_configs) |->
            IF n = 0 THEN global_config
            ELSE IF Applies(scoped_configs[n], file)
                 THEN Merge(f[n - 1], scoped_configs[n].config)
                 ELSE f[n - 1]]

LEMMA GetIs ==
    ASSUME NEW Trees, Closed(Trees), ConfigTypeOK, SaysLast(Trees), NEW file
    PROVE  \E f : GetSteps(f, file) /\ Get(file) = f[Len(scoped_configs)]
<1>. DEFINE T == {tree \in Trees : IsDict(tree)}
            len == Len(scoped_configs)
            config(n) == scoped_configs[n].config
            step == [n \in Nat |-> [v \in T |->
                        IF n \in 1 .. len /\ Applies(scoped_configs[n], file)
                        THEN Merge(v, config(n)) ELSE v]]
<1>1. len \in Nat /\ \A n \in 1 .. len : config(n) \in T
  <2>1. len \in Nat /\ \A n \in 1 .. len : config(n) \in Updates
    BY ScopesHold
  <2>2. Updates \subseteq T
    BY UpdatesAssumption DEF Closed
  <2>. QED
    BY <2>1, <2>2
<1>2. \A v, w \in T : Merge(v, w) \in T
  BY DictsAndLeaves DEF Closed, Merge
<1>3. global_config \in T
  BY DEF SaysLast
<1>. HIDE DEF T, config
<1>4. step \in [Nat -> [T -> T]]
  <2>1. ASSUME NEW n \in Nat, NEW v \in T
        PROVE  (IF n \in 1 .. len /\ Applies(scoped_configs[n], file)
                THEN Merge(v, config(n)) ELSE v) \in T
    BY <1>1, <1>2
  <2>. QED
    BY <2>1
<1>5. PICK g \in [0 .. len -> T] : Unrolls(g, len, global_config, step)
  <2>. HIDE DEF step, len
  <2>. QED
    BY <1>1, <1>3, <1>4, RecursiveUpTo
<1>6. GetSteps(g, file)
  <2>1. ASSUME NEW n \in 1 .. len
        PROVE  step[n][g[n - 1]] = IF Applies(scoped_configs[n], file)
                                   THEN Merge(g[n - 1], scoped_configs[n].config)
                                   ELSE g[n - 1]
    <3>1. g[n - 1] \in T /\ n \in Nat
      BY <1>1
    <3>. QED
      BY <3>1 DEF config
  <2>2. g = [i \in 0 .. len |-> IF i = 0 THEN global_config ELSE step[i][g[i - 1]]]
    BY <1>5 DEF Unrolls
  <2>3. \A i \in 0 .. len : i # 0 => i \in 1 .. len
    BY <1>1
  <2>. HIDE DEF step
  <2>. QED
    BY <2>1, <2>2, <2>3 DEF GetSteps
<1>7. Get(file) = (CHOOSE f : GetSteps(f, file))[len]
  BY DEF Get, GetSteps
<1>8. GetSteps(CHOOSE f : GetSteps(f, file), file)
  BY <1>6
<1>. QED
  BY <1>7, <1>8

LEMMA SaysLastOfAll ==
    ASSUME NEW Trees, Closed(Trees), MergesDeeply(Trees), ConfigTypeOK, SaysLast(Trees)
    PROVE  LatestSays
<1>. SUFFICES ASSUME NEW file \in Files, NEW path \in Paths
              PROVE  LeafOf(Get(file), path) = LastSaid(SaidFor(file), path)
  BY DEF LatestSays
<1>. DEFINE len == Len(scoped_configs)
            before == Len(said)
            config(n) == scoped_configs[n].config
            all == SaidFor(file)
            T == {tree \in Trees : IsDict(tree)}
<1>1. path \in Seq(Range(path))
  BY PathsAssumption
<1>2. len \in Nat /\ before \in Nat /\ \A n \in 1 .. len : config(n) \in T
  <2>1. len \in Nat /\ \A n \in 1 .. len : config(n) \in Updates
    BY ScopesHold
  <2>2. Updates \subseteq T
    BY UpdatesAssumption DEF Closed
  <2>. QED
    BY <2>1, <2>2 DEF SaysLast
<1>3. Empty \in Trees
  BY DEF Closed
<1>4. /\ all \in Seq(Trees) /\ Len(all) = before + len
      /\ \A n \in 1 .. before : all[n] = said[n]
      /\ \A n \in 1 .. len :
            all[before + n] = IF Applies(scoped_configs[n], file) THEN config(n) ELSE Empty
  <2>. DEFINE heard == [n \in 1 .. len |->
                          IF Applies(scoped_configs[n], file) THEN config(n) ELSE Empty]
  <2>1. \A n \in 1 .. len : config(n) \in Trees
    BY <1>2
  <2>2. heard \in Seq(Trees) /\ Len(heard) = len
    <3>. HIDE DEF config
    <3>. QED
      BY <1>2, <1>3, <2>1
  <2>3. DOMAIN scoped_configs = 1 .. len
    BY DEF ConfigTypeOK
  <2>4. all = said \o heard
    BY <2>3 DEF SaidFor
  <2>5. said \in Seq(Trees)
    BY DEF SaysLast
  <2>6. \A n \in 1 .. len :
           heard[n] = IF Applies(scoped_configs[n], file) THEN config(n) ELSE Empty
    OBVIOUS
  <2>. HIDE DEF heard, all, config, len
  <2>7. \A s, t \in Seq(Trees) :
           /\ s \o t \in Seq(Trees) /\ Len(s \o t) = Len(s) + Len(t)
           /\ \A n \in 1 .. Len(s) : (s \o t)[n] = s[n]
           /\ \A n \in 1 .. Len(t) : (s \o t)[Len(s) + n] = t[n]
    BY Behind
  <2>8. /\ all \in Seq(Trees) /\ Len(all) = before + len
        /\ \A n \in 1 .. before : all[n] = said[n]
        /\ \A n \in 1 .. len : all[before + n] = heard[n]
    BY <2>2, <2>4, <2>5, <2>7, Zenon
  <2>. QED
    BY <2>6, <2>8
<1>5. PICK f : GetSteps(f, file) /\ Get(file) = f[len]
  BY GetIs
<1>6. /\ f[0] = global_config
      /\ \A n \in 1 .. len : f[n] = IF Applies(scoped_configs[n], file)
                                    THEN Merge(f[n - 1], config(n)) ELSE f[n - 1]
  <2>1. \A n \in 0 .. len : f[n] = IF n = 0 THEN global_config
                                   ELSE IF Applies(scoped_configs[n], file)
                                        THEN Merge(f[n - 1], config(n)) ELSE f[n - 1]
    BY <1>5 DEF GetSteps
  <2>2. 0 \in 0 .. len /\ \A n \in 1 .. len : n \in 0 .. len /\ n # 0
    BY <1>2
  <2>. HIDE DEF config, len
  <2>. QED
    BY <2>1, <2>2
<1>7. f[0] \in T
  BY <1>6 DEF SaysLast
<1>8. \A v, w \in T : Merge(v, w) \in T
  BY DictsAndLeaves DEF Closed, Merge
<1>9. \A v \in T : v \in Trees /\ IsDict(v)
  OBVIOUS
<1>. DEFINE Says(n) == f[n] \in T /\ LeafOf(f[n], path) = LastOf(all, before + n, path)
            D == {n \in Nat : n <= len => Says(n)}
<1>10. Says(0)
  <2>1. LeafOf(f[0], path) = LastOf(said, before, path)
    BY <1>6, LastIs DEF SaysLast
  <2>2. LastOf(all, before, path) = LastOf(said, before, path)
    BY <1>2, <1>4, LastSame
  <2>. QED
    BY <1>2, <1>7, <2>1, <2>2
<1>. HIDE DEF T, all, config, len, before
<1>11. ASSUME NEW n \in Nat, n + 1 \in 1 .. len, Says(n)
       PROVE  Says(n + 1)
  <2>1. f[n + 1] = IF Applies(scoped_configs[n + 1], file)
                   THEN Merge(f[n], config(n + 1)) ELSE f[n]
    BY <1>6, <1>11
  <2>2. all[before + n + 1] = IF Applies(scoped_configs[n + 1], file)
                              THEN config(n + 1) ELSE Empty
    BY <1>2, <1>4, <1>11
  <2>3. LastOf(all, before + n + 1, path) =
           IF Speaks(all[before + n + 1], path) THEN LeafOf(all[before + n + 1], path)
                                                ELSE LeafOf(f[n], path)
    <3>1. before + n \in Nat /\ LeafOf(f[n], path) = LastOf(all, before + n, path)
      BY <1>2, <1>11
    <3>. QED
      BY <3>1, LastStep
  <2>4. CASE Applies(scoped_configs[n + 1], file)
    <3>1. f[n] \in T /\ config(n + 1) \in T
      BY <1>2, <1>11
    <3>2. LeafOf(f[n + 1], path) =
             IF Speaks(config(n + 1), path) THEN LeafOf(config(n + 1), path)
                                            ELSE LeafOf(f[n], path)
      BY <1>1, <1>9, <2>1, <2>4, <3>1, MergeSays
    <3>. QED
      BY <1>2, <1>8, <2>1, <2>2, <2>3, <2>4, <3>1, <3>2
  <2>5. CASE ~ Applies(scoped_configs[n + 1], file)
    <3>1. f[n + 1] = f[n] /\ all[before + n + 1] = Empty /\ f[n] \in T
      BY <1>11, <2>1, <2>2, <2>5
    <3>2. CASE Len(path) = 0
      <4>1. IsDict(Empty)
        BY DictsAndLeaves DEF Empty
      <4>2. LeafOf(f[n], path) = Nothing /\ LeafOf(Empty, path) = Nothing
        BY <1>1, <1>3, <1>9, <3>1, <3>2, <4>1, NoPath
      <4>. QED
        BY <1>2, <2>3, <3>1, <4>2
    <3>3. CASE Len(path) # 0
      <4>1. ~ Speaks(Empty, path)
        BY <1>1, <3>3, EmptySays
      <4>. QED
        BY <1>2, <2>3, <3>1, <4>1
    <3>. QED
      BY <3>2, <3>3
  <2>. QED
    BY <2>4, <2>5
<1>12. Says(len)
  <2>. HIDE DEF Says
  <2>1. 0 \in D
    BY <1>10
  <2>2. ASSUME NEW n \in Nat, n \in D
        PROVE  n + 1 \in D
    <3>. SUFFICES ASSUME n + 1 <= len
                  PROVE  Says(n + 1)
      OBVIOUS
    <3>1. n <= len /\ n + 1 \in 1 .. len
      BY <1>2
    <3>. QED
      BY <1>11, <2>2, <3>1
  <2>3. len \in D
    <3>. HIDE DEF D
    <3>. QED
      BY <1>2, <2>1, <2>2, Inductive
  <2>. QED
    BY <1>2, <2>3
<1>13. LastSaid(all, path) = LastOf(all, before + len, path)
  BY <1>4, LastIs
<1>. QED
  BY <1>5, <1>12, <1>13 DEF all, len

(* At the start everything is empty.                                          *)
LEMMA InitSaysLast ==
    ASSUME NEW Trees, Closed(Trees), ConfigInit
    PROVE  SaysLast(Trees)
<1>1. Empty \in Trees /\ IsDict(Empty)
  BY DictsAndLeaves DEF Closed, Empty
<1>2. global_config = Empty /\ said = <<Empty>>
  BY DEF ConfigInit
<1>3. said \in Seq(Trees) /\ Len(said) = 1 /\ said[0 + 1] = Empty
  BY <1>1, <1>2
<1>4. ASSUME NEW path \in Paths
      PROVE  LeafOf(Empty, path) = LastSaid(said, path)
  <2>1. LastSaid(said, path) = LastOf(said, 0 + 1, path)
    <3>1. LastSaid(said, path) = LastOf(said, Len(said), path)
      BY <1>3, LastIs
    <3>. QED
      BY <1>3, <3>1
  <2>2. LastOf(said, 0, path) = Nothing
    BY LastStep
  <2>3. LastOf(said, 0 + 1, path) =
           IF Speaks(Empty, path) THEN LeafOf(Empty, path) ELSE Nothing
    BY <1>3, <2>2, LastStep
  <2>4. ~ Speaks(Empty, path) => LeafOf(Empty, path) = Nothing
    BY NothingIs DEF Speaks, LeafOf
  <2>. QED
    BY <2>1, <2>3, <2>4
<1>. QED
  BY <1>1, <1>2, <1>3, <1>4 DEF SaysLast

(* The rest of the configuration's steps leave both as they were.             *)
LEMMA SaysLastUnchanged ==
    ASSUME NEW Trees, SaysLast(Trees), UNCHANGED <<global_config, said>>
    PROVE  SaysLast(Trees)'
  BY DEF SaysLast

-----------------------------------------------------------------------------
(* The global configuration changes in two ways only, which both keep what it *)
(* says.                                                                      *)
LEMMA GlobalChanges ==
    ASSUME IInv, Next
    PROVE  \/ UNCHANGED <<global_config, said>>
           \/ \E who, merge : \E config \in Updates : UpdateGlobal(who, config, merge)
<1>1. CASE Enter \/ Select \/ EnterFails \/ StartSession \/ Leave
  BY <1>1 DEF Enter, Select, EnterFails, StartSession, Leave, Register, configVars
<1>2. CASE ClientStep \/ Environment
  <2>1. \/ \E config \in life.defaults : UpdateGlobal("client", config, TRUE)
        \/ Withdraw("client") \/ UNCHANGED configVars
    BY <1>2 DEF ClientStep, Environment, Around
  <2>2. life.defaults \subseteq Updates
    BY LifeIs DEF IInv, LifeInv
  <2>. QED
    BY <2>1, <2>2 DEF Withdraw, configVars
<1>3. CASE UserChanges
  <2>1. PICK config \in Updates, way \in Ways :
          \/ way \notin Patterns /\ UpdateGlobal("user", config, way = "merge")
          \/ way \in Patterns /\ AddScope(way, config)
    BY <1>3 DEF UserChanges
  <2>. QED
    BY <2>1 DEF AddScope
<1>4. CASE Notify \/ Synchronise
  BY <1>4 DEF Notify, Synchronise, SendNotice, NoticeFails, Withdraw, ServerAsks,
              RespondConfiguration, ServerLearns
<1>. QED
  BY <1>1, <1>2, <1>3, <1>4 DEF Next

LEMMA SaysLastKept ==
    ASSUME NEW Trees, Closed(Trees), MergesDeeply(Trees),
           IInv, SaysLast(Trees), [Next]_vars
    PROVE  SaysLast(Trees)'
<1>1. CASE UNCHANGED <<global_config, said>>
  BY <1>1, SaysLastUnchanged
<1>2. CASE \E who, merge : \E config \in Updates : UpdateGlobal(who, config, merge)
  BY <1>2, UpdateSaysLast
<1>3. CASE UNCHANGED vars
  BY <1>1, <1>3 DEF vars, configVars
<1>. QED
  BY <1>1, <1>2, <1>3, GlobalChanges

-----------------------------------------------------------------------------
(* Results                                                                    *)

(* Types are kept, the prefixes of the protocol on the wire among them,       *)
(* however often the client is entered and its configuration changed.         *)
THEOREM TypesCorrect == Spec => []TypeOK
<1>1. IInv => TypeOK
  BY SessionTypesAre DEF IInv, SelectionInv, SessionInv, LifeInv, TypeOK
<1>. QED
  BY Invariant, <1>1, PTL

(* On every machine and with every server argument the server that runs is    *)
(* the first of the documented order that can, each time the client is        *)
(* entered, also after an earlier search has installed one.                   *)
THEOREM FirstRuns == Spec => []FirstThatRuns
<1>1. IInv => FirstThatRuns
  BY DEF IInv, SelectionInv
<1>. QED
  BY Invariant, <1>1, PTL

(* Nothing is installed where a server that needs no installing would run.    *)
THEOREM InstalledAtLast == Spec => []InstallsLast
<1>1. IInv => InstallsLast
  BY DEF IInv, SelectionInv
<1>. QED
  BY Invariant, <1>1, PTL

(* Who leaves a session without exception or cancellation has gone through    *)
(* the protocol in its order, with every request answered, and the server is  *)
(* gone.                                                                      *)
THEOREM EndsClean == Spec => []CleanEnd
<1>1. IInv => CleanEnd
  BY DEF IInv, SessionInv, InOrder, CleanEnd, C!CleanEnd, C!NoOrphan
<1>. QED
  BY Invariant, <1>1, PTL

(* An uncancelled session leaves no server process behind, however it ends.   *)
THEOREM NoneOrphaned == Spec => []NoOrphan
<1>1. IInv => NoOrphan
  BY DEF IInv, SessionInv, NoOrphan
<1>. QED
  BY Invariant, <1>1, PTL

(* Whatever updates and scopes were merged, in whatever order and by whom, a  *)
(* setting is the last that any of them made it for the file. That is so for  *)
(* any trees that have their parts and the results of merging among them, if  *)
(* deep_merge does of them what its code says of two dictionaries.            *)
THEOREM LatestIsSaid ==
    ASSUME NEW CONSTANT Trees, Closed(Trees), MergesDeeply(Trees)
    PROVE  Spec => []LatestSays
<1>1. Init => SaysLast(Trees)
  BY InitSaysLast DEF Init
<1>2. IInv /\ SaysLast(Trees) /\ [Next]_vars => SaysLast(Trees)'
  BY SaysLastKept
<1>3. IInv /\ SaysLast(Trees) => LatestSays
  BY SaysLastOfAll DEF IInv
<1>. QED
  BY Invariant, <1>1, <1>2, <1>3, PTL DEF Spec
=============================================================================
