------------------------- MODULE ServerDispatchProofs -------------------------
(* Proofs about ServerDispatch for any packages, any registries of hooks and  *)
(* any capacity of the channel. The types are inductive as they stand, the    *)
(* channel's invariant with the types. The order in which hooks begin needs   *)
(* InLine: where in the queues each package stands.                           *)
EXTENDS ServerDispatch, TLAPS

(* Types                                                                      *)
LEMMA InitTypes == Init => TypeOK
  BY DEF Init, TypeOK, Fates

LEMMA ReadTypes ==
    ASSUME TypeOK, NEW p \in Packages, ReadPackage(p)
    PROVE  TypeOK'
<1>1. Task("handle", p) \in [kind : Kinds, package : Packages]
  BY DEF Task, Kinds
<1>2. "moving" \in Fates
  BY DEF Fates
<1>. QED
  BY <1>1, <1>2 DEF TypeOK, ReadPackage

LEMMA TakeTypes ==
    ASSUME TypeOK, Take
    PROVE  TypeOK'
<1>1. Head(queue) \in Packages /\ Tail(queue) \in Seq(Packages)
  BY DEF TypeOK, Take
<1>2. Task("dispatch", Head(queue)) \in [kind : Kinds, package : Packages]
  BY <1>1 DEF Task, Kinds
<1>3. spawned' \in Seq([kind : Kinds, package : Packages])
  BY <1>2 DEF TypeOK, Take
<1>4. queue' \in Seq(Packages) /\ stalled' \in Seq(Packages)
  <2>1. CASE stalled = <<>>
    BY <1>1, <2>1 DEF TypeOK, Take
  <2>2. CASE stalled # <<>>
    <3>1. stalled \in Seq(Packages)
      BY DEF TypeOK
    <3>2. Head(stalled) \in Packages /\ Tail(stalled) \in Seq(Packages)
      BY <2>2, <3>1
    <3>3. queue' = Append(Tail(queue), Head(stalled)) /\ stalled' = Tail(stalled)
      BY <2>2 DEF Take
    <3>. QED
      BY <1>1, <3>2, <3>3
  <2>. QED
    BY <2>1, <2>2
<1>. QED
  BY <1>3, <1>4 DEF TypeOK, Take

LEMMA StartTypes ==
    ASSUME TypeOK, NEW p \in Packages,
           \/ Enqueue(p) \/ DispatchRequest(p) \/ DispatchUnhandled(p)
           \/ DispatchUnhooked(p) \/ StartHook(p) \/ DeserializeRaises(p)
    PROVE  TypeOK'
<1>1. spawned' \in Seq([kind : Kinds, package : Packages])
  <2>1. spawned # <<>> /\ spawned' = Tail(spawned)
    BY DEF Enqueue, DispatchRequest, DispatchUnhandled, DispatchUnhooked, StartHook,
           DeserializeRaises, Starts
  <2>. QED
    BY <2>1 DEF TypeOK
<1>2. CASE Enqueue(p)
  <2>1. queue' \in Seq(Packages) /\ stalled' \in Seq(Packages)
    <3>1. queue \in Seq(Packages) /\ stalled \in Seq(Packages)
      BY DEF TypeOK
    <3>2. \/ queue' = Append(queue, p) /\ stalled' = stalled
          \/ stalled' = Append(stalled, p) /\ queue' = queue
      BY <1>2 DEF Enqueue
    <3>3. Append(queue, p) \in Seq(Packages) /\ Append(stalled, p) \in Seq(Packages)
      BY <3>1
    <3>. QED
      BY <3>1, <3>2, <3>3, Zenon
  <2>. QED
    BY <1>1, <1>2, <2>1 DEF TypeOK, Enqueue
<1>3. CASE DispatchRequest(p) \/ StartHook(p)
  <2>1. fate' \in [Packages -> Fates]
    BY <1>3 DEF TypeOK, Fates, DispatchRequest, StartHook
  <2>2. hooked' \in Seq(Packages)
    <3>1. hooked \in Seq(Packages) /\ hooked' = Append(hooked, p)
      BY <1>3 DEF TypeOK, DispatchRequest, StartHook
    <3>. QED
      BY <3>1
  <2>. QED
    BY <1>1, <1>3, <2>1, <2>2 DEF TypeOK, DispatchRequest, StartHook
<1>4. CASE DispatchUnhandled(p) \/ DispatchUnhooked(p) \/ DeserializeRaises(p)
  <2>1. fate' \in [Packages -> Fates]
    BY <1>4 DEF TypeOK, Fates, DispatchUnhandled, DispatchUnhooked, DeserializeRaises
  <2>. QED
    BY <1>1, <1>4, <2>1 DEF TypeOK, DispatchUnhandled, DispatchUnhooked, DeserializeRaises
<1>. QED
  BY <1>2, <1>3, <1>4

LEMMA NotificationTypes ==
    ASSUME TypeOK, NEW p \in Packages, DispatchNotification(p)
    PROVE  TypeOK'
<1>1. Task("hook", p) \in [kind : Kinds, package : Packages]
  BY DEF Task, Kinds
<1>2. spawned' \in Seq([kind : Kinds, package : Packages])
  BY <1>1 DEF TypeOK, DispatchNotification, Starts
<1>. QED
  BY <1>2 DEF TypeOK, DispatchNotification, Fates

LEMMA HookTypes ==
    ASSUME TypeOK, NEW p \in Packages,
           HookReturns(p) \/ HookRaises(p) \/ WriteResponse(p) \/ WriteFails(p)
    PROVE  TypeOK'
<1>1. {"responding", "finished", "raised", "answered", "unsent"} \subseteq Fates
  BY DEF Fates
<1>. QED
  BY <1>1 DEF TypeOK, HookReturns, HookRaises, WriteResponse, WriteFails

LEMMA TypesKept ==
    ASSUME TypeOK, [Next]_vars
    PROVE  TypeOK'
<1>1. CASE StreamEnds
  BY <1>1 DEF TypeOK, StreamEnds
<1>2. CASE UNCHANGED vars
  BY <1>2 DEF TypeOK, vars
<1>. QED
  BY <1>1, <1>2, ReadTypes, TakeTypes, StartTypes, NotificationTypes, HookTypes
     DEF Next, Step

(* The queues hold packages, the event loop tasks of them, and each package   *)
(* has one of the fates the code gives it.                                    *)
THEOREM TypesCorrect == Spec => []TypeOK
<1>1. TypeOK /\ [Next]_vars => TypeOK'
  BY TypesKept
<1>. QED
  BY <1>1, InitTypes, PTL DEF Spec

-----------------------------------------------------------------------------
(* The channel                                                                *)

LEMMA EnqueueFills ==
    ASSUME TypeOK, StalledOnlyWhenFull, NEW p \in Packages, Enqueue(p)
    PROVE  StalledOnlyWhenFull'
<1>1. Capacity \in Nat /\ Len(queue) \in Nat
  BY DispatchAssumption DEF TypeOK
<1>2. CASE Len(queue) < Capacity
  <2>1. Len(queue') = Len(queue) + 1 /\ stalled' = stalled
    BY <1>2 DEF TypeOK, Enqueue
  <2>. QED
    BY <1>1, <1>2, <2>1 DEF StalledOnlyWhenFull
<1>3. CASE ~ Len(queue) < Capacity
  <2>1. queue' = queue
    BY <1>3 DEF Enqueue
  <2>. QED
    BY <1>1, <1>3, <2>1 DEF StalledOnlyWhenFull
<1>. QED
  BY <1>2, <1>3

(* The place that the dispatch loop frees goes to a stalled sender.           *)
LEMMA TakeRefills ==
    ASSUME TypeOK, StalledOnlyWhenFull, Take
    PROVE  StalledOnlyWhenFull'
<1>1. Capacity \in Nat /\ Len(queue) \in Nat
  BY DispatchAssumption DEF TypeOK
<1>2. Tail(queue) \in Seq(Packages) /\ Len(Tail(queue)) = Len(queue) - 1
  BY DEF TypeOK, Take
<1>3. CASE stalled = <<>>
  BY <1>1, <1>2, <1>3 DEF Take, StalledOnlyWhenFull
<1>4. CASE stalled # <<>>
  <2>1. Len(queue') = Len(queue)
    BY <1>2, <1>4 DEF TypeOK, Take
  <2>. QED
    BY <1>1, <1>4, <2>1 DEF StalledOnlyWhenFull
<1>. QED
  BY <1>3, <1>4

LEMMA ChannelKept ==
    ASSUME TypeOK, StalledOnlyWhenFull, [Next]_vars
    PROVE  StalledOnlyWhenFull'
<1>1. CASE UNCHANGED <<queue, stalled>>
  BY <1>1 DEF StalledOnlyWhenFull
<1>2. ASSUME NEW p \in Packages,
             \/ ReadPackage(p) \/ DispatchRequest(p) \/ DispatchUnhandled(p)
             \/ DispatchNotification(p) \/ DispatchUnhooked(p) \/ StartHook(p)
             \/ HookReturns(p) \/ WriteResponse(p)
             \/ DeserializeRaises(p) \/ HookRaises(p) \/ WriteFails(p)
      PROVE  UNCHANGED <<queue, stalled>>
  BY <1>2 DEF ReadPackage, DispatchRequest, DispatchUnhandled, DispatchNotification,
              DispatchUnhooked, StartHook, HookReturns, WriteResponse,
              DeserializeRaises, HookRaises, WriteFails
<1>3. StreamEnds \/ UNCHANGED vars => UNCHANGED <<queue, stalled>>
  BY DEF StreamEnds, vars
<1>. QED
  BY <1>1, <1>2, <1>3, EnqueueFills, TakeRefills DEF Next, Step

(* Whatever the capacity and however many handlers crowd the channel, none of *)
(* them is suspended in it while it has room.                                 *)
THEOREM NoneStrandedBesideRoom == Spec => []StalledOnlyWhenFull
<1>1. Init => StalledOnlyWhenFull
  BY DispatchAssumption DEF Init, StalledOnlyWhenFull
<1>2. TypeOK /\ StalledOnlyWhenFull /\ [Next]_vars => StalledOnlyWhenFull'
  BY ChannelKept
<1>. QED
  BY <1>1, <1>2, TypesCorrect, PTL DEF Spec

-----------------------------------------------------------------------------
(* The order of requests and notifications                                    *)

(* A package with a hook stands at one place of a line of six stages: its     *)
(* handler has not started, is suspended in send, has put it into the buffer; *)
(* its dispatch task, its hook has not started, its hook began. A place is a  *)
(* package, a stage and a position in the queue that is the stage. Requests   *)
(* pass over the fifth stage, and may pass notifications that stand there.    *)
Stages == 1 .. 6
Positions == Nat \ {0}
Places == Packages \X Stages \X Positions

Listed(s, i, e) == i \in 1 .. Len(s) /\ s[i] = e

Stands(p, s, i) ==
    \/ s = 1 /\ Listed(spawned, i, Task("handle", p))
    \/ s = 2 /\ Listed(stalled, i, p)
    \/ s = 3 /\ Listed(queue, i, p)
    \/ s = 4 /\ Listed(spawned, i, Task("dispatch", p))
    \/ s = 5 /\ Listed(spawned, i, Task("hook", p))
    \/ s = 6 /\ Listed(hooked, i, p)

Line == {x \in Places : x[1] \in Hooked /\ Stands(x[1], x[2], x[3])}

Ahead(x, y) == y[2] < x[2] \/ (x[2] = y[2] /\ x[3] < y[3])

(* Nobody stands at two places, and who was read earlier is ahead.            *)
Lawful(line, earlier) ==
    /\ line \subseteq Places
    /\ \A x, y \in line : x[1] = y[1] => x = y
    /\ \A x, y \in line : x # y /\ <<x[1], y[1]>> \in earlier => Ahead(x, y)

Earlier ==
    {x \in Packages \X Packages :
        /\ Before(arrived, x[1], x[2])
        /\ x[1] \in Notifications => x[2] \in Notifications}

(* Only the hook of a notification is a task of its own.                      *)
HookTasks == \A p \in Packages, i \in Positions :
                Listed(spawned, i, Task("hook", p)) => p \in Notifications

InLine ==
    /\ \A p \in Packages : /\ Contains(arrived, p) => fate[p] # "unread"
                           /\ ~ Before(arrived, p, p)
    /\ \A x \in Line : Contains(arrived, x[1])
    /\ \A p \in Hooked : Contains(arrived, p) => \E x \in Line : x[1] = p
    /\ Lawful(Line, Earlier)

(* The place x of a line is given up for the later place z.                   *)
Moved(line, x, z) == IF x \in line THEN (line \ {x}) \cup {z} ELSE line

LEMMA Places1 ==
    /\ \A x \in Places : /\ x = <<x[1], x[2], x[3]>>
                         /\ x[1] \in Packages /\ x[2] \in Nat /\ x[3] \in Nat
                         /\ x[2] \in Stages /\ x[3] \in Positions
    /\ \A p \in Packages, s \in Stages, i \in Positions :
          /\ <<p, s, i>> \in Places
          /\ <<p, s, i>>[1] = p /\ <<p, s, i>>[2] = s /\ <<p, s, i>>[3] = i
  BY DEF Places, Stages, Positions

LEMMA Standing ==
    /\ Line \subseteq Places
    /\ \A p \in Packages, s \in Stages, i \in Positions :
          <<p, s, i>> \in Line <=> p \in Hooked /\ Stands(p, s, i)
  BY Places1 DEF Line

LEMMA AheadOf ==
    \A x, y \in Places, z \in Places :
       /\ Ahead(x, y) /\ x[2] < z[2] => Ahead(z, y)
       /\ /\ Ahead(y, x) /\ (y[2] = x[2] => x[3] < y[3])
          /\ (y[2] > x[2] => y[2] >= z[2]) /\ (y[2] = z[2] => y[3] < z[3])
          => Ahead(y, z)
<1>1. \A a, b, c, i, j, k \in Nat :
         /\ (b < a \/ (a = b /\ i < j)) /\ a < c => b < c
         /\ /\ a < b \/ (a = b /\ j < i)
            /\ a = b => i < j
            /\ b > a => b >= c
            /\ b = c => j < k
            => c < b \/ (c = b /\ j < k)
  OBVIOUS
<1>. QED
  BY <1>1, Places1 DEF Ahead

(* Who is first of its stage may move behind everybody it may not pass, to a  *)
(* stage that none of them is short of.                                       *)
LEMMA Advance ==
    ASSUME NEW line, NEW earlier, Lawful(line, earlier),
           NEW x \in Places, NEW z \in Places, z[1] = x[1], x[2] < z[2],
           \A y \in line : y # x /\ <<y[1], x[1]>> \in earlier =>
              /\ y[2] = x[2] => x[3] < y[3]
              /\ y[2] > x[2] => y[2] >= z[2]
              /\ y[2] = z[2] => y[3] < z[3]
    PROVE  Lawful(Moved(line, x, z), earlier)
<1>1. CASE x \notin line
  BY <1>1 DEF Moved
<1>2. CASE x \in line
  <2>1. Moved(line, x, z) = (line \ {x}) \cup {z}
    BY <1>2 DEF Moved
  <2>2. \A y \in line : y # x => y[1] # z[1]
    BY <1>2 DEF Lawful
  <2>3. \A y \in line : y # x /\ <<z[1], y[1]>> \in earlier => Ahead(z, y)
    BY <1>2, AheadOf DEF Lawful
  <2>4. \A y \in line : y # x /\ <<y[1], z[1]>> \in earlier => Ahead(y, z)
    BY <1>2, AheadOf DEF Lawful
  <2>. QED
    BY <2>1, <2>2, <2>3, <2>4 DEF Lawful
<1>. QED
  BY <1>1, <1>2

(* Everybody of a stage may move up by the same number of positions.          *)
LEMMA Shift ==
    ASSUME NEW line, NEW earlier, Lawful(line, earlier), NEW d \in [Stages -> Nat],
           NEW moved \in SUBSET Places,
           \A y \in moved : <<y[1], y[2], y[3] + d[y[2]]>> \in line
    PROVE  Lawful(moved, earlier)
<1>. DEFINE Old(y) == <<y[1], y[2], y[3] + d[y[2]]>>
<1>1. ASSUME NEW x \in moved, NEW y \in moved
      PROVE  /\ Old(x) \in line /\ Old(y) \in line
             /\ Old(x)[1] = x[1] /\ Old(y)[1] = y[1]
             /\ Old(x) = Old(y) => x = y
             /\ Ahead(Old(x), Old(y)) => Ahead(x, y)
  <2>1. /\ x = <<x[1], x[2], x[3]>> /\ y = <<y[1], y[2], y[3]>>
        /\ {x[2], x[3], y[2], y[3], d[x[2]], d[y[2]]} \subseteq Nat
    BY Places1
  <2>2. x[2] = y[2] => d[x[2]] = d[y[2]]
    OBVIOUS
  <2>3. \A i, j, m \in Nat : (i + m = j + m => i = j) /\ (i + m < j + m => i < j)
    OBVIOUS
  <2>4. Old(x) = Old(y) => x = y
    BY <2>1, <2>2, <2>3
  <2>5. Ahead(Old(x), Old(y)) => Ahead(x, y)
    BY <2>1, <2>2, <2>3 DEF Ahead
  <2>. QED
    BY <2>4, <2>5
<1>. HIDE DEF Old
<1>2. \A x, y \in moved : x[1] = y[1] => x = y
  BY <1>1 DEF Lawful
<1>3. \A x, y \in moved : x # y /\ <<x[1], y[1]>> \in earlier => Ahead(x, y)
  BY <1>1 DEF Lawful
<1>. QED
  BY <1>2, <1>3 DEF Lawful

(* A step after which everybody stands where line has it, but for positions   *)
(* moved up, keeps the line.                                                  *)
LEMMA Passes ==
    ASSUME TypeOK, InLine, UNCHANGED <<arrived, hooks>>,
           \A p \in Packages : fate[p] # "unread" => fate'[p] # "unread",
           NEW line, Lawful(line, Earlier), NEW d \in [Stages -> Nat],
           \A p \in Hooked, s \in Stages, i \in Positions :
              Stands(p, s, i)' => <<p, s, i + d[s]>> \in line,
           \A x \in line : /\ \E y \in Line : y[1] = x[1]
                           /\ \E s \in Stages, i \in Positions : Stands(x[1], s, i)',
           \A x \in Line : \E y \in line : y[1] = x[1]
    PROVE  InLine'
<1>1. Hooked' = Hooked /\ Earlier' = Earlier
  BY DEF Hooked, Earlier
<1>2. Line' \subseteq Places
  BY DEF Line
<1>3. \A y \in Line' : <<y[1], y[2], y[3] + d[y[2]]>> \in line
  BY <1>1, <1>2, Places1 DEF Line
<1>4. Lawful(Line, Earlier)'
  BY <1>1, <1>2, <1>3, Shift
<1>5. \A x \in Line' : Contains(arrived, x[1])'
  <2>1. \A p, s, i : <<p, s, i>>[1] = p
    OBVIOUS
  <2>2. \A x \in Line' : \E y \in line : y[1] = x[1]
    BY <1>3, <2>1
  <2>. QED
    BY <2>2 DEF InLine
<1>6. \A p \in Hooked : Contains(arrived, p) => \E x \in Line' : x[1] = p
  <2>. SUFFICES ASSUME NEW p \in Hooked, Contains(arrived, p)
                PROVE  \E x \in Line' : x[1] = p
    OBVIOUS
  <2>1. PICK x \in Line : x[1] = p
    BY DEF InLine
  <2>2. PICK y \in line : y[1] = p
    BY <2>1
  <2>3. PICK s \in Stages, i \in Positions : Stands(p, s, i)'
    BY <2>2
  <2>4. p \in Packages
    BY DEF Hooked
  <2>5. /\ <<p, s, i>> \in Places
        /\ <<p, s, i>>[1] = p /\ <<p, s, i>>[2] = s /\ <<p, s, i>>[3] = i
    BY <2>4, Places1
  <2>6. <<p, s, i>> \in Line'
    BY <1>1, <2>3, <2>5 DEF Line
  <2>. QED
    BY <2>5, <2>6
<1>. QED
  BY <1>1, <1>4, <1>5, <1>6 DEF InLine

LEMMA MovedNames ==
    ASSUME NEW line, NEW x \in Places, NEW z \in Places, z[1] = x[1]
    PROVE  /\ \A y \in Moved(line, x, z) : \E w \in line : w[1] = y[1]
           /\ \A w \in line : \E y \in Moved(line, x, z) : y[1] = w[1]
<1>1. CASE x \notin line
  BY <1>1 DEF Moved
<1>2. CASE x \in line
  BY <1>2 DEF Moved
<1>. QED
  BY <1>1, <1>2

LEMMA Appending ==
    ASSUME NEW S, NEW s \in Seq(S), NEW e \in S
    PROVE  \A i \in Positions : \A f :
              Listed(Append(s, e), i, f) <=> Listed(s, i, f) \/ (i = Len(s) + 1 /\ f = e)
  BY DEF Listed, Positions

LEMMA Leaving ==
    ASSUME NEW S, NEW s \in Seq(S), s # <<>>
    PROVE  /\ \A i \in Positions : \A f : Listed(Tail(s), i, f) <=> Listed(s, i + 1, f)
           /\ \A f : Listed(s, 1, f) <=> f = Head(s)
           /\ Len(Tail(s)) + 1 = Len(s) /\ Tail(s) \in Seq(S) /\ Len(s) \in Positions
<1>1. Len(s) \in Nat /\ Len(s) # 0 /\ Len(Tail(s)) = Len(s) - 1 /\ Tail(s) \in Seq(S)
  OBVIOUS
<1>2. \A i \in Positions : \A f : Listed(Tail(s), i, f) <=> Listed(s, i + 1, f)
  BY <1>1 DEF Listed, Positions
<1>3. \A f : Listed(s, 1, f) <=> f = Head(s)
  BY <1>1 DEF Listed
<1>. QED
  BY <1>1, <1>2, <1>3 DEF Positions

LEMMA TasksDiffer ==
    \A k, l, p, q : Task(k, p) = Task(l, q) <=> k = l /\ p = q
  BY DEF Task

(* The stages whose queue is that of the event loop, and the one of a task.   *)
Scheduled == {1, 4, 5}
StageOf(k) == IF k = "handle" THEN 1 ELSE IF k = "dispatch" THEN 4 ELSE 5

LEMMA StandsScheduled ==
    \A k \in Kinds : \A p, i : Stands(p, StageOf(k), i) <=> Listed(spawned, i, Task(k, p))
  BY DEF Kinds, StageOf, Stands

LEMMA KindOf == \A s \in Scheduled : \E k \in Kinds : s = StageOf(k)
  BY DEF Kinds, StageOf, Scheduled

LEMMA StagesOf == \A k, l \in Kinds : /\ StageOf(k) \in Stages \cap Scheduled
                                      /\ StageOf(k) = StageOf(l) => k = l
  BY DEF Kinds, StageOf, Scheduled, Stages

(* The task that starts is the only one in the first position.                *)
LEMMA Foremost ==
    ASSUME TypeOK, NEW k \in Kinds, NEW p \in Packages, Starts(k, p)
    PROVE  \A q \in Packages, s \in Scheduled : Stands(q, s, 1) <=> q = p /\ s = StageOf(k)
<1>1. spawned \in Seq([kind : Kinds, package : Packages]) /\ spawned # <<>>
  BY DEF TypeOK, Starts
<1>2. \A l \in Kinds, q \in Packages : Listed(spawned, 1, Task(l, q)) <=> l = k /\ q = p
  BY <1>1, Leaving, TasksDiffer DEF Starts
<1>. QED
  BY <1>2, StandsScheduled, KindOf, StagesOf

Up == [s \in Stages |-> IF s \in Scheduled THEN 1 ELSE 0]

LEMMA UpTyped == Up \in [Stages -> Nat]
  BY DEF Up

(* A task starts of a package that does not stand in the line.                *)
LEMMA StartsAside ==
    ASSUME TypeOK, InLine, NEW k \in Kinds, NEW p \in Packages, Starts(k, p), p \notin Hooked,
           UNCHANGED <<arrived, hooks>>,
           \A q \in Packages : fate[q] # "unread" => fate'[q] # "unread",
           \A q \in Hooked, s \in Stages, i \in Positions :
              Stands(q, s, i)' <=> Stands(q, s, i + Up[s])
    PROVE  InLine'
<1>1. Hooked \subseteq Packages
  BY DEF Hooked
<1>2. \A s \in Stages, i \in Positions : i + Up[s] \in Positions
  BY UpTyped DEF Positions
<1>3. \A q \in Hooked, s \in Stages, i \in Positions :
         Stands(q, s, i)' => <<q, s, i + Up[s]>> \in Line
  BY <1>1, <1>2, Standing
<1>4. ASSUME NEW x \in Line
      PROVE  \E s \in Stages, i \in Positions : Stands(x[1], s, i)'
  <2>1. x \in Places /\ x[1] \in Hooked /\ Stands(x[1], x[2], x[3])
    BY DEF Line
  <2>2. x[1] \in Packages /\ x[2] \in Stages /\ x[3] \in Positions
    BY <2>1, Places1
  <2>3. x[2] \in Scheduled => x[3] # 1
    BY <2>1, <2>2, Foremost
  <2>4. x[3] - Up[x[2]] \in Positions /\ x[3] - Up[x[2]] + Up[x[2]] = x[3]
    BY <2>2, <2>3 DEF Up, Positions
  <2>. QED
    BY <2>1, <2>2, <2>4
<1>5. Lawful(Line, Earlier)
  BY DEF InLine
<1>. QED
  BY <1>3, <1>4, <1>5, UpTyped, Passes

(* A task starts of a package that moves behind everybody of a later stage.   *)
LEMMA StartsMoving ==
    ASSUME TypeOK, InLine, NEW k \in Kinds, NEW p \in Packages, Starts(k, p),
           NEW t \in Stages, NEW n \in Positions, StageOf(k) < t, n - Up[t] \in Positions,
           \A q \in Packages, s \in Stages, i \in Positions :
              Stands(q, s, i) /\ <<q, p>> \in Earlier => /\ s > StageOf(k) => s >= t
                                                         /\ s = t => i < n,
           UNCHANGED <<arrived, hooks>>,
           \A q \in Packages : fate[q] # "unread" => fate'[q] # "unread",
           \A q \in Packages, s \in Stages, i \in Positions :
              Stands(q, s, i)' <=> \/ Stands(q, s, i + Up[s])
                                   \/ q = p /\ s = t /\ i + Up[s] = n
    PROVE  InLine'
<1>. DEFINE from == StageOf(k)
            x == <<p, from, 1>>
            z == <<p, t, n>>
            line == Moved(Line, x, z)
<1>1. Hooked \subseteq Packages /\ from \in Stages \cap Scheduled
  BY StagesOf DEF Hooked
<1>2. /\ x \in Places /\ x[1] = p /\ x[2] = from /\ x[3] = 1
      /\ z \in Places /\ z[1] = p /\ z[2] = t /\ z[3] = n
  BY <1>1, Places1 DEF Positions
<1>3. \A y \in Line : /\ y \in Places /\ y[1] \in Hooked /\ Stands(y[1], y[2], y[3])
                      /\ y[1] \in Packages /\ y[2] \in Stages /\ y[3] \in Positions
  BY Places1 DEF Line
<1>4. ASSUME NEW y \in Line, y # x
      PROVE  /\ y[2] \in Scheduled => y[3] # 1 /\ y[3] > 1
             /\ <<y[1], p>> \in Earlier => /\ y[2] > from => y[2] >= t
                                           /\ y[2] = t => y[3] < n
  <2>1. y[2] \in Scheduled => y[3] # 1
    BY <1>1, <1>3, <1>4, Foremost, Places1
  <2>2. \A i \in Positions : i # 1 => i > 1
    BY DEF Positions
  <2>. QED
    BY <1>3, <2>1, <2>2
<1>5. x \in Line <=> p \in Hooked
  BY <1>1, Foremost, Standing DEF Positions
<1>6. Lawful(line, Earlier)
  <2>1. Lawful(Line, Earlier)
    BY DEF InLine
  <2>2. \A y \in Line : y # x /\ <<y[1], x[1]>> \in Earlier =>
                          /\ y[2] = x[2] => x[3] < y[3]
                          /\ y[2] > x[2] => y[2] >= z[2]
                          /\ y[2] = z[2] => y[3] < z[3]
    BY <1>1, <1>2, <1>3, <1>4 DEF Positions
  <2>. HIDE DEF x, z
  <2>. QED
    BY <1>2, <2>1, <2>2, Advance
<1>7. ASSUME NEW q \in Hooked, NEW s \in Stages, NEW i \in Positions, Stands(q, s, i)'
      PROVE  <<q, s, i + Up[s]>> \in line
  <2>1. i + Up[s] \in Positions /\ q \in Packages /\ (s \in Scheduled => i + Up[s] # 1)
    BY <1>1 DEF Positions, Up
  <2>2. CASE Stands(q, s, i + Up[s])
    <3>1. <<q, s, i + Up[s]>> \in Line
      BY <2>1, <2>2, Standing
    <3>2. <<q, s, i + Up[s]>> # x
      BY <1>1, <2>1
    <3>. QED
      BY <3>1, <3>2 DEF Moved
  <2>3. CASE q = p /\ s = t /\ i + Up[s] = n
    <3>1. x \in Line /\ <<q, s, i + Up[s]>> = z
      BY <1>5, <2>3
    <3>. QED
      BY <3>1 DEF Moved
  <2>. QED
    BY <1>7, <2>1, <2>2, <2>3
<1>8. ASSUME NEW y \in line
      PROVE  \E s \in Stages, i \in Positions : Stands(y[1], s, i)'
  <2>1. CASE y \in Line /\ y # x
    <3>1. y[2] \in Scheduled => y[3] > 1
      BY <1>4, <2>1
    <3>2. y[3] - Up[y[2]] \in Positions /\ y[3] - Up[y[2]] + Up[y[2]] = y[3]
      BY <1>3, <2>1, <3>1 DEF Up, Positions
    <3>. QED
      BY <1>3, <2>1, <3>2
  <2>2. CASE y = z
    <3>1. n - Up[t] + Up[t] = n
      BY DEF Up, Positions
    <3>. QED
      BY <1>2, <2>2, <3>1
  <2>. QED
    BY <2>1, <2>2 DEF Moved
<1>9. /\ \A y \in line : \E w \in Line : w[1] = y[1]
      /\ \A w \in Line : \E y \in line : y[1] = w[1]
  <2>1. x \in Places /\ z \in Places /\ z[1] = x[1]
    BY <1>2
  <2>. HIDE DEF x, z
  <2>. QED
    BY <2>1, MovedNames
<1>. HIDE DEF line
<1>10. \A q \in Hooked, s \in Stages, i \in Positions :
          Stands(q, s, i)' => <<q, s, i + Up[s]>> \in line
  BY <1>7
<1>11. \A y \in line : /\ \E w \in Line : w[1] = y[1]
                       /\ \E s \in Stages, i \in Positions : Stands(y[1], s, i)'
  BY <1>8, <1>9, Zenon
<1>. QED
  BY <1>6, <1>9, <1>10, <1>11, UpTyped, Passes, Zenon

LEMMA SequencesTyped ==
    ASSUME TypeOK
    PROVE  /\ spawned \in Seq([kind : Kinds, package : Packages])
           /\ queue \in Seq(Packages) /\ stalled \in Seq(Packages) /\ hooked \in Seq(Packages)
           /\ Len(spawned) \in Nat /\ Len(queue) \in Nat
           /\ Len(stalled) \in Nat /\ Len(hooked) \in Nat
           /\ \A k \in Kinds, p \in Packages :
                 Task(k, p) \in [kind : Kinds, package : Packages]
  BY DEF TypeOK, Task

LEMMA StageCases ==
    /\ \A s \in Stages : s \in {1, 2, 3, 4, 5, 6}
    /\ \A s \in {1, 2, 3, 4, 5, 6} : s \in Stages
    /\ Up[1] = 1 /\ Up[2] = 0 /\ Up[3] = 0 /\ Up[4] = 1 /\ Up[5] = 1 /\ Up[6] = 0
    /\ StageOf("handle") = 1 /\ StageOf("dispatch") = 4 /\ StageOf("hook") = 5
    /\ {"handle", "dispatch", "hook"} = Kinds
    /\ \A s \in Scheduled : Up[s] = 1 /\ s \notin {2, 3, 6}
    /\ \A i \in Positions : i + 0 = i
  BY DEF Stages, Up, Scheduled, StageOf, Kinds, Positions

(* What a task that starts leaves of the event loop's queue.                  *)
LEMMA StartedRows ==
    ASSUME TypeOK, NEW k \in Kinds, NEW p \in Packages, Starts(k, p), spawned' = Tail(spawned)
    PROVE  \A q, s, i : i \in Positions /\ s \in Scheduled =>
              (Stands(q, s, i)' <=> Stands(q, s, i + 1))
<1>1. spawned # <<>>
  BY DEF Starts
<1>2. \A i \in Positions : \A f : Listed(spawned', i, f) <=> Listed(spawned, i + 1, f)
  BY <1>1, SequencesTyped, Leaving
<1>. QED
  BY <1>2 DEF Stands, Scheduled

LEMMA EnqueueInLine ==
    ASSUME TypeOK, StalledOnlyWhenFull, InLine, NEW p \in Packages, Enqueue(p)
    PROVE  InLine'
<1>1. /\ Starts("handle", p) /\ spawned' = Tail(spawned)
      /\ UNCHANGED <<arrived, hooks, fate, hooked>>
  BY DEF Enqueue
<1>2. CASE Len(queue) < Capacity
  <2>. DEFINE n == Len(queue) + 1
  <2>1. queue' = Append(queue, p) /\ stalled' = stalled
    BY <1>2 DEF Enqueue
  <2>2. stalled = <<>>
    <3>1. Len(queue) # Capacity
      BY <1>2, SequencesTyped, DispatchAssumption
    <3>. QED
      BY <3>1 DEF StalledOnlyWhenFull
  <2>3. n \in Positions /\ n - Up[3] \in Positions
    BY SequencesTyped, StageCases DEF Positions
  <2>4. \A q \in Packages, s \in Stages, i \in Positions :
           Stands(q, s, i) => /\ s > 1 => s >= 3
                              /\ s = 3 => i < n
    BY <2>2, SequencesTyped, StageCases DEF Stands, Listed
  <2>5. \A i \in Positions : \A f :
           Listed(queue, i, f)' <=> Listed(queue, i, f) \/ (i = n /\ f = p)
    BY <2>1, SequencesTyped, Appending DEF Listed
  <2>6. \A q \in Packages, s \in Stages, i \in Positions :
           Stands(q, s, i)' <=> Stands(q, s, i + Up[s]) \/ (q = p /\ s = 3 /\ i + Up[s] = n)
    <3>. SUFFICES ASSUME NEW q \in Packages, NEW s \in Stages, NEW i \in Positions
                  PROVE  Stands(q, s, i)' <=> \/ Stands(q, s, i + Up[s])
                                              \/ q = p /\ s = 3 /\ i + Up[s] = n
      OBVIOUS
    <3>1. CASE s \in Scheduled
      BY <1>1, <3>1, StartedRows, StageCases DEF Scheduled
    <3>2. CASE s = 2 \/ s = 6
      BY <1>1, <2>1, <3>2, StageCases DEF Stands, Listed
    <3>3. CASE s = 3
      BY <2>5, <3>3, StageCases DEF Stands
    <3>. QED
      BY <3>1, <3>2, <3>3, StageCases DEF Scheduled
  <2>. HIDE DEF n
  <2>. QED
    BY <1>1, <2>3, <2>4, <2>6, StageCases, StartsMoving
<1>3. CASE ~ Len(queue) < Capacity
  <2>. DEFINE n == Len(stalled) + 1
  <2>1. stalled' = Append(stalled, p) /\ queue' = queue
    BY <1>3 DEF Enqueue
  <2>3. n \in Positions /\ n - Up[2] \in Positions
    BY SequencesTyped, StageCases DEF Positions
  <2>4. \A q \in Packages, s \in Stages, i \in Positions :
           Stands(q, s, i) => /\ s > 1 => s >= 2
                              /\ s = 2 => i < n
    BY SequencesTyped, StageCases DEF Stands, Listed
  <2>5. \A i \in Positions : \A f :
           Listed(stalled, i, f)' <=> Listed(stalled, i, f) \/ (i = n /\ f = p)
    BY <2>1, SequencesTyped, Appending DEF Listed
  <2>6. \A q \in Packages, s \in Stages, i \in Positions :
           Stands(q, s, i)' <=> Stands(q, s, i + Up[s]) \/ (q = p /\ s = 2 /\ i + Up[s] = n)
    <3>. SUFFICES ASSUME NEW q \in Packages, NEW s \in Stages, NEW i \in Positions
                  PROVE  Stands(q, s, i)' <=> \/ Stands(q, s, i + Up[s])
                                              \/ q = p /\ s = 2 /\ i + Up[s] = n
      OBVIOUS
    <3>1. CASE s \in Scheduled
      BY <1>1, <3>1, StartedRows, StageCases DEF Scheduled
    <3>2. CASE s = 3 \/ s = 6
      BY <1>1, <2>1, <3>2, StageCases DEF Stands, Listed
    <3>3. CASE s = 2
      BY <2>5, <3>3, StageCases DEF Stands
    <3>. QED
      BY <3>1, <3>2, <3>3, StageCases DEF Scheduled
  <2>. HIDE DEF n
  <2>. QED
    BY <1>1, <2>3, <2>4, <2>6, StageCases, StartsMoving
<1>. QED
  BY <1>2, <1>3

(* A hook begins: of a notification in a task of its own, of a request in the *)
(* dispatch task, which passes notifications whose hooks have yet to start.   *)
LEMMA BeginsInLine ==
    ASSUME TypeOK, InLine, HookTasks, NEW p \in Packages, StartHook(p) \/ DispatchRequest(p)
    PROVE  InLine'
<1>. DEFINE n == Len(hooked) + 1
<1>0. PICK k \in Kinds : /\ k = "hook" \/ (k = "dispatch" /\ p \in ServerRequests)
                        /\ Starts(k, p)
  BY DEF StartHook, DispatchRequest, Kinds
<1>1. /\ spawned' = Tail(spawned) /\ hooked' = Append(hooked, p)
      /\ UNCHANGED <<arrived, hooks, queue, stalled>>
      /\ fate' = [fate EXCEPT ![p] = "hooking"]
  BY DEF StartHook, DispatchRequest
<1>2. \A q \in Packages : fate[q] # "unread" => fate'[q] # "unread"
  BY <1>1 DEF TypeOK
<1>3. n \in Positions /\ n - Up[6] \in Positions
  BY SequencesTyped, StageCases DEF Positions
<1>4. \A q \in Packages, s \in Stages, i \in Positions :
         Stands(q, s, i) /\ <<q, p>> \in Earlier => /\ s > StageOf(k) => s >= 6
                                                    /\ s = 6 => i < n
  <2>. SUFFICES ASSUME NEW q \in Packages, NEW s \in Stages, NEW i \in Positions,
                       Stands(q, s, i), <<q, p>> \in Earlier
                PROVE  /\ s > StageOf(k) => s >= 6
                       /\ s = 6 => i < n
    OBVIOUS
  <2>1. s = 6 => i < n
    BY SequencesTyped DEF Stands, Listed
  <2>2. s = 5 => k = "hook"
    <3>1. s = 5 => q \in Notifications
      BY DEF Stands, HookTasks
    <3>2. q \in Notifications => p \in Notifications
      BY DEF Earlier
    <3>. QED
      BY <1>0, <3>1, <3>2, DispatchAssumption
  <2>3. s > StageOf(k) => s >= 6
    BY <1>0, <2>2, StageCases
  <2>. QED
    BY <2>1, <2>3
<1>5. \A i \in Positions : \A f :
         Listed(hooked, i, f)' <=> Listed(hooked, i, f) \/ (i = n /\ f = p)
  BY <1>1, SequencesTyped, Appending DEF Listed
<1>6. \A q \in Packages, s \in Stages, i \in Positions :
         Stands(q, s, i)' <=> Stands(q, s, i + Up[s]) \/ (q = p /\ s = 6 /\ i + Up[s] = n)
  <2>. SUFFICES ASSUME NEW q \in Packages, NEW s \in Stages, NEW i \in Positions
                PROVE  Stands(q, s, i)' <=> \/ Stands(q, s, i + Up[s])
                                            \/ q = p /\ s = 6 /\ i + Up[s] = n
    OBVIOUS
  <2>1. CASE s \in Scheduled
    BY <1>0, <1>1, <2>1, StartedRows, StageCases DEF Scheduled
  <2>2. CASE s = 2 \/ s = 3
    BY <1>1, <2>2, StageCases DEF Stands, Listed
  <2>3. CASE s = 6
    BY <1>5, <2>3, StageCases DEF Stands
  <2>. QED
    BY <2>1, <2>2, <2>3, StageCases DEF Scheduled
<1>7. StageOf(k) < 6 /\ 6 \in Stages
  BY <1>0, StageCases
<1>. HIDE DEF n
<1>. QED
  BY <1>0, <1>1, <1>2, <1>3, <1>4, <1>6, <1>7, StartsMoving

LEMMA DispatchNotificationInLine ==
    ASSUME TypeOK, InLine, NEW p \in Packages, DispatchNotification(p), session' = "running"
    PROVE  InLine'
<1>. DEFINE n == Len(spawned) + 1
            rest == Tail(spawned)
<1>1. /\ Starts("dispatch", p) /\ spawned' = Append(rest, Task("hook", p))
      /\ UNCHANGED <<arrived, hooks, queue, stalled, hooked, fate>>
  BY DEF DispatchNotification
<1>2. n \in Positions /\ n - Up[5] \in Positions
  <2>1. Len(spawned) \in Positions
    BY <1>1, SequencesTyped, Leaving DEF Starts
  <2>. QED
    BY <2>1, StageCases DEF Positions
<1>3. \A q \in Packages, s \in Stages, i \in Positions :
         Stands(q, s, i) => /\ s > 4 => s >= 5
                            /\ s = 5 => i < n
  BY SequencesTyped, StageCases DEF Stands, Listed
<1>4. \A i \in Positions : \A f :
         Listed(spawned, i, f)' <=> \/ Listed(spawned, i + 1, f)
                                    \/ i + 1 = n /\ f = Task("hook", p)
  <2>1. spawned # <<>>
    BY <1>1 DEF Starts
  <2>2. Task("hook", p) \in [kind : Kinds, package : Packages]
    BY SequencesTyped, StageCases
  <2>3. /\ Len(rest) + 1 = Len(spawned) /\ rest \in Seq([kind : Kinds, package : Packages])
        /\ spawned' = Append(rest, Task("hook", p))
    BY <1>1, <2>1, SequencesTyped, Leaving
  <2>4. \A i \in Positions : \A f : Listed(rest, i, f) <=> Listed(spawned, i + 1, f)
    BY <2>1, SequencesTyped, Leaving
  <2>5. \A i \in Positions : \A f :
           Listed(spawned', i, f) <=> \/ Listed(rest, i, f)
                                      \/ i = Len(rest) + 1 /\ f = Task("hook", p)
    <3>. DEFINE task == Task("hook", p)
                tasks == [kind : Kinds, package : Packages]
    <3>1. rest \in Seq(tasks)
      BY <2>3
    <3>2. task \in tasks /\ spawned' = Append(rest, task)
      BY <2>2, <2>3
    <3>. HIDE DEF rest, task, tasks
    <3>3. \A i \in Positions : \A f :
             Listed(Append(rest, task), i, f) <=> \/ Listed(rest, i, f)
                                                  \/ i = Len(rest) + 1 /\ f = task
      BY <3>1, <3>2, Appending
    <3>. QED
      BY <3>2, <3>3 DEF task
  <2>6. \A i \in Positions : i = Len(rest) + 1 <=> i + 1 = n
    <3>1. Len(rest) \in Nat
      BY <2>3
    <3>. HIDE DEF rest
    <3>. QED
      BY <2>3, <3>1 DEF Positions
  <2>. HIDE DEF n, rest
  <2>. QED
    BY <2>4, <2>5, <2>6 DEF Listed
<1>5. \A q \in Packages, s \in Stages, i \in Positions :
         Stands(q, s, i)' <=> Stands(q, s, i + Up[s]) \/ (q = p /\ s = 5 /\ i + Up[s] = n)
  <2>. SUFFICES ASSUME NEW q \in Packages, NEW s \in Stages, NEW i \in Positions
                PROVE  Stands(q, s, i)' <=> \/ Stands(q, s, i + Up[s])
                                            \/ q = p /\ s = 5 /\ i + Up[s] = n
    OBVIOUS
  <2>. HIDE DEF n
  <2>1. CASE s = 1
    BY <1>4, <2>1, TasksDiffer, StageCases DEF Stands
  <2>2. CASE s = 4
    BY <1>4, <2>2, TasksDiffer, StageCases DEF Stands
  <2>3. CASE s = 5
    BY <1>4, <2>3, TasksDiffer, StageCases DEF Stands
  <2>4. CASE s \in {2, 3, 6}
    BY <1>1, <2>4, StageCases DEF Stands, Listed
  <2>. QED
    BY <2>1, <2>2, <2>3, <2>4, StageCases
<1>. HIDE DEF n, rest
<1>. QED
  BY <1>1, <1>2, <1>3, <1>5, StageCases, StartsMoving

LEMMA DispatchAsideInLine ==
    ASSUME TypeOK, InLine, NEW p \in Packages, DispatchUnhooked(p)
    PROVE  InLine'
<1>1. /\ Starts("dispatch", p) /\ spawned' = Tail(spawned)
      /\ UNCHANGED <<arrived, hooks, queue, stalled, hooked>>
      /\ fate' = [fate EXCEPT ![p] = "ignored"]
  BY DEF DispatchUnhooked
<1>2. p \notin Hooked
  BY DEF DispatchUnhooked, Hooked
<1>3. \A q \in Packages : fate[q] # "unread" => fate'[q] # "unread"
  BY <1>1 DEF TypeOK
<1>4. \A q \in Hooked, s \in Stages, i \in Positions :
         Stands(q, s, i)' <=> Stands(q, s, i + Up[s])
  <2>. SUFFICES ASSUME NEW q \in Hooked, NEW s \in Stages, NEW i \in Positions
                PROVE  Stands(q, s, i)' <=> Stands(q, s, i + Up[s])
    OBVIOUS
  <2>1. CASE s \in Scheduled
    BY <1>1, <2>1, StartedRows, StageCases DEF Scheduled
  <2>2. CASE s \in {2, 3, 6}
    BY <1>1, <2>2, StageCases DEF Stands, Listed
  <2>. QED
    BY <2>1, <2>2, StageCases DEF Scheduled
<1>. QED
  BY <1>1, <1>2, <1>3, <1>4, StageCases, StartsAside

(* The first of the buffer gets a dispatch task, the first of the suspended   *)
(* the place in the buffer: two moves, one after the other.                   *)
LEMMA TakeInLine ==
    ASSUME TypeOK, InLine, Take
    PROVE  InLine'
<1>. DEFINE a == Head(queue)
            b == Head(stalled)
            tasks == [kind : Kinds, package : Packages]
            x == <<a, 3, 1>>
            z == <<a, 4, Len(spawned) + 1>>
            taken == Moved(Line, x, z)
            d == [s \in Stages |-> IF s \in {2, 3} THEN 1 ELSE 0]
<1>1. /\ queue # <<>> /\ spawned' = Append(spawned, Task("dispatch", a))
      /\ UNCHANGED <<hooks, arrived, fate, hooked>>
  BY DEF Take
<1>2. /\ a \in Packages /\ Len(Tail(queue)) + 1 = Len(queue) /\ Tail(queue) \in Seq(Packages)
      /\ Len(queue) \in Positions
      /\ \A i \in Positions : \A f : Listed(Tail(queue), i, f) <=> Listed(queue, i + 1, f)
      /\ \A f : Listed(queue, 1, f) <=> f = a
  <2>1. a \in Packages
    BY <1>1, SequencesTyped
  <2>. QED
    BY <1>1, <2>1, SequencesTyped, Leaving
<1>3. \A i \in Positions : \A f :
         Listed(spawned', i, f) <=> \/ Listed(spawned, i, f)
                                    \/ i = Len(spawned) + 1 /\ f = Task("dispatch", a)
  <2>. DEFINE task == Task("dispatch", a)
  <2>1. task \in tasks /\ spawned \in Seq(tasks) /\ spawned' = Append(spawned, task)
    BY <1>1, <1>2, SequencesTyped, StageCases
  <2>. HIDE DEF a, tasks, task
  <2>2. \A i \in Positions : \A f :
           Listed(Append(spawned, task), i, f) <=> \/ Listed(spawned, i, f)
                                                   \/ i = Len(spawned) + 1 /\ f = task
    BY <2>1, Appending
  <2>. QED
    BY <2>1, <2>2 DEF task
<1>4. /\ d \in [Stages -> Nat]
      /\ d[1] = 0 /\ d[2] = 1 /\ d[3] = 1 /\ d[4] = 0 /\ d[5] = 0 /\ d[6] = 0
  BY StageCases
<1>5. /\ x \in Places /\ x[1] = a /\ x[2] = 3 /\ x[3] = 1
      /\ z \in Places /\ z[1] = a /\ z[2] = 4 /\ z[3] = Len(spawned) + 1
  <2>1. 1 \in Positions /\ Len(spawned) + 1 \in Positions
    BY SequencesTyped DEF Positions
  <2>. QED
    BY <1>2, <2>1, Places1, StageCases
<1>6. \A y \in Line : /\ y \in Places /\ y[1] \in Hooked /\ Stands(y[1], y[2], y[3])
                      /\ y[1] \in Packages /\ y[2] \in Stages /\ y[3] \in Positions
                      /\ y = <<y[1], y[2], y[3]>>
  BY Places1 DEF Line
<1>7. \A s \in Stages, i \in Positions : /\ i # 1 => i > 1
                                         /\ i \in Nat /\ s \in Nat
                                         /\ s > 3 => s >= 4
                                         /\ s > 2 => s >= 3
  BY DEF Positions, Stages
<1>8. ASSUME NEW y \in Line
      PROVE  /\ y[2] = 3 => y[3] =< Len(queue) /\ (y[3] = 1 <=> y = x)
             /\ y[2] = 4 => y[3] < Len(spawned) + 1
  <2>1. y[2] = 3 => Listed(queue, y[3], y[1])
    BY <1>6 DEF Stands
  <2>2. y[2] = 4 => y[3] =< Len(spawned)
    BY <1>6 DEF Stands, Listed
  <2>3. y[2] = 3 => y[3] =< Len(queue)
    BY <2>1 DEF Listed
  <2>4. y[2] = 3 => (y[3] = 1 <=> y = x)
    BY <1>2, <1>5, <1>6, <2>1
  <2>. QED
    BY <1>6, <1>7, <2>2, <2>3, <2>4, SequencesTyped
<1>9. x \in Line <=> a \in Hooked
  <2>1. Stands(a, 3, 1)
    BY <1>2 DEF Stands
  <2>. QED
    BY <1>2, <2>1, Standing, StageCases DEF Positions
<1>10. Lawful(taken, Earlier)
  <2>1. Lawful(Line, Earlier)
    BY DEF InLine
  <2>2. \A y \in Line : y # x => /\ y[2] = x[2] => x[3] < y[3]
                                 /\ y[2] > x[2] => y[2] >= z[2]
                                 /\ y[2] = z[2] => y[3] < z[3]
    BY <1>5, <1>6, <1>7, <1>8
  <2>3. x[2] < z[2]
    BY <1>5
  <2>. HIDE DEF x, z
  <2>. QED
    BY <1>5, <2>1, <2>2, <2>3, Advance
<1>11. /\ \A y \in taken : \E w \in Line : w[1] = y[1]
       /\ \A w \in Line : \E y \in taken : y[1] = w[1]
  <2>. HIDE DEF x, z
  <2>. QED
    BY <1>5, MovedNames
<1>12. \A y : y \in taken <=> \/ y \in Line /\ y # x
                              \/ y = z /\ a \in Hooked
  BY <1>9 DEF Moved
<1>13. CASE stalled = <<>>
  <2>1. queue' = Tail(queue) /\ stalled' = stalled
    BY <1>13 DEF Take
  <2>2. ASSUME NEW q \in Hooked, NEW s \in Stages, NEW i \in Positions, Stands(q, s, i)'
        PROVE  <<q, s, i + d[s]>> \in taken
    <3>1. q \in Packages /\ i + 1 \in Positions /\ i + 1 # 1 /\ i + 0 = i
      BY DEF Hooked, Positions
    <3>2. CASE s \in {1, 5, 6}
      <4>1. Stands(q, s, i) /\ i + d[s] = i
        BY <1>1, <1>3, <1>4, <2>2, <3>1, <3>2, TasksDiffer DEF Stands, Listed
      <4>2. <<q, s, i>> \in Line /\ <<q, s, i>> # x
        BY <3>1, <3>2, <4>1, Standing
      <4>. QED
        BY <1>12, <4>1, <4>2
    <3>3. CASE s = 4
      <4>1. i + d[s] = i /\ (Stands(q, 4, i) \/ (q = a /\ i = Len(spawned) + 1))
        BY <1>3, <1>4, <2>2, <3>1, <3>3, TasksDiffer DEF Stands
      <4>2. <<q, 4, i>> # x
        OBVIOUS
      <4>. QED
        BY <1>12, <3>1, <3>3, <4>1, <4>2, Standing
    <3>4. CASE s = 3
      <4>1. Stands(q, 3, i + 1) /\ i + d[s] = i + 1
        BY <1>2, <1>4, <2>1, <2>2, <3>4 DEF Stands
      <4>2. <<q, 3, i + 1>> # x
        BY <3>1
      <4>. QED
        BY <1>12, <3>1, <3>4, <4>1, <4>2, Standing
    <3>5. CASE s = 2
      BY <1>13, <2>1, <2>2, <3>5 DEF Stands, Listed
    <3>. QED
      BY <3>2, <3>3, <3>4, <3>5, StageCases
  <2>3. ASSUME NEW y \in taken
        PROVE  \E s \in Stages, i \in Positions : Stands(y[1], s, i)'
    <3>1. CASE y = z
      BY <1>3, <1>5, <3>1, SequencesTyped, StageCases DEF Stands, Positions
    <3>2. CASE y \in Line /\ y # x /\ y[2] = 3
      <4>1. y[3] - 1 \in Positions /\ y[3] - 1 + 1 = y[3]
        BY <1>6, <1>8, <3>2 DEF Positions
      <4>2. Listed(queue, y[3], y[1])
        BY <1>6, <3>2 DEF Stands
      <4>3. Stands(y[1], 3, y[3] - 1)'
        BY <1>2, <2>1, <4>1, <4>2 DEF Stands
      <4>. QED
        BY <4>1, <4>3, StageCases
    <3>3. CASE y \in Line /\ y[2] # 3
      <4>1. Stands(y[1], y[2], y[3])'
        BY <1>1, <1>3, <1>6, <2>1, <3>3 DEF Stands, Listed
      <4>. QED
        BY <1>6, <3>3, <4>1
    <3>. QED
      BY <1>12, <3>1, <3>2, <3>3
  <2>. HIDE DEF taken, d
  <2>4. \A q \in Hooked, s \in Stages, i \in Positions :
           Stands(q, s, i)' => <<q, s, i + d[s]>> \in taken
    BY <2>2
  <2>5. \A y \in taken : /\ \E w \in Line : w[1] = y[1]
                         /\ \E s \in Stages, i \in Positions : Stands(y[1], s, i)'
    BY <1>11, <2>3, Zenon
  <2>. QED
    BY <1>1, <1>4, <1>10, <1>11, <2>4, <2>5, Passes, Zenon
<1>14. CASE stalled # <<>>
  <2>. DEFINE v == <<b, 2, 1>>
              w == <<b, 3, Len(queue) + 1>>
              line == Moved(taken, v, w)
  <2>1. /\ b \in Packages /\ queue' = Append(Tail(queue), b) /\ stalled' = Tail(stalled)
        /\ \A i \in Positions : \A f : Listed(stalled', i, f) <=> Listed(stalled, i + 1, f)
        /\ \A f : Listed(stalled, 1, f) <=> f = b
    <3>1. b \in Packages /\ queue' = Append(Tail(queue), b) /\ stalled' = Tail(stalled)
      BY <1>14, SequencesTyped DEF Take
    <3>. QED
      BY <1>14, <3>1, SequencesTyped, Leaving
  <2>2. \A i \in Positions : \A f :
           Listed(queue', i, f) <=> \/ Listed(queue, i + 1, f)
                                    \/ i + 1 = Len(queue) + 1 /\ f = b
    <3>. DEFINE rest == Tail(queue)
    <3>1. /\ rest \in Seq(Packages) /\ b \in Packages /\ queue' = Append(rest, b)
          /\ Len(rest) + 1 = Len(queue) /\ Len(rest) \in Nat
      BY <1>2, <2>1
    <3>2. \A i \in Positions : \A f : Listed(rest, i, f) <=> Listed(queue, i + 1, f)
      BY <1>2
    <3>. HIDE DEF rest, b
    <3>3. \A i \in Positions : \A f :
             Listed(Append(rest, b), i, f) <=> \/ Listed(rest, i, f)
                                               \/ i = Len(rest) + 1 /\ f = b
      BY <3>1, Appending
    <3>4. \A i \in Positions : i = Len(rest) + 1 <=> i + 1 = Len(queue) + 1
      BY <3>1 DEF Positions
    <3>. QED
      BY <3>1, <3>2, <3>3, <3>4
  <2>3. /\ v \in Places /\ v[1] = b /\ v[2] = 2 /\ v[3] = 1
        /\ w \in Places /\ w[1] = b /\ w[2] = 3 /\ w[3] = Len(queue) + 1
    <3>1. 1 \in Positions /\ Len(queue) + 1 \in Positions
      BY SequencesTyped DEF Positions
    <3>. QED
      BY <2>1, <3>1, Places1, StageCases
  <2>4. ASSUME NEW y \in Line
        PROVE  /\ y[2] = 2 => (y[3] = 1 <=> y = v)
               /\ y[2] = 3 => y[3] < Len(queue) + 1
    <3>1. y[2] = 2 => Listed(stalled, y[3], y[1])
      BY <1>6 DEF Stands
    <3>2. y[2] = 2 => (y[3] = 1 <=> y = v)
      BY <1>6, <2>1, <2>3, <3>1
    <3>. QED
      BY <1>6, <1>7, <1>8, <3>2, SequencesTyped
  <2>5. v \in Line <=> b \in Hooked
    <3>1. Stands(b, 2, 1)
      BY <2>1 DEF Stands
    <3>. QED
      BY <2>1, <3>1, Standing, StageCases DEF Positions
  <2>6. Lawful(line, Earlier)
    <3>1. \A y \in taken :
             y # v => /\ y[2] = v[2] => v[3] < y[3]
                      /\ y[2] > v[2] => y[2] >= w[2]
                      /\ y[2] = w[2] => y[3] < w[3]
      <4>1. ASSUME NEW y \in Line, y # v
            PROVE  /\ y[2] = v[2] => v[3] < y[3]
                   /\ y[2] > v[2] => y[2] >= w[2]
                   /\ y[2] = w[2] => y[3] < w[3]
        BY <1>6, <1>7, <2>3, <2>4, <4>1
      <4>2. z[2] > v[2] /\ z[2] >= w[2] /\ z[2] # v[2] /\ z[2] # w[2]
        BY <1>5, <2>3
      <4>. HIDE DEF taken, v, w, x, z
      <4>. QED
        BY <1>12, <4>1, <4>2
    <3>2. v \in Places /\ w \in Places /\ w[1] = v[1] /\ v[2] < w[2]
      BY <2>3
    <3>. HIDE DEF taken, v, w
    <3>. QED
      BY <1>10, <3>1, <3>2, Advance
  <2>7. /\ \A y \in line : \E u \in Line : u[1] = y[1]
        /\ \A u \in Line : \E y \in line : y[1] = u[1]
    <3>1. v \in Places /\ w \in Places /\ w[1] = v[1]
      BY <2>3
    <3>. HIDE DEF taken, v, w
    <3>2. /\ \A y \in line : \E u \in taken : u[1] = y[1]
          /\ \A u \in taken : \E y \in line : y[1] = u[1]
      BY <3>1, MovedNames
    <3>. HIDE DEF line
    <3>. QED
      BY <1>11, <3>2
  <2>8. \A y : y \in line <=> \/ y \in Line /\ y # x /\ y # v
                              \/ y = z /\ a \in Hooked
                              \/ y = w /\ b \in Hooked
    <3>1. v # z /\ v # x
      OBVIOUS
    <3>2. v \in taken <=> b \in Hooked
      BY <1>12, <2>5, <3>1
    <3>. HIDE DEF taken, v, w, x, z
    <3>. QED
      BY <1>12, <2>5, <3>1, <3>2 DEF Moved
  <2>9. ASSUME NEW q \in Hooked, NEW s \in Stages, NEW i \in Positions, Stands(q, s, i)'
        PROVE  <<q, s, i + d[s]>> \in line
    <3>1. q \in Packages /\ i + 1 \in Positions /\ i + 1 # 1 /\ i + 0 = i
      BY DEF Hooked, Positions
    <3>2. CASE s \in {1, 5, 6}
      <4>1. Stands(q, s, i) /\ i + d[s] = i
        BY <1>1, <1>3, <1>4, <2>9, <3>1, <3>2, TasksDiffer DEF Stands, Listed
      <4>2. <<q, s, i>> \in Line /\ <<q, s, i>> # x /\ <<q, s, i>> # v
        BY <3>1, <3>2, <4>1, Standing
      <4>. QED
        BY <2>8, <4>1, <4>2
    <3>3. CASE s = 4
      <4>1. i + d[s] = i /\ (Stands(q, 4, i) \/ (q = a /\ i = Len(spawned) + 1))
        BY <1>3, <1>4, <2>9, <3>1, <3>3, TasksDiffer DEF Stands
      <4>2. <<q, 4, i>> # x /\ <<q, 4, i>> # v
        OBVIOUS
      <4>. QED
        BY <2>8, <3>1, <3>3, <4>1, <4>2, Standing
    <3>4. CASE s = 3
      <4>1. i + d[s] = i + 1 /\ (Stands(q, 3, i + 1) \/ (q = b /\ i + 1 = Len(queue) + 1))
        BY <1>4, <2>2, <2>9, <3>4 DEF Stands
      <4>2. <<q, 3, i + 1>> # x /\ <<q, 3, i + 1>> # v
        BY <3>1
      <4>. QED
        BY <2>8, <3>1, <3>4, <4>1, <4>2, Standing
    <3>5. CASE s = 2
      <4>1. i + d[s] = i + 1 /\ Stands(q, 2, i + 1)
        BY <1>4, <2>1, <2>9, <3>5 DEF Stands
      <4>2. <<q, 2, i + 1>> # x /\ <<q, 2, i + 1>> # v
        BY <3>1
      <4>. QED
        BY <2>8, <3>1, <3>5, <4>1, <4>2, Standing
    <3>. QED
      BY <3>2, <3>3, <3>4, <3>5, StageCases
  <2>10. ASSUME NEW y \in line
         PROVE  \E s \in Stages, i \in Positions : Stands(y[1], s, i)'
    <3>1. CASE y = z
      BY <1>3, <1>5, <3>1, SequencesTyped, StageCases DEF Stands, Positions
    <3>2. CASE y = w
      <4>1. PICK i \in Positions : i = Len(queue)
        BY <1>2
      <4>2. Listed(queue', i, y[1])
        BY <2>2, <2>3, <3>2, <4>1
      <4>3. Stands(y[1], 3, i)'
        BY <4>2 DEF Stands
      <4>. QED
        BY <4>3, StageCases
    <3>3. CASE y \in Line /\ y # x /\ y # v /\ y[2] \in {2, 3}
      <4>1. y[3] - 1 \in Positions /\ y[3] - 1 + 1 = y[3]
        BY <1>6, <1>8, <2>4, <3>3 DEF Positions
      <4>2. CASE y[2] = 3
        <5>1. Listed(queue, y[3], y[1])
          BY <1>6, <3>3, <4>2 DEF Stands
        <5>2. Stands(y[1], 3, y[3] - 1)'
          BY <2>2, <4>1, <5>1 DEF Stands
        <5>. QED
          BY <4>1, <5>2, StageCases
      <4>3. CASE y[2] = 2
        <5>1. Listed(stalled, y[3], y[1])
          BY <1>6, <3>3, <4>3 DEF Stands
        <5>2. Stands(y[1], 2, y[3] - 1)'
          BY <2>1, <4>1, <5>1 DEF Stands
        <5>. QED
          BY <4>1, <5>2, StageCases
      <4>. QED
        BY <3>3, <4>2, <4>3
    <3>4. CASE y \in Line /\ y[2] \notin {2, 3}
      <4>1. Stands(y[1], y[2], y[3])'
        BY <1>1, <1>3, <1>6, <3>4 DEF Stands, Listed
      <4>. QED
        BY <1>6, <3>4, <4>1
    <3>. QED
      BY <2>8, <3>1, <3>2, <3>3, <3>4
  <2>. HIDE DEF line, d
  <2>11. \A q \in Hooked, s \in Stages, i \in Positions :
            Stands(q, s, i)' => <<q, s, i + d[s]>> \in line
    BY <2>9
  <2>12. \A y \in line : /\ \E u \in Line : u[1] = y[1]
                          /\ \E s \in Stages, i \in Positions : Stands(y[1], s, i)'
    BY <2>7, <2>10, Zenon
  <2>. QED
    BY <1>1, <1>4, <2>6, <2>7, <2>11, <2>12, Passes, Zenon
<1>. QED
  BY <1>13, <1>14

LEMMA Arriving ==
    ASSUME NEW s \in Seq(Packages), NEW e \in Packages
    PROVE  /\ \A p : Contains(Append(s, e), p) <=> Contains(s, p) \/ p = e
           /\ \A p, q :
                 Before(Append(s, e), p, q) => Before(s, p, q) \/ (Contains(s, p) /\ q = e)
           /\ \A p, q : Before(s, p, q) => Contains(s, p) /\ Contains(s, q)
<1>1. /\ Len(Append(s, e)) = Len(s) + 1 /\ Len(s) \in Nat
      /\ DOMAIN s = 1 .. Len(s) /\ DOMAIN Append(s, e) = 1 .. Len(s) + 1
      /\ \A i \in 1 .. Len(s) : Append(s, e)[i] = s[i]
      /\ Append(s, e)[Len(s) + 1] = e
  OBVIOUS
<1>2. \A n \in Nat : \A i \in 1 .. n + 1 : i \in 1 .. n \/ i = n + 1
  OBVIOUS
<1>3. \A n \in Nat : \A i \in 1 .. n : i \in 1 .. n + 1
  OBVIOUS
<1>4. \A n \in Nat : n + 1 \in 1 .. n + 1
  OBVIOUS
<1>5. \A n \in Nat : \A i, j \in 1 .. n + 1 : i < j => i \in 1 .. n
  OBVIOUS
<1>6. \A p : Contains(Append(s, e), p) <=> Contains(s, p) \/ p = e
  BY <1>1, <1>2, <1>3, <1>4 DEF Contains
<1>7. ASSUME NEW p, NEW q, Before(Append(s, e), p, q)
      PROVE  Before(s, p, q) \/ (Contains(s, p) /\ q = e)
  <2>1. PICK i, j \in 1 .. Len(s) + 1 : i < j /\ Append(s, e)[i] = p /\ Append(s, e)[j] = q
    BY <1>1, <1>7 DEF Before
  <2>2. i \in 1 .. Len(s) /\ s[i] = p
    BY <1>1, <1>5, <2>1
  <2>3. CASE j \in 1 .. Len(s)
    BY <1>1, <2>1, <2>2, <2>3 DEF Before
  <2>4. CASE j = Len(s) + 1
    BY <1>1, <2>1, <2>2, <2>4 DEF Contains
  <2>. QED
    BY <1>1, <1>2, <2>1, <2>3, <2>4
<1>8. ASSUME NEW p, NEW q, Before(s, p, q)
      PROVE  Contains(s, p) /\ Contains(s, q)
  BY <1>1, <1>8 DEF Before, Contains
<1>. QED
  BY <1>6, <1>7, <1>8

(* A package that is read stands behind everybody.                            *)
LEMMA ReadInLine ==
    ASSUME TypeOK, InLine, NEW p \in Packages, ReadPackage(p)
    PROVE  InLine'
<1>. DEFINE tasks == [kind : Kinds, package : Packages]
            task == Task("handle", p)
            z == <<p, 1, Len(spawned) + 1>>
<1>1. /\ fate[p] = "unread" /\ fate' = [fate EXCEPT ![p] = "moving"]
      /\ arrived' = Append(arrived, p) /\ spawned' = Append(spawned, task)
      /\ UNCHANGED <<hooks, queue, stalled, hooked>>
  BY DEF ReadPackage
<1>2. ~ Contains(arrived, p)
  BY <1>1 DEF InLine
<1>3. /\ \A q : Contains(arrived', q) <=> Contains(arrived, q) \/ q = p
      /\ \A q, r :
            Before(arrived', q, r) => Before(arrived, q, r) \/ (Contains(arrived, q) /\ r = p)
      /\ \A q, r : Before(arrived, q, r) => Contains(arrived, q) /\ Contains(arrived, r)
  <2>1. arrived \in Seq(Packages)
    BY DEF TypeOK
  <2>. QED
    BY <1>1, <2>1, Arriving
<1>4. Hooked' = Hooked /\ Hooked \subseteq Packages
  BY <1>1 DEF Hooked
<1>5. \A q \in Packages : /\ Contains(arrived', q) => fate'[q] # "unread"
                          /\ ~ Before(arrived', q, q)
  BY <1>1, <1>2, <1>3 DEF InLine, TypeOK
<1>6. \A i \in Positions : \A f :
         Listed(spawned', i, f) <=> \/ Listed(spawned, i, f)
                                    \/ i = Len(spawned) + 1 /\ f = task
  <2>1. task \in tasks /\ spawned \in Seq(tasks)
    BY SequencesTyped, StageCases
  <2>. HIDE DEF tasks, task
  <2>2. \A i \in Positions : \A f : Listed(Append(spawned, task), i, f)
                                <=> Listed(spawned, i, f) \/ (i = Len(spawned) + 1 /\ f = task)
    BY <2>1, Appending
  <2>. QED
    BY <1>1, <2>2
<1>7. z \in Places /\ z[1] = p /\ z[2] = 1 /\ z[3] = Len(spawned) + 1
  <2>1. Len(spawned) + 1 \in Positions
    BY SequencesTyped DEF Positions
  <2>. QED
    BY <2>1, Places1, StageCases
<1>8. \A q \in Packages, s \in Stages, i \in Positions :
         Stands(q, s, i)' <=> Stands(q, s, i) \/ (q = p /\ s = 1 /\ i = Len(spawned) + 1)
  <2>. SUFFICES ASSUME NEW q \in Packages, NEW s \in Stages, NEW i \in Positions
                PROVE  Stands(q, s, i)' <=> \/ Stands(q, s, i)
                                            \/ q = p /\ s = 1 /\ i = Len(spawned) + 1
    OBVIOUS
  <2>1. CASE s \in {1, 4, 5}
    BY <1>6, <2>1, TasksDiffer DEF Stands
  <2>2. CASE s \in {2, 3, 6}
    BY <1>1, <2>2 DEF Stands, Listed
  <2>. QED
    BY <2>1, <2>2, StageCases
<1>9. \A y : y \in Line' <=> y \in Line \/ (y = z /\ p \in Hooked)
  <2>1. \A y \in Places : Stands(y[1], y[2], y[3])' <=> Stands(y[1], y[2], y[3]) \/ y = z
    BY <1>7, <1>8, Places1
  <2>. HIDE DEF z
  <2>. QED
    BY <1>4, <1>7, <2>1 DEF Line
<1>10. \A y \in Line : /\ y \in Places /\ y[1] # p /\ y[1] \in Packages
                       /\ Contains(arrived, y[1])
  BY <1>2, Places1 DEF InLine, Line
<1>11. \A y \in Line : Ahead(y, z)
  <2>. SUFFICES ASSUME NEW y \in Line
                PROVE  Ahead(y, z)
    OBVIOUS
  <2>1. Stands(y[1], y[2], y[3]) /\ y[2] \in Stages /\ y[3] \in Positions
    BY Places1 DEF Line
  <2>2. y[2] = 1 => y[3] =< Len(spawned)
    BY <2>1 DEF Stands, Listed
  <2>3. y[2] = 1 => y[3] < Len(spawned) + 1
    BY <2>1, <2>2, SequencesTyped DEF Positions
  <2>4. y[2] = 1 \/ 1 < y[2]
    BY <2>1 DEF Stages
  <2>. QED
    BY <1>7, <2>3, <2>4 DEF Ahead
<1>. HIDE DEF z, task
<1>12. Lawful(Line, Earlier)'
  <2>1. Line' \subseteq Places
    BY <1>7, <1>9, <1>10
  <2>2. \A x, y \in Line' : x[1] = y[1] => x = y
    BY <1>7, <1>9, <1>10 DEF InLine, Lawful
  <2>3. ASSUME NEW x \in Line', NEW y \in Line', x # y, <<x[1], y[1]>> \in Earlier'
        PROVE  Ahead(x, y)
    <3>1. Before(arrived', x[1], y[1])
      BY <2>3 DEF Earlier
    <3>2. Contains(arrived, x[1])
      BY <1>3, <3>1
    <3>3. x \in Line
      BY <1>2, <1>7, <1>9, <3>2
    <3>4. CASE y = z
      BY <1>11, <3>3, <3>4
    <3>5. CASE y \in Line
      <4>1. Before(arrived, x[1], y[1])
        BY <1>3, <1>10, <3>1, <3>5
      <4>2. <<x[1], y[1]>> \in Earlier
        BY <1>10, <2>3, <3>3, <3>5, <4>1 DEF Earlier
      <4>. QED
        BY <2>3, <3>3, <3>5, <4>2 DEF InLine, Lawful
    <3>. QED
      BY <1>9, <3>4, <3>5
  <2>. QED
    BY <2>1, <2>2, <2>3 DEF Lawful
<1>13. \A x \in Line' : Contains(arrived', x[1])
  BY <1>3, <1>7, <1>9, <1>10
<1>14. \A q \in Hooked : Contains(arrived', q) => \E x \in Line' : x[1] = q
  BY <1>3, <1>7, <1>9 DEF InLine
<1>. QED
  BY <1>4, <1>5, <1>12, <1>13, <1>14 DEF InLine

LEMMA OthersInLine ==
    ASSUME TypeOK, InLine,
           \/ StreamEnds \/ UNCHANGED vars
           \/ \E p \in Packages : HookReturns(p) \/ WriteResponse(p)
    PROVE  InLine'
<1>1. UNCHANGED <<hooks, arrived, spawned, queue, stalled, hooked>>
  BY DEF StreamEnds, vars, HookReturns, WriteResponse
<1>2. \A p \in Packages : fate[p] # "unread" => fate'[p] # "unread"
  BY DEF TypeOK, StreamEnds, vars, HookReturns, WriteResponse
<1>3. Line' = Line /\ Earlier' = Earlier /\ Hooked' = Hooked
  BY <1>1 DEF Line, Stands, Listed, Earlier, Before, Hooked
<1>. QED
  BY <1>1, <1>2, <1>3 DEF InLine, Contains, Before

(* A session that goes on keeps the line; one that fails hands out nothing.   *)
LEMMA LineKept ==
    ASSUME TypeOK, StalledOnlyWhenFull, InLine, HookTasks, [Next]_vars
    PROVE  Running' => InLine'
<1>. SUFFICES ASSUME session' = "running"
              PROVE  InLine'
  BY DEF Running
<1>1. ASSUME NEW p \in Packages,
             DispatchUnhandled(p) \/ DeserializeRaises(p) \/ HookRaises(p) \/ WriteFails(p)
      PROVE  session' = "failed"
  BY <1>1 DEF DispatchUnhandled, DeserializeRaises, HookRaises, WriteFails
<1>. QED
  BY <1>1, EnqueueInLine, BeginsInLine, DispatchNotificationInLine, DispatchAsideInLine,
     TakeInLine, ReadInLine, OthersInLine
     DEF Next, Step

(* A step keeps a task, starts one or adds the hook of a notification.        *)
LEMMA HookTasksKept ==
    ASSUME TypeOK, HookTasks, [Next]_vars
    PROVE  HookTasks'
<1>. DEFINE tasks == [kind : Kinds, package : Packages]
<1>1. CASE UNCHANGED spawned
  BY <1>1 DEF HookTasks, Listed
<1>2. ASSUME NEW rest \in Seq(tasks), NEW task \in tasks, spawned' = Append(rest, task),
             task.kind = "hook" => task.package \in Notifications,
             \A i \in Positions : \A f : Listed(rest, i, f) =>
                 \E j \in Positions : Listed(spawned, j, f)
      PROVE  HookTasks'
  <2>. SUFFICES ASSUME NEW p \in Packages, NEW i \in Positions,
                       Listed(spawned', i, Task("hook", p))
                PROVE  p \in Notifications
    BY DEF HookTasks
  <2>. HIDE DEF tasks
  <2>1. Listed(rest, i, Task("hook", p)) \/ Task("hook", p) = task
    BY <1>2, Appending
  <2>. QED
    BY <1>2, <2>1 DEF HookTasks, Task
<1>3. ASSUME spawned # <<>>
      PROVE  /\ Tail(spawned) \in Seq(tasks)
             /\ \A i \in Positions : \A f : Listed(Tail(spawned), i, f) =>
                   \E j \in Positions : Listed(spawned, j, f)
  <2>1. \A i \in Positions : i + 1 \in Positions
    BY DEF Positions
  <2>. QED
    BY <1>3, <2>1, SequencesTyped, Leaving
<1>4. CASE spawned # <<>> /\ spawned' = Tail(spawned)
  BY <1>3, <1>4 DEF HookTasks
<1>5. ASSUME NEW p \in Packages, ReadPackage(p)
      PROVE  HookTasks'
  BY <1>2, <1>5, SequencesTyped, StageCases DEF ReadPackage, Task
<1>6. CASE Take
  <2>1. Head(queue) \in Packages
    BY <1>6, SequencesTyped DEF Take
  <2>. QED
    BY <1>2, <1>6, <2>1, SequencesTyped, StageCases DEF Take, Task
<1>7. ASSUME NEW p \in Packages, DispatchNotification(p)
      PROVE  HookTasks'
  <2>1. /\ spawned # <<>> /\ p \in Notifications
        /\ spawned' = Append(Tail(spawned), Task("hook", p))
    BY <1>7 DEF DispatchNotification, Starts
  <2>2. Task("hook", p) \in tasks /\ Task("hook", p).package = p
    BY SequencesTyped, StageCases DEF Task
  <2>. QED
    BY <1>2, <1>3, <2>1, <2>2
<1>8. ASSUME NEW p \in Packages,
             \/ Enqueue(p) \/ DispatchRequest(p) \/ DispatchUnhandled(p)
             \/ DispatchUnhooked(p) \/ StartHook(p) \/ DeserializeRaises(p)
      PROVE  spawned # <<>> /\ spawned' = Tail(spawned)
  BY <1>8 DEF Enqueue, DispatchRequest, DispatchUnhandled, DispatchUnhooked, StartHook,
              DeserializeRaises, Starts
<1>9. ASSUME \/ StreamEnds \/ UNCHANGED vars
             \/ \E p \in Packages : \/ HookReturns(p) \/ HookRaises(p)
                                    \/ WriteResponse(p) \/ WriteFails(p)
      PROVE  UNCHANGED spawned
  BY <1>9 DEF StreamEnds, vars, HookReturns, HookRaises, WriteResponse, WriteFails
<1>. QED
  BY <1>1, <1>4, <1>5, <1>6, <1>7, <1>8, <1>9 DEF Next, Step

LEMMA InLineInOrder ==
    ASSUME TypeOK, InLine
    PROVE  NotificationsInOrder /\ RequestsInOrder
<1>1. hooked \in Seq(Packages) /\ DOMAIN hooked = 1 .. Len(hooked) /\ 6 \in Stages
  BY SequencesTyped, StageCases
<1>2. /\ Hooked \subseteq Packages /\ Noted \subseteq Hooked /\ Asked \subseteq Hooked
      /\ Noted \subseteq Notifications /\ Asked \cap Notifications = {}
  BY DispatchAssumption DEF Hooked, Noted, Asked
<1>3. ASSUME NEW q \in Hooked, NEW j \in DOMAIN hooked, hooked[j] = q
      PROVE  <<q, 6, j>> \in Line /\ j \in Positions
  <2>1. j \in Positions
    BY <1>1 DEF Positions
  <2>2. Stands(q, 6, j)
    BY <1>1, <1>3 DEF Stands, Listed
  <2>. QED
    BY <1>1, <1>2, <2>1, <2>2, Standing
<1>4. ASSUME NEW p \in Hooked, Before(hooked, p, p)
      PROVE  FALSE
  <2>1. PICK i, j \in DOMAIN hooked : i < j /\ hooked[i] = p /\ hooked[j] = p
    BY <1>4 DEF Before
  <2>2. <<p, 6, i>> \in Line /\ <<p, 6, j>> \in Line /\ i \in Nat /\ j \in Nat
    BY <1>3, <2>1 DEF Positions
  <2>3. i = j
    BY <2>2 DEF InLine, Lawful
  <2>. QED
    BY <2>1, <2>2, <2>3
<1>5. ASSUME NEW q \in Hooked, Contains(hooked, q)
      PROVE  /\ Contains(arrived, q)
             /\ \A p \in Hooked : <<p, q>> \in Earlier => Before(hooked, p, q)
  <2>1. PICK j \in DOMAIN hooked : hooked[j] = q
    BY <1>1, <1>5 DEF Contains
  <2>2. <<q, 6, j>> \in Line /\ j \in Positions
    BY <1>3, <2>1
  <2>3. ASSUME NEW p \in Hooked, <<p, q>> \in Earlier
        PROVE  Before(hooked, p, q)
    <3>0. Before(arrived, p, q)
      BY <2>3 DEF Earlier
    <3>1. Contains(arrived, p)
      <4>1. arrived \in Seq(Packages)
        BY DEF TypeOK
      <4>. QED
        BY <3>0, <4>1 DEF Before, Contains
    <3>2. PICK x \in Line : x[1] = p
      BY <3>1 DEF InLine
    <3>3. /\ x \in Places /\ x = <<p, x[2], x[3]>> /\ x[2] \in Stages /\ x[3] \in Positions
          /\ Stands(p, x[2], x[3])
      BY <3>2, Places1 DEF Line
    <3>4. CASE x = <<q, 6, j>>
      <4>1. p = q
        BY <3>2, <3>4
      <4>. QED
        BY <1>2, <3>0, <4>1 DEF InLine
    <3>5. CASE x # <<q, 6, j>>
      <4>1. Ahead(x, <<q, 6, j>>)
        BY <2>2, <2>3, <3>2, <3>5 DEF InLine, Lawful
      <4>2. x[2] = 6 /\ x[3] < j
        BY <3>3, <4>1 DEF Ahead, Stages
      <4>3. x[3] \in DOMAIN hooked /\ hooked[x[3]] = p
        BY <1>1, <3>3, <4>2 DEF Stands, Listed
      <4>. QED
        BY <2>1, <4>2, <4>3 DEF Before
    <3>. QED
      BY <3>4, <3>5
  <2>. QED
    BY <1>1, <2>2, <2>3 DEF InLine
<1>6. NotificationsInOrder
  <2>1. \A p, q \in Noted : Before(arrived, p, q) => <<p, q>> \in Earlier
    BY <1>2 DEF Earlier
  <2>. QED
    BY <1>2, <1>4, <1>5, <2>1 DEF NotificationsInOrder
<1>7. RequestsInOrder
  <2>1. \A p \in Asked, q \in Hooked : Before(arrived, p, q) => <<p, q>> \in Earlier
    BY <1>2 DEF Earlier
  <2>. QED
    BY <1>2, <1>4, <1>5, <2>1 DEF RequestsInOrder
<1>. QED
  BY <1>6, <1>7

(* While the session lasts everybody is in line, and its order is that of the *)
(* hooks; a step that fails the session hands nothing to one.                 *)
LEMMA OrderInvariant == Spec => [](NotificationsInOrder /\ RequestsInOrder)
<1>. DEFINE Order == NotificationsInOrder /\ RequestsInOrder
<1>1. Init => InLine /\ HookTasks /\ Order
  BY DEF Init, InLine, HookTasks, Lawful, Line, Stands, Listed, Contains, Before, Earlier,
         NotificationsInOrder, RequestsInOrder, Places, Positions
<1>2. TypeOK /\ StalledOnlyWhenFull /\ HookTasks /\ (Running => InLine) /\ [Next]_vars
      => (Running' => InLine')
  <2>. SUFFICES ASSUME TypeOK, StalledOnlyWhenFull, HookTasks, Running => InLine, [Next]_vars
                PROVE  Running' => InLine'
    OBVIOUS
  <2>1. Running' => Running
    BY DEF Next, Step, vars, Running, Take, StreamEnds, ReadPackage, Enqueue, DispatchRequest,
           DispatchUnhandled, DispatchNotification, DispatchUnhooked, StartHook, HookReturns,
           HookRaises, WriteResponse, WriteFails, DeserializeRaises
  <2>. QED
    BY <2>1, LineKept
<1>3. TypeOK /\ InLine => Order
  BY InLineInOrder
<1>4. TypeOK /\ HookTasks /\ [Next]_vars => HookTasks'
  BY HookTasksKept
<1>5. Order /\ [Next]_vars => Running' \/ Order'
  <2>. SUFFICES ASSUME Order, [Next]_vars, ~ Running'
                PROVE  UNCHANGED <<hooks, arrived, hooked>>
    BY DEF NotificationsInOrder, RequestsInOrder, Noted, Asked, Hooked, Before, Contains
  <2>1. CASE \E p \in Packages : \/ DispatchUnhandled(p) \/ DispatchNotification(p)
                                 \/ DeserializeRaises(p) \/ HookRaises(p) \/ WriteFails(p)
    BY <2>1 DEF DispatchUnhandled, DispatchNotification, DeserializeRaises, HookRaises,
                WriteFails
  <2>2. CASE \E p \in Packages : \/ ReadPackage(p) \/ Enqueue(p) \/ DispatchRequest(p)
                                 \/ DispatchUnhooked(p) \/ StartHook(p)
                                 \/ HookReturns(p) \/ WriteResponse(p)
    BY <2>2 DEF Running, ReadPackage, Enqueue, DispatchRequest, DispatchUnhooked, StartHook,
                HookReturns, WriteResponse
  <2>3. CASE Take \/ StreamEnds \/ UNCHANGED vars
    BY <2>3 DEF Take, StreamEnds, vars
  <2>. QED
    BY <2>1, <2>2, <2>3 DEF Next, Step
<1>. HIDE DEF Order
<1>6. Spec => []Order
  BY <1>1, <1>2, <1>3, <1>4, <1>5, TypesCorrect, NoneStrandedBesideRoom, PTL DEF Spec
<1>. QED
  BY <1>6 DEF Order

(* A hook never sees a later notification first, whatever the registry and    *)
(* the capacity of the channel, and however many packages crowd it.           *)
THEOREM OrderKept == Spec => []NotificationsInOrder
  BY OrderInvariant, PTL

(* No request is carried out behind what was read after it, none twice.       *)
THEOREM RequestsFirst == Spec => []RequestsInOrder
  BY OrderInvariant, PTL
=============================================================================
