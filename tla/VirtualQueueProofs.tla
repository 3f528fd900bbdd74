------------------------- MODULE VirtualQueueProofs -------------------------
(***************************************************************************)
(* Theorems about VirtualQueue, for any number of users and requests and    *)
(* every interleaving of their Redis commands.                             *)
(***************************************************************************)
EXTENDS VirtualQueue, FiniteSetTheorems, WellFoundedInduction, TLAPS

\* The waiters stand in one line: of any two exactly one came first.
OneLine ==
  /\ \A u, v \in queue : u = v \/ <<u, v>> \in ahead \/ <<v, u>> \in ahead
  /\ \A u \in queue : <<u, u>> \notin ahead
  /\ \A u, v, x \in queue : <<u, v>> \in ahead /\ <<v, x>> \in ahead => <<u, x>> \in ahead

Typed == TypeOK /\ OneLine

-----------------------------------------------------------------------------
(* A finite line has an end.                                               *)

\* Among finitely many elements that R orders, one has none after it.
LEMMA LastExists ==
  ASSUME NEW P, IsFiniteSet(P), P # {}, NEW R,
         \A u \in P : <<u, u>> \notin R,
         \A u, v, x \in P : <<u, v>> \in R /\ <<v, x>> \in R => <<u, x>> \in R
  PROVE  \E v \in P : \A u \in P : <<v, u>> \notin R
<1> DEFINE After(v) == {u \in P : <<v, u>> \in R}
           T == {After(v) : v \in P}
<1>1. T \subseteq FiniteSubsetsOf(P) /\ T # {}
  <2>1. \A v \in P : After(v) \in SUBSET P /\ IsFiniteSet(After(v))
    BY FS_Subset
  <2>2. \E v \in P : After(v) \in T
    OBVIOUS
  <2> HIDE DEF After
  <2> QED BY <2>1, <2>2 DEF FiniteSubsetsOf
<1>2. PICK X \in T : \A Y \in T : <<Y, X>> \notin StrictSubsetOrdering(P)
  <2> HIDE DEF T
  <2> QED BY <1>1, WFMin, FS_StrictSubsetOrderingWellFounded
<1>3. PICK v \in P : X = After(v)
  BY <1>2
<1>4. SUFFICES ASSUME NEW u \in P, <<v, u>> \in R PROVE FALSE
  OBVIOUS
<1>5. After(u) \subseteq After(v) /\ After(u) # After(v)
  BY <1>4
<1>6. After(u) \in T /\ After(u) \subseteq P /\ After(v) \subseteq P
  OBVIOUS
<1> HIDE DEF After
<1> QED BY <1>2, <1>3, <1>5, <1>6 DEF StrictSubsetOrdering

\* And one has none before it.
LEMMA FirstExists ==
  ASSUME NEW P, IsFiniteSet(P), P # {}, NEW R,
         \A u \in P : <<u, u>> \notin R,
         \A u, v, x \in P : <<u, v>> \in R /\ <<v, x>> \in R => <<u, x>> \in R
  PROVE  \E v \in P : \A u \in P : <<u, v>> \notin R
<1> DEFINE Q == {p \in P \X P : <<p[2], p[1]>> \in R}
<1>1. \A u, v \in P : <<u, v>> \in Q <=> <<v, u>> \in R
  OBVIOUS
<1> HIDE DEF Q
<1>2. \A u \in P : <<u, u>> \notin Q
  BY <1>1
<1>3. \A u, v, x \in P : <<u, v>> \in Q /\ <<v, x>> \in Q => <<u, x>> \in Q
  BY <1>1
<1>4. \E v \in P : \A u \in P : <<v, u>> \notin Q
  BY <1>2, <1>3, LastExists
<1> QED BY <1>1, <1>4

-----------------------------------------------------------------------------
(* What fillSlotsLua pops.                                                 *)

LEMMA FullMonotone ==
  ASSUME TypeOK, NEW P \in SUBSET queue, NEW Q \in SUBSET queue, P \subseteq Q, Full(P)
  PROVE  Full(Q)
<1> DEFINE X == activeMembers \cup Waiters(P)
           Y == activeMembers \cup Waiters(Q)
<1>1. X \subseteq Y /\ Y \subseteq Users
  BY DEF TypeOK, Waiters
<1>2. IsFiniteSet(Y)
  BY <1>1, UsersAssumption, FS_Subset
<1>3. IsFiniteSet(X) /\ Cardinality(X) <= Cardinality(Y)
  BY <1>1, <1>2, FS_Subset
<1>4. Cardinality(X) \in Nat /\ Cardinality(Y) \in Nat
  BY <1>2, <1>3, FS_CardinalityType
<1>5. Cardinality(X) >= MaxActive
  BY DEF Full
<1>6. Cardinality(Y) >= MaxActive
  BY <1>3, <1>4, <1>5, LimitsAssumption
<1> QED BY <1>6 DEF Full

\* Whoever stands before a popped waiter is popped too.
LEMMA PoppedFront ==
  ASSUME Typed, NEW u \in Popped, NEW v \in queue, <<v, u>> \in ahead
  PROVE  v \in Popped
<1>1. Before(v) \subseteq Before(u) /\ Before(u) \in SUBSET queue /\ Before(v) \in SUBSET queue
  BY DEF Typed, OneLine, Before, Popped
<1>2. ~Full(Before(u))
  BY DEF Popped
<1>3. ~Full(Before(v))
  BY <1>1, <1>2, FullMonotone DEF Typed
<1> QED BY <1>3 DEF Popped

\* The promoted waiters fit into the room.
LEMMA PoppedFits ==
  ASSUME Typed, RoomWithinLimit
  PROVE  Cardinality(activeMembers \cup Waiters(Popped)) <= MaxActive
<1>1. CASE Popped = {}
  <2>1. activeMembers \cup Waiters(Popped) = activeMembers
    BY <1>1 DEF Waiters
  <2> QED BY <2>1 DEF RoomWithinLimit
<1>2. CASE Popped # {}
  <2>1. IsFiniteSet(Popped) /\ Popped \subseteq queue
    BY UsersAssumption, FS_Subset DEF Popped, Typed, TypeOK
  <2>2. PICK v \in Popped : \A u \in Popped : <<v, u>> \notin ahead
    <3>1. \A u \in Popped : <<u, u>> \notin ahead
      BY <2>1 DEF Typed, OneLine
    <3>2. \A x, y, z \in Popped : <<x, y>> \in ahead /\ <<y, z>> \in ahead => <<x, z>> \in ahead
      BY <2>1 DEF Typed, OneLine
    <3> QED BY <1>2, <2>1, <3>1, <3>2, LastExists
  <2> DEFINE X == activeMembers \cup Waiters(Before(v))
             Y == activeMembers \cup Waiters(Popped)
  <2>3. X \subseteq Users /\ Y \subseteq X \cup {v}
    BY <2>1, <2>2 DEF Typed, TypeOK, OneLine, Before, Waiters
  <2>4. IsFiniteSet(X)
    BY <2>3, UsersAssumption, FS_Subset
  <2>5. IsFiniteSet(X \cup {v}) /\ Cardinality(X \cup {v}) <= Cardinality(X) + 1
    BY <2>4, FS_AddElement, FS_CardinalityType
  <2>6. IsFiniteSet(Y) /\ Cardinality(Y) <= Cardinality(X \cup {v})
    BY <2>3, <2>5, FS_Subset
  <2>7. /\ Cardinality(X) \in Nat /\ Cardinality(Y) \in Nat
        /\ Cardinality(X \cup {v}) \in Nat
    BY <2>4, <2>5, <2>6, FS_CardinalityType
  <2>8. ~(Cardinality(X) >= MaxActive)
    BY DEF Popped, Full
  <2>9. Cardinality(Y) <= MaxActive
    <3> HIDE DEF X, Y
    <3> QED BY <2>5, <2>6, <2>7, <2>8, LimitsAssumption
  <2> QED BY <2>9
<1> QED BY <1>1, <1>2

\* Either the whole line is popped or the room is full afterwards.
LEMMA PoppedFills ==
  ASSUME Typed, Popped # queue
  PROVE  Full(Popped)
<1> DEFINE Rest == queue \ Popped
<1>1. IsFiniteSet(Rest) /\ Rest # {}
  BY UsersAssumption, FS_Subset DEF Popped, Typed, TypeOK
<1>2. PICK v \in Rest : \A u \in Rest : <<u, v>> \notin ahead
  <2>1. \A u \in Rest : <<u, u>> \notin ahead
    BY DEF Typed, OneLine
  <2>2. \A x, y, z \in Rest : <<x, y>> \in ahead /\ <<y, z>> \in ahead => <<x, z>> \in ahead
    BY DEF Typed, OneLine
  <2> QED BY <1>1, <2>1, <2>2, FirstExists
<1>3. Before(v) \subseteq Popped
  BY <1>2 DEF Before
<1>4. Full(Before(v))
  BY <1>2 DEF Popped
<1>5. Popped \in SUBSET queue /\ Before(v) \in SUBSET queue
  BY DEF Popped, Before
<1> QED BY <1>3, <1>4, <1>5, FullMonotone DEF Typed

-----------------------------------------------------------------------------
(* Requests, locks and counters keep their types.                          *)

RequestsTyped ==
  /\ opLock \in 0 .. LockTTL
  /\ tx \in [Requests -> Request \cup {Idle}]
  /\ late \subseteq Command
  /\ faults \in 0 .. MaxFaults

LEMMA GotoTyped ==
  ASSUME tx \in [Requests -> Request \cup {Idle}], NEW w \in Requests,
         NEW t \in Request \cup {Idle}, Goto(w, t)
  PROVE  tx' \in [Requests -> Request \cup {Idle}]
BY DEF Goto

LEMMA GotoRequests ==
  ASSUME TypeOK, NEW w \in Requests, NEW t, Goto(w, t)
  PROVE  tx'[w] = t /\ \A v \in Requests \ {w} : tx'[v] = tx[v]
BY DEF TypeOK, Goto

\* A goroutine that is not idle serves a user's request.
LEMMA BusyTyped ==
  ASSUME tx \in [Requests -> Request \cup {Idle}], NEW w \in Requests, tx[w].at # "idle"
  PROVE  tx[w] \in Request
BY DEF Idle

LEMMA AtTyped ==
  ASSUME NEW w \in Requests, tx[w] \in Request, NEW stage \in Stages
  PROVE  /\ At(w, stage) \in Request
         /\ \A part \in {"prune", "serve", "position"} :
              [At(w, stage) EXCEPT !.part = part] \in Request
BY DEF At, Request

LEMMA AnswerTyped ==
  ASSUME NEW w \in Requests, tx[w] \in Request,
         NEW a \in {"enter", "wait", "refused", "notInQueue", "left", "error"}
  PROVE  Answer(w, a) \in Request
BY DEF Answer, Request, Stages

LEMMA SentTyped ==
  ASSUME NEW w \in Requests, tx[w] \in Request, Writes(w)
  PROVE  Sent(w) \in Command
<1>1. tx[w].at \in Stages /\ tx[w].user \in Users /\ tx[w].stale \subseteq Users
  BY DEF Request
<1> QED BY <1>1 DEF Sent, Command

LEMMA NextStageTyped ==
  ASSUME NEW w \in Requests, tx[w] \in Request
  PROVE  NotInRoom(w) \in Request /\ InRoom(w) \in Request /\ AfterFill(w) \in Request
<1>1. NotInRoom(w) \in Request
  BY AtTyped, AnswerTyped DEF NotInRoom, Stages
<1>2. InRoom(w) \in Request
  BY AtTyped, AnswerTyped DEF InRoom, Stages
<1>3. AfterFill(w) \in Request
  BY AtTyped, AnswerTyped DEF AfterFill, Stages
<1> QED BY <1>1, <1>2, <1>3

LEMMA ProceedIsBusy ==
  ASSUME NEW w \in Requests, Proceed(w)
  PROVE  Inside(w)
BY DEF Inside, Proceed, ListQueue, CheckQueue, DropQueue, ListActive, CheckActive, DropActive,
       Fill, JoinRefresh, JoinEnter, JoinWait, SlotKey, SlotMember, SlotGhost, RefreshActive,
       QueueKey, DropMyself, RefreshQueue, Rank, RemoveUser, Unlock

LEMMA RequestsStep ==
  ASSUME TypeOK, [Next]_vars
  PROVE  RequestsTyped'
<1> USE DEF RequestsTyped
<1>0. RequestsTyped
  BY DEF TypeOK
<1>1. CASE UNCHANGED vars
  BY <1>0, <1>1 DEF vars
<1>2. CASE Tick
  BY <1>0, <1>2, LimitsAssumption DEF Tick, OneLess
<1>3. ASSUME NEW w \in Requests, NEW op \in Operations, NEW u \in Users, Begin(w, op, u)
      PROVE  RequestsTyped'
  <2>1. [Idle EXCEPT !.at = "lock", !.op = op, !.user = u] \in Request
    BY DEF Idle, Request, Stages
  <2> QED BY <1>0, <1>3, <2>1, GotoTyped DEF Begin
<1>4. ASSUME NEW w \in Requests, Acquire(w) PROVE RequestsTyped'
  <2> DEFINE part == IF tx[w].op \in Prunes THEN "prune" ELSE "serve"
             t == [tx[w] EXCEPT !.at = FirstStage(tx[w].op), !.part = part]
  <2>1. tx[w] \in Request /\ FirstStage(tx[w].op) \in Stages
    BY <1>0, <1>4, BusyTyped DEF Acquire, FirstStage, Stages
  <2>2. t \in Request
    BY <2>1 DEF Request
  <2>3. Goto(w, t) /\ opLock' = LockTTL /\ UNCHANGED <<late, faults>>
    BY <1>4 DEF Acquire
  <2> HIDE DEF t
  <2> QED BY <1>0, <2>2, <2>3, GotoTyped, LimitsAssumption
<1>5. ASSUME NEW w \in Requests, Proceed(w) PROVE RequestsTyped'
  <2>0. tx[w] \in Request
    BY <1>0, <1>5, ProceedIsBusy, BusyTyped DEF Inside
  <2>1. CASE Unlock(w)
    BY <1>0, <2>1, GotoTyped, LimitsAssumption DEF Unlock
  <2>2. CASE ListQueue(w)
    <3>1. [tx[w] EXCEPT !.at = "checkQueue", !.todo = queue, !.stale = {}] \in Request
      BY <2>0 DEF Request, Stages, TypeOK
    <3> QED BY <1>0, <2>2, <3>1, GotoTyped DEF ListQueue
  <2>3. CASE ListActive(w)
    <3>1. [tx[w] EXCEPT !.at = "checkActive", !.todo = activeMembers, !.stale = {}] \in Request
      BY <2>0 DEF Request, Stages, TypeOK
    <3> QED BY <1>0, <2>3, <3>1, GotoTyped DEF ListActive
  <2>4. ASSUME NEW session, Check(w, session) PROVE RequestsTyped'
    <3>1. PICK m \in tx[w].todo :
            Goto(w, [tx[w] EXCEPT !.todo = @ \ {m},
                                  !.stale = IF session[m] = 0 THEN @ \cup {m} ELSE @])
      BY <2>4 DEF Check
    <3>2. [tx[w] EXCEPT !.todo = @ \ {m},
                        !.stale = IF session[m] = 0 THEN @ \cup {m} ELSE @] \in Request
      BY <2>0 DEF Request
    <3>3. tx' \in [Requests -> Request \cup {Idle}]
      BY <1>0, <3>1, <3>2, GotoTyped
    <3> QED BY <1>0, <2>4, <3>3 DEF Check
  <2>5. CASE DropQueue(w)
    <3>1. [tx[w] EXCEPT !.at = "listActive", !.stale = {}] \in Request
      BY <2>0 DEF Request, Stages
    <3> QED BY <1>0, <2>5, <3>1, GotoTyped DEF DropQueue
  <2>6. CASE DropActive(w)
    <3>1. [tx[w] EXCEPT !.at = "fill", !.stale = {}] \in Request
      BY <2>0 DEF Request, Stages
    <3> QED BY <1>0, <2>6, <3>1, GotoTyped DEF DropActive
  <2>7. CASE Fill(w)
    BY <1>0, <2>0, <2>7, NextStageTyped, GotoTyped DEF Fill
  <2>8. CASE JoinRefresh(w) \/ JoinEnter(w) \/ RefreshActive(w)
    BY <1>0, <2>0, <2>8, AnswerTyped, GotoTyped DEF JoinRefresh, JoinEnter, RefreshActive
  <2>9. CASE JoinWait(w)
    BY <1>0, <2>0, <2>9, AtTyped, GotoTyped DEF JoinWait, Stages
  <2>10. CASE SlotKey(w) \/ SlotMember(w) \/ SlotGhost(w)
    <3>1. At(w, "slotMember") \in Request /\ At(w, "slotGhost") \in Request
      BY <2>0, AtTyped DEF Stages
    <3>2. CASE SlotKey(w)
      BY <1>0, <2>0, <3>1, <3>2, NextStageTyped, GotoTyped DEF SlotKey
    <3>3. CASE SlotMember(w)
      BY <1>0, <2>0, <3>1, <3>3, NextStageTyped, GotoTyped DEF SlotMember
    <3>4. CASE SlotGhost(w)
      BY <1>0, <2>0, <3>4, NextStageTyped, GotoTyped DEF SlotGhost
    <3> QED BY <2>10, <3>2, <3>3, <3>4
  <2>11. CASE QueueKey(w)
    <3>1. \A stage \in {"dropMyself", "refreshQueue", "rank"} : At(w, stage) \in Request
      BY <2>0, AtTyped DEF Stages
    <3>2. \E stage \in {"dropMyself", "refreshQueue", "rank"} : Goto(w, At(w, stage))
      BY <2>11 DEF QueueKey
    <3> QED BY <1>0, <2>11, <3>1, <3>2, GotoTyped DEF QueueKey
  <2>12. CASE DropMyself(w)
    BY <1>0, <2>0, <2>12, AnswerTyped, GotoTyped DEF DropMyself
  <2>13. CASE RefreshQueue(w) \/ RemoveUser(w)
    BY <1>0, <2>0, <2>13, AtTyped, GotoTyped DEF RefreshQueue, RemoveUser, Stages
  <2>14. CASE Rank(w)
    <3>1. \E a \in {"wait", "notInQueue"} : Goto(w, Answer(w, a))
      BY <2>14 DEF Rank
    <3> QED BY <1>0, <2>0, <2>14, <3>1, AnswerTyped, GotoTyped DEF Rank
  <2> QED BY <1>5, <2>1, <2>2, <2>3, <2>4, <2>5, <2>6, <2>7, <2>8, <2>9, <2>10, <2>11,
             <2>12, <2>13, <2>14 DEF Proceed, CheckQueue, CheckActive
<1>6. ASSUME NEW w \in Requests, Fail(w) PROVE RequestsTyped'
  <2>1. Failing => faults' \in 0 .. MaxFaults
    BY <1>0, LimitsAssumption DEF Failing
  <2>2. tx[w] \in Request
    BY <1>0, <1>6, BusyTyped DEF Fail, GiveUp, AcquireUnseen, Fault, FaultIgnored, Abandon, TimeOut,
                                 Writes, Inside
  <2>3. CASE GiveUp(w) \/ Abandon(w)
    BY <1>0, <2>1, <2>3, GotoTyped DEF GiveUp, Abandon
  <2>4. CASE AcquireUnseen(w)
    BY <1>0, <2>1, <2>2, <2>4, GotoTyped, LimitsAssumption DEF AcquireUnseen
  <2>5. CASE Fault(w)
    BY <1>0, <2>1, <2>2, <2>5, AnswerTyped, GotoTyped DEF Fault
  <2>6. CASE FaultIgnored(w)
    BY <1>0, <2>1, <2>2, <2>6, NextStageTyped, AnswerTyped, GotoTyped DEF FaultIgnored
  <2>7. CASE TimeOut(w)
    <3>1. Sent(w) \in Command
      BY <2>2, <2>7, SentTyped DEF TimeOut
    <3>2. PICK t \in {tx[w], Idle, Answer(w, "error")} : Goto(w, t)
      BY <2>7 DEF TimeOut
    <3>3. tx' \in [Requests -> Request \cup {Idle}]
      BY <1>0, <2>2, <3>2, AnswerTyped, GotoTyped
    <3> QED BY <1>0, <2>1, <2>7, <3>1, <3>3 DEF TimeOut
  <2> QED BY <1>6, <2>3, <2>4, <2>5, <2>6, <2>7 DEF Fail
<1>7. ASSUME NEW c \in late, Arrive(c) PROVE RequestsTyped'
  BY <1>0, <1>7, LimitsAssumption DEF Arrive
<1> QED BY <1>1, <1>2, <1>3, <1>4, <1>5, <1>6, <1>7 DEF Next

-----------------------------------------------------------------------------
(* What the keys keep, even when operations overlap.                       *)

KeysTyped ==
  /\ activeMembers \subseteq Users
  /\ activeSession \in [Users -> 0 .. SessionTTL]
  /\ queue \subseteq Users
  /\ ahead \subseteq queue \X queue
  /\ queueSession \in [Users -> 0 .. SessionTTL]

\* Commands arrive late only if an operation may outlast its lock.
OnTime == late = {} \/ Overstay

\* The inductive invariant of every interleaving.
Kept == Typed /\ RoomWithinLimit /\ AdmittedDoNotWait /\ OnTime

\* Removing waiters leaves the others in one line.
LEMMA DequeueKeepsLine ==
  ASSUME KeysTyped, OneLine, NEW S, Dequeue(S)
  PROVE  /\ queue' = queue \ S
         /\ (queue \subseteq Users)' /\ (ahead \subseteq queue \X queue)' /\ OneLine'
BY DEF KeysTyped, OneLine, Dequeue

\* A new waiter goes to the end of the line, an old one stays.
LEMMA EnqueueKeepsLine ==
  ASSUME KeysTyped, OneLine, NEW u \in Users, Enqueue(u)
  PROVE  /\ queue' = queue \cup {u}
         /\ (queue \subseteq Users)' /\ (ahead \subseteq queue \X queue)' /\ OneLine'
<1>1. CASE u \in queue
  <2>1. queue' = queue /\ ahead' = ahead
    BY <1>1 DEF Enqueue
  <2> QED BY <1>1, <2>1 DEF KeysTyped, OneLine
<1>2. CASE u \notin queue
  <2>1. queue' = queue \cup {u} /\ ahead' = ahead \cup (queue \X {u})
    BY <1>2 DEF Enqueue
  <2>2. (queue \subseteq Users)' /\ (ahead \subseteq queue \X queue)'
    BY <2>1 DEF KeysTyped
  <2>3. \A v, x \in queue' : <<v, x>> \in ahead' <=> <<v, x>> \in ahead \/ (v \in queue /\ x = u)
    BY <2>1
  <2>4. \A v \in queue : <<v, u>> \notin ahead /\ <<u, v>> \notin ahead /\ <<u, u>> \notin ahead
    BY <1>2 DEF KeysTyped
  <2>5. OneLine'
    <3>1. \A v, x \in queue' : v = x \/ <<v, x>> \in ahead' \/ <<x, v>> \in ahead'
      BY <2>1, <2>3 DEF OneLine
    <3>2. ASSUME NEW v \in queue' PROVE <<v, v>> \notin ahead'
      <4>1. <<v, v>> \in ahead' <=> <<v, v>> \in ahead \/ (v \in queue /\ v = u)
        BY <2>3
      <4>2. <<v, v>> \in ahead => v \in queue
        BY DEF KeysTyped
      <4> QED BY <1>2, <4>1, <4>2 DEF OneLine
    <3>3. ASSUME NEW v \in queue', NEW x \in queue', NEW y \in queue',
                 <<v, x>> \in ahead', <<x, y>> \in ahead'
          PROVE  <<v, y>> \in ahead'
      <4>1. <<v, x>> \in ahead \/ (v \in queue /\ x = u)
        BY <2>3, <3>3
      <4>2. <<x, y>> \in ahead \/ (x \in queue /\ y = u)
        BY <2>3, <3>3
      <4>3. x # u
        BY <1>2, <3>3, <4>2, <2>4 DEF KeysTyped
      <4>4. <<v, x>> \in ahead /\ v \in queue /\ x \in queue
        BY <4>1, <4>3 DEF KeysTyped
      <4>5. CASE y = u
        BY <2>3, <3>3, <4>4, <4>5
      <4>6. CASE y # u
        BY <2>1, <2>3, <3>3, <4>2, <4>4, <4>6 DEF OneLine
      <4> QED BY <4>5, <4>6
    <3> QED BY <3>1, <3>2, <3>3 DEF OneLine
  <2> QED BY <2>1, <2>2, <2>5
<1> QED BY <1>1, <1>2

\* The limit holds for whatever part of the old room is left.
LEMMA SmallerRoomFits ==
  ASSUME RoomWithinLimit, KeysTyped, activeMembers' \subseteq activeMembers
  PROVE  RoomWithinLimit'
<1>1. IsFiniteSet(activeMembers)
  BY UsersAssumption, FS_Subset DEF KeysTyped
<1>2. Cardinality(activeMembers') <= Cardinality(activeMembers) /\ IsFiniteSet(activeMembers')
  BY <1>1, FS_Subset
<1>3. Cardinality(activeMembers) \in Nat /\ Cardinality(activeMembers') \in Nat
  BY <1>1, <1>2, FS_CardinalityType
<1> QED BY <1>2, <1>3, LimitsAssumption DEF RoomWithinLimit

KeysKept == KeysTyped /\ OneLine /\ RoomWithinLimit /\ AdmittedDoNotWait

LEMMA UserServed ==
  ASSUME TypeOK, NEW w \in Requests, Proceed(w)
  PROVE  tx[w].user \in Users
<1>1. tx[w] \in Request
  BY ProceedIsBusy, BusyTyped DEF TypeOK, Inside
<1> QED BY <1>1 DEF Request

\* Whatever changes the keys, time aside, is one of these.
Effect ==
  \/ \E S : RemoveWaiters(S) \/ RemoveMembers(S)
  \/ FillSlots
  \/ \E u \in Users :
       \/ StayInside(u) \/ Enter(u) \/ StandInLine(u)
       \/ DropSession(u) \/ ExtendSession(u) \/ ExtendWait(u) \/ Forget(u)

LEMMA EffectKeeps ==
  ASSUME Kept, Effect
  PROVE  KeysKept'
<1>0. KeysKept /\ TypeOK
  BY DEF Kept, Typed, TypeOK, KeysKept, KeysTyped
<1>1. CASE FillSlots
  <2> DEFINE P == Waiters(Popped)
  <2>1. /\ activeMembers' = activeMembers \cup P
        /\ activeSession' = [u \in Users |-> IF u \in P THEN SessionTTL ELSE activeSession[u]]
        /\ queueSession' = [u \in Users |-> IF u \in P THEN 0 ELSE queueSession[u]]
        /\ Dequeue(Popped)
    BY <1>1 DEF FillSlots
  <2>2. P \subseteq Popped /\ Popped \subseteq Users
    BY <1>0 DEF Waiters, Popped, TypeOK
  <2>3. Cardinality(activeMembers \cup P) <= MaxActive
    BY PoppedFits DEF Kept
  <2> HIDE DEF P
  <2>4. /\ queue' = queue \ Popped
        /\ (queue \subseteq Users)' /\ (ahead \subseteq queue \X queue)' /\ OneLine'
    BY <1>0, <2>1, DequeueKeepsLine DEF KeysKept
  <2>5. KeysTyped'
    BY <1>0, <2>1, <2>2, <2>4, LimitsAssumption DEF KeysKept, KeysTyped
  <2>6. AdmittedDoNotWait'
    BY <1>0, <2>1, <2>2, <2>4 DEF KeysKept, KeysTyped, AdmittedDoNotWait
  <2>7. RoomWithinLimit'
    BY <2>1, <2>3 DEF RoomWithinLimit
  <2> QED BY <2>4, <2>5, <2>6, <2>7 DEF KeysKept
<1>2. ASSUME NEW S, RemoveWaiters(S) PROVE KeysKept'
  <2>1. Dequeue(S) /\ UNCHANGED <<activeMembers, activeSession, queueSession>>
    BY <1>2 DEF RemoveWaiters
  <2>2. /\ queue' = queue \ S
        /\ (queue \subseteq Users)' /\ (ahead \subseteq queue \X queue)' /\ OneLine'
    BY <1>0, <2>1, DequeueKeepsLine DEF KeysKept
  <2> QED BY <1>0, <2>1, <2>2 DEF KeysKept, KeysTyped, RoomWithinLimit, AdmittedDoNotWait
<1>3. ASSUME NEW S, RemoveMembers(S) PROVE KeysKept'
  <2>1. activeMembers' \subseteq activeMembers
        /\ UNCHANGED <<activeSession, queue, ahead, queueSession>>
    BY <1>3 DEF RemoveMembers
  <2>2. RoomWithinLimit'
    BY <1>0, <2>1, SmallerRoomFits DEF KeysKept
  <2> QED BY <1>0, <2>1, <2>2 DEF KeysKept, KeysTyped, OneLine, AdmittedDoNotWait
<1>4. ASSUME NEW u \in Users, StayInside(u) \/ ExtendSession(u) \/ DropSession(u) PROVE KeysKept'
  <2>1. UNCHANGED <<activeMembers, queue, ahead, queueSession>>
    BY <1>4 DEF StayInside, ExtendSession, DropSession
  <2>2. PICK n \in 0 .. SessionTTL :
          /\ activeSession' = [activeSession EXCEPT ![u] = n]
          /\ n > 0 => activeSession[u] > 0
    <3>1. SessionTTL \in 0 .. SessionTTL /\ 0 \in 0 .. SessionTTL /\ ~(0 > 0)
      BY LimitsAssumption
    <3>2. CASE StayInside(u)
      BY <3>1, <3>2 DEF StayInside, InTheRoom
    <3>3. CASE ExtendSession(u)
      <4>1. activeSession' =
              [activeSession EXCEPT ![u] = IF activeSession[u] > 0 THEN SessionTTL ELSE 0]
        BY <3>3 DEF ExtendSession
      <4>2. CASE activeSession[u] > 0
        BY <3>1, <4>1, <4>2
      <4>3. CASE ~(activeSession[u] > 0)
        BY <3>1, <4>1, <4>3
      <4> QED BY <4>2, <4>3
    <3>4. CASE DropSession(u)
      BY <3>1, <3>4 DEF DropSession
    <3> QED BY <1>4, <3>2, <3>3, <3>4
  <2>3. KeysTyped' /\ AdmittedDoNotWait'
    BY <1>0, <2>1, <2>2 DEF KeysKept, KeysTyped, AdmittedDoNotWait
  <2>4. OneLine' /\ RoomWithinLimit'
    BY <1>0, <2>1 DEF KeysKept, OneLine, RoomWithinLimit
  <2> QED BY <2>3, <2>4 DEF KeysKept
<1>5. ASSUME NEW u \in Users, Enter(u) PROVE KeysKept'
  <2>1. /\ ~Full({})
        /\ activeMembers' = activeMembers \cup {u}
        /\ activeSession' = [activeSession EXCEPT ![u] = SessionTTL]
        /\ queueSession' = [queueSession EXCEPT ![u] = 0]
        /\ Dequeue({u})
    BY <1>5 DEF Enter
  <2>2. /\ queue' = queue \ {u}
        /\ (queue \subseteq Users)' /\ (ahead \subseteq queue \X queue)' /\ OneLine'
    BY <1>0, <2>1, DequeueKeepsLine DEF KeysKept
  <2>3. KeysTyped' /\ AdmittedDoNotWait'
    BY <1>0, <2>1, <2>2, LimitsAssumption DEF KeysKept, KeysTyped, AdmittedDoNotWait
  <2>4. RoomWithinLimit'
    <3>1. IsFiniteSet(activeMembers) /\ Cardinality(activeMembers) \in Nat
      BY <1>0, UsersAssumption, FS_Subset, FS_CardinalityType DEF TypeOK
    <3>2. ~(Cardinality(activeMembers) >= MaxActive)
      <4>1. activeMembers \cup Waiters({}) = activeMembers
        BY DEF Waiters
      <4> QED BY <2>1, <4>1 DEF Full
    <3>3. Cardinality(activeMembers \cup {u}) <= Cardinality(activeMembers) + 1
      <4>1. Cardinality(activeMembers \cup {u}) =
              IF u \in activeMembers THEN Cardinality(activeMembers)
                                     ELSE Cardinality(activeMembers) + 1
        BY <3>1, FS_AddElement
      <4> QED BY <3>1, <4>1
    <3>4. Cardinality(activeMembers \cup {u}) \in Nat
      BY <3>1, FS_AddElement, FS_CardinalityType
    <3> QED BY <2>1, <3>1, <3>2, <3>3, <3>4, LimitsAssumption DEF RoomWithinLimit
  <2> QED BY <2>2, <2>3, <2>4 DEF KeysKept
<1>6. ASSUME NEW u \in Users, StandInLine(u) PROVE KeysKept'
  <2>1. /\ activeSession' = [activeSession EXCEPT ![u] = 0]
        /\ queueSession' = [queueSession EXCEPT ![u] = SessionTTL]
        /\ Enqueue(u)
        /\ activeMembers' = activeMembers
    BY <1>6 DEF StandInLine
  <2>2. /\ queue' = queue \cup {u}
        /\ (queue \subseteq Users)' /\ (ahead \subseteq queue \X queue)' /\ OneLine'
    BY <1>0, <2>1, EnqueueKeepsLine DEF KeysKept
  <2>3. KeysTyped' /\ AdmittedDoNotWait'
    BY <1>0, <2>1, <2>2, LimitsAssumption DEF KeysKept, KeysTyped, AdmittedDoNotWait
  <2> QED BY <1>0, <2>1, <2>2, <2>3 DEF KeysKept, RoomWithinLimit
<1>7. ASSUME NEW u \in Users, ExtendWait(u) PROVE KeysKept'
  <2>1. /\ queueSession' = [queueSession EXCEPT ![u] = IF queueSession[u] > 0 THEN SessionTTL ELSE 0]
        /\ UNCHANGED <<activeMembers, activeSession, queue, ahead>>
    BY <1>7 DEF ExtendWait
  <2>2. queueSession' \in [Users -> 0 .. SessionTTL]
    BY <1>0, <2>1, LimitsAssumption DEF TypeOK
  <2> QED BY <1>0, <2>1, <2>2
          DEF KeysKept, KeysTyped, OneLine, RoomWithinLimit, AdmittedDoNotWait
<1>8. ASSUME NEW u \in Users, Forget(u) PROVE KeysKept'
  <2>1. /\ activeMembers' = activeMembers \ {u}
        /\ activeSession' = [activeSession EXCEPT ![u] = 0]
        /\ queueSession' = [queueSession EXCEPT ![u] = 0]
        /\ Dequeue({u})
    BY <1>8 DEF Forget
  <2>2. /\ queue' = queue \ {u}
        /\ (queue \subseteq Users)' /\ (ahead \subseteq queue \X queue)' /\ OneLine'
    BY <1>0, <2>1, DequeueKeepsLine DEF KeysKept
  <2>3. KeysTyped' /\ AdmittedDoNotWait'
    BY <1>0, <2>1, <2>2, LimitsAssumption DEF KeysKept, KeysTyped, AdmittedDoNotWait
  <2>4. RoomWithinLimit'
    BY <1>0, <2>1, SmallerRoomFits DEF KeysKept
  <2> QED BY <2>2, <2>3, <2>4 DEF KeysKept
<1> QED BY <1>1, <1>2, <1>3, <1>4, <1>5, <1>6, <1>7, <1>8 DEF Effect

\* An operation's step changes the keys by one command, or not at all.
LEMMA ProceedEffect ==
  ASSUME TypeOK, NEW w \in Requests, Proceed(w)
  PROVE  Effect \/ UNCHANGED keys
<1>1. PICK u \in Users : u = tx[w].user
  BY UserServed
<1>2. CASE DropQueue(w) \/ DropMyself(w) \/ DropActive(w) \/ Fill(w)
  BY <1>2 DEF DropQueue, DropMyself, DropActive, Fill, Effect
<1>3. CASE JoinRefresh(w) \/ JoinEnter(w) \/ JoinWait(w)
  BY <1>1, <1>3 DEF JoinRefresh, JoinEnter, JoinWait, Effect
<1>4. CASE SlotGhost(w) \/ RefreshActive(w) \/ RefreshQueue(w) \/ RemoveUser(w)
  BY <1>1, <1>4 DEF SlotGhost, RefreshActive, RefreshQueue, RemoveUser, Effect
<1>5. CASE \/ ListQueue(w) \/ CheckQueue(w) \/ ListActive(w) \/ CheckActive(w)
           \/ SlotKey(w) \/ SlotMember(w) \/ QueueKey(w) \/ Rank(w) \/ Unlock(w)
  BY <1>5 DEF ListQueue, CheckQueue, ListActive, CheckActive, Check, SlotKey, SlotMember,
              QueueKey, Rank, Unlock
<1> QED BY <1>2, <1>3, <1>4, <1>5 DEF Proceed

\* A command that arrives late does what it would have done in time.
LEMMA ArriveEffect ==
  ASSUME NEW c \in Command, Arrive(c)
  PROVE  Effect \/ UNCHANGED keys
<1>1. c.to \subseteq Users
  BY DEF Command
<1>2. CASE Execute(c)
  BY <1>1, <1>2 DEF Execute, Effect
<1> QED BY <1>2 DEF Arrive

LEMMA KeysStep ==
  ASSUME Kept, [Next]_vars
  PROVE  KeysKept'
<1>0. KeysKept /\ TypeOK
  BY DEF Kept, Typed, TypeOK, KeysKept, KeysTyped
<1>1. ASSUME UNCHANGED keys PROVE KeysKept'
  BY <1>0, <1>1 DEF keys, KeysKept, KeysTyped, OneLine, RoomWithinLimit, AdmittedDoNotWait
<1>2. CASE Tick
  <2>1. /\ activeSession' = [u \in Users |-> OneLess(activeSession[u])]
        /\ queueSession' = [u \in Users |-> OneLess(queueSession[u])]
        /\ UNCHANGED <<activeMembers, queue, ahead>>
    BY <1>2 DEF Tick
  <2>2. KeysTyped' /\ AdmittedDoNotWait'
    BY <1>0, <2>1, LimitsAssumption DEF KeysKept, KeysTyped, AdmittedDoNotWait, OneLess
  <2>3. OneLine' /\ RoomWithinLimit'
    BY <1>0, <2>1 DEF KeysKept, OneLine, RoomWithinLimit
  <2> QED BY <2>2, <2>3 DEF KeysKept
<1>3. ASSUME NEW w \in Requests, Proceed(w) PROVE KeysKept'
  BY <1>0, <1>1, <1>3, ProceedEffect, EffectKeeps
<1>4. ASSUME NEW c \in late, Arrive(c) PROVE KeysKept'
  <2>1. c \in Command
    BY <1>0 DEF TypeOK
  <2> QED BY <1>1, <1>4, <2>1, ArriveEffect, EffectKeeps
<1>5. ASSUME NEW w \in Requests, Acquire(w) \/ Fail(w) PROVE KeysKept'
  BY <1>1, <1>5 DEF Acquire, Fail, GiveUp, AcquireUnseen, Fault, FaultIgnored, Abandon, TimeOut
<1>6. ASSUME NEW w \in Requests, NEW op \in Operations, NEW u \in Users, Begin(w, op, u)
      PROVE  KeysKept'
  BY <1>1, <1>6 DEF Begin
<1>7. CASE UNCHANGED vars
  BY <1>1, <1>7 DEF vars
<1> QED BY <1>2, <1>3, <1>4, <1>5, <1>6, <1>7 DEF Next

-----------------------------------------------------------------------------
(* A fill leaves no slot free that a waiter could have.                     *)

\* Of the waiters that are not popped none could have entered: the line is
\* empty after fillSlotsLua, or the room is exactly full.
FillsUseTheRoom ==
  [][\A w \in Requests : Fill(w) => queue' = {} \/ Cardinality(activeMembers') = MaxActive]_vars

LEMMA FillStep ==
  ASSUME Kept, NEW w \in Requests, Fill(w)
  PROVE  queue' = {} \/ Cardinality(activeMembers') = MaxActive
<1>1. activeMembers' = activeMembers \cup Waiters(Popped) /\ queue' = queue \ Popped
  BY DEF Fill, FillSlots, Dequeue
<1>2. CASE Popped = queue
  BY <1>1, <1>2
<1>3. CASE Popped # queue
  <2>1. Cardinality(activeMembers') >= MaxActive /\ Cardinality(activeMembers') <= MaxActive
    BY <1>1, <1>3, PoppedFills, PoppedFits DEF Kept, Full
  <2>2. activeMembers' \subseteq Users
    BY <1>1 DEF Kept, Typed, TypeOK, Popped, Waiters
  <2>3. Cardinality(activeMembers') \in Nat
    BY <2>2, UsersAssumption, FS_Subset, FS_CardinalityType
  <2> QED BY <2>1, <2>3, LimitsAssumption
<1> QED BY <1>2, <1>3

-----------------------------------------------------------------------------
(* An operation that has the lock comes to its end.                        *)

\* Where a request is while its operation still has to prune.
PruneFits(t) ==
  t.part = "prune" => t.at \in {"listQueue", "checkQueue", "listActive", "checkActive",
                                "fill", "joinScript", "unlock"}

\* The commands an operation may still run, apart from those for each member
\* that pruneExpired has listed.
CommandsLeft(t) ==
  LET again == t.part = "position" IN
  CASE t.at = "listQueue" -> 20
    [] t.at = "checkQueue" -> 19
    [] t.at = "listActive" -> 18
    [] t.at = "checkActive" -> 17
    [] t.at = "fill" -> IF t.part = "prune" THEN 16 ELSE 7
    [] t.at = "joinScript" -> 15
    [] t.at = "slotKey" -> IF again THEN 6 ELSE 13
    [] t.at = "slotMember" -> IF again THEN 5 ELSE 12
    [] t.at = "slotGhost" -> IF again THEN 4 ELSE 11
    [] t.at = "queueKey" -> IF again THEN 3 ELSE 10
    [] t.at \in {"refreshQueue", "removeUser"} -> 9
    [] t.at \in {"rank", "dropMyself", "refreshActive"} -> 1
    [] t.at = "unlock" -> 0
    [] OTHER -> 21

\* t is nearer to the end of its operation than s.
Nearer(s, t) ==
  \/ t.at = "idle"
  \/ CommandsLeft(t) < CommandsLeft(s)
  \/ t.at = s.at /\ t.todo \subseteq s.todo /\ t.todo # s.todo

\* No operation goes back to an earlier command, however often its keys are
\* changed under it: each step takes it nearer to its end, or is one of the
\* bounded failures, after which the lock only has to be deleted.
OperationsGoForward ==
  [][\A w \in Requests : Inside(w) /\ tx'[w] # tx[w] =>
       Nearer(tx[w], tx'[w]) \/ (faults' > faults /\ tx'[w].at = "unlock")]_vars

Onward(w, t) == PruneFits(t) /\ Nearer(tx[w], t)

LEMMA NextFields ==
  ASSUME NEW w \in Requests, tx[w] \in Request
  PROVE  /\ \A stage : At(w, stage).at = stage /\ At(w, stage).part = tx[w].part
         /\ \A stage, part : /\ [At(w, stage) EXCEPT !.part = part].at = stage
                             /\ [At(w, stage) EXCEPT !.part = part].part = part
         /\ \A a : Answer(w, a).at = "unlock"
BY DEF At, Answer, Request

LEMMA NotInRoomOnward ==
  ASSUME NEW w \in Requests, tx[w] \in Request, tx[w].at \in {"slotKey", "slotMember", "slotGhost"},
         PruneFits(tx[w])
  PROVE  Onward(w, NotInRoom(w))
<1>1. tx[w].part \in {"serve", "position"}
  BY DEF PruneFits, Request
<1>2. CommandsLeft(tx[w]) >= IF tx[w].part = "position" THEN 4 ELSE 11
  BY <1>1 DEF CommandsLeft
<1>3. CASE tx[w].op = "hasActiveSession"
  BY <1>1, <1>2, <1>3, NextFields DEF NotInRoom, Onward, PruneFits, Nearer, CommandsLeft
<1>4. CASE tx[w].op = "status" /\ tx[w].part = "serve"
  BY <1>1, <1>2, <1>4, NextFields DEF NotInRoom, Onward, PruneFits, Nearer, CommandsLeft
<1>5. CASE tx[w].op # "hasActiveSession" /\ ~(tx[w].op = "status" /\ tx[w].part = "serve")
  <2>1. NotInRoom(w) = At(w, "queueKey")
    BY <1>5 DEF NotInRoom
  <2>2. NotInRoom(w).at = "queueKey" /\ NotInRoom(w).part = tx[w].part
    BY <2>1, NextFields
  <2> QED BY <1>1, <1>2, <2>2 DEF Onward, PruneFits, Nearer, CommandsLeft
<1> QED BY <1>3, <1>4, <1>5

LEMMA AfterFillOnward ==
  ASSUME NEW w \in Requests, tx[w] \in Request, tx[w].at = "fill"
  PROVE  Onward(w, AfterFill(w))
<1>1. CommandsLeft(tx[w]) = IF tx[w].part = "prune" THEN 16 ELSE 7
  BY DEF CommandsLeft
<1>2. \/ /\ tx[w].part = "prune"
         /\ AfterFill(w).at = "joinScript" \/ (AfterFill(w).at = "slotKey" /\ AfterFill(w).part = "serve")
      \/ AfterFill(w).at = "unlock"
      \/ AfterFill(w).at = "slotKey" /\ AfterFill(w).part = "position"
  BY NextFields DEF AfterFill
<1> QED BY <1>1, <1>2 DEF Onward, PruneFits, Nearer, CommandsLeft

LEMMA ProceedOnward ==
  ASSUME TypeOK, NEW w \in Requests, PruneFits(tx[w]), Proceed(w)
  PROVE  \E t : Goto(w, t) /\ Onward(w, t)
<1>0. tx[w] \in Request /\ Idle.at = "idle" /\ Idle.part = "serve"
  BY ProceedIsBusy, BusyTyped DEF TypeOK, Inside, Idle
<1> USE DEF Onward, Nearer, PruneFits, CommandsLeft
<1>1. CASE Unlock(w)
  BY <1>0, <1>1 DEF Unlock
<1>2. CASE ListQueue(w)
  <2>1. PICK t : t = [tx[w] EXCEPT !.at = "checkQueue", !.todo = queue, !.stale = {}]
    OBVIOUS
  <2>2. Goto(w, t) /\ t.at = "checkQueue" /\ tx[w].at = "listQueue"
    BY <1>0, <1>2, <2>1 DEF ListQueue, Request
  <2> QED BY <2>2
<1>3. CASE ListActive(w)
  <2>1. PICK t : t = [tx[w] EXCEPT !.at = "checkActive", !.todo = activeMembers, !.stale = {}]
    OBVIOUS
  <2>2. Goto(w, t) /\ t.at = "checkActive" /\ tx[w].at = "listActive"
    BY <1>0, <1>3, <2>1 DEF ListActive, Request
  <2> QED BY <2>2
<1>4. ASSUME NEW session, Check(w, session), tx[w].at \in {"checkQueue", "checkActive"}
      PROVE  \E t : Goto(w, t) /\ Onward(w, t)
  <2>1. PICK m \in tx[w].todo :
          Goto(w, [tx[w] EXCEPT !.todo = @ \ {m},
                                !.stale = IF session[m] = 0 THEN @ \cup {m} ELSE @])
    BY <1>4 DEF Check
  <2>2. PICK t : t = [tx[w] EXCEPT !.todo = @ \ {m},
                                   !.stale = IF session[m] = 0 THEN @ \cup {m} ELSE @]
    OBVIOUS
  <2>3. t.at = tx[w].at /\ t.part = tx[w].part /\ t.todo = tx[w].todo \ {m}
    BY <1>0, <2>2 DEF Request
  <2> QED BY <1>4, <2>1, <2>2, <2>3
<1>5. CASE DropQueue(w)
  <2>1. PICK t : t = [tx[w] EXCEPT !.at = "listActive", !.stale = {}]
    OBVIOUS
  <2>2. Goto(w, t) /\ t.at = "listActive" /\ tx[w].at = "checkQueue"
    BY <1>0, <1>5, <2>1 DEF DropQueue, Request
  <2> QED BY <2>2
<1>6. CASE DropActive(w)
  <2>1. PICK t : t = [tx[w] EXCEPT !.at = "fill", !.stale = {}]
    OBVIOUS
  <2>2. Goto(w, t) /\ t.at = "fill" /\ tx[w].at = "checkActive"
    BY <1>0, <1>6, <2>1 DEF DropActive, Request
  <2> QED BY <2>2
<1>7. CASE Fill(w)
  <2> HIDE DEF Onward
  <2> QED BY <1>0, <1>7, AfterFillOnward DEF Fill
<1>8. CASE JoinRefresh(w) \/ JoinEnter(w)
  <2>1. Goto(w, Answer(w, "enter")) /\ tx[w].at = "joinScript"
    BY <1>8 DEF JoinRefresh, JoinEnter
  <2> QED BY <1>0, <2>1, NextFields
<1>9. CASE JoinWait(w)
  <2>1. PICK t : t = [At(w, "slotKey") EXCEPT !.part = "position"]
    OBVIOUS
  <2>2. Goto(w, t) /\ t.at = "slotKey" /\ t.part = "position" /\ tx[w].at = "joinScript"
    BY <1>0, <1>9, <2>1, NextFields DEF JoinWait
  <2> QED BY <2>2
<1>10. CASE SlotKey(w)
  <2>1. CASE activeSession[tx[w].user] > 0
    <3>1. PICK t : t = At(w, "slotMember")
      OBVIOUS
    <3>2. Goto(w, t) /\ t.at = "slotMember" /\ t.part = tx[w].part /\ tx[w].at = "slotKey"
      BY <1>0, <1>10, <2>1, <3>1, NextFields DEF SlotKey
    <3> QED BY <3>2
  <2>2. CASE ~(activeSession[tx[w].user] > 0)
    <3> HIDE DEF Onward
    <3>1. Goto(w, NotInRoom(w)) /\ tx[w].at = "slotKey"
      BY <1>10, <2>2 DEF SlotKey
    <3> QED BY <1>0, <3>1, NotInRoomOnward
  <2> QED BY <2>1, <2>2
<1>11. CASE SlotMember(w)
  <2>1. PICK t : t = IF tx[w].user \in activeMembers THEN InRoom(w) ELSE At(w, "slotGhost")
    OBVIOUS
  <2>2. /\ Goto(w, t) /\ tx[w].at = "slotMember" /\ t.at \in {"refreshActive", "unlock", "slotGhost"}
        /\ t.at # "unlock" => t.part = tx[w].part
    BY <1>0, <1>11, <2>1, NextFields DEF SlotMember, InRoom
  <2> QED BY <2>2
<1>12. CASE SlotGhost(w)
  <2> HIDE DEF Onward
  <2>1. Goto(w, NotInRoom(w)) /\ tx[w].at = "slotGhost"
    BY <1>12 DEF SlotGhost
  <2> QED BY <1>0, <2>1, NotInRoomOnward
<1>13. CASE RefreshActive(w) \/ DropMyself(w) \/ Rank(w)
  <2>1. \E a : Goto(w, Answer(w, a)) /\ tx[w].at \in {"refreshActive", "dropMyself", "rank"}
    BY <1>13 DEF RefreshActive, DropMyself, Rank
  <2> QED BY <1>0, <2>1, NextFields
<1>14. CASE QueueKey(w)
  <2>1. PICK t : t = CASE queueSession[tx[w].user] = 0 -> At(w, "dropMyself")
                       [] queueSession[tx[w].user] > 0 /\ tx[w].part = "serve" -> At(w, "refreshQueue")
                       [] OTHER -> At(w, "rank")
    OBVIOUS
  <2>2. /\ Goto(w, t) /\ tx[w].at = "queueKey" /\ t.part = tx[w].part
        /\ \/ t.at \in {"dropMyself", "rank"}
           \/ t.at = "refreshQueue" /\ tx[w].part = "serve"
    BY <1>0, <1>14, <2>1, NextFields DEF QueueKey
  <2> QED BY <2>2
<1>15. CASE RefreshQueue(w) \/ RemoveUser(w)
  <2>1. PICK t : t = At(w, "fill")
    OBVIOUS
  <2>2. Goto(w, t) /\ t.at = "fill" /\ t.part = tx[w].part /\ tx[w].at \in {"refreshQueue", "removeUser"}
    BY <1>0, <1>15, <2>1, NextFields DEF RefreshQueue, RemoveUser
  <2> QED BY <2>2
<1> QED BY <1>1, <1>2, <1>3, <1>4, <1>5, <1>6, <1>7, <1>8, <1>9, <1>10, <1>11, <1>12, <1>13,
           <1>14, <1>15 DEF Proceed, CheckQueue, CheckActive

Pruning == \A w \in Requests : PruneFits(tx[w])

\* One step of w, and what it leaves to the other requests.
LEMMA OneRequestSteps ==
  ASSUME TypeOK, Pruning, NEW w \in Requests, NEW t, Goto(w, t), PruneFits(t),
         Inside(w) => Nearer(tx[w], t) \/ (faults' > faults /\ t.at = "unlock")
  PROVE  /\ Pruning'
         /\ \A v \in Requests : Inside(v) /\ tx'[v] # tx[v] =>
              Nearer(tx[v], tx'[v]) \/ (faults' > faults /\ tx'[v].at = "unlock")
<1>1. tx'[w] = t /\ \A v \in Requests \ {w} : tx'[v] = tx[v]
  BY GotoRequests
<1> QED BY <1>1 DEF Pruning

LEMMA ForwardStep ==
  ASSUME Kept, Pruning, [Next]_vars
  PROVE  /\ Pruning'
         /\ \A v \in Requests : Inside(v) /\ tx'[v] # tx[v] =>
              Nearer(tx[v], tx'[v]) \/ (faults' > faults /\ tx'[v].at = "unlock")
<1>0. TypeOK /\ Idle.at = "idle" /\ Idle.part = "serve"
  BY DEF Kept, Typed, Idle
<1>1. CASE UNCHANGED vars \/ Tick \/ \E c \in late : Arrive(c)
  BY <1>1 DEF vars, Tick, Arrive, Pruning
<1>2. ASSUME NEW w \in Requests, NEW op \in Operations, NEW u \in Users, Begin(w, op, u)
      PROVE  Pruning' /\ \A v \in Requests : Inside(v) /\ tx'[v] # tx[v] =>
               Nearer(tx[v], tx'[v]) \/ (faults' > faults /\ tx'[v].at = "unlock")
  <2>1. PICK t : t = [Idle EXCEPT !.at = "lock", !.op = op, !.user = u]
    OBVIOUS
  <2>2. Goto(w, t) /\ PruneFits(t) /\ ~Inside(w)
    BY <1>2, <2>1 DEF Begin, Idle, PruneFits, Inside
  <2> QED BY <1>0, <2>2, OneRequestSteps
<1>3. ASSUME NEW w \in Requests, Acquire(w)
      PROVE  Pruning' /\ \A v \in Requests : Inside(v) /\ tx'[v] # tx[v] =>
               Nearer(tx[v], tx'[v]) \/ (faults' > faults /\ tx'[v].at = "unlock")
  <2>1. PICK t : t = [tx[w] EXCEPT !.at = FirstStage(tx[w].op),
                                   !.part = IF tx[w].op \in Prunes THEN "prune" ELSE "serve"]
    OBVIOUS
  <2>2. tx[w] \in Request
    BY <1>0, <1>3, BusyTyped DEF Acquire, TypeOK
  <2>3. /\ t.at = FirstStage(tx[w].op)
        /\ t.part = IF tx[w].op \in Prunes THEN "prune" ELSE "serve"
    BY <2>1, <2>2 DEF Request
  <2>4. PruneFits(t)
    BY <2>3 DEF FirstStage, Prunes, PruneFits
  <2>5. Goto(w, t) /\ ~Inside(w)
    BY <1>3, <2>1 DEF Acquire, Inside
  <2> QED BY <1>0, <2>4, <2>5, OneRequestSteps
<1>4. ASSUME NEW w \in Requests, Proceed(w)
      PROVE  Pruning' /\ \A v \in Requests : Inside(v) /\ tx'[v] # tx[v] =>
               Nearer(tx[v], tx'[v]) \/ (faults' > faults /\ tx'[v].at = "unlock")
  <2>1. PICK t : Goto(w, t) /\ Onward(w, t)
    BY <1>0, <1>4, ProceedOnward DEF Pruning
  <2> QED BY <1>0, <2>1, OneRequestSteps DEF Onward
<1>5. ASSUME NEW w \in Requests, Fail(w)
      PROVE  Pruning' /\ \A v \in Requests : Inside(v) /\ tx'[v] # tx[v] =>
               Nearer(tx[v], tx'[v]) \/ (faults' > faults /\ tx'[v].at = "unlock")
  <2>0. PruneFits(tx[w]) /\ PruneFits(Idle) /\ Nearer(tx[w], Idle)
    BY <1>0 DEF Pruning, PruneFits, Nearer
  <2>1. CASE GiveUp(w) \/ Abandon(w)
    BY <1>0, <2>0, <2>1, OneRequestSteps DEF GiveUp, Abandon
  <2>2. CASE AcquireUnseen(w)
    BY <1>0, <2>0, <2>2, OneRequestSteps DEF AcquireUnseen, Inside
  <2>3. CASE Fault(w)
    <3>1. tx[w] \in Request
      BY <1>0, <2>3, BusyTyped DEF Fault, Inside, TypeOK
    <3>2. PICK t : t = Answer(w, "error")
      OBVIOUS
    <3>3. Goto(w, t) /\ t.at = "unlock" /\ faults' > faults
      BY <1>0, <2>3, <3>1, <3>2, NextFields DEF Fault, Failing, TypeOK
    <3> QED BY <1>0, <3>3, OneRequestSteps DEF PruneFits
  <2>4. CASE FaultIgnored(w)
    <3>1. tx[w] \in Request
      BY <1>0, <2>4, BusyTyped DEF FaultIgnored, TypeOK
    <3>2. PICK t : t = IF tx[w].at = "slotGhost" THEN NotInRoom(w) ELSE Answer(w, "notInQueue")
      OBVIOUS
    <3>3. Goto(w, t)
      BY <2>4, <3>2 DEF FaultIgnored
    <3>4. CASE tx[w].at = "slotGhost"
      <4>1. Onward(w, t)
        BY <2>0, <3>1, <3>2, <3>4, NotInRoomOnward
      <4> QED BY <1>0, <3>3, <4>1, OneRequestSteps DEF Onward
    <3>5. CASE tx[w].at # "slotGhost"
      <4>1. t.at = "unlock" /\ tx[w].at = "dropMyself"
        BY <2>4, <3>1, <3>2, <3>5, NextFields DEF FaultIgnored
      <4>2. PruneFits(t) /\ Nearer(tx[w], t)
        BY <4>1 DEF PruneFits, Nearer, CommandsLeft
      <4> QED BY <1>0, <3>3, <4>2, OneRequestSteps
    <3> QED BY <3>4, <3>5
  <2>5. CASE TimeOut(w)
    <3>1. tx[w] \in Request
      BY <1>0, <2>5, BusyTyped DEF TimeOut, Writes, TypeOK
    <3>2. CASE Goto(w, Idle)
      BY <1>0, <2>0, <3>2, OneRequestSteps
    <3>3. CASE Goto(w, tx[w])
      BY <1>0, <2>0, <3>3, GotoRequests DEF Pruning
    <3>4. CASE Goto(w, Answer(w, "error"))
      <4>1. PICK t : t = Answer(w, "error")
        OBVIOUS
      <4>2. Goto(w, t) /\ t.at = "unlock" /\ faults' > faults
        BY <1>0, <2>5, <3>1, <3>4, <4>1, NextFields DEF TimeOut, Failing, TypeOK
      <4> QED BY <1>0, <4>2, OneRequestSteps DEF PruneFits
    <3> QED BY <2>5, <3>2, <3>3, <3>4 DEF TimeOut
  <2> QED BY <1>5, <2>1, <2>2, <2>3, <2>4, <2>5 DEF Fail
<1> QED BY <1>1, <1>2, <1>3, <1>4, <1>5 DEF Next

-----------------------------------------------------------------------------

LEMMA InitKept == Init => Kept
<1> SUFFICES ASSUME Init PROVE Kept
  OBVIOUS
<1>1. TypeOK
  BY LimitsAssumption DEF Init, TypeOK
<1>2. OneLine /\ AdmittedDoNotWait /\ OnTime
  BY DEF Init, OneLine, AdmittedDoNotWait, OnTime
<1>3. RoomWithinLimit
  BY FS_EmptySet, LimitsAssumption DEF Init, RoomWithinLimit
<1> QED BY <1>1, <1>2, <1>3 DEF Kept, Typed

LEMMA OnTimeStep ==
  ASSUME OnTime, [Next]_vars
  PROVE  OnTime'
<1>1. ASSUME NEW w \in Requests, TimeOut(w) PROVE Overstay
  BY <1>1 DEF TimeOut
<1>2. ASSUME NEW w \in Requests, Proceed(w) PROVE late' = late
  BY <1>2 DEF Proceed, ListQueue, CheckQueue, DropQueue, ListActive, CheckActive, Check, DropActive,
              Fill, JoinRefresh, JoinEnter, JoinWait, SlotKey, SlotMember, SlotGhost,
              RefreshActive, QueueKey, DropMyself, RefreshQueue, Rank, RemoveUser, Unlock
<1>3. ASSUME NEW w \in Requests,
             \/ Acquire(w) \/ GiveUp(w) \/ AcquireUnseen(w) \/ Fault(w) \/ FaultIgnored(w)
             \/ Abandon(w) \/ \E op \in Operations, u \in Users : Begin(w, op, u)
      PROVE  late' = late
  BY <1>3 DEF Acquire, GiveUp, AcquireUnseen, Fault, FaultIgnored, Abandon, Begin
<1>4. (\E c \in late : Arrive(c)) => Overstay
  BY DEF OnTime
<1>5. Tick \/ UNCHANGED vars => late' = late
  BY DEF Tick, vars
<1> QED BY <1>1, <1>2, <1>3, <1>4, <1>5 DEF Next, Fail, OnTime

LEMMA KeptStep == Kept /\ [Next]_vars => Kept'
<1> SUFFICES ASSUME Kept, [Next]_vars PROVE Kept'
  OBVIOUS
<1>1. KeysKept' /\ RequestsTyped'
  BY KeysStep, RequestsStep DEF Kept, Typed
<1>2. OnTime'
  BY OnTimeStep DEF Kept
<1> QED BY <1>1, <1>2 DEF KeysKept, KeysTyped, RequestsTyped, Kept, Typed, TypeOK

\* The inductive invariant: one line, a room within its limit, and nobody in
\* both, whatever operations overlap.
THEOREM QueueKept == Spec => []Kept
BY InitKept, KeptStep, PTL DEF Spec

\* Every key and every request keeps its type.
THEOREM QueueTyped == Spec => []TypeOK
BY QueueKept, PTL DEF Kept, Typed

\* The booking room never has more members than the limit allows.
THEOREM RoomLimited == Spec => []RoomWithinLimit
BY QueueKept, PTL DEF Kept

\* Nobody who may enter stands in line.
THEOREM AdmittedOutOfLine == Spec => []AdmittedDoNotWait
BY QueueKept, PTL DEF Kept

\* After fillSlotsLua the line is empty or the room is full: a slot is never
\* left free that one of the waiters could have.
THEOREM FillsAreComplete == Spec => FillsUseTheRoom
<1>1. Kept /\ [Next]_vars => [\A w \in Requests : Fill(w) => queue' = {} \/ Cardinality(activeMembers') = MaxActive]_vars
  BY FillStep
<1> QED BY <1>1, QueueKept, PTL DEF Spec, FillsUseTheRoom

\* An operation never runs a command again that it has run before, whatever the
\* others do to its keys: with TLC's weak fairness it comes to its end.
THEOREM OperationsProgress == Spec => OperationsGoForward
<1>1. Init => Pruning
  BY DEF Init, Pruning, PruneFits, Idle
<1>2. Kept /\ Pruning /\ [Next]_vars => Pruning'
  BY ForwardStep
<1>3. Kept /\ Pruning /\ [Next]_vars =>
        [\A w \in Requests : Inside(w) /\ tx'[w] # tx[w] =>
           Nearer(tx[w], tx'[w]) \/ (faults' > faults /\ tx'[w].at = "unlock")]_vars
  BY ForwardStep
<1> QED BY <1>1, <1>2, <1>3, QueueKept, PTL DEF Spec, OperationsGoForward

=============================================================================
