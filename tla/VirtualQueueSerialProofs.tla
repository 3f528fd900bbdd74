---------------------- MODULE VirtualQueueSerialProofs ----------------------
(***************************************************************************)
(* What the operation lock buys: if every operation ends before its lock    *)
(* expires, sessions and membership agree, answers hold, no live user is    *)
(* pruned and nobody is overtaken, whichever commands fail.                *)
(***************************************************************************)
EXTENDS VirtualQueueProofs

-----------------------------------------------------------------------------
(* The invariant, on top of Kept.                                          *)

\* What a request has found out about the keys is still so.
Upheld(t) ==
  /\ t.at = "checkQueue" => \A m \in t.stale : queueSession[m] = 0
  /\ t.at = "checkActive" => \A m \in t.stale : activeSession[m] = 0
  /\ t.at \in {"slotMember", "refreshActive"} => t.user \in activeMembers
  /\ t.at # "slotGhost"
  /\ t.at = "dropMyself" => queueSession[t.user] = 0
  /\ t.at = "joinScript" => Full({}) \/ queue = {}
  /\ t.at = "unlock" /\ t.answer = "enter" => t.user \in activeMembers
  /\ t.at = "unlock" /\ t.answer = "wait" => t.user \in queue

Serial ==
  /\ \A w \in Requests : Inside(w) => opLock > 0
  /\ OneOperationAtATime
  /\ NoGhosts
  /\ \A w \in Requests : Upheld(tx[w])

\* A request that claims nothing.
Unclaiming(t) ==
  \/ t.at \notin {"checkQueue", "checkActive", "slotMember", "refreshActive", "slotGhost",
                  "dropMyself", "joinScript", "unlock"}
  \/ t.at = "unlock" /\ t.answer \notin {"enter", "wait"}
  \/ t.at \in {"checkQueue", "checkActive"} /\ t.stale = {}

LEMMA UnclaimingUpheld ==
  ASSUME NEW t, Unclaiming(t)
  PROVE  Upheld(t) /\ Upheld(t)'
BY DEF Unclaiming, Upheld

\* A step of the one operation that has the lock.
LEMMA GotoInside ==
  ASSUME TypeOK, Serial, NEW w \in Requests, Inside(w), NEW t, Goto(w, t),
         opLock' = opLock \/ t.at = "idle", NoGhosts', Upheld(t)'
  PROVE  Serial'
<1>1. tx'[w] = t /\ \A v \in Requests \ {w} : tx'[v] = tx[v]
  BY GotoRequests
<1>2. \A v \in Requests \ {w} : ~Inside(v) /\ tx[v].at \in {"idle", "lock"}
  BY DEF Serial, OneOperationAtATime, Inside
<1>3. \A v \in Requests \ {w} : tx'[v].at \in {"idle", "lock"}
  BY <1>1, <1>2
<1>4. \A v \in Requests : Inside(v)' => v = w /\ opLock' > 0
  BY <1>1, <1>3 DEF Serial, Inside
<1>5. \A v \in Requests : Upheld(tx[v])'
  BY <1>1, <1>3 DEF Upheld
<1> QED BY <1>4, <1>5 DEF Serial, OneOperationAtATime

\* A step outside the lock: nobody was inside if it takes the lock.
LEMMA GotoOutside ==
  ASSUME TypeOK, Serial, NEW w \in Requests, ~Inside(w), NEW t, Goto(w, t), Unclaiming(t),
         UNCHANGED keys,
         \/ t.at \in {"idle", "lock"} /\ opLock' = opLock
         \/ opLock = 0 /\ opLock' > 0
  PROVE  Serial'
<1>1. tx'[w] = t /\ \A v \in Requests \ {w} : tx'[v] = tx[v]
  BY GotoRequests
<1>2. NoGhosts'
  BY DEF Serial, NoGhosts, keys
<1>3. ASSUME NEW v \in Requests PROVE Upheld(tx[v])'
  <2>1. CASE v = w
    BY <1>1, <2>1, UnclaimingUpheld DEF Upheld
  <2>2. CASE v # w
    BY <1>1, <2>2 DEF Serial, Upheld, keys, Full, Waiters
  <2> QED BY <2>1, <2>2
<1>4. CASE t.at \in {"idle", "lock"} /\ opLock' = opLock
  BY <1>1, <1>2, <1>3, <1>4 DEF Serial, OneOperationAtATime, Inside
<1>5. CASE opLock = 0 /\ opLock' > 0
  <2>1. \A v \in Requests : ~Inside(v)
    BY <1>5 DEF Serial
  <2>2. \A v \in Requests : Inside(v)' => v = w
    BY <1>1, <2>1 DEF Inside
  <2> QED BY <1>2, <1>3, <1>5, <2>2 DEF Serial, OneOperationAtATime
<1> QED BY <1>4, <1>5

-----------------------------------------------------------------------------
(* What the next stages are.                                               *)

LEMMA StageFields ==
  ASSUME NEW w \in Requests, tx[w] \in Request, NEW stage
  PROVE  At(w, stage).at = stage /\ At(w, stage).user = tx[w].user
BY DEF At, Request

LEMMA AnswerFields ==
  ASSUME NEW w \in Requests, tx[w] \in Request, NEW a
  PROVE  Answer(w, a).at = "unlock" /\ Answer(w, a).answer = a /\ Answer(w, a).user = tx[w].user
BY DEF Answer, Request

LEMMA NotInRoomUnclaiming ==
  ASSUME NEW w \in Requests, tx[w] \in Request
  PROVE  Unclaiming(NotInRoom(w))
BY StageFields, AnswerFields DEF NotInRoom, Unclaiming

LEMMA InRoomFields ==
  ASSUME NEW w \in Requests, tx[w] \in Request
  PROVE  /\ InRoom(w).user = tx[w].user
         /\ InRoom(w).at = "refreshActive" \/ (InRoom(w).at = "unlock" /\ InRoom(w).answer = "enter")
BY StageFields, AnswerFields DEF InRoom

LEMMA PositionUnclaiming ==
  ASSUME NEW w \in Requests, tx[w] \in Request, NEW part
  PROVE  Unclaiming([At(w, "slotKey") EXCEPT !.part = part])
<1>1. [At(w, "slotKey") EXCEPT !.part = part].at = "slotKey"
  BY DEF At, Request
<1> QED BY <1>1 DEF Unclaiming

LEMMA AfterFillFields ==
  ASSUME NEW w \in Requests, tx[w] \in Request
  PROVE  AfterFill(w).at = "joinScript" \/ Unclaiming(AfterFill(w))
BY StageFields, AnswerFields, PositionUnclaiming DEF AfterFill, Unclaiming

-----------------------------------------------------------------------------
(* Every step keeps it.                                                    *)

LEMMA SerialTick ==
  ASSUME Kept, Serial, ~Overstay, Tick
  PROVE  Serial'
<1>0. TypeOK
  BY DEF Kept, Typed
<1>1. /\ activeSession' = [u \in Users |-> OneLess(activeSession[u])]
      /\ queueSession' = [u \in Users |-> OneLess(queueSession[u])]
      /\ opLock' = OneLess(opLock)
      /\ UNCHANGED <<activeMembers, queue, ahead, tx>>
  BY DEF Tick
<1>2. \A u \in Users : (activeSession[u] = 0 => activeSession'[u] = 0)
                    /\ (queueSession[u] = 0 => queueSession'[u] = 0)
                    /\ (activeSession'[u] > 0 => activeSession[u] > 0)
  BY <1>0, <1>1, LimitsAssumption DEF OneLess, TypeOK
<1>3. NoGhosts' /\ OneOperationAtATime'
  BY <1>1, <1>2 DEF Serial, NoGhosts, OneOperationAtATime, Inside
<1>4. \A w \in Requests : Inside(w)' => opLock' > 0
  <2>1. opLock # 1 \/ \A w \in Requests : ~Inside(w)
    BY DEF Tick
  <2>2. opLock \in Nat
    BY <1>0, LimitsAssumption DEF TypeOK
  <2> QED BY <1>1, <2>1, <2>2 DEF Serial, Inside, OneLess
<1>5. ASSUME NEW w \in Requests PROVE Upheld(tx[w])'
  <2>1. PICK t : t = tx[w]
    OBVIOUS
  <2>2. Upheld(t) /\ tx'[w] = t
    BY <1>1, <2>1 DEF Serial
  <2>3. Full({})' <=> Full({})
    BY <1>1 DEF Full, Waiters
  <2>4. CASE t.at = "idle"
    BY <2>2, <2>4, UnclaimingUpheld DEF Unclaiming, Upheld
  <2>5. CASE t.at # "idle"
    <3>1. t \in Request
      BY <1>0, <2>1, <2>5, BusyTyped DEF TypeOK
    <3>2. t.user \in Users /\ t.stale \subseteq Users
      BY <3>1 DEF Request
    <3> QED BY <1>1, <1>2, <2>2, <2>3, <3>2 DEF Upheld
  <2> QED BY <2>4, <2>5
<1> QED BY <1>3, <1>4, <1>5 DEF Serial

LEMMA SerialOutside ==
  ASSUME Kept, Serial, NEW w \in Requests,
         \/ \E op \in Operations, u \in Users : Begin(w, op, u)
         \/ Acquire(w) \/ GiveUp(w) \/ AcquireUnseen(w)
  PROVE  Serial'
<1>0. TypeOK /\ Idle.at = "idle" /\ LockTTL > 0
  BY LimitsAssumption DEF Kept, Typed, Idle
<1>1. ASSUME NEW op \in Operations, NEW u \in Users, Begin(w, op, u) PROVE Serial'
  <2>1. PICK t : t = [Idle EXCEPT !.at = "lock", !.op = op, !.user = u]
    OBVIOUS
  <2>2. t.at = "lock"
    BY <2>1 DEF Idle
  <2>3. Goto(w, t) /\ ~Inside(w) /\ UNCHANGED <<keys, opLock>>
    BY <1>1, <2>1 DEF Begin, Inside
  <2> QED BY <1>0, <2>2, <2>3, GotoOutside DEF Unclaiming
<1>2. CASE Acquire(w)
  <2>1. PICK part : part = IF tx[w].op \in Prunes THEN "prune" ELSE "serve"
    OBVIOUS
  <2>2. PICK t : t = [tx[w] EXCEPT !.at = FirstStage(tx[w].op), !.part = part]
    OBVIOUS
  <2>3. tx[w] \in Request
    BY <1>0, <1>2, BusyTyped DEF Acquire, TypeOK
  <2>4. t.at \in {"listQueue", "removeUser", "slotKey"}
    BY <2>2, <2>3 DEF Request, FirstStage
  <2>5. Goto(w, t) /\ ~Inside(w) /\ UNCHANGED keys /\ opLock = 0 /\ opLock' > 0
    BY <1>0, <1>2, <2>1, <2>2 DEF Acquire, Inside
  <2>6. Unclaiming(t)
    BY <2>4 DEF Unclaiming
  <2> QED BY <1>0, <2>5, <2>6, GotoOutside
<1>3. CASE GiveUp(w)
  BY <1>0, <1>3, GotoOutside DEF GiveUp, Inside, Unclaiming
<1>4. CASE AcquireUnseen(w)
  <2>1. PICK t \in {tx[w], Idle} : Goto(w, t)
    BY <1>4 DEF AcquireUnseen
  <2>2. t.at \in {"lock", "idle"} /\ ~Inside(w) /\ UNCHANGED keys /\ opLock = 0 /\ opLock' > 0
    BY <1>0, <1>4, <2>1 DEF AcquireUnseen, Inside
  <2>3. Unclaiming(t)
    BY <2>2 DEF Unclaiming
  <2> QED BY <1>0, <2>1, <2>2, <2>3, GotoOutside
<1> QED BY <1>1, <1>2, <1>3, <1>4

LEMMA SerialFailing ==
  ASSUME Kept, Serial, NEW w \in Requests, Fault(w) \/ FaultIgnored(w) \/ Abandon(w)
  PROVE  Serial'
<1>0. TypeOK /\ Idle.at = "idle"
  BY DEF Kept, Typed, Idle
<1>1. Inside(w) /\ UNCHANGED <<keys, opLock>>
  BY DEF Fault, FaultIgnored, Abandon, Inside
<1>2. tx[w] \in Request
  BY <1>0, <1>1, BusyTyped DEF TypeOK, Inside
<1>3. PICK t : Goto(w, t) /\ Unclaiming(t)
  BY <1>0, <1>2, NotInRoomUnclaiming, AnswerFields
  DEF Fault, FaultIgnored, Abandon, Unclaiming
<1>4. NoGhosts'
  BY <1>1 DEF Serial, NoGhosts, keys
<1> QED BY <1>0, <1>1, <1>3, <1>4, GotoInside, UnclaimingUpheld

LEMMA SerialProceed ==
  ASSUME Kept, Serial, NEW w \in Requests, Proceed(w)
  PROVE  Serial'
<1>0. TypeOK /\ Inside(w) /\ tx[w] \in Request /\ Idle.at = "idle" /\ Upheld(tx[w]) /\ NoGhosts
  BY ProceedIsBusy, BusyTyped DEF Kept, Typed, TypeOK, Inside, Idle, Serial
<1> PICK u \in Users : u = tx[w].user
  BY <1>0 DEF Request
\* The keys do not change and nothing is claimed.
<1>1. ASSUME NEW t, Goto(w, t), UNCHANGED <<keys, opLock>>, Unclaiming(t) PROVE Serial'
  <2>1. NoGhosts'
    BY <1>0, <1>1 DEF NoGhosts, keys
  <2> QED BY <1>0, <1>1, <2>1, GotoInside, UnclaimingUpheld
<1>2. CASE Unlock(w)
  <2>1. NoGhosts'
    BY <1>0, <1>2 DEF Unlock, NoGhosts, keys
  <2>2. Unclaiming(Idle) /\ Goto(w, Idle)
    BY <1>0, <1>2 DEF Unlock, Unclaiming
  <2> QED BY <1>0, <2>1, <2>2, GotoInside, UnclaimingUpheld
<1>3. CASE ListQueue(w) \/ ListActive(w)
  <2>1. PICK t : t = IF tx[w].at = "listQueue"
                     THEN [tx[w] EXCEPT !.at = "checkQueue", !.todo = queue, !.stale = {}]
                     ELSE [tx[w] EXCEPT !.at = "checkActive", !.todo = activeMembers, !.stale = {}]
    OBVIOUS
  <2>2. t.at \in {"checkQueue", "checkActive"} /\ t.stale = {}
    BY <1>0, <2>1 DEF Request
  <2>3. Goto(w, t) /\ UNCHANGED <<keys, opLock>>
    BY <1>3, <2>1 DEF ListQueue, ListActive
  <2> QED BY <1>1, <2>2, <2>3 DEF Unclaiming
<1>4. CASE CheckQueue(w) \/ CheckActive(w)
  <2>1. PICK session, m : /\ m \in tx[w].todo
                       /\ \/ tx[w].at = "checkQueue" /\ session = queueSession
                          \/ tx[w].at = "checkActive" /\ session = activeSession
                       /\ Goto(w, [tx[w] EXCEPT !.todo = @ \ {m},
                                     !.stale = IF session[m] = 0 THEN @ \cup {m} ELSE @])
    BY <1>4 DEF CheckQueue, CheckActive, Check
  <2>2. PICK t : t = [tx[w] EXCEPT !.todo = @ \ {m},
                                   !.stale = IF session[m] = 0 THEN @ \cup {m} ELSE @]
    OBVIOUS
  <2>3. /\ t.at = tx[w].at
        /\ \A x \in t.stale : x \in tx[w].stale \/ session[x] = 0
    BY <1>0, <2>2 DEF Request
  <2>4. UNCHANGED <<keys, opLock>>
    BY <1>4 DEF CheckQueue, CheckActive, Check
  <2>5. Upheld(t)'
    BY <1>0, <2>1, <2>3, <2>4 DEF Upheld, keys
  <2>6. NoGhosts'
    BY <1>0, <2>4 DEF NoGhosts, keys
  <2> QED BY <1>0, <2>1, <2>2, <2>4, <2>5, <2>6, GotoInside
<1>5. CASE DropQueue(w)
  <2>1. PICK t : t = [tx[w] EXCEPT !.at = "listActive", !.stale = {}]
    OBVIOUS
  <2>2. t.at = "listActive"
    BY <1>0, <2>1 DEF Request
  <2>3. Goto(w, t) /\ opLock' = opLock /\ UNCHANGED <<activeMembers, activeSession>>
    BY <1>5, <2>1 DEF DropQueue, RemoveWaiters
  <2>4. NoGhosts'
    BY <1>0, <2>3 DEF NoGhosts
  <2> QED BY <1>0, <2>2, <2>3, <2>4, GotoInside, UnclaimingUpheld DEF Unclaiming
<1>6. CASE DropActive(w)
  <2>1. PICK t : t = [tx[w] EXCEPT !.at = "fill", !.stale = {}]
    OBVIOUS
  <2>2. t.at = "fill"
    BY <1>0, <2>1 DEF Request
  <2>3. /\ Goto(w, t) /\ opLock' = opLock /\ activeSession' = activeSession
        /\ activeMembers' = activeMembers \ tx[w].stale /\ tx[w].at = "checkActive"
    BY <1>6, <2>1 DEF DropActive, RemoveMembers
  <2>4. NoGhosts'
    BY <1>0, <2>3 DEF NoGhosts, Upheld
  <2> QED BY <1>0, <2>2, <2>3, <2>4, GotoInside, UnclaimingUpheld DEF Unclaiming
<1>7. CASE Fill(w)
  <2>1. PICK t : t = AfterFill(w)
    OBVIOUS
  <2>2. PICK P : P = Waiters(Popped)
    OBVIOUS
  <2>3. /\ Goto(w, t) /\ opLock' = opLock
        /\ activeMembers' = activeMembers \cup P
        /\ activeSession' = [x \in Users |-> IF x \in P THEN SessionTTL ELSE activeSession[x]]
        /\ queue' = queue \ Popped
    BY <1>7, <2>1, <2>2 DEF Fill, FillSlots, Dequeue
  <2>4. NoGhosts'
    BY <1>0, <2>3 DEF NoGhosts
  <2>5. CASE Unclaiming(t)
    BY <1>0, <2>3, <2>4, <2>5, GotoInside, UnclaimingUpheld
  <2>6. CASE t.at = "joinScript"
    <3>1. CASE Popped = queue
      BY <1>0, <2>3, <2>4, <2>6, <3>1, GotoInside DEF Upheld
    <3>2. CASE Popped # queue
      <4>1. Cardinality(activeMembers \cup P) >= MaxActive
        BY <2>2, <3>2, PoppedFills DEF Kept, Full
      <4>2. Full({})'
        <5>1. activeMembers' \cup Waiters({})' = activeMembers \cup P
          BY <2>3 DEF Waiters
        <5> QED BY <4>1, <5>1 DEF Full
      <4> QED BY <1>0, <2>3, <2>4, <2>6, <4>2, GotoInside DEF Upheld
    <3> QED BY <3>1, <3>2
  <2> QED BY <1>0, <2>1, <2>5, <2>6, AfterFillFields
<1>8. CASE JoinRefresh(w) \/ JoinEnter(w)
  <2>1. PICK t : t = Answer(w, "enter")
    OBVIOUS
  <2>2. t.at = "unlock" /\ t.answer = "enter" /\ t.user = u
    BY <1>0, <2>1, AnswerFields
  <2>3. /\ Goto(w, t) /\ opLock' = opLock
        /\ activeMembers' = activeMembers \cup {u}
        /\ activeSession' = [activeSession EXCEPT ![u] = SessionTTL]
    BY <1>8, <2>1 DEF JoinRefresh, JoinEnter, StayInside, InTheRoom, Enter
  <2>4. NoGhosts'
    BY <1>0, <2>3 DEF NoGhosts, TypeOK
  <2>5. Upheld(t)'
    BY <2>2, <2>3 DEF Upheld
  <2> QED BY <1>0, <2>3, <2>4, <2>5, GotoInside
<1>9. CASE JoinWait(w)
  <2>1. PICK t : t = [At(w, "slotKey") EXCEPT !.part = "position"]
    OBVIOUS
  <2>2. /\ Goto(w, t) /\ opLock' = opLock /\ activeMembers' = activeMembers
        /\ activeSession' = [activeSession EXCEPT ![u] = 0]
    BY <1>9, <2>1 DEF JoinWait, StandInLine
  <2>3. NoGhosts'
    BY <1>0, <2>2 DEF NoGhosts, TypeOK
  <2> QED BY <1>0, <2>1, <2>2, <2>3, PositionUnclaiming, GotoInside, UnclaimingUpheld
<1>10. CASE SlotKey(w)
  <2>1. UNCHANGED <<keys, opLock>>
    BY <1>10 DEF SlotKey
  <2>2. CASE activeSession[u] > 0
    <3>1. PICK t : t = At(w, "slotMember")
      OBVIOUS
    <3>2. t.at = "slotMember" /\ t.user = u /\ Goto(w, t)
      BY <1>0, <1>10, <2>2, <3>1, StageFields DEF SlotKey
    <3>3. Upheld(t)' /\ NoGhosts'
      BY <1>0, <2>1, <2>2, <3>2 DEF Upheld, NoGhosts, keys
    <3> QED BY <1>0, <2>1, <3>2, <3>3, GotoInside
  <2>3. CASE ~(activeSession[u] > 0)
    BY <1>0, <1>1, <1>10, <2>1, <2>3, NotInRoomUnclaiming DEF SlotKey
  <2> QED BY <2>2, <2>3
<1>11. CASE SlotMember(w)
  <2>1. UNCHANGED <<keys, opLock>> /\ u \in activeMembers
    BY <1>0, <1>11 DEF SlotMember, Upheld
  <2>2. PICK t : t = InRoom(w)
    OBVIOUS
  <2>3. Goto(w, t)
    BY <1>11, <2>1, <2>2 DEF SlotMember
  <2>4. Upheld(t)' /\ NoGhosts'
    BY <1>0, <2>1, <2>2, InRoomFields DEF Upheld, NoGhosts, keys
  <2> QED BY <1>0, <2>1, <2>3, <2>4, GotoInside
<1>12. CASE SlotGhost(w)
  BY <1>0, <1>12 DEF SlotGhost, Upheld
<1>13. CASE RefreshActive(w)
  <2>1. PICK t : t = Answer(w, "enter")
    OBVIOUS
  <2>2. t.at = "unlock" /\ t.answer = "enter" /\ t.user = u
    BY <1>0, <2>1, AnswerFields
  <2>3. /\ Goto(w, t) /\ opLock' = opLock /\ activeMembers' = activeMembers
        /\ u \in activeMembers
        /\ \A x \in Users \ {u} : activeSession'[x] = activeSession[x]
    BY <1>0, <1>13, <2>1 DEF RefreshActive, ExtendSession, Upheld, TypeOK
  <2>4. NoGhosts'
    BY <1>0, <2>3 DEF NoGhosts
  <2>5. Upheld(t)'
    BY <2>2, <2>3 DEF Upheld
  <2> QED BY <1>0, <2>3, <2>4, <2>5, GotoInside
<1>14. CASE QueueKey(w)
  <2>1. UNCHANGED <<keys, opLock>>
    BY <1>14 DEF QueueKey
  <2>2. CASE queueSession[u] = 0
    <3>1. PICK t : t = At(w, "dropMyself")
      OBVIOUS
    <3>2. t.at = "dropMyself" /\ t.user = u /\ Goto(w, t)
      BY <1>0, <1>14, <2>2, <3>1, StageFields DEF QueueKey
    <3>3. Upheld(t)' /\ NoGhosts'
      BY <1>0, <2>1, <2>2, <3>2 DEF Upheld, NoGhosts, keys
    <3> QED BY <1>0, <2>1, <3>2, <3>3, GotoInside
  <2>3. CASE queueSession[u] # 0
    <3>1. PICK stage \in {"refreshQueue", "rank"} : Goto(w, At(w, stage))
      BY <1>14, <2>3 DEF QueueKey
    <3>2. Unclaiming(At(w, stage))
      BY <1>0, StageFields DEF Unclaiming
    <3> QED BY <1>1, <2>1, <3>1, <3>2
  <2> QED BY <2>2, <2>3
<1>15. CASE DropMyself(w)
  <2>1. Goto(w, Answer(w, "notInQueue")) /\ opLock' = opLock
        /\ UNCHANGED <<activeMembers, activeSession>>
    BY <1>15 DEF DropMyself, RemoveWaiters
  <2>2. NoGhosts' /\ Unclaiming(Answer(w, "notInQueue"))
    BY <1>0, <2>1, AnswerFields DEF NoGhosts, Unclaiming
  <2> QED BY <1>0, <2>1, <2>2, GotoInside, UnclaimingUpheld
<1>16. CASE RefreshQueue(w)
  <2>1. Goto(w, At(w, "fill")) /\ opLock' = opLock
        /\ UNCHANGED <<activeMembers, activeSession>>
    BY <1>16 DEF RefreshQueue, ExtendWait
  <2>2. NoGhosts' /\ Unclaiming(At(w, "fill"))
    BY <1>0, <2>1, StageFields DEF NoGhosts, Unclaiming
  <2> QED BY <1>0, <2>1, <2>2, GotoInside, UnclaimingUpheld
<1>17. CASE Rank(w)
  <2>1. UNCHANGED <<keys, opLock>>
    BY <1>17 DEF Rank
  <2>2. CASE u \in queue
    <3>1. PICK t : t = Answer(w, "wait")
      OBVIOUS
    <3>2. t.at = "unlock" /\ t.answer = "wait" /\ t.user = u /\ Goto(w, t)
      BY <1>0, <1>17, <2>2, <3>1, AnswerFields DEF Rank
    <3>3. Upheld(t)' /\ NoGhosts'
      BY <1>0, <2>1, <2>2, <3>2 DEF Upheld, NoGhosts, keys
    <3> QED BY <1>0, <2>1, <3>2, <3>3, GotoInside
  <2>3. CASE u \notin queue
    <3>1. Goto(w, Answer(w, "notInQueue"))
      BY <1>17, <2>3 DEF Rank
    <3>2. Unclaiming(Answer(w, "notInQueue"))
      BY <1>0, AnswerFields DEF Unclaiming
    <3> QED BY <1>1, <2>1, <3>1, <3>2
  <2> QED BY <2>2, <2>3
<1>18. CASE RemoveUser(w)
  <2>1. /\ Goto(w, At(w, "fill")) /\ opLock' = opLock
        /\ activeMembers' = activeMembers \ {u}
        /\ activeSession' = [activeSession EXCEPT ![u] = 0]
    BY <1>18 DEF RemoveUser, Forget
  <2>2. NoGhosts' /\ Unclaiming(At(w, "fill"))
    BY <1>0, <2>1, StageFields DEF NoGhosts, Unclaiming, TypeOK
  <2> QED BY <1>0, <2>1, <2>2, GotoInside, UnclaimingUpheld
<1> QED BY <1>2, <1>3, <1>4, <1>5, <1>6, <1>7, <1>8, <1>9, <1>10, <1>11, <1>12, <1>13, <1>14,
           <1>15, <1>16, <1>17, <1>18 DEF Proceed

LEMMA SerialStep == Kept /\ Serial /\ ~Overstay /\ [Next]_vars => Serial'
<1> SUFFICES ASSUME Kept, Serial, ~Overstay, [Next]_vars PROVE Serial'
  OBVIOUS
<1>1. CASE UNCHANGED vars
  <2>1. UNCHANGED <<activeMembers, activeSession, queue, queueSession, opLock, tx>>
    BY <1>1 DEF vars, keys
  <2> QED BY <2>1 DEF Serial, Inside, OneOperationAtATime, NoGhosts, Upheld, Full, Waiters
<1>2. late = {}
  BY DEF Kept, OnTime
<1>3. \A w \in Requests : ~TimeOut(w)
  BY DEF TimeOut
<1> QED BY <1>1, <1>2, <1>3, SerialTick, SerialOutside, SerialFailing, SerialProceed DEF Next, Fail

LEMMA InitSerial == Init => Serial
<1> SUFFICES ASSUME Init PROVE Serial
  OBVIOUS
<1>1. \A w \in Requests : tx[w].at = "idle"
  BY DEF Init, Idle
<1>2. \A w \in Requests : Upheld(tx[w])
  BY <1>1, UnclaimingUpheld DEF Unclaiming
<1> QED BY <1>1, <1>2 DEF Init, Serial, Inside, OneOperationAtATime, NoGhosts

\* The inductive invariant of operations that end before their lock expires.
THEOREM QueueSerial == ~Overstay => (Spec => [](Kept /\ Serial))
<1> SUFFICES ASSUME ~Overstay PROVE Spec => [](Kept /\ Serial)
  OBVIOUS
<1>1. Init => Kept /\ Serial
  BY InitKept, InitSerial
<1>2. Kept /\ Serial /\ [Next]_vars => (Kept /\ Serial)'
  BY KeptStep, SerialStep
<1> QED BY <1>1, <1>2, PTL DEF Spec

-----------------------------------------------------------------------------
(* What follows from it.                                                   *)

\* The operation lock excludes other operations.
THEOREM OperationsExclude == ~Overstay => (Spec => []OneOperationAtATime)
BY QueueSerial, PTL DEF Serial

\* Every active-user key belongs to a member of the room.
THEOREM KeysHaveMembers == ~Overstay => (Spec => []NoGhosts)
BY QueueSerial, PTL DEF Serial

LEMMA UpheldAnswers == Serial => AnswersHold
BY DEF Serial, Upheld, AnswersHold

\* What an operation answers is so when it releases the lock.
THEOREM AnswersStand == ~Overstay => (Spec => []AnswersHold)
BY QueueSerial, UpheldAnswers, PTL

-----------------------------------------------------------------------------
(* Who moves.                                                              *)

\* The steps that touch the room or the line.
Moves(w) ==
  \/ Fill(w) \/ DropQueue(w) \/ DropActive(w) \/ JoinEnter(w) \/ JoinWait(w)
  \/ DropMyself(w) \/ RemoveUser(w)

LEMMA OnlyMovesMove ==
  ASSUME [Next]_vars, ~(UNCHANGED <<activeMembers, queue, ahead>>)
  PROVE  (\E w \in Requests : Moves(w)) \/ (\E c \in late : Arrive(c))
<1>1. ASSUME NEW w \in Requests,
             \/ ListQueue(w) \/ CheckQueue(w) \/ ListActive(w) \/ CheckActive(w)
             \/ SlotKey(w) \/ SlotMember(w) \/ QueueKey(w) \/ Rank(w) \/ Unlock(w)
      PROVE  FALSE
  BY <1>1 DEF ListQueue, CheckQueue, ListActive, CheckActive, Check, SlotKey, SlotMember,
              QueueKey, Rank, Unlock, keys
<1>2. ASSUME NEW w \in Requests,
             \/ JoinRefresh(w) \/ SlotGhost(w) \/ RefreshActive(w) \/ RefreshQueue(w)
             \/ Acquire(w) \/ Fail(w) \/ \E op \in Operations, u \in Users : Begin(w, op, u)
      PROVE  FALSE
  BY <1>2 DEF JoinRefresh, StayInside, SlotGhost, DropSession, RefreshActive, ExtendSession,
              RefreshQueue, ExtendWait, Acquire, Fail, GiveUp, AcquireUnseen, Fault, FaultIgnored,
              Abandon, TimeOut, Begin, keys
<1>3. ~Tick /\ ~(UNCHANGED vars)
  BY DEF Tick, vars, keys
<1> QED BY <1>1, <1>2, <1>3 DEF Next, Proceed, Moves

LEMMA LivePlaceStep ==
  ASSUME Kept, Serial, ~Overstay, [Next]_vars, NEW u \in Users, ~LeavesNow(u)
  PROVE  /\ u \in queue /\ queueSession[u] > 0 => u \in queue' \cup activeMembers'
         /\ u \in activeMembers /\ activeSession[u] > 0 => u \in activeMembers'
<1>1. CASE UNCHANGED <<activeMembers, queue, ahead>>
  BY <1>1
<1>2. CASE ~(UNCHANGED <<activeMembers, queue, ahead>>)
  <2>1. PICK w \in Requests : Moves(w)
    BY <1>2, OnlyMovesMove DEF Kept, OnTime
  <2>2. Upheld(tx[w])
    BY DEF Serial
  <2>3. CASE Fill(w)
    BY <2>3 DEF Fill, FillSlots, Dequeue, Waiters
  <2>4. CASE DropQueue(w)
    BY <2>2, <2>4 DEF DropQueue, RemoveWaiters, Dequeue, Upheld
  <2>5. CASE DropActive(w)
    BY <2>2, <2>5 DEF DropActive, RemoveMembers, Upheld
  <2>6. CASE JoinEnter(w)
    BY <2>6 DEF JoinEnter, Enter, Dequeue
  <2>7. CASE JoinWait(w)
    BY <2>7 DEF JoinWait, StandInLine, Enqueue
  <2>8. CASE DropMyself(w)
    BY <2>2, <2>8 DEF DropMyself, RemoveWaiters, Dequeue, Upheld
  <2>9. CASE RemoveUser(w)
    BY <2>9 DEF RemoveUser, Forget, Dequeue, LeavesNow
  <2> QED BY <2>1, <2>3, <2>4, <2>5, <2>6, <2>7, <2>8, <2>9 DEF Moves
<1> QED BY <1>1, <1>2

\* A live user is removed only by leaving.
THEOREM LiveUsersStay == ~Overstay => (Spec => LiveUsersKeepTheirPlace)
<1> SUFFICES ASSUME ~Overstay PROVE Spec => LiveUsersKeepTheirPlace
  OBVIOUS
<1>1. Kept /\ Serial /\ [Next]_vars =>
        [\A u \in Users : ~LeavesNow(u) =>
           /\ u \in queue /\ queueSession[u] > 0 => u \in queue' \cup activeMembers'
           /\ u \in activeMembers /\ activeSession[u] > 0 => u \in activeMembers']_vars
  BY LivePlaceStep
<1> QED BY <1>1, QueueSerial, PTL DEF Spec, LiveUsersKeepTheirPlace

LEMMA OvertakingStep ==
  ASSUME Kept, Serial, ~Overstay, [Next]_vars, NEW u \in Users, NEW v \in Users,
         u \in activeMembers' \ activeMembers, v \in queue \ {u}, queueSession[v] > 0,
         u \in queue => <<v, u>> \in ahead
  PROVE  v \in activeMembers'
<1>1. PICK w \in Requests : Moves(w)
  BY OnlyMovesMove DEF Kept, OnTime
<1>2. CASE Fill(w)
  <2>1. activeMembers' = activeMembers \cup Waiters(Popped)
    BY <1>2 DEF Fill, FillSlots
  <2>2. u \in Popped /\ <<v, u>> \in ahead
    BY <2>1 DEF Waiters, Popped
  <2>3. v \in Popped
    BY <2>2, PoppedFront DEF Kept
  <2> QED BY <2>1, <2>3 DEF Waiters
<1>3. CASE JoinEnter(w)
  <2>1. Upheld(tx[w])
    BY DEF Serial
  <2>2. queue = {}
    BY <1>3, <2>1 DEF JoinEnter, Enter, Upheld
  <2> QED BY <2>2
<1>4. CASE DropQueue(w) \/ JoinWait(w) \/ DropMyself(w)
  BY <1>4 DEF DropQueue, JoinWait, DropMyself, RemoveWaiters, StandInLine
<1>5. CASE DropActive(w) \/ RemoveUser(w)
  BY <1>5 DEF DropActive, RemoveUser, RemoveMembers, Forget
<1> QED BY <1>1, <1>2, <1>3, <1>4, <1>5 DEF Moves

\* Nobody enters past a live waiter who came before.
THEOREM NobodyOvertakes == ~Overstay => (Spec => NoOvertaking)
<1> SUFFICES ASSUME ~Overstay PROVE Spec => NoOvertaking
  OBVIOUS
<1>1. Kept /\ Serial /\ [Next]_vars =>
        [\A u, v \in Users :
           /\ u \in activeMembers' \ activeMembers
           /\ v \in queue \ {u} /\ queueSession[v] > 0
           /\ u \in queue => <<v, u>> \in ahead
           => v \in activeMembers']_vars
  BY OvertakingStep
<1> QED BY <1>1, QueueSerial, PTL DEF Spec, NoOvertaking

LEMMA LineStep ==
  ASSUME Kept, [Next]_vars, NEW p \in ahead
  PROVE  <<p[2], p[1]>> \notin ahead'
<1>1. PICK a \in queue, b \in queue : p = <<a, b>> /\ <<a, b>> \in ahead
  BY DEF Kept, Typed, TypeOK
<1>2. <<b, a>> \notin ahead
  BY <1>1 DEF Kept, Typed, OneLine
<1>3. <<b, a>> \notin ahead'
  <2>1. CASE UNCHANGED <<activeMembers, queue, ahead>>
    BY <1>2, <2>1
  <2>2. CASE ~(UNCHANGED <<activeMembers, queue, ahead>>)
    <3>1. ASSUME NEW S, Dequeue(S) PROVE <<b, a>> \notin ahead'
      BY <1>2, <3>1 DEF Dequeue
    <3>2. ASSUME NEW u, Enqueue(u) PROVE <<b, a>> \notin ahead'
      BY <1>1, <1>2, <3>2 DEF Enqueue
    <3>3. (\E w \in Requests : Proceed(w)) \/ (\E c \in late : Arrive(c))
      BY <2>2, OnlyMovesMove DEF Moves, Proceed
    <3>4. Effect
      BY <2>2, <3>3, ProceedEffect, ArriveEffect DEF Kept, Typed, TypeOK, keys
    <3>5. CASE FillSlots
      BY <3>1, <3>5 DEF FillSlots
    <3>6. CASE \E S : RemoveWaiters(S) \/ RemoveMembers(S)
      BY <1>2, <3>1, <3>6 DEF RemoveWaiters, RemoveMembers
    <3>7. CASE \E u \in Users : Enter(u) \/ Forget(u)
      BY <3>1, <3>7 DEF Enter, Forget
    <3>8. CASE \E u \in Users : StandInLine(u)
      BY <3>2, <3>8 DEF StandInLine
    <3>9. CASE \E u \in Users : StayInside(u) \/ DropSession(u) \/ ExtendSession(u) \/ ExtendWait(u)
      BY <1>2, <3>9 DEF StayInside, DropSession, ExtendSession, ExtendWait
    <3> QED BY <3>4, <3>5, <3>6, <3>7, <3>8, <3>9 DEF Effect
  <2> QED BY <2>1, <2>2
<1> QED BY <1>1, <1>3

\* No two waiters change places, even when operations overlap.
THEOREM PlacesKept == Spec => LineIsKept
<1>1. Kept /\ [Next]_vars => [\A p \in ahead : <<p[2], p[1]>> \notin ahead']_vars
  BY LineStep
<1> QED BY <1>1, QueueKept, PTL DEF Spec, LineIsKept

=============================================================================
