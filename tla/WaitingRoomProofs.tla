-------------------------- MODULE WaitingRoomProofs --------------------------
(***************************************************************************)
(* VirtualQueue implements WaitingRoom: as long as no operation outlasts    *)
(* its lock, every command that touches the keys is one change of the room, *)
(* whichever commands fail, and everything else is a stutter.               *)
(***************************************************************************)
EXTENDS VirtualQueueSerialProofs

\* Whose session in the room, or in line, is live: a key with ticks left.
Entered == {u \in Users : activeSession[u] > 0}
Queued == {u \in Users : queueSession[u] > 0}

\* The mapping of the instance.
LEMMA RoomVars ==
  ASSUME UNCHANGED <<activeMembers, queue, ahead, Entered, Queued>>
  PROVE  UNCHANGED Room!vars
BY DEF Room!vars, Entered, Queued

\* The instance counts like the module itself.
LEMMA SameCount == \A S : Room!Cardinality(S) = Cardinality(S)
BY DEF Cardinality, Room!Cardinality

\* One session more, or one less.
LEMMA SessionStarts ==
  ASSUME NEW session \in [Users -> 0 .. SessionTTL], NEW u \in Users
  PROVE  {x \in Users : [session EXCEPT ![u] = SessionTTL][x] > 0}
           = {x \in Users : session[x] > 0} \cup {u}
BY LimitsAssumption

LEMMA SessionEnds ==
  ASSUME NEW session \in [Users -> 0 .. SessionTTL], NEW u \in Users
  PROVE  {x \in Users : [session EXCEPT ![u] = 0][x] > 0}
           = {x \in Users : session[x] > 0} \ {u}
OBVIOUS

\* An EXPIRE of a key changes no set of sessions.
LEMMA SessionRefreshed ==
  ASSUME NEW session \in [Users -> 0 .. SessionTTL], NEW u \in Users
  PROVE  {x \in Users : [session EXCEPT ![u] = IF @ > 0 THEN SessionTTL ELSE 0][x] > 0}
           = {x \in Users : session[x] > 0}
BY LimitsAssumption

LEMMA WaitersQueued ==
  ASSUME Typed, NEW P \in SUBSET queue
  PROVE  Waiters(P) = P \cap Queued
BY DEF Waiters, Queued, Typed, TypeOK

-----------------------------------------------------------------------------
(* The steps that move somebody.                                           *)

\* fillSlotsLua admits the first in line, as many as there are slots.
LEMMA FillAdmits ==
  ASSUME Kept, NEW w \in Requests, Fill(w)
  PROVE  Room!Next
<1>1. PICK P : P = Popped
  OBVIOUS
<1>2. P \in SUBSET queue /\ queue \subseteq Users /\ P \in SUBSET Users
  BY <1>1 DEF Popped, Kept, Typed, TypeOK
<1>3. Waiters(P) = P \cap Queued
  BY <1>2, WaitersQueued DEF Kept
<1>4. PICK A : A = P \cap Queued
  OBVIOUS
<1>5. /\ activeMembers' = activeMembers \cup A
      /\ activeSession' = [u \in Users |-> IF u \in A THEN SessionTTL ELSE activeSession[u]]
      /\ queueSession' = [u \in Users |-> IF u \in A THEN 0 ELSE queueSession[u]]
      /\ queue' = queue \ P
      /\ ahead' = {p \in ahead : p[1] \notin P /\ p[2] \notin P}
  BY <1>1, <1>3, <1>4 DEF Fill, FillSlots, Dequeue
<1>6. \A p \in ahead : p[2] \in P => p[1] \in P
  <2> SUFFICES ASSUME NEW p \in ahead, p[2] \in P PROVE p[1] \in P
    OBVIOUS
  <2>1. p[1] \in queue /\ p = <<p[1], p[2]>>
    BY DEF Kept, Typed, TypeOK
  <2> QED BY <1>1, <2>1, PoppedFront DEF Kept
<1>7. Cardinality(activeMembers') <= MaxActive
  BY <1>1, <1>3, <1>4, <1>5, PoppedFits DEF Kept
<1>8. queue = P \/ Cardinality(activeMembers') = MaxActive
  <2>1. CASE P # queue
    <3>1. Cardinality(activeMembers') >= MaxActive
      BY <1>1, <1>3, <1>4, <1>5, <2>1, PoppedFills DEF Kept, Full
    <3>2. Cardinality(activeMembers') \in Nat
      <4>1. activeMembers' \subseteq Users
        BY <1>2, <1>4, <1>5 DEF Kept, Typed, TypeOK
      <4>2. IsFiniteSet(activeMembers')
        BY <4>1, UsersAssumption, FS_Subset
      <4> QED BY <4>2, FS_CardinalityType
    <3>3. MaxActive \in Nat
      BY LimitsAssumption
    <3> QED BY <1>7, <3>1, <3>2, <3>3
  <2> QED BY <2>1
<1>9. A \subseteq Users /\ SessionTTL > 0
  BY <1>2, <1>4, LimitsAssumption
<1>10. {u \in Users : activeSession'[u] > 0} = {u \in Users : activeSession[u] > 0} \cup A
  BY <1>5, <1>9
<1>11. {u \in Users : queueSession'[u] > 0} = {u \in Users : queueSession[u] > 0} \ A
  BY <1>5, <1>9
<1>12. A = P \cap {u \in Users : queueSession[u] > 0}
  BY <1>4 DEF Queued
<1>13. Room!Unline(P)
  BY <1>5 DEF Room!Unline
<1>14. Room!Admit(P)
  BY <1>2, <1>5, <1>6, <1>7, <1>8, <1>10, <1>11, <1>12, <1>13, SameCount DEF Room!Admit
<1> QED BY <1>2, <1>14 DEF Room!Next

\* pruneExpired forgets waiters and members without a session.
LEMMA DropForgets ==
  ASSUME Kept, Serial, NEW w \in Requests, DropQueue(w) \/ DropActive(w)
  PROVE  Room!Next
<1>1. PICK S : S = tx[w].stale
  OBVIOUS
<1>2. S \in SUBSET Users /\ Upheld(tx[w])
  <2>1. tx[w] \in Request
    BY BusyTyped DEF Kept, Typed, TypeOK, DropQueue, DropActive
  <2> QED BY <1>1, <2>1 DEF Request, Serial
<1>3. CASE DropQueue(w)
  <2>1. S \cap {u \in Users : queueSession[u] > 0} = {}
    BY <1>1, <1>2, <1>3 DEF DropQueue, Upheld
  <2>2. Room!ForgetWaiters(S)
    BY <1>1, <1>3, <2>1 DEF DropQueue, RemoveWaiters, Dequeue, Room!ForgetWaiters, Room!Unline
  <2> QED BY <1>2, <2>2 DEF Room!Next
<1>4. CASE DropActive(w)
  <2>1. S \cap {u \in Users : activeSession[u] > 0} = {}
    BY <1>1, <1>2, <1>4 DEF DropActive, Upheld
  <2>2. Room!ForgetMembers(S)
    BY <1>1, <1>4, <2>1 DEF DropActive, RemoveMembers, Room!ForgetMembers
  <2> QED BY <1>2, <2>2 DEF Room!Next
<1> QED BY <1>3, <1>4

\* joinLua lets a user in, or gives him the last place in line.
LEMMA JoinEntersOrWaits ==
  ASSUME Kept, Serial, NEW w \in Requests, JoinEnter(w) \/ JoinWait(w)
  PROVE  Room!Next
<1>1. PICK u : u = tx[w].user
  OBVIOUS
<1>2. u \in Users /\ Upheld(tx[w]) /\ tx[w].at = "joinScript"
  <2>1. tx[w] \in Request
    BY BusyTyped DEF Kept, Typed, TypeOK, JoinEnter, JoinWait
  <2> QED BY <1>1, <2>1 DEF Request, Serial, JoinEnter, JoinWait
<1>3. /\ activeSession \in [Users -> 0 .. SessionTTL]
      /\ queueSession \in [Users -> 0 .. SessionTTL]
  BY DEF Kept, Typed, TypeOK
<1>4. Full({}) <=> ~Room!HasSlot
  <2>1. activeMembers \cup Waiters({}) = activeMembers
    BY DEF Waiters
  <2>2. IsFiniteSet(activeMembers)
    BY UsersAssumption, FS_Subset DEF Kept, Typed, TypeOK
  <2>3. Cardinality(activeMembers) \in Nat /\ MaxActive \in Nat
    BY <2>2, FS_CardinalityType, LimitsAssumption
  <2> QED BY <2>1, <2>3, SameCount DEF Full, Room!HasSlot
<1>5. CASE JoinEnter(w)
  <2>1. ~Full({})
    BY <1>5 DEF JoinEnter, Enter
  <2>2. queue = {} /\ Room!HasSlot
    BY <1>2, <1>4, <2>1 DEF Upheld
  <2>3. /\ activeSession' = [activeSession EXCEPT ![u] = SessionTTL]
        /\ queueSession' = [queueSession EXCEPT ![u] = 0]
        /\ activeMembers' = activeMembers \cup {u}
        /\ queue' = queue \ {u}
        /\ ahead' = {p \in ahead : p[1] \notin {u} /\ p[2] \notin {u}}
    BY <1>1, <1>5 DEF JoinEnter, Enter, Dequeue
  <2>4. {x \in Users : activeSession'[x] > 0} = {x \in Users : activeSession[x] > 0} \cup {u}
    BY <1>2, <1>3, <2>3, SessionStarts
  <2>5. {x \in Users : queueSession'[x] > 0} = {x \in Users : queueSession[x] > 0} \ {u}
    BY <1>2, <1>3, <2>3, SessionEnds
  <2>6. Room!Enter(u)
    BY <2>2, <2>3, <2>4, <2>5 DEF Room!Enter, Room!Unline
  <2> QED BY <1>2, <2>6 DEF Room!Next
<1>6. CASE JoinWait(w)
  <2>1. ~Room!HasSlot
    BY <1>4, <1>6 DEF JoinWait, StandInLine
  <2>2. ~(activeSession[u] > 0)
    BY <1>1, <1>2, <1>6 DEF JoinWait, StandInLine, InTheRoom, Serial, NoGhosts
  <2>3. /\ activeSession' = [activeSession EXCEPT ![u] = 0]
        /\ queueSession' = [queueSession EXCEPT ![u] = SessionTTL]
        /\ activeMembers' = activeMembers
        /\ queue' = queue \cup {u}
        /\ ahead' = IF u \in queue THEN ahead ELSE ahead \cup (queue \X {u})
    BY <1>1, <1>6 DEF JoinWait, StandInLine, Enqueue
  <2>4. {x \in Users : activeSession'[x] > 0} = {x \in Users : activeSession[x] > 0}
    BY <1>2, <1>3, <2>2, <2>3, SessionEnds
  <2>5. {x \in Users : queueSession'[x] > 0} = {x \in Users : queueSession[x] > 0} \cup {u}
    BY <1>2, <1>3, <2>3, SessionStarts
  <2>6. Room!Wait(u)
    BY <2>1, <2>2, <2>3, <2>4, <2>5 DEF Room!Wait
  <2> QED BY <1>2, <2>6 DEF Room!Next
<1> QED BY <1>5, <1>6

\* Leave, and a waiter who finds his session gone.
LEMMA UserGoes ==
  ASSUME Kept, Serial, NEW w \in Requests, DropMyself(w) \/ RemoveUser(w)
  PROVE  Room!Next
<1>1. PICK u : u = tx[w].user
  OBVIOUS
<1>2. u \in Users /\ {u} \in SUBSET Users /\ Upheld(tx[w])
  <2>1. tx[w] \in Request
    BY BusyTyped DEF Kept, Typed, TypeOK, DropMyself, RemoveUser
  <2> QED BY <1>1, <2>1 DEF Request, Serial
<1>3. CASE DropMyself(w)
  <2>1. {u} \cap {x \in Users : queueSession[x] > 0} = {}
    BY <1>1, <1>2, <1>3 DEF DropMyself, Upheld
  <2>2. Room!ForgetWaiters({u})
    BY <1>1, <1>3, <2>1 DEF DropMyself, RemoveWaiters, Dequeue, Room!ForgetWaiters, Room!Unline
  <2> QED BY <1>2, <2>2 DEF Room!Next
<1>4. CASE RemoveUser(w)
  <2>1. /\ activeSession' = [activeSession EXCEPT ![u] = 0]
        /\ queueSession' = [queueSession EXCEPT ![u] = 0]
        /\ activeMembers' = activeMembers \ {u}
        /\ queue' = queue \ {u}
        /\ ahead' = {p \in ahead : p[1] \notin {u} /\ p[2] \notin {u}}
    BY <1>1, <1>4 DEF RemoveUser, Forget, Dequeue
  <2>2. {x \in Users : activeSession'[x] > 0} = {x \in Users : activeSession[x] > 0} \ {u}
    BY <1>2, <2>1, SessionEnds DEF Kept, Typed, TypeOK
  <2>3. {x \in Users : queueSession'[x] > 0} = {x \in Users : queueSession[x] > 0} \ {u}
    BY <1>2, <2>1, SessionEnds DEF Kept, Typed, TypeOK
  <2>4. Room!Leave(u)
    BY <2>1, <2>2, <2>3 DEF Room!Leave, Room!Unline
  <2> QED BY <1>2, <2>4 DEF Room!Next
<1> QED BY <1>3, <1>4

-----------------------------------------------------------------------------
(* The other steps.                                                        *)

\* Time only ends sessions.
LEMMA TickLapses ==
  ASSUME Kept, Tick
  PROVE  Room!Next
<1>1. /\ activeSession' = [u \in Users |-> OneLess(activeSession[u])]
      /\ queueSession' = [u \in Users |-> OneLess(queueSession[u])]
      /\ UNCHANGED <<activeMembers, queue, ahead>>
  BY DEF Tick
<1>2. \A u \in Users : (activeSession'[u] > 0 => activeSession[u] > 0)
                    /\ (queueSession'[u] > 0 => queueSession[u] > 0)
  BY <1>1, LimitsAssumption DEF OneLess, Kept, Typed, TypeOK
<1>3. /\ {u \in Users : activeSession'[u] > 0} \in SUBSET {u \in Users : activeSession[u] > 0}
      /\ {u \in Users : queueSession'[u] > 0} \in SUBSET {u \in Users : queueSession[u] > 0}
  BY <1>2
<1>4. Room!Lapse
  BY <1>1, <1>3 DEF Room!Lapse
<1> QED BY <1>4 DEF Room!Next

\* Refreshed sessions, and steps that touch no key.
LEMMA RefreshStutters ==
  ASSUME Kept, NEW w \in Requests, JoinRefresh(w) \/ RefreshActive(w) \/ RefreshQueue(w)
  PROVE  UNCHANGED Room!vars
<1>1. PICK u : u = tx[w].user
  OBVIOUS
<1>2. u \in Users
  <2>1. tx[w] \in Request
    BY BusyTyped DEF Kept, Typed, TypeOK, JoinRefresh, RefreshActive, RefreshQueue
  <2> QED BY <1>1, <2>1 DEF Request
<1>3. /\ activeSession \in [Users -> 0 .. SessionTTL]
      /\ queueSession \in [Users -> 0 .. SessionTTL]
  BY DEF Kept, Typed, TypeOK
<1>4. CASE JoinRefresh(w)
  <2>1. /\ activeSession' = [activeSession EXCEPT ![u] = SessionTTL] /\ activeSession[u] > 0
        /\ UNCHANGED <<activeMembers, queue, ahead, queueSession>>
    BY <1>1, <1>4 DEF JoinRefresh, StayInside, InTheRoom
  <2>2. Entered' = Entered /\ Queued' = Queued
    BY <1>2, <1>3, <2>1, SessionStarts DEF Entered, Queued
  <2> QED BY <2>1, <2>2, RoomVars
<1>5. CASE RefreshActive(w)
  <2>1. /\ activeSession' = [activeSession EXCEPT ![u] = IF @ > 0 THEN SessionTTL ELSE 0]
        /\ UNCHANGED <<activeMembers, queue, ahead, queueSession>>
    BY <1>1, <1>5 DEF RefreshActive, ExtendSession
  <2>2. Entered' = Entered /\ Queued' = Queued
    BY <1>2, <1>3, <2>1, SessionRefreshed DEF Entered, Queued
  <2> QED BY <2>1, <2>2, RoomVars
<1>6. CASE RefreshQueue(w)
  <2>1. /\ queueSession' = [queueSession EXCEPT ![u] = IF @ > 0 THEN SessionTTL ELSE 0]
        /\ UNCHANGED <<activeMembers, queue, ahead, activeSession>>
    BY <1>1, <1>6 DEF RefreshQueue, ExtendWait
  <2>2. Entered' = Entered /\ Queued' = Queued
    BY <1>2, <1>3, <2>1, SessionRefreshed DEF Entered, Queued
  <2> QED BY <2>1, <2>2, RoomVars
<1> QED BY <1>4, <1>5, <1>6

LEMMA KeysStutter ==
  ASSUME UNCHANGED keys
  PROVE  UNCHANGED Room!vars
BY RoomVars DEF keys, Entered, Queued

LEMMA RoomStep ==
  ASSUME Kept, Serial, ~Overstay, [Next]_vars
  PROVE  [Room!Next]_(Room!vars)
<1>1. CASE UNCHANGED vars
  BY <1>1, KeysStutter DEF vars
<1>2. CASE Tick
  BY <1>2, TickLapses
<1>3. ASSUME NEW w \in Requests, \E op \in Operations, u \in Users : Begin(w, op, u)
      PROVE  UNCHANGED Room!vars
  BY <1>3, KeysStutter DEF Begin
<1>4. ASSUME NEW w \in Requests, Acquire(w) \/ Fail(w) PROVE UNCHANGED Room!vars
  BY <1>4, KeysStutter DEF Acquire, Fail, GiveUp, AcquireUnseen, Fault, FaultIgnored, Abandon, TimeOut
<1>5. ASSUME NEW w \in Requests, Proceed(w) PROVE [Room!Next]_(Room!vars)
  <2>1. CASE Moves(w)
    BY <2>1, FillAdmits, DropForgets, JoinEntersOrWaits, UserGoes DEF Moves
  <2>2. CASE JoinRefresh(w) \/ RefreshActive(w) \/ RefreshQueue(w)
    BY <2>2, RefreshStutters
  <2>3. CASE \/ ListQueue(w) \/ CheckQueue(w) \/ ListActive(w) \/ CheckActive(w)
             \/ SlotKey(w) \/ SlotMember(w) \/ QueueKey(w) \/ Rank(w) \/ Unlock(w)
    BY <2>3, KeysStutter DEF ListQueue, CheckQueue, ListActive, CheckActive, Check, SlotKey,
         SlotMember, QueueKey, Rank, Unlock
  <2>4. ~SlotGhost(w)
    BY DEF SlotGhost, Serial, Upheld
  <2> QED BY <1>5, <2>1, <2>2, <2>3, <2>4 DEF Proceed, Moves
<1>6. late = {}
  BY DEF Kept, OnTime
<1> QED BY <1>1, <1>2, <1>3, <1>4, <1>5, <1>6 DEF Next

\* The operations, of many commands each, with their failures and whatever is
\* given up halfway, look like changes of a waiting room at one instant each.
THEOREM QueueImplementsRoom == ~Overstay => (Spec => ImplementsRoom)
<1> SUFFICES ASSUME ~Overstay PROVE Spec => ImplementsRoom
  OBVIOUS
<1>1. Init => Room!Init
  BY DEF Init, Room!Init
<1>2. Kept /\ Serial /\ [Next]_vars => [Room!Next]_(Room!vars)
  BY RoomStep
<1> QED BY <1>1, <1>2, QueueSerial, PTL DEF Spec, ImplementsRoom, Room!Spec

=============================================================================
