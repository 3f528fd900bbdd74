---------------------------- MODULE VirtualQueue ----------------------------
(***************************************************************************)
(* The waiting room of one showtime: redisqueue.Manager on Redis.           *)
(*                                                                         *)
(* Every operation takes the showtime's operation lock, runs a handful of   *)
(* Redis commands and deletes the lock.  One command or one Lua script is  *)
(* one step; the commands of other requests and the passing of time come   *)
(* in between.  Keys with a TTL hold the ticks they have left, 0 when they  *)
(* do not exist.  The sorted set of the waiters is a set with the order of  *)
(* its scores, the times of arrival.                                       *)
(***************************************************************************)
EXTENDS Naturals, FiniteSets

CONSTANTS
  Users,       \* the users of the showtime
  Requests,    \* goroutines that serve HTTP requests
  NoUser,      \* the user of an idle goroutine
  MaxActive,   \* the showtime's queue limit, after clampActive
  SessionTTL,  \* m.ttl, in ticks
  LockTTL,     \* TTL of the operation lock, in ticks
  Overstay,    \* may an operation, or a command it gave up on, outlast its lock?
  MaxFaults    \* bound on failing commands, timeouts and lost requests

ASSUME UsersAssumption == IsFiniteSet(Users) /\ NoUser \notin Users
ASSUME LimitsAssumption ==
  /\ MaxActive \in Nat \ {0}
  /\ SessionTTL \in Nat \ {0}
  /\ LockTTL \in Nat \ {0}
  /\ MaxFaults \in Nat
  /\ Overstay \in BOOLEAN

VARIABLES
  activeMembers,  \* the set of users in the booking room
  activeSession,  \* per user: ticks left of the active-user key
  queue,          \* the members of the waiting users' sorted set
  ahead,          \* <<u, v>>: u and v wait and u came first
  queueSession,   \* per user: ticks left of the waiting user's key
  opLock,         \* ticks left of the operation lock
  tx,             \* what each request is doing
  late,           \* commands that timed out and are still on their way
  faults          \* failures so far

keys == <<activeMembers, activeSession, queue, ahead, queueSession>>

vars == <<keys, opLock, tx, late, faults>>

-----------------------------------------------------------------------------
(* Requests in flight.                                                     *)

Operations == {"join", "heartbeat", "leave", "status", "hasActiveSession"}

Stages == {"lock", "listQueue", "checkQueue", "listActive", "checkActive",
           "fill", "joinScript", "slotKey", "slotMember", "slotGhost",
           "refreshActive", "queueKey", "dropMyself", "refreshQueue", "rank",
           "removeUser", "unlock"}

\* part tells the calls of one helper from different places apart; todo and
\* stale are pruneExpired's members still to check and found without a key.
Request == [at : Stages, op : Operations, user : Users,
            part : {"prune", "serve", "position"},
            todo : SUBSET Users, stale : SUBSET Users,
            answer : {"none", "enter", "wait", "refused", "notInQueue", "left", "error"}]

\* A command on its way to Redis: the stage it belongs to, the users it is about.
Command == [does : Stages, to : SUBSET Users]

Idle == [at |-> "idle", op |-> "leave", user |-> NoUser, part |-> "serve",
         todo |-> {}, stale |-> {}, answer |-> "none"]

\* Between the SetNX of the operation lock and its Del.
Inside(w) == tx[w].at \notin {"idle", "lock"}

Goto(w, t) == tx' = [tx EXCEPT ![w] = t]

At(w, stage) == [tx[w] EXCEPT !.at = stage]

Answer(w, a) == [tx[w] EXCEPT !.at = "unlock", !.answer = a]

\* Mistake: only a join prunes.
PrunesOnJoin == {"join"}

\* The operations that call pruneExpired first.
Prunes == {"join", "status"}

\* Mistake: a join does not prune and fill the room first.
FirstStageHasty(op) ==
  CASE op = "status" -> "listQueue"
    [] op = "join" -> "joinScript"
    [] op = "leave" -> "removeUser"
    [] OTHER -> "slotKey"

FirstStage(op) ==
  CASE op \in Prunes -> "listQueue"
    [] op = "leave" -> "removeUser"
    [] OTHER -> "slotKey"

-----------------------------------------------------------------------------
(* The sorted set of the waiters.                                          *)

\* Mistake: removed members keep their places.
DequeueForgets(S) == queue' = queue \ S /\ UNCHANGED ahead

\* ZREM
Dequeue(S) ==
  /\ queue' = queue \ S
  /\ ahead' = {p \in ahead : p[1] \notin S /\ p[2] \notin S}

\* Mistake: ZADD without NX, a second join moves the user to the end.
EnqueueAgain(u) ==
  /\ queue' = queue \cup {u}
  /\ ahead' = {p \in ahead : p[1] # u} \cup ((queue \ {u}) \X {u})

\* ZADD NX
Enqueue(u) ==
  /\ queue' = queue \cup {u}
  /\ ahead' = IF u \in queue THEN ahead ELSE ahead \cup (queue \X {u})

\* The waiters in front of v.
Before(v) == {u \in queue : <<u, v>> \in ahead}

\* Mistake: whoever is popped is admitted, his session over or not.
WaitersAll(P) == P

\* Those of P whose session in line is not over.
Waiters(P) == {u \in P : queueSession[u] > 0}

\* Mistake: one more than the limit.
FullBeyond(P) == Cardinality(activeMembers \cup Waiters(P)) > MaxActive

\* No slot is left once the waiters of P have been promoted.
Full(P) == Cardinality(activeMembers \cup Waiters(P)) >= MaxActive

\* fillSlotsLua pops the head as long as the heads before left a slot.
Popped == {v \in queue : ~Full(Before(v))}

-----------------------------------------------------------------------------
(* What the commands that write do to the keys, whenever they are executed. *)

RemoveWaiters(S) ==
  /\ Dequeue(S)
  /\ UNCHANGED <<activeMembers, activeSession, queueSession>>

RemoveMembers(S) ==
  /\ activeMembers' = activeMembers \ S
  /\ UNCHANGED <<activeSession, queue, ahead, queueSession>>

\* fillSlotsLua
FillSlots ==
  LET promoted == Waiters(Popped) IN
  /\ activeMembers' = activeMembers \cup promoted
  /\ activeSession' = [u \in Users |-> IF u \in promoted THEN SessionTTL ELSE activeSession[u]]
  /\ queueSession' = [u \in Users |-> IF u \in promoted THEN 0 ELSE queueSession[u]]
  /\ Dequeue(Popped)

InTheRoom(u) == activeSession[u] > 0 /\ u \in activeMembers

\* joinLua: the user is in the room already.
StayInside(u) ==
  /\ InTheRoom(u)
  /\ activeSession' = [activeSession EXCEPT ![u] = SessionTTL]
  /\ UNCHANGED <<activeMembers, queue, ahead, queueSession>>

\* joinLua: a slot is free.
Enter(u) ==
  /\ ~InTheRoom(u) /\ ~Full({})
  /\ activeMembers' = activeMembers \cup {u}
  /\ activeSession' = [activeSession EXCEPT ![u] = SessionTTL]
  /\ queueSession' = [queueSession EXCEPT ![u] = 0]
  /\ Dequeue({u})

\* joinLua: no slot is free; an active-user key without membership is deleted.
StandInLine(u) ==
  /\ ~InTheRoom(u) /\ Full({})
  /\ activeSession' = [activeSession EXCEPT ![u] = 0]
  /\ queueSession' = [queueSession EXCEPT ![u] = SessionTTL]
  /\ Enqueue(u)
  /\ UNCHANGED activeMembers

DropSession(u) ==
  /\ activeSession' = [activeSession EXCEPT ![u] = 0]
  /\ UNCHANGED <<activeMembers, queue, ahead, queueSession>>

\* EXPIRE does nothing to a key that is gone.
ExtendSession(u) ==
  /\ activeSession' = [activeSession EXCEPT ![u] = IF @ > 0 THEN SessionTTL ELSE 0]
  /\ UNCHANGED <<activeMembers, queue, ahead, queueSession>>

ExtendWait(u) ==
  /\ queueSession' = [queueSession EXCEPT ![u] = IF @ > 0 THEN SessionTTL ELSE 0]
  /\ UNCHANGED <<activeMembers, activeSession, queue, ahead>>

\* Leave's transaction.
Forget(u) ==
  /\ activeMembers' = activeMembers \ {u}
  /\ activeSession' = [activeSession EXCEPT ![u] = 0]
  /\ queueSession' = [queueSession EXCEPT ![u] = 0]
  /\ Dequeue({u})

\* What Redis does with a command of a request in stage c.does, about the users c.to.
Execute(c) ==
  \/ c.does \in {"checkQueue", "dropMyself"} /\ RemoveWaiters(c.to)
  \/ c.does = "checkActive" /\ RemoveMembers(c.to)
  \/ c.does = "fill" /\ FillSlots
  \/ \E u \in c.to :
       \/ c.does = "joinScript" /\ (StayInside(u) \/ Enter(u) \/ StandInLine(u))
       \/ c.does = "slotGhost" /\ DropSession(u)
       \/ c.does = "refreshActive" /\ ExtendSession(u)
       \/ c.does = "refreshQueue" /\ ExtendWait(u)
       \/ c.does = "removeUser" /\ Forget(u)

-----------------------------------------------------------------------------
(* The operation lock.                                                     *)

Begin(w, op, u) ==
  /\ tx[w].at = "idle"
  /\ Goto(w, [Idle EXCEPT !.at = "lock", !.op = op, !.user = u])
  /\ UNCHANGED <<keys, opLock, late, faults>>

\* Mistake: the lock is taken whether it is there or not (SET for SETNX).
AcquireAlways(w) ==
  /\ tx[w].at = "lock"
  /\ opLock' = LockTTL
  /\ Goto(w, [tx[w] EXCEPT !.at = FirstStage(tx[w].op),
                           !.part = IF tx[w].op \in Prunes THEN "prune" ELSE "serve"])
  /\ UNCHANGED <<keys, late, faults>>

Acquire(w) ==
  /\ tx[w].at = "lock"
  /\ opLock = 0
  /\ opLock' = LockTTL
  /\ Goto(w, [tx[w] EXCEPT !.at = FirstStage(tx[w].op),
                           !.part = IF tx[w].op \in Prunes THEN "prune" ELSE "serve"])
  /\ UNCHANGED <<keys, late, faults>>

\* The deferred Del, which does not ask whose lock it is.
Unlock(w) ==
  /\ tx[w].at = "unlock"
  /\ opLock' = 0
  /\ Goto(w, Idle)
  /\ UNCHANGED <<keys, late, faults>>

-----------------------------------------------------------------------------
(* pruneExpired: members are listed, then checked one by one, then those    *)
(* found without a session key are removed.                                *)

ListQueue(w) ==
  /\ tx[w].at = "listQueue"
  /\ Goto(w, [tx[w] EXCEPT !.at = "checkQueue", !.todo = queue, !.stale = {}])
  /\ UNCHANGED <<keys, opLock, late, faults>>

ListActive(w) ==
  /\ tx[w].at = "listActive"
  /\ Goto(w, [tx[w] EXCEPT !.at = "checkActive", !.todo = activeMembers, !.stale = {}])
  /\ UNCHANGED <<keys, opLock, late, faults>>

\* EXISTS of one member's key, in any order.
Check(w, session) ==
  /\ \E m \in tx[w].todo :
       Goto(w, [tx[w] EXCEPT !.todo = @ \ {m},
                             !.stale = IF session[m] = 0 THEN @ \cup {m} ELSE @])
  /\ UNCHANGED <<keys, opLock, late, faults>>

\* Mistake: the waiters' active-user keys are looked up.
CheckQueueWrongKey(w) == tx[w].at = "checkQueue" /\ Check(w, activeSession)

CheckQueue(w) == tx[w].at = "checkQueue" /\ Check(w, queueSession)

CheckActive(w) == tx[w].at = "checkActive" /\ Check(w, activeSession)

DropQueue(w) ==
  /\ tx[w].at = "checkQueue" /\ tx[w].todo = {}
  /\ RemoveWaiters(tx[w].stale)
  /\ Goto(w, [tx[w] EXCEPT !.at = "listActive", !.stale = {}])
  /\ UNCHANGED <<opLock, late, faults>>

\* Mistake: every member that was listed is removed.
DropActiveAll(w) ==
  /\ tx[w].at = "checkActive" /\ tx[w].todo = {}
  /\ activeMembers' = {}
  /\ Goto(w, [tx[w] EXCEPT !.at = "fill", !.stale = {}])
  /\ UNCHANGED <<activeSession, queue, ahead, queueSession, opLock, late, faults>>

DropActive(w) ==
  /\ tx[w].at = "checkActive" /\ tx[w].todo = {}
  /\ RemoveMembers(tx[w].stale)
  /\ Goto(w, [tx[w] EXCEPT !.at = "fill", !.stale = {}])
  /\ UNCHANGED <<opLock, late, faults>>

\* What follows a drainPromotionLoop.
AfterFill(w) ==
  CASE tx[w].part = "prune" /\ tx[w].op = "join" -> At(w, "joinScript")
    [] tx[w].part = "prune" /\ tx[w].op = "status" -> [At(w, "slotKey") EXCEPT !.part = "serve"]
    [] tx[w].op = "leave" -> Answer(w, "left")
    [] OTHER -> [At(w, "slotKey") EXCEPT !.part = "position"]

Fill(w) ==
  /\ tx[w].at = "fill"
  /\ FillSlots
  /\ Goto(w, AfterFill(w))
  /\ UNCHANGED <<opLock, late, faults>>

-----------------------------------------------------------------------------
(* joinLua.                                                                *)

JoinRefresh(w) ==
  /\ tx[w].at = "joinScript"
  /\ StayInside(tx[w].user)
  /\ Goto(w, Answer(w, "enter"))
  /\ UNCHANGED <<opLock, late, faults>>

JoinEnter(w) ==
  /\ tx[w].at = "joinScript"
  /\ Enter(tx[w].user)
  /\ Goto(w, Answer(w, "enter"))
  /\ UNCHANGED <<opLock, late, faults>>

\* Mistake: the key of a user who is not in the room is left behind.
JoinWaitKeepsGhost(w) ==
  LET u == tx[w].user IN
  /\ tx[w].at = "joinScript"
  /\ ~InTheRoom(u) /\ Full({})
  /\ queueSession' = [queueSession EXCEPT ![u] = SessionTTL]
  /\ Enqueue(u)
  /\ Goto(w, [At(w, "slotKey") EXCEPT !.part = "position"])
  /\ UNCHANGED <<activeMembers, activeSession, opLock, late, faults>>

JoinWait(w) ==
  /\ tx[w].at = "joinScript"
  /\ StandInLine(tx[w].user)
  /\ Goto(w, [At(w, "slotKey") EXCEPT !.part = "position"])
  /\ UNCHANGED <<opLock, late, faults>>

-----------------------------------------------------------------------------
(* userHasLegitimateActiveSlot, and what its callers do with the answer.    *)

NotInRoom(w) ==
  CASE tx[w].op = "hasActiveSession" -> Answer(w, "refused")
    [] tx[w].op = "status" /\ tx[w].part = "serve" -> At(w, "fill")
    [] OTHER -> At(w, "queueKey")

InRoom(w) ==
  IF tx[w].op = "heartbeat" /\ tx[w].part = "serve"
  THEN At(w, "refreshActive")
  ELSE Answer(w, "enter")

SlotKey(w) ==
  /\ tx[w].at = "slotKey"
  /\ Goto(w, IF activeSession[tx[w].user] > 0 THEN At(w, "slotMember") ELSE NotInRoom(w))
  /\ UNCHANGED <<keys, opLock, late, faults>>

SlotMember(w) ==
  /\ tx[w].at = "slotMember"
  /\ Goto(w, IF tx[w].user \in activeMembers THEN InRoom(w) ELSE At(w, "slotGhost"))
  /\ UNCHANGED <<keys, opLock, late, faults>>

SlotGhost(w) ==
  /\ tx[w].at = "slotGhost"
  /\ DropSession(tx[w].user)
  /\ Goto(w, NotInRoom(w))
  /\ UNCHANGED <<opLock, late, faults>>

RefreshActive(w) ==
  /\ tx[w].at = "refreshActive"
  /\ ExtendSession(tx[w].user)
  /\ Goto(w, Answer(w, "enter"))
  /\ UNCHANGED <<opLock, late, faults>>

-----------------------------------------------------------------------------
(* The waiter's key and position (Heartbeat, positionAndSize), and Leave.   *)

QueueKey(w) ==
  /\ tx[w].at = "queueKey"
  /\ Goto(w, CASE queueSession[tx[w].user] = 0 -> At(w, "dropMyself")
               [] queueSession[tx[w].user] > 0 /\ tx[w].part = "serve" -> At(w, "refreshQueue")
               [] OTHER -> At(w, "rank"))
  /\ UNCHANGED <<keys, opLock, late, faults>>

DropMyself(w) ==
  /\ tx[w].at = "dropMyself"
  /\ RemoveWaiters({tx[w].user})
  /\ Goto(w, Answer(w, "notInQueue"))
  /\ UNCHANGED <<opLock, late, faults>>

RefreshQueue(w) ==
  /\ tx[w].at = "refreshQueue"
  /\ ExtendWait(tx[w].user)
  /\ Goto(w, At(w, "fill"))
  /\ UNCHANGED <<opLock, late, faults>>

Rank(w) ==
  /\ tx[w].at = "rank"
  /\ Goto(w, Answer(w, IF tx[w].user \in queue THEN "wait" ELSE "notInQueue"))
  /\ UNCHANGED <<keys, opLock, late, faults>>

RemoveUser(w) ==
  /\ tx[w].at = "removeUser"
  /\ Forget(tx[w].user)
  /\ Goto(w, At(w, "fill"))
  /\ UNCHANGED <<opLock, late, faults>>

-----------------------------------------------------------------------------
(* Failures and time.                                                      *)

Failing == faults < MaxFaults /\ faults' = faults + 1

\* Mistake: the Del is deferred before the lock is had.
GiveUpUnlocks(w) ==
  /\ tx[w].at = "lock"
  /\ Failing
  /\ opLock' = 0
  /\ Goto(w, Idle)
  /\ UNCHANGED <<keys, late>>

\* Three seconds of spinning are over, or the request's context is.
GiveUp(w) ==
  /\ tx[w].at = "lock"
  /\ Failing
  /\ Goto(w, Idle)
  /\ UNCHANGED <<keys, opLock, late>>

\* The SetNX is executed and its reply lost: the client tries again, against
\* its own lock, or fails.
AcquireUnseen(w) ==
  /\ tx[w].at = "lock" /\ opLock = 0
  /\ Failing
  /\ opLock' = LockTTL
  /\ Goto(w, tx[w]) \/ Goto(w, Idle)
  /\ UNCHANGED <<keys, late>>

\* A command fails.  The last one, a count of the waiters, comes after the
\* answer is known.
Fault(w) ==
  /\ Inside(w)
  /\ tx[w].at = "unlock" => tx[w].answer \in {"enter", "wait"}
  /\ Failing
  /\ Goto(w, Answer(w, "error"))
  /\ UNCHANGED <<keys, opLock, late>>

\* The two deletions whose error is ignored fail.
FaultIgnored(w) ==
  /\ Failing
  /\ \/ tx[w].at = "slotGhost" /\ Goto(w, NotInRoom(w))
     \/ tx[w].at = "dropMyself" /\ Goto(w, Answer(w, "notInQueue"))
  /\ UNCHANGED <<keys, opLock, late>>

\* The client hangs up, and with the request's context every further command
\* fails, the deferred Del too; or the process dies.
Abandon(w) ==
  /\ Inside(w)
  /\ Failing
  /\ Goto(w, Idle)
  /\ UNCHANGED <<keys, opLock, late>>

\* The request has sent a command that changes a key or the lock.
Writes(w) ==
  \/ tx[w].at \in {"lock", "fill", "joinScript", "slotGhost", "refreshActive", "dropMyself",
                   "refreshQueue", "removeUser", "unlock"}
  \/ tx[w].at \in {"checkQueue", "checkActive"} /\ tx[w].todo = {} /\ tx[w].stale # {}

Sent(w) ==
  [does |-> tx[w].at,
   to   |-> CASE tx[w].at \in {"checkQueue", "checkActive"} -> tx[w].stale
              [] tx[w].at \in {"lock", "fill", "unlock"} -> {}
              [] OTHER -> {tx[w].user}]

\* A command times out on its way to Redis: the client sends it again, or the
\* operation fails, or the request is over.
TimeOut(w) ==
  /\ Overstay /\ Writes(w)
  /\ Failing
  /\ late' = late \cup {Sent(w)}
  /\ Goto(w, tx[w]) \/ Goto(w, Idle) \/ (Inside(w) /\ Goto(w, Answer(w, "error")))
  /\ UNCHANGED <<keys, opLock>>

\* And is executed after all.
Arrive(c) ==
  /\ late' = late \ {c}
  /\ \/ Execute(c) /\ UNCHANGED opLock
     \/ c.does = "lock" /\ opLock' = (IF opLock = 0 THEN LockTTL ELSE opLock) /\ UNCHANGED keys
     \/ c.does = "unlock" /\ opLock' = 0 /\ UNCHANGED keys
  /\ UNCHANGED <<tx, faults>>

OneLess(n) == IF n = 0 THEN 0 ELSE n - 1

\* Mistake: the operation lock has no TTL.
TickForgetsLock ==
  /\ Overstay \/ opLock # 1 \/ \A w \in Requests : ~Inside(w)
  /\ activeSession' = [u \in Users |-> OneLess(activeSession[u])]
  /\ queueSession' = [u \in Users |-> OneLess(queueSession[u])]
  /\ UNCHANGED <<activeMembers, queue, ahead, opLock, tx, late, faults>>

\* Unless Overstay, an operation ends before its lock expires.
Tick ==
  /\ Overstay \/ opLock # 1 \/ \A w \in Requests : ~Inside(w)
  /\ activeSession' = [u \in Users |-> OneLess(activeSession[u])]
  /\ queueSession' = [u \in Users |-> OneLess(queueSession[u])]
  /\ opLock' = OneLess(opLock)
  /\ UNCHANGED <<activeMembers, queue, ahead, tx, late, faults>>

-----------------------------------------------------------------------------

Init ==
  /\ activeMembers = {}
  /\ activeSession = [u \in Users |-> 0]
  /\ queue = {}
  /\ ahead = {}
  /\ queueSession = [u \in Users |-> 0]
  /\ opLock = 0
  /\ tx = [w \in Requests |-> Idle]
  /\ late = {}
  /\ faults = 0

\* A step of an operation that has the lock.
Proceed(w) ==
  \/ ListQueue(w) \/ CheckQueue(w) \/ DropQueue(w)
  \/ ListActive(w) \/ CheckActive(w) \/ DropActive(w)
  \/ Fill(w)
  \/ JoinRefresh(w) \/ JoinEnter(w) \/ JoinWait(w)
  \/ SlotKey(w) \/ SlotMember(w) \/ SlotGhost(w) \/ RefreshActive(w)
  \/ QueueKey(w) \/ DropMyself(w) \/ RefreshQueue(w) \/ Rank(w)
  \/ RemoveUser(w)
  \/ Unlock(w)

Fail(w) ==
  \/ GiveUp(w) \/ AcquireUnseen(w) \/ Fault(w) \/ FaultIgnored(w) \/ Abandon(w) \/ TimeOut(w)

Next ==
  \/ Tick
  \/ \E c \in late : Arrive(c)
  \/ \E w \in Requests :
       \/ \E op \in Operations, u \in Users : Begin(w, op, u)
       \/ Acquire(w) \/ Proceed(w) \/ Fail(w)

Spec == Init /\ [][Next]_vars

\* Time passes, operations go on, and one that spins on the lock every five
\* milliseconds finds it free at last.
Fairness ==
  /\ WF_vars(Tick)
  /\ \A w \in Requests : WF_vars(Proceed(w)) /\ SF_vars(Acquire(w))

FairSpec == Spec /\ Fairness

-----------------------------------------------------------------------------
(* What the keys say of the waiting room.                                  *)

Room == INSTANCE WaitingRoom
          WITH Limit   <- MaxActive,
               room    <- activeMembers,
               line    <- queue,
               inside  <- {u \in Users : activeSession[u] > 0},
               waiting <- {u \in Users : queueSession[u] > 0}

-----------------------------------------------------------------------------
(* Properties.                                                             *)

\* Every key and every request has the shape the code gives it.
TypeOK ==
  /\ activeMembers \subseteq Users
  /\ activeSession \in [Users -> 0 .. SessionTTL]
  /\ queue \subseteq Users
  /\ ahead \subseteq queue \X queue
  /\ queueSession \in [Users -> 0 .. SessionTTL]
  /\ opLock \in 0 .. LockTTL
  /\ tx \in [Requests -> Request \cup {Idle}]
  /\ late \subseteq Command
  /\ faults \in 0 .. MaxFaults

\* The room never has more members than the limit, even when operations
\* overlap because the lock of one ran out.
RoomWithinLimit == Cardinality(activeMembers) <= MaxActive

\* Nobody who may enter waits in line as well, whatever overlaps.
AdmittedDoNotWait == \A u \in Users : activeSession[u] > 0 => u \notin queue

\* The operation lock lets one operation at a time work on the keys.
OneOperationAtATime == \A v, w \in Requests : Inside(v) /\ Inside(w) => v = w

\* An active-user key always belongs to a member of the room: no prune, leave
\* or failure between two commands leaves a ghost.
NoGhosts == \A u \in Users : activeSession[u] > 0 => u \in activeMembers

\* The answer of an operation still holds when its lock is released: who may
\* enter is in the room, who shall wait is in line.
AnswersHold ==
  \A w \in Requests : tx[w].at = "unlock" =>
    /\ tx[w].answer = "enter" => tx[w].user \in activeMembers
    /\ tx[w].answer = "wait" => tx[w].user \in queue

LeavesNow(u) == \E w \in Requests : tx[w].at = "removeUser" /\ tx[w].user = u

\* A user whose key has not expired is not removed from the line, except into
\* the room, nor from the room, unless he leaves: what pruneExpired found
\* expired has not come back when it is removed.
LiveUsersKeepTheirPlace ==
  [][\A u \in Users : ~LeavesNow(u) =>
       /\ u \in queue /\ queueSession[u] > 0 => u \in queue' \cup activeMembers'
       /\ u \in activeMembers /\ activeSession[u] > 0 => u \in activeMembers']_vars

\* Nobody gets into the room past a waiter with a live key who came before.
NoOvertaking ==
  [][\A u, v \in Users :
       /\ u \in activeMembers' \ activeMembers
       /\ v \in queue \ {u} /\ queueSession[v] > 0
       /\ u \in queue => <<v, u>> \in ahead
       => v \in activeMembers']_vars

\* Two users in line never change places.
LineIsKept ==
  [][\A p \in ahead : <<p[2], p[1]>> \notin ahead']_vars

\* The operations, of many commands each and side by side with failures and the
\* passing of time, look like changes of a waiting room at one instant each.
ImplementsRoom == Room!Spec

\* The operation lock is always released, by its owner or by its TTL.
LockIsReleased == opLock > 0 ~> opLock = 0

StatusIsPolled == []<>(\E w \in Requests : tx[w].op = "status" /\ tx[w].at = "slotKey")

RoomTurnsOver == \A u \in Users : []<>(activeSession[u] = 0)

\* While somebody polls the status and no session in the room is kept for
\* ever, nobody waits for ever: he enters, leaves or expires.
WaitingEnds ==
  StatusIsPolled /\ RoomTurnsOver => \A u \in Users : u \in queue ~> u \notin queue

=============================================================================
