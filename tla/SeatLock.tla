------------------------------ MODULE SeatLock ------------------------------
(***************************************************************************)
(* The Redis seat locks around the hold of bookingService.HoldSeats.        *)
(*                                                                         *)
(* A call locks all its seats with one script, holds them in the database   *)
(* and unlocks them with another.  Either script may fail to run, run       *)
(* without an answer, or run after its call has given up; the locks run out *)
(* by themselves.  What the hold does under the locks is SeatStore's.       *)
(***************************************************************************)
EXTENDS Naturals

CONSTANTS
  Seats,     \* the seats of one showtime
  Owners,    \* lock owners, the uuids of the calls
  None,      \* the owner of a seat without a lock
  TTL,       \* of a seat lock, in ticks
  Overstay,  \* may a hold outlast its locks?
  MaxFaults  \* bound on lost commands, lost answers and crashes

ASSUME NamesAssumption == None \notin Owners
ASSUME LimitsAssumption ==
  TTL \in Nat \ {0} /\ MaxFaults \in Nat /\ Overstay \in BOOLEAN

VARIABLES
  lock,   \* per seat: the owner in its key
  ttl,    \* per seat: ticks left of its key
  call,   \* what the call of each owner is doing
  wire,   \* commands nobody waits for that Redis may still run
  faults  \* failures so far

keys == <<lock, ttl>>

vars == <<keys, call, wire, faults>>

-----------------------------------------------------------------------------
(* Calls and keys.                                                         *)

\* From the SET of its locks to the end of the hold.
Working == {"locked", "hold"}

\* seats outlives the call, for the locks it may leave behind.
Call == [at : {"idle", "locking", "refused", "unlocking"} \cup Working, seats : SUBSET Seats]

Idle == [at |-> "idle", seats |-> {}]

Scripts == {"lock", "unlock"}

At(o, stage) == call' = [call EXCEPT ![o].at = stage]

\* uuid.NewString: nothing has the owner yet.
Unused(o) ==
  /\ call[o].at = "idle"
  /\ \A s \in Seats : lock[s] # o
  /\ \A script \in Scripts : <<o, script>> \notin wire

Free(S) == \A s \in S : lock[s] = None

SetKeys(S, o, ticks) ==
  /\ lock' = [s \in Seats |-> IF s \in S THEN o ELSE lock[s]]
  /\ ttl' = [s \in Seats |-> IF s \in S THEN ticks ELSE ttl[s]]

\* Mistake: the keys are deleted whoever owns them by now.
AnyKeys(o) == call[o].seats

\* What releaseSeatsScript deletes.
OwnKeys(o) == {s \in call[o].seats : lock[s] = o}

-----------------------------------------------------------------------------
(* HoldSeats.                                                              *)

Begin(o, S) ==
  /\ Unused(o) /\ S # {}
  /\ call' = [call EXCEPT ![o] = [at |-> "locking", seats |-> S]]
  /\ UNCHANGED <<keys, wire, faults>>

\* Mistake: SET without PX.
GrantForEver(o) ==
  /\ call[o].at = "locking" /\ Free(call[o].seats)
  /\ SetKeys(call[o].seats, o, 0)
  /\ At(o, "locked")
  /\ UNCHANGED <<wire, faults>>

\* Mistake: the seats that are free are locked, if there are any.
GrantSome(o) ==
  /\ call[o].at = "locking"
  /\ \E s \in call[o].seats : lock[s] = None
  /\ SetKeys({s \in call[o].seats : lock[s] = None}, o, TTL)
  /\ At(o, "locked")
  /\ UNCHANGED <<wire, faults>>

\* acquireSeatsScript finds every seat free and locks them all, ...
Grant(o) ==
  /\ call[o].at = "locking" /\ Free(call[o].seats)
  /\ SetKeys(call[o].seats, o, TTL)
  /\ At(o, "locked")
  /\ UNCHANGED <<wire, faults>>

\* Mistake: key by key, and those already locked stay so.
RefuseHalfway(o) ==
  /\ call[o].at = "locking" /\ ~Free(call[o].seats)
  /\ SetKeys({s \in call[o].seats : lock[s] = None}, o, TTL)
  /\ At(o, "refused")
  /\ UNCHANGED <<wire, faults>>

\* ... or finds one taken and locks none.
Refuse(o) ==
  /\ call[o].at = "locking" /\ ~Free(call[o].seats)
  /\ At(o, "refused")
  /\ UNCHANGED <<keys, wire, faults>>

\* The answer arrives.
Enter(o) ==
  /\ call[o].at = "locked"
  /\ At(o, "hold")
  /\ UNCHANGED <<keys, wire, faults>>

GiveUp(o) ==
  /\ call[o].at = "refused"
  /\ At(o, "idle")
  /\ UNCHANGED <<keys, wire, faults>>

\* Mistake: an early return without the unlock.
ReturnEarly(o) ==
  /\ call[o].at = "hold"
  /\ At(o, "unlocking") \/ At(o, "idle")
  /\ UNCHANGED <<keys, wire, faults>>

\* The transaction of the hold, or the last one of its retries, is over.
Return(o) ==
  /\ call[o].at = "hold"
  /\ At(o, "unlocking")
  /\ UNCHANGED <<keys, wire, faults>>

\* releaseSeatsScript
Unlock(o) ==
  /\ call[o].at = "unlocking"
  /\ SetKeys(OwnKeys(o), None, 0)
  /\ At(o, "idle")
  /\ UNCHANGED <<wire, faults>>

-----------------------------------------------------------------------------
(* Failures and time.                                                      *)

Failing == faults < MaxFaults /\ faults' = faults + 1

\* The script's answer is lost, or the script is and may run yet.  The Redis
\* client sends it again or reports an error, and the call ends there, without
\* an unlock.
LoseLock(o) ==
  /\ call[o].at \in {"locking", "locked", "refused"}
  /\ Failing
  /\ At(o, "locking") \/ At(o, "idle")
  /\ \/ UNCHANGED wire
     \/ call[o].at = "locking" /\ wire' = wire \cup {<<o, "lock">>}
  /\ UNCHANGED keys

\* The error of the unlock is only logged.
LoseUnlock(o) ==
  /\ call[o].at = "unlocking"
  /\ Failing
  /\ At(o, "idle")
  /\ UNCHANGED wire \/ wire' = wire \cup {<<o, "unlock">>}
  /\ UNCHANGED keys

\* Scripts that calls in O have sent and not seen executed.
Sent(O) ==
  {<<o, "lock">> : o \in {p \in O : call[p].at = "locking"}}
    \cup {<<o, "unlock">> : o \in {p \in O : call[p].at = "unlocking"}}

\* The calls in O die with their process; what they have sent may run yet.
Die(O) ==
  /\ call' = [o \in Owners |-> IF o \in O THEN [call[o] EXCEPT !.at = "idle"] ELSE call[o]]
  /\ \E W \in SUBSET Sent(O) : wire' = wire \cup W
  /\ UNCHANGED keys

Crash(O) == Failing /\ Die(O)

LateLock(o) ==
  /\ <<o, "lock">> \in wire
  /\ wire' = wire \ {<<o, "lock">>}
  /\ \/ Free(call[o].seats) /\ SetKeys(call[o].seats, o, TTL)
     \/ ~Free(call[o].seats) /\ UNCHANGED keys
  /\ UNCHANGED <<call, faults>>

LateUnlock(o) ==
  /\ <<o, "unlock">> \in wire
  /\ wire' = wire \ {<<o, "unlock">>}
  /\ SetKeys(OwnKeys(o), None, 0)
  /\ UNCHANGED <<call, faults>>

RunsOut(s) == ttl[s] = 1

\* Unless Overstay, a hold ends before its locks run out.
Tick ==
  /\ \/ Overstay
     \/ \A o \in Owners : call[o].at \in Working => \A s \in OwnKeys(o) : ~RunsOut(s)
  /\ lock' = [s \in Seats |-> IF RunsOut(s) THEN None ELSE lock[s]]
  /\ ttl' = [s \in Seats |-> IF ttl[s] > 0 THEN ttl[s] - 1 ELSE 0]
  /\ UNCHANGED <<call, wire, faults>>

-----------------------------------------------------------------------------

Init ==
  /\ lock = [s \in Seats |-> None]
  /\ ttl = [s \in Seats |-> 0]
  /\ call = [o \in Owners |-> Idle]
  /\ wire = {}
  /\ faults = 0

Proceed(o) == Grant(o) \/ Refuse(o) \/ Enter(o) \/ GiveUp(o) \/ Return(o) \/ Unlock(o)

Fail(o) == LoseLock(o) \/ LoseUnlock(o) \/ LateLock(o) \/ LateUnlock(o)

Next ==
  \/ Tick
  \/ \E o \in Owners : (\E S \in SUBSET Seats : Begin(o, S)) \/ Proceed(o) \/ Fail(o)
  \/ \E O \in SUBSET Owners : Crash(O)

Spec == Init /\ [][Next]_vars

\* Time passes and calls go on.
Fairness == WF_vars(Tick) /\ \A o \in Owners : WF_vars(Proceed(o))

FairSpec == Spec /\ Fairness

-----------------------------------------------------------------------------
(* Properties.                                                             *)

\* Every key and every call has the shape the code gives it.
TypeOK ==
  /\ lock \in [Seats -> Owners \cup {None}]
  /\ ttl \in [Seats -> 0 .. TTL]
  /\ \A s \in Seats : ttl[s] = 0 <=> lock[s] = None
  /\ call \in [Owners -> Call]
  /\ wire \subseteq Owners \X Scripts
  /\ faults \in 0 .. MaxFaults

\* No two calls hold one seat in the database at the same time, whatever was
\* lost, sent again or executed late.
OneHoldPerSeat ==
  \A o, p \in Owners : call[o].at = "hold" /\ call[p].at = "hold" /\ o # p =>
    call[o].seats \cap call[p].seats = {}

\* The locks of a call come and go together: what remains of a call that
\* failed blocks all of its seats or none, and never some other seat.
AllOrNothing ==
  \A o \in Owners : {s \in Seats : lock[s] = o} \in {{}, call[o].seats}

\* A lock goes only by its own owner's unlock or when its time is up: no unlock
\* that comes late, or twice, frees the seats of the next call.
OwnersUnlock ==
  [][\A s \in Seats : lock[s] # None /\ lock'[s] # lock[s] =>
       \/ RunsOut(s)
       \/ call[lock[s]].at = "unlocking"
       \/ <<lock[s], "unlock">> \in wire]_vars

\* As long as nothing has failed, a call is refused only for another call that
\* has one of its seats at this moment.
RefusedForACall ==
  [][\A o \in Owners :
       faults = 0 /\ call[o].at = "locking" /\ call'[o].at = "refused" =>
         \E p \in Owners \ {o} :
           /\ call[p].at \in Working \cup {"unlocking"}
           /\ call[p].seats \cap call[o].seats # {}]_vars

\* Every call of HoldSeats ends, and every lock, one that is left behind too.
HoldsEnd ==
  /\ \A o \in Owners : call[o].at # "idle" ~> call[o].at = "idle"
  /\ \A s \in Seats : lock[s] # None ~> lock[s] = None

=============================================================================
