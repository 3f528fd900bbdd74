--------------------------- MODULE SeatLockProofs ---------------------------
(***************************************************************************)
(* Theorems about SeatLock, for any number of seats and calls, any TTL and   *)
(* any number of failures.                                                 *)
(***************************************************************************)
EXTENDS SeatLock, TLAPS

-----------------------------------------------------------------------------
(* The invariants.                                                         *)

\* The keys of one owner have been set by one script.
Together ==
  \A o \in Owners, s \in Seats : lock[s] = o =>
    /\ s \in call[o].seats
    /\ \A t \in call[o].seats : lock[t] = o /\ ttl[t] = ttl[s]

\* An unlock that nobody waits for is of a call that has ended.
UnlocksLast == \A o \in Owners : <<o, "unlock">> \in wire => call[o].at = "idle"

\* Nothing is left behind without a failure.
NothingLeft ==
  faults = 0 =>
    /\ wire = {}
    /\ \A o \in Owners, s \in Seats : lock[s] = o => call[o].at \in Working \cup {"unlocking"}

\* What needs nothing of the process that makes the calls.
Sound == TypeOK /\ Together /\ UnlocksLast

Kept == Sound /\ NothingLeft

\* A call that works has its locks: true as long as no hold outlasts them.
WorkersHaveLocks ==
  \A o \in Owners : call[o].at \in Working => \A s \in call[o].seats : lock[s] = o

-----------------------------------------------------------------------------
(* Steps of a call and of its scripts.                                     *)

LEMMA AtMoves ==
  ASSUME TypeOK, NEW o \in Owners, NEW stage, At(o, stage),
         stage \in {"idle", "locking", "refused", "unlocking"} \cup Working
  PROVE  /\ call' \in [Owners -> Call]
         /\ call'[o].at = stage /\ call'[o].seats = call[o].seats
         /\ \A p \in Owners \ {o} : call'[p] = call[p]
         /\ \A p \in Owners : call'[p].seats = call[p].seats
BY DEF TypeOK, At, Call

\* Keys that are set, or deleted, together stay together.
LEMMA KeysTogether ==
  ASSUME Sound, NEW o \in Owners,
         \A p \in Owners : call'[p].seats = call[p].seats,
         \/ Free(call[o].seats) /\ SetKeys(call[o].seats, o, TTL)
         \/ SetKeys(OwnKeys(o), None, 0)
  PROVE  /\ lock' \in [Seats -> Owners \cup {None}] /\ ttl' \in [Seats -> 0 .. TTL]
         /\ \A s \in Seats : ttl'[s] = 0 <=> lock'[s] = None
         /\ Together'
<1>0. /\ lock \in [Seats -> Owners \cup {None}] /\ ttl \in [Seats -> 0 .. TTL]
      /\ \A s \in Seats : ttl[s] = 0 <=> lock[s] = None
      /\ \A p \in Owners : call[p].seats \subseteq Seats
  BY DEF Sound, TypeOK, Call
<1>1. CASE Free(call[o].seats) /\ SetKeys(call[o].seats, o, TTL)
  <2>1. TTL \in 0 .. TTL /\ TTL # 0
    BY LimitsAssumption
  <2>2. \A s \in Seats : /\ s \in call[o].seats => lock'[s] = o /\ ttl'[s] = TTL /\ lock[s] = None
                         /\ s \notin call[o].seats => lock'[s] = lock[s] /\ ttl'[s] = ttl[s]
    BY <1>0, <1>1 DEF SetKeys, Free
  <2>3. lock' \in [Seats -> Owners \cup {None}] /\ ttl' \in [Seats -> 0 .. TTL]
    BY <1>0, <1>1, <2>1 DEF SetKeys
  <2>4. \A s \in Seats : ttl'[s] = 0 <=> lock'[s] = None
    BY <1>0, <2>1, <2>2, NamesAssumption
  <2>5. ASSUME NEW p \in Owners, NEW s \in Seats, lock'[s] = p
        PROVE  s \in call[p].seats /\ \A t \in call[p].seats : lock'[t] = p /\ ttl'[t] = ttl'[s]
    <3>1. CASE s \in call[o].seats
      BY <1>0, <2>2, <2>5, <3>1
    <3>2. CASE s \notin call[o].seats
      <4>1. lock[s] = p /\ ttl'[s] = ttl[s]
        BY <2>2, <2>5, <3>2
      <4>2. s \in call[p].seats /\ \A t \in call[p].seats : lock[t] = p /\ ttl[t] = ttl[s]
        BY <4>1 DEF Sound, Together
      <4>3. \A t \in call[p].seats : t \notin call[o].seats
        BY <1>0, <2>2, <4>2, NamesAssumption
      <4> QED BY <1>0, <2>2, <4>1, <4>2, <4>3
    <3> QED BY <3>1, <3>2
  <2> QED BY <2>3, <2>4, <2>5 DEF Together
<1>2. CASE SetKeys(OwnKeys(o), None, 0)
  <2>1. OwnKeys(o) = {s \in Seats : lock[s] = o}
    BY <1>0 DEF OwnKeys, Sound, Together
  <2>2. \A s \in Seats : /\ lock[s] = o => lock'[s] = None /\ ttl'[s] = 0
                         /\ lock[s] # o => lock'[s] = lock[s] /\ ttl'[s] = ttl[s]
    BY <1>2, <2>1 DEF SetKeys
  <2>3. lock' \in [Seats -> Owners \cup {None}] /\ ttl' \in [Seats -> 0 .. TTL]
    BY <1>0, <1>2, LimitsAssumption DEF SetKeys
  <2>4. \A s \in Seats : ttl'[s] = 0 <=> lock'[s] = None
    BY <1>0, <2>2
  <2>5. ASSUME NEW p \in Owners, NEW s \in Seats, lock'[s] = p
        PROVE  s \in call[p].seats /\ \A t \in call[p].seats : lock'[t] = p /\ ttl'[t] = ttl'[s]
    <3>1. lock[s] = p /\ p # o
      BY <2>2, <2>5, NamesAssumption
    <3>2. s \in call[p].seats /\ \A t \in call[p].seats : lock[t] = p /\ ttl[t] = ttl[s]
      BY <3>1 DEF Sound, Together
    <3> QED BY <1>0, <2>2, <3>1, <3>2
  <2> QED BY <2>3, <2>4, <2>5 DEF Together
<1> QED BY <1>1, <1>2

LEMMA InitKept == Init => Kept /\ WorkersHaveLocks
<1> SUFFICES ASSUME Init PROVE Kept /\ WorkersHaveLocks
  OBVIOUS
<1>1. Idle \in Call /\ Idle.at = "idle"
  BY DEF Idle, Call
<1>2. TypeOK
  BY <1>1, LimitsAssumption DEF Init, TypeOK
<1>3. Together /\ UnlocksLast /\ NothingLeft
  BY NamesAssumption DEF Init, Together, UnlocksLast, NothingLeft
<1>4. WorkersHaveLocks
  BY <1>1 DEF Init, WorkersHaveLocks, Working
<1> QED BY <1>2, <1>3, <1>4 DEF Kept, Sound

-----------------------------------------------------------------------------
(* Every step keeps the invariants.                                        *)

LEMMA BeginKeeps ==
  ASSUME Sound, NEW o \in Owners, NEW S \in SUBSET Seats, Begin(o, S)
  PROVE  Sound' /\ (NothingLeft => NothingLeft') /\ (WorkersHaveLocks => WorkersHaveLocks')
<1>1. PICK k : k = [at |-> "locking", seats |-> S]
  OBVIOUS
<1>2. k \in Call /\ k.at = "locking" /\ k.at \notin Working
  BY <1>1 DEF Call, Working
<1>3. /\ call' = [call EXCEPT ![o] = k] /\ UNCHANGED <<lock, ttl, wire, faults>>
      /\ \A s \in Seats : lock[s] # o
      /\ <<o, "unlock">> \notin wire
  BY <1>1 DEF Begin, keys, Unused, Scripts
<1>4. call' \in [Owners -> Call] /\ call'[o] = k /\ \A p \in Owners \ {o} : call'[p] = call[p]
  BY <1>2, <1>3 DEF Sound, TypeOK
<1>5. TypeOK'
  BY <1>3, <1>4 DEF Sound, TypeOK
<1>6. Together'
  BY <1>3, <1>4 DEF Sound, Together
<1>7. UnlocksLast'
  BY <1>3, <1>4 DEF Sound, UnlocksLast
<1>8. NothingLeft => NothingLeft'
  BY <1>3, <1>4 DEF NothingLeft
<1>9. WorkersHaveLocks => WorkersHaveLocks'
  BY <1>2, <1>3, <1>4 DEF WorkersHaveLocks
<1> QED BY <1>5, <1>6, <1>7, <1>8, <1>9 DEF Sound

\* A step of o that leaves the keys alone.
LEMMA QuietKeeps ==
  ASSUME Sound, NEW o \in Owners, NEW stage, At(o, stage),
         stage \in {"idle", "locking", "refused", "unlocking"} \cup Working,
         UNCHANGED keys, call[o].at # "idle", (wire \subseteq Owners \X Scripts)',
         faults' \in 0 .. MaxFaults,
         \A p \in Owners : <<p, "unlock">> \in wire' => <<p, "unlock">> \in wire \/ (p = o /\ stage = "idle"),
         \/ faults' # 0
         \/ /\ UNCHANGED <<wire, faults>>
            /\ call[o].at \in Working \cup {"unlocking"} => stage \in Working \cup {"unlocking"},
         stage \in Working => call[o].at \in Working
  PROVE  Sound' /\ (NothingLeft => NothingLeft') /\ (WorkersHaveLocks => WorkersHaveLocks')
<1>1. /\ call' \in [Owners -> Call] /\ call'[o].at = stage /\ call'[o].seats = call[o].seats
      /\ \A p \in Owners \ {o} : call'[p] = call[p]
      /\ \A p \in Owners : call'[p].seats = call[p].seats
  BY AtMoves DEF Sound
<1>2. TypeOK'
  BY <1>1 DEF Sound, TypeOK, keys
<1>3. Together'
  BY <1>1 DEF Sound, Together, keys
<1>4. UnlocksLast'
  BY <1>1 DEF Sound, UnlocksLast
<1>5. NothingLeft => NothingLeft'
  BY <1>1 DEF NothingLeft, keys
<1>6. WorkersHaveLocks => WorkersHaveLocks'
  BY <1>1 DEF WorkersHaveLocks, keys
<1> QED BY <1>2, <1>3, <1>4, <1>5, <1>6 DEF Sound

LEMMA ProceedKeeps ==
  ASSUME Sound, NEW o \in Owners, Proceed(o)
  PROVE  Sound' /\ (NothingLeft => NothingLeft') /\ (WorkersHaveLocks => WorkersHaveLocks')
<1>0. wire \subseteq Owners \X Scripts /\ faults \in 0 .. MaxFaults
  BY DEF Sound, TypeOK
<1>1. CASE Refuse(o) \/ Enter(o) \/ GiveUp(o) \/ Return(o)
  <2>1. PICK stage : /\ At(o, stage) /\ stage \in {"idle", "refused", "unlocking"} \cup Working
                     /\ call[o].at # "idle"
                     /\ call[o].at \in Working \cup {"unlocking"} => stage \in Working \cup {"unlocking"}
                     /\ stage \in Working => call[o].at \in Working
    BY <1>1 DEF Refuse, Enter, GiveUp, Return, Working
  <2>2. UNCHANGED <<keys, wire, faults>>
    BY <1>1 DEF Refuse, Enter, GiveUp, Return
  <2> QED BY <1>0, <2>1, <2>2, QuietKeeps
<1>2. CASE Grant(o)
  <2>1. /\ call[o].at = "locking" /\ Free(call[o].seats) /\ SetKeys(call[o].seats, o, TTL)
        /\ At(o, "locked") /\ UNCHANGED <<wire, faults>>
    BY <1>2 DEF Grant
  <2>2. /\ call' \in [Owners -> Call] /\ call'[o].at = "locked"
        /\ \A p \in Owners \ {o} : call'[p] = call[p]
        /\ \A p \in Owners : call'[p].seats = call[p].seats
    BY <2>1, AtMoves DEF Sound, Working
  <2>3. /\ lock' \in [Seats -> Owners \cup {None}] /\ ttl' \in [Seats -> 0 .. TTL]
        /\ \A s \in Seats : ttl'[s] = 0 <=> lock'[s] = None
        /\ Together'
    BY <2>1, <2>2, KeysTogether
  <2>4. TypeOK'
    BY <1>0, <2>1, <2>2, <2>3 DEF TypeOK
  <2>5. UnlocksLast'
    BY <2>1, <2>2 DEF Sound, UnlocksLast
  <2>6. \A s \in Seats : lock'[s] = (IF s \in call[o].seats THEN o ELSE lock[s])
    BY <2>1 DEF SetKeys
  <2>7. NothingLeft => NothingLeft'
    BY <2>1, <2>2, <2>6 DEF NothingLeft, Working
  <2>8. WorkersHaveLocks => WorkersHaveLocks'
    <3>1. call[o].seats \subseteq Seats /\ \A p \in Owners : call[p].seats \subseteq Seats
      BY DEF Sound, TypeOK, Call
    <3>2. ASSUME WorkersHaveLocks, NEW p \in Owners, call'[p].at \in Working, NEW s \in call[p].seats
          PROVE  lock'[s] = p
      <4>1. CASE p = o
        BY <2>6, <3>1, <3>2, <4>1
      <4>2. CASE p # o
        <5>1. lock[s] = p /\ s \in Seats
          BY <2>2, <3>1, <3>2, <4>2 DEF WorkersHaveLocks
        <5>2. s \notin call[o].seats
          BY <2>1, <5>1, NamesAssumption DEF Free
        <5> QED BY <2>6, <5>1, <5>2
      <4> QED BY <4>1, <4>2
    <3> QED BY <2>2, <3>2 DEF WorkersHaveLocks
  <2> QED BY <2>3, <2>4, <2>5, <2>7, <2>8 DEF Sound
<1>3. CASE Unlock(o)
  <2>1. /\ call[o].at = "unlocking" /\ SetKeys(OwnKeys(o), None, 0)
        /\ At(o, "idle") /\ UNCHANGED <<wire, faults>>
    BY <1>3 DEF Unlock
  <2>2. /\ call' \in [Owners -> Call] /\ call'[o].at = "idle"
        /\ \A p \in Owners \ {o} : call'[p] = call[p]
        /\ \A p \in Owners : call'[p].seats = call[p].seats
    BY <2>1, AtMoves DEF Sound
  <2>3. /\ lock' \in [Seats -> Owners \cup {None}] /\ ttl' \in [Seats -> 0 .. TTL]
        /\ \A s \in Seats : ttl'[s] = 0 <=> lock'[s] = None
        /\ Together'
    BY <2>1, <2>2, KeysTogether
  <2>4. TypeOK'
    BY <1>0, <2>1, <2>2, <2>3 DEF TypeOK
  <2>5. UnlocksLast'
    BY <2>1, <2>2 DEF Sound, UnlocksLast
  <2>6. \A s \in Seats : /\ lock[s] = o => lock'[s] = None
                         /\ lock[s] # o => lock'[s] = lock[s]
    BY <2>1 DEF SetKeys, OwnKeys, Sound, Together
  <2>7. NothingLeft => NothingLeft'
    <3>1. ASSUME NothingLeft, faults = 0, NEW p \in Owners, NEW s \in Seats, lock'[s] = p
          PROVE  call'[p].at \in Working \cup {"unlocking"}
      <4>1. lock[s] = p /\ p # o
        BY <2>6, <3>1, NamesAssumption
      <4>2. call[p].at \in Working \cup {"unlocking"}
        BY <3>1, <4>1 DEF NothingLeft
      <4> QED BY <2>2, <4>1, <4>2
    <3> QED BY <2>1, <3>1 DEF NothingLeft
  <2>8. WorkersHaveLocks => WorkersHaveLocks'
    <3>1. ASSUME WorkersHaveLocks, NEW p \in Owners, call'[p].at \in Working, NEW s \in call[p].seats
          PROVE  lock'[s] = p
      <4>1. p # o /\ call'[p] = call[p]
        BY <2>2, <3>1 DEF Working
      <4>2. lock[s] = p /\ s \in Seats
        BY <3>1, <4>1 DEF WorkersHaveLocks, Sound, TypeOK, Call
      <4> QED BY <2>6, <4>1, <4>2
    <3> QED BY <2>2, <3>1 DEF WorkersHaveLocks
  <2> QED BY <2>3, <2>4, <2>5, <2>7, <2>8 DEF Sound
<1> QED BY <1>1, <1>2, <1>3 DEF Proceed

LEMMA FailKeeps ==
  ASSUME Sound, NEW o \in Owners, Fail(o)
  PROVE  Sound' /\ (NothingLeft => NothingLeft') /\ (WorkersHaveLocks => WorkersHaveLocks')
<1>0. wire \subseteq Owners \X Scripts /\ faults \in 0 .. MaxFaults /\ MaxFaults \in Nat
  BY LimitsAssumption DEF Sound, TypeOK
<1>1. ASSUME Failing PROVE faults' \in 0 .. MaxFaults /\ faults' # 0
  BY <1>0, <1>1 DEF Failing
<1>2. CASE LoseLock(o) \/ LoseUnlock(o)
  <2>1. PICK stage \in {"idle", "locking"} :
          /\ At(o, stage) /\ call[o].at # "idle"
          /\ wire' \in {wire, wire \cup {<<o, "lock">>}}
                \/ (stage = "idle" /\ wire' = wire \cup {<<o, "unlock">>})
    BY <1>2 DEF LoseLock, LoseUnlock
  <2>2. UNCHANGED keys /\ Failing
    BY <1>2 DEF LoseLock, LoseUnlock
  <2>3. (wire \subseteq Owners \X Scripts)'
    BY <1>0, <2>1 DEF Scripts
  <2>4. \A p \in Owners : <<p, "unlock">> \in wire' => <<p, "unlock">> \in wire \/ (p = o /\ stage = "idle")
    BY <2>1
  <2>5. stage \notin Working
    BY DEF Working
  <2> QED BY <1>1, <2>1, <2>2, <2>3, <2>4, <2>5, QuietKeeps
<1>3. CASE LateLock(o) \/ LateUnlock(o)
  <2>1. /\ wire' \subseteq wire /\ wire # {} /\ UNCHANGED <<call, faults>>
    BY <1>3 DEF LateLock, LateUnlock
  <2>2. NothingLeft => faults # 0
    BY <2>1 DEF NothingLeft
  <2>3. UnlocksLast' /\ (NothingLeft => NothingLeft')
    BY <2>1, <2>2 DEF Sound, UnlocksLast, NothingLeft
  <2>4. CASE UNCHANGED keys
    <3>1. TypeOK' /\ Together'
      BY <1>0, <2>1, <2>4 DEF Sound, TypeOK, Together, keys
    <3>2. WorkersHaveLocks => WorkersHaveLocks'
      BY <2>1, <2>4 DEF WorkersHaveLocks, keys
    <3> QED BY <2>3, <3>1, <3>2 DEF Sound
  <2>5. CASE ~UNCHANGED keys
    <3>1. \/ Free(call[o].seats) /\ SetKeys(call[o].seats, o, TTL)
          \/ SetKeys(OwnKeys(o), None, 0) /\ call[o].at = "idle"
      BY <1>3, <2>5 DEF LateLock, LateUnlock, Sound, UnlocksLast
    <3>2. /\ lock' \in [Seats -> Owners \cup {None}] /\ ttl' \in [Seats -> 0 .. TTL]
          /\ \A s \in Seats : ttl'[s] = 0 <=> lock'[s] = None
          /\ Together'
      BY <2>1, <3>1, KeysTogether
    <3>3. TypeOK'
      BY <1>0, <2>1, <3>2 DEF Sound, TypeOK
    <3>4. WorkersHaveLocks => WorkersHaveLocks'
      <4>1. \A p \in Owners : call[p].seats \subseteq Seats
        BY DEF Sound, TypeOK, Call
      <4>2. ASSUME WorkersHaveLocks, NEW p \in Owners, call[p].at \in Working, NEW s \in call[p].seats
            PROVE  lock'[s] = p
        <5>1. lock[s] = p /\ s \in Seats
          BY <4>1, <4>2 DEF WorkersHaveLocks
        <5>2. CASE Free(call[o].seats) /\ SetKeys(call[o].seats, o, TTL)
          BY <5>1, <5>2, NamesAssumption DEF SetKeys, Free
        <5>3. CASE SetKeys(OwnKeys(o), None, 0) /\ call[o].at = "idle"
          <6>1. p # o
            BY <4>2, <5>3 DEF Working
          <6> QED BY <5>1, <5>3, <6>1 DEF SetKeys, OwnKeys
        <5> QED BY <3>1, <5>2, <5>3
      <4> QED BY <2>1, <4>2 DEF WorkersHaveLocks
    <3> QED BY <2>3, <3>2, <3>3, <3>4 DEF Sound
  <2> QED BY <2>4, <2>5
<1> QED BY <1>2, <1>3 DEF Fail

\* The calls that die leave their locks, and perhaps scripts that run later.
LEMMA DieKeeps ==
  ASSUME Sound, NEW O \in SUBSET Owners, Die(O), faults' \in 0 .. MaxFaults
  PROVE  /\ Sound' /\ (WorkersHaveLocks => WorkersHaveLocks')
         /\ \A o \in Owners : call'[o].at = IF o \in O THEN "idle" ELSE call[o].at
<1>1. /\ call' = [o \in Owners |-> IF o \in O THEN [call[o] EXCEPT !.at = "idle"] ELSE call[o]]
      /\ UNCHANGED <<lock, ttl>>
  BY DEF Die, keys
<1>2. PICK W \in SUBSET Sent(O) : wire' = wire \cup W
  BY DEF Die
<1>3. /\ \A o \in Owners : call[o] \in Call
      /\ wire \subseteq Owners \X Scripts
  BY DEF Sound, TypeOK
<1>4. /\ call' \in [Owners -> Call]
      /\ \A o \in Owners : call'[o].seats = call[o].seats
      /\ \A o \in Owners : call'[o].at = IF o \in O THEN "idle" ELSE call[o].at
  BY <1>1, <1>3 DEF Call
<1>5. Sent(O) \subseteq O \X Scripts
  BY DEF Sent, Scripts
<1>6. TypeOK'
  BY <1>1, <1>2, <1>3, <1>4, <1>5 DEF Sound, TypeOK
<1>7. Together'
  BY <1>1, <1>4 DEF Sound, Together
<1>8. UnlocksLast'
  BY <1>2, <1>4, <1>5 DEF Sound, UnlocksLast
<1>9. WorkersHaveLocks => WorkersHaveLocks'
  BY <1>1, <1>4 DEF WorkersHaveLocks, Working
<1> QED BY <1>4, <1>6, <1>7, <1>8, <1>9 DEF Sound

LEMMA CrashKeeps ==
  ASSUME Sound, NEW O \in SUBSET Owners, Crash(O)
  PROVE  Sound' /\ (NothingLeft => NothingLeft') /\ (WorkersHaveLocks => WorkersHaveLocks')
<1>1. faults' \in 0 .. MaxFaults /\ faults' # 0
  BY LimitsAssumption DEF Sound, TypeOK, Crash, Failing
<1>2. NothingLeft'
  BY <1>1 DEF NothingLeft
<1> QED BY <1>1, <1>2, DieKeeps DEF Crash

\* The keys of one owner run out together, and unless Overstay not under a
\* call that works.
LEMMA TickKeeps ==
  ASSUME Sound, Tick
  PROVE  Sound' /\ (NothingLeft => NothingLeft') /\ (~Overstay /\ WorkersHaveLocks => WorkersHaveLocks')
<1>0. /\ lock \in [Seats -> Owners \cup {None}] /\ ttl \in [Seats -> 0 .. TTL]
      /\ \A s \in Seats : ttl[s] = 0 <=> lock[s] = None
      /\ \A p \in Owners : call[p].seats \subseteq Seats
      /\ TTL \in Nat
  BY LimitsAssumption DEF Sound, TypeOK, Call
<1>1. /\ \A s \in Seats : /\ lock'[s] = (IF ttl[s] = 1 THEN None ELSE lock[s])
                          /\ ttl'[s] = (IF ttl[s] > 0 THEN ttl[s] - 1 ELSE 0)
      /\ lock' = [s \in Seats |-> IF RunsOut(s) THEN None ELSE lock[s]]
      /\ ttl' = [s \in Seats |-> IF ttl[s] > 0 THEN ttl[s] - 1 ELSE 0]
      /\ UNCHANGED <<call, wire, faults>>
  BY DEF Tick, RunsOut
<1>2. TypeOK'
  <2>1. lock' \in [Seats -> Owners \cup {None}]
    BY <1>0, <1>1
  <2>2. ttl' \in [Seats -> 0 .. TTL]
    <3>1. ASSUME NEW s \in Seats
          PROVE  (IF ttl[s] > 0 THEN ttl[s] - 1 ELSE 0) \in 0 .. TTL
      <4>1. PICK n : n = ttl[s]
        OBVIOUS
      <4>2. n \in 0 .. TTL
        BY <1>0, <4>1
      <4> QED BY <1>0, <4>1, <4>2
    <3> QED BY <1>1, <3>1
  <2>3. \A s \in Seats : ttl'[s] = 0 <=> lock'[s] = None
    BY <1>0, <1>1
  <2> QED BY <1>1, <2>1, <2>2, <2>3 DEF Sound, TypeOK
<1>3. Together'
  <2>1. ASSUME NEW o \in Owners, NEW s \in Seats, lock'[s] = o
        PROVE  s \in call[o].seats /\ \A t \in call[o].seats : lock'[t] = o /\ ttl'[t] = ttl'[s]
    <3>1. lock[s] = o /\ ttl[s] # 1
      BY <1>1, <2>1, NamesAssumption
    <3>2. s \in call[o].seats /\ \A t \in call[o].seats : lock[t] = o /\ ttl[t] = ttl[s]
      BY <3>1 DEF Sound, Together
    <3> QED BY <1>0, <1>1, <3>1, <3>2
  <2> QED BY <1>1, <2>1 DEF Together
<1>4. UnlocksLast' /\ (NothingLeft => NothingLeft')
  BY <1>1, NamesAssumption DEF Sound, UnlocksLast, NothingLeft
<1>5. ASSUME ~Overstay, WorkersHaveLocks PROVE WorkersHaveLocks'
  <2>1. ASSUME NEW p \in Owners, call[p].at \in Working, NEW s \in call[p].seats
        PROVE  lock'[s] = p
    <3>1. lock[s] = p /\ s \in Seats
      BY <1>0, <1>5, <2>1 DEF WorkersHaveLocks
    <3>2. ttl[s] # 1
      BY <1>5, <2>1, <3>1 DEF Tick, OwnKeys, RunsOut
    <3> QED BY <1>1, <3>1, <3>2
  <2> QED BY <1>1, <2>1 DEF WorkersHaveLocks
<1> QED BY <1>2, <1>3, <1>4, <1>5 DEF Sound

LEMMA StepKeeps ==
  Kept /\ [Next]_vars => Kept' /\ (~Overstay /\ WorkersHaveLocks => WorkersHaveLocks')
<1> SUFFICES ASSUME Kept, [Next]_vars
             PROVE  Kept' /\ (~Overstay /\ WorkersHaveLocks => WorkersHaveLocks')
  OBVIOUS
<1>1. CASE Tick
  BY <1>1, TickKeeps DEF Kept
<1>2. ASSUME NEW o \in Owners, NEW S \in SUBSET Seats, Begin(o, S)
      PROVE  Kept' /\ (WorkersHaveLocks => WorkersHaveLocks')
  BY <1>2, BeginKeeps DEF Kept
<1>3. ASSUME NEW o \in Owners, Proceed(o) \/ Fail(o)
      PROVE  Kept' /\ (WorkersHaveLocks => WorkersHaveLocks')
  BY <1>3, ProceedKeeps, FailKeeps DEF Kept
<1>4. ASSUME NEW O \in SUBSET Owners, Crash(O)
      PROVE  Kept' /\ (WorkersHaveLocks => WorkersHaveLocks')
  BY <1>4, CrashKeeps DEF Kept
<1>5. CASE UNCHANGED vars
  <2>1. UNCHANGED <<lock, ttl, call, wire, faults>>
    BY <1>5 DEF vars, keys
  <2> QED BY <2>1 DEF Kept, Sound, TypeOK, Together, UnlocksLast, NothingLeft, WorkersHaveLocks
<1> QED BY <1>1, <1>2, <1>3, <1>4, <1>5 DEF Next

-----------------------------------------------------------------------------
(* What follows for the keys, whoever takes the steps.                     *)

\* All that moves a call or a key while the process runs.
LockStep ==
  Tick \/ \E o \in Owners : (\E S \in SUBSET Seats : Begin(o, S)) \/ Proceed(o) \/ Fail(o)

LEMMA TogetherIsAll == Sound => AllOrNothing
<1> SUFFICES ASSUME Sound, NEW o \in Owners, NEW s \in Seats, lock[s] = o
             PROVE  {t \in Seats : lock[t] = o} = call[o].seats
  BY DEF AllOrNothing
<1>1. call[o].seats \subseteq Seats
  BY DEF Sound, TypeOK, Call
<1> QED BY <1>1 DEF Sound, Together

LEMMA LockStepUnlocks ==
  ASSUME LockStep, NEW s \in Seats, lock[s] # None, lock'[s] # lock[s]
  PROVE  RunsOut(s) \/ call[lock[s]].at = "unlocking" \/ <<lock[s], "unlock">> \in wire
<1>1. CASE Tick
  BY <1>1 DEF Tick
<1>2. ASSUME NEW o \in Owners, NEW S \in SUBSET Seats, Begin(o, S)
      PROVE  FALSE
  BY <1>2 DEF Begin, keys
<1>3. ASSUME NEW o \in Owners, Free(call[o].seats), SetKeys(call[o].seats, o, TTL)
      PROVE  FALSE
  BY <1>3 DEF Free, SetKeys
<1>4. ASSUME NEW o \in Owners, SetKeys(OwnKeys(o), None, 0)
      PROVE  lock[s] = o
  BY <1>4 DEF SetKeys, OwnKeys
<1>5. ASSUME NEW o \in Owners, Proceed(o)
      PROVE  call[lock[s]].at = "unlocking"
  <2>1. CASE Grant(o)
    BY <1>3, <2>1 DEF Grant
  <2>2. CASE Unlock(o)
    BY <1>4, <2>2 DEF Unlock
  <2> QED BY <1>5, <2>1, <2>2 DEF Proceed, Refuse, Enter, GiveUp, Return, keys
<1>6. ASSUME NEW o \in Owners, Fail(o)
      PROVE  <<lock[s], "unlock">> \in wire
  <2>1. CASE LateLock(o)
    BY <1>3, <2>1 DEF LateLock, keys
  <2>2. CASE LateUnlock(o)
    BY <1>4, <2>2 DEF LateUnlock
  <2> QED BY <1>6, <2>1, <2>2 DEF Fail, LoseLock, LoseUnlock, keys
<1> QED BY <1>1, <1>2, <1>5, <1>6 DEF LockStep

LEMMA LockStepRefuses ==
  ASSUME Sound, LockStep, NEW o \in Owners, call[o].at = "locking", call'[o].at = "refused"
  PROVE  ~Free(call[o].seats)
<1>1. call \in [Owners -> Call]
  BY DEF Sound, TypeOK
<1>2. ASSUME NEW p \in Owners, Proceed(p) PROVE ~Free(call[o].seats)
  BY <1>1, <1>2 DEF Proceed, Grant, Refuse, Enter, GiveUp, Return, Unlock, At, Call
<1>3. ASSUME NEW p \in Owners, Fail(p) PROVE FALSE
  BY <1>1, <1>3 DEF Fail, LoseLock, LoseUnlock, LateLock, LateUnlock, At, Call
<1>4. ASSUME NEW p \in Owners, NEW S \in SUBSET Seats, Begin(p, S) PROVE FALSE
  BY <1>1, <1>4 DEF Begin, Call
<1>5. ~Tick
  BY DEF Tick
<1> QED BY <1>2, <1>3, <1>4, <1>5 DEF LockStep

\* Nothing is left behind: a seat that is not free is a call's.
LEMMA TakenByACall ==
  ASSUME Sound, NothingLeft, faults = 0, NEW o \in Owners, call[o].at = "locking",
         ~Free(call[o].seats)
  PROVE  \E p \in Owners \ {o} : /\ call[p].at \in Working \cup {"unlocking"}
                                 /\ call[p].seats \cap call[o].seats # {}
<1>1. PICK s \in call[o].seats : lock[s] # None
  BY DEF Free
<1>2. s \in Seats
  BY <1>1 DEF Sound, TypeOK, Call
<1>3. PICK p \in Owners : lock[s] = p
  BY <1>1, <1>2 DEF Sound, TypeOK
<1>4. call[p].at \in Working \cup {"unlocking"} /\ s \in call[p].seats
  BY <1>2, <1>3 DEF Sound, NothingLeft, Together
<1>5. p # o
  BY <1>4 DEF Working
<1> QED BY <1>1, <1>4, <1>5

\* A crash moves no key and refuses no call.
LEMMA DieRefusesNone ==
  ASSUME Sound, NEW O \in SUBSET Owners, Die(O)
  PROVE  UNCHANGED keys /\ \A o \in Owners : call'[o].at \in {call[o].at, "idle"}
BY DEF Die, Sound, TypeOK, Call

-----------------------------------------------------------------------------
(* Locks and calls come to their end.                                      *)

\* A lock is never renewed, neither by a script that is sent again nor by one
\* that runs late: it is gone after at most TTL ticks, whoever still holds.
LocksAreNotRenewed ==
  [][\A s \in Seats : lock[s] # None =>
       \/ lock'[s] = None
       \/ lock'[s] = lock[s] /\ ttl'[s] \in {ttl[s], ttl[s] - 1}]_vars

\* What lies before a call, at most.
StagesLeft(stage) ==
  CASE stage = "locking" -> 4
    [] stage = "locked" -> 3
    [] stage = "hold" -> 2
    [] stage \in {"refused", "unlocking"} -> 1
    [] OTHER -> 0

\* Only one of the bounded failures makes a call lock its seats again.
CallsGoForward ==
  [][\A o \in Owners : call[o].at # "idle" /\ call'[o] # call[o] =>
       \/ StagesLeft(call'[o].at) < StagesLeft(call[o].at)
       \/ faults' > faults /\ call'[o].at = "locking"]_vars

LEMMA LockStepRenewsNone ==
  ASSUME Sound, LockStep, NEW s \in Seats, lock[s] # None
  PROVE  lock'[s] = None \/ (lock'[s] = lock[s] /\ ttl'[s] \in {ttl[s], ttl[s] - 1})
<1>1. CASE Tick
  <2>1. ttl[s] > 0
    BY DEF Sound, TypeOK
  <2> QED BY <1>1, <2>1 DEF Tick
<1>2. ASSUME NEW o \in Owners, Free(call[o].seats), SetKeys(call[o].seats, o, TTL)
      PROVE  lock'[s] = lock[s] /\ ttl'[s] = ttl[s]
  BY <1>2 DEF Free, SetKeys
<1>3. ASSUME NEW o \in Owners, SetKeys(OwnKeys(o), None, 0)
      PROVE  lock'[s] = None \/ (lock'[s] = lock[s] /\ ttl'[s] = ttl[s])
  BY <1>3 DEF SetKeys
<1>4. ASSUME NEW o \in Owners, Grant(o) \/ Unlock(o) \/ LateLock(o) \/ LateUnlock(o)
      PROVE  lock'[s] = None \/ (lock'[s] = lock[s] /\ ttl'[s] = ttl[s])
  <2>1. CASE Grant(o)
    BY <1>2, <2>1 DEF Grant
  <2>2. CASE Unlock(o)
    BY <1>3, <2>2 DEF Unlock
  <2>3. CASE LateLock(o)
    BY <1>2, <2>3 DEF LateLock, keys
  <2>4. CASE LateUnlock(o)
    BY <1>3, <2>4 DEF LateUnlock
  <2> QED BY <1>4, <2>1, <2>2, <2>3, <2>4
<1>5. \/ Tick \/ UNCHANGED keys
      \/ \E o \in Owners : Grant(o) \/ Unlock(o) \/ LateLock(o) \/ LateUnlock(o)
  BY DEF LockStep, Begin, Proceed, Refuse, Enter, GiveUp, Return, Fail, LoseLock, LoseUnlock
<1> QED BY <1>1, <1>4, <1>5 DEF keys

LEMMA LockStepGoesOn ==
  ASSUME Sound, LockStep, NEW o \in Owners, call[o].at # "idle", call'[o] # call[o]
  PROVE  \/ StagesLeft(call'[o].at) < StagesLeft(call[o].at)
         \/ faults' > faults /\ call'[o].at = "locking"
<1>0. TypeOK /\ faults \in Nat
  BY LimitsAssumption DEF Sound, TypeOK
<1>1. ~Tick
  BY DEF Tick
<1>2. ASSUME NEW p \in Owners, NEW S \in SUBSET Seats, Begin(p, S) PROVE FALSE
  BY <1>0, <1>2 DEF Begin, Unused, TypeOK
<1>3. ASSUME NEW p \in Owners, Proceed(p)
      PROVE  StagesLeft(call'[o].at) < StagesLeft(call[o].at)
  <2>1. ASSUME NEW stage, At(p, stage),
               stage \in {"idle", "locking", "refused", "unlocking"} \cup Working
        PROVE  p = o /\ call'[o].at = stage
    BY <1>0, <2>1, AtMoves
  <2>2. \/ call[o].at = "locking" /\ call'[o].at \in {"locked", "refused"}
        \/ call[o].at = "locked" /\ call'[o].at = "hold"
        \/ call[o].at = "refused" /\ call'[o].at = "idle"
        \/ call[o].at = "hold" /\ call'[o].at = "unlocking"
        \/ call[o].at = "unlocking" /\ call'[o].at = "idle"
    BY <1>3, <2>1 DEF Proceed, Grant, Refuse, Enter, GiveUp, Return, Unlock, Working
  <2> QED BY <2>2 DEF StagesLeft
<1>4. ASSUME NEW p \in Owners, LoseLock(p) \/ LoseUnlock(p)
      PROVE  \/ StagesLeft(call'[o].at) < StagesLeft(call[o].at)
             \/ faults' > faults /\ call'[o].at = "locking"
  <2>1. ASSUME NEW stage, At(p, stage), stage \in {"idle", "locking"}
        PROVE  p = o /\ call'[o].at = stage
    BY <1>0, <2>1, AtMoves
  <2>2. faults' > faults
    BY <1>0, <1>4 DEF LoseLock, LoseUnlock, Failing
  <2>3. /\ call'[o].at \in {"idle", "locking"}
        /\ call[o].at \in {"locking", "locked", "refused", "unlocking"}
    BY <1>4, <2>1 DEF LoseLock, LoseUnlock
  <2> QED BY <2>2, <2>3 DEF StagesLeft
<1>5. ASSUME NEW p \in Owners, LateLock(p) \/ LateUnlock(p) PROVE FALSE
  BY <1>5 DEF LateLock, LateUnlock
<1> QED BY <1>1, <1>2, <1>3, <1>4, <1>5 DEF LockStep, Fail

\* A process that ends takes its calls to their end.
LEMMA DieEnds ==
  ASSUME Sound, NEW O \in SUBSET Owners, Die(O), NEW o \in Owners, call[o].at # "idle",
         call'[o] # call[o]
  PROVE  StagesLeft(call'[o].at) < StagesLeft(call[o].at)
<1>1. call[o] \in Call /\ call'[o] = [call[o] EXCEPT !.at = "idle"]
  BY DEF Die, Sound, TypeOK
<1>2. /\ call'[o].at = "idle"
      /\ call[o].at \in {"locking", "locked", "hold", "refused", "unlocking"}
  BY <1>1 DEF Call, Working
<1> QED BY <1>2 DEF StagesLeft

-----------------------------------------------------------------------------
(* The theorems.                                                           *)

\* Every reachable state of the seat locks satisfies the invariant.
THEOREM LocksKept == Spec => []Kept
BY InitKept, StepKeeps, PTL DEF Spec

\* Every key and every call keeps its type, and a key always has a TTL.
THEOREM LocksTyped == Spec => []TypeOK
<1>1. Kept => TypeOK
  BY DEF Kept, Sound
<1> QED BY <1>1, LocksKept, PTL

\* acquireSeatsScript and releaseSeatsScript leave all the seats of a call
\* locked or none, through lost, repeated and late executions.
THEOREM LocksTogether == Spec => []AllOrNothing
<1>1. Kept => AllOrNothing
  BY TogetherIsAll DEF Kept
<1> QED BY <1>1, LocksKept, PTL

\* No unlock, however late, takes another call's lock away.
THEOREM OnlyOwnersUnlock == Spec => OwnersUnlock
<1>1. Kept /\ [Next]_vars =>
        [\A s \in Seats : lock[s] # None /\ lock'[s] # lock[s] =>
           \/ RunsOut(s)
           \/ call[lock[s]].at = "unlocking"
           \/ <<lock[s], "unlock">> \in wire]_vars
  BY LockStepUnlocks, DieRefusesNone DEF Kept, Next, LockStep, Crash, keys
<1> QED BY <1>1, LocksKept, PTL DEF Spec, OwnersUnlock

\* Without failures the conflict LockSeats reports is one with another call
\* that has a seat at this moment.
THEOREM RefusalsHaveReason == Spec => RefusedForACall
<1>1. ASSUME Kept, Next, NEW o \in Owners, call[o].at = "locking", call'[o].at = "refused"
      PROVE  LockStep
  BY <1>1, DieRefusesNone DEF Kept, Next, LockStep, Crash
<1>2. Kept /\ [Next]_vars =>
        [\A o \in Owners :
           faults = 0 /\ call[o].at = "locking" /\ call'[o].at = "refused" =>
             \E p \in Owners \ {o} :
               /\ call[p].at \in Working \cup {"unlocking"}
               /\ call[p].seats \cap call[o].seats # {}]_vars
  BY <1>1, LockStepRefuses, TakenByACall DEF Kept
<1> QED BY <1>2, LocksKept, PTL DEF Spec, RefusedForACall

\* While no hold outlasts its locks, HoldSeats runs the transactions of one
\* call at a time on a seat.
THEOREM HoldsExclude == ~Overstay => (Spec => []OneHoldPerSeat)
<1> SUFFICES ASSUME ~Overstay PROVE Spec => []OneHoldPerSeat
  OBVIOUS
<1>1. Init => Kept /\ WorkersHaveLocks
  BY InitKept
<1>2. Kept /\ WorkersHaveLocks /\ [Next]_vars => Kept' /\ WorkersHaveLocks'
  BY StepKeeps
<1>3. WorkersHaveLocks => OneHoldPerSeat
  BY DEF WorkersHaveLocks, OneHoldPerSeat, Working
<1> QED BY <1>1, <1>2, <1>3, PTL DEF Spec

\* A seat lock ends at most TTL ticks after the script that set it, whatever is
\* sent again or runs late.
THEOREM LocksRunOut == Spec => LocksAreNotRenewed
<1>1. Kept /\ [Next]_vars =>
        [\A s \in Seats : lock[s] # None =>
           \/ lock'[s] = None
           \/ lock'[s] = lock[s] /\ ttl'[s] \in {ttl[s], ttl[s] - 1}]_vars
  BY LockStepRenewsNone, DieRefusesNone DEF Kept, Next, LockStep, Crash, keys
<1> QED BY <1>1, LocksKept, PTL DEF Spec, LocksAreNotRenewed

\* A call of HoldSeats goes through its stages once, but for failures.
THEOREM CallsProgress == Spec => CallsGoForward
<1>1. Kept /\ [Next]_vars =>
        [\A o \in Owners : call[o].at # "idle" /\ call'[o] # call[o] =>
           \/ StagesLeft(call'[o].at) < StagesLeft(call[o].at)
           \/ faults' > faults /\ call'[o].at = "locking"]_vars
  BY LockStepGoesOn, DieEnds DEF Kept, Next, LockStep, Crash
<1> QED BY <1>1, LocksKept, PTL DEF Spec, CallsGoForward

=============================================================================
