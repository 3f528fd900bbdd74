--------------------------- MODULE LifecycleProofs --------------------------
(***************************************************************************)
(* Theorems about Lifecycle, for any number of requests and seats.  What    *)
(* SeatLockProofs proves of a step of the seat locks is used again here:    *)
(* the process takes the same steps.                                       *)
(***************************************************************************)
EXTENDS Lifecycle, SeatLockProofs

-----------------------------------------------------------------------------
(* The process itself, without the locks.                                  *)

Served == main \in {"serving", "stopping"}

\* The server has drained in time.
Cleaning ==
  \/ shutdown \in {"database", "redis", "releaser"}
  \/ shutdown = "done" /\ ~late

\* cleanup closes one thing after the other, and nothing else closes any.
ClosedInOrder ==
  /\ shutdown \in {"redis", "releaser"} \/ (shutdown = "done" /\ ~late) => db = "closed"
  /\ shutdown = "releaser" \/ (shutdown = "done" /\ ~late) => redis \in {"off", "closed"}
  /\ shutdown = "done" /\ ~late => releaser = "stopped"
  /\ db = "closed" \/ redis = "closed" => Cleaning \/ main \in Over
  /\ main = "complete" /\ ~late =>
       db = "closed" /\ redis \in {"off", "closed"} /\ releaser = "stopped"

Phases ==
  /\ main = "stopping" <=> shutdown # "none"
  /\ main = "wiring" \/ Served => redis # "new"
  /\ late => shutdown = "done" \/ main \in Over

\* There are requests only while the server runs and has not drained.
QuietOtherwise == ~Served \/ Cleaning => Quiet

Control == ProcessTypeOK /\ ClosedInOrder /\ Phases /\ QuietOtherwise

LEMMA ControlInit == AppInit => Control
BY DEF AppInit, Control, ProcessTypeOK, ClosedInOrder, Phases, QuietOtherwise, Quiet,
       Cleaning, Served, Booting, Over

\* A step of one request, while there may be requests.
LEMMA RequestMoves ==
  ASSUME Control, NEW o \in Owners,
         NEW stage \in {"none", "gate", "service", "panic", "held", "broadcast"},
         GoTo(o, stage), Served, ~Cleaning,
         UNCHANGED <<main, db, redis, listening, releaser, sigCh, shutdown, late>>
  PROVE  Control'
<1>1. request' \in [Owners -> {"none", "gate", "service", "panic", "held", "broadcast"}]
  BY DEF Control, ProcessTypeOK, GoTo
<1>2. ProcessTypeOK'
  BY <1>1 DEF Control, ProcessTypeOK
<1>3. ClosedInOrder' /\ Phases'
  BY DEF Control, ClosedInOrder, Phases, Cleaning, Served
<1>4. QuietOtherwise'
  BY DEF QuietOtherwise, Cleaning, Served
<1> QED BY <1>2, <1>3, <1>4 DEF Control

LEMMA ExitControlled ==
  ASSUME Control, NEW how \in Over, Exit(how), main \notin Over,
         how = "complete" => shutdown = "done"
  PROVE  Control' /\ main' \in Over
<1>1. /\ main' = how /\ Quiet' /\ listening' = FALSE /\ sigCh' = 0 /\ shutdown' = "none"
      /\ UNCHANGED <<db, redis, releaser, late>>
  BY DEF Exit, Quiet
<1>2. request' \in [Owners -> {"none", "gate", "service", "panic", "held", "broadcast"}]
  BY DEF Exit
<1>3. ProcessTypeOK'
  BY <1>1, <1>2 DEF Control, ProcessTypeOK
<1>4. ClosedInOrder'
  BY <1>1 DEF Control, ClosedInOrder, Cleaning, Over
<1>5. Phases' /\ QuietOtherwise'
  BY <1>1 DEF Phases, QuietOtherwise, Served, Over
<1> QED BY <1>1, <1>3, <1>4, <1>5 DEF Control

LEMMA ControlBoot ==
  ASSUME Control, ConnectPostgres \/ ConnectRedis \/ Wire \/ Listen \/ Signal \/ TakeSignal
  PROVE  Control'
<1> USE DEF Control, ProcessTypeOK, ClosedInOrder, Phases, QuietOtherwise, Quiet, Cleaning,
            Served, Booting, Over
<1>1. CASE ConnectPostgres
  BY <1>1 DEF ConnectPostgres
<1>2. CASE ConnectRedis
  BY <1>2 DEF ConnectRedis
<1>3. CASE Wire
  BY <1>3 DEF Wire
<1>4. CASE Listen
  BY <1>4 DEF Listen
<1>5. CASE Signal
  BY <1>5 DEF Signal
<1>6. CASE TakeSignal
  BY <1>6 DEF TakeSignal
<1> QED BY <1>1, <1>2, <1>3, <1>4, <1>5, <1>6

LEMMA ControlStop ==
  ASSUME Control, StopStep
  PROVE  Control'
<1> USE DEF Control, ProcessTypeOK, ClosedInOrder, Phases, QuietOtherwise, Quiet, Cleaning,
            Served, Booting, Over
<1>1. CASE Drained
  BY <1>1 DEF Drained
<1>2. CASE DrainTimesOut
  BY <1>2 DEF DrainTimesOut
<1>3. CASE CloseDatabase
  BY <1>3 DEF CloseDatabase
<1>4. CASE CloseRedis
  BY <1>4 DEF CloseRedis
<1>5. CASE StopExpiredHoldReleaser
  BY <1>5 DEF StopExpiredHoldReleaser
<1> QED BY <1>1, <1>2, <1>3, <1>4, <1>5 DEF StopStep

\* How main, its goroutine, NewApp and the kernel end the process.
Exits == BootFails \/ ListenFails \/ ForceExit \/ Complete \/ Killed

LEMMA ExitsExit ==
  ASSUME Exits
  PROVE  \E how \in Over : /\ Exit(how) /\ main \notin Over
                           /\ how = "complete" => main = "stopping" /\ shutdown = "done"
<1> USE DEF Booting, Over
<1>1. CASE BootFails
  BY <1>1 DEF BootFails
<1>2. CASE ListenFails
  BY <1>2 DEF ListenFails
<1>3. CASE ForceExit
  BY <1>3 DEF ForceExit
<1>4. CASE Complete
  BY <1>4 DEF Complete
<1>5. CASE Killed
  BY <1>5 DEF Killed, Running
<1> QED BY <1>1, <1>2, <1>3, <1>4, <1>5 DEF Exits

-----------------------------------------------------------------------------
(* The process and its calls.                                              *)

\* A call is of a request that is in the service, and has a Redis to call.
CallsServed ==
  \A o \in Owners : call[o].at # "idle" => request[o] \in {"service", "held"} /\ redis # "off"

\* After a shutdown in time nothing of the calls is left in Redis.
Clean ==
  main = "complete" /\ ~late /\ faults = 0 =>
    wire = {} /\ \A s \in Seats : lock[s] = None

\* What a process that runs has left behind belongs to its calls.
LeftByCalls == main \notin Over => NothingLeft

AppSafe == Control /\ Sound /\ CallsServed /\ LeftByCalls /\ Clean

LEMMA ControlRequests ==
  ASSUME Control, CallsServed, NEW o \in Owners, Arrive(o) \/ Serve(o)
  PROVE  Control' /\ UNCHANGED <<main, redis, late>>
<1>1. CASE Arrive(o)
  <2>1. Served /\ ~Cleaning /\ GoTo(o, "gate")
    BY <1>1 DEF Arrive, Served, Cleaning
  <2> QED BY <1>1, <2>1, RequestMoves DEF Arrive
<1>2. CASE UNCHANGED app
  BY <1>2 DEF app, Control, ProcessTypeOK, ClosedInOrder, Phases, QuietOtherwise, Quiet, Cleaning, Served
<1>3. CASE Serve(o) /\ ~Locking(o)
  <2>1. request[o] # "none"
    BY <1>3 DEF Serve, Reject, CallService, PanicInLockSeats, Recover, Hold, Return, Answer,
                Broadcast, CallsServed
  <2>2. Served /\ ~Cleaning
    BY <2>1 DEF Control, QuietOtherwise, Quiet
  <2>3. CASE Hold(o)
    BY <1>2, <2>2, <2>3, RequestMoves DEF Hold, app
  <2> QED BY <1>3, <2>2, <2>3, RequestMoves
          DEF Serve, Reject, CallService, PanicInLockSeats, Recover, Answer, Broadcast
<1> QED BY <1>1, <1>2, <1>3 DEF Locking, app

LEMMA QuietCalls ==
  ASSUME CallsServed, Quiet
  PROVE  \A o \in Owners : call[o].at = "idle"
BY DEF CallsServed, Quiet

LEMMA AppInitSafe == AppInit => AppSafe /\ WorkersHaveLocks
<1> SUFFICES ASSUME AppInit PROVE AppSafe /\ WorkersHaveLocks
  OBVIOUS
<1>1. Control
  BY ControlInit
<1>2. Kept /\ WorkersHaveLocks
  BY InitKept DEF AppInit
<1>3. CallsServed
  BY DEF AppInit, Init, Idle, CallsServed
<1>4. Clean
  BY DEF AppInit, Clean
<1> QED BY <1>1, <1>2, <1>3, <1>4 DEF AppSafe, Kept, LeftByCalls

\* The shutdown's own steps, and main's, leave the calls alone.
LEMMA QuietStepSafe ==
  ASSUME AppSafe, Control', UNCHANGED <<lock, ttl, call, wire, faults, request>>,
         (redis = "off") = (redis' = "off"), main' # "complete" \/ UNCHANGED <<main, late>>,
         main \in Over => main' \in Over
  PROVE  AppSafe' /\ (WorkersHaveLocks => WorkersHaveLocks')
<1>1. Sound' /\ (NothingLeft => NothingLeft') /\ (WorkersHaveLocks => WorkersHaveLocks')
  BY DEF AppSafe, Sound, TypeOK, Together, UnlocksLast, NothingLeft, WorkersHaveLocks
<1>2. CallsServed' /\ Clean'
  BY DEF AppSafe, CallsServed, Clean
<1> QED BY <1>1, <1>2 DEF AppSafe, LeftByCalls

LEMMA ProcessSafe ==
  ASSUME AppSafe,
         \/ ConnectPostgres \/ ConnectRedis \/ Wire \/ Listen \/ Signal \/ TakeSignal
         \/ StopStep
  PROVE  AppSafe' /\ (WorkersHaveLocks => WorkersHaveLocks')
<1>1. Control'
  BY ControlBoot, ControlStop DEF AppSafe
<1>2. /\ UNCHANGED <<lock, ttl, call, wire, faults, request>>
      /\ (redis = "off") = (redis' = "off")
      /\ main' # "complete" \/ UNCHANGED <<main, late>>
      /\ main \notin Over \/ UNCHANGED main
  BY DEF vars, keys, Over, ConnectPostgres, ConnectRedis, Wire, Listen, Signal, TakeSignal,
         StopStep, Drained, DrainTimesOut, CloseDatabase, CloseRedis, StopExpiredHoldReleaser,
         AppSafe, Control, Phases
<1> QED BY <1>1, <1>2, QuietStepSafe

LEMMA ExitSafe ==
  ASSUME AppSafe, Exits
  PROVE  AppSafe' /\ (WorkersHaveLocks => WorkersHaveLocks')
<1>1. PICK how \in Over : /\ Exit(how) /\ main \notin Over
                          /\ how = "complete" => main = "stopping" /\ shutdown = "done"
  BY ExitsExit
<1>2. Control' /\ main' \in Over /\ main' = how
  BY <1>1, ExitControlled DEF AppSafe, Exit
<1> DEFINE O == {o \in Owners : call[o].at # "idle"}
<1>3. O \in SUBSET Owners /\ Die(O) /\ UNCHANGED <<faults, late>>
  BY <1>1 DEF Exit
<1>4. faults' \in 0 .. MaxFaults
  BY <1>3 DEF AppSafe, Sound, TypeOK
<1>5. /\ Sound' /\ (WorkersHaveLocks => WorkersHaveLocks')
      /\ \A o \in Owners : call'[o].at = IF o \in O THEN "idle" ELSE call[o].at
  BY <1>3, <1>4, DieKeeps DEF AppSafe
<1>6. CallsServed'
  BY <1>5 DEF CallsServed
<1>7. Clean'
  <2> SUFFICES ASSUME main' = "complete", ~late', faults' = 0
               PROVE  wire' = {} /\ \A s \in Seats : lock'[s] = None
    BY DEF Clean
  <2>1. Quiet /\ NothingLeft /\ faults = 0
    BY <1>1, <1>2, <1>3 DEF AppSafe, Control, QuietOtherwise, Cleaning, LeftByCalls
  <2>2. \A o \in Owners : call[o].at = "idle"
    BY <2>1, QuietCalls DEF AppSafe
  <2>3. wire = {} /\ \A s \in Seats : lock[s] \notin Owners
    BY <2>1, <2>2 DEF NothingLeft, Working
  <2>4. UNCHANGED <<wire, lock>>
    <3>1. O = {}
      BY <2>2
    <3>2. Sent({}) = {}
      BY DEF Sent
    <3> QED BY <1>3, <3>1, <3>2 DEF Die, keys
  <2>5. \A s \in Seats : lock[s] \in Owners \cup {None}
    BY DEF AppSafe, Sound, TypeOK
  <2> QED BY <2>3, <2>4, <2>5
<1> QED BY <1>2, <1>5, <1>6, <1>7 DEF AppSafe, LeftByCalls

LEMMA RequestSafe ==
  ASSUME AppSafe, NEW o \in Owners, Arrive(o) \/ Serve(o)
  PROVE  AppSafe' /\ (WorkersHaveLocks => WorkersHaveLocks')
<1>1. Control' /\ UNCHANGED <<main, redis, late>>
  BY ControlRequests DEF AppSafe
<1>2. /\ call \in [Owners -> Call]
      /\ request \in [Owners -> {"none", "gate", "service", "panic", "held", "broadcast"}]
  BY DEF AppSafe, Sound, TypeOK, Control, ProcessTypeOK
<1>3. main # "complete"
  BY <1>2 DEF AppSafe, Arrive, Serve, Reject, CallService, PanicInLockSeats, Recover, Locking,
         Hold, Answer, Broadcast, Grant, Refuse, Enter, GiveUp, Return, Unlock, Control,
         QuietOtherwise, Quiet, Served, CallsServed
<1>4. Clean'
  BY <1>1, <1>3 DEF Clean
<1>5. ASSUME UNCHANGED vars,
             \A p \in Owners \ {o} : request'[p] = request[p],
             call[o].at = "idle" \/ redis = "off"
      PROVE  AppSafe' /\ (WorkersHaveLocks => WorkersHaveLocks')
  <2>1. UNCHANGED <<lock, ttl, call, wire, faults>>
    BY <1>5 DEF vars, keys
  <2>2. Sound' /\ (NothingLeft => NothingLeft') /\ (WorkersHaveLocks => WorkersHaveLocks')
    BY <2>1 DEF AppSafe, Sound, TypeOK, Together, UnlocksLast, NothingLeft, WorkersHaveLocks
  <2>3. CallsServed'
    BY <1>1, <1>5, <2>1 DEF AppSafe, CallsServed
  <2> QED BY <1>1, <1>4, <2>2, <2>3 DEF AppSafe, LeftByCalls
<1>6. CASE Arrive(o) \/ Reject(o) \/ PanicInLockSeats(o) \/ Recover(o) \/ Answer(o) \/ Broadcast(o)
  <2>1. UNCHANGED vars /\ \A p \in Owners \ {o} : request'[p] = request[p]
    BY <1>2, <1>6 DEF Arrive, Reject, PanicInLockSeats, Recover, Answer, Broadcast, GoTo
  <2>2. call[o].at = "idle" \/ redis = "off"
    BY <1>6 DEF Arrive, Reject, PanicInLockSeats, Recover, Answer, Broadcast, AppSafe, CallsServed
  <2> QED BY <1>5, <2>1, <2>2
<1>7. CASE CallService(o)
  <2>1. request' = [request EXCEPT ![o] = "service"]
    BY <1>7 DEF CallService, GoTo
  <2>2. CASE redis = "off"
    <3>1. UNCHANGED vars
      BY <1>7, <2>2 DEF CallService
    <3> QED BY <1>2, <1>5, <2>1, <2>2, <3>1
  <2>3. CASE redis # "off"
    <3>1. PICK S \in SUBSET Seats : Begin(o, S)
      BY <1>7, <2>3 DEF CallService
    <3>2. Sound' /\ (NothingLeft => NothingLeft') /\ (WorkersHaveLocks => WorkersHaveLocks')
      BY <3>1, BeginKeeps DEF AppSafe
    <3>3. \A p \in Owners \ {o} : call'[p] = call[p]
      BY <1>2, <3>1 DEF Begin
    <3>4. CallsServed'
      BY <1>1, <1>2, <2>1, <2>3, <3>3 DEF AppSafe, CallsServed
    <3> QED BY <1>1, <1>4, <3>2, <3>4 DEF AppSafe, LeftByCalls
  <2> QED BY <2>2, <2>3
<1>8. CASE Locking(o) \/ Hold(o)
  <2>1. Proceed(o) /\ call[o].at # "idle"
    BY <1>8 DEF Locking, Hold, Proceed, Grant, Refuse, Enter, GiveUp, Return, Unlock
  <2>2. Sound' /\ (NothingLeft => NothingLeft') /\ (WorkersHaveLocks => WorkersHaveLocks')
    BY <2>1, ProceedKeeps DEF AppSafe
  <2>3. \A p \in Owners \ {o} : call'[p] = call[p]
    BY <1>2, <2>1 DEF Proceed, Grant, Refuse, Enter, GiveUp, Return, Unlock, At
  <2>4. /\ \A p \in Owners \ {o} : request'[p] = request[p]
        /\ request'[o] \in {request[o], "held"}
    BY <1>2, <1>8 DEF Locking, Hold, GoTo, app
  <2>5. CallsServed'
    BY <1>1, <2>1, <2>3, <2>4 DEF AppSafe, CallsServed
  <2> QED BY <1>1, <1>4, <2>2, <2>5 DEF AppSafe, LeftByCalls
<1> QED BY <1>6, <1>7, <1>8 DEF Serve

LEMMA OutsideSafe ==
  ASSUME AppSafe, Outside
  PROVE  AppSafe' /\ (~Overstay /\ WorkersHaveLocks => WorkersHaveLocks')
<1>1. UNCHANGED <<main, db, redis, listening, releaser, sigCh, shutdown, late, request>>
  BY DEF Outside, app
<1>2. Control'
  BY <1>1 DEF AppSafe, Control, ProcessTypeOK, ClosedInOrder, Phases, QuietOtherwise, Quiet,
              Cleaning, Served
<1>3. /\ Sound' /\ (NothingLeft => NothingLeft')
      /\ ~Overstay /\ WorkersHaveLocks => WorkersHaveLocks'
  BY TickKeeps, FailKeeps DEF AppSafe, Outside
<1>4. call \in [Owners -> Call] /\ faults \in Nat
  BY LimitsAssumption DEF AppSafe, Sound, TypeOK
<1>5. \A p \in Owners : call'[p].at # "idle" => call[p].at # "idle"
  <2>1. CASE Tick
    BY <2>1 DEF Tick
  <2>2. ASSUME NEW o \in Owners, LoseLock(o) \/ LoseUnlock(o)
        PROVE  \A p \in Owners : call'[p].at # "idle" => call[p].at # "idle"
    BY <1>4, <2>2 DEF LoseLock, LoseUnlock, At, Call
  <2>3. ASSUME NEW o \in Owners, LateLock(o) \/ LateUnlock(o)
        PROVE  UNCHANGED call
    BY <2>3 DEF LateLock, LateUnlock
  <2> QED BY <2>1, <2>2, <2>3 DEF Outside, Fail
<1>6. CallsServed'
  BY <1>1, <1>5 DEF AppSafe, CallsServed
<1>7. Clean'
  <2> SUFFICES ASSUME main = "complete", ~late, faults' = 0
               PROVE  wire' = {} /\ \A s \in Seats : lock'[s] = None
    BY <1>1 DEF Clean
  <2>1. CASE Tick
    BY <2>1 DEF Tick, AppSafe, Clean
  <2>2. ASSUME NEW o \in Owners, Fail(o) PROVE FALSE
    <3>1. CASE LoseLock(o) \/ LoseUnlock(o)
      BY <1>4, <3>1 DEF LoseLock, LoseUnlock, Failing
    <3>2. CASE LateLock(o) \/ LateUnlock(o)
      BY <3>2 DEF LateLock, LateUnlock, AppSafe, Clean
    <3> QED BY <2>2, <3>1, <3>2 DEF Fail
  <2> QED BY <2>1, <2>2 DEF Outside
<1> QED BY <1>1, <1>2, <1>3, <1>6, <1>7 DEF AppSafe, LeftByCalls

LEMMA AppStepSafe ==
  AppSafe /\ [AppNext]_appVars =>
    AppSafe' /\ (~Overstay /\ WorkersHaveLocks => WorkersHaveLocks')
<1> SUFFICES ASSUME AppSafe, [AppNext]_appVars
             PROVE  AppSafe' /\ (~Overstay /\ WorkersHaveLocks => WorkersHaveLocks')
  OBVIOUS
<1>1. CASE \/ ConnectPostgres \/ ConnectRedis \/ Wire \/ Listen \/ Signal \/ TakeSignal
           \/ StopStep
  BY <1>1, ProcessSafe
<1>2. CASE Exits
  BY <1>2, ExitSafe
<1>3. ASSUME NEW o \in Owners, Arrive(o) \/ Serve(o)
      PROVE  AppSafe' /\ (WorkersHaveLocks => WorkersHaveLocks')
  BY <1>3, RequestSafe
<1>4. CASE Outside
  BY <1>4, OutsideSafe
<1>5. CASE UNCHANGED appVars
  <2>1. /\ UNCHANGED <<lock, ttl, call, wire, faults>>
        /\ UNCHANGED <<main, db, redis, listening, releaser, sigCh, shutdown, late, request>>
    BY <1>5 DEF appVars, vars, keys, app
  <2>2. Control'
    BY <2>1 DEF AppSafe, Control, ProcessTypeOK, ClosedInOrder, Phases, QuietOtherwise, Quiet,
                Cleaning, Served
  <2> QED BY <2>1, <2>2, QuietStepSafe DEF AppSafe
<1> QED BY <1>1, <1>2, <1>3, <1>4, <1>5 DEF AppNext, Boot, Exits

-----------------------------------------------------------------------------
(* Every step of the process, as the seat locks see it.                    *)

LEMMA StepForTheLocks ==
  ASSUME AppSafe, [AppNext]_appVars
  PROVE  \/ UNCHANGED vars
         \/ LockStep
         \/ \E O \in SUBSET Owners : Die(O)
<1>1. CASE \/ ConnectPostgres \/ ConnectRedis \/ Wire \/ Listen \/ Signal \/ TakeSignal
           \/ StopStep
  BY <1>1 DEF ConnectPostgres, ConnectRedis, Wire, Listen, Signal, TakeSignal, StopStep,
              Drained, DrainTimesOut, CloseDatabase, CloseRedis, StopExpiredHoldReleaser
<1>2. CASE Exits
  BY <1>2, ExitsExit DEF Exit
<1>3. ASSUME NEW o \in Owners, Arrive(o) \/ Serve(o)
      PROVE  UNCHANGED vars \/ LockStep
  BY <1>3 DEF Arrive, Serve, Reject, CallService, PanicInLockSeats, Recover, Locking, Hold,
              Answer, Broadcast, LockStep, Proceed
<1>4. CASE Outside
  BY <1>4 DEF Outside, LockStep
<1>5. CASE UNCHANGED appVars
  BY <1>5 DEF appVars
<1> QED BY <1>1, <1>2, <1>3, <1>4, <1>5 DEF AppNext, Boot, Exits

-----------------------------------------------------------------------------
(* The stores of the requests.                                             *)

\* NewApp opens both stores before there is a server; a drain that times out
\* closes neither.
StoresServe ==
  /\ main = "redis" => db = "open"
  /\ main \in {"wiring", "serving"} \/ shutdown = "drain" \/ late =>
       db = "open" /\ redis \in {"off", "open"}

\* With an empty REDIS_ADDR no request gets past LockSeats, with another one
\* none panics there.
LockerServes ==
  \A o \in Owners : request[o] \in IF redis = "off"
                                   THEN {"none", "gate", "service", "panic"}
                                   ELSE {"none", "gate", "service", "held", "broadcast"}

\* Nothing is in a Redis that there is not.
NothingIsKept == redis = "off" => wire = {} /\ \A s \in Seats : lock[s] = None

StoresSafe == StoresServe /\ LockerServes /\ NothingIsKept

LEMMA StoresInit == AppInit => StoresSafe
BY DEF AppInit, Init, StoresSafe, StoresServe, LockerServes, NothingIsKept

LEMMA StoresServeStep ==
  ASSUME AppSafe, StoresServe, [AppNext]_appVars
  PROVE  StoresServe'
<1>0. ProcessTypeOK /\ Phases
  BY DEF AppSafe, Control
<1>1. CASE ConnectPostgres \/ ConnectRedis \/ Wire \/ Listen \/ Signal \/ TakeSignal
  BY <1>0, <1>1 DEF ConnectPostgres, ConnectRedis, Wire, Listen, Signal, TakeSignal,
              StoresServe, Phases, ProcessTypeOK, Over, Booting, Served
<1>2. CASE StopStep
  BY <1>0, <1>2 DEF StopStep, Drained, DrainTimesOut, CloseDatabase, CloseRedis, Phases,
              StopExpiredHoldReleaser, StoresServe, Over
<1>3. CASE Exits
  <2>1. PICK how \in Over : Exit(how)
    BY <1>3, ExitsExit
  <2>2. main' \in Over /\ shutdown' = "none" /\ UNCHANGED <<db, redis, late>>
    BY <2>1 DEF Exit
  <2> QED BY <2>2 DEF StoresServe, Over
<1>4. ASSUME NEW o \in Owners, Arrive(o) \/ Serve(o)
      PROVE  UNCHANGED <<main, db, redis, shutdown, late>>
  BY <1>4 DEF Arrive, Serve, Reject, CallService, PanicInLockSeats, Recover, Locking, Hold,
              Answer, Broadcast, app
<1>5. CASE Outside \/ UNCHANGED appVars
  BY <1>5 DEF Outside, appVars, app, StoresServe
<1> QED BY <1>1, <1>2, <1>3, <1>4, <1>5 DEF AppNext, Boot, Exits, StoresServe

LEMMA LockerServesStep ==
  ASSUME AppSafe, LockerServes, [AppNext]_appVars
  PROVE  LockerServes' /\ ((redis = "off") <=> (redis' = "off"))
<1>0. /\ request \in [Owners -> {"none", "gate", "service", "panic", "held", "broadcast"}]
      /\ Phases /\ ProcessTypeOK
  BY DEF AppSafe, Control, ProcessTypeOK
<1>1. CASE \/ ConnectPostgres \/ ConnectRedis \/ Wire \/ Listen \/ Signal \/ TakeSignal
           \/ StopStep
  <2>1. UNCHANGED request /\ ((redis = "off") <=> (redis' = "off"))
    BY <1>1 DEF ConnectPostgres, ConnectRedis, Wire, Listen, Signal, TakeSignal, StopStep,
                Drained, DrainTimesOut, CloseDatabase, CloseRedis, StopExpiredHoldReleaser
  <2> QED BY <2>1 DEF LockerServes
<1>2. CASE Exits
  <2>1. request' = [o \in Owners |-> "none"] /\ UNCHANGED redis
    BY <1>2, ExitsExit DEF Exit
  <2> QED BY <2>1 DEF LockerServes
<1>3. ASSUME NEW o \in Owners, Arrive(o) \/ Serve(o)
      PROVE  LockerServes' /\ UNCHANGED redis
  <2>1. CASE Hold(o)
    <3>1. call[o].at # "idle" /\ UNCHANGED redis
      BY <2>1 DEF Hold, Return
    <3>2. redis # "off"
      BY <3>1 DEF AppSafe, CallsServed
    <3>3. UNCHANGED request \/ request' = [request EXCEPT ![o] = "held"]
      BY <2>1 DEF Hold, GoTo
    <3> QED BY <1>0, <3>1, <3>2, <3>3 DEF LockerServes
  <2>2. CASE Arrive(o) \/ Reject(o) \/ CallService(o) \/ PanicInLockSeats(o) \/ Recover(o)
    BY <1>0, <2>2 DEF Arrive, Reject, CallService, PanicInLockSeats, Recover, GoTo, LockerServes
  <2>3. CASE Answer(o) \/ Broadcast(o)
    BY <1>0, <2>3 DEF Answer, Broadcast, GoTo, LockerServes
  <2>4. CASE Locking(o)
    BY <2>4 DEF Locking, app, LockerServes
  <2> QED BY <1>3, <2>1, <2>2, <2>3, <2>4 DEF Serve
<1>4. CASE Outside \/ UNCHANGED appVars
  BY <1>4 DEF Outside, appVars, app, LockerServes
<1> QED BY <1>1, <1>2, <1>3, <1>4 DEF AppNext, Boot, Exits

\* Without Redis there is no call to die and none to take a step.
LEMMA NothingIsKeptStep ==
  ASSUME AppSafe, NothingIsKept, [AppNext]_appVars, redis = "off", redis' = "off"
  PROVE  NothingIsKept'
<1>1. (\A o \in Owners : call[o].at = "idle") /\ wire = {} /\ (\A s \in Seats : lock[s] = None)
  BY DEF AppSafe, CallsServed, NothingIsKept
<1>2. ASSUME NEW O \in SUBSET Owners, Die(O)
      PROVE  UNCHANGED wire /\ UNCHANGED lock
  <2>1. Sent(O) = {}
    BY <1>1 DEF Sent
  <2> QED BY <1>2, <2>1 DEF Die, keys
<1>3. CASE LockStep /\ ~UNCHANGED vars
  <2>1. CASE Tick
    BY <1>1, <2>1 DEF Tick, NothingIsKept
  <2>2. ASSUME NEW o \in Owners, NEW S \in SUBSET Seats, Begin(o, S)
        PROVE  NothingIsKept'
    BY <1>1, <2>2 DEF Begin, keys, NothingIsKept
  <2>3. \A o \in Owners : ~Proceed(o) /\ ~Fail(o)
    BY <1>1 DEF Proceed, Grant, Refuse, Enter, GiveUp, Return, Unlock, Fail, LoseLock,
                LoseUnlock, LateLock, LateUnlock
  <2> QED BY <1>3, <2>1, <2>2, <2>3 DEF LockStep
<1>4. CASE UNCHANGED vars
  BY <1>1, <1>4 DEF vars, keys, NothingIsKept
<1> QED BY <1>1, <1>2, <1>3, <1>4, StepForTheLocks DEF NothingIsKept

LEMMA StoresStep == AppSafe /\ StoresSafe /\ [AppNext]_appVars => StoresSafe'
<1> SUFFICES ASSUME AppSafe, StoresSafe, [AppNext]_appVars
             PROVE  StoresSafe'
  OBVIOUS
<1>1. StoresServe' /\ LockerServes' /\ ((redis = "off") <=> (redis' = "off"))
  BY StoresServeStep, LockerServesStep DEF StoresSafe
<1>2. NothingIsKept'
  BY <1>1, NothingIsKeptStep DEF StoresSafe, NothingIsKept
<1> QED BY <1>1, <1>2 DEF StoresSafe

-----------------------------------------------------------------------------
(* The theorems.                                                           *)

\* Every reachable state of the process and of its locks satisfies the
\* invariant.
THEOREM LifecycleSafe == AppSpec => []AppSafe
BY AppInitSafe, AppStepSafe, PTL DEF AppSpec

\* The seat locks, main, the server and the requests keep their types.
THEOREM LifecycleTyped == AppSpec => []AppTypeOK
<1>1. AppSafe => AppTypeOK
  BY DEF AppSafe, Sound, Control, AppTypeOK
<1> QED BY <1>1, LifecycleSafe, PTL

\* No request for a hold meets a store that App.Shutdown has closed.
THEOREM RequestsHaveStores == AppSpec => []NoRequestOutlivesItsStores
<1>1. AppSafe => NoRequestOutlivesItsStores
  BY DEF AppSafe, Control, ClosedInOrder, QuietOtherwise, Served, Over, NoRequestOutlivesItsStores
<1> QED BY <1>1, LifecycleSafe, PTL

\* A shutdown in time closes everything and leaves no seat locked.
THEOREM StopsLeaveNothing == AppSpec => []GracefulStopLeavesNothing
<1>1. AppSafe => GracefulStopLeavesNothing
  BY DEF AppSafe, Control, ClosedInOrder, Clean, GracefulStopLeavesNothing
<1> QED BY <1>1, LifecycleSafe, PTL

\* Through signals, shutdowns and exits too, calls hold disjoint seats in the
\* database as long as no hold outlasts its locks.
THEOREM HoldsExcludeThroughout == ~Overstay => (AppSpec => []OneHoldPerSeat)
<1> SUFFICES ASSUME ~Overstay PROVE AppSpec => []OneHoldPerSeat
  OBVIOUS
<1>1. AppSafe /\ WorkersHaveLocks /\ [AppNext]_appVars => AppSafe' /\ WorkersHaveLocks'
  BY AppStepSafe
<1>2. WorkersHaveLocks => OneHoldPerSeat
  BY DEF WorkersHaveLocks, OneHoldPerSeat, Working
<1> QED BY <1>1, <1>2, AppInitSafe, PTL DEF AppSpec

\* Requests, a shutdown and any end of the process leave all the seats of a call
\* locked or none.
THEOREM LocksTogetherThroughout == AppSpec => []AllOrNothing
<1>1. AppSafe => AllOrNothing
  BY TogetherIsAll DEF AppSafe
<1> QED BY <1>1, LifecycleSafe, PTL

\* Neither a process that ends nor what it has sent frees the seats of a call
\* that is not its own.
THEOREM OnlyOwnersUnlockThroughout == AppSpec => OwnersUnlock
<1>1. AppSafe /\ [AppNext]_appVars =>
        [\A s \in Seats : lock[s] # None /\ lock'[s] # lock[s] =>
           \/ RunsOut(s)
           \/ call[lock[s]].at = "unlocking"
           \/ <<lock[s], "unlock">> \in wire]_vars
  BY StepForTheLocks, LockStepUnlocks, DieRefusesNone DEF AppSafe, vars, keys
<1> QED BY <1>1, LifecycleSafe, PTL DEF AppSpec, OwnersUnlock

\* What earlier processes have locked or sent does not prolong a lock.
THEOREM LocksRunOutThroughout == AppSpec => LocksAreNotRenewed
<1>1. AppSafe /\ [AppNext]_appVars =>
        [\A s \in Seats : lock[s] # None =>
           \/ lock'[s] = None
           \/ lock'[s] = lock[s] /\ ttl'[s] \in {ttl[s], ttl[s] - 1}]_vars
  BY StepForTheLocks, LockStepRenewsNone, DieRefusesNone DEF AppSafe, vars, keys
<1> QED BY <1>1, LifecycleSafe, PTL DEF AppSpec, LocksAreNotRenewed

\* A call goes through its stages once, but for failures, and a process that
\* ends only shortens it.
THEOREM CallsProgressThroughout == AppSpec => CallsGoForward
<1>1. AppSafe /\ [AppNext]_appVars =>
        [\A o \in Owners : call[o].at # "idle" /\ call'[o] # call[o] =>
           \/ StagesLeft(call'[o].at) < StagesLeft(call[o].at)
           \/ faults' > faults /\ call'[o].at = "locking"]_vars
  BY StepForTheLocks, LockStepGoesOn, DieEnds DEF AppSafe, vars
<1> QED BY <1>1, LifecycleSafe, PTL DEF AppSpec, CallsGoForward

\* A process that runs and has met no failure refuses a call only for another
\* one: what an earlier process left behind is the failure.
THEOREM RefusalsHaveReasonThroughout == AppSpec => RefusedForACall
<1>1. ASSUME AppSafe, [AppNext]_appVars, NEW o \in Owners, faults = 0,
             call[o].at = "locking", call'[o].at = "refused"
      PROVE  \E p \in Owners \ {o} : /\ call[p].at \in Working \cup {"unlocking"}
                                     /\ call[p].seats \cap call[o].seats # {}
  <2>1. LockStep
    <3>1. ~UNCHANGED vars
      BY <1>1 DEF vars
    <3>2. ASSUME NEW O \in SUBSET Owners, Die(O) PROVE FALSE
      BY <1>1, <3>2, DieRefusesNone DEF AppSafe
    <3> QED BY <1>1, <3>1, <3>2, StepForTheLocks
  <2>2. ~Free(call[o].seats)
    BY <1>1, <2>1, LockStepRefuses DEF AppSafe
  <2>3. NothingLeft
    BY <1>1 DEF AppSafe, CallsServed, LeftByCalls, Control, QuietOtherwise, Quiet, Served, Over
  <2> QED BY <1>1, <2>2, <2>3, TakenByACall DEF AppSafe
<1>2. AppSafe /\ [AppNext]_appVars =>
        [\A o \in Owners :
           faults = 0 /\ call[o].at = "locking" /\ call'[o].at = "refused" =>
             \E p \in Owners \ {o} :
               /\ call[p].at \in Working \cup {"unlocking"}
               /\ call[p].seats \cap call[o].seats # {}]_vars
  BY <1>1
<1> QED BY <1>2, LifecycleSafe, PTL DEF AppSpec, RefusedForACall

\* Every reachable state satisfies the invariant of the stores.
THEOREM StoresSafely == AppSpec => []StoresSafe
BY StoresInit, StoresStep, LifecycleSafe, PTL DEF AppSpec

\* A request never meets a store that NewApp has not opened or that App.Shutdown
\* has closed.
RequestsMeetOpenStores == ~Quiet => db = "open" /\ redis \in {"off", "open"}

\* From its arrival to the broadcast after its answer, a request works with both
\* stores open, or without Redis at all.
THEOREM StoresOpen == AppSpec => []RequestsMeetOpenStores
<1>1. AppSafe /\ StoresSafe => RequestsMeetOpenStores
  <2> SUFFICES ASSUME AppSafe, StoresSafe, ~Quiet
               PROVE  db = "open" /\ redis \in {"off", "open"}
    BY DEF RequestsMeetOpenStores
  <2>1. Served /\ ~Cleaning
    BY DEF AppSafe, Control, QuietOtherwise
  <2>2. main = "serving" \/ shutdown = "drain" \/ late
    BY <2>1 DEF AppSafe, Control, ProcessTypeOK, Phases, Served, Cleaning
  <2> QED BY <2>2 DEF StoresSafe, StoresServe
<1> QED BY <1>1, LifecycleSafe, StoresSafely, PTL

\* Once a process has stopped by itself, its stores tell how: they are closed if
\* the requests were drained in time and open if not.
StopsTellTheDrain == main = "complete" => (late <=> db = "open")

\* App.Shutdown closes the database exactly when the drain was in time.
THEOREM DrainDecides == AppSpec => []StopsTellTheDrain
<1>1. AppSafe /\ StoresSafe => StopsTellTheDrain
  BY DEF AppSafe, Control, ProcessTypeOK, ClosedInOrder, StoresSafe, StoresServe, StopsTellTheDrain
<1> QED BY <1>1, LifecycleSafe, StoresSafely, PTL

\* Without Redis no call is ever made, no hold is begun and no seat is locked:
\* what the nil locker costs is every hold, not some of them.
NoHoldsWithoutRedis ==
  redis = "off" => \A o \in Owners : call[o].at = "idle" /\ request[o] \notin {"held", "broadcast"}

\* With an empty REDIS_ADDR the service never holds a seat (app.go says that it
\* holds them with the database only).
THEOREM NilLockerHoldsNothing == AppSpec => []NoHoldsWithoutRedis
<1>1. AppSafe /\ StoresSafe => NoHoldsWithoutRedis
  BY DEF AppSafe, CallsServed, StoresSafe, LockerServes, NoHoldsWithoutRedis
<1> QED BY <1>1, LifecycleSafe, StoresSafely, PTL

\* What a failure is to the locks: one of SeatLock's, or the end of the process.
Failed == faults + IF main \in Over THEN 1 ELSE 0

\* With the process as it was, a step of the locks is a step of SeatLock.
LEMMA SameStep ==
  ASSUME AppSafe, UNCHANGED main,
         \/ Tick
         \/ \E o \in Owners : (\E S \in SUBSET Seats : Begin(o, S)) \/ Proceed(o) \/ Fail(o)
  PROVE  Lock!Next
<1>1. Failed \in Nat /\ faults \in 0 .. MaxFaults /\ MaxFaults \in Nat
  BY LimitsAssumption DEF AppSafe, Sound, TypeOK, Failed
<1>2. UNCHANGED faults => Failed' = Failed
  BY DEF Failed
<1>3. CASE Tick
  BY <1>2, <1>3 DEF Tick, RunsOut, OwnKeys, Working, Lock!Next, Lock!Tick, Lock!RunsOut,
                    Lock!OwnKeys, Lock!Working, Failed
<1>4. ASSUME NEW o \in Owners, NEW S \in SUBSET Seats, Begin(o, S)
      PROVE  Lock!Begin(o, S)
  BY <1>2, <1>4 DEF Begin, Unused, Scripts, keys, Lock!Begin, Lock!Unused, Lock!Scripts,
                    Lock!keys, Failed
<1>5. ASSUME NEW o \in Owners, Proceed(o)
      PROVE  Lock!Proceed(o)
  <2>1. UNCHANGED faults
    BY <1>5 DEF Proceed, Grant, Refuse, Enter, GiveUp, Return, Unlock
  <2> QED BY <1>2, <1>5, <2>1
          DEF Proceed, Grant, Refuse, Enter, GiveUp, Return, Unlock, Free, SetKeys, OwnKeys,
              At, keys, Lock!Proceed, Lock!Grant, Lock!Refuse, Lock!Enter, Lock!GiveUp,
              Lock!Return, Lock!Unlock, Lock!Free, Lock!SetKeys, Lock!OwnKeys, Lock!At,
              Lock!keys, Failed
<1>6. ASSUME NEW o \in Owners, Fail(o)
      PROVE  Lock!Fail(o)
  <2>1. CASE LoseLock(o) \/ LoseUnlock(o)
    <3>1. main \notin Over
      BY <2>1 DEF LoseLock, LoseUnlock, AppSafe, CallsServed, Control, QuietOtherwise, Quiet,
                  Served, Over
    <3>2. Failing
      BY <2>1 DEF LoseLock, LoseUnlock
    <3>3. Lock!Failing
      BY <1>1, <3>1, <3>2 DEF Failing, Lock!Failing
    <3> QED BY <2>1, <3>3 DEF LoseLock, LoseUnlock, At, keys, Lock!Fail, Lock!LoseLock,
                              Lock!LoseUnlock, Lock!At, Lock!keys
  <2>2. CASE LateLock(o) \/ LateUnlock(o)
    <3>1. UNCHANGED faults
      BY <2>2 DEF LateLock, LateUnlock
    <3> QED BY <1>2, <2>2, <3>1
            DEF LateLock, LateUnlock, Free, SetKeys, OwnKeys, keys, Lock!Fail, Lock!LateLock,
                Lock!LateUnlock, Lock!Free, Lock!SetKeys, Lock!OwnKeys, Lock!keys, Failed
  <2> QED BY <1>6, <2>1, <2>2 DEF Fail
<1> QED BY <1>3, <1>4, <1>5, <1>6 DEF Lock!Next

\* Any end of the process is a crash.
LEMMA ExitCrashes ==
  ASSUME AppSafe, Exits
  PROVE  Lock!Next
<1>1. PICK how \in Over : Exit(how) /\ main \notin Over
  BY ExitsExit
<1> DEFINE O == {o \in Owners : call[o].at # "idle"}
<1>2. O \in SUBSET Owners /\ Die(O) /\ UNCHANGED faults /\ main' \in Over
  BY <1>1 DEF Exit
<1>3. faults \in 0 .. MaxFaults /\ MaxFaults \in Nat
  BY LimitsAssumption DEF AppSafe, Sound, TypeOK
<1>4. Lock!Failing
  BY <1>1, <1>2, <1>3 DEF Lock!Failing
<1>5. Lock!Die(O)
  BY <1>2 DEF Die, Sent, keys, Lock!Die, Lock!Sent, Lock!keys
<1> QED BY <1>2, <1>4, <1>5 DEF Lock!Next, Lock!Crash

\* The process, from start to whatever end, is to the seat locks a number of
\* calls and a crash.
THEOREM LifecycleImplementsLocks == AppSpec => ImplementsLocks
<1>1. AppInit => Lock!Init
  <2>1. AppInit => Failed = 0
    BY DEF AppInit, Init, Failed, Over
  <2> QED BY <2>1 DEF AppInit, Init, Idle, Lock!Init, Lock!Idle, Failed
<1>2. AppSafe /\ [AppNext]_appVars => [Lock!Next]_(Lock!vars)
  <2> SUFFICES ASSUME AppSafe, [AppNext]_appVars
               PROVE  Lock!Next \/ UNCHANGED Lock!vars
    OBVIOUS
  <2>1. ASSUME UNCHANGED <<lock, ttl, call, wire, faults>>, main \notin Over, main' \notin Over
        PROVE  UNCHANGED Lock!vars
    BY <2>1 DEF Lock!vars, Lock!keys
  <2>2. CASE \/ ConnectPostgres \/ ConnectRedis \/ Wire \/ Listen \/ Signal \/ TakeSignal
             \/ StopStep
    BY <2>1, <2>2 DEF vars, keys, Over, ConnectPostgres, ConnectRedis, Wire, Listen, Signal,
         TakeSignal, StopStep, Drained, DrainTimesOut, CloseDatabase, CloseRedis,
         StopExpiredHoldReleaser, AppSafe, Control, Phases
  <2>3. CASE Exits
    BY <2>3, ExitCrashes
  <2>4. ASSUME NEW o \in Owners, Arrive(o) \/ Serve(o)
        PROVE  Lock!Next \/ UNCHANGED Lock!vars
    <3>1. UNCHANGED main
      BY <2>4, ControlRequests DEF AppSafe
    <3>2. CASE UNCHANGED vars
      BY <3>1, <3>2 DEF vars, keys, Lock!vars, Lock!keys
    <3>3. CASE (\E S \in SUBSET Seats : Begin(o, S)) \/ Proceed(o)
      BY <3>1, <3>3, SameStep
    <3> QED BY <2>4, <3>2, <3>3
            DEF Arrive, Serve, Reject, CallService, PanicInLockSeats, Recover, Locking, Hold,
                Answer, Broadcast, Proceed
  <2>5. CASE Outside
    BY <2>5, SameStep DEF Outside, app
  <2>6. CASE UNCHANGED appVars
    BY <2>6 DEF appVars, vars, keys, app, Lock!vars, Lock!keys
  <2> QED BY <2>2, <2>3, <2>4, <2>5, <2>6 DEF AppNext, Boot, Exits
<1> QED BY <1>1, <1>2, LifecycleSafe, PTL DEF AppSpec, ImplementsLocks, Lock!Spec

=============================================================================
