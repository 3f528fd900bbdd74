----------------------------- MODULE Lifecycle ------------------------------
(***************************************************************************)
(* One process of the service from NewApp to its exit: main with its signal *)
(* channel, the HTTP server's shutdown, the connections and the background  *)
(* releaser, with POST /bookings/hold as the request that is in flight.      *)
(*                                                                         *)
(* Each request of HoldSeats is an owner of SeatLock, whose steps it takes  *)
(* while the process runs; an exit ends the calls and leaves their locks.   *)
(***************************************************************************)
EXTENDS SeatLock

VARIABLES
  main,       \* where main is, or how the process ended
  db,         \* the connection pool of Postgres
  redis,      \* the Redis client; "off" with an empty REDIS_ADDR
  listening,  \* has the server's goroutine bound its port?
  releaser,   \* the goroutine of StartExpiredHoldReleaser
  sigCh,      \* signals in the channel
  shutdown,   \* the next step of App.Shutdown
  late,       \* did the drain run into its timeout?
  request     \* per owner: where the handler's HoldSeats is

app == <<main, db, redis, listening, releaser, sigCh, shutdown, late, request>>

appVars == <<vars, app>>

Booting == {"database", "redis", "wiring"}

Running == main \in Booting \cup {"serving", "stopping"}

Over == {"panicked", "killed", "forced", "complete"}

Quiet == \A o \in Owners : request[o] = "none"

GoTo(o, stage) == request' = [request EXCEPT ![o] = stage]

\* The process ends, with whatever it was doing.  What it had closed is kept.
Exit(how) ==
  /\ main' = how
  /\ Die({o \in Owners : call[o].at # "idle"})
  /\ request' = [o \in Owners |-> "none"]
  /\ listening' = FALSE /\ sigCh' = 0 /\ shutdown' = "none"
  /\ UNCHANGED <<faults, db, redis, releaser, late>>

-----------------------------------------------------------------------------
(* NewApp and main.                                                        *)

ConnectPostgres ==
  /\ main = "database"
  /\ main' = "redis" /\ db' = "open"
  /\ UNCHANGED <<vars, redis, listening, releaser, sigCh, shutdown, late, request>>

\* Nothing is connected with an empty address.
ConnectRedis ==
  /\ main = "redis"
  /\ main' = "wiring"
  /\ redis' = IF redis = "off" THEN "off" ELSE "open"
  /\ UNCHANGED <<vars, db, listening, releaser, sigCh, shutdown, late, request>>

\* A connection fails, or the ping: NewApp returns the error and main panics.
BootFails ==
  /\ main = "database" \/ (main = "redis" /\ redis # "off")
  /\ Exit("panicked")

\* The releaser and the server's goroutine start, main subscribes to signals.
Wire ==
  /\ main = "wiring"
  /\ main' = "serving" /\ releaser' = "running"
  /\ UNCHANGED <<vars, db, redis, listening, sigCh, shutdown, late, request>>

\* After a Shutdown ListenAndServe returns at once.
Listen ==
  /\ main \in {"serving", "stopping"} /\ shutdown = "none" /\ ~listening
  /\ listening' = TRUE
  /\ UNCHANGED <<vars, main, db, redis, releaser, sigCh, shutdown, late, request>>

ListenFails ==
  /\ main = "serving" /\ ~listening
  /\ Exit("panicked")

\* Mistake: the channel grows with every signal.
SignalQueues ==
  /\ main \in {"serving", "stopping"} /\ sigCh < 2
  /\ sigCh' = sigCh + 1
  /\ UNCHANGED <<vars, main, db, redis, listening, releaser, shutdown, late, request>>

\* The channel keeps one signal and drops the others.
Signal ==
  /\ main \in {"serving", "stopping"} /\ sigCh = 0
  /\ sigCh' = 1
  /\ UNCHANGED <<vars, main, db, redis, listening, releaser, shutdown, late, request>>

\* Of the two receivers main gets the signal ...
TakeSignal ==
  /\ main = "serving" /\ sigCh = 1
  /\ main' = "stopping" /\ sigCh' = 0 /\ shutdown' = "drain"
  /\ UNCHANGED <<vars, db, redis, listening, releaser, late, request>>

\* ... or the goroutine that exits, be it the first signal; a signal during the
\* shutdown always does.
ForceExit ==
  /\ main \in {"serving", "stopping"} /\ sigCh = 1
  /\ Exit("forced")

\* Mistake: the channel done is closed only after a shutdown without an error.
CompleteIfClean ==
  /\ main = "stopping" /\ shutdown = "done" /\ ~late
  /\ Exit("complete")

\* main returns when App.Shutdown has, with an error or without.
Complete ==
  /\ main = "stopping" /\ shutdown = "done"
  /\ Exit("complete")

\* SIGKILL, a signal before Notify, a panic outside the handlers.
Killed ==
  /\ Running
  /\ Exit("killed")

-----------------------------------------------------------------------------
(* App.Shutdown.                                                           *)

\* Mistake: only requests in their transactions are waited for.
DrainedOfHolds ==
  /\ shutdown = "drain" /\ \A o \in Owners : call[o].at \notin Working
  /\ shutdown' = "database"
  /\ UNCHANGED <<vars, main, db, redis, listening, releaser, sigCh, late, request>>

\* http.Server.Shutdown finds no connection with a request.
Drained ==
  /\ shutdown = "drain" /\ Quiet
  /\ shutdown' = "database"
  /\ UNCHANGED <<vars, main, db, redis, listening, releaser, sigCh, late, request>>

\* Mistake: cleanup runs after the timeout too.
CleanUpAnyway ==
  /\ shutdown = "drain"
  /\ shutdown' = "database" /\ late' = TRUE
  /\ UNCHANGED <<vars, main, db, redis, listening, releaser, sigCh, request>>

\* The context of 15 seconds is over: an error, and no cleanup.
DrainTimesOut ==
  /\ shutdown = "drain"
  /\ shutdown' = "done" /\ late' = TRUE
  /\ UNCHANGED <<vars, main, db, redis, listening, releaser, sigCh, request>>

CloseDatabase ==
  /\ shutdown = "database"
  /\ shutdown' = "redis" /\ db' = "closed"
  /\ UNCHANGED <<vars, main, redis, listening, releaser, sigCh, late, request>>

CloseRedis ==
  /\ shutdown = "redis"
  /\ shutdown' = "releaser"
  /\ redis' = IF redis = "off" THEN "off" ELSE "closed"
  /\ UNCHANGED <<vars, main, db, listening, releaser, sigCh, late, request>>

StopExpiredHoldReleaser ==
  /\ shutdown = "releaser"
  /\ shutdown' = "done" /\ releaser' = "stopped"
  /\ UNCHANGED <<vars, main, db, redis, listening, sigCh, late, request>>

-----------------------------------------------------------------------------
(* The handler's HoldSeats.                                                *)

\* A connection accepted before the shutdown may still bring its first request
\* while the server drains.
Arrive(o) ==
  /\ main \in {"serving", "stopping"} /\ listening /\ shutdown \in {"none", "drain"}
  /\ request[o] = "none" /\ Unused(o)
  /\ GoTo(o, "gate")
  /\ UNCHANGED <<vars, main, db, redis, listening, releaser, sigCh, shutdown, late>>

\* No valid request, no active session, too many tickets, or a failing read.
Reject(o) ==
  /\ request[o] = "gate"
  /\ GoTo(o, "none")
  /\ UNCHANGED <<vars, main, db, redis, listening, releaser, sigCh, shutdown, late>>

CallService(o) ==
  /\ request[o] = "gate"
  /\ GoTo(o, "service")
  /\ \/ redis = "open" /\ \E S \in SUBSET Seats : Begin(o, S)
     \/ redis = "off" /\ UNCHANGED vars
  /\ UNCHANGED <<main, db, redis, listening, releaser, sigCh, shutdown, late>>

\* NewApp passes a nil *SeatLocker as a SeatLocker, which is not nil:
\* LockSeats dereferences it.
PanicInLockSeats(o) ==
  /\ request[o] = "service" /\ redis = "off"
  /\ GoTo(o, "panic")
  /\ UNCHANGED <<vars, main, db, redis, listening, releaser, sigCh, shutdown, late>>

\* gin.Recovery
Recover(o) ==
  /\ request[o] = "panic"
  /\ GoTo(o, "none")
  /\ UNCHANGED <<vars, main, db, redis, listening, releaser, sigCh, shutdown, late>>

Locking(o) ==
  /\ Grant(o) \/ Refuse(o) \/ Enter(o) \/ GiveUp(o) \/ Unlock(o)
  /\ UNCHANGED app

\* Mistake: the hold runs with the context that the shutdown cancels.
AbandonHold(o) ==
  /\ \/ Return(o)
     \/ call[o].at = "hold" /\ shutdown = "drain" /\ At(o, "idle") /\ UNCHANGED <<keys, wire, faults>>
  /\ UNCHANGED app

\* The transaction has held the seats, or has failed.
Hold(o) ==
  /\ Return(o)
  /\ GoTo(o, "held") \/ UNCHANGED request
  /\ UNCHANGED <<main, db, redis, listening, releaser, sigCh, shutdown, late>>

\* The service has returned: an error is answered and that is all, ...
Answer(o) ==
  /\ request[o] \in {"service", "held"} /\ redis # "off" /\ call[o].at = "idle"
  /\ GoTo(o, IF request[o] = "held" THEN "broadcast" ELSE "none")
  /\ UNCHANGED <<vars, main, db, redis, listening, releaser, sigCh, shutdown, late>>

\* ... after a success the seats are read again for the subscribers.
Broadcast(o) ==
  /\ request[o] = "broadcast"
  /\ GoTo(o, "none")
  /\ UNCHANGED <<vars, main, db, redis, listening, releaser, sigCh, shutdown, late>>

-----------------------------------------------------------------------------

AppInit ==
  /\ Init
  /\ main = "database" /\ db = "none" /\ redis \in {"off", "new"}
  /\ listening = FALSE /\ releaser = "none" /\ sigCh = 0
  /\ shutdown = "none" /\ late = FALSE
  /\ request = [o \in Owners |-> "none"]

Boot == ConnectPostgres \/ ConnectRedis \/ BootFails \/ Wire

StopStep == Drained \/ DrainTimesOut \/ CloseDatabase \/ CloseRedis \/ StopExpiredHoldReleaser

Serve(o) ==
  \/ Reject(o) \/ CallService(o) \/ PanicInLockSeats(o) \/ Recover(o)
  \/ Locking(o) \/ Hold(o) \/ Answer(o) \/ Broadcast(o)

\* Redis and time go on, with and without the process.
Outside ==
  /\ Tick \/ \E o \in Owners : Fail(o)
  /\ UNCHANGED app

AppNext ==
  \/ Boot \/ Listen \/ ListenFails
  \/ Signal \/ TakeSignal \/ ForceExit \/ Complete \/ Killed
  \/ StopStep
  \/ \E o \in Owners : Arrive(o) \/ Serve(o)
  \/ Outside

AppSpec == AppInit /\ [][AppNext]_appVars

\* The goroutines of main and of the requests run, time passes.
AppFairness ==
  /\ WF_appVars(TakeSignal \/ ForceExit)
  /\ WF_appVars(StopStep)
  /\ WF_appVars(Complete)
  /\ \A o \in Owners : WF_appVars(Serve(o))
  /\ WF_appVars(Tick /\ UNCHANGED app)

FairAppSpec == AppSpec /\ AppFairness

-----------------------------------------------------------------------------
(* Properties.                                                             *)

\* The values of main's, the server's and the requests' variables.
ProcessTypeOK ==
  /\ main \in Booting \cup {"serving", "stopping"} \cup Over
  /\ db \in {"none", "open", "closed"}
  /\ redis \in {"off", "new", "open", "closed"}
  /\ listening \in BOOLEAN /\ late \in BOOLEAN
  /\ releaser \in {"none", "running", "stopped"}
  /\ sigCh \in {0, 1}
  /\ shutdown \in {"none", "drain", "database", "redis", "releaser", "done"}
  /\ request \in [Owners -> {"none", "gate", "service", "panic", "held", "broadcast"}]

\* The seat locks and the process keep their types; the signal channel never
\* holds more than its one signal.
AppTypeOK == TypeOK /\ ProcessTypeOK

\* cleanup takes neither Postgres nor Redis away from a request for a hold (a
\* websocket is hijacked and may lose them): not during the hold, not from its unlock and not from the broadcast after its answer.
NoRequestOutlivesItsStores == db = "closed" \/ redis = "closed" => Quiet

\* A shutdown in time leaves nothing behind: both stores closed, the releaser
\* told to stop and, unless a command of Redis has failed, no seat locked.
GracefulStopLeavesNothing ==
  main = "complete" /\ ~late =>
    /\ db = "closed" /\ redis \in {"off", "closed"} /\ releaser = "stopped"
    /\ faults = 0 => \A s \in Seats : lock[s] = None

\* The process of a signal ends, whatever its requests do.
SignalsEndTheProcess == sigCh = 1 ~> main \in Over

\* Requests, a shutdown and any exit are, for the seat locks, calls and a crash.
Lock == INSTANCE SeatLock WITH
  MaxFaults <- MaxFaults + 1,
  faults <- faults + IF main \in Over THEN 1 ELSE 0

ImplementsLocks == Lock!Spec

\* app.go:75: without Redis "holds use database only".
HoldsUseDatabaseOnly == \A o \in Owners : request[o] # "panic"

=============================================================================
