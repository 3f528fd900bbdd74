# The TicketRush booking service in TLA+

This directory models the booking service of TicketRush (Go, gin, gorm on
PostgreSQL, Redis): what happens to the seats of a showtime when many buyers
hold, confirm and cancel at once while a background releaser expires holds.
Paths below are relative to the repository, line numbers are those of the
modelled commit.

## 1. The system

| part | state | operations | talks to |
|---|---|---|---|
| seat store, `internal/repository/booking_repository.go` | rows of `show_time_seats`, `bookings`, `booking_items` in PostgreSQL (READ COMMITTED) | `HoldSeats`, `ConfirmBooking`, `CancelBooking`, `ReleaseExpiredHolds`; reads `GetSeatsStatus`, `GetBookingByID`, `GetBookingsByUser`, `GetDashboardStats` | PostgreSQL row locks and deadlock detection |
| booking service, `internal/services/bookings_services.go` | none (per call: attempt counter, lock owner) | sorts and checks the seats, takes the Redis seat locks, retries deadlocks | seat store, seat locker |
| seat locker, `internal/infrastructure/redislock/seat_locker.go` | a Redis key per seat with a 15 s TTL | `LockSeats` (all or nothing Lua script), `UnlockSeats` (compare and delete) | Redis |
| virtual queue, `internal/redisqueue/queue_manager.go`, `internal/services/virtual_queue_service.go` | per showtime: set of active users, list of waiting users, session and waiting keys with TTLs, an operation lock | `Join`, `Heartbeat`, `Leave`, `Status`, `HasActiveSession`, `fillSlots`, `pruneExpired` | Redis, seat store (queue settings) |
| handlers, `internal/handler/booking_handler.go` | seat hub, releaser goroutine | one handler per route; `StartExpiredHoldReleaser` ticks every 15 s | the services, the hub |
| seat hub, `internal/realtime/seat_hub.go` | a map showtime -> subscriber channels of capacity 8, behind one mutex | `Subscribe`, `Unsubscribe`, `Broadcast`, `ShowtimeIDs` | the WebSocket handler `StreamSeatsStatus` |
| application, `internal/application/app.go`, `internal/server/server.go`, `cmd/server/main.go` | the wiring; lifecycle of the process | start, graceful shutdown, second signal | all of the above |
| middleware, dto, config, logger, metrics | none that outlives a request | authentication, request ids, parsing, metrics | - |

A hold request passes the queue gate (`RequireActiveBookingRoom`), then the
service checks the request and takes the Redis seat locks, then the store runs
one transaction, then the handler broadcasts the seats to the subscribers of
the showtime. Confirm and cancel skip the gate and the seat locks. The releaser
runs next to all of them, from the ticker and from an administrator's request.

What is hard:

* **Interleavings inside PostgreSQL.** A statement chooses rows from a snapshot,
  waits for their locks one at a time, and re-checks its `WHERE` clause on what
  it then finds. Confirm and cancel lock the booking first and the seats later
  and address the seats by id only; the hold never locks a booking; the releaser
  reads its bookings without a lock. Correctness depends on which check is made
  under which lock, and on `time.Now()` being read at different points.
* **Deadlocks and retries.** Holds lock seats in the order of `seat_id`, the
  UPDATEs of the others in any order.
* **Locks with a TTL** (seat locks, the queue's operation lock) that run out, or
  leak, while their owner is still at work.
* **Slots and sessions that expire by themselves** in the virtual queue, and
  must be pruned before others can enter.

* **Redis commands that are lost, late or sent again** while the caller goes on,
  and requests whose context is cancelled between two commands.
* **A broadcast that races** with subscriptions, disconnects and other
  broadcasts, and clients that stop reading.

What makes each part correct:

| part | properties |
|---|---|
| seat store | no seat in two live bookings; a live booking has all its seats; a settled booking stays settled; a held seat has a booking that will release it; holds never take a live seat; the releaser frees nothing that was confirmed or taken over; transactions and expired holds end; all of it looks like sales at one instant |
| seat locker | one hold per seat at a time; a call's locks come and go together; nobody's unlock takes another's lock; refusals have a reason; calls and locks end |
| virtual queue | the room within its limit; nobody in the room and the line; no ghosts; waiters keep their order and are not overtaken; live users keep their place; answers hold when given; one operation at a time; the operation lock and every wait end |
| seat hub and feed | no send to a closed channel; no change lost between subscription, first payload and broadcasts; broadcasts end although clients stall; changes reach the clients that read |
| lifecycle | no request for a hold outlives the stores that cleanup closes; a shutdown in time leaves nothing behind, not even a seat lock; the process of a signal ends; an exit in the middle of a hold is to the locks no more than a crash |

## 2. Modules

| module | what it is |
|---|---|
| `SeatSale` | abstract: holds, payments and ends that happen at one instant |
| `SeatStore` | the four transactions, one action per statement or lock step; `Sale == INSTANCE SeatSale WITH ...` |
| `VirtualQueue` | the queue manager, one action per Redis command or script |
| `WaitingRoom` | abstract: a room, a line and sessions that run out; every change at one instant. `VirtualQueue` has `Room == INSTANCE WaitingRoom WITH ...` |
| `SeatFeed` | the hub, the broadcasts of the handlers and the releaser, the WebSocket handler |
| `SeatLock` | the Redis seat locks around a hold |
| `Lifecycle` | composes: one process from start to exit, whose requests for a hold take the steps of `SeatLock`; `Lock == INSTANCE SeatLock WITH ...` |
| `MCSeatStore`, `MCVirtualQueue`, `MCSeatFeed`, `MCLifecycle` | instances for TLC (symmetry where only safety is checked) |
| `SeatStoreProofs`, `SeatSaleProofs`, `VirtualQueueProofs`, `VirtualQueueSerialProofs`, `WaitingRoomProofs`, `SeatFeedProofs`, `SeatLockProofs`, `LifecycleProofs` | the theorems and their proofs |

Definitions whose comment begins with *Mistake:* are not part of the model:
each is a plausible slip in the definition that follows it, and the property
named with it in `PROJECT.json` fails when it takes that definition's place.

### SeatStore

`seats` and `bookings` are the committed rows. A worker (`tx`) is a request
goroutine or the ticker of `StartExpiredHoldReleaser`; it takes row locks one at
a time (`rows`), waits for `next`, and publishes its writes in its commit step,
which is sound under READ COMMITTED because nobody else can see or lock the
written rows before.

| action | code in `booking_repository.go` |
|---|---|
| `BeginHold`, `HoldSelect`, `HoldLockSeat`, `HoldCommit`, `HoldReject` | `HoldSeats`: ticket limit, `SELECT ... FOR UPDATE ORDER BY seat_id`, each row lock and the re-check of the `WHERE` clause, the inserts and updates, the conflicts and missing prices |
| `BeginConfirm`, `ConfirmLockBooking`, `ConfirmReject`, `LockItem`, `ConfirmCommit` | `ConfirmBooking`: the booking's lock with the checks of status and expiry, the seats' locks in the UPDATE by id, the commit |
| `BeginCancel`, `CancelLockBooking`, `CancelReject`, `CancelCommit` | `CancelBooking`, which does not look at the expiry |
| `BeginRelease`, `ReleaseSelect`, `ReleaseLockBooking`, `ReleaseSelectSeats`, `ReleaseLockSeat`, `ReleaseCommit` | `ReleaseExpiredHolds`: the unlocked read, the UPDATE of the bookings by id, the UPDATE of the seats with its `WHERE` |
| `HoldRetry`, `DeadlockFail`, `Fault` | PostgreSQL chooses a victim of a deadlock; the service retries a hold up to `MaxDeadlockRetries`; any transaction may fail |
| `Tick` | `time.Now()` |

Which rows a statement locks is fixed by the snapshot it starts with; what it
finds when it has the lock is checked again. This is PostgreSQL's behaviour
(external), and most of the properties depend on it. Left out: amounts, user
ids and ownership, ids of items, timestamps other than expiries, and the reads
except one: `Shown(s, now)` is what `GetSeatsStatus` makes of a row when it has
read its clock as `now`, and `ShownTruthfully` says what a buyer may conclude
from it even though nobody has released the expired holds yet.

`SeatSale` sees a seat as owned only while its booking is `Live` (paid, or
HOLDING and not expired), so an expiry is an `End` that happens on a `Tick` and
the releaser's work is a stutter.

### VirtualQueue

The Redis keys of one showtime: set, sorted set (`queue` with its order
`ahead`), the two kinds of session keys with the ticks they have left, the
operation lock. A request goes through the stages of `Join`, `Heartbeat`,
`Leave`, `Status` or `HasActiveSession`; `joinLua` and `fillSlotsLua` are one
step each (`JoinRefresh`/`JoinEnter`/`JoinWait`, `Fill`), `pruneExpired` is a
listing, one `EXISTS` per member and a removal (`ListQueue`, `CheckQueue`,
`DropQueue`, and the same for the room). Failures: a failing command (`Fault`;
`FaultIgnored` where the code ignores the error), a request that gives up on
the lock, a `SETNX` whose reply is lost (`AcquireUnseen`), and a client that
hangs up, whose context makes the deferred `Del` fail too (`Abandon`). A command
that times out (`TimeOut`) is sent again, ends the operation or ends the request,
and stays on its way (`late`) until Redis executes it after all (`Arrive`), in
whatever operation it then falls; what a command does to the keys is one
definition (`FillSlots`, `Enter`, `Forget`, ...), in time or late.
Left out: showtimes without a queue, event ids, counts and the polling hint.
`drainPromotionLoop`, in spite of its name, runs its script once: `Fill`.
`SlotGhost` is reachable only when operations overlap.

`WaitingRoom` knows neither requests nor commands nor locks: users `Enter` when
a slot is free and nobody waits, `Wait`, are `Admit`ted in order, `Leave`,
their sessions `Lapse`, and whoever has none is forgotten (`ForgetWaiters`,
`ForgetMembers`). The mapping reads a session as live when its key exists.
`ImplementsRoom` holds because each command or script that touches the keys is
one such change by itself, failures halfway included; what makes it true is
that the operation lock keeps what `pruneExpired` has read, and the line that a
join has found empty, as they are.

### SeatFeed

`version` counts the changes of a showtime's seats; a payload is the number of
changes it shows. A worker is a handler after its change or the releaser
(`Change`, `Release`, `List`, `Build`, `Lock`, `Send`, `Unlock`, `Done`); a
client goes through `Subscribe`, `Snapshot`, `Receive`, `Write`, `Quit`,
`Unsubscribe`, and between `Receive` and `Write` it is blocked on the WebSocket
while its channel fills. `ChangeUnconfirmed` and `ReleaseUnconfirmed` are a
commit whose reply is lost: the rows are changed, the handler gets an error and
broadcasts nothing. `Broadcast` sends under the hub's read lock, one channel at a
time; subscribing and unsubscribing need the write lock. `GetSeatsStatus`
reads the clock and then the rows; the payload stands for everything up to its
clock reading, so later changes that it happens to show are not counted.
`newest` and `missed` are history: what a client has been shown, and whether a
payload for it was dropped at a full channel, could not be built, or was never
sent because a commit seemed to fail, in which case the code promises it nothing
until the next payload, and the properties ask nothing more of that connection.

### SeatLock

The key of each seat (`lock`, `ttl`), the call of each owner (a fresh uuid per
call) and commands that may still run although nobody waits for them (`wire`).
`Grant`/`Refuse` are `acquireSeatsScript`, `Unlock` is `releaseSeatsScript`,
`Enter` and `Return` bound the transactions of `SeatStore`. A lock script whose
reply is lost is sent again or ends the call without an unlock (`LoseLock`),
and may be executed later (`LateLock`); the same for the unlock.

A crash (`Die`) ends any set of calls at once; scripts that they had sent may
still run.

The composition is one-sided: `SeatStore` lets holds of the same seats run side
by side, as if there were no seat locks, so everything shown there holds with
the locks, without Redis and when a lock runs out. `SeatLock` shows what the
locks add.

### Lifecycle

| action | code |
|---|---|
| `ConnectPostgres`, `ConnectRedis`, `BootFails`, `Wire` | `NewApp` with its two connections and their errors, and `main` up to the signal channel |
| `Listen`, `ListenFails` | the goroutine of `app.Start` |
| `Signal`, `TakeSignal`, `ForceExit` | the channel of capacity 1 and its two, later three, receivers: `main` (`main.go:44`), the goroutine that exits (`:39`), and the `select` during the shutdown (`:60`) |
| `Drained`, `DrainTimesOut` | `http.Server.Shutdown` with the context of 15 seconds: every connection is idle, or an error and no cleanup |
| `CloseDatabase`, `CloseRedis`, `StopExpiredHoldReleaser` | `cleanup`, in its order |
| `Complete`, `Killed` | `main` returns; the process dies any other way |
| `Arrive`, `Reject`, `CallService`, `Locking`, `Hold`, `Answer`, `Broadcast` | the handler's `HoldSeats`: the checks and the queue's gate, the service's call, which takes the steps of `SeatLock`, the answer and the broadcast after it |
| `PanicInLockSeats`, `Recover` | the nil locker of a process without Redis, and `gin.Recovery` |

A request is over for `Drained` only when its handler has returned, after the
unlock and the broadcast. `redis` is `off` from the start when `REDIS_ADDR` is
empty. The gate is a choice: its answer is `VirtualQueue`'s `AnswersHold`, and
nothing in the code promises that the session outlives the hold. A hold uses
`context.Background()` and no request context, so cancelling the base context
(`server.go:70`) does not reach it; the queue's commands are reached, which is
`Abandon` and `Fault` in `VirtualQueue`.

## 3. Runs

| run | question | bounds |
|---|---|---|
| `store_any` | What do the row locks and re-checked `WHERE` clauses guarantee under every interleaving? `TypeOK`, `HeldSeatBacked`, `HoldsNeverDeadlock`, `HoldNeverTakesLiveSeat`, `ReleaserFreesOnlyLapsedSeats`, `SettledOnce` | 2 seats, 2 bookings, 2 requests and the ticker, clock to 3 with holds of 1, at most 2 tickets |
| `store_timely` | Is the sale correct while no confirm or cancel overlaps its hold's expiry and no cancel starts after it? `LiveBookingKeepsSeats`, `NoDoubleBooking`, `SettledIsFinal`, `ShownTruthfully`, `ImplementsSale` | the same, with one failing transaction |
| `store_live` | Do transactions and expired holds end? `TransactionsEnd`, `ExpiredHoldsEnd` | 2 seats, 2 bookings, 1 request and the ticker, one failure |
| `queue_overlap` | What do the scripts guarantee when the operation lock protects nothing? `TypeOK`, `RoomWithinLimit`, `AdmittedDoNotWait`, `LineIsKept` | 2 users, 2 requests, room of 1, a lock and sessions of 1 tick, operations that outlast the lock, one failure: a failing, a lost or a late command, or a request that is over |
| `queue_serial` | What does the queue promise while operations end before their lock? `OneOperationAtATime`, `NoGhosts`, `AnswersHold`, `LiveUsersKeepTheirPlace`, `NoOvertaking`, `ImplementsRoom` | 3 users, 2 requests, room of 1, one failure |
| `queue_live` | Is the lock always released, does every wait end? `LockIsReleased`, `WaitingEnds` | 3 users, 1 request, room of 1, one failure |
| `feed` | `TypeOK`, `OnlyOpenChannels`, `NoNewsLost`, `BroadcastsEnd`, `NewsArrives` | 1 showtime, 1 handler and the releaser, 2 clients, channels of 1, one change by a handler or an expiry, one failure: a payload that cannot be built or a commit whose reply is lost |
| `lock` | Do holds exclude each other, and does everything end, from the start of the process to any of its ends? `AppTypeOK`, `OneHoldPerSeat`, `AllOrNothing`, `OwnersUnlock`, `RefusedForACall`, `ImplementsLocks`, `NoRequestOutlivesItsStores`, `GracefulStopLeavesNothing`, `HoldsEnd`, `SignalsEndTheProcess` | 2 seats, 2 requests one after the other or at once, TTL of 2 ticks, one lost, late or repeated command, any exit |
| `stale_cancel`, `sold_twice`, `release_after_confirm`, `nil_locker` | the disagreements of section 6 | the smallest instance that shows each |

Why these are enough to be interesting: two workers and the ticker make every
pair of operations meet, with a third one in a queue for the same row; two
seats make deadlocks between row locks possible; two bookings make takeovers
possible, and a clock that runs past two holds lets each expire before, during
and after every step. In the queue, three users and one slot give a line of two,
so order and overtaking mean something. In the feed, capacity 1 makes a full
channel the normal case, and two clients let a broadcast be half done. In the
lock, two seats make "all or nothing" more than one key, and two calls, each of
which may come again under a new name once nothing is left of the old one, give
a late command a successor to harm; the process is started once and may end at
every step. The theorems of
section 5 remove the bounds from the safety properties. Deadlock is checked in
every run.

### Assumptions made by constants

* `Straddling = FALSE` is two assumptions: a confirm or cancel of a booking does
  not overlap the expiry of its hold, that is, the clock does not step past the
  expiry between the begin and the commit; and no cancel starts after the expiry
  on a booking that has not been released yet (a guard of `BeginCancel` that
  `CancelBooking` does not have; a confirm that starts late is modelled, and
  rejected). The code enforces neither. Without it (`Straddling =
  TRUE`) `sold_twice`, `stale_cancel` and `release_after_confirm` show what
  happens; `store_any` and its theorems do not need it.
* `Overstay = FALSE` (`VirtualQueue`): an operation, with every command it has
  sent, is over within the 15 seconds of its lock, so nothing is executed late
  (`OnTime`). `queue_overlap` and its theorems do not need it.
* `Overstay = FALSE` (`SeatLock`): a hold with its retries ends within the 15
  seconds of its seat locks. Only `OneHoldPerSeat` needs it.

### Fairness

* `SeatStore`: strong fairness of the steps that take a lock, since PostgreSQL
  queues the waiters of a row and a waiter is not passed over for ever; weak
  fairness of the other steps (goroutines run, PostgreSQL breaks every
  deadlock), of the clock, and of the ticker's next round. `ExpiredHoldsEnd` has
  the premise that the ticker is not a deadlock's victim again and again:
  nothing in the code or PostgreSQL keeps it from being chosen each time.
* `VirtualQueue`: weak fairness of time and of the steps of an operation; strong
  fairness of `Acquire`, an assumption of its own: the loop asks again every few
  milliseconds for three seconds, Redis does not queue. `WaitingEnds` has the
  premises that somebody polls the status and that sessions in the room end:
  promotion only happens inside a request, so without them it is not promised.
* `SeatFeed`: weak fairness of the broadcasts and of the releaser's ticks.
  Nothing for clients: a write to one that does not read may block for ever.
  `NewsArrives` is only promised to a client that reads (`Reads`).
* `Lifecycle`, with `SeatLock` in it: weak fairness of time (the TTLs of Redis
  go on after the process has ended), of each request's next step, of whoever
  receives a signal, of the steps of the shutdown, whose drain the 15 seconds of
  its context bound, and of `main`'s return. None for late commands, which may
  never be executed, for start-up, for arriving requests or for signals.

## 4. How the modules are checked

`tlc -config X.cfg M` in this directory for each run of `PROJECT.json`, `tlapm
M.tla` for each proof module. Every property has a mutant there that breaks it.

## 5. Theorems

All hold for every value of the constants that the named assumptions allow,
for any number of workers, users, seats, clients and failures.

| module | inductive invariant (theorem) | what follows |
|---|---|---|
| `SeatStoreProofs` | `Safe` (`StoreSafe`): row locks exclude each other, a hold's booking is not in the table before its commit, whoever has passed its checks still finds its booking HOLDING, and the releaser locks every seat of its bookings | `StoreTyped`, `SeatsBacked`, `HoldsTakeNoLiveSeat`, `ReleaserFreesNoLiveSeat`, `BookingsSettledOnce`; with `Ordered` (`StoreOrdered`: a hold that waits for a seat has only smaller ones and wants only greater ones after it) `HoldsLockInOrder`; with `Tidy` (`StoreTidy`: the row a statement waits for is one it has still to lock) `TransactionsProgress` and `StoreNeverStuck` |
| `SeatSaleProofs` | `Timely` (`StoreTimely`), under `Straddling = FALSE` (section 3): in addition, a confirm or cancel that will write finds its hold unexpired, nobody but a releaser touches the bookings a releaser has found, and live bookings have their seats | `SeatsKept`, `NoSeatTwice`, `SettledStays`; `PaidMeansSold`, `PaidOnce`; with `SoldSeatPaid` (`StoreSoldPaid`: a sold seat is listed by the paid booking in its row) `ShowsTheTruth` and `SalesStand`; `StoreImplementsSale` (initial states map to initial states, every step to a step of `SeatSale` or a stutter) |
| `VirtualQueueProofs` | `Kept` (`QueueKept`): one line in strict order, a room within its limit, nobody in both; each command keeps it by itself, executed in time or late (`EffectKeeps`) | `QueueTyped`, `RoomLimited`, `AdmittedOutOfLine`, `FillsAreComplete`, `OperationsProgress` |
| `VirtualQueueSerialProofs`, `WaitingRoomProofs` | `Serial` (`QueueSerial`), under `~Overstay`: one operation at a time, what it has read still holds, keys and membership agree | `PlacesKept` (without `~Overstay`), `OperationsExclude`, `KeysHaveMembers`, `AnswersStand`, `LiveUsersStay`, `NobodyOvertakes`; `QueueImplementsRoom` (initial states map to initial states, every step to a step of `WaitingRoom` or a stutter) |
| `SeatFeedProofs` | `Fed` (`FeedFed`): the hub's table agrees with the handlers that have not returned, broadcasts work on channels the hub knows, and a change that is not shown is on its way | `FeedTyped`, `ChannelsOpen`, `NewsCovered`, `BroadcastsProgress`; `FeedGenuine` (payloads on their way and shown are of the client's own showtime and no newer than its seats) |
| `SeatLockProofs` | `Kept` (`LocksKept`): the keys of a call were set together and have one TTL, late unlocks are of calls that have ended, nothing is left behind without a failure | `LocksTyped`, `LocksTogether`, `OnlyOwnersUnlock`, `RefusalsHaveReason`, `LocksRunOut`, `CallsProgress`, `HoldsExclude` (the last under `~Overstay`, with `WorkersHaveLocks`) |
| `LifecycleProofs` | `AppSafe` (`LifecycleSafe`): a request that is with the service has its call and nobody else has one, the stores are closed only by cleanup, in its order and after the last request, and the locks' `Sound` | `LifecycleTyped`, `RequestsHaveStores`, `StopsLeaveNothing`, `HoldsExcludeThroughout` (under `~Overstay`), `LocksTogetherThroughout`, `OnlyOwnersUnlockThroughout`, `RefusalsHaveReasonThroughout`, `LocksRunOutThroughout`, `CallsProgressThroughout`, `LifecycleImplementsLocks`; with `StoresSafe` (`StoresSafely`: both stores are open from before the server to the end of the drain, an empty `REDIS_ADDR` lets no request past `LockSeats`) `StoresOpen`, `DrainDecides`, `NilLockerHoldsNothing` |

`SeatLockProofs` keeps what is true of every step of the locks (`Sound`) apart
from what only holds until something has failed (`NothingLeft`); `Kept` is both.
`LifecycleProofs` uses `Sound` step by step, and `Kept` as long as the process
runs, since an exit leaves locks behind without a failing command. An exit is a
`Crash` of `SeatLock`: the mapping counts it as one more failure, for which
`MaxFaults + 1` of the instance leaves room.

The properties are not inductive by themselves. `HeldSeatBacked`, for instance,
fails in the next step from a state where two transactions think they have the
same row, or where a confirm is about to commit a booking that is no longer
HOLDING; the invariants add what each stage of a transaction may rely on, and
why. `HoldsExclude` is a consequence of `AllOrNothing` only together with equal
TTLs of a call's keys: otherwise one seat of a call could run out before the
others.

`HoldsLockInOrder` is the usual argument about ordered locks: of some holds that
all wait for each other, consider the one that waits for the greatest seat; it
waits for a hold that waits for a greater one. There is a greatest one because a
showtime has finitely many seats (`FiniteAssumption`).

The properties of `SeatLock` are proved twice, of `SeatLock` itself and of the
whole process. Both times the argument is about one step of the locks
(`LockStep`) or the end of some calls (`Die`); `StepForTheLocks` says that the
process does nothing else to them.

Of every liveness property that is only model-checked, what does not need
fairness is proved where the code's loops could hide an endless one:

* `TransactionsProgress`, `OperationsProgress`, `CallsProgress` and
  `BroadcastsProgress` are action properties with a measure each. A step of a
  transaction, operation, call or broadcast ends it or leaves less to do: tries,
  then statements, then rows; commands, then listed members; stages; showtimes,
  then stages, then channels. What may go back uses up one of the `MaxFaults`
  failures. Nothing is assumed of the others, so neither a busy queue nor a slow
  client can keep one of them going round.
* `StoreNeverStuck` says that there is always somebody to take such a step. Take
  a worker and everybody it waits for, directly or through others. If each is
  blocked by another one, the smallest part of them with that property is one
  where each blocks somebody of it, a cycle that PostgreSQL breaks
  (`BlockedContainCycle`); else one is not blocked, and an unblocked transaction
  has its next statement (`UnblockedCanStep`, where a hold needs the least of
  its seats to exist). `CanStep` spells out the guards of `Lock` and `Proceed`,
  in place of ENABLED.
* `LocksRunOutThroughout` says that no lock is ever renewed: with time going on,
  each is gone within its TTL, whoever has died.

Two findings of section 6, a booking that is paid without its seats and a seat
that is paid for twice, need a confirm or cancel that overlaps the expiry of
its hold or a cancel that starts after it: `PaidMeansSold`, `PaidOnce` and
`SalesStand` hold of every instance without these, and the first two are the
very properties that the runs violate. The nil
locker's finding is proved in full: `NilLockerHoldsNothing` says that without
Redis not one hold gets through.

Assumptions about the constants: the seats are ordered like numbers
(`SeatsAssumption`), seats and requests are finitely many (`FiniteAssumption`), names differ (`NamesAssumption`, `UsersAssumption`), bounds
are numbers and limits positive (`BoundsAssumption`, `LimitsAssumption`).

Only model-checked: liveness (`TransactionsEnd`, `ExpiredHoldsEnd`,
`LockIsReleased`, `WaitingEnds`, `BroadcastsEnd`, `NewsArrives`, `HoldsEnd`,
`SignalsEndTheProcess`), since fairness and ENABLED are out of the prover's
reach. Two more things the
prover cannot do, induction over data and RECURSIVE operators, are not needed:
no module declares a recursive operator.

## 6. Where the code disagrees with what is said of it

* `stale_cancel`: a cancel of an expired, unreleased booking frees seats by id
  (`booking_repository.go:378`) that another booking has taken over and paid
  for.
* `sold_twice`: a confirm that passed its expiry check updates the seats by id
  (`:312`) although a hold has taken them over in between; both can be paid.
* `release_after_confirm`: the releaser updates bookings by id (`:474`) that it
  chose without a lock (`:458`), and turns a booking paid in between into
  EXPIRED while its seats stay SOLD.
* `nil_locker`: with an empty `REDIS_ADDR` "holds use database only"
  (`app.go:75`), but the nil `*SeatLocker` of `app.go:57` becomes an interface
  that is not nil (`:79`), the service's check (`bookings_services.go:104`) lets
  it through, and `LockSeats` (`seat_locker.go:79`) dereferences it: every hold
  panics and is answered with 500. The virtual queue is not affected:
  `NewVirtualQueueService` returns a nil interface for a nil manager.

The first three need a transaction that overlaps an expiry or, `stale_cancel`, a
cancel that just starts after it: what the constant `Straddling` is for.

Noted while modelling, without a run:

* The repository wraps a confirm's errors with `%v` (`:318`), so `isDeadlock`
  never recognises them: the retry loop of `ConfirmBooking` in the service is
  dead code.
* Two broadcasts of one showtime may send their payloads in the other order
  (`booking_handler.go:631-636`), and a client then shows the older one until
  the next change.
* The operation lock of the queue runs out after 15 seconds under an operation
  that is still at work (`pruneExpired` asks for one key per round trip), and its
  deferred `Del` (`queue_manager.go:160`), which has no owner, then removes the
  lock of the next operation. `OneOperationAtATime` fails with `Overstay = TRUE`;
  what is left is what `queue_overlap` checks. Under it waiters can also be
  overtaken and, with unlucky timing, for ever.
* The request's `HoldExpiresAt` (`dto/request.go:13`) is never read: the
  repository always uses ten minutes from now.
* After a lost reply a buyer can be refused because of a lock that its own
  earlier call has left behind, with the message that another buyer holds the
  seat (`bookings_services.go:116`).
* `cmd/server/main.go`: two goroutines receive from one signal channel, so the
  very first signal may end the process without any shutdown (`:39-41`). Nothing
  that is promised breaks: transactions roll back, locks run out.
* An error of `Shutdown` skips the closing of the database and Redis although
  `main` then logs that the shutdown is complete.
* WebSocket connections are hijacked, so the shutdown neither waits for them nor
  closes them; a first payload may then be asked of a closed database, fails and
  gives the connection up.

## 7. What is not modelled, and the plan

Not modelled, and why:

* middleware, dto, configuration, logger, metrics, database set-up, API docs:
  they keep no state that operations share and decide one request by itself;
* parsing, authorization and the remaining reads in handlers, service and
  repository (`GetBookingByID`, `GetBookingsByUser`, `GetDashboardStats`): they
  change nothing and run to completion by themselves. The dashboard puts its
  numbers together from several statements without a transaction, and promises
  no common moment for them;
* `ForceShutdown` and `Close`, which nothing calls, and the health check's flag;
* a second process, or a restart of this one: the stores' contents survive, which
  is the reason why `HoldsEnd` and the mapping of `ImplementsLocks` go on after
  an exit, but the new process is not in the model. Its requests would be further
  owners of `SeatLock` and workers of `SeatStore`, which are not bounded by the
  theorems.

Done, in this order: `SeatStore` with `SeatSale`, `VirtualQueue`, `SeatFeed`,
`SeatLock`, `WaitingRoom`, `Lifecycle`, each with its proofs.

Left: an abstract specification of the feed that `SeatFeed` implements. It would
have to say more than `NoNewsLost` and `NewsArrives` already say; that what a
client has seen only grows is no promise of the code, which may send an older
payload after a newer one.
