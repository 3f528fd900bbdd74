------------------------------ MODULE SeatStore ------------------------------
(***************************************************************************)
(* The four transactions of the booking repository on PostgreSQL (READ      *)
(* COMMITTED): hold, confirm, cancel, release-expired, with the service's   *)
(* deadlock retry and the handler's background releaser.                   *)
(*                                                                         *)
(* seats and bookings hold the COMMITTED rows.  A transaction takes its     *)
(* locks one row at a time, reads at the times the code reads, and its     *)
(* writes, invisible to the others until then, happen in its commit step.  *)
(* PostgreSQL itself is external: a statement fixes the rows it will lock  *)
(* from one snapshot, waits for each in turn, and applies its WHERE clause *)
(* again to the version it finds once it has the lock.                     *)
(***************************************************************************)
EXTENDS Naturals, FiniteSets

CONSTANTS
  Seats,              \* ids of one showtime's seats, ordered like seat_id
  Bookings,           \* ids the uuid generator may give to a booking
  Requests,           \* goroutines that serve HTTP requests
  Ticker,             \* the goroutine of StartExpiredHoldReleaser
  None,               \* SQL NULL; also "no row"
  Priced,             \* the seats that have a seat_pricing row
  MaxTickets,         \* events.max_tickets_per_booking, 0 for NULL
  HoldTime,           \* the ten minutes of a hold, in ticks of the clock
  MaxDeadlockRetries, \* attempts of a service call at its transaction
  Operations,         \* the requests the clients send
  Straddling,         \* may a confirm or a cancel overlap its booking's expiry,
                      \* or a cancel start after it?
  MaxClock,           \* bound on the clock
  MaxFaults           \* bound on failing transactions

Workers == Requests \cup {Ticker}

Rows == Seats \cup Bookings

ASSUME SeatsAssumption == Seats \subseteq Nat
ASSUME FiniteAssumption == IsFiniteSet(Seats) /\ IsFiniteSet(Requests)
ASSUME NamesAssumption ==
  /\ Seats \cap Bookings = {}
  /\ None \notin Seats \cup Bookings \cup Nat
  /\ Ticker \notin Requests
ASSUME BoundsAssumption ==
  /\ HoldTime \in Nat
  /\ MaxTickets \in Nat
  /\ MaxClock \in Nat
  /\ MaxFaults \in Nat
  /\ MaxDeadlockRetries \in Nat \ {0}
  /\ Straddling \in BOOLEAN

VARIABLES
  seats,     \* show_time_seats: status, booking_id, expires_at
  bookings,  \* bookings with their booking_items: status, items, expires_at
  clock,     \* what time.Now() returns
  tx,        \* what each worker is doing
  faults     \* transactions that failed so far

vars == <<seats, bookings, clock, tx, faults>>

-----------------------------------------------------------------------------
(* The rows and the transactions in flight.                                *)

SeatRow == [status  : {"AVAILABLE", "HOLDING", "SOLD"},
            booking : Bookings \cup {None},
            expires : Nat \cup {None}]

\* An id without a row has status "NONE".
BookingRow == [status  : {"NONE", "HOLDING", "PAID", "CANCELED", "EXPIRED"},
               items   : SUBSET Seats,
               expires : Nat \cup {None}]

Stages == {"idle", "holdSelect", "holdLock", "confirmBooking", "confirmSeats",
           "cancelBooking", "cancelSeats", "releaseSelect", "releaseBookings",
           "releaseSeats"}

\* now is the transaction's time.Now(), found the ids its first SELECT read,
\* todo the rows the running statement has yet to lock, next the one of them
\* it waits for, rows the row locks it has.
Transaction == [at : Stages, booking : Bookings \cup {None}, req : SUBSET Seats,
                now : Nat, found : SUBSET Bookings, todo : SUBSET Rows,
                next : Rows \cup {None}, rows : SUBSET Rows,
                tries : 0 .. MaxDeadlockRetries - 1]

Idle == [at |-> "idle", booking |-> None, req |-> {}, now |-> 0, found |-> {},
         todo |-> {}, next |-> None, rows |-> {}, tries |-> 0]

FreeSeat == [status |-> "AVAILABLE", booking |-> None, expires |-> None]

NoBooking == [status |-> "NONE", items |-> {}, expires |-> None]

\* Mistake: the hold that expires now is taken for expired (<= for <).
HoldableAtExpiry(seat, now) ==
  \/ seat.status = "AVAILABLE"
  \/ seat.status = "HOLDING" /\ seat.expires <= now

\* The WHERE clause of the hold's SELECT ... FOR UPDATE.
Holdable(seat, now) ==
  \/ seat.status = "AVAILABLE"
  \/ seat.status = "HOLDING" /\ seat.expires < now

\* Mistake: the seats are found by booking_id alone.
HeldOrSoldFor(seat, ids) == seat.booking \in ids

\* The WHERE clause of the releaser's UPDATE of the seats.
HeldFor(seat, ids) == seat.status = "HOLDING" /\ seat.booking \in ids

\* Mistake: <= for <.
LapsedAtExpiry(b, now) == bookings[b].status = "HOLDING" /\ bookings[b].expires <= now

Lapsed(b, now) == bookings[b].status = "HOLDING" /\ bookings[b].expires < now

-----------------------------------------------------------------------------
(* Row locks.                                                              *)

Free(r, w) == \A v \in Workers \ {w} : r \notin tx[v].rows

Blocks(v, w) == v # w /\ tx[w].next \in tx[v].rows

\* w is on a cycle of workers that wait for each other.
Deadlocked(w) ==
  \E C \in SUBSET Workers :
    /\ w \in C
    /\ \A x \in C : (\E y \in C : Blocks(y, x)) /\ (\E y \in C : Blocks(x, y))

\* The row a statement locks first: any of them, or in ORDER BY seat_id.
AnyRow(T) == IF T = {} THEN {None} ELSE T
LeastSeat(T) == IF T = {} THEN {None} ELSE {s \in T : \A u \in T : s <= u}

\* The worker starts a statement that locks the rows T, beginning with n.
Scan(t, stage, T, n) == [t EXCEPT !.at = stage, !.todo = T, !.next = n]

Rest(w) == tx[w].todo \ {tx[w].next}

Goto(w, t) == tx' = [tx EXCEPT ![w] = t]

\* The row w waits for is free: it locks it and goes on to n.
LockNext(w, n) ==
  /\ tx[w].next # None
  /\ Free(tx[w].next, w)
  /\ Goto(w, [tx[w] EXCEPT !.rows = @ \cup {tx[w].next}, !.todo = Rest(w), !.next = n])
  /\ UNCHANGED <<seats, bookings, clock, faults>>

\* The transaction ends, rolled back, and its locks are free again.
Rollback(w) == Goto(w, Idle) /\ UNCHANGED <<seats, bookings, clock, faults>>

Starts(w, op) == w \in Requests /\ op \in Operations /\ tx[w].at = "idle"

-----------------------------------------------------------------------------
(* HoldSeats.                                                              *)

\* No row and no transaction has the id yet.
Unused(b) == bookings[b].status = "NONE" /\ \A w \in Workers : tx[w].booking # b

WithinLimit(req) == MaxTickets > 0 => Cardinality(req) <= MaxTickets

\* A request names some seats, none twice, no more than the event allows.
BeginHold(w, req, b) ==
  /\ Starts(w, "hold")
  /\ req # {} /\ WithinLimit(req)
  /\ Unused(b)
  /\ Goto(w, [Idle EXCEPT !.at = "holdSelect", !.booking = b, !.req = req, !.now = clock])
  /\ UNCHANGED <<seats, bookings, clock, faults>>

\* Mistake: no ORDER BY.
HoldSelectUnordered(w) ==
  LET candidates == {s \in tx[w].req : Holdable(seats[s], tx[w].now)} IN
  /\ tx[w].at = "holdSelect"
  /\ \E n \in AnyRow(candidates) : Goto(w, Scan(tx[w], "holdLock", candidates, n))
  /\ UNCHANGED <<seats, bookings, clock, faults>>

\* SELECT ... FOR UPDATE ORDER BY seat_id, the rows it will return if nobody
\* changes them before it has their locks.
HoldSelect(w) ==
  LET candidates == {s \in tx[w].req : Holdable(seats[s], tx[w].now)} IN
  /\ tx[w].at = "holdSelect"
  /\ \E n \in LeastSeat(candidates) : Goto(w, Scan(tx[w], "holdLock", candidates, n))
  /\ UNCHANGED <<seats, bookings, clock, faults>>

HoldLockSeat(w) ==
  /\ tx[w].at = "holdLock"
  /\ \E n \in LeastSeat(Rest(w)) : LockNext(w, n)

\* Mistake: the rows are trusted as they were before the wait for their locks.
GrantedUnchecked(w) == tx[w].rows

\* The rows the SELECT returns: those that still match once locked.
Granted(w) == {s \in tx[w].rows : Holdable(seats[s], tx[w].now)}

HoldCommit(w) ==
  LET expires == tx[w].now + HoldTime IN
  /\ tx[w].at = "holdLock" /\ tx[w].next = None
  /\ Granted(w) = tx[w].req
  /\ tx[w].req \subseteq Priced
  /\ bookings' = [bookings EXCEPT ![tx[w].booking] =
                    [status |-> "HOLDING", items |-> tx[w].req, expires |-> expires]]
  /\ seats' = [s \in Seats |->
                 IF s \in tx[w].req
                 THEN [status |-> "HOLDING", booking |-> tx[w].booking, expires |-> expires]
                 ELSE seats[s]]
  /\ Goto(w, Idle)
  /\ UNCHANGED <<clock, faults>>

\* A seat is taken, or has no price.
HoldReject(w) ==
  /\ tx[w].at = "holdLock" /\ tx[w].next = None
  /\ Granted(w) # tx[w].req \/ ~(tx[w].req \subseteq Priced)
  /\ Rollback(w)

-----------------------------------------------------------------------------
(* ConfirmBooking and CancelBooking.  The handler has read the booking     *)
(* first, so the row exists.                                               *)

BeginOn(w, op, stage, b) ==
  /\ Starts(w, op)
  /\ bookings[b].status # "NONE"
  /\ Goto(w, Scan([Idle EXCEPT !.booking = b], stage, {b}, b))
  /\ UNCHANGED <<seats, bookings, clock, faults>>

BeginConfirm(w, b) == BeginOn(w, "confirm", "confirmBooking", b)

\* The code cancels a HOLDING booking whenever it is asked to: that it is not
\* asked after the expiry, unless Straddling, is an assumption about the clients.
BeginCancel(w, b) ==
  /\ Straddling \/ ~Lapsed(b, clock)
  /\ BeginOn(w, "cancel", "cancelBooking", b)

\* Mistake: the expiry is left to the releaser.
ConfirmableForEver(b) == bookings[b].status = "HOLDING"

\* Mistake: only a second cancel is refused.
CancelableOnce(b) == bookings[b].status # "CANCELED"

\* What each transaction asks of the booking once it has locked it.
Confirmable(b) == bookings[b].status = "HOLDING" /\ ~(bookings[b].expires < clock)

Cancelable(b) == bookings[b].status = "HOLDING"

\* Lock the booking, and turn to the UPDATE of its items' seats.
LockBooking(w, stage) ==
  LET items == bookings[tx[w].booking].items IN
  /\ Free(tx[w].booking, w)
  /\ \E n \in AnyRow(items) :
       Goto(w, [Scan(tx[w], stage, items, n) EXCEPT !.rows = {tx[w].booking}])
  /\ UNCHANGED <<seats, bookings, clock, faults>>

ConfirmLockBooking(w) ==
  /\ tx[w].at = "confirmBooking"
  /\ Confirmable(tx[w].booking)
  /\ LockBooking(w, "confirmSeats")

ConfirmReject(w) ==
  /\ tx[w].at = "confirmBooking"
  /\ Free(tx[w].booking, w)
  /\ ~Confirmable(tx[w].booking)
  /\ Rollback(w)

CancelLockBooking(w) ==
  /\ tx[w].at = "cancelBooking"
  /\ Cancelable(tx[w].booking)
  /\ LockBooking(w, "cancelSeats")

CancelReject(w) ==
  /\ tx[w].at = "cancelBooking"
  /\ Free(tx[w].booking, w)
  /\ ~Cancelable(tx[w].booking)
  /\ Rollback(w)

LockItem(w) ==
  /\ tx[w].at \in {"confirmSeats", "cancelSeats"}
  /\ \E n \in AnyRow(Rest(w)) : LockNext(w, n)

\* Both write the seats of the booking's items by id, whoever has them now.
Settle(w, status, rows) ==
  LET b == tx[w].booking IN
  /\ tx[w].next = None
  /\ bookings' = [bookings EXCEPT ![b].status = status, ![b].expires = None]
  /\ seats' = [s \in Seats |-> IF s \in bookings[b].items THEN rows[s] ELSE seats[s]]
  /\ Goto(w, Idle)
  /\ UNCHANGED <<clock, faults>>

\* Mistake: the confirm clears booking_id like the other transactions.
SoldSeatsWithoutBooking == [s \in Seats |-> [FreeSeat EXCEPT !.status = "SOLD"]]

SoldSeats == [s \in Seats |-> [seats[s] EXCEPT !.status = "SOLD", !.expires = None]]

ReleasedSeats == [s \in Seats |-> FreeSeat]

ConfirmCommit(w) == tx[w].at = "confirmSeats" /\ Settle(w, "PAID", SoldSeats)

\* Mistake: the cancel forgets the seats.
CancelCommitKeepsSeats(w) ==
  /\ tx[w].at = "cancelSeats" /\ tx[w].next = None
  /\ bookings' = [bookings EXCEPT ![tx[w].booking].status = "CANCELED",
                                  ![tx[w].booking].expires = None]
  /\ Goto(w, Idle)
  /\ UNCHANGED <<seats, clock, faults>>

CancelCommit(w) == tx[w].at = "cancelSeats" /\ Settle(w, "CANCELED", ReleasedSeats)

-----------------------------------------------------------------------------
(* ReleaseExpiredHolds, of the ticker and of the administrator's request.  *)

\* Mistake: time.Now() is read once, when the releaser starts.
BeginReleaseAtStart(w) ==
  /\ Starts(w, "release") \/ (w = Ticker /\ tx[w].at = "idle")
  /\ Goto(w, [Idle EXCEPT !.at = "releaseSelect", !.now = 0])
  /\ UNCHANGED <<seats, bookings, clock, faults>>

BeginRelease(w) ==
  /\ Starts(w, "release") \/ (w = Ticker /\ tx[w].at = "idle")
  /\ Goto(w, [Idle EXCEPT !.at = "releaseSelect", !.now = clock])
  /\ UNCHANGED <<seats, bookings, clock, faults>>

\* The expired bookings, read without a lock.
ReleaseSelect(w) ==
  LET expired == {b \in Bookings : Lapsed(b, tx[w].now)} IN
  /\ tx[w].at = "releaseSelect"
  /\ \/ expired = {} /\ Goto(w, Idle)
     \/ /\ expired # {}
        /\ \E n \in expired :
             Goto(w, [Scan(tx[w], "releaseBookings", expired, n) EXCEPT !.found = expired])
  /\ UNCHANGED <<seats, bookings, clock, faults>>

ReleaseLockBooking(w) ==
  /\ tx[w].at = "releaseBookings"
  /\ \E n \in AnyRow(Rest(w)) : LockNext(w, n)

\* The UPDATE of the seats begins with a snapshot of its own.
ReleaseSelectSeats(w) ==
  LET held == {s \in Seats : HeldFor(seats[s], tx[w].found)} IN
  /\ tx[w].at = "releaseBookings" /\ tx[w].next = None
  /\ \E n \in AnyRow(held) : Goto(w, Scan(tx[w], "releaseSeats", held, n))
  /\ UNCHANGED <<seats, bookings, clock, faults>>

ReleaseLockSeat(w) ==
  /\ tx[w].at = "releaseSeats"
  /\ \E n \in AnyRow(Rest(w)) : LockNext(w, n)

\* The bookings are written by id alone, the seats only if they still match.
ReleaseCommit(w) ==
  /\ tx[w].at = "releaseSeats" /\ tx[w].next = None
  /\ bookings' = [b \in Bookings |-> IF b \in tx[w].found
                                     THEN [bookings[b] EXCEPT !.status = "EXPIRED"]
                                     ELSE bookings[b]]
  /\ seats' = [s \in Seats |-> IF s \in tx[w].rows /\ HeldFor(seats[s], tx[w].found)
                               THEN FreeSeat
                               ELSE seats[s]]
  /\ Goto(w, Idle)
  /\ UNCHANGED <<clock, faults>>

-----------------------------------------------------------------------------
(* Deadlocks, failures and time.                                           *)

\* Mistake: <= in the loop over the attempts.
RetriedOnceMore(w) == tx[w].at = "holdLock" /\ tx[w].tries < MaxDeadlockRetries

\* isDeadlock knows the error of the hold's SELECT; the confirm's UPDATE
\* wraps it with %v and hides it.  A confirm that waits for its booking has
\* no lock yet and is never a victim, so only a hold is ever tried again.
Retried(w) == tx[w].at = "holdLock" /\ tx[w].tries + 1 < MaxDeadlockRetries

\* Mistake: an endless loop.
HoldRetryUncounted(w) ==
  /\ Deadlocked(w) /\ Retried(w)
  /\ Goto(w, [Idle EXCEPT !.at = "holdSelect", !.booking = tx[w].booking,
                          !.req = tx[w].req, !.now = clock])
  /\ UNCHANGED <<seats, bookings, clock, faults>>

\* PostgreSQL aborts any one transaction of the cycle.
HoldRetry(w) ==
  /\ Deadlocked(w) /\ Retried(w)
  /\ Goto(w, [Idle EXCEPT !.at = "holdSelect", !.booking = tx[w].booking,
                          !.req = tx[w].req, !.now = clock, !.tries = tx[w].tries + 1])
  /\ UNCHANGED <<seats, bookings, clock, faults>>

DeadlockFail(w) ==
  /\ Deadlocked(w) /\ ~Retried(w)
  /\ Rollback(w)

\* Any statement may fail, or the connection drop.
Fault(w) ==
  /\ tx[w].at # "idle"
  /\ faults < MaxFaults
  /\ faults' = faults + 1
  /\ Goto(w, Idle)
  /\ UNCHANGED <<seats, bookings, clock>>

Settling == {"confirmBooking", "confirmSeats", "cancelBooking", "cancelSeats"}

\* Unless Straddling, a confirm or cancel that began before its hold's expiry
\* ends before it.
Tick ==
  /\ clock < MaxClock
  /\ \/ Straddling
     \/ \A w \in Workers : tx[w].at \in Settling =>
          LET b == tx[w].booking IN
          ~(bookings[b].status = "HOLDING" /\ bookings[b].expires = clock)
  /\ clock' = clock + 1
  /\ UNCHANGED <<seats, bookings, tx, faults>>

Init ==
  /\ seats = [s \in Seats |-> FreeSeat]
  /\ bookings = [b \in Bookings |-> NoBooking]
  /\ clock = 0
  /\ tx = [w \in Workers |-> Idle]
  /\ faults = 0

\* A step that takes a row lock.
Lock(w) ==
  \/ HoldLockSeat(w) \/ ConfirmLockBooking(w) \/ CancelLockBooking(w) \/ LockItem(w)
  \/ ReleaseLockBooking(w) \/ ReleaseLockSeat(w)

\* A step of a transaction that goes on by itself.
Proceed(w) ==
  \/ HoldSelect(w) \/ HoldCommit(w) \/ HoldReject(w)
  \/ ConfirmReject(w) \/ ConfirmCommit(w) \/ CancelReject(w) \/ CancelCommit(w)
  \/ ReleaseSelect(w) \/ ReleaseSelectSeats(w) \/ ReleaseCommit(w)

DeadlockVictim(w) == HoldRetry(w) \/ DeadlockFail(w)

Begin(w) ==
  \/ \E req \in SUBSET Seats, b \in Bookings : BeginHold(w, req, b)
  \/ \E b \in Bookings : BeginConfirm(w, b) \/ BeginCancel(w, b)
  \/ BeginRelease(w)

Next ==
  \/ Tick
  \/ \E w \in Workers :
       Begin(w) \/ Lock(w) \/ Proceed(w) \/ DeadlockVictim(w) \/ Fault(w)

Spec == Init /\ [][Next]_vars

\* PostgreSQL queues the waiters of a row and breaks every deadlock; the
\* ticker fires again and again; no goroutine stops in the middle.
Fairness ==
  /\ WF_vars(Tick)
  /\ WF_vars(BeginRelease(Ticker))
  /\ \A w \in Workers :
       /\ SF_vars(Lock(w))
       /\ SF_vars(ConfirmReject(w))
       /\ SF_vars(CancelReject(w))
       /\ WF_vars(Proceed(w))
       /\ WF_vars(DeadlockVictim(w))

FairSpec == Spec /\ Fairness

-----------------------------------------------------------------------------
(* What the rows say of the sale: an expired hold counts for nothing, even *)
(* before it is released.                                                  *)

Live(b) ==
  \/ bookings[b].status = "PAID"
  \/ bookings[b].status = "HOLDING" /\ ~(bookings[b].expires < clock)

Owner(s) ==
  IF \E b \in Bookings : seats[s].booking = b /\ Live(b) THEN seats[s].booking ELSE None

SaleStatus(b) ==
  CASE bookings[b].status = "NONE" -> "none"
    [] bookings[b].status = "PAID" -> "paid"
    [] bookings[b].status = "HOLDING" /\ Live(b) -> "held"
    [] OTHER -> "over"

\* Mistake: the rows are shown as they are stored.
ShownAsStored(s, now) == seats[s].status

\* What GetSeatsStatus shows of a row; it reads its time.Now() before the rows.
Shown(s, now) ==
  IF seats[s].status = "HOLDING" /\ seats[s].expires < now THEN "AVAILABLE" ELSE seats[s].status

Sale == INSTANCE SeatSale
          WITH NoOne  <- None,
               owner  <- [s \in Seats |-> Owner(s)],
               status <- [b \in Bookings |-> SaleStatus(b)]

-----------------------------------------------------------------------------
(* Properties.                                                             *)

\* Every row and every transaction has the shape the code gives it.
TypeOK ==
  /\ seats \in [Seats -> SeatRow]
  /\ bookings \in [Bookings -> BookingRow]
  /\ clock \in 0 .. MaxClock
  /\ tx \in [Workers -> Transaction]
  /\ faults \in 0 .. MaxFaults

\* A seat that shows HOLDING is held by a booking that is HOLDING too, lists
\* the seat and expires with it, whatever confirms, cancels, takeovers and
\* releasers have interleaved: the releaser will find every held seat.
HeldSeatBacked ==
  \A s \in Seats : seats[s].status = "HOLDING" =>
    \E b \in Bookings :
      /\ seats[s].booking = b
      /\ bookings[b].status = "HOLDING"
      /\ s \in bookings[b].items
      /\ bookings[b].expires = seats[s].expires

\* Holds alone never wait for each other in a cycle: their SELECT locks in
\* the order of seat_id.
HoldsNeverDeadlock ==
  ~ \E C \in SUBSET Workers :
      /\ C # {}
      /\ \A x \in C : tx[x].at = "holdLock" /\ \E y \in C : Blocks(y, x)

\* A booking gets a seat only while it is free or its hold has run out, even
\* though the hold decided on the seat before it had the lock.
HoldNeverTakesLiveSeat ==
  [][\A s \in Seats : seats'[s].booking \notin {None, seats[s].booking} =>
       \/ seats[s].status = "AVAILABLE"
       \/ seats[s].status = "HOLDING" /\ seats[s].expires < clock]_vars

\* The releaser frees no seat that was confirmed, or taken over by a new
\* hold, after it read the expired bookings.
ReleaserFreesOnlyLapsedSeats ==
  [][\A w \in Workers : tx[w].at = "releaseSeats" /\ tx'[w].at = "idle" =>
       \A s \in Seats : seats'[s] # seats[s] =>
         seats[s].status = "HOLDING" /\ seats[s].expires < clock]_vars

\* A booking is paid or cancelled once: no confirm, cancel or retry that
\* waited for the row acts on a booking another one has settled.
SettledOnce ==
  [][\A b \in Bookings : bookings[b].status \in {"PAID", "CANCELED", "EXPIRED"} =>
       bookings'[b].status \in {bookings[b].status, "EXPIRED"}]_vars

\* A paid or cancelled booking stays what it is.
SettledIsFinal ==
  [][\A b \in Bookings : bookings[b].status \in {"PAID", "CANCELED"} =>
       bookings'[b].status = bookings[b].status]_vars

\* A live booking, paid or held, has every seat it lists: all of them SOLD to
\* it, or all of them HOLDING for it.
LiveBookingKeepsSeats ==
  \A b \in Bookings : Live(b) =>
    \A s \in bookings[b].items :
      /\ seats[s].booking = b
      /\ seats[s].status = IF bookings[b].status = "PAID" THEN "SOLD" ELSE "HOLDING"

\* No seat is in two live bookings.
NoDoubleBooking ==
  \A b, c \in Bookings : b # c /\ Live(b) /\ Live(c) =>
    bookings[b].items \cap bookings[c].items = {}

\* GetSeatsStatus tells the truth, however old its time.Now() is and though
\* nobody has released the expired holds: a seat it shows SOLD is paid for and
\* the other way round, one it shows AVAILABLE is in no live booking, and one
\* it shows HOLDING now is held.
ShownTruthfully ==
  \A s \in Seats, now \in 0 .. clock :
    LET buyers == {b \in Bookings : s \in bookings[b].items /\ Live(b)} IN
    /\ Shown(s, now) = "SOLD" <=> \E b \in buyers : bookings[b].status = "PAID"
    /\ Shown(s, now) = "AVAILABLE" => buyers = {}
    /\ Shown(s, now) = "HOLDING" /\ now = clock => buyers # {}

\* The four transactions, with all their steps and waits, look like sales that
\* happen at one instant each.
ImplementsSale == Sale!Spec

\* No seat is paid for twice.
SeatSoldOnce ==
  \A b, c \in Bookings : b # c /\ bookings[b].status = "PAID" /\ bookings[c].status = "PAID" =>
    bookings[b].items \cap bookings[c].items = {}

\* The seats of a paid booking are sold.
PaidSeatsAreSold ==
  \A b \in Bookings : bookings[b].status = "PAID" =>
    \A s \in bookings[b].items : seats[s].status = "SOLD"

\* Every transaction ends, through waits, deadlocks and retries.
TransactionsEnd == \A w \in Workers : tx[w].at # "idle" ~> tx[w].at = "idle"

\* An expired hold does not stay HOLDING: a confirm, cancel or release ends it,
\* unless the ticker runs into a deadlock again and again and is never spared.
ExpiredHoldsEnd ==
  <>[]~Deadlocked(Ticker) =>
    \A b \in Bookings : Lapsed(b, clock) ~> bookings[b].status # "HOLDING"

=============================================================================
