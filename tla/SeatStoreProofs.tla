--------------------------- MODULE SeatStoreProofs ---------------------------
(***************************************************************************)
(* Proofs about SeatStore for any seats, bookings, requests and bounds.    *)
(***************************************************************************)
EXTENDS SeatStore, FiniteSetTheorems, WellFoundedInduction, TLAPS

-----------------------------------------------------------------------------
(* The inductive invariant: what holds of a transaction at each stage, next *)
(* to the rows that have been committed.                                   *)

\* A statement that waits for nothing has locked all its rows, no time.Now()
\* lies in the future, and a confirm or cancel is about a real booking.
ScanOK(t) ==
  /\ t.next = None => t.todo = {}
  /\ t.now <= clock
  /\ t.at \in Settling => t.booking \in Bookings

Holds(t) == t.at \in {"holdSelect", "holdLock"}

\* A hold asks for some seats; the id of its booking is not in the table
\* until it commits.
HoldOK(t) ==
  Holds(t) => t.req # {} /\ t.booking \in Bookings /\ bookings[t.booking].status = "NONE"

\* A confirm or cancel that got past its checks has its booking locked, and
\* the booking is HOLDING.
SettleOK(t) ==
  t.at \in {"confirmSeats", "cancelSeats"} =>
    t.booking \in t.rows /\ bookings[t.booking].status = "HOLDING"

\* A releaser's bookings exist and have expired if they are still HOLDING. At
\* its second UPDATE it has locked them, and will lock all their held seats.
ReleaseOK(t) ==
  /\ t.at \in {"releaseBookings", "releaseSeats"} =>
       \A b \in t.found :
         /\ bookings[b].status # "NONE"
         /\ bookings[b].status = "HOLDING" => bookings[b].expires < clock
  /\ t.at = "releaseBookings" => t.found \subseteq t.rows \cup t.todo
  /\ t.at = "releaseSeats" =>
       /\ t.found \subseteq t.rows
       /\ \A s \in Seats : HeldFor(seats[s], t.found) => s \in t.rows \cup t.todo

TransactionOK(t) == ScanOK(t) /\ HoldOK(t) /\ SettleOK(t) /\ ReleaseOK(t)

\* Row locks exclude each other, and so do the ids of new bookings.
Apart(t, u) ==
  /\ t.rows \cap u.rows = {}
  /\ Holds(t) /\ Holds(u) => t.booking # u.booking

\* A booking that is held expires.
HeldExpires == \A b \in Bookings : bookings[b].status = "HOLDING" => bookings[b].expires \in Nat

Safe ==
  /\ TypeOK
  /\ HeldExpires
  /\ \A w \in Workers : TransactionOK(tx[w])
  /\ \A v, w \in Workers : v # w => Apart(tx[v], tx[w])
  /\ HeldSeatBacked

-----------------------------------------------------------------------------
(* Lemmas about the helpers.                                               *)

LEMMA NextRow ==
  ASSUME NEW T \in SUBSET Rows, NEW n, n \in AnyRow(T) \/ n \in LeastSeat(T)
  PROVE  n \in Rows \cup {None} /\ (n = None => T = {})
  BY NamesAssumption DEF AnyRow, LeastSeat, Rows

LEMMA IdleOK ==
  ASSUME clock \in Nat
  PROVE  /\ Idle \in Transaction /\ TransactionOK(Idle) /\ ~Holds(Idle)
         /\ Idle.rows = {} /\ Idle.todo = {} /\ Idle.next = None /\ Idle.now = 0
  BY BoundsAssumption
  DEF Idle, Transaction, Stages, TransactionOK, ScanOK, HoldOK, SettleOK, ReleaseOK, Holds,
      Settling

LEMMA ScanTyped ==
  ASSUME NEW t \in Transaction, NEW stage \in Stages, NEW T \in SUBSET Rows,
         NEW n \in Rows \cup {None}
  PROVE  /\ Scan(t, stage, T, n) \in Transaction
         /\ Scan(t, stage, T, n).at = stage
         /\ Scan(t, stage, T, n).todo = T
         /\ Scan(t, stage, T, n).next = n
         /\ Scan(t, stage, T, n).rows = t.rows
         /\ Scan(t, stage, T, n).booking = t.booking
         /\ Scan(t, stage, T, n).found = t.found
         /\ Scan(t, stage, T, n).now = t.now
         /\ Scan(t, stage, T, n).req = t.req
  BY DEF Scan, Transaction

\* Moving one worker to a transaction that is in order keeps the others so.
LEMMA GotoWorkers ==
  ASSUME TypeOK, NEW w \in Workers, NEW t \in Transaction, Goto(w, t)
  PROVE  tx' \in [Workers -> Transaction] /\ tx'[w] = t /\ \A v \in Workers \ {w} : tx'[v] = tx[v]
  BY DEF TypeOK, Goto

LEMMA GotoSafe ==
  ASSUME Safe, NEW w \in Workers, NEW t \in Transaction, Goto(w, t), TransactionOK(t),
         \A v \in Workers \ {w} : Apart(t, tx[v]),
         UNCHANGED <<seats, bookings, clock>>, faults' \in 0 .. MaxFaults
  PROVE  Safe'
<1>1. /\ tx' \in [Workers -> Transaction] /\ tx'[w] = t
      /\ \A v \in Workers \ {w} : tx'[v] = tx[v]
  BY GotoWorkers DEF Safe
<1>2. TypeOK'
  BY <1>1 DEF TypeOK, Safe
<1>3. ASSUME NEW v \in Workers PROVE TransactionOK(tx[v])'
  <2>1. TransactionOK(tx'[v])
    BY <1>1 DEF Safe
  <2> QED
    BY <2>1 DEF TransactionOK, ScanOK, HoldOK, SettleOK, ReleaseOK, Holds, HeldFor, Settling
<1>4. ASSUME NEW u \in Workers, NEW v \in Workers, u # v PROVE Apart(tx[u], tx[v])'
  BY <1>1, <1>4 DEF Safe, Apart, Holds
<1>5. HeldSeatBacked' /\ HeldExpires'
  BY DEF Safe, HeldSeatBacked, HeldExpires
<1> QED BY <1>2, <1>3, <1>4, <1>5 DEF Safe

LEMMA IdleSafe ==
  ASSUME Safe, NEW w \in Workers, Goto(w, Idle), UNCHANGED <<seats, bookings, clock>>,
         faults' \in 0 .. MaxFaults
  PROVE  Safe'
<1>1. clock \in Nat
  BY BoundsAssumption DEF Safe, TypeOK
<1>2. \A v \in Workers \ {w} : Apart(Idle, tx[v])
  BY <1>1, IdleOK DEF Apart
<1> QED BY <1>1, <1>2, IdleOK, GotoSafe

\* Waiting for one more row and getting it.
LEMMA LockSafe ==
  ASSUME Safe, NEW w \in Workers, NEW n \in Rows \cup {None}, n = None => Rest(w) = {},
         LockNext(w, n)
  PROVE  Safe'
<1> DEFINE r == tx[w].next
           t == [tx[w] EXCEPT !.rows = @ \cup {r}, !.todo = Rest(w), !.next = n]
<1>1. tx[w] \in Transaction /\ TransactionOK(tx[w])
  BY DEF Safe, TypeOK
<1>2. r \in Rows /\ \A v \in Workers \ {w} : r \notin tx[v].rows
  BY <1>1 DEF LockNext, Free, Transaction
<1>3. t \in Transaction
  BY <1>1, <1>2 DEF Transaction, Rest
<1>4. /\ t.rows = tx[w].rows \cup {r} /\ t.todo = tx[w].todo \ {r} /\ t.next = n
      /\ t.at = tx[w].at /\ t.booking = tx[w].booking /\ t.found = tx[w].found
      /\ t.now = tx[w].now /\ t.req = tx[w].req
  BY <1>1 DEF Transaction, Rest
<1>5. TransactionOK(t)
  <2> HIDE DEF t
  <2> QED BY <1>1, <1>4
          DEF TransactionOK, ScanOK, HoldOK, SettleOK, ReleaseOK, Holds, Rest
<1>6. \A v \in Workers \ {w} : Apart(t, tx[v])
  BY <1>2, <1>4 DEF Safe, Apart, Holds
<1>7. Goto(w, t) /\ UNCHANGED <<seats, bookings, clock, faults>> /\ faults \in 0 .. MaxFaults
  BY DEF LockNext, Safe, TypeOK
<1> QED BY <1>3, <1>5, <1>6, <1>7, GotoSafe

-----------------------------------------------------------------------------
(* The steps that leave the rows alone.                                    *)

LEMMA BeginHoldSafe ==
  ASSUME Safe, NEW w \in Workers, NEW req \in SUBSET Seats, NEW b \in Bookings,
         BeginHold(w, req, b)
  PROVE  Safe'
<1> DEFINE t == [Idle EXCEPT !.at = "holdSelect", !.booking = b, !.req = req, !.now = clock]
<1>1. clock \in Nat /\ faults \in 0 .. MaxFaults
  BY BoundsAssumption DEF Safe, TypeOK
<1>2. /\ t \in Transaction /\ t.at = "holdSelect" /\ t.booking = b /\ t.rows = {}
      /\ t.now = clock /\ t.todo = {} /\ t.req = req
  BY <1>1, IdleOK DEF Transaction, Stages
<1>3. req # {} /\ bookings[b].status = "NONE" /\ \A v \in Workers : tx[v].booking # b
  BY DEF BeginHold, Unused
<1>4. TransactionOK(t) /\ \A v \in Workers \ {w} : Apart(t, tx[v])
  <2> HIDE DEF t
  <2> QED BY <1>1, <1>2, <1>3
          DEF TransactionOK, ScanOK, HoldOK, SettleOK, ReleaseOK, Holds, Settling, Apart
<1>5. Goto(w, t) /\ UNCHANGED <<seats, bookings, clock, faults>>
  BY DEF BeginHold
<1> QED BY <1>1, <1>2, <1>4, <1>5, GotoSafe

LEMMA HoldSelectSafe ==
  ASSUME Safe, NEW w \in Workers, HoldSelect(w)
  PROVE  Safe'
<1> DEFINE T == {s \in tx[w].req : Holdable(seats[s], tx[w].now)}
<1>1. tx[w] \in Transaction /\ TransactionOK(tx[w]) /\ faults \in 0 .. MaxFaults
  BY DEF Safe, TypeOK
<1>2. PICK n \in LeastSeat(T) : Goto(w, Scan(tx[w], "holdLock", T, n))
  BY DEF HoldSelect
<1>3. T \in SUBSET Rows /\ n \in Rows \cup {None} /\ (n = None => T = {})
  BY <1>1, NextRow DEF Transaction, Rows
<1> DEFINE t == Scan(tx[w], "holdLock", T, n)
<1>4. /\ t \in Transaction /\ t.at = "holdLock" /\ t.booking = tx[w].booking
      /\ t.rows = tx[w].rows /\ t.now = tx[w].now /\ t.todo = T /\ t.next = n
      /\ t.req = tx[w].req
  BY <1>1, <1>3, ScanTyped DEF Stages
<1>5. tx[w].at = "holdSelect" /\ UNCHANGED <<seats, bookings, clock, faults>>
  BY DEF HoldSelect
<1>6. TransactionOK(t)
  <2> HIDE DEF t
  <2> QED BY <1>1, <1>3, <1>4, <1>5
          DEF TransactionOK, ScanOK, HoldOK, SettleOK, ReleaseOK, Holds, Settling
<1>7. \A v \in Workers \ {w} : Apart(t, tx[v])
  <2> HIDE DEF t
  <2> QED BY <1>4, <1>5 DEF Safe, Apart, Holds
<1>8. Goto(w, t)
  BY <1>2
<1> QED BY <1>1, <1>4, <1>5, <1>6, <1>7, <1>8, GotoSafe

LEMMA BeginOnSafe ==
  ASSUME Safe, NEW w \in Workers, NEW op, NEW b \in Bookings,
         NEW stage \in {"confirmBooking", "cancelBooking"}, BeginOn(w, op, stage, b)
  PROVE  Safe'
<1> DEFINE i == [Idle EXCEPT !.booking = b]
           t == Scan(i, stage, {b}, b)
<1>1. clock \in Nat /\ faults \in 0 .. MaxFaults
  BY BoundsAssumption DEF Safe, TypeOK
<1>2. i \in Transaction /\ i.rows = {} /\ i.booking = b /\ i.now = 0
  BY <1>1, IdleOK DEF Transaction, Stages
<1>3. /\ t \in Transaction /\ t.at = stage /\ t.rows = {} /\ t.booking = b /\ t.next = b
      /\ t.now = 0
  <2> HIDE DEF i
  <2> QED BY <1>2, ScanTyped DEF Stages, Rows
<1>4. TransactionOK(t) /\ \A v \in Workers \ {w} : Apart(t, tx[v])
  <2> HIDE DEF t
  <2> QED BY <1>1, <1>3, NamesAssumption
          DEF TransactionOK, ScanOK, HoldOK, SettleOK, ReleaseOK, Holds, Settling, Apart
<1>5. Goto(w, t) /\ UNCHANGED <<seats, bookings, clock, faults>>
  BY DEF BeginOn
<1> QED BY <1>1, <1>3, <1>4, <1>5, GotoSafe

LEMMA LockBookingSafe ==
  ASSUME Safe, NEW w \in Workers, NEW stage \in {"confirmSeats", "cancelSeats"},
         tx[w].at \in {"confirmBooking", "cancelBooking"},
         bookings[tx[w].booking].status = "HOLDING", LockBooking(w, stage)
  PROVE  Safe'
<1> DEFINE b == tx[w].booking
           T == bookings[b].items
<1>1. tx[w] \in Transaction /\ TransactionOK(tx[w]) /\ faults \in 0 .. MaxFaults
  BY DEF Safe, TypeOK
<1>2. b \in Bookings
  BY <1>1 DEF TransactionOK, ScanOK, Settling
<1>3. T \in SUBSET Rows
  BY <1>2 DEF Safe, TypeOK, BookingRow, Rows
<1>4. PICK n \in AnyRow(T) : Goto(w, [Scan(tx[w], stage, T, n) EXCEPT !.rows = {b}])
  BY DEF LockBooking
<1>5. n \in Rows \cup {None} /\ (n = None => T = {})
  BY <1>3, NextRow
<1> DEFINE u == Scan(tx[w], stage, T, n)
           t == [u EXCEPT !.rows = {b}]
<1>6. /\ u \in Transaction /\ u.at = stage /\ u.todo = T /\ u.next = n
      /\ u.booking = b /\ u.now = tx[w].now
  BY <1>1, <1>3, <1>5, ScanTyped DEF Stages
<1>7. /\ t \in Transaction /\ t.at = stage /\ t.todo = T /\ t.next = n
      /\ t.booking = b /\ t.now = tx[w].now /\ t.rows = {b}
  <2> HIDE DEF u
  <2> QED BY <1>2, <1>6 DEF Transaction, Rows
<1>8. TransactionOK(t)
  <2> HIDE DEF t, b
  <2> QED BY <1>1, <1>2, <1>5, <1>7
          DEF TransactionOK, ScanOK, HoldOK, SettleOK, ReleaseOK, Holds, b
<1>9. \A v \in Workers \ {w} : Apart(t, tx[v])
  <2> HIDE DEF t
  <2> QED BY <1>7 DEF LockBooking, Free, Apart, Holds
<1>10. Goto(w, t) /\ UNCHANGED <<seats, bookings, clock, faults>>
  BY <1>4 DEF LockBooking
<1> QED BY <1>1, <1>7, <1>8, <1>9, <1>10, GotoSafe
LEMMA ReleaseSelectSafe ==
  ASSUME Safe, NEW w \in Workers, ReleaseSelect(w)
  PROVE  Safe'
<1> DEFINE E == {b \in Bookings : Lapsed(b, tx[w].now)}
<1>1. tx[w] \in Transaction /\ TransactionOK(tx[w]) /\ faults \in 0 .. MaxFaults
  BY DEF Safe, TypeOK
<1>2. tx[w].at = "releaseSelect" /\ UNCHANGED <<seats, bookings, clock, faults>>
  BY DEF ReleaseSelect
<1>3. CASE Goto(w, Idle)
  BY <1>1, <1>2, <1>3, IdleSafe
<1>4. ASSUME NEW n \in E, Goto(w, [Scan(tx[w], "releaseBookings", E, n) EXCEPT !.found = E])
      PROVE  Safe'
  <2> DEFINE u == Scan(tx[w], "releaseBookings", E, n)
             t == [u EXCEPT !.found = E]
  <2>1. E \in SUBSET Rows /\ E \in SUBSET Bookings /\ n \in Rows
    BY DEF Rows
  <2>2. /\ u \in Transaction /\ u.at = "releaseBookings" /\ u.todo = E /\ u.next = n
        /\ u.now = tx[w].now /\ u.rows = tx[w].rows
    BY <1>1, <2>1, ScanTyped DEF Stages
  <2>3. /\ t \in Transaction /\ t.at = "releaseBookings" /\ t.todo = E /\ t.next = n
        /\ t.now = tx[w].now /\ t.found = E /\ t.rows = tx[w].rows
    <3> HIDE DEF u, E
    <3> QED BY <2>1, <2>2 DEF Transaction
  <2>4. \A b \in E : bookings[b].status = "HOLDING" /\ bookings[b].expires < clock
    <3> TAKE b \in E
    <3>1. bookings[b].status = "HOLDING" /\ bookings[b].expires < tx[w].now
      BY DEF Lapsed
    <3>2. /\ bookings[b].expires \in Nat /\ tx[w].now \in Nat /\ tx[w].now <= clock
          /\ clock \in Nat
      BY <1>1, <3>1, BoundsAssumption
      DEF Safe, TypeOK, HeldExpires, Transaction, TransactionOK, ScanOK
    <3> QED BY <3>1, <3>2
  <2>5. TransactionOK(t)
    <3> HIDE DEF t, E
    <3> QED BY <1>1, <2>1, <2>3, <2>4, NamesAssumption
            DEF TransactionOK, ScanOK, HoldOK, SettleOK, ReleaseOK, Holds, Settling, Rows
  <2>6. \A v \in Workers \ {w} : Apart(t, tx[v])
    <3> HIDE DEF t
    <3> QED BY <2>3 DEF Safe, Apart, Holds
  <2>7. Goto(w, t)
    BY <1>4
  <2> QED BY <1>1, <1>2, <2>3, <2>5, <2>6, <2>7, GotoSafe
<1> QED BY <1>3, <1>4 DEF ReleaseSelect

LEMMA ReleaseSelectSeatsSafe ==
  ASSUME Safe, NEW w \in Workers, ReleaseSelectSeats(w)
  PROVE  Safe'
<1> DEFINE T == {s \in Seats : HeldFor(seats[s], tx[w].found)}
<1>1. tx[w] \in Transaction /\ TransactionOK(tx[w]) /\ faults \in 0 .. MaxFaults
  BY DEF Safe, TypeOK
<1>2. PICK n \in AnyRow(T) : Goto(w, Scan(tx[w], "releaseSeats", T, n))
  BY DEF ReleaseSelectSeats
<1>3. T \in SUBSET Rows /\ n \in Rows \cup {None} /\ (n = None => T = {})
  BY NextRow DEF Rows
<1> DEFINE t == Scan(tx[w], "releaseSeats", T, n)
<1>4. /\ t \in Transaction /\ t.at = "releaseSeats" /\ t.found = tx[w].found
      /\ t.rows = tx[w].rows /\ t.now = tx[w].now /\ t.todo = T /\ t.next = n
  BY <1>1, <1>3, ScanTyped DEF Stages
<1>5. /\ tx[w].at = "releaseBookings" /\ tx[w].next = None
      /\ UNCHANGED <<seats, bookings, clock, faults>>
  BY DEF ReleaseSelectSeats
<1>6. TransactionOK(t)
  <2> HIDE DEF t
  <2> QED BY <1>1, <1>3, <1>4, <1>5
          DEF TransactionOK, ScanOK, HoldOK, SettleOK, ReleaseOK, Holds, Settling
<1>7. \A v \in Workers \ {w} : Apart(t, tx[v])
  <2> HIDE DEF t
  <2> QED BY <1>4 DEF Safe, Apart, Holds
<1>8. Goto(w, t)
  BY <1>2
<1> QED BY <1>1, <1>4, <1>5, <1>6, <1>7, <1>8, GotoSafe

LEMMA BeginReleaseSafe ==
  ASSUME Safe, NEW w \in Workers, BeginRelease(w)
  PROVE  Safe'
<1> DEFINE t == [Idle EXCEPT !.at = "releaseSelect", !.now = clock]
<1>1. clock \in Nat /\ faults \in 0 .. MaxFaults
  BY BoundsAssumption DEF Safe, TypeOK
<1>2. t \in Transaction /\ t.at = "releaseSelect" /\ t.rows = {} /\ t.now = clock /\ t.todo = {}
  BY <1>1, IdleOK DEF Transaction, Stages
<1>3. TransactionOK(t) /\ \A v \in Workers \ {w} : Apart(t, tx[v])
  <2> HIDE DEF t
  <2> QED BY <1>1, <1>2
          DEF TransactionOK, ScanOK, HoldOK, SettleOK, ReleaseOK, Holds, Settling, Apart
<1>4. Goto(w, t) /\ UNCHANGED <<seats, bookings, clock, faults>>
  BY DEF BeginRelease
<1> QED BY <1>1, <1>2, <1>3, <1>4, GotoSafe

LEMMA HoldRetrySafe ==
  ASSUME Safe, NEW w \in Workers, HoldRetry(w)
  PROVE  Safe'
<1> DEFINE t == [Idle EXCEPT !.at = "holdSelect", !.booking = tx[w].booking,
                            !.req = tx[w].req, !.now = clock, !.tries = tx[w].tries + 1]
<1>1. /\ tx[w] \in Transaction /\ TransactionOK(tx[w]) /\ faults \in 0 .. MaxFaults
      /\ clock \in Nat
  BY BoundsAssumption DEF Safe, TypeOK
<1>2. tx[w].at = "holdLock" /\ tx[w].tries + 1 < MaxDeadlockRetries
  BY DEF HoldRetry, Retried
<1>3. /\ t \in Transaction /\ t.at = "holdSelect" /\ t.booking = tx[w].booking
      /\ t.rows = {} /\ t.now = clock /\ t.todo = {} /\ t.req = tx[w].req
  <2>1. tx[w].tries + 1 \in 0 .. MaxDeadlockRetries - 1
    BY <1>1, <1>2, BoundsAssumption DEF Transaction
  <2> QED BY <1>1, <2>1, IdleOK DEF Transaction, Stages
<1>4. TransactionOK(t) /\ \A v \in Workers \ {w} : Apart(t, tx[v])
  <2> HIDE DEF t
  <2> QED BY <1>1, <1>2, <1>3
          DEF Safe, TransactionOK, ScanOK, HoldOK, SettleOK, ReleaseOK, Holds, Settling, Apart
<1>5. Goto(w, t) /\ UNCHANGED <<seats, bookings, clock, faults>>
  BY DEF HoldRetry
<1> QED BY <1>1, <1>3, <1>4, <1>5, GotoSafe
-----------------------------------------------------------------------------
(* The commits and the clock.                                              *)

\* A commit ends its transaction and must leave the others in order.
LEMMA CommitSafe ==
  ASSUME Safe, NEW w \in Workers, Goto(w, Idle), UNCHANGED <<clock, faults>>,
         seats' \in [Seats -> SeatRow], bookings' \in [Bookings -> BookingRow],
         HeldExpires', HeldSeatBacked',
         \A v \in Workers \ {w} : tx'[v] = tx[v] => TransactionOK(tx[v])'
  PROVE  Safe'
<1>1. clock \in Nat
  BY BoundsAssumption DEF Safe, TypeOK
<1>2. /\ tx' \in [Workers -> Transaction] /\ tx'[w] = Idle
      /\ \A v \in Workers \ {w} : tx'[v] = tx[v]
  BY <1>1, IdleOK, GotoWorkers DEF Safe
<1>3. TypeOK'
  BY <1>2 DEF TypeOK, Safe
<1>4. TransactionOK(Idle)'
  BY <1>1, BoundsAssumption
  DEF Idle, TransactionOK, ScanOK, HoldOK, SettleOK, ReleaseOK, Holds, Settling
<1>5. \A v \in Workers : TransactionOK(tx[v])'
  <2> TAKE v \in Workers
  <2>1. CASE v # w
    BY <1>2, <2>1
  <2>2. CASE v = w
    BY <1>2, <1>4, <2>2
    DEF TransactionOK, ScanOK, HoldOK, SettleOK, ReleaseOK, Holds, HeldFor
  <2> QED BY <2>1, <2>2
<1>6. ASSUME NEW u \in Workers, NEW v \in Workers, u # v PROVE Apart(tx[u], tx[v])'
  BY <1>1, <1>2, <1>6, IdleOK DEF Safe, Apart, Holds
<1> QED BY <1>3, <1>5, <1>6 DEF Safe

LEMMA HoldCommitSafe ==
  ASSUME Safe, NEW w \in Workers, HoldCommit(w)
  PROVE  Safe'
<1> DEFINE b == tx[w].booking
           e == tx[w].now + HoldTime
<1>1. tx[w] \in Transaction /\ TransactionOK(tx[w]) /\ tx[w].at = "holdLock"
  BY DEF Safe, TypeOK, HoldCommit
<1>2. b \in Bookings /\ bookings[b].status = "NONE" /\ e \in Nat /\ tx[w].req \in SUBSET Seats
  BY <1>1, BoundsAssumption DEF TransactionOK, HoldOK, Holds, Transaction
<1>3. bookings' = [bookings EXCEPT ![b] =
                     [status |-> "HOLDING", items |-> tx[w].req, expires |-> e]]
  BY DEF HoldCommit
<1>4. seats' = [s \in Seats |->
                  IF s \in tx[w].req
                  THEN [status |-> "HOLDING", booking |-> b, expires |-> e]
                  ELSE seats[s]]
  BY DEF HoldCommit
<1> HIDE DEF b, e
<1>5. bookings' \in [Bookings -> BookingRow]
  BY <1>2, <1>3 DEF Safe, TypeOK, BookingRow
<1>6. seats' \in [Seats -> SeatRow]
  BY <1>2, <1>4 DEF Safe, TypeOK, SeatRow
<1>7. /\ bookings'[b] = [status |-> "HOLDING", items |-> tx[w].req, expires |-> e]
      /\ \A c \in Bookings \ {b} : bookings'[c] = bookings[c]
  BY <1>2, <1>3 DEF Safe, TypeOK
<1>8. HeldExpires'
  BY <1>2, <1>7 DEF Safe, HeldExpires
<1>9. HeldSeatBacked'
  <2> SUFFICES ASSUME NEW s \in Seats, seats'[s].status = "HOLDING"
               PROVE  \E c \in Bookings :
                        /\ seats'[s].booking = c
                        /\ bookings'[c].status = "HOLDING"
                        /\ s \in bookings'[c].items
                        /\ bookings'[c].expires = seats'[s].expires
    BY DEF HeldSeatBacked
  <2>1. CASE s \in tx[w].req
    BY <1>2, <1>4, <1>7, <2>1
  <2>2. CASE s \notin tx[w].req
    BY <1>2, <1>4, <1>7, <2>2 DEF Safe, HeldSeatBacked
  <2> QED BY <2>1, <2>2
<1>10. ASSUME NEW v \in Workers \ {w}, tx'[v] = tx[v] PROVE TransactionOK(tx[v])'
  <2>1. tx[v] \in Transaction /\ TransactionOK(tx[v]) /\ Apart(tx[v], tx[w]) /\ clock' = clock
    BY DEF Safe, TypeOK, HoldCommit
  <2>2. ScanOK(tx[v])'
    BY <1>10, <2>1 DEF TransactionOK, ScanOK
  <2>3. HoldOK(tx[v])'
    BY <1>1, <1>7, <1>10, <2>1 DEF TransactionOK, HoldOK, Holds, Apart, b
  <2>4. SettleOK(tx[v])'
    BY <1>2, <1>7, <1>10, <2>1 DEF TransactionOK, SettleOK, ScanOK, Settling
  <2>5. ReleaseOK(tx[v])'
    BY <1>2, <1>4, <1>7, <1>10, <2>1 DEF TransactionOK, ReleaseOK, HeldFor, Transaction
  <2> QED BY <2>2, <2>3, <2>4, <2>5 DEF TransactionOK
<1>11. Goto(w, Idle) /\ UNCHANGED <<clock, faults>>
  BY DEF HoldCommit
<1> QED BY <1>5, <1>6, <1>8, <1>9, <1>10, <1>11, CommitSafe

\* Confirm and cancel alike: what they make of the seats is not HOLDING.
LEMMA SettleSafe ==
  ASSUME Safe, NEW w \in Workers, NEW status \in {"PAID", "CANCELED"}, NEW rows,
         tx[w].at \in {"confirmSeats", "cancelSeats"}, Settle(w, status, rows),
         \A s \in Seats : rows[s] \in SeatRow /\ rows[s].status # "HOLDING"
  PROVE  Safe'
<1> DEFINE b == tx[w].booking
<1>1. tx[w] \in Transaction /\ TransactionOK(tx[w])
  BY DEF Safe, TypeOK
<1>2. b \in Bookings /\ bookings[b].status = "HOLDING" /\ b \in tx[w].rows
  BY <1>1 DEF TransactionOK, ScanOK, SettleOK, Settling
<1>3. bookings' = [bookings EXCEPT ![b].status = status, ![b].expires = None]
  BY DEF Settle
<1>4. seats' = [s \in Seats |-> IF s \in bookings[b].items THEN rows[s] ELSE seats[s]]
  BY DEF Settle
<1> HIDE DEF b
<1>5. bookings' \in [Bookings -> BookingRow]
  BY <1>2, <1>3 DEF Safe, TypeOK, BookingRow
<1>6. seats' \in [Seats -> SeatRow]
  BY <1>4 DEF Safe, TypeOK
<1>7. bookings'[b].status = status /\ \A c \in Bookings \ {b} : bookings'[c] = bookings[c]
  BY <1>2, <1>3 DEF Safe, TypeOK, BookingRow
<1>8. \A s \in Seats : seats'[s].status = "HOLDING" =>
        seats'[s] = seats[s] /\ s \notin bookings[b].items
  BY <1>4
<1>9. HeldExpires'
  BY <1>7 DEF Safe, HeldExpires
<1>10. HeldSeatBacked'
  BY <1>2, <1>7, <1>8 DEF Safe, HeldSeatBacked
<1>11. ASSUME NEW v \in Workers \ {w}, tx'[v] = tx[v] PROVE TransactionOK(tx[v])'
  <2>1. tx[v] \in Transaction /\ TransactionOK(tx[v]) /\ Apart(tx[v], tx[w]) /\ clock' = clock
    BY DEF Safe, TypeOK, Settle
  <2>2. ScanOK(tx[v])'
    BY <1>11, <2>1 DEF TransactionOK, ScanOK
  <2>3. HoldOK(tx[v])'
    BY <1>2, <1>7, <1>11, <2>1 DEF TransactionOK, HoldOK
  <2>4. SettleOK(tx[v])'
    BY <1>2, <1>7, <1>11, <2>1 DEF TransactionOK, SettleOK, ScanOK, Settling, Apart
  <2>5. ReleaseOK(tx[v])'
    BY <1>7, <1>8, <1>11, <2>1 DEF TransactionOK, ReleaseOK, HeldFor, Transaction
  <2> QED BY <2>2, <2>3, <2>4, <2>5 DEF TransactionOK
<1>12. Goto(w, Idle) /\ UNCHANGED <<clock, faults>>
  BY DEF Settle
<1> QED BY <1>5, <1>6, <1>9, <1>10, <1>11, <1>12, CommitSafe

LEMMA ReleaseCommitSafe ==
  ASSUME Safe, NEW w \in Workers, ReleaseCommit(w)
  PROVE  Safe'
<1> DEFINE B == tx[w].found
<1>1. /\ tx[w] \in Transaction /\ TransactionOK(tx[w])
      /\ tx[w].at = "releaseSeats" /\ tx[w].next = None
  BY DEF Safe, TypeOK, ReleaseCommit
<1>2. /\ B \in SUBSET Bookings /\ B \subseteq tx[w].rows
      /\ \A b \in B : bookings[b].status # "NONE"
      /\ \A s \in Seats : HeldFor(seats[s], B) => s \in tx[w].rows
  BY <1>1 DEF TransactionOK, ScanOK, ReleaseOK, Transaction
<1>3. \A b \in Bookings :
        bookings'[b] = IF b \in B THEN [bookings[b] EXCEPT !.status = "EXPIRED"] ELSE bookings[b]
  BY DEF ReleaseCommit
<1>4. \A s \in Seats :
        seats'[s] = IF s \in tx[w].rows /\ HeldFor(seats[s], B) THEN FreeSeat ELSE seats[s]
  BY DEF ReleaseCommit
<1>5. bookings' \in [Bookings -> BookingRow]
  BY DEF ReleaseCommit, Safe, TypeOK, BookingRow
<1>6. seats' \in [Seats -> SeatRow]
  <2>1. FreeSeat \in SeatRow
    BY DEF FreeSeat, SeatRow
  <2> QED BY <2>1 DEF ReleaseCommit, Safe, TypeOK
<1> HIDE DEF B
<1>7. \A b \in Bookings : IF b \in B THEN bookings'[b].status = "EXPIRED"
                                     ELSE bookings'[b] = bookings[b]
  BY <1>3 DEF Safe, TypeOK, BookingRow
<1>8. \A s \in Seats : seats'[s].status = "HOLDING" =>
        seats'[s] = seats[s] /\ seats[s].booking \notin B
  BY <1>2, <1>4 DEF HeldFor, FreeSeat
<1>9. HeldExpires'
  BY <1>7 DEF Safe, HeldExpires
<1>10. HeldSeatBacked'
  BY <1>7, <1>8 DEF Safe, HeldSeatBacked
<1>11. ASSUME NEW v \in Workers \ {w}, tx'[v] = tx[v] PROVE TransactionOK(tx[v])'
  <2>1. tx[v] \in Transaction /\ TransactionOK(tx[v]) /\ Apart(tx[v], tx[w]) /\ clock' = clock
    BY DEF Safe, TypeOK, ReleaseCommit
  <2>2. ScanOK(tx[v])'
    BY <1>11, <2>1 DEF TransactionOK, ScanOK
  <2>3. HoldOK(tx[v])'
    BY <1>2, <1>7, <1>11, <2>1 DEF TransactionOK, HoldOK
  <2>4. SettleOK(tx[v])'
    BY <1>2, <1>7, <1>11, <2>1 DEF TransactionOK, SettleOK, ScanOK, Settling, Apart
  <2>5. ReleaseOK(tx[v])'
    BY <1>7, <1>8, <1>11, <2>1 DEF TransactionOK, ReleaseOK, HeldFor, Transaction
  <2> QED BY <2>2, <2>3, <2>4, <2>5 DEF TransactionOK
<1>12. Goto(w, Idle) /\ UNCHANGED <<clock, faults>>
  BY DEF ReleaseCommit
<1> QED BY <1>5, <1>6, <1>9, <1>10, <1>11, <1>12, CommitSafe

LEMMA TickSafe ==
  ASSUME Safe, Tick
  PROVE  Safe'
<1>1. /\ clock \in Nat /\ clock' = clock + 1 /\ clock' \in 0 .. MaxClock
      /\ UNCHANGED <<seats, bookings, tx, faults>>
  BY BoundsAssumption DEF Safe, TypeOK, Tick
<1>2. TypeOK' /\ HeldExpires' /\ HeldSeatBacked'
  BY <1>1 DEF Safe, TypeOK, HeldExpires, HeldSeatBacked
<1>3. ASSUME NEW w \in Workers PROVE TransactionOK(tx[w])'
  <2>1. tx[w] \in Transaction /\ TransactionOK(tx[w])
    BY DEF Safe, TypeOK
  <2>2. ScanOK(tx[w])' /\ HoldOK(tx[w])' /\ SettleOK(tx[w])'
    BY <1>1, <2>1 DEF TransactionOK, ScanOK, HoldOK, SettleOK, Holds, Transaction
  <2>3. ReleaseOK(tx[w])'
    BY <1>1, <2>1 DEF Safe, HeldExpires, TransactionOK, ReleaseOK, HeldFor, Transaction
  <2> QED BY <2>2, <2>3 DEF TransactionOK
<1>4. \A v, w \in Workers : v # w => Apart(tx[v], tx[w])'
  BY <1>1 DEF Safe, Apart, Holds
<1> QED BY <1>2, <1>3, <1>4 DEF Safe
-----------------------------------------------------------------------------
(* The invariant.                                                          *)

LEMMA ConfirmCommitSafe ==
  ASSUME Safe, NEW w \in Workers, ConfirmCommit(w)
  PROVE  Safe'
<1>1. \A s \in Seats : SoldSeats[s] \in SeatRow /\ SoldSeats[s].status # "HOLDING"
  BY DEF SoldSeats, Safe, TypeOK, SeatRow
<1> QED BY <1>1, SettleSafe DEF ConfirmCommit

LEMMA CancelCommitSafe ==
  ASSUME Safe, NEW w \in Workers, CancelCommit(w)
  PROVE  Safe'
<1>1. \A s \in Seats : ReleasedSeats[s] \in SeatRow /\ ReleasedSeats[s].status # "HOLDING"
  BY DEF ReleasedSeats, FreeSeat, SeatRow
<1> QED BY <1>1, SettleSafe DEF CancelCommit

LEMMA InitSafe == Init => Safe
<1> SUFFICES ASSUME Init PROVE Safe
  OBVIOUS
<1>1. clock \in Nat /\ \A w \in Workers : tx[w] = Idle
  BY DEF Init
<1>2. TypeOK
  BY <1>1, IdleOK, BoundsAssumption DEF Init, TypeOK, SeatRow, BookingRow, FreeSeat, NoBooking
<1>3. HeldExpires /\ HeldSeatBacked
  BY DEF Init, HeldExpires, HeldSeatBacked, FreeSeat, NoBooking
<1>4. \A w \in Workers : TransactionOK(tx[w])
  BY <1>1, IdleOK
<1>5. \A v, w \in Workers : Apart(tx[v], tx[w])
  BY <1>1, IdleOK DEF Apart
<1> QED BY <1>2, <1>3, <1>4, <1>5 DEF Safe

LEMMA StepSafe == Safe /\ [Next]_vars => Safe'
<1> SUFFICES ASSUME Safe, [Next]_vars PROVE Safe'
  OBVIOUS
<1>1. CASE UNCHANGED vars
  BY <1>1
  DEF vars, Safe, TypeOK, HeldExpires, HeldSeatBacked, TransactionOK, ScanOK, HoldOK, SettleOK,
      ReleaseOK, Holds, HeldFor, Apart
<1>2. CASE Tick
  BY <1>2, TickSafe
<1>3. ASSUME NEW w \in Workers, Begin(w) PROVE Safe'
  BY <1>3, BeginHoldSafe, BeginOnSafe, BeginReleaseSafe DEF Begin, BeginConfirm, BeginCancel
<1>4. ASSUME NEW w \in Workers, Lock(w) PROVE Safe'
  <2>1. tx[w] \in Transaction /\ Rest(w) \in SUBSET Rows
    BY DEF Safe, TypeOK, Transaction, Rest
  <2>2. CASE ConfirmLockBooking(w)
    BY <2>2, LockBookingSafe DEF ConfirmLockBooking, Confirmable
  <2>3. CASE CancelLockBooking(w)
    BY <2>3, LockBookingSafe DEF CancelLockBooking, Cancelable
  <2>4. ASSUME NEW n, n \in AnyRow(Rest(w)) \/ n \in LeastSeat(Rest(w)), LockNext(w, n)
        PROVE  Safe'
    <3>1. n \in Rows \cup {None} /\ (n = None => Rest(w) = {})
      BY <2>1, <2>4, NextRow
    <3> QED BY <3>1, <2>4, LockSafe
  <2> QED BY <1>4, <2>2, <2>3, <2>4
          DEF Lock, HoldLockSeat, LockItem, ReleaseLockBooking, ReleaseLockSeat
<1>5. ASSUME NEW w \in Workers, Proceed(w) PROVE Safe'
  <2>1. faults \in 0 .. MaxFaults
    BY DEF Safe, TypeOK
  <2>2. CASE HoldReject(w) \/ ConfirmReject(w) \/ CancelReject(w)
    BY <2>1, <2>2, IdleSafe DEF HoldReject, ConfirmReject, CancelReject, Rollback
  <2> QED BY <1>5, <2>2, HoldSelectSafe, HoldCommitSafe, ConfirmCommitSafe, CancelCommitSafe,
             ReleaseSelectSafe, ReleaseSelectSeatsSafe, ReleaseCommitSafe
          DEF Proceed
<1>6. ASSUME NEW w \in Workers, DeadlockVictim(w) PROVE Safe'
  <2>1. faults \in 0 .. MaxFaults
    BY DEF Safe, TypeOK
  <2> QED BY <1>6, <2>1, HoldRetrySafe, IdleSafe DEF DeadlockVictim, DeadlockFail, Rollback
<1>7. ASSUME NEW w \in Workers, Fault(w) PROVE Safe'
  <2>1. faults' \in 0 .. MaxFaults
    BY <1>7, BoundsAssumption DEF Safe, TypeOK, Fault
  <2> QED BY <1>7, <2>1, IdleSafe DEF Fault
<1> QED BY <1>1, <1>2, <1>3, <1>4, <1>5, <1>6, <1>7 DEF Next

\* Whatever confirms, cancels, takeovers and releasers interleave, every row
\* and transaction has its shape, and every held seat its booking.
THEOREM StoreSafe == Spec => []Safe
  BY InitSafe, StepSafe, PTL DEF Spec

\* Type correctness of the rows and transactions.
THEOREM StoreTyped == Spec => []TypeOK
<1>1. Safe => TypeOK
  BY DEF Safe
<1> QED BY <1>1, StoreSafe, PTL

\* A seat that shows HOLDING is held by a booking that is HOLDING too, lists
\* the seat and expires with it.
THEOREM SeatsBacked == Spec => []HeldSeatBacked
<1>1. Safe => HeldSeatBacked
  BY DEF Safe
<1> QED BY <1>1, StoreSafe, PTL
-----------------------------------------------------------------------------
(* What a step may do to the rows.                                         *)

\* Only the commits write rows.
LEMMA RowsWritten ==
  ASSUME [Next]_vars
  PROVE  \/ UNCHANGED <<seats, bookings>>
         \/ \E w \in Workers :
              HoldCommit(w) \/ ConfirmCommit(w) \/ CancelCommit(w) \/ ReleaseCommit(w)
<1>1. CASE UNCHANGED vars
  BY <1>1 DEF vars
<1>2. CASE Tick
  BY <1>2 DEF Tick
<1>3. ASSUME NEW w \in Workers, Begin(w) PROVE UNCHANGED <<seats, bookings>>
  BY <1>3 DEF Begin, BeginHold, BeginConfirm, BeginCancel, BeginOn, BeginRelease
<1>4. ASSUME NEW w \in Workers, Lock(w) PROVE UNCHANGED <<seats, bookings>>
  BY <1>4 DEF Lock, HoldLockSeat, ConfirmLockBooking, CancelLockBooking, LockItem,
              ReleaseLockBooking, ReleaseLockSeat, LockNext, LockBooking
<1>5. ASSUME NEW w \in Workers, DeadlockVictim(w) \/ Fault(w) PROVE UNCHANGED <<seats, bookings>>
  BY <1>5 DEF DeadlockVictim, HoldRetry, DeadlockFail, Rollback, Fault
<1>6. ASSUME NEW w \in Workers, Proceed(w)
      PROVE  \/ UNCHANGED <<seats, bookings>>
             \/ HoldCommit(w) \/ ConfirmCommit(w) \/ CancelCommit(w) \/ ReleaseCommit(w)
  BY <1>6 DEF Proceed, HoldSelect, HoldReject, ConfirmReject, CancelReject, ReleaseSelect,
              ReleaseSelectSeats, Rollback
<1> QED BY <1>1, <1>2, <1>3, <1>4, <1>5, <1>6 DEF Next

\* The seats a hold writes are free or lapsed when it commits.
LEMMA GrantedLapsed ==
  ASSUME Safe, NEW w \in Workers, HoldCommit(w), NEW s \in tx[w].req
  PROVE  \/ seats[s].status = "AVAILABLE"
         \/ seats[s].status = "HOLDING" /\ seats[s].expires < clock
<1>1. tx[w] \in Transaction /\ tx[w].now <= clock /\ tx[w].now \in Nat /\ clock \in Nat
  BY BoundsAssumption DEF Safe, TypeOK, TransactionOK, ScanOK, Transaction
<1>2. s \in Seats /\ Holdable(seats[s], tx[w].now)
  BY <1>1 DEF HoldCommit, Granted, Transaction
<1>3. seats[s].status = "HOLDING" => seats[s].expires \in Nat
  BY <1>2 DEF Safe, HeldSeatBacked, HeldExpires
<1> QED BY <1>1, <1>2, <1>3 DEF Holdable

\* A booking gets a seat only while it is free or its hold has run out.
THEOREM HoldsTakeNoLiveSeat == Spec => HoldNeverTakesLiveSeat
<1> DEFINE Change(s) ==
      seats'[s].booking \notin {None, seats[s].booking} =>
        \/ seats[s].status = "AVAILABLE"
        \/ seats[s].status = "HOLDING" /\ seats[s].expires < clock
<1>1. ASSUME Safe, [Next]_vars, NEW s \in Seats PROVE Change(s)
  <2>1. CASE UNCHANGED <<seats, bookings>>
    BY <2>1
  <2>2. ASSUME NEW w \in Workers, HoldCommit(w) PROVE Change(s)
    <3>1. CASE s \in tx[w].req
      BY <1>1, <2>2, <3>1, GrantedLapsed
    <3>2. CASE s \notin tx[w].req
      BY <2>2, <3>2 DEF HoldCommit
    <3> QED BY <3>1, <3>2
  <2>3. ASSUME NEW w \in Workers, ConfirmCommit(w) PROVE Change(s)
    BY <1>1, <2>3 DEF ConfirmCommit, Settle, SoldSeats, Safe, TypeOK, SeatRow
  <2>4. ASSUME NEW w \in Workers, CancelCommit(w) PROVE Change(s)
    BY <2>4 DEF CancelCommit, Settle, ReleasedSeats, FreeSeat
  <2>5. ASSUME NEW w \in Workers, ReleaseCommit(w) PROVE Change(s)
    BY <2>5 DEF ReleaseCommit, FreeSeat
  <2> QED BY <1>1, <2>1, <2>2, <2>3, <2>4, <2>5, RowsWritten
<1>2. Safe /\ [Next]_vars => [\A s \in Seats : Change(s)]_vars
  BY <1>1
<1> QED BY <1>2, StoreSafe, PTL DEF Spec, HoldNeverTakesLiveSeat

\* The releaser frees no seat that was confirmed, or taken over by a new
\* hold, after it read the expired bookings.
THEOREM ReleaserFreesNoLiveSeat == Spec => ReleaserFreesOnlyLapsedSeats
<1> DEFINE Freed ==
      \A w \in Workers : tx[w].at = "releaseSeats" /\ tx'[w].at = "idle" =>
        \A s \in Seats : seats'[s] # seats[s] =>
          seats[s].status = "HOLDING" /\ seats[s].expires < clock
<1>1. ASSUME Safe, [Next]_vars PROVE Freed
  <2> SUFFICES ASSUME NEW w \in Workers, tx[w].at = "releaseSeats", tx'[w].at = "idle",
                      NEW s \in Seats, seats'[s] # seats[s]
               PROVE  seats[s].status = "HOLDING" /\ seats[s].expires < clock
    OBVIOUS
  <2>1. ASSUME NEW v \in Workers, tx[v].at # "releaseSeats", Goto(v, Idle) PROVE FALSE
    BY <1>1, <2>1 DEF Goto, Safe, TypeOK
  <2>2. PICK v \in Workers : ReleaseCommit(v)
    BY <1>1, <2>1, RowsWritten DEF HoldCommit, ConfirmCommit, CancelCommit, Settle
  <2>3. HeldFor(seats[s], tx[v].found) /\ tx[v].at = "releaseSeats" /\ TransactionOK(tx[v])
    BY <1>1, <2>2 DEF ReleaseCommit, Safe
  <2>4. /\ seats[s].booking \in tx[v].found
        /\ bookings[seats[s].booking].status = "HOLDING"
        /\ bookings[seats[s].booking].expires = seats[s].expires
    BY <1>1, <2>3 DEF Safe, HeldSeatBacked, HeldFor
  <2> QED BY <2>3, <2>4 DEF TransactionOK, ReleaseOK, HeldFor
<1>2. Safe /\ [Next]_vars => [Freed]_vars
  BY <1>1
<1> QED BY <1>2, StoreSafe, PTL DEF Spec, ReleaserFreesOnlyLapsedSeats

\* No confirm, cancel or retry that waited for a booking acts on it once
\* another one has settled it.
THEOREM BookingsSettledOnce == Spec => SettledOnce
<1> DEFINE Change(b) ==
      bookings[b].status \in {"PAID", "CANCELED", "EXPIRED"} =>
        bookings'[b].status \in {bookings[b].status, "EXPIRED"}
<1>1. ASSUME Safe, [Next]_vars, NEW b \in Bookings PROVE Change(b)
  <2>1. CASE UNCHANGED <<seats, bookings>>
    BY <2>1
  <2>2. ASSUME NEW w \in Workers, HoldCommit(w) PROVE Change(b)
    <3>1. bookings[tx[w].booking].status = "NONE"
      BY <1>1, <2>2 DEF HoldCommit, Safe, TransactionOK, HoldOK, Holds
    <3> QED BY <1>1, <2>2, <3>1 DEF HoldCommit, Safe, TypeOK
  <2>3. ASSUME NEW w \in Workers, ConfirmCommit(w) \/ CancelCommit(w) PROVE Change(b)
    <3>1. bookings[tx[w].booking].status = "HOLDING"
      BY <1>1, <2>3 DEF ConfirmCommit, CancelCommit, Safe, TransactionOK, SettleOK
    <3>2. b # tx[w].booking => bookings'[b] = bookings[b]
      BY <1>1, <2>3 DEF ConfirmCommit, CancelCommit, Settle, Safe, TypeOK
    <3> QED BY <3>1, <3>2
  <2>4. ASSUME NEW w \in Workers, ReleaseCommit(w) PROVE Change(b)
    BY <1>1, <2>4 DEF ReleaseCommit, Safe, TypeOK, BookingRow
  <2> QED BY <1>1, <2>1, <2>2, <2>3, <2>4, RowsWritten
<1>2. Safe /\ [Next]_vars => [\A b \in Bookings : Change(b)]_vars
  BY <1>1
<1> QED BY <1>2, StoreSafe, PTL DEF Spec, SettledOnce

-----------------------------------------------------------------------------
(* Holds lock their seats in the order of seat_id.                         *)

\* A hold that waits for a seat has only smaller ones, and only greater ones
\* are left for it.
OrderOK(t) ==
  /\ t.at = "holdSelect" => t.rows = {}
  /\ t.at = "holdLock" =>
       /\ t.rows \subseteq Seats /\ t.todo \subseteq Seats
       /\ t.next # None =>
            /\ t.next \in t.todo
            /\ \A s \in t.rows : s < t.next
            /\ \A s \in t.todo : t.next <= s

Ordered == \A w \in Workers : OrderOK(tx[w])

LEMMA GotoOrdered ==
  ASSUME Safe, Ordered, NEW w \in Workers, NEW t, Goto(w, t), OrderOK(t)
  PROVE  Ordered'
<1>1. tx'[w] = t /\ \A v \in Workers \ {w} : tx'[v] = tx[v]
  BY DEF Goto, Safe, TypeOK
<1>2. \A v \in Workers : OrderOK(tx'[v])
  BY <1>1 DEF Ordered
<1> QED BY <1>2 DEF Ordered, OrderOK

\* Any other step leaves the worker outside its SELECT.
LEMMA OthersOrdered ==
  ASSUME Ordered, NEW w \in Workers, \A v \in Workers \ {w} : tx'[v] = tx[v],
         tx'[w].at # "holdLock", tx'[w].at = "holdSelect" => tx'[w].rows = {}
  PROVE  Ordered'
<1>1. \A v \in Workers : OrderOK(tx'[v])
  BY DEF Ordered, OrderOK
<1> QED BY <1>1 DEF Ordered, OrderOK

LEMMA BeginOrdered ==
  ASSUME Safe, Ordered, NEW w \in Workers, Begin(w) \/ DeadlockVictim(w) \/ Fault(w)
  PROVE  Ordered'
<1>1. tx \in [Workers -> Transaction]
  BY DEF Safe, TypeOK
<1> DEFINE Outside ==
      /\ \A v \in Workers \ {w} : tx'[v] = tx[v]
      /\ tx'[w].at # "holdLock"
      /\ tx'[w].at = "holdSelect" => tx'[w].rows = {}
<1>2. ASSUME NEW req \in SUBSET Seats, NEW b \in Bookings, BeginHold(w, req, b) PROVE Outside
  BY <1>1, <1>2 DEF BeginHold, Idle, Goto
<1>3. ASSUME NEW b \in Bookings, BeginConfirm(w, b) \/ BeginCancel(w, b) PROVE Outside
  <2>1. PICK stage \in {"confirmBooking", "cancelBooking"} :
          Goto(w, Scan([Idle EXCEPT !.booking = b], stage, {b}, b))
    BY <1>3 DEF BeginConfirm, BeginCancel, BeginOn
  <2> QED BY <1>1, <2>1 DEF Scan, Idle, Goto
<1>4. ASSUME BeginRelease(w) PROVE Outside
  BY <1>1, <1>4 DEF BeginRelease, Idle, Goto
<1>5. ASSUME HoldRetry(w) PROVE Outside
  BY <1>1, <1>5 DEF HoldRetry, Idle, Goto
<1>6. ASSUME DeadlockFail(w) \/ Fault(w) PROVE Outside
  BY <1>1, <1>6 DEF DeadlockFail, Fault, Rollback, Idle, Goto
<1>7. Outside
  <2> HIDE DEF Outside
  <2> QED BY <1>2, <1>3, <1>4, <1>5, <1>6 DEF Begin, DeadlockVictim
<1> QED BY <1>7, OthersOrdered

\* The least seat of some, if there is one, is below the others.
LEMMA Least ==
  ASSUME NEW T \in SUBSET Seats, NEW n \in LeastSeat(T)
  PROVE  n # None => n \in T /\ \A s \in T : n <= s
  BY DEF LeastSeat

LEMMA HoldSelectOrdered ==
  ASSUME Safe, Ordered, NEW w \in Workers, HoldSelect(w)
  PROVE  Ordered'
<1> DEFINE candidates == {s \in tx[w].req : Holdable(seats[s], tx[w].now)}
<1>1. tx[w] \in Transaction /\ tx[w].at = "holdSelect" /\ tx[w].rows = {}
  BY DEF HoldSelect, Safe, TypeOK, Ordered, OrderOK
<1>2. candidates \in SUBSET Seats
  BY <1>1 DEF Transaction
<1>3. PICK n \in LeastSeat(candidates) : Goto(w, Scan(tx[w], "holdLock", candidates, n))
  BY DEF HoldSelect
<1> HIDE DEF candidates
<1> DEFINE t == Scan(tx[w], "holdLock", candidates, n)
<1>4. t.at = "holdLock" /\ t.rows = {} /\ t.todo = candidates /\ t.next = n
  BY <1>1 DEF Scan, Transaction
<1>5. n # None => n \in candidates /\ \A s \in candidates : n <= s
  BY <1>2, Least
<1>6. Goto(w, t)
  BY <1>3
<1> HIDE DEF t
<1>7. OrderOK(t)
  BY <1>2, <1>4, <1>5 DEF OrderOK
<1> QED BY <1>6, <1>7, GotoOrdered

LEMMA HoldLockOrdered ==
  ASSUME Safe, Ordered, NEW w \in Workers, HoldLockSeat(w)
  PROVE  Ordered'
<1>1. PICK n \in LeastSeat(Rest(w)) : LockNext(w, n)
  BY DEF HoldLockSeat
<1> DEFINE r == tx[w].next
           t == [tx[w] EXCEPT !.rows = @ \cup {r}, !.todo = Rest(w), !.next = n]
<1>2. tx[w] \in Transaction /\ OrderOK(tx[w]) /\ tx[w].at = "holdLock" /\ r # None
  BY <1>1 DEF Safe, TypeOK, Ordered, HoldLockSeat, LockNext
<1>3. /\ tx[w].rows \subseteq Seats /\ tx[w].todo \subseteq Seats
      /\ r \in tx[w].todo
      /\ \A s \in tx[w].rows : s < r
      /\ \A s \in tx[w].todo : r <= s
  BY <1>2 DEF OrderOK
<1>4. Rest(w) = tx[w].todo \ {r}
  BY DEF Rest
<1>5. n # None => n \in Rest(w) /\ \A s \in Rest(w) : n <= s
  BY <1>3, <1>4, Least
<1>6. t.at = "holdLock" /\ t.rows = tx[w].rows \cup {r} /\ t.todo = Rest(w) /\ t.next = n
  BY <1>2 DEF Transaction
<1>7. Goto(w, t)
  BY <1>1 DEF LockNext
<1> HIDE DEF t
<1>8. ASSUME n # None, NEW s \in t.rows PROVE s < n
  <2>1. n \in Seats /\ r \in Seats /\ s \in Seats /\ r <= n /\ r # n
    BY <1>3, <1>4, <1>5, <1>6, <1>8
  <2>2. s < r \/ s = r
    BY <1>3, <1>6, <1>8
  <2>3. n \in Nat /\ r \in Nat /\ s \in Nat
    BY <2>1, SeatsAssumption
  <2>4. r <= n /\ r # n
    BY <2>1
  <2> HIDE DEF r
  <2> QED BY <2>2, <2>3, <2>4
<1>9. t.rows \subseteq Seats /\ t.todo \subseteq Seats
  BY <1>3, <1>4, <1>6
<1>10. OrderOK(t)
  BY <1>5, <1>6, <1>8, <1>9 DEF OrderOK
<1> QED BY <1>7, <1>10, GotoOrdered

LEMMA LockOrdered ==
  ASSUME Safe, Ordered, NEW w \in Workers, Lock(w), ~HoldLockSeat(w)
  PROVE  Ordered'
<1>1. tx \in [Workers -> Transaction] /\ tx[w] \in Transaction
  BY DEF Safe, TypeOK
<1>2. CASE ConfirmLockBooking(w) \/ CancelLockBooking(w)
  <2>1. PICK stage \in {"confirmSeats", "cancelSeats"} : LockBooking(w, stage)
    BY <1>2 DEF ConfirmLockBooking, CancelLockBooking
  <2>2. PICK n : Goto(w, [Scan(tx[w], stage, bookings[tx[w].booking].items, n)
                            EXCEPT !.rows = {tx[w].booking}])
    BY <2>1 DEF LockBooking
  <2>3. /\ \A v \in Workers \ {w} : tx'[v] = tx[v]
        /\ tx'[w].at = stage
    BY <1>1, <2>2 DEF Scan, Transaction, Goto
  <2> QED BY <2>3, OthersOrdered
<1>3. CASE LockItem(w) \/ ReleaseLockBooking(w) \/ ReleaseLockSeat(w)
  <2>3. PICK n : LockNext(w, n)
    BY <1>3 DEF LockItem, ReleaseLockBooking, ReleaseLockSeat
  <2>1. /\ \A v \in Workers \ {w} : tx'[v] = tx[v]
        /\ tx'[w].at = tx[w].at
    BY <1>1, <2>3 DEF LockNext, Transaction, Goto
  <2>2. tx[w].at \notin {"holdLock", "holdSelect"}
    BY <1>3 DEF LockItem, ReleaseLockBooking, ReleaseLockSeat
  <2> QED BY <2>1, <2>2, OthersOrdered
<1> QED BY <1>2, <1>3 DEF Lock

LEMMA ProceedOrdered ==
  ASSUME Safe, Ordered, NEW w \in Workers, Proceed(w), ~HoldSelect(w)
  PROVE  Ordered'
<1>1. tx \in [Workers -> Transaction] /\ tx[w] \in Transaction
  BY DEF Safe, TypeOK
<1>2. /\ \A v \in Workers \ {w} : tx'[v] = tx[v]
      /\ tx'[w].at \in {"idle", "releaseBookings", "releaseSeats"}
  <2>1. CASE ReleaseSelect(w)
    <3>1. CASE Goto(w, Idle)
      BY <1>1, <3>1 DEF Idle, Goto
    <3>2. ASSUME NEW expired, NEW n,
                 Goto(w, [Scan(tx[w], "releaseBookings", expired, n) EXCEPT !.found = expired])
          PROVE  /\ \A v \in Workers \ {w} : tx'[v] = tx[v]
                 /\ tx'[w].at = "releaseBookings"
      BY <1>1, <3>2 DEF Scan, Transaction, Goto
    <3> QED BY <2>1, <3>1, <3>2 DEF ReleaseSelect
  <2>2. CASE ReleaseSelectSeats(w)
    <3>1. PICK held, n : Goto(w, Scan(tx[w], "releaseSeats", held, n))
      BY <2>2 DEF ReleaseSelectSeats
    <3> QED BY <1>1, <3>1 DEF Scan, Transaction, Goto
  <2>3. CASE ~(ReleaseSelect(w) \/ ReleaseSelectSeats(w))
    <3>1. Goto(w, Idle)
      BY <2>3 DEF Proceed, HoldCommit, HoldReject, ConfirmReject, ConfirmCommit, CancelReject,
                  CancelCommit, ReleaseCommit, Settle, Rollback
    <3> QED BY <1>1, <3>1 DEF Idle, Goto
  <2> QED BY <2>1, <2>2, <2>3
<1> QED BY <1>2, OthersOrdered

LEMMA StepOrdered == Safe /\ Ordered /\ [Next]_vars => Ordered'
<1> SUFFICES ASSUME Safe, Ordered, [Next]_vars PROVE Ordered'
  OBVIOUS
<1>1. CASE UNCHANGED vars \/ Tick
  BY <1>1 DEF vars, Tick, Ordered, OrderOK
<1> QED BY <1>1, BeginOrdered, HoldSelectOrdered, HoldLockOrdered, LockOrdered, ProceedOrdered
        DEF Next

\* Of some holds that each wait for another one of them, the one that waits
\* for the greatest seat waits for one that waits for a greater seat still.
LEMMA OrderedNeverDeadlock == Ordered => HoldsNeverDeadlock
<1> SUFFICES ASSUME Ordered,
                    NEW C \in SUBSET Workers, C # {},
                    \A x \in C : tx[x].at = "holdLock" /\ \E y \in C : Blocks(y, x)
             PROVE  FALSE
  BY DEF HoldsNeverDeadlock
<1> DEFINE Above(x) == {s \in Seats : tx[x].next < s}
           T == {Above(x) : x \in C}
<1>1. \A x \in C : tx[x].next \in Seats
  BY DEF Blocks, Ordered, OrderOK
<1>2. PICK X \in T : \A Y \in T : <<Y, X>> \notin StrictSubsetOrdering(Seats)
  <2>1. \A x \in C : Above(x) \in SUBSET Seats /\ IsFiniteSet(Above(x))
    BY FiniteAssumption, FS_Subset
  <2>2. \E x \in C : Above(x) \in T
    OBVIOUS
  <2> HIDE DEF Above
  <2>3. T \subseteq FiniteSubsetsOf(Seats) /\ T # {}
    BY <2>1, <2>2 DEF FiniteSubsetsOf
  <2> HIDE DEF T
  <2> QED BY <2>3, FiniteAssumption, WFMin, FS_StrictSubsetOrderingWellFounded
<1>3. PICK x \in C : X = Above(x)
  BY <1>2
<1>4. PICK y \in C : Blocks(y, x)
  BY <1>3
<1>5. tx[y].next \in Seats /\ tx[x].next \in Seats /\ tx[y].next # None
  BY <1>1, NamesAssumption
<1>6. tx[x].next < tx[y].next
  BY <1>4, <1>5 DEF Blocks, Ordered, OrderOK
<1>7. Above(y) \subseteq Above(x) /\ tx[y].next \in Above(x) /\ tx[y].next \notin Above(y)
  BY <1>5, <1>6, SeatsAssumption
<1>8. Above(y) \in T /\ Above(y) \in SUBSET Seats /\ Above(x) \in SUBSET Seats
  OBVIOUS
<1> HIDE DEF Above
<1> QED BY <1>2, <1>3, <1>7, <1>8 DEF StrictSubsetOrdering

\* Every hold locks its seats in the order of seat_id.
THEOREM StoreOrdered == Spec => []Ordered
<1>1. Init => Ordered
  BY DEF Init, Idle, Ordered, OrderOK
<1> QED BY <1>1, StepOrdered, StoreSafe, PTL DEF Spec

\* Holds alone never wait for each other in a cycle.
THEOREM HoldsLockInOrder == Spec => []HoldsNeverDeadlock
BY StoreOrdered, OrderedNeverDeadlock, PTL

-----------------------------------------------------------------------------
(* Nobody waits for ever, as far as steps can tell: the part of             *)
(* TransactionsEnd that does not need fairness.                            *)

\* A worker without a transaction has no locks, one that waits waits for a row
\* its statement has still to lock.
TidyOK(t) ==
  /\ t.at = "idle" => t.rows = {}
  /\ t.at \in {"holdSelect", "releaseSelect"} => t.next = None
  /\ t.at \in {"confirmBooking", "cancelBooking"} => t.next = t.booking
  /\ t.next # None => t.next \in t.todo

Tidy == \A w \in Workers : TidyOK(tx[w])

\* The statements a transaction has before it, the running one included.
StatementsLeft(t) ==
  CASE t.at = "releaseSelect" -> 3
    [] t.at \in {"holdSelect", "confirmBooking", "cancelBooking", "releaseBookings"} -> 2
    [] t.at \in {"holdLock", "confirmSeats", "cancelSeats", "releaseSeats"} -> 1
    [] OTHER -> 0

\* It goes to its end, has used up a try, has a statement less, or the
\* statement a row less.
Closer(t, u) ==
  \/ u.at = "idle"
  \/ t.tries < u.tries
  \/ t.tries = u.tries /\ StatementsLeft(u) < StatementsLeft(t)
  \/ t.tries = u.tries /\ u.at = t.at /\ u.todo \subseteq t.todo /\ u.todo # t.todo

\* What a step of w makes of its transaction.
Moves(w) ==
  /\ \A v \in Workers \ {w} : tx'[v] = tx[v]
  /\ TidyOK(tx'[w])
  /\ tx[w].at # "idle" => Closer(tx[w], tx'[w])

LEMMA EndMoves ==
  ASSUME TypeOK, NEW w \in Workers, Goto(w, Idle)
  PROVE  Moves(w)
<1>1. tx'[w] = Idle /\ \A v \in Workers \ {w} : tx'[v] = tx[v]
  BY DEF TypeOK, Goto
<1>2. Idle.at = "idle" /\ Idle.rows = {} /\ Idle.next = None
  BY DEF Idle
<1> QED BY <1>1, <1>2 DEF Moves, TidyOK, Closer

LEMMA BeginMoves ==
  ASSUME TypeOK, NEW w \in Workers, Begin(w)
  PROVE  Moves(w)
<1>1. tx \in [Workers -> Transaction]
  BY DEF TypeOK
<1> DEFINE Starting ==
      /\ \A v \in Workers \ {w} : tx'[v] = tx[v]
      /\ TidyOK(tx'[w])
      /\ tx[w].at = "idle"
<1>2. ASSUME NEW req \in SUBSET Seats, NEW b \in Bookings, BeginHold(w, req, b) PROVE Starting
  BY <1>1, <1>2 DEF BeginHold, Starts, Idle, Goto, TidyOK
<1>3. ASSUME NEW b \in Bookings, BeginConfirm(w, b) \/ BeginCancel(w, b) PROVE Starting
  <2>1. PICK stage \in {"confirmBooking", "cancelBooking"} :
          Goto(w, Scan([Idle EXCEPT !.booking = b], stage, {b}, b)) /\ tx[w].at = "idle"
    BY <1>3 DEF BeginConfirm, BeginCancel, BeginOn, Starts
  <2>2. /\ \A v \in Workers \ {w} : tx'[v] = tx[v]
        /\ tx'[w].at = stage /\ tx'[w].next = b /\ tx'[w].booking = b /\ tx'[w].todo = {b}
    BY <1>1, <2>1 DEF Scan, Idle, Goto
  <2> QED BY <2>1, <2>2 DEF TidyOK
<1>4. ASSUME BeginRelease(w) PROVE Starting
  BY <1>1, <1>4 DEF BeginRelease, Starts, Idle, Goto, TidyOK
<1>5. Starting
  <2> HIDE DEF Starting
  <2> QED BY <1>2, <1>3, <1>4 DEF Begin
<1> QED BY <1>5 DEF Moves

\* A statement begins: it will lock some row of T first.
LEMMA ScanMoves ==
  ASSUME TypeOK, NEW w \in Workers, NEW stage \in Stages, NEW T, NEW n,
         n \in AnyRow(T) \/ n \in LeastSeat(T),
         tx[w].at \in {"holdSelect", "confirmBooking", "cancelBooking", "releaseSelect",
                       "releaseBookings"},
         stage \in {"holdLock", "confirmSeats", "cancelSeats", "releaseSeats"}
           \/ (stage = "releaseBookings" /\ tx[w].at = "releaseSelect"),
         \A v \in Workers \ {w} : tx'[v] = tx[v],
         tx'[w].at = stage, tx'[w].todo = T, tx'[w].next = n, tx'[w].tries = tx[w].tries
  PROVE  Moves(w)
<1>1. n # None => n \in T
  BY DEF AnyRow, LeastSeat
<1>2. TidyOK(tx'[w])
  BY <1>1 DEF TidyOK
<1>3. StatementsLeft(tx'[w]) < StatementsLeft(tx[w])
  BY DEF StatementsLeft
<1> QED BY <1>2, <1>3 DEF Moves, Closer

LEMMA HoldRetryMoves ==
  ASSUME TypeOK, NEW w \in Workers, HoldRetry(w)
  PROVE  Moves(w)
<1>1. tx \in [Workers -> Transaction] /\ tx[w].tries \in Nat
  BY BoundsAssumption DEF TypeOK, Transaction
<1>2. /\ \A v \in Workers \ {w} : tx'[v] = tx[v]
      /\ tx'[w].at = "holdSelect" /\ tx'[w].next = None /\ tx'[w].tries = tx[w].tries + 1
  BY <1>1 DEF HoldRetry, Idle, Goto
<1>3. tx[w].tries < tx'[w].tries
  BY <1>1, <1>2
<1> QED BY <1>2, <1>3 DEF Moves, TidyOK, Closer

\* The row a statement has locked is one it has not to lock any more.
LEMMA LockNextMoves ==
  ASSUME TypeOK, NEW w \in Workers, TidyOK(tx[w]), NEW n,
         n \in AnyRow(Rest(w)) \/ n \in LeastSeat(Rest(w)), LockNext(w, n),
         tx[w].at \in {"holdLock", "confirmSeats", "cancelSeats", "releaseBookings",
                       "releaseSeats"}
  PROVE  Moves(w)
<1>1. tx \in [Workers -> Transaction] /\ tx[w] \in Transaction
  BY DEF TypeOK
<1>2. /\ \A v \in Workers \ {w} : tx'[v] = tx[v]
      /\ tx'[w].at = tx[w].at /\ tx'[w].next = n /\ tx'[w].todo = Rest(w)
      /\ tx'[w].tries = tx[w].tries
  BY <1>1 DEF LockNext, Goto, Transaction
<1>3. n # None => n \in Rest(w)
  BY DEF AnyRow, LeastSeat
<1>4. Rest(w) \subseteq tx[w].todo /\ Rest(w) # tx[w].todo
  BY DEF Rest, TidyOK, LockNext
<1> QED BY <1>2, <1>3, <1>4 DEF Moves, TidyOK, Closer

LEMMA LockMoves ==
  ASSUME TypeOK, NEW w \in Workers, TidyOK(tx[w]), Lock(w)
  PROVE  Moves(w)
<1>1. tx \in [Workers -> Transaction] /\ tx[w] \in Transaction
  BY DEF TypeOK
<1>2. CASE HoldLockSeat(w) \/ LockItem(w) \/ ReleaseLockBooking(w) \/ ReleaseLockSeat(w)
  BY <1>2, LockNextMoves DEF HoldLockSeat, LockItem, ReleaseLockBooking, ReleaseLockSeat
<1>3. CASE ConfirmLockBooking(w) \/ CancelLockBooking(w)
  <2>1. PICK stage \in {"confirmSeats", "cancelSeats"} :
          LockBooking(w, stage) /\ tx[w].at \in {"confirmBooking", "cancelBooking"}
    BY <1>3 DEF ConfirmLockBooking, CancelLockBooking
  <2> PICK items : items = bookings[tx[w].booking].items
    OBVIOUS
  <2>2. PICK n \in AnyRow(items) :
          Goto(w, [Scan(tx[w], stage, items, n) EXCEPT !.rows = {tx[w].booking}])
    BY <2>1 DEF LockBooking
  <2>3. /\ \A v \in Workers \ {w} : tx'[v] = tx[v]
        /\ tx'[w].at = stage /\ tx'[w].todo = items /\ tx'[w].next = n
        /\ tx'[w].tries = tx[w].tries
    BY <1>1, <2>2 DEF Scan, Transaction, Goto
  <2> QED BY <2>1, <2>3, ScanMoves DEF Stages
<1> QED BY <1>2, <1>3 DEF Lock

LEMMA ProceedMoves ==
  ASSUME TypeOK, NEW w \in Workers, Proceed(w)
  PROVE  Moves(w)
<1>1. tx \in [Workers -> Transaction] /\ tx[w] \in Transaction
  BY DEF TypeOK
<1>2. CASE HoldSelect(w)
  <2> PICK T : T = {s \in tx[w].req : Holdable(seats[s], tx[w].now)}
    OBVIOUS
  <2>1. PICK n \in LeastSeat(T) : Goto(w, Scan(tx[w], "holdLock", T, n))
    BY <1>2 DEF HoldSelect
  <2>2. /\ \A v \in Workers \ {w} : tx'[v] = tx[v]
        /\ tx'[w].at = "holdLock" /\ tx'[w].todo = T /\ tx'[w].next = n
        /\ tx'[w].tries = tx[w].tries
    BY <1>1, <2>1 DEF Scan, Transaction, Goto
  <2> QED BY <1>2, <2>2, ScanMoves DEF HoldSelect, Stages
<1>3. CASE ReleaseSelect(w) /\ ~Goto(w, Idle)
  <2> PICK T : T = {b \in Bookings : Lapsed(b, tx[w].now)}
    OBVIOUS
  <2>1. PICK n \in T : Goto(w, [Scan(tx[w], "releaseBookings", T, n) EXCEPT !.found = T])
    BY <1>3 DEF ReleaseSelect
  <2>2. /\ \A v \in Workers \ {w} : tx'[v] = tx[v]
        /\ tx'[w].at = "releaseBookings" /\ tx'[w].todo = T /\ tx'[w].next = n
        /\ tx'[w].tries = tx[w].tries
    BY <1>1, <2>1 DEF Scan, Transaction, Goto
  <2>3. n \in AnyRow(T)
    BY DEF AnyRow
  <2> QED BY <1>3, <2>2, <2>3, ScanMoves DEF ReleaseSelect, Stages
<1>4. CASE ReleaseSelectSeats(w)
  <2> PICK T : T = {s \in Seats : HeldFor(seats[s], tx[w].found)}
    OBVIOUS
  <2>1. PICK n \in AnyRow(T) : Goto(w, Scan(tx[w], "releaseSeats", T, n))
    BY <1>4 DEF ReleaseSelectSeats
  <2>2. /\ \A v \in Workers \ {w} : tx'[v] = tx[v]
        /\ tx'[w].at = "releaseSeats" /\ tx'[w].todo = T /\ tx'[w].next = n
        /\ tx'[w].tries = tx[w].tries
    BY <1>1, <2>1 DEF Scan, Transaction, Goto
  <2> QED BY <1>4, <2>2, ScanMoves DEF ReleaseSelectSeats, Stages
<1>5. CASE Goto(w, Idle)
  BY <1>5, EndMoves
<1> QED BY <1>2, <1>3, <1>4, <1>5
        DEF Proceed, HoldCommit, HoldReject, ConfirmReject, ConfirmCommit, CancelReject,
            CancelCommit, ReleaseCommit, Settle, Rollback

LEMMA WorkerMoves ==
  ASSUME TypeOK, Tidy, [Next]_vars
  PROVE  UNCHANGED tx \/ \E w \in Workers : Moves(w)
<1>1. CASE Tick \/ UNCHANGED vars
  BY <1>1 DEF Tick, vars
<1>2. ASSUME NEW w \in Workers, Begin(w) \/ Lock(w) \/ Proceed(w)
      PROVE  Moves(w)
  BY <1>2, BeginMoves, LockMoves, ProceedMoves DEF Tidy
<1>3. ASSUME NEW w \in Workers, DeadlockVictim(w) \/ Fault(w)
      PROVE  Moves(w)
  BY <1>3, HoldRetryMoves, EndMoves DEF DeadlockVictim, DeadlockFail, Rollback, Fault
<1> QED BY <1>1, <1>2, <1>3 DEF Next

\* Every reachable state is tidy.
THEOREM StoreTidy == Spec => []Tidy
<1>1. Init => Tidy
  BY DEF Init, Idle, Tidy, TidyOK
<1>2. TypeOK /\ Tidy /\ [Next]_vars => Tidy'
  <2> SUFFICES ASSUME TypeOK, Tidy, [Next]_vars PROVE \A w \in Workers : TidyOK(tx'[w])
    BY DEF Tidy, TidyOK
  <2> QED BY WorkerMoves DEF Tidy, Moves
<1> QED BY <1>1, <1>2, StoreTyped, PTL DEF Spec

\* A transaction only goes forward: from one try to the next of the few there
\* are, from statement to statement, and within one from row to row.
TransactionsGoForward ==
  [][\A w \in Workers : tx[w].at # "idle" /\ tx'[w] # tx[w] => Closer(tx[w], tx'[w])]_vars

\* No sequence of steps keeps a hold, confirm, cancel or release going round:
\* whatever the others do meanwhile, each step of its own brings it closer to
\* its end.
THEOREM TransactionsProgress == Spec => TransactionsGoForward
<1>1. TypeOK /\ Tidy /\ [Next]_vars =>
        [\A w \in Workers : tx[w].at # "idle" /\ tx'[w] # tx[w] => Closer(tx[w], tx'[w])]_vars
  BY WorkerMoves DEF Moves
<1> QED BY <1>1, StoreTyped, StoreTidy, PTL DEF Spec, TransactionsGoForward

\* What Lock(w) and Proceed(w) need, of the rows and of w.
CanStep(w) ==
  \/ /\ tx[w].at = "holdSelect"
     /\ LeastSeat({s \in tx[w].req : Holdable(seats[s], tx[w].now)}) # {}
  \/ /\ tx[w].at = "holdLock"
     /\ tx[w].next = None \/ (Free(tx[w].next, w) /\ LeastSeat(Rest(w)) # {})
  \/ /\ tx[w].at \in {"confirmBooking", "cancelBooking"}
     /\ Free(tx[w].booking, w)
  \/ tx[w].at = "releaseSelect"
  \/ /\ tx[w].at \in {"confirmSeats", "cancelSeats", "releaseBookings", "releaseSeats"}
     /\ tx[w].next = None \/ Free(tx[w].next, w)

\* Of a worker and all those it waits for, directly or through others, one can
\* take its step or is on a cycle that PostgreSQL breaks.
SomebodyCanStep ==
  \A C \in SUBSET Workers :
    /\ \E w \in C : tx[w].at # "idle"
    /\ \A x \in C, y \in Workers : Blocks(y, x) => y \in C
    => \E x \in C : CanStep(x) \/ Deadlocked(x)

\* Some seats have a least one.
LEMMA LeastSeatExists ==
  ASSUME NEW T \in SUBSET Seats
  PROVE  LeastSeat(T) # {}
<1> SUFFICES ASSUME T # {} PROVE \E s \in T : \A u \in T : s <= u
  BY DEF LeastSeat
<1> DEFINE Below(s) == {u \in T : u < s}
           B == {Below(s) : s \in T}
<1>1. PICK X \in B : \A Y \in B : <<Y, X>> \notin StrictSubsetOrdering(Seats)
  <2>1. \A s \in T : Below(s) \in SUBSET Seats /\ IsFiniteSet(Below(s))
    BY FiniteAssumption, FS_Subset
  <2> HIDE DEF Below
  <2>2. B \subseteq FiniteSubsetsOf(Seats) /\ B # {}
    BY <2>1 DEF FiniteSubsetsOf
  <2> HIDE DEF B
  <2> QED BY <2>2, FiniteAssumption, WFMin, FS_StrictSubsetOrderingWellFounded
<1>2. PICK s \in T : X = Below(s)
  BY <1>1
<1>3. ASSUME NEW u \in T PROVE s <= u
  <2>1. s \in Nat /\ u \in Nat /\ T \subseteq Nat
    BY SeatsAssumption
  <2>2. u < s => Below(u) \subseteq Below(s) /\ u \in Below(s) /\ u \notin Below(u)
    <3>1. ASSUME u < s, NEW v \in T, v < u PROVE v < s
      <4>1. v \in Nat
        BY <2>1
      <4> QED BY <2>1, <3>1, <4>1
    <3>2. ~(u < u)
      BY <2>1
    <3> QED BY <3>1, <3>2
  <2>3. Below(u) \in B /\ Below(u) \in SUBSET Seats /\ Below(s) \in SUBSET Seats
    OBVIOUS
  <2> HIDE DEF Below, B
  <2>4. ~(u < s)
    BY <1>1, <1>2, <2>2, <2>3 DEF StrictSubsetOrdering
  <2> QED BY <2>1, <2>4
<1> QED BY <1>3

\* A transaction that is not blocked can go on.
LEMMA UnblockedCanStep ==
  ASSUME Safe, Ordered, Tidy, NEW w \in Workers, tx[w].at # "idle",
         \A v \in Workers : ~Blocks(v, w)
  PROVE  CanStep(w)
<1>1. /\ tx[w] \in Transaction /\ TidyOK(tx[w]) /\ OrderOK(tx[w])
      /\ tx[w].at \in Stages
  BY DEF Safe, TypeOK, Tidy, Ordered, Transaction
<1>2. Free(tx[w].next, w)
  BY DEF Free, Blocks
<1>3. CASE tx[w].at = "holdSelect"
  <2>1. {s \in tx[w].req : Holdable(seats[s], tx[w].now)} \in SUBSET Seats
    BY <1>1 DEF Transaction
  <2> QED BY <1>3, <2>1, LeastSeatExists DEF CanStep
<1>4. CASE tx[w].at = "holdLock"
  <2>1. Rest(w) \in SUBSET Seats
    BY <1>1, <1>4 DEF OrderOK, Rest
  <2> QED BY <1>2, <1>4, <2>1, LeastSeatExists DEF CanStep
<1>5. CASE tx[w].at \in {"confirmBooking", "cancelBooking"}
  BY <1>1, <1>2, <1>5 DEF TidyOK, CanStep
<1>6. CASE tx[w].at \in {"releaseSelect", "confirmSeats", "cancelSeats", "releaseBookings",
                         "releaseSeats"}
  BY <1>2, <1>6 DEF CanStep
<1> QED BY <1>1, <1>3, <1>4, <1>5, <1>6 DEF Stages

\* Some workers that are each blocked by one of them contain a deadlock: the
\* smallest part of them that is like that.
LEMMA BlockedContainCycle ==
  ASSUME NEW C \in SUBSET Workers, C # {}, \A x \in C : \E y \in C : Blocks(y, x)
  PROVE  \E x \in C : Deadlocked(x)
<1> DEFINE Closed(D) == D # {} /\ D \subseteq C /\ \A x \in D : \E y \in D : Blocks(y, x)
           T == {D \in SUBSET Workers : Closed(D)}
<1>1. IsFiniteSet(Workers)
  BY FiniteAssumption, FS_AddElement DEF Workers
<1>2. PICK D \in T : \A E \in T : <<E, D>> \notin StrictSubsetOrdering(Workers)
  <2>1. T \subseteq FiniteSubsetsOf(Workers)
    BY <1>1, FS_Subset DEF FiniteSubsetsOf
  <2>2. C \in T
    OBVIOUS
  <2> HIDE DEF T
  <2> QED BY <1>1, <2>1, <2>2, WFMin, FS_StrictSubsetOrderingWellFounded
<1>3. D \in SUBSET Workers /\ Closed(D)
  OBVIOUS
<1>4. ASSUME NEW x \in D, \A y \in D : ~Blocks(x, y) PROVE FALSE
  <2> DEFINE E == D \ {x}
  <2>1. PICK z \in D : Blocks(z, x)
    BY <1>3
  <2>2. z # x
    BY <2>1 DEF Blocks
  <2>3. Closed(E)
    BY <1>3, <1>4, <2>2
  <2>4. E \in T /\ E \in SUBSET Workers /\ E \subseteq D /\ E # D
    BY <1>3, <2>3
  <2> HIDE DEF E, T
  <2> QED BY <1>2, <1>3, <2>4 DEF StrictSubsetOrdering
<1>5. PICK x \in D : TRUE
  BY <1>3
<1>6. Deadlocked(x)
  BY <1>3, <1>4, <1>5 DEF Deadlocked
<1> QED BY <1>3, <1>5, <1>6

\* The four transactions never lock each other, or themselves, out for good:
\* wherever waits lead, there is somebody who can go on or a deadlock that
\* PostgreSQL sees.
THEOREM StoreNeverStuck == Spec => []SomebodyCanStep
<1>1. Safe /\ Ordered /\ Tidy => SomebodyCanStep
  <2> SUFFICES ASSUME Safe, Ordered, Tidy, NEW C \in SUBSET Workers,
                      \E w \in C : tx[w].at # "idle",
                      \A x \in C, y \in Workers : Blocks(y, x) => y \in C,
                      \A x \in C : ~CanStep(x)
               PROVE  \E x \in C : Deadlocked(x)
    BY DEF SomebodyCanStep
  <2> DEFINE D == {x \in C : tx[x].at # "idle"}
  <2>1. \A x \in D : \E y \in Workers : Blocks(y, x)
    BY UnblockedCanStep
  <2>2. \A x \in D, y \in Workers : Blocks(y, x) => y \in D
    BY DEF Blocks, Tidy, TidyOK
  <2>3. D \in SUBSET Workers /\ D # {}
    OBVIOUS
  <2> HIDE DEF D
  <2>4. \E x \in D : Deadlocked(x)
    BY <2>1, <2>2, <2>3, BlockedContainCycle
  <2> QED BY <2>4 DEF D
<1> QED BY <1>1, StoreSafe, StoreOrdered, StoreTidy, PTL
=============================================================================
