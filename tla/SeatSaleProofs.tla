--------------------------- MODULE SeatSaleProofs ---------------------------
(***************************************************************************)
(* What SeatStore guarantees while no confirm or cancel overlaps the       *)
(* expiry of its hold and no cancel starts after it: a seat has one live    *)
(* booking, settled bookings stay settled, and the store implements SeatSale. *)
(***************************************************************************)
EXTENDS SeatStoreProofs

-----------------------------------------------------------------------------
(* The invariant, on top of Safe.                                          *)

\* A confirm or cancel that will write finds its hold unexpired; a releaser
\* has bookings that only another releaser has touched.
TimelyOK(t) ==
  /\ t.at \in Settling => bookings[t.booking].status # "NONE"
  /\ t.at \in {"confirmSeats", "cancelSeats"} => ~(bookings[t.booking].expires < clock)
  /\ t.at = "cancelBooking" => ~Lapsed(t.booking, clock)
  /\ t.at \in {"releaseBookings", "releaseSeats"} =>
       \A b \in t.found : bookings[b].status \in {"HOLDING", "EXPIRED"}

\* The booking of a seat lists it.
SeatsListed ==
  \A s \in Seats, b \in Bookings :
    seats[s].booking = b => bookings[b].status # "NONE" /\ s \in bookings[b].items

Timely ==
  /\ \A w \in Workers : TimelyOK(tx[w])
  /\ SeatsListed
  /\ LiveBookingKeepsSeats

LEMMA GotoTimely ==
  ASSUME Safe, Timely, NEW w \in Workers, NEW t \in Transaction, Goto(w, t), TimelyOK(t),
         UNCHANGED <<seats, bookings, clock>>
  PROVE  Timely'
<1>1. tx'[w] = t /\ \A v \in Workers \ {w} : tx'[v] = tx[v]
  BY GotoWorkers DEF Safe
<1>2. \A v \in Workers : TimelyOK(tx[v])'
  BY <1>1 DEF Timely, TimelyOK, Lapsed, Settling
<1>3. SeatsListed' /\ LiveBookingKeepsSeats'
  BY DEF Timely, SeatsListed, LiveBookingKeepsSeats, Live
<1> QED BY <1>2, <1>3 DEF Timely

LEMMA IdleTimely ==
  ASSUME Safe, Timely, NEW w \in Workers, Goto(w, Idle), UNCHANGED <<seats, bookings, clock>>
  PROVE  Timely'
<1>1. Idle \in Transaction
  BY IdleOK, BoundsAssumption DEF Safe, TypeOK
<1>2. TimelyOK(Idle)
  BY DEF Idle, TimelyOK, Settling
<1> QED BY <1>1, <1>2, GotoTimely

LEMMA LockTimely ==
  ASSUME Safe, Timely, NEW w \in Workers, NEW n \in Rows \cup {None}, LockNext(w, n)
  PROVE  Timely'
<1> DEFINE r == tx[w].next
           t == [tx[w] EXCEPT !.rows = @ \cup {r}, !.todo = Rest(w), !.next = n]
<1>1. tx[w] \in Transaction /\ TimelyOK(tx[w])
  BY DEF Safe, TypeOK, Timely
<1>2. r \in Rows
  BY <1>1 DEF LockNext, Transaction
<1>3. /\ t \in Transaction
      /\ t.at = tx[w].at /\ t.booking = tx[w].booking /\ t.found = tx[w].found
  BY <1>1, <1>2 DEF Transaction, Rest
<1>4. TimelyOK(t)
  <2> HIDE DEF t
  <2> QED BY <1>1, <1>3 DEF TimelyOK
<1>5. Goto(w, t) /\ UNCHANGED <<seats, bookings, clock>>
  BY DEF LockNext
<1> QED BY <1>3, <1>4, <1>5, GotoTimely

-----------------------------------------------------------------------------
(* The steps that leave the rows alone.                                    *)

LEMMA BeginTimely ==
  ASSUME Straddling = FALSE, Safe, Timely, NEW w \in Workers, Begin(w)
  PROVE  Timely'
<1>1. Idle \in Transaction /\ clock \in Nat
  BY IdleOK, BoundsAssumption DEF Safe, TypeOK
<1>2. ASSUME NEW req \in SUBSET Seats, NEW b \in Bookings, BeginHold(w, req, b) PROVE Timely'
  <2> DEFINE t == [Idle EXCEPT !.at = "holdSelect", !.booking = b, !.req = req, !.now = clock]
  <2>1. t \in Transaction /\ t.at = "holdSelect"
    BY <1>1 DEF Transaction, Stages
  <2>2. TimelyOK(t)
    <3> HIDE DEF t
    <3> QED BY <2>1 DEF TimelyOK, Settling
  <2>3. Goto(w, t) /\ UNCHANGED <<seats, bookings, clock>>
    BY <1>2 DEF BeginHold
  <2> QED BY <2>1, <2>2, <2>3, GotoTimely
<1>3. ASSUME NEW b \in Bookings, BeginConfirm(w, b) \/ BeginCancel(w, b) PROVE Timely'
  <2> DEFINE i == [Idle EXCEPT !.booking = b]
  <2>1. i \in Transaction /\ i.booking = b
    BY <1>1 DEF Transaction
  <2>2. PICK stage \in {"confirmBooking", "cancelBooking"} :
          /\ Goto(w, Scan(i, stage, {b}, b))
          /\ UNCHANGED <<seats, bookings, clock>>
          /\ bookings[b].status # "NONE"
          /\ stage = "cancelBooking" => ~Lapsed(b, clock)
    BY <1>3 DEF BeginConfirm, BeginCancel, BeginOn
  <2> DEFINE t == Scan(i, stage, {b}, b)
  <2>3. t \in Transaction /\ t.at = stage /\ t.booking = b
    <3> HIDE DEF i
    <3> QED BY <2>1, ScanTyped DEF Stages, Rows
  <2>4. TimelyOK(t)
    <3> HIDE DEF t
    <3> QED BY <2>2, <2>3 DEF TimelyOK
  <2> QED BY <2>2, <2>3, <2>4, GotoTimely
<1>4. ASSUME BeginRelease(w) PROVE Timely'
  <2> DEFINE t == [Idle EXCEPT !.at = "releaseSelect", !.now = clock]
  <2>1. t \in Transaction /\ t.at = "releaseSelect"
    BY <1>1 DEF Transaction, Stages
  <2>2. TimelyOK(t)
    <3> HIDE DEF t
    <3> QED BY <2>1 DEF TimelyOK, Settling
  <2>3. Goto(w, t) /\ UNCHANGED <<seats, bookings, clock>>
    BY <1>4 DEF BeginRelease
  <2> QED BY <2>1, <2>2, <2>3, GotoTimely
<1> QED BY <1>2, <1>3, <1>4 DEF Begin

LEMMA LockBookingTimely ==
  ASSUME Safe, Timely, NEW w \in Workers, NEW stage \in {"confirmSeats", "cancelSeats"},
         tx[w].at \in {"confirmBooking", "cancelBooking"},
         bookings[tx[w].booking].status # "NONE",
         ~(bookings[tx[w].booking].expires < clock), LockBooking(w, stage)
  PROVE  Timely'
<1> DEFINE b == tx[w].booking
           T == bookings[b].items
<1>1. tx[w] \in Transaction /\ b \in Bookings
  BY DEF Safe, TypeOK, TransactionOK, ScanOK, Settling
<1>2. T \in SUBSET Rows
  BY <1>1 DEF Safe, TypeOK, BookingRow, Rows
<1>3. PICK n \in AnyRow(T) : Goto(w, [Scan(tx[w], stage, T, n) EXCEPT !.rows = {b}])
  BY DEF LockBooking
<1>4. n \in Rows \cup {None}
  BY <1>2, NextRow
<1> DEFINE u == Scan(tx[w], stage, T, n)
           t == [u EXCEPT !.rows = {b}]
<1>5. u \in Transaction /\ u.at = stage /\ u.booking = b
  BY <1>1, <1>2, <1>4, ScanTyped DEF Stages
<1>6. t \in Transaction /\ t.at = stage /\ t.booking = b
  <2> HIDE DEF u
  <2> QED BY <1>1, <1>5 DEF Transaction, Rows
<1>7. TimelyOK(t)
  <2> HIDE DEF t
  <2> QED BY <1>6 DEF TimelyOK, Settling
<1>8. Goto(w, t) /\ UNCHANGED <<seats, bookings, clock>>
  BY <1>3 DEF LockBooking
<1> QED BY <1>6, <1>7, <1>8, GotoTimely

LEMMA ScanTimely ==
  ASSUME Safe, Timely, NEW w \in Workers, HoldSelect(w) \/ ReleaseSelect(w) \/ ReleaseSelectSeats(w)
  PROVE  Timely'
<1>1. tx[w] \in Transaction /\ TimelyOK(tx[w])
  BY DEF Safe, TypeOK, Timely
<1>2. CASE HoldSelect(w)
  <2> DEFINE T == {s \in tx[w].req : Holdable(seats[s], tx[w].now)}
  <2>1. PICK n \in LeastSeat(T) : Goto(w, Scan(tx[w], "holdLock", T, n))
    BY <1>2 DEF HoldSelect
  <2>2. T \in SUBSET Rows /\ n \in Rows \cup {None}
    BY <1>1, NextRow DEF Transaction, Rows
  <2> DEFINE t == Scan(tx[w], "holdLock", T, n)
  <2>3. t \in Transaction /\ t.at = "holdLock"
    BY <1>1, <2>2, ScanTyped DEF Stages
  <2>4. TimelyOK(t)
    <3> HIDE DEF t
    <3> QED BY <2>3 DEF TimelyOK, Settling
  <2>5. Goto(w, t) /\ UNCHANGED <<seats, bookings, clock>>
    BY <1>2, <2>1 DEF HoldSelect
  <2> QED BY <2>3, <2>4, <2>5, GotoTimely
<1>3. CASE ReleaseSelect(w)
  <2> DEFINE E == {b \in Bookings : Lapsed(b, tx[w].now)}
  <2>1. ASSUME NEW n \in E, Goto(w, [Scan(tx[w], "releaseBookings", E, n) EXCEPT !.found = E])
        PROVE  Timely'
    <3> DEFINE u == Scan(tx[w], "releaseBookings", E, n)
               t == [u EXCEPT !.found = E]
    <3>1. u \in Transaction /\ u.at = "releaseBookings"
      BY <1>1, ScanTyped DEF Stages, Rows
    <3>2. E \in SUBSET Bookings /\ \A b \in E : bookings[b].status = "HOLDING"
      BY DEF Lapsed
    <3>3. t \in Transaction /\ t.at = "releaseBookings" /\ t.found = E
      <4> HIDE DEF u, E
      <4> QED BY <3>1, <3>2 DEF Transaction
    <3>4. TimelyOK(t)
      <4> HIDE DEF t, E
      <4> QED BY <3>2, <3>3 DEF TimelyOK, Settling
    <3>5. Goto(w, t) /\ UNCHANGED <<seats, bookings, clock>>
      BY <1>3, <2>1 DEF ReleaseSelect
    <3> QED BY <3>3, <3>4, <3>5, GotoTimely
  <2> QED BY <1>3, <2>1, IdleTimely DEF ReleaseSelect
<1>4. CASE ReleaseSelectSeats(w)
  <2> DEFINE T == {s \in Seats : HeldFor(seats[s], tx[w].found)}
  <2>1. PICK n \in AnyRow(T) : Goto(w, Scan(tx[w], "releaseSeats", T, n))
    BY <1>4 DEF ReleaseSelectSeats
  <2>2. T \in SUBSET Rows /\ n \in Rows \cup {None}
    BY NextRow DEF Rows
  <2> DEFINE t == Scan(tx[w], "releaseSeats", T, n)
  <2>3. t \in Transaction /\ t.at = "releaseSeats" /\ t.found = tx[w].found
    BY <1>1, <2>2, ScanTyped DEF Stages
  <2>4. TimelyOK(t)
    <3> HIDE DEF t
    <3> QED BY <1>1, <1>4, <2>3 DEF TimelyOK, Settling, ReleaseSelectSeats
  <2>5. Goto(w, t) /\ UNCHANGED <<seats, bookings, clock>>
    BY <1>4, <2>1 DEF ReleaseSelectSeats
  <2> QED BY <2>3, <2>4, <2>5, GotoTimely
<1> QED BY <1>2, <1>3, <1>4

LEMMA HoldRetryTimely ==
  ASSUME Safe, Timely, NEW w \in Workers, HoldRetry(w)
  PROVE  Timely'
<1> DEFINE t == [Idle EXCEPT !.at = "holdSelect", !.booking = tx[w].booking,
                            !.req = tx[w].req, !.now = clock, !.tries = tx[w].tries + 1]
<1>1. tx[w] \in Transaction /\ clock \in Nat /\ tx[w].tries + 1 < MaxDeadlockRetries
  BY BoundsAssumption DEF Safe, TypeOK, HoldRetry, Retried
<1>2. tx[w].tries + 1 \in 0 .. MaxDeadlockRetries - 1
  BY <1>1, BoundsAssumption DEF Transaction
<1>3. t \in Transaction /\ t.at = "holdSelect"
  BY <1>1, <1>2, IdleOK DEF Transaction, Stages
<1>4. TimelyOK(t)
  <2> HIDE DEF t
  <2> QED BY <1>3 DEF TimelyOK, Settling
<1>5. Goto(w, t) /\ UNCHANGED <<seats, bookings, clock>>
  BY DEF HoldRetry
<1> QED BY <1>3, <1>4, <1>5, GotoTimely
-----------------------------------------------------------------------------
(* The commits and the clock.                                              *)

\* What each commit does to the rows, in the terms of the invariant.
LEMMA HoldWrites ==
  ASSUME Safe, NEW w \in Workers, HoldCommit(w)
  PROVE  LET b == tx[w].booking
             e == tx[w].now + HoldTime IN
         /\ b \in Bookings /\ bookings[b].status = "NONE"
         /\ tx[w].req \in SUBSET Seats
         /\ bookings'[b] = [status |-> "HOLDING", items |-> tx[w].req, expires |-> e]
         /\ \A c \in Bookings \ {b} : bookings'[c] = bookings[c]
         /\ \A s \in tx[w].req : seats'[s] = [status |-> "HOLDING", booking |-> b, expires |-> e]
         /\ \A s \in Seats \ tx[w].req : seats'[s] = seats[s]
<1>1. tx[w] \in Transaction /\ TransactionOK(tx[w]) /\ tx[w].at = "holdLock"
  BY DEF Safe, TypeOK, HoldCommit
<1>2. /\ tx[w].booking \in Bookings /\ bookings[tx[w].booking].status = "NONE"
      /\ tx[w].req \in SUBSET Seats
  BY <1>1 DEF TransactionOK, HoldOK, Holds, Transaction
<1> QED BY <1>2 DEF HoldCommit, Safe, TypeOK

LEMMA SettleWrites ==
  ASSUME Safe, Timely, NEW w \in Workers, NEW status, NEW rows,
         tx[w].at \in {"confirmSeats", "cancelSeats"}, Settle(w, status, rows)
  PROVE  LET b == tx[w].booking IN
         /\ b \in Bookings /\ b \in tx[w].rows /\ bookings[b].status = "HOLDING"
         /\ ~(bookings[b].expires < clock)
         /\ bookings'[b].status = status /\ bookings'[b].items = bookings[b].items
         /\ \A c \in Bookings \ {b} : bookings'[c] = bookings[c]
         /\ \A s \in Seats : seats[s].booking = b <=> s \in bookings[b].items
         /\ \A s \in Seats : seats'[s] = IF seats[s].booking = b THEN rows[s] ELSE seats[s]
<1> DEFINE b == tx[w].booking
<1>1. /\ tx[w] \in Transaction /\ TransactionOK(tx[w]) /\ TimelyOK(tx[w])
  BY DEF Safe, TypeOK, Timely
<1>2. /\ b \in Bookings /\ b \in tx[w].rows /\ bookings[b].status = "HOLDING"
      /\ ~(bookings[b].expires < clock)
  BY <1>1 DEF TransactionOK, ScanOK, SettleOK, Settling, TimelyOK
<1>3. /\ bookings'[b].status = status /\ bookings'[b].items = bookings[b].items
      /\ \A c \in Bookings \ {b} : bookings'[c] = bookings[c]
  BY <1>2 DEF Settle, Safe, TypeOK, BookingRow
<1>4. \A s \in Seats : seats[s].booking = b <=> s \in bookings[b].items
  BY <1>2 DEF Timely, LiveBookingKeepsSeats, SeatsListed, Live
<1>5. \A s \in Seats : seats'[s] = IF s \in bookings[b].items THEN rows[s] ELSE seats[s]
  BY DEF Settle
<1> QED BY <1>2, <1>3, <1>4, <1>5

LEMMA ReleaseWrites ==
  ASSUME Safe, Timely, NEW w \in Workers, ReleaseCommit(w)
  PROVE  LET B == tx[w].found IN
         /\ B \in SUBSET Bookings
         /\ \A b \in B : ~Live(b)
         /\ \A b \in Bookings : bookings'[b] =
              IF b \in B THEN [bookings[b] EXCEPT !.status = "EXPIRED"] ELSE bookings[b]
         /\ \A s \in Seats : seats'[s] = IF HeldFor(seats[s], B) THEN FreeSeat ELSE seats[s]
<1> DEFINE B == tx[w].found
<1>1. /\ tx[w] \in Transaction /\ TransactionOK(tx[w]) /\ TimelyOK(tx[w])
      /\ tx[w].at = "releaseSeats" /\ tx[w].next = None
  BY DEF Safe, TypeOK, Timely, ReleaseCommit
<1>2. B \in SUBSET Bookings /\ \A s \in Seats : HeldFor(seats[s], B) => s \in tx[w].rows
  BY <1>1 DEF TransactionOK, ScanOK, ReleaseOK, Transaction
<1>3. \A b \in B : ~Live(b)
  BY <1>1 DEF TransactionOK, ReleaseOK, TimelyOK, Live
<1> QED BY <1>2, <1>3 DEF ReleaseCommit

\* A commit ends its transaction and must leave the others timely.
LEMMA CommitTimely ==
  ASSUME Safe, Timely, NEW w \in Workers, Goto(w, Idle), UNCHANGED clock,
         SeatsListed', LiveBookingKeepsSeats',
         \A v \in Workers \ {w} : tx'[v] = tx[v] => TimelyOK(tx[v])'
  PROVE  Timely'
<1>1. /\ tx'[w] = Idle /\ \A v \in Workers \ {w} : tx'[v] = tx[v]
  BY IdleOK, GotoWorkers, BoundsAssumption DEF Safe, TypeOK
<1>2. TimelyOK(tx[w])'
  BY <1>1 DEF Idle, TimelyOK, Settling
<1> QED BY <1>1, <1>2 DEF Timely

LEMMA HoldCommitTimely ==
  ASSUME Safe, Timely, NEW w \in Workers, HoldCommit(w)
  PROVE  Timely'
<1> DEFINE b == tx[w].booking
           e == tx[w].now + HoldTime
           req == tx[w].req
<1>1. /\ b \in Bookings /\ bookings[b].status = "NONE" /\ req \in SUBSET Seats
      /\ bookings'[b] = [status |-> "HOLDING", items |-> req, expires |-> e]
      /\ \A c \in Bookings \ {b} : bookings'[c] = bookings[c]
      /\ \A s \in req : seats'[s] = [status |-> "HOLDING", booking |-> b, expires |-> e]
      /\ \A s \in Seats \ req : seats'[s] = seats[s]
  BY HoldWrites
<1>2. \A s \in req : \/ seats[s].status = "AVAILABLE"
                     \/ seats[s].status = "HOLDING" /\ seats[s].expires < clock
  BY GrantedLapsed
<1>3. Goto(w, Idle) /\ UNCHANGED clock
  BY DEF HoldCommit
<1> HIDE DEF b, e, req
<1>4. SeatsListed'
  BY <1>1 DEF Timely, SeatsListed
<1>5. LiveBookingKeepsSeats'
  <2> SUFFICES ASSUME NEW c \in Bookings, Live(c)', NEW s \in bookings'[c].items
               PROVE  /\ seats'[s].booking = c
                      /\ seats'[s].status = IF bookings'[c].status = "PAID" THEN "SOLD" ELSE "HOLDING"
    BY DEF LiveBookingKeepsSeats
  <2>1. CASE c = b
    BY <1>1, <2>1
  <2>2. CASE c # b
    <3>1. Live(c) /\ s \in bookings[c].items /\ s \in Seats
      BY <1>1, <1>3, <2>2 DEF Live, Safe, TypeOK, BookingRow
    <3>2. /\ seats[s].booking = c
          /\ seats[s].status = IF bookings[c].status = "PAID" THEN "SOLD" ELSE "HOLDING"
      BY <3>1 DEF Timely, LiveBookingKeepsSeats
    <3>3. s \notin req
      BY <1>2, <3>1, <3>2 DEF Live, Safe, HeldSeatBacked
    <3> QED BY <1>1, <2>2, <3>1, <3>2, <3>3
  <2> QED BY <2>1, <2>2
<1>6. ASSUME NEW v \in Workers \ {w}, tx'[v] = tx[v] PROVE TimelyOK(tx[v])'
  <2>1. /\ tx[v] \in Transaction /\ TransactionOK(tx[v]) /\ TimelyOK(tx[v])
    BY DEF Safe, TypeOK, Timely
  <2>2. tx[v].at \in Settling => tx[v].booking \in Bookings \ {b}
    BY <1>1, <2>1 DEF TransactionOK, ScanOK, TimelyOK
  <2>3. tx[v].at \in {"releaseBookings", "releaseSeats"} =>
          tx[v].found \in SUBSET (Bookings \ {b})
    BY <1>1, <2>1 DEF TimelyOK, Transaction
  <2> QED BY <1>1, <1>3, <1>6, <2>1, <2>2, <2>3 DEF TimelyOK, Lapsed, Settling
<1> QED BY <1>3, <1>4, <1>5, <1>6, CommitTimely

\* Confirm and cancel alike.
LEMMA SettleTimely ==
  ASSUME Safe, Timely, NEW w \in Workers, NEW status \in {"PAID", "CANCELED"}, NEW rows,
         tx[w].at \in {"confirmSeats", "cancelSeats"}, Settle(w, status, rows),
         \A s \in Seats : IF status = "PAID"
                          THEN rows[s].booking = seats[s].booking /\ rows[s].status = "SOLD"
                          ELSE rows[s].booking = None
  PROVE  Timely'
<1> DEFINE b == tx[w].booking
<1>1. /\ b \in Bookings /\ b \in tx[w].rows /\ bookings[b].status = "HOLDING"
      /\ ~(bookings[b].expires < clock)
      /\ bookings'[b].status = status /\ bookings'[b].items = bookings[b].items
      /\ \A c \in Bookings \ {b} : bookings'[c] = bookings[c]
      /\ \A s \in Seats : seats[s].booking = b <=> s \in bookings[b].items
      /\ \A s \in Seats : seats'[s] = IF seats[s].booking = b THEN rows[s] ELSE seats[s]
  BY SettleWrites
<1>2. Goto(w, Idle) /\ UNCHANGED clock
  BY DEF Settle
<1> HIDE DEF b
<1>3. SeatsListed'
  BY <1>1, NamesAssumption DEF Timely, SeatsListed
<1>4. LiveBookingKeepsSeats'
  <2> SUFFICES ASSUME NEW c \in Bookings, Live(c)', NEW s \in bookings'[c].items
               PROVE  /\ seats'[s].booking = c
                      /\ seats'[s].status = IF bookings'[c].status = "PAID" THEN "SOLD" ELSE "HOLDING"
    BY DEF LiveBookingKeepsSeats
  <2>1. s \in Seats /\ s \in bookings[c].items
    BY <1>1 DEF Safe, TypeOK, BookingRow
  <2>2. CASE c = b
    BY <1>1, <2>1, <2>2 DEF Live
  <2>3. CASE c # b
    BY <1>1, <1>2, <2>1, <2>3 DEF Timely, LiveBookingKeepsSeats, Live
  <2> QED BY <2>2, <2>3
<1>5. ASSUME NEW v \in Workers \ {w}, tx'[v] = tx[v] PROVE TimelyOK(tx[v])'
  <2>1. /\ tx[v] \in Transaction /\ TransactionOK(tx[v]) /\ TimelyOK(tx[v])
        /\ Apart(tx[v], tx[w])
    BY DEF Safe, TypeOK, Timely
  <2>2. tx[v].at \in Settling => tx[v].booking \in Bookings
    BY <2>1 DEF TransactionOK, ScanOK
  <2>3. tx[v].at \in {"confirmSeats", "cancelSeats"} => tx[v].booking # b
    BY <1>1, <2>1 DEF TransactionOK, SettleOK, Apart
  <2>4. tx[v].at \in {"releaseBookings", "releaseSeats"} =>
          tx[v].found \in SUBSET (Bookings \ {b})
    BY <1>1, <2>1 DEF TransactionOK, ReleaseOK, Transaction
  <2> QED BY <1>1, <1>2, <1>5, <2>1, <2>2, <2>3, <2>4 DEF TimelyOK, Lapsed, Settling
<1> QED BY <1>2, <1>3, <1>4, <1>5, CommitTimely

LEMMA ReleaseCommitTimely ==
  ASSUME Safe, Timely, NEW w \in Workers, ReleaseCommit(w)
  PROVE  Timely'
<1> DEFINE B == tx[w].found
<1>1. /\ B \in SUBSET Bookings /\ \A b \in B : ~Live(b)
      /\ \A b \in Bookings : bookings'[b] =
           IF b \in B THEN [bookings[b] EXCEPT !.status = "EXPIRED"] ELSE bookings[b]
      /\ \A s \in Seats : seats'[s] = IF HeldFor(seats[s], B) THEN FreeSeat ELSE seats[s]
  BY ReleaseWrites
<1>2. Goto(w, Idle) /\ UNCHANGED clock
  BY DEF ReleaseCommit
<1> HIDE DEF B
<1>3. ASSUME NEW b \in Bookings
      PROVE  /\ bookings'[b].items = bookings[b].items
             /\ bookings'[b].expires = bookings[b].expires
             /\ bookings'[b].status = IF b \in B THEN "EXPIRED" ELSE bookings[b].status
  BY <1>1 DEF Safe, TypeOK, BookingRow
<1>4. ASSUME NEW s \in Seats
      PROVE  \/ seats'[s].booking = None /\ seats[s].status = "HOLDING" /\ seats[s].booking \in B
             \/ seats'[s] = seats[s]
  BY <1>1 DEF HeldFor, FreeSeat
<1>5. SeatsListed'
  <2> SUFFICES ASSUME NEW s \in Seats, NEW b \in Bookings, seats'[s].booking = b
               PROVE  bookings'[b].status # "NONE" /\ s \in bookings'[b].items
    BY DEF SeatsListed
  <2>1. bookings[b].status # "NONE" /\ s \in bookings[b].items
    BY <1>4, NamesAssumption DEF Timely, SeatsListed
  <2> QED BY <1>3, <2>1
<1>6. LiveBookingKeepsSeats'
  <2> SUFFICES ASSUME NEW c \in Bookings, Live(c)', NEW s \in bookings'[c].items
               PROVE  /\ seats'[s].booking = c
                      /\ seats'[s].status = IF bookings'[c].status = "PAID" THEN "SOLD" ELSE "HOLDING"
    BY DEF LiveBookingKeepsSeats
  <2>1. c \notin B /\ bookings'[c].status = bookings[c].status
    BY <1>3 DEF Live
  <2>2. Live(c) /\ s \in bookings[c].items /\ s \in Seats
    BY <1>2, <1>3, <2>1 DEF Live, Safe, TypeOK, BookingRow
  <2>3. /\ seats[s].booking = c
        /\ seats[s].status = IF bookings[c].status = "PAID" THEN "SOLD" ELSE "HOLDING"
    BY <2>2 DEF Timely, LiveBookingKeepsSeats
  <2> QED BY <1>4, <2>1, <2>2, <2>3
<1>7. ASSUME NEW v \in Workers \ {w}, tx'[v] = tx[v] PROVE TimelyOK(tx[v])'
  <2>1. /\ tx[v] \in Transaction /\ TransactionOK(tx[v]) /\ TimelyOK(tx[v])
    BY DEF Safe, TypeOK, Timely
  <2>2. tx[v].at \in Settling => tx[v].booking \in Bookings
    BY <2>1 DEF TransactionOK, ScanOK
  <2>3. tx[v].at \in {"releaseBookings", "releaseSeats"} =>
          \A b \in tx[v].found : bookings'[b].status \in {"HOLDING", "EXPIRED"}
    BY <1>3, <2>1 DEF TimelyOK, Transaction
  <2>4. tx[v].at \in Settling => bookings'[tx[v].booking].status # "NONE"
    BY <1>3, <2>1, <2>2 DEF TimelyOK
  <2>5. tx[v].at \in {"confirmSeats", "cancelSeats"} => ~(bookings'[tx[v].booking].expires < clock)
    BY <1>3, <2>1, <2>2 DEF TimelyOK, Settling
  <2>6. tx[v].at = "cancelBooking" =>
          ~(bookings'[tx[v].booking].status = "HOLDING" /\ bookings'[tx[v].booking].expires < clock)
    BY <1>3, <2>1, <2>2 DEF TimelyOK, Settling, Lapsed
  <2> QED BY <1>2, <1>7, <2>3, <2>4, <2>5, <2>6 DEF TimelyOK, Lapsed
<1> QED BY <1>2, <1>5, <1>6, <1>7, CommitTimely

LEMMA TickTimely ==
  ASSUME Straddling = FALSE, Safe, Timely, Tick
  PROVE  Timely'
<1>1. clock \in Nat /\ clock' = clock + 1 /\ UNCHANGED <<seats, bookings, tx>>
  BY BoundsAssumption DEF Safe, TypeOK, Tick
<1>2. \A b \in Bookings : Live(b)' => Live(b)
  BY <1>1 DEF Live, Safe, HeldExpires
<1>3. SeatsListed' /\ LiveBookingKeepsSeats'
  BY <1>1, <1>2 DEF Timely, SeatsListed, LiveBookingKeepsSeats
<1>4. ASSUME NEW w \in Workers PROVE TimelyOK(tx[w])'
  <2> DEFINE b == tx[w].booking
  <2>1. /\ tx[w] \in Transaction /\ TransactionOK(tx[w]) /\ TimelyOK(tx[w])
    BY DEF Safe, TypeOK, Timely
  <2>2. tx[w].at \in Settling => ~(bookings[b].status = "HOLDING" /\ bookings[b].expires = clock)
    BY DEF Tick
  <2>3. tx[w].at \in Settling /\ bookings[b].status = "HOLDING" => bookings[b].expires \in Nat
    BY <2>1 DEF TransactionOK, ScanOK, Safe, HeldExpires
  <2>4. tx[w].at \in {"confirmSeats", "cancelSeats"} => ~(bookings[b].expires < clock + 1)
    BY <1>1, <2>1, <2>2, <2>3 DEF TimelyOK, TransactionOK, SettleOK, Settling
  <2>5. tx[w].at = "cancelBooking" =>
          ~(bookings[b].status = "HOLDING" /\ bookings[b].expires < clock + 1)
    BY <1>1, <2>1, <2>2, <2>3 DEF TimelyOK, Lapsed, Settling
  <2> QED BY <1>1, <2>1, <2>4, <2>5 DEF TimelyOK, Lapsed
<1> QED BY <1>3, <1>4 DEF Timely
-----------------------------------------------------------------------------
(* The invariant holds.                                                    *)

LEMMA ConfirmCommitTimely ==
  ASSUME Safe, Timely, NEW w \in Workers, ConfirmCommit(w)
  PROVE  Timely'
<1>1. \A s \in Seats : SoldSeats[s].booking = seats[s].booking /\ SoldSeats[s].status = "SOLD"
  BY DEF SoldSeats, Safe, TypeOK, SeatRow
<1> QED BY <1>1, SettleTimely DEF ConfirmCommit

LEMMA CancelCommitTimely ==
  ASSUME Safe, Timely, NEW w \in Workers, CancelCommit(w)
  PROVE  Timely'
<1>1. \A s \in Seats : ReleasedSeats[s].booking = None
  BY DEF ReleasedSeats, FreeSeat
<1> QED BY <1>1, SettleTimely DEF CancelCommit

LEMMA InitTimely == Init => Timely
<1> SUFFICES ASSUME Init PROVE Timely
  OBVIOUS
<1>1. \A w \in Workers : TimelyOK(tx[w])
  BY DEF Init, Idle, TimelyOK, Settling
<1>2. SeatsListed
  BY NamesAssumption DEF Init, SeatsListed, FreeSeat
<1>3. LiveBookingKeepsSeats
  BY DEF Init, LiveBookingKeepsSeats, Live, NoBooking
<1> QED BY <1>1, <1>2, <1>3 DEF Timely

LEMMA StepTimely ==
  ASSUME Straddling = FALSE, Safe, Timely, [Next]_vars
  PROVE  Timely'
<1>1. CASE UNCHANGED vars
  BY <1>1 DEF vars, Timely, TimelyOK, SeatsListed, LiveBookingKeepsSeats, Live, Lapsed, Settling
<1>2. CASE Tick
  BY <1>2, TickTimely
<1>3. ASSUME NEW w \in Workers, Begin(w) PROVE Timely'
  BY <1>3, BeginTimely
<1>4. ASSUME NEW w \in Workers, Lock(w) PROVE Timely'
  <2>1. tx[w] \in Transaction /\ Rest(w) \in SUBSET Rows /\ TimelyOK(tx[w])
    BY DEF Safe, TypeOK, Transaction, Rest, Timely
  <2>2. CASE ConfirmLockBooking(w)
    BY <2>2, LockBookingTimely DEF ConfirmLockBooking, Confirmable
  <2>3. CASE CancelLockBooking(w)
    <3>1. ~(bookings[tx[w].booking].expires < clock)
      BY <2>1, <2>3 DEF CancelLockBooking, Cancelable, TimelyOK, Lapsed
    <3> QED BY <2>3, <3>1, LockBookingTimely DEF CancelLockBooking, Cancelable
  <2>4. ASSUME NEW n, n \in AnyRow(Rest(w)) \/ n \in LeastSeat(Rest(w)), LockNext(w, n)
        PROVE  Timely'
    BY <2>1, <2>4, NextRow, LockTimely
  <2> QED BY <1>4, <2>2, <2>3, <2>4
          DEF Lock, HoldLockSeat, LockItem, ReleaseLockBooking, ReleaseLockSeat
<1>5. ASSUME NEW w \in Workers, Proceed(w) PROVE Timely'
  <2>1. CASE HoldReject(w) \/ ConfirmReject(w) \/ CancelReject(w)
    BY <2>1, IdleTimely DEF HoldReject, ConfirmReject, CancelReject, Rollback
  <2> QED BY <1>5, <2>1, ScanTimely, HoldCommitTimely, ConfirmCommitTimely, CancelCommitTimely,
             ReleaseCommitTimely
          DEF Proceed
<1>6. ASSUME NEW w \in Workers, DeadlockVictim(w) PROVE Timely'
  BY <1>6, HoldRetryTimely, IdleTimely DEF DeadlockVictim, DeadlockFail, Rollback
<1>7. ASSUME NEW w \in Workers, Fault(w) PROVE Timely'
  BY <1>7, IdleTimely DEF Fault
<1> QED BY <1>1, <1>2, <1>3, <1>4, <1>5, <1>6, <1>7 DEF Next

THEOREM StoreTimely ==
  ASSUME Straddling = FALSE
  PROVE  Spec => [](Safe /\ Timely)
<1>1. Init => Safe /\ Timely
  BY InitSafe, InitTimely
<1>2. (Safe /\ Timely) /\ [Next]_vars => (Safe /\ Timely)'
  BY StepSafe, StepTimely
<1> QED BY <1>1, <1>2, PTL DEF Spec

\* A live booking has every seat it lists, all HOLDING or all SOLD.
THEOREM SeatsKept ==
  ASSUME Straddling = FALSE
  PROVE  Spec => []LiveBookingKeepsSeats
<1>1. Safe /\ Timely => LiveBookingKeepsSeats
  BY DEF Timely
<1> QED BY <1>1, StoreTimely, PTL

\* No seat is in two live bookings: it is never sold, or held, twice.
THEOREM NoSeatTwice ==
  ASSUME Straddling = FALSE
  PROVE  Spec => []NoDoubleBooking
<1>1. Safe /\ Timely => NoDoubleBooking
  BY DEF Timely, LiveBookingKeepsSeats, NoDoubleBooking
<1> QED BY <1>1, StoreTimely, PTL

\* A paid or cancelled booking stays what it is, whatever releasers run.
THEOREM SettledStays ==
  ASSUME Straddling = FALSE
  PROVE  Spec => SettledIsFinal
<1> DEFINE Change(b) ==
      bookings[b].status \in {"PAID", "CANCELED"} => bookings'[b].status = bookings[b].status
<1>1. ASSUME Safe, Timely, [Next]_vars, NEW b \in Bookings PROVE Change(b)
  <2>1. CASE UNCHANGED <<seats, bookings>>
    BY <2>1
  <2>2. ASSUME NEW w \in Workers, HoldCommit(w) PROVE Change(b)
    BY <1>1, <2>2, HoldWrites
  <2>3. ASSUME NEW w \in Workers, ConfirmCommit(w) \/ CancelCommit(w) PROVE Change(b)
    BY <1>1, <2>3, SettleWrites DEF ConfirmCommit, CancelCommit
  <2>4. ASSUME NEW w \in Workers, ReleaseCommit(w) PROVE Change(b)
    <3>1. b \in tx[w].found => bookings[b].status \in {"HOLDING", "EXPIRED"}
      BY <1>1, <2>4 DEF ReleaseCommit, Timely, TimelyOK
    <3> QED BY <2>4, <3>1 DEF ReleaseCommit
  <2> QED BY <1>1, <2>1, <2>2, <2>3, <2>4, RowsWritten
<1>2. (Safe /\ Timely) /\ [Next]_vars => [\A b \in Bookings : Change(b)]_vars
  BY <1>1
<1> QED BY <1>2, StoreTimely, PTL DEF Spec, SettledIsFinal

-----------------------------------------------------------------------------
(* What GetSeatsStatus shows.                                              *)

\* A sold seat is listed by the paid booking in its row.
SoldSeatPaid ==
  \A s \in Seats : seats[s].status = "SOLD" =>
    \E b \in Bookings :
      seats[s].booking = b /\ bookings[b].status = "PAID" /\ s \in bookings[b].items

LEMMA StepSoldSeatPaid ==
  ASSUME Safe, Timely, SoldSeatPaid, [Next]_vars
  PROVE  SoldSeatPaid'
<1> SUFFICES ASSUME NEW s \in Seats, seats'[s].status = "SOLD"
             PROVE  \E b \in Bookings :
                      /\ seats'[s].booking = b /\ bookings'[b].status = "PAID"
                      /\ s \in bookings'[b].items
  BY DEF SoldSeatPaid
<1>1. seats[s].status = "SOLD" =>
        \E b \in Bookings :
          seats[s].booking = b /\ bookings[b].status = "PAID" /\ s \in bookings[b].items
  BY DEF SoldSeatPaid
<1>2. CASE UNCHANGED <<seats, bookings>>
  BY <1>1, <1>2
<1>3. ASSUME NEW w \in Workers, HoldCommit(w)
      PROVE  seats'[s] = seats[s] /\ \A b \in Bookings :
               bookings[b].status = "PAID" => bookings'[b] = bookings[b]
  <2>1. s \in tx[w].req => seats'[s].status = "HOLDING"
    BY <1>3 DEF HoldCommit
  <2>2. \A b \in Bookings : bookings[b].status = "PAID" => b # tx[w].booking
    BY <1>3, HoldWrites
  <2> QED BY <1>3, <2>1, <2>2, HoldWrites
<1>4. ASSUME NEW w \in Workers, ConfirmCommit(w), seats[s].booking = tx[w].booking
      PROVE  /\ tx[w].booking \in Bookings /\ seats'[s].booking = tx[w].booking
             /\ bookings'[tx[w].booking].status = "PAID"
             /\ s \in bookings'[tx[w].booking].items
  <2>1. SoldSeats[s].booking = seats[s].booking
    BY DEF SoldSeats, Safe, TypeOK, SeatRow
  <2> QED BY <1>4, <2>1, SettleWrites DEF ConfirmCommit
<1>5. ASSUME NEW w \in Workers, CancelCommit(w) PROVE seats[s].booking # tx[w].booking
  BY <1>5, SettleWrites DEF CancelCommit, ReleasedSeats, FreeSeat
<1>6. ASSUME NEW w \in Workers, ConfirmCommit(w) \/ CancelCommit(w),
             seats[s].booking # tx[w].booking
      PROVE  seats'[s] = seats[s] /\ \A b \in Bookings :
               bookings[b].status = "PAID" => bookings'[b] = bookings[b]
  BY <1>6, SettleWrites DEF ConfirmCommit, CancelCommit
<1>7. ASSUME NEW w \in Workers, ReleaseCommit(w)
      PROVE  seats'[s] = seats[s] /\ \A b \in Bookings :
               bookings[b].status = "PAID" => bookings'[b] = bookings[b]
  <2>1. seats'[s] = seats[s]
    BY <1>7, ReleaseWrites DEF FreeSeat
  <2>2. \A b \in Bookings : bookings[b].status = "PAID" => b \notin tx[w].found
    BY <1>7, ReleaseWrites DEF Live
  <2> QED BY <1>7, <2>1, <2>2, ReleaseWrites
<1> QED BY <1>1, <1>2, <1>3, <1>4, <1>5, <1>6, <1>7, RowsWritten

LEMMA PaidSeatsShown == Safe /\ Timely /\ SoldSeatPaid => ShownTruthfully
<1> SUFFICES ASSUME Safe, Timely, SoldSeatPaid, NEW s \in Seats, NEW now \in 0 .. clock
             PROVE  LET buyers == {b \in Bookings : s \in bookings[b].items /\ Live(b)} IN
                    /\ Shown(s, now) = "SOLD" <=> \E b \in buyers : bookings[b].status = "PAID"
                    /\ Shown(s, now) = "AVAILABLE" => buyers = {}
                    /\ Shown(s, now) = "HOLDING" /\ now = clock => buyers # {}
  BY DEF ShownTruthfully
<1> DEFINE buyers == {b \in Bookings : s \in bookings[b].items /\ Live(b)}
<1>1. seats[s].status \in {"AVAILABLE", "HOLDING", "SOLD"} /\ now \in Nat /\ clock \in Nat /\ now <= clock
  BY BoundsAssumption DEF Safe, TypeOK, SeatRow
<1>2. ASSUME seats[s].status = "HOLDING"
      PROVE  \E b \in Bookings :
               /\ seats[s].booking = b /\ bookings[b].status = "HOLDING"
               /\ s \in bookings[b].items
               /\ bookings[b].expires = seats[s].expires /\ seats[s].expires \in Nat
  BY <1>2 DEF Safe, HeldSeatBacked, HeldExpires
<1>3. \A b \in buyers :
        /\ seats[s].booking = b
        /\ seats[s].status = IF bookings[b].status = "PAID" THEN "SOLD" ELSE "HOLDING"
  BY DEF Timely, LiveBookingKeepsSeats
<1>4. Shown(s, now) = "SOLD" <=> \E b \in buyers : bookings[b].status = "PAID"
  <2>1. Shown(s, now) = "SOLD" <=> seats[s].status = "SOLD"
    BY DEF Shown
  <2> QED BY <1>3, <2>1 DEF SoldSeatPaid, Live
<1>5. Shown(s, now) = "AVAILABLE" => buyers = {}
  <2> SUFFICES ASSUME Shown(s, now) = "AVAILABLE", NEW b \in buyers PROVE FALSE
    OBVIOUS
  <2>1. seats[s].status = "HOLDING" /\ seats[s].expires < now
    BY <1>3 DEF Shown
  <2>2. bookings[b].status = "HOLDING" /\ bookings[b].expires = seats[s].expires
    BY <1>2, <1>3, <2>1
  <2>3. bookings[b].expires < clock
    BY <1>1, <1>2, <2>1, <2>2
  <2> QED BY <2>2, <2>3 DEF Live
<1>6. Shown(s, now) = "HOLDING" /\ now = clock => buyers # {}
  BY <1>1, <1>2 DEF Shown, Live
<1> QED BY <1>4, <1>5, <1>6

\* The row of every sold seat names the paid booking that lists it.
THEOREM StoreSoldPaid ==
  ASSUME Straddling = FALSE
  PROVE  Spec => []SoldSeatPaid
<1>1. Init => SoldSeatPaid
  BY DEF Init, SoldSeatPaid, FreeSeat
<1>2. (Safe /\ Timely) /\ SoldSeatPaid /\ [Next]_vars => SoldSeatPaid'
  BY StepSoldSeatPaid
<1> QED BY <1>1, <1>2, StoreTimely, PTL DEF Spec

\* What GetSeatsStatus shows is true, however old its time.Now() is.
THEOREM ShowsTheTruth ==
  ASSUME Straddling = FALSE
  PROVE  Spec => []ShownTruthfully
BY StoreSoldPaid, PaidSeatsShown, StoreTimely, PTL

\* The row of a sold seat is never written again.
SoldForEver == [][\A s \in Seats : seats[s].status = "SOLD" => seats'[s] = seats[s]]_vars

\* No hold, second confirm, cancel or releaser touches a seat that is sold,
\* whatever it had read before the sale.
THEOREM SalesStand ==
  ASSUME Straddling = FALSE
  PROVE  Spec => SoldForEver
<1>1. ASSUME Safe, Timely, SoldSeatPaid, [Next]_vars, NEW s \in Seats, seats[s].status = "SOLD"
      PROVE  seats'[s] = seats[s]
  <2>1. PICK b \in Bookings : seats[s].booking = b /\ bookings[b].status = "PAID"
    BY <1>1 DEF SoldSeatPaid
  <2>2. ASSUME NEW w \in Workers, HoldCommit(w) PROVE seats'[s] = seats[s]
    <3>1. s \notin tx[w].req
      BY <1>1, <2>2, GrantedLapsed
    <3> QED BY <1>1, <2>2, <3>1, HoldWrites
  <2>3. ASSUME NEW w \in Workers, ConfirmCommit(w) \/ CancelCommit(w) PROVE seats'[s] = seats[s]
    <3>1. seats[s].booking # tx[w].booking
      BY <1>1, <2>1, <2>3, SettleWrites DEF ConfirmCommit, CancelCommit
    <3> QED BY <1>1, <2>3, <3>1, SettleWrites DEF ConfirmCommit, CancelCommit
  <2>4. ASSUME NEW w \in Workers, ReleaseCommit(w) PROVE seats'[s] = seats[s]
    BY <1>1, <2>4, ReleaseWrites DEF HeldFor
  <2> QED BY <1>1, <2>2, <2>3, <2>4, RowsWritten
<1>2. (Safe /\ Timely) /\ SoldSeatPaid /\ [Next]_vars =>
        [\A s \in Seats : seats[s].status = "SOLD" => seats'[s] = seats[s]]_vars
  BY <1>1
<1> QED BY <1>2, StoreTimely, StoreSoldPaid, PTL DEF Spec, SoldForEver

\* What a straddling cancel breaks: the seats of a paid booking are sold.
THEOREM PaidMeansSold ==
  ASSUME Straddling = FALSE
  PROVE  Spec => []PaidSeatsAreSold
<1>1. Safe /\ Timely => PaidSeatsAreSold
  BY DEF Timely, LiveBookingKeepsSeats, Live, PaidSeatsAreSold
<1> QED BY <1>1, StoreTimely, PTL

\* What a straddling confirm breaks: no seat is paid for twice.
THEOREM PaidOnce ==
  ASSUME Straddling = FALSE
  PROVE  Spec => []SeatSoldOnce
<1>1. Safe /\ Timely => SeatSoldOnce
  BY DEF Timely, LiveBookingKeepsSeats, Live, SeatSoldOnce
<1> QED BY <1>1, StoreTimely, PTL

-----------------------------------------------------------------------------
(* The store implements the sale.                                          *)

owner == [s \in Seats |-> Owner(s)]
status == [b \in Bookings |-> SaleStatus(b)]

\* The owner of a seat is the live booking in its row.
LEMMA OwnerIs ==
  ASSUME NEW s \in Seats
  PROVE  /\ \A b \in Bookings : Owner(s) = b <=> seats[s].booking = b /\ Live(b)
         /\ Owner(s) = None <=> \A b \in Bookings : seats[s].booking = b => ~Live(b)
  BY NamesAssumption DEF Owner

LEMMA HoldSells ==
  ASSUME Safe, Timely, NEW w \in Workers, HoldCommit(w)
  PROVE  Sale!Next \/ UNCHANGED <<owner, status>>
<1> DEFINE e == tx[w].now + HoldTime
           req == tx[w].req
<1> PICK b : b = tx[w].booking
  OBVIOUS
<1>1. /\ b \in Bookings /\ bookings[b].status = "NONE" /\ req \in SUBSET Seats
      /\ bookings'[b] = [status |-> "HOLDING", items |-> req, expires |-> e]
      /\ \A c \in Bookings \ {b} : bookings'[c] = bookings[c]
      /\ \A s \in req : seats'[s] = [status |-> "HOLDING", booking |-> b, expires |-> e]
      /\ \A s \in Seats \ req : seats'[s] = seats[s]
  BY HoldWrites
<1>2. \A s \in req : \/ seats[s].status = "AVAILABLE"
                     \/ seats[s].status = "HOLDING" /\ seats[s].expires < clock
  BY GrantedLapsed
<1>3. clock' = clock
  BY DEF HoldCommit
<1> HIDE DEF e, req
<1>4. \A c \in Bookings \ {b} : (Live(c)' <=> Live(c)) /\ SaleStatus(c)' = SaleStatus(c)
  BY <1>1, <1>3 DEF Live, SaleStatus
<1>5. \A s \in req : Owner(s) = None
  <2> SUFFICES ASSUME NEW s \in req, NEW c \in Bookings, seats[s].booking = c, Live(c)
               PROVE  FALSE
    BY <1>1, OwnerIs
  <2>1. s \in bookings[c].items /\ s \in Seats
    BY <1>1 DEF Timely, SeatsListed
  <2>2. seats[s].status = IF bookings[c].status = "PAID" THEN "SOLD" ELSE "HOLDING"
    BY <2>1 DEF Timely, LiveBookingKeepsSeats
  <2> QED BY <1>2, <2>1, <2>2 DEF Live, Safe, HeldSeatBacked
<1>6. \A s \in Seats \ req : Owner(s)' = Owner(s)
  <2> SUFFICES ASSUME NEW s \in Seats \ req PROVE Owner(s)' = Owner(s)
    OBVIOUS
  <2>1. seats'[s] = seats[s] /\ seats[s].booking # b
    BY <1>1 DEF Timely, SeatsListed
  <2> QED BY <1>4, <2>1 DEF Owner
<1>7. SaleStatus(b) = "none"
  BY <1>1 DEF SaleStatus
<1>8. CASE Live(b)'
  <2>1. \A s \in req : Owner(s)' = b
    BY <1>1, <1>8 DEF Owner
  <2>2. SaleStatus(b)' = "held"
    BY <1>1, <1>8 DEF SaleStatus
  <2>3. req # {}
    BY DEF req, HoldCommit, Safe, TransactionOK, HoldOK, Holds
  <2>4. owner' = [s \in Seats |-> IF s \in req THEN b ELSE owner[s]]
    BY <1>6, <2>1 DEF owner
  <2>5. status' = [status EXCEPT ![b] = "held"]
    BY <1>1, <1>4, <2>2 DEF status
  <2> QED BY <1>1, <1>5, <1>7, <2>3, <2>4, <2>5 DEF Sale!Next, Sale!Hold, owner, status
<1>9. CASE ~Live(b)'
  <2>1. \A s \in req : Owner(s)' = None
    BY <1>1, <1>9 DEF Owner
  <2>2. SaleStatus(b)' = "over"
    BY <1>1, <1>9 DEF SaleStatus
  <2>3. owner' = owner
    BY <1>5, <1>6, <2>1 DEF owner
  <2>4. status' = [status EXCEPT ![b] = "over"]
    BY <1>1, <1>4, <2>2 DEF status
  <2> QED BY <1>1, <1>7, <2>3, <2>4 DEF Sale!Next, Sale!HoldTooLate, owner, status
<1> QED BY <1>8, <1>9
LEMMA ConfirmSells ==
  ASSUME Safe, Timely, NEW w \in Workers, ConfirmCommit(w)
  PROVE  Sale!Next
<1> PICK b : b = tx[w].booking
  OBVIOUS
<1>1. /\ b \in Bookings /\ bookings[b].status = "HOLDING"
      /\ ~(bookings[b].expires < clock)
      /\ bookings'[b].status = "PAID"
      /\ \A c \in Bookings \ {b} : bookings'[c] = bookings[c]
      /\ \A s \in Seats : seats'[s] = IF seats[s].booking = b THEN SoldSeats[s] ELSE seats[s]
  BY SettleWrites DEF ConfirmCommit
<1>2. clock' = clock
  BY DEF ConfirmCommit, Settle
<1>3. \A s \in Seats : seats'[s].booking = seats[s].booking
  BY <1>1 DEF SoldSeats, Safe, TypeOK, SeatRow
<1>4. \A c \in Bookings : Live(c)' <=> Live(c)
  BY <1>1, <1>2 DEF Live
<1>5. \A c \in Bookings \ {b} : SaleStatus(c)' = SaleStatus(c)
  BY <1>1, <1>4 DEF SaleStatus
<1>6. SaleStatus(b) = "held" /\ SaleStatus(b)' = "paid"
  BY <1>1 DEF SaleStatus, Live
<1>7. owner' = owner
  BY <1>3, <1>4 DEF owner, Owner
<1>8. status' = [status EXCEPT ![b] = "paid"]
  BY <1>1, <1>5, <1>6 DEF status
<1> QED BY <1>1, <1>6, <1>7, <1>8 DEF Sale!Next, Sale!Pay, owner, status

LEMMA CancelEnds ==
  ASSUME Safe, Timely, NEW w \in Workers, CancelCommit(w)
  PROVE  Sale!Next
<1> PICK b : b = tx[w].booking
  OBVIOUS
<1>1. /\ b \in Bookings /\ bookings[b].status = "HOLDING"
      /\ ~(bookings[b].expires < clock)
      /\ bookings'[b].status = "CANCELED"
      /\ \A c \in Bookings \ {b} : bookings'[c] = bookings[c]
      /\ \A s \in Seats : seats'[s] = IF seats[s].booking = b THEN ReleasedSeats[s] ELSE seats[s]
  BY SettleWrites DEF CancelCommit
<1>2. clock' = clock
  BY DEF CancelCommit, Settle
<1>3. \A s \in Seats : seats'[s].booking = IF seats[s].booking = b THEN None ELSE seats[s].booking
  BY <1>1 DEF ReleasedSeats, FreeSeat
<1>4. \A c \in Bookings \ {b} : (Live(c)' <=> Live(c)) /\ SaleStatus(c)' = SaleStatus(c)
  BY <1>1, <1>2 DEF Live, SaleStatus
<1>5. Live(b) /\ SaleStatus(b) = "held" /\ ~Live(b)' /\ SaleStatus(b)' = "over"
  BY <1>1 DEF SaleStatus, Live
<1>6. \A s \in Seats : Owner(s)' = IF Owner(s) \in {b} THEN None ELSE Owner(s)
  <2> SUFFICES ASSUME NEW s \in Seats
               PROVE  Owner(s)' = IF Owner(s) \in {b} THEN None ELSE Owner(s)
    OBVIOUS
  <2>1. CASE seats[s].booking = b
    BY <1>1, <1>3, <1>5, <2>1, NamesAssumption DEF Owner
  <2>2. CASE seats[s].booking # b
    BY <1>1, <1>3, <1>4, <1>5, <2>2, NamesAssumption DEF Owner
  <2> QED BY <2>1, <2>2
<1>7. owner' = [s \in Seats |-> IF owner[s] \in {b} THEN None ELSE owner[s]]
  BY <1>6 DEF owner
<1>8. status' = [c \in Bookings |-> IF c \in {b} THEN "over" ELSE status[c]]
  BY <1>4, <1>5 DEF status
<1>9. status[b] = "held"
  BY <1>1, <1>5 DEF status
<1>10. Sale!End({b})
  BY <1>7, <1>8, <1>9 DEF Sale!End, owner, status
<1> QED BY <1>1, <1>10 DEF Sale!Next

LEMMA ReleaseStutters ==
  ASSUME Safe, Timely, NEW w \in Workers, ReleaseCommit(w)
  PROVE  UNCHANGED <<owner, status>>
<1> DEFINE B == tx[w].found
<1>1. /\ B \in SUBSET Bookings /\ \A b \in B : ~Live(b)
      /\ \A b \in Bookings : bookings'[b] =
           IF b \in B THEN [bookings[b] EXCEPT !.status = "EXPIRED"] ELSE bookings[b]
      /\ \A s \in Seats : seats'[s] = IF HeldFor(seats[s], B) THEN FreeSeat ELSE seats[s]
  BY ReleaseWrites
<1>2. clock' = clock /\ \A b \in B : bookings[b].status # "NONE"
  BY DEF ReleaseCommit, Safe, TransactionOK, ReleaseOK
<1> HIDE DEF B
<1>3. ASSUME NEW b \in Bookings
      PROVE  (Live(b)' <=> Live(b)) /\ SaleStatus(b)' = SaleStatus(b)
  <2>1. CASE b \in B
    <3>1. bookings'[b].status = "EXPIRED" /\ ~Live(b) /\ bookings[b].status # "NONE"
      BY <1>1, <1>2, <2>1 DEF Safe, TypeOK, BookingRow
    <3> QED BY <3>1 DEF Live, SaleStatus
  <2>2. CASE b \notin B
    BY <1>1, <1>2, <2>2 DEF Live, SaleStatus
  <2> QED BY <2>1, <2>2
<1>4. ASSUME NEW s \in Seats PROVE Owner(s)' = Owner(s)
  <2>1. CASE seats'[s] = seats[s]
    BY <1>3, <2>1 DEF Owner
  <2>2. CASE seats'[s] # seats[s]
    <3>1. seats[s].booking \in B /\ seats'[s].booking = None
      BY <1>1, <2>2 DEF HeldFor, FreeSeat
    <3> QED BY <1>1, <3>1, NamesAssumption DEF Owner
  <2> QED BY <2>1, <2>2
<1> QED BY <1>3, <1>4 DEF owner, status

\* A tick ends the holds that expire with it.
LEMMA TickEnds ==
  ASSUME Safe, Timely, Tick
  PROVE  Sale!Next \/ UNCHANGED <<owner, status>>
<1> DEFINE L(b) == bookings[b].status = "HOLDING" /\ bookings[b].expires < clock + 1
           B == {b \in Bookings : Live(b) /\ L(b)}
<1>1. clock' = clock + 1 /\ clock \in Nat /\ UNCHANGED <<seats, bookings>>
  BY BoundsAssumption DEF Tick, Safe, TypeOK
<1>2. ASSUME NEW b \in Bookings
      PROVE  /\ Live(b)' <=> Live(b) /\ b \notin B
             /\ SaleStatus(b)' = IF b \in B THEN "over" ELSE SaleStatus(b)
             /\ b \in B => SaleStatus(b) = "held"
  <2>1. bookings[b].status = "HOLDING" => bookings[b].expires \in Nat
    BY DEF Safe, HeldExpires
  <2>2. Live(b)' <=> Live(b) /\ b \notin B
    BY <1>1, <2>1 DEF Live
  <2>3. b \in B => bookings[b].status = "HOLDING" /\ Live(b)
    OBVIOUS
  <2> HIDE DEF B
  <2> QED BY <1>1, <2>2, <2>3 DEF SaleStatus
<1> HIDE DEF B
<1>3. ASSUME NEW s \in Seats PROVE Owner(s)' = IF Owner(s) \in B THEN None ELSE Owner(s)
  <2>1. seats'[s].booking = seats[s].booking
    BY <1>1
  <2>2. B \in SUBSET Bookings
    BY DEF B
  <2>3. CASE seats[s].booking \in Bookings
    BY <1>2, <2>1, <2>3, NamesAssumption DEF Owner
  <2>4. CASE seats[s].booking \notin Bookings
    BY <2>1, <2>2, <2>4, NamesAssumption DEF Owner
  <2> QED BY <2>3, <2>4
<1>4. owner' = [s \in Seats |-> IF owner[s] \in B THEN None ELSE owner[s]]
  BY <1>3 DEF owner
<1>5. status' = [b \in Bookings |-> IF b \in B THEN "over" ELSE status[b]]
  BY <1>2 DEF status
<1>6. CASE B = {}
  BY <1>4, <1>5, <1>6 DEF owner, status
<1>7. CASE B # {}
  <2>1. B \in SUBSET Bookings /\ \A b \in B : status[b] = "held"
    BY <1>2 DEF B, status
  <2>2. Sale!End(B)
    BY <1>4, <1>5, <1>7, <2>1 DEF Sale!End, owner, status
  <2> QED BY <2>1, <2>2 DEF Sale!Next
<1> QED BY <1>6, <1>7

LEMMA ClockTicks ==
  ASSUME [Next]_vars
  PROVE  Tick \/ clock' = clock
<1>1. CASE UNCHANGED vars
  BY <1>1 DEF vars
<1>2. ASSUME NEW w \in Workers, Begin(w) PROVE clock' = clock
  BY <1>2 DEF Begin, BeginHold, BeginConfirm, BeginCancel, BeginOn, BeginRelease
<1>3. ASSUME NEW w \in Workers, Lock(w) PROVE clock' = clock
  BY <1>3 DEF Lock, HoldLockSeat, ConfirmLockBooking, CancelLockBooking, LockItem,
              ReleaseLockBooking, ReleaseLockSeat, LockNext, LockBooking
<1>4. ASSUME NEW w \in Workers, DeadlockVictim(w) \/ Fault(w) PROVE clock' = clock
  BY <1>4 DEF DeadlockVictim, HoldRetry, DeadlockFail, Rollback, Fault
<1>5. ASSUME NEW w \in Workers, Proceed(w) PROVE clock' = clock
  BY <1>5 DEF Proceed, HoldSelect, HoldReject, HoldCommit, ConfirmReject, ConfirmCommit,
              CancelReject, CancelCommit, Settle, ReleaseSelect, ReleaseSelectSeats,
              ReleaseCommit, Rollback
<1> QED BY <1>1, <1>2, <1>3, <1>4, <1>5 DEF Next

\* The transactions, with all their steps and waits, look like sales that
\* happen at one instant each.
THEOREM StoreImplementsSale ==
  ASSUME Straddling = FALSE
  PROVE  Spec => ImplementsSale
<1>1. Init => Sale!Init
  <2> SUFFICES ASSUME Init PROVE Sale!Init
    OBVIOUS
  <2>1. \A s \in Seats : Owner(s) = None
    BY NamesAssumption DEF Init, FreeSeat, Owner
  <2>2. \A b \in Bookings : SaleStatus(b) = "none"
    BY DEF Init, NoBooking, SaleStatus
  <2> QED BY <2>1, <2>2 DEF Sale!Init
<1>2. (Safe /\ Timely) /\ [Next]_vars => [Sale!Next]_(Sale!vars)
  <2> SUFFICES ASSUME Safe, Timely, [Next]_vars
               PROVE  Sale!Next \/ UNCHANGED <<owner, status>>
    BY DEF Sale!vars, owner, status
  <2>1. CASE Tick
    BY <2>1, TickEnds
  <2>2. CASE UNCHANGED <<seats, bookings>> /\ clock' = clock
    BY <2>2 DEF owner, status, Owner, SaleStatus, Live
  <2> QED BY <2>1, <2>2, ClockTicks, RowsWritten, HoldSells, ConfirmSells, CancelEnds,
             ReleaseStutters
<1> QED BY <1>1, <1>2, StoreTimely, PTL DEF Spec, ImplementsSale, Sale!Spec
=============================================================================
