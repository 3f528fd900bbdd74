------------------------------ MODULE SeatSale ------------------------------
(***************************************************************************)
(* What the booking service promises about the seats of a showtime: every  *)
(* operation takes effect at one instant, a seat has at most one owner,    *)
(* and a booking gets all the seats it asks for or none.                   *)
(***************************************************************************)
EXTENDS Naturals

CONSTANTS Seats, Bookings, NoOne

VARIABLES
  owner,   \* the booking a seat is held or sold for, or NoOne
  status   \* where a booking is in its life

vars == <<owner, status>>

TypeOK ==
  /\ owner \in [Seats -> Bookings \cup {NoOne}]
  /\ status \in [Bookings -> {"none", "held", "paid", "over"}]

Init ==
  /\ owner = [s \in Seats |-> NoOne]
  /\ status = [b \in Bookings |-> "none"]

\* All the seats are free: the booking owns them from now on.
Hold(b, S) ==
  /\ S # {}
  /\ status[b] = "none"
  /\ \A s \in S : owner[s] = NoOne
  /\ owner' = [s \in Seats |-> IF s \in S THEN b ELSE owner[s]]
  /\ status' = [status EXCEPT ![b] = "held"]

\* The hold was so slow that its time was over before it began.
HoldTooLate(b) ==
  /\ status[b] = "none"
  /\ status' = [status EXCEPT ![b] = "over"]
  /\ UNCHANGED owner

\* The booking keeps all its seats, for ever.
Pay(b) ==
  /\ status[b] = "held"
  /\ status' = [status EXCEPT ![b] = "paid"]
  /\ UNCHANGED owner

\* Held bookings are cancelled, or run out: their seats are free.
End(B) ==
  /\ B # {}
  /\ \A b \in B : status[b] = "held"
  /\ owner' = [s \in Seats |-> IF owner[s] \in B THEN NoOne ELSE owner[s]]
  /\ status' = [b \in Bookings |-> IF b \in B THEN "over" ELSE status[b]]

Next ==
  \/ \E b \in Bookings : Pay(b) \/ HoldTooLate(b) \/ \E S \in SUBSET Seats : Hold(b, S)
  \/ \E B \in SUBSET Bookings : End(B)

Spec == Init /\ [][Next]_vars
=============================================================================
