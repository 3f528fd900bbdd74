---------------------------- MODULE WaitingRoom ----------------------------
(***************************************************************************)
(* What the virtual queue of a showtime promises: a room with a limited     *)
(* number of slots and a line in front of it.  Every change is made at one  *)
(* instant; there are no locks, no requests and no clocks.  A slot or a     *)
(* place in line outlives its user's session until somebody notices.       *)
(***************************************************************************)
EXTENDS Naturals, FiniteSets

CONSTANTS Users, Limit

VARIABLES
  room,    \* the users who have a slot
  line,    \* the users who have a place in line
  ahead,   \* <<u, v>>: u's place is in front of v's
  inside,  \* the users who may book: their session in the room is live
  waiting  \* the users whose session in line is live

vars == <<room, line, ahead, inside, waiting>>

HasSlot == Cardinality(room) < Limit

\* Users leave the line, the others keep their order.
Unline(S) ==
  /\ line' = line \ S
  /\ ahead' = {p \in ahead : p[1] \notin S /\ p[2] \notin S}

-----------------------------------------------------------------------------

\* Sessions run out.
Lapse ==
  /\ inside' \in SUBSET inside
  /\ waiting' \in SUBSET waiting
  /\ UNCHANGED <<room, line, ahead>>

\* Who has no session any more loses his place, ...
ForgetWaiters(S) ==
  /\ S \cap waiting = {}
  /\ Unline(S)
  /\ UNCHANGED <<room, inside, waiting>>

\* ... or his slot.
ForgetMembers(S) ==
  /\ S \cap inside = {}
  /\ room' = room \ S
  /\ UNCHANGED <<line, ahead, inside, waiting>>

\* A user comes, finds a slot and nobody who waits for it.
Enter(u) ==
  /\ HasSlot
  /\ line \cap waiting = {}
  /\ room' = room \cup {u}
  /\ inside' = inside \cup {u}
  /\ waiting' = waiting \ {u}
  /\ Unline({u})

\* A user comes and finds the room full: he gets the last place in line, or
\* keeps the one he has.
Wait(u) ==
  /\ u \notin inside
  /\ ~HasSlot
  /\ line' = line \cup {u}
  /\ ahead' = ahead \cup (IF u \in line THEN {} ELSE line \X {u})
  /\ waiting' = waiting \cup {u}
  /\ UNCHANGED <<room, inside>>

\* The first in line get the free slots, as many as there are.
Admit(S) ==
  LET admitted == S \cap waiting IN
  /\ S \subseteq line
  /\ \A p \in ahead : p[2] \in S => p[1] \in S
  /\ room' = room \cup admitted
  /\ Cardinality(room') <= Limit
  /\ line = S \/ Cardinality(room') = Limit
  /\ inside' = inside \cup admitted
  /\ waiting' = waiting \ admitted
  /\ Unline(S)

\* A user leaves.
Leave(u) ==
  /\ room' = room \ {u}
  /\ inside' = inside \ {u}
  /\ waiting' = waiting \ {u}
  /\ Unline({u})

-----------------------------------------------------------------------------

Init == room = {} /\ line = {} /\ ahead = {} /\ inside = {} /\ waiting = {}

Next ==
  \/ Lapse
  \/ \E S \in SUBSET Users : ForgetWaiters(S) \/ ForgetMembers(S) \/ Admit(S)
  \/ \E u \in Users : Enter(u) \/ Wait(u) \/ Leave(u)

Spec == Init /\ [][Next]_vars

=============================================================================
