--------------------------- MODULE SeatFeedProofs ---------------------------
(***************************************************************************)
(* Theorems about SeatFeed, for any number of showtimes, handlers and       *)
(* clients.                                                                *)
(***************************************************************************)
EXTENDS SeatFeed, SequenceTheorems, TLAPS

-----------------------------------------------------------------------------
(* The invariant.                                                          *)

\* What at says about the rest of a worker's record.
WorkOK(t) ==
  /\ t.at \in {"idle", "list"} => t.left = {}
  /\ t.at \in {"lock", "send"} => t.show \in Showtimes
  /\ t.at = "send" => t.to \subseteq subscribers[t.show]

\* The hub knows the channels of the handlers that have not returned.
HubOK ==
  \A c \in Clients :
    /\ client[c].at # "off" => client[c].show \in Showtimes
    /\ \A s \in Showtimes :
         c \in subscribers[s] <=> client[c].at # "off" /\ client[c].show = s

Fed ==
  /\ TypeOK
  /\ \A w \in Workers : WorkOK(tx[w])
  /\ HubOK
  /\ NoNewsLost

-----------------------------------------------------------------------------
(* Workers.                                                                *)

LEMMA GotoWorkers ==
  ASSUME TypeOK, NEW w \in Workers, NEW t, GotoWork(w, t)
  PROVE  tx'[w] = t /\ \A v \in Workers \ {w} : tx'[v] = tx[v]
BY DEF TypeOK, GotoWork

LEMMA IdleTyped == Idle \in Work
BY DEF Idle, Work

\* A worker's step that leaves the hub and the clients alone.
LEMMA WorkerStep ==
  ASSUME Fed, NEW w \in Workers, NEW t \in Work, GotoWork(w, t), WorkOK(t),
         UNCHANGED <<subscribers, client, inbox, newest>>,
         version' \in [Showtimes -> 0 .. MaxVersion], (expired \subseteq Showtimes)',
         missed \subseteq missed', missed' \subseteq Clients, faults' \in 0 .. MaxFaults,
         \A c \in Clients \ missed', s \in Showtimes :
           (Covered(c, s) /\ c \in subscribers[s]) => Covered(c, s)'
  PROVE  Fed'
<1>1. tx'[w] = t /\ \A v \in Workers \ {w} : tx'[v] = tx[v]
  BY GotoWorkers DEF Fed
<1>2. TypeOK'
  <2>1. tx' \in [Workers -> Work]
    BY DEF Fed, TypeOK, GotoWork
  <2> QED BY <2>1 DEF Fed, TypeOK
<1>3. \A v \in Workers : WorkOK(tx[v])'
  BY <1>1 DEF Fed, WorkOK
<1>4. HubOK'
  BY DEF Fed, HubOK
<1>5. NoNewsLost'
  <2>1. SUFFICES ASSUME NEW c \in Clients, Streaming(c)', c \notin missed'
                 PROVE  Covered(c, client[c].show)'
    BY DEF NoNewsLost
  <2>2. PICK s : s = client[c].show
    OBVIOUS
  <2>3. Streaming(c) /\ c \notin missed /\ client'[c].show = s
    BY <2>1, <2>2 DEF Streaming
  <2>4. Covered(c, s) /\ s \in Showtimes /\ c \in subscribers[s]
    BY <2>2, <2>3 DEF Fed, NoNewsLost, HubOK, Streaming
  <2>5. Covered(c, s)'
    BY <2>1, <2>4
  <2> QED BY <2>3, <2>5
<1> QED BY <1>2, <1>3, <1>4, <1>5 DEF Fed

\* The client's part of what covers a change.
Reached(c, s) ==
  \/ newest[c] >= version[s]
  \/ client[c].at = "write" /\ client[c].payload >= version[s]
  \/ \E i \in DOMAIN inbox[c] : inbox[c][i] >= version[s]

LEMMA CoveredParts ==
  ASSUME NEW c, NEW s
  PROVE  /\ Covered(c, s) <=> Reached(c, s) \/ s \in expired \/ \E w \in Workers : Pending(w, c, s)
         /\ Covered(c, s)' <=> Reached(c, s)' \/ s \in expired' \/ \E w \in Workers : Pending(w, c, s)'
BY DEF Covered, Reached

LEMMA OthersPending ==
  ASSUME TypeOK, NEW w \in Workers, NEW t, GotoWork(w, t), NEW v \in Workers \ {w},
         NEW c, NEW s, version'[s] = version[s], Pending(v, c, s)
  PROVE  Pending(v, c, s)'
<1>1. tx'[v] = tx[v]
  BY GotoWorkers
<1> QED BY <1>1 DEF Pending

\* Without a change of the seats a worker need only hand on what it owes.
LEMMA QuietWorker ==
  ASSUME Fed, NEW w \in Workers, NEW t, GotoWork(w, t), NEW c \in Clients, NEW s \in Showtimes,
         UNCHANGED <<seats, client, inbox, newest>>, Covered(c, s), c \in subscribers[s],
         Pending(w, c, s) => Pending(w, c, s)'
  PROVE  Covered(c, s)'
<1>1. Reached(c, s) => Reached(c, s)'
  BY DEF Reached, seats
<1>2. \A v \in Workers : Pending(v, c, s) => Pending(v, c, s)'
  BY OthersPending DEF Fed, seats
<1> QED BY <1>1, <1>2, CoveredParts DEF seats

-----------------------------------------------------------------------------
(* Every step keeps it.                                                    *)

LEMMA ChangeKeeps ==
  ASSUME Fed, NEW w \in Workers, NEW x \in Showtimes, Change(w, x)
  PROVE  Fed'
<1>1. PICK t : t = [Idle EXCEPT !.at = "next", !.left = {x}]
  OBVIOUS
<1>2. t \in Work /\ t.at = "next" /\ t.left = {x} /\ WorkOK(t)
  BY <1>1 DEF Idle, Work, WorkOK
<1>3. /\ GotoWork(w, t) /\ UNCHANGED <<hub, client, newest, missed, faults>>
      /\ version' = [version EXCEPT ![x] = @ + 1] /\ version[x] < MaxVersion
      /\ expired' \in {expired, expired \ {x}} /\ tx[w].at = "idle"
  BY <1>1 DEF Change
<1>4. version' \in [Showtimes -> 0 .. MaxVersion] /\ (expired \subseteq Showtimes)'
  BY <1>3, BoundsAssumption DEF Fed, TypeOK
<1>5. tx'[w] = t
  BY <1>3, GotoWorkers DEF Fed
<1>6. ASSUME NEW c \in Clients, NEW s \in Showtimes, Covered(c, s)
      PROVE  Covered(c, s)'
  <2>1. CASE s = x
    BY <1>2, <1>5, <2>1, CoveredParts DEF Pending
  <2>2. CASE s # x
    <3>1. version'[s] = version[s] /\ (s \in expired' <=> s \in expired)
      BY <1>3, <2>2 DEF Fed, TypeOK
    <3>2. Reached(c, s) => Reached(c, s)'
      BY <1>3, <3>1 DEF Reached, hub
    <3>3. \A v \in Workers \ {w} : Pending(v, c, s) => Pending(v, c, s)'
      BY <1>3, <3>1, OthersPending DEF Fed
    <3>4. ~Pending(w, c, s)
      BY <1>3 DEF Pending, Fed, WorkOK
    <3> QED BY <1>6, <3>1, <3>2, <3>3, <3>4, CoveredParts
  <2> QED BY <2>1, <2>2
<1> QED BY <1>2, <1>3, <1>4, <1>6, WorkerStep DEF hub, Fed, TypeOK

\* Whom a change that was not confirmed concerns is among the missed.
LEMMA UnconfirmedKeeps ==
  ASSUME Fed, NEW w \in Workers,
         (\E x \in Showtimes : ChangeUnconfirmed(w, x)) \/ ReleaseUnconfirmed(w)
  PROVE  Fed'
<1>1. PICK t \in Work : t = tx[w] /\ WorkOK(t)
  BY DEF Fed, TypeOK
<1>2. GotoWork(w, t) /\ tx' = tx
  BY <1>1 DEF Fed, TypeOK, GotoWork, ChangeUnconfirmed, ReleaseUnconfirmed
<1>3. UNCHANGED <<subscribers, client, inbox, newest>> /\ faults' \in 0 .. MaxFaults
  BY BoundsAssumption DEF ChangeUnconfirmed, ReleaseUnconfirmed, hub, Fed, TypeOK
\* Nothing is taken from a client that has not missed it.
<1>4. ASSUME NEW c \in Clients, NEW s \in Showtimes, Covered(c, s), version'[s] = version[s],
             s \in expired => s \in expired'
      PROVE  Covered(c, s)'
  <2>1. Reached(c, s) => Reached(c, s)'
    BY <1>3, <1>4 DEF Reached
  <2>2. \A v \in Workers : Pending(v, c, s) => Pending(v, c, s)'
    BY <1>2, <1>4 DEF Pending
  <2> QED BY <1>4, <2>1, <2>2, CoveredParts
<1>5. ASSUME NEW x \in Showtimes, ChangeUnconfirmed(w, x) PROVE Fed'
  <2>1. /\ version' = [version EXCEPT ![x] = @ + 1] /\ version[x] < MaxVersion
        /\ expired' \in {expired, expired \ {x}} /\ missed' = missed \cup subscribers[x]
    BY <1>5 DEF ChangeUnconfirmed
  <2>2. /\ version' \in [Showtimes -> 0 .. MaxVersion] /\ (expired \subseteq Showtimes)'
        /\ missed \subseteq missed' /\ missed' \subseteq Clients
    BY <2>1, BoundsAssumption DEF Fed, TypeOK
  <2>3. ASSUME NEW c \in Clients \ missed', NEW s \in Showtimes, Covered(c, s), c \in subscribers[s]
        PROVE  Covered(c, s)'
    <3>1. s # x
      BY <2>1, <2>3
    <3>2. version'[s] = version[s] /\ (s \in expired => s \in expired')
      BY <2>1, <3>1 DEF Fed, TypeOK
    <3> QED BY <1>4, <2>3, <3>2
  <2> QED BY <1>1, <1>2, <1>3, <2>2, <2>3, WorkerStep
<1>6. CASE ReleaseUnconfirmed(w)
  <2>1. /\ version' = version /\ expired' = {}
        /\ missed' = missed \cup UNION {subscribers[s] : s \in expired}
    BY <1>6 DEF ReleaseUnconfirmed
  <2>2. /\ version' \in [Showtimes -> 0 .. MaxVersion] /\ (expired \subseteq Showtimes)'
        /\ missed \subseteq missed' /\ missed' \subseteq Clients
    BY <2>1 DEF Fed, TypeOK
  <2>3. ASSUME NEW c \in Clients \ missed', NEW s \in Showtimes, Covered(c, s), c \in subscribers[s]
        PROVE  Covered(c, s)'
    <3>1. s \notin expired
      BY <2>1, <2>3
    <3> QED BY <1>4, <2>1, <2>3, <3>1
  <2> QED BY <1>1, <1>2, <1>3, <2>2, <2>3, WorkerStep
<1> QED BY <1>5, <1>6

LEMMA ReleaseKeeps ==
  ASSUME Fed, NEW w \in Workers, Release(w)
  PROVE  Fed'
<1>1. PICK t : t = [Idle EXCEPT !.at = "list"]
  OBVIOUS
<1>2. t \in Work /\ t.at = "list" /\ WorkOK(t)
  BY <1>1 DEF Idle, Work, WorkOK
<1>3. /\ GotoWork(w, t) /\ UNCHANGED <<version, hub, client, newest, missed, faults>>
      /\ expired' = {}
  BY <1>1 DEF Release
<1>4. tx'[w] = t
  BY <1>3, GotoWorkers DEF Fed
<1>5. \A c \in Clients, s \in Showtimes : Covered(c, s)'
  BY <1>2, <1>4, CoveredParts DEF Pending
<1> QED BY <1>2, <1>3, <1>5, WorkerStep DEF hub, Fed, TypeOK

LEMMA ProceedKeeps ==
  ASSUME Fed, NEW w \in Workers, Proceed(w) \/ BuildFails(w)
  PROVE  Fed'
<1>0. /\ tx[w] \in Work /\ WorkOK(tx[w])
      /\ version \in [Showtimes -> 0 .. MaxVersion] /\ expired \subseteq Showtimes
      /\ missed \subseteq Clients /\ faults \in 0 .. MaxFaults
  BY DEF Fed, TypeOK
\* A worker's record t that owes what tx[w] owed.
<1>1. ASSUME NEW t \in Work, GotoWork(w, t), WorkOK(t),
             UNCHANGED <<seats, hub, client, newest, missed, faults>>,
             \A c \in Clients, s \in Showtimes :
               Pending(w, c, s) /\ c \in subscribers[s] =>
                 \/ t.at = "list" \/ s \in t.left
                 \/ t.show = s /\ t.payload >= version[s]
                    /\ (t.at = "lock" \/ (t.at = "send" /\ c \in t.to))
      PROVE  Fed'
  <2>1. tx'[w] = t
    BY <1>1, GotoWorkers DEF Fed
  <2>2. ASSUME NEW c \in Clients, NEW s \in Showtimes, Covered(c, s), c \in subscribers[s]
        PROVE  Covered(c, s)'
    <3>1. Pending(w, c, s) => Pending(w, c, s)'
      BY <1>1, <2>1, <2>2 DEF Pending, seats
    <3> QED BY <1>1, <2>2, <3>1, QuietWorker DEF hub
  <2> QED BY <1>0, <1>1, <2>2, WorkerStep DEF seats, hub
<1>2. CASE List(w)
  <2>1. PICK t : t = [tx[w] EXCEPT !.at = "next", !.left = {s \in Showtimes : subscribers[s] # {}}]
    OBVIOUS
  <2>2. /\ t \in Work /\ t.at = "next" /\ \A s \in Showtimes : subscribers[s] # {} => s \in t.left
    BY <1>0, <2>1 DEF Work
  <2>3. WorkOK(t)
    BY <2>2 DEF WorkOK
  <2> QED BY <1>1, <1>2, <2>1, <2>2, <2>3 DEF List
<1>3. CASE Done(w)
  <2>1. \A c \in Clients, s \in Showtimes : ~Pending(w, c, s)
    BY <1>3 DEF Done, Pending
  <2>2. WorkOK(Idle)
    BY DEF WorkOK, Idle
  <2> QED BY <1>1, <1>3, <2>1, <2>2, IdleTyped DEF Done
<1>4. CASE Build(w)
  <2>1. PICK x \in tx[w].left :
          GotoWork(w, [tx[w] EXCEPT !.at = "lock", !.left = @ \ {x}, !.show = x,
                                    !.payload = version[x]])
    BY <1>4 DEF Build
  <2>2. PICK t : t = [tx[w] EXCEPT !.at = "lock", !.left = @ \ {x}, !.show = x,
                                   !.payload = version[x]]
    OBVIOUS
  <2>3. x \in Showtimes /\ version[x] \in Nat
    BY <1>0, <2>1 DEF Work
  <2>4. /\ t \in Work /\ t.at = "lock" /\ t.left = tx[w].left \ {x} /\ t.show = x
        /\ t.payload = version[x]
    BY <1>0, <2>2, <2>3 DEF Work
  <2>5. WorkOK(t)
    BY <2>3, <2>4 DEF WorkOK
  <2>6. \A c \in Clients, s \in Showtimes : Pending(w, c, s) => s \in tx[w].left
    BY <1>4 DEF Build, Pending
  <2>7. version[x] >= version[x]
    BY <2>3
  <2> QED BY <1>1, <1>4, <2>1, <2>2, <2>4, <2>5, <2>6, <2>7 DEF Build
<1>5. CASE BuildFails(w)
  <2>1. PICK x \in tx[w].left : /\ GotoWork(w, [tx[w] EXCEPT !.left = @ \ {x}])
                             /\ missed' = missed \cup subscribers[x]
    BY <1>5 DEF BuildFails
  <2>2. PICK t : t = [tx[w] EXCEPT !.left = @ \ {x}]
    OBVIOUS
  <2>3. t \in Work /\ t.at = "next" /\ t.left = tx[w].left \ {x} /\ WorkOK(t)
    BY <1>0, <1>5, <2>2 DEF Work, BuildFails, WorkOK
  <2>4. UNCHANGED <<seats, hub, client, newest>> /\ faults' \in 0 .. MaxFaults /\ tx[w].at = "next"
    BY <1>0, <1>5, BoundsAssumption DEF BuildFails
  <2>5. x \in Showtimes /\ missed' \subseteq Clients
    BY <1>0, <2>1 DEF Work, Fed, TypeOK
  <2>6. tx'[w] = t
    BY <2>1, <2>2, GotoWorkers DEF Fed
  <2>7. ASSUME NEW c \in Clients \ missed', NEW s \in Showtimes, Covered(c, s), c \in subscribers[s]
        PROVE  Covered(c, s)'
    <3>1. s # x
      BY <2>1, <2>7
    <3>2. Pending(w, c, s) => Pending(w, c, s)'
      BY <2>3, <2>4, <2>6, <3>1 DEF Pending
    <3> QED BY <2>1, <2>2, <2>4, <2>7, <3>2, QuietWorker DEF hub
  <2> QED BY <1>0, <2>1, <2>2, <2>3, <2>4, <2>5, <2>7, WorkerStep DEF seats, hub
<1>6. CASE Lock(w)
  <2>1. PICK t : t = [tx[w] EXCEPT !.at = "send", !.to = subscribers[tx[w].show]]
    OBVIOUS
  <2>2. tx[w].show \in Showtimes /\ subscribers[tx[w].show] \subseteq Clients
    BY <1>0, <1>6 DEF Lock, WorkOK, Fed, TypeOK
  <2>3. /\ t \in Work /\ t.at = "send" /\ t.left = tx[w].left /\ t.show = tx[w].show
        /\ t.payload = tx[w].payload /\ t.to = subscribers[tx[w].show]
    BY <1>0, <2>1, <2>2 DEF Work
  <2>4. WorkOK(t)
    BY <2>2, <2>3 DEF WorkOK
  <2> QED BY <1>1, <1>6, <2>1, <2>3, <2>4 DEF Lock, Pending
<1>7. CASE Unlock(w)
  <2>1. PICK t : t = [Idle EXCEPT !.at = "next", !.left = tx[w].left]
    OBVIOUS
  <2>2. t \in Work /\ t.at = "next" /\ t.left = tx[w].left /\ WorkOK(t)
    BY <1>0, <2>1 DEF Work, Idle, WorkOK
  <2> QED BY <1>1, <1>7, <2>1, <2>2 DEF Unlock, Pending
<1>8. CASE Send(w)
  <2>1. PICK d \in tx[w].to :
          /\ \/ /\ Len(inbox[d]) < Capacity
                /\ inbox' = [inbox EXCEPT ![d] = Append(@, tx[w].payload)]
                /\ UNCHANGED missed
             \/ /\ Len(inbox[d]) >= Capacity
                /\ missed' = missed \cup {d}
                /\ UNCHANGED inbox
          /\ GotoWork(w, [tx[w] EXCEPT !.to = @ \ {d}])
    BY <1>8 DEF Send
  <2>2. PICK t : t = [tx[w] EXCEPT !.to = @ \ {d}]
    OBVIOUS
  <2>3. /\ t \in Work /\ t.at = "send" /\ t.left = tx[w].left /\ t.show = tx[w].show
        /\ t.payload = tx[w].payload /\ t.to = tx[w].to \ {d}
        /\ d \in Clients /\ tx[w].payload \in Nat
    BY <1>0, <1>8, <2>1, <2>2 DEF Work, Send
  <2>4. UNCHANGED <<seats, subscribers, client, newest, faults>> /\ tx[w].at = "send"
    BY <1>8 DEF Send
  <2>5. WorkOK(t)
    BY <1>0, <2>3, <2>4 DEF WorkOK
  <2>6. tx'[w] = t
    BY <2>1, <2>2, GotoWorkers DEF Fed
  <2>7. /\ \A c \in Clients : inbox[c] \in Seq(Nat) /\ Len(inbox[c]) <= Capacity
        /\ inbox \in [Clients -> Seq(Nat)]
    BY DEF Fed, TypeOK
  <2>8. missed \subseteq missed' /\ missed' \subseteq Clients
    BY <1>0, <2>1, <2>3
  <2>9. inbox' \in [Clients -> Seq(Nat)] /\ \A c \in Clients : Len(inbox'[c]) <= Capacity
    <3>1. CASE UNCHANGED inbox
      BY <2>7, <3>1
    <3>2. CASE /\ Len(inbox[d]) < Capacity
               /\ inbox' = [inbox EXCEPT ![d] = Append(@, tx[w].payload)]
      <4>1. /\ Append(inbox[d], tx[w].payload) \in Seq(Nat)
            /\ Len(Append(inbox[d], tx[w].payload)) <= Capacity
        BY <2>3, <2>7, <3>2, BoundsAssumption
      <4> QED BY <2>7, <3>2, <4>1
    <3> QED BY <2>1, <3>1, <3>2
  <2>10. ASSUME NEW c \in Clients
         PROVE  /\ \A i \in DOMAIN inbox[c] : i \in DOMAIN inbox'[c] /\ inbox'[c][i] = inbox[c][i]
                /\ c = d /\ c \notin missed' =>
                     \E i \in DOMAIN inbox'[c] : inbox'[c][i] = tx[w].payload
    <3>1. CASE c # d \/ d \in missed'
      <4>1. inbox'[c] = inbox[c] \/ (c = d /\ UNCHANGED missed /\ d \in missed)
        BY <2>1, <2>7, <3>1
      <4>2. CASE inbox'[c] = inbox[c]
        BY <3>1, <4>2
      <4>3. CASE c = d /\ d \in missed /\ inbox' # inbox
        <5>1. inbox'[c] = Append(inbox[c], tx[w].payload)
          BY <2>1, <2>7, <4>3
        <5> QED BY <2>3, <2>7, <4>3, <5>1, <3>1
      <4> QED BY <3>1, <4>1, <4>2, <4>3
    <3>2. CASE c = d /\ d \notin missed'
      <4>1. inbox'[c] = Append(inbox[c], tx[w].payload)
        BY <2>1, <2>7, <3>2
      <4>2. Len(inbox[c]) + 1 \in DOMAIN inbox'[c]
            /\ inbox'[c][Len(inbox[c]) + 1] = tx[w].payload
        BY <2>3, <2>7, <4>1
      <4> QED BY <2>3, <2>7, <4>1, <4>2
    <3> QED BY <3>1, <3>2
  <2>11. ASSUME NEW c \in Clients \ missed', NEW s \in Showtimes, Covered(c, s), c \in subscribers[s]
         PROVE  Covered(c, s)'
    <3>1. Reached(c, s) => Reached(c, s)'
      BY <2>4, <2>10 DEF Reached, seats
    <3>2. \A v \in Workers \ {w} : Pending(v, c, s) => Pending(v, c, s)'
      BY <2>1, <2>2, <2>4, OthersPending DEF Fed, seats
    <3>3. Pending(w, c, s) => Pending(w, c, s)' \/ Reached(c, s)'
      BY <2>3, <2>4, <2>6, <2>10 DEF Pending, Reached, seats
    <3> QED BY <2>4, <2>11, <3>1, <3>2, <3>3, CoveredParts DEF seats
  <2>12. tx' \in [Workers -> Work]
    BY <2>1, <2>2, <2>3 DEF Fed, TypeOK, GotoWork
  <2>13. TypeOK'
    BY <2>4, <2>8, <2>9, <2>12 DEF Fed, TypeOK, seats
  <2>14. \A v \in Workers : WorkOK(tx[v])'
    <3>1. \A v \in Workers \ {w} : tx'[v] = tx[v]
      BY <2>1, <2>2, GotoWorkers DEF Fed
    <3> QED BY <2>4, <2>5, <2>6, <3>1 DEF Fed, WorkOK
  <2>15. HubOK'
    BY <2>4 DEF Fed, HubOK
  <2>16. NoNewsLost'
    <3>1. SUFFICES ASSUME NEW c \in Clients, Streaming(c)', c \notin missed'
                   PROVE  Covered(c, client[c].show)'
      BY DEF NoNewsLost
    <3>2. PICK s : s = client[c].show
      OBVIOUS
    <3>3. Streaming(c) /\ c \notin missed /\ client'[c].show = s
      BY <2>4, <2>8, <3>1, <3>2 DEF Streaming
    <3>4. Covered(c, s) /\ s \in Showtimes /\ c \in subscribers[s]
      BY <3>2, <3>3 DEF Fed, NoNewsLost, HubOK, Streaming
    <3>5. Covered(c, s)'
      BY <2>11, <3>1, <3>4
    <3> QED BY <3>3, <3>5
  <2> QED BY <2>13, <2>14, <2>15, <2>16 DEF Fed
<1> QED BY <1>2, <1>3, <1>4, <1>5, <1>6, <1>7, <1>8 DEF Proceed

\* An expiry is covered as long as the releaser has not seen it.
LEMMA ExpireKeeps ==
  ASSUME Fed, NEW x \in Showtimes, Expire(x)
  PROVE  Fed'
<1>1. /\ version' = [version EXCEPT ![x] = @ + 1] /\ version[x] < MaxVersion
      /\ expired' = expired \cup {x}
      /\ UNCHANGED <<tx, subscribers, inbox, client, newest, missed, faults>>
  BY DEF Expire, hub
<1>2. TypeOK'
  BY <1>1, BoundsAssumption DEF Fed, TypeOK
<1>3. (\A w \in Workers : WorkOK(tx[w])') /\ HubOK'
  BY <1>1 DEF Fed, WorkOK, HubOK
<1>4. ASSUME NEW c \in Clients, NEW s \in Showtimes, Covered(c, s)
      PROVE  Covered(c, s)'
  <2>1. CASE s = x
    BY <1>1, <2>1, CoveredParts
  <2>2. CASE s # x
    <3>1. version'[s] = version[s]
      BY <1>1, <2>2 DEF Fed, TypeOK
    <3>2. (Reached(c, s) => Reached(c, s)') /\ \A w \in Workers : Pending(w, c, s) => Pending(w, c, s)'
      BY <1>1, <3>1 DEF Reached, Pending
    <3> QED BY <1>1, <1>4, <3>2, CoveredParts
  <2> QED BY <2>1, <2>2
<1>5. NoNewsLost'
  <2>1. SUFFICES ASSUME NEW c \in Clients, Streaming(c)', c \notin missed'
                 PROVE  Covered(c, client[c].show)'
    BY DEF NoNewsLost
  <2>2. PICK s : s = client[c].show
    OBVIOUS
  <2>3. Streaming(c) /\ c \notin missed /\ client'[c].show = s
    BY <1>1, <2>1, <2>2 DEF Streaming
  <2>4. Covered(c, s) /\ s \in Showtimes
    BY <2>2, <2>3 DEF Fed, NoNewsLost, HubOK, Streaming
  <2> QED BY <1>4, <2>3, <2>4
<1> QED BY <1>2, <1>3, <1>5 DEF Fed

-----------------------------------------------------------------------------
(* Clients.                                                                *)

LEMMA GotoClients ==
  ASSUME TypeOK, NEW c \in Clients, NEW k \in Connection, GotoClient(c, k)
  PROVE  /\ client' \in [Clients -> Connection] /\ client'[c] = k
         /\ \A d \in Clients \ {c} : client'[d] = client[d]
BY DEF TypeOK, GotoClient

\* A client's step leaves the workers, the seats and the other clients alone.
LEMMA ClientStep ==
  ASSUME Fed, NEW c \in Clients, UNCHANGED <<version, expired, tx>>,
         TypeOK', \A w \in Workers : WorkOK(tx[w])', HubOK',
         \A d \in Clients \ {c} :
           /\ client'[d] = client[d] /\ inbox'[d] = inbox[d] /\ newest'[d] = newest[d]
           /\ d \notin missed' => d \notin missed,
         Streaming(c)' /\ c \notin missed' => Covered(c, client[c].show)'
  PROVE  Fed'
<1>1. ASSUME NEW d \in Clients, d # c, Streaming(d)', d \notin missed'
      PROVE  Covered(d, client[d].show)'
  <2>1. PICK s : s = client[d].show
    OBVIOUS
  <2>2. Streaming(d) /\ d \notin missed /\ client'[d].show = s
    BY <1>1, <2>1 DEF Streaming
  <2>3. Covered(d, s)
    BY <2>1, <2>2 DEF Fed, NoNewsLost
  <2>4. (Reached(d, s) => Reached(d, s)') /\ \A w \in Workers : Pending(w, d, s) => Pending(w, d, s)'
    BY <1>1 DEF Reached, Pending
  <2> QED BY <2>2, <2>3, <2>4, CoveredParts
<1>2. NoNewsLost'
  BY <1>1 DEF NoNewsLost
<1> QED BY <1>2 DEF Fed

\* A step of c's handler that only touches c's own state.
LEMMA HandlerStep ==
  ASSUME Fed, NEW c \in Clients, NEW k \in Connection, GotoClient(c, k),
         UNCHANGED <<version, expired, tx, subscribers>>,
         client[c].at # "off", k.at # "off", k.show = client[c].show,
         inbox' \in [Clients -> Seq(Nat)], Len(inbox'[c]) <= Capacity,
         newest' \in [Clients -> Nat], missed' \subseteq Clients, faults' \in 0 .. MaxFaults,
         \A d \in Clients \ {c} :
           inbox'[d] = inbox[d] /\ newest'[d] = newest[d] /\ (d \notin missed' => d \notin missed),
         Streaming(c)' /\ c \notin missed' => Covered(c, client[c].show)'
  PROVE  Fed'
<1>1. /\ client' \in [Clients -> Connection] /\ client'[c] = k
      /\ \A d \in Clients \ {c} : client'[d] = client[d]
  BY GotoClients DEF Fed
<1>2. TypeOK'
  <2>1. \A d \in Clients : Len(inbox'[d]) <= Capacity
    BY DEF Fed, TypeOK
  <2> QED BY <1>1, <2>1 DEF Fed, TypeOK
<1>3. \A w \in Workers : WorkOK(tx[w])'
  BY DEF Fed, WorkOK
<1>4. HubOK'
  BY <1>1 DEF Fed, HubOK
<1> QED BY <1>1, <1>2, <1>3, <1>4, ClientStep

\* What the first payload and the messages do to the newest one shown.
LEMMA ShownGrows ==
  ASSUME TypeOK, NEW c \in Clients, NEW p \in Nat, Shown(c, p)
  PROVE  /\ newest' \in [Clients -> Nat] /\ newest'[c] >= p /\ newest'[c] >= newest[c]
         /\ \A d \in Clients \ {c} : newest'[d] = newest[d]
BY DEF TypeOK, Shown

LEMMA SubscribeKeeps ==
  ASSUME Fed, NEW c \in Clients, NEW x \in Showtimes,
         Subscribe(c, x)
  PROVE  Fed'
<1>1. PICK k : k = [Off EXCEPT !.at = "subscribed", !.show = x]
  OBVIOUS
<1>2. k \in Connection /\ k.at = "subscribed" /\ k.show = x
  BY <1>1 DEF Off, Connection
<1>3. /\ GotoClient(c, k) /\ client[c].at = "off" /\ Unlocked
      /\ subscribers' = [subscribers EXCEPT ![x] = @ \cup {c}]
      /\ inbox' = [inbox EXCEPT ![c] = <<>>]
      /\ UNCHANGED <<version, expired, tx, newest, missed, faults>>
  BY <1>1 DEF Subscribe, seats
<1>4. /\ client' \in [Clients -> Connection] /\ client'[c] = k
      /\ \A d \in Clients \ {c} : client'[d] = client[d]
  BY <1>2, <1>3, GotoClients DEF Fed
<1>5. TypeOK'
  <2>1. <<>> \in Seq(Nat) /\ Len(<<>>) <= Capacity
    BY BoundsAssumption
  <2>2. inbox' \in [Clients -> Seq(Nat)] /\ \A d \in Clients : Len(inbox'[d]) <= Capacity
    BY <1>3, <2>1 DEF Fed, TypeOK
  <2> QED BY <1>3, <1>4, <2>2 DEF Fed, TypeOK
<1>6. \A w \in Workers : WorkOK(tx[w])'
  BY <1>3 DEF Fed, WorkOK, Unlocked
<1>7. HubOK'
  BY <1>2, <1>3, <1>4 DEF Fed, TypeOK, HubOK
<1>8. \A d \in Clients \ {c} : inbox'[d] = inbox[d]
  BY <1>3 DEF Fed, TypeOK
<1>9. ~Streaming(c)'
  BY <1>2, <1>4 DEF Streaming
<1> QED BY <1>3, <1>4, <1>5, <1>6, <1>7, <1>8, <1>9, ClientStep

LEMMA UnsubscribeKeeps ==
  ASSUME Fed, NEW c \in Clients, Unsubscribe(c)
  PROVE  Fed'
<1>1. Off \in Connection /\ Off.at = "off"
  BY DEF Off, Connection
<1>2. PICK x : x = client[c].show
  OBVIOUS
<1>3. /\ GotoClient(c, Off) /\ client[c].at = "closing" /\ Unlocked
      /\ subscribers' = [subscribers EXCEPT ![x] = @ \ {c}]
      /\ inbox' = [inbox EXCEPT ![c] = <<>>]
      /\ newest' = [newest EXCEPT ![c] = 0] /\ missed' = missed \ {c}
      /\ UNCHANGED <<version, expired, tx, faults>>
  BY <1>2 DEF Unsubscribe, seats
<1>4. x \in Showtimes
  BY <1>2, <1>3 DEF Fed, HubOK
<1>5. /\ client' \in [Clients -> Connection] /\ client'[c] = Off
      /\ \A d \in Clients \ {c} : client'[d] = client[d]
  BY <1>1, <1>3, GotoClients DEF Fed
<1>6. TypeOK'
  <2>1. <<>> \in Seq(Nat) /\ Len(<<>>) <= Capacity
    BY BoundsAssumption
  <2>2. inbox' \in [Clients -> Seq(Nat)] /\ \A d \in Clients : Len(inbox'[d]) <= Capacity
    BY <1>3, <2>1 DEF Fed, TypeOK
  <2> QED BY <1>3, <1>5, <2>2 DEF Fed, TypeOK
<1>7. \A w \in Workers : WorkOK(tx[w])'
  BY <1>3 DEF Fed, WorkOK, Unlocked
<1>8. HubOK'
  BY <1>1, <1>2, <1>3, <1>4, <1>5 DEF Fed, TypeOK, HubOK
<1>9. \A d \in Clients \ {c} : /\ inbox'[d] = inbox[d] /\ newest'[d] = newest[d]
                               /\ d \notin missed' => d \notin missed
  BY <1>3 DEF Fed, TypeOK
<1>10. ~Streaming(c)'
  BY <1>1, <1>5 DEF Streaming
<1> QED BY <1>3, <1>5, <1>6, <1>7, <1>8, <1>9, <1>10, ClientStep

LEMMA SnapshotKeeps ==
  ASSUME Fed, NEW c \in Clients, Snapshot(c) \/ SnapshotFails(c)
  PROVE  Fed'
<1>0. /\ client[c] \in Connection /\ client[c].at = "subscribed" /\ client[c].show \in Showtimes
      /\ version \in [Showtimes -> 0 .. MaxVersion] /\ faults \in 0 .. MaxFaults
      /\ inbox \in [Clients -> Seq(Nat)] /\ Len(inbox[c]) <= Capacity
      /\ newest \in [Clients -> Nat] /\ missed \subseteq Clients
  BY DEF Fed, TypeOK, HubOK, Snapshot, SnapshotFails
<1>1. CASE Snapshot(c)
  <2>1. PICK x : x = client[c].show
    OBVIOUS
  <2>2. PICK k : k = [client[c] EXCEPT !.at = "write", !.payload = version[x]]
    OBVIOUS
  <2>3. version[x] \in Nat
    BY <1>0, <2>1
  <2>4. k \in Connection /\ k.at = "write" /\ k.show = x /\ k.payload = version[x]
    BY <1>0, <2>1, <2>2, <2>3 DEF Connection
  <2>5. /\ GotoClient(c, k)
        /\ UNCHANGED <<version, expired, tx, subscribers, inbox, newest, missed, faults>>
    BY <1>1, <2>1, <2>2 DEF Snapshot, seats, hub
  <2>6. client'[c] = k
    BY <2>4, <2>5, GotoClients DEF Fed
  <2>7. Covered(c, client[c].show)'
    BY <2>3, <2>4, <2>5, <2>6 DEF Covered
  <2> QED BY <1>0, <2>1, <2>4, <2>5, <2>7, HandlerStep
<1>2. CASE SnapshotFails(c)
  <2>1. PICK k : k = [client[c] EXCEPT !.at = "streaming"]
    OBVIOUS
  <2>2. k \in Connection /\ k.at = "streaming" /\ k.show = client[c].show
    BY <1>0, <2>1 DEF Connection
  <2>3. /\ GotoClient(c, k) /\ missed' = missed \cup {c} /\ faults' \in 0 .. MaxFaults
        /\ UNCHANGED <<version, expired, tx, subscribers, inbox, newest>>
    BY <1>0, <1>2, <2>1, BoundsAssumption DEF SnapshotFails, seats, hub
  <2> QED BY <1>0, <2>2, <2>3, HandlerStep
<1> QED BY <1>1, <1>2

LEMMA WriteKeeps ==
  ASSUME Fed, NEW c \in Clients, Write(c) \/ Quit(c)
  PROVE  Fed'
<1>0. /\ client[c] \in Connection /\ client[c].at \in {"write", "streaming"}
      /\ inbox \in [Clients -> Seq(Nat)] /\ Len(inbox[c]) <= Capacity
      /\ newest \in [Clients -> Nat] /\ missed \subseteq Clients /\ faults \in 0 .. MaxFaults
      /\ version \in [Showtimes -> 0 .. MaxVersion]
  BY DEF Fed, TypeOK, Write, Quit
<1>1. PICK x : x = client[c].show
  OBVIOUS
<1>2. CASE Quit(c)
  <2>1. PICK k : k = [client[c] EXCEPT !.at = "closing", !.payload = 0]
    OBVIOUS
  <2>2. k \in Connection /\ k.at = "closing" /\ k.show = x
    BY <1>0, <1>1, <2>1 DEF Connection
  <2>3. GotoClient(c, k) /\ UNCHANGED <<version, expired, tx, subscribers, inbox, newest, missed, faults>>
    BY <1>2, <2>1 DEF Quit, seats, hub
  <2>4. ~Streaming(c)'
    BY <2>2, <2>3, GotoClients DEF Fed, Streaming
  <2> QED BY <1>0, <1>1, <2>2, <2>3, <2>4, HandlerStep
<1>3. CASE Write(c)
  <2>1. PICK k : k = [client[c] EXCEPT !.at = "streaming", !.payload = 0]
    OBVIOUS
  <2>2. k \in Connection /\ k.at = "streaming" /\ k.show = x
    BY <1>0, <1>1, <2>1 DEF Connection
  <2>3. /\ GotoClient(c, k) /\ Shown(c, client[c].payload)
        /\ UNCHANGED <<version, expired, tx, subscribers, inbox, missed, faults>>
    BY <1>3, <2>1 DEF Write, seats, hub
  <2>4. client'[c] = k
    BY <2>2, <2>3, GotoClients DEF Fed
  <2>5. client[c].payload \in Nat
    BY <1>0 DEF Connection
  <2>6. /\ newest' \in [Clients -> Nat] /\ newest'[c] >= client[c].payload /\ newest'[c] >= newest[c]
        /\ \A d \in Clients \ {c} : newest'[d] = newest[d]
    BY <2>3, <2>5, ShownGrows DEF Fed
  <2>7. ASSUME c \notin missed'
        PROVE  Covered(c, client[c].show)'
    <3>1. Covered(c, x) /\ x \in Showtimes
      BY <1>0, <1>1, <2>3, <2>7 DEF Fed, NoNewsLost, HubOK, Streaming
    <3>2. version[x] \in Nat /\ newest[c] \in Nat /\ newest'[c] \in Nat
      BY <1>0, <2>6, <3>1
    <3>3. Reached(c, x) => Reached(c, x)'
      BY <2>3, <2>5, <2>6, <3>2 DEF Reached
    <3>4. \A w \in Workers : Pending(w, c, x) => Pending(w, c, x)'
      BY <2>3 DEF Pending
    <3>5. Covered(c, x)'
      BY <2>3, <3>1, <3>3, <3>4, CoveredParts
    <3> QED BY <2>2, <2>4, <3>5
  <2> QED BY <1>0, <1>1, <2>2, <2>3, <2>6, <2>7, HandlerStep
<1> QED BY <1>2, <1>3

\* The head of the channel is about to be shown, the rest moves up.
LEMMA ReceiveKeeps ==
  ASSUME Fed, NEW c \in Clients, Receive(c)
  PROVE  Fed'
<1>1. PICK q \in Seq(Nat) : q = inbox[c]
  BY DEF Fed, TypeOK
<1>2. PICK k : k = [client[c] EXCEPT !.at = "write", !.payload = Head(q)]
  OBVIOUS
<1>3. PICK x : x = client[c].show
  OBVIOUS
<1>4. /\ client[c].at = "streaming" /\ q # <<>> /\ GotoClient(c, k)
      /\ inbox' = [inbox EXCEPT ![c] = Tail(q)]
      /\ UNCHANGED <<version, expired, tx, subscribers, newest, missed, faults>>
  BY <1>1, <1>2 DEF Receive, seats
<1>5. /\ client[c] \in Connection /\ inbox \in [Clients -> Seq(Nat)] /\ Len(inbox[c]) <= Capacity
      /\ version \in [Showtimes -> 0 .. MaxVersion] /\ newest \in [Clients -> Nat]
      /\ missed \subseteq Clients /\ faults \in 0 .. MaxFaults
  BY DEF Fed, TypeOK
<1>6. /\ Head(q) \in Nat /\ Head(q) = q[1] /\ Tail(q) \in Seq(Nat) /\ Len(Tail(q)) = Len(q) - 1
      /\ \A i \in 1 .. Len(q) - 1 : Tail(q)[i] = q[i + 1]
  BY <1>4, HeadTailProperties
<1>7. k \in Connection /\ k.at = "write" /\ k.show = x /\ k.payload = Head(q)
  BY <1>2, <1>3, <1>5, <1>6 DEF Connection
<1>8. /\ inbox'[c] = Tail(q) /\ inbox' \in [Clients -> Seq(Nat)]
      /\ \A d \in Clients \ {c} : inbox'[d] = inbox[d]
  BY <1>4, <1>5, <1>6
<1>9. Len(inbox'[c]) <= Capacity
  BY <1>1, <1>5, <1>6, <1>8, LenProperties, BoundsAssumption
<1>10. client'[c] = k
  BY <1>4, <1>7, GotoClients DEF Fed
<1>11. ASSUME c \notin missed'
       PROVE  Covered(c, client[c].show)'
  <2>1. Covered(c, x) /\ x \in Showtimes
    BY <1>3, <1>4, <1>11 DEF Fed, NoNewsLost, HubOK, Streaming
  <2>2. ASSUME NEW i \in DOMAIN q, q[i] >= version[x]
        PROVE  Head(q) >= version[x] \/ \E j \in DOMAIN Tail(q) : Tail(q)[j] >= version[x]
    <3>1. i \in 1 .. Len(q)
      BY <2>2, LenProperties
    <3>2. CASE i = 1
      BY <1>6, <2>2, <3>2
    <3>3. CASE i # 1
      <4>1. i - 1 \in 1 .. Len(q) - 1
        BY <3>1, <3>3, LenProperties
      <4>2. Tail(q)[i - 1] = q[(i - 1) + 1] /\ (i - 1) + 1 = i
        BY <1>6, <3>1, <4>1
      <4>3. i - 1 \in DOMAIN Tail(q)
        BY <1>6, <4>1, LenProperties
      <4> QED BY <2>2, <4>2, <4>3
    <3> QED BY <3>2, <3>3
  <2>3. Reached(c, x) => Reached(c, x)'
    BY <1>1, <1>4, <1>7, <1>8, <1>10, <2>2 DEF Reached
  <2>4. \A w \in Workers : Pending(w, c, x) => Pending(w, c, x)'
    BY <1>4 DEF Pending
  <2>5. Covered(c, x)'
    BY <1>4, <2>1, <2>3, <2>4, CoveredParts
  <2> QED BY <1>7, <1>10, <2>5
<1> QED BY <1>3, <1>4, <1>5, <1>7, <1>8, <1>9, <1>11, HandlerStep

-----------------------------------------------------------------------------
(* Only what the seats were is ever shown.                                 *)

\* Everything c has been sent, or will be from its channel, is a state the
\* seats of s have really been in.
OnlyPast(c, s) ==
  /\ newest[c] <= version[s]
  /\ client[c].payload <= version[s]
  /\ \A i \in DOMAIN inbox[c] : inbox[c][i] <= version[s]

GenuineFor(c) ==
  /\ client[c].at = "off" => newest[c] = 0
  /\ client[c].at # "off" => OnlyPast(c, client[c].show)

GenuineOf(w) == tx[w].at \in {"lock", "send"} => tx[w].payload <= version[tx[w].show]

\* No client is shown the seats of another showtime, or as they never were,
\* in whatever order the broadcasts get to its channel.
Genuine == (\A c \in Clients : GenuineFor(c)) /\ \A w \in Workers : GenuineOf(w)

\* The seats only move on.
LEMMA VersionGrows ==
  ASSUME Fed, [Next]_vars, NEW s \in Showtimes
  PROVE  version[s] \in Nat /\ version'[s] \in Nat /\ version[s] <= version'[s]
<1>1. version[s] \in Nat
  BY DEF Fed, TypeOK
<1>2. version' = version \/ \E x \in Showtimes : version' = [version EXCEPT ![x] = @ + 1]
  <2>1. UNCHANGED version \/ ~\E w \in Workers : Proceed(w)
    BY DEF Proceed, List, Build, Lock, Send, Unlock, Done, seats
  <2>2. UNCHANGED version \/ ~\E c \in Clients : Stream(c)
    BY DEF Stream, Subscribe, Snapshot, SnapshotFails, Write, Receive, Quit, Unsubscribe, seats
  <2> QED BY <2>1, <2>2 DEF Next, vars, seats, Expire, Change,
         ChangeUnconfirmed, Release, ReleaseUnconfirmed, BuildFails
<1> QED BY <1>1, <1>2 DEF Fed, TypeOK

\* A client that a step does not touch.
LEMMA StaysGenuine ==
  ASSUME Fed, [Next]_vars, NEW c \in Clients, GenuineFor(c), client'[c] = client[c],
         inbox'[c] = inbox[c], newest'[c] = newest[c]
  PROVE  GenuineFor(c)'
<1>1. CASE client[c].at = "off"
  BY <1>1 DEF GenuineFor
<1>2. CASE client[c].at # "off"
  <2>1. PICK s : s = client[c].show
    OBVIOUS
  <2>2. s \in Showtimes
    BY <1>2, <2>1 DEF Fed, HubOK
  <2>3. version[s] \in Nat /\ version'[s] \in Nat /\ version[s] <= version'[s]
    BY <2>2, VersionGrows
  <2>4. newest[c] \in Nat /\ client[c].payload \in Nat /\ inbox[c] \in Seq(Nat)
    BY DEF Fed, TypeOK, Connection
  <2>5. \A i \in DOMAIN inbox[c] : inbox[c][i] \in Nat
    BY <2>4, ElementOfSeq, LenProperties
  <2>6. OnlyPast(c, s)
    BY <1>2, <2>1 DEF GenuineFor
  <2>7. newest[c] <= version'[s] /\ client[c].payload <= version'[s]
    BY <2>3, <2>4, <2>6 DEF OnlyPast
  <2>8. \A i \in DOMAIN inbox[c] : inbox[c][i] <= version'[s]
    BY <2>3, <2>5, <2>6 DEF OnlyPast
  <2> QED BY <1>2, <2>1, <2>7, <2>8 DEF GenuineFor, OnlyPast
<1> QED BY <1>1, <1>2

LEMMA WorkersGenuine ==
  ASSUME Fed, Genuine, [Next]_vars
  PROVE  \A w \in Workers : GenuineOf(w)'
<1>1. ASSUME NEW w \in Workers, tx'[w] = tx[w] PROVE GenuineOf(w)'
  <2>1. ASSUME tx[w].at \in {"lock", "send"} PROVE tx[w].payload <= version'[tx[w].show]
    <3>1. tx[w].show \in Showtimes /\ tx[w].payload \in Nat
      BY <2>1 DEF Fed, TypeOK, WorkOK, Work
    <3>2. tx[w].payload <= version[tx[w].show]
      BY <2>1 DEF Genuine, GenuineOf
    <3> QED BY <3>1, <3>2, VersionGrows
  <2> QED BY <1>1, <2>1 DEF GenuineOf
\* w goes on to t.
<1>2. ASSUME NEW w \in Workers, NEW t, GotoWork(w, t), NEW v \in Workers,
             t.at \in {"lock", "send"} => t.payload <= version'[t.show]
      PROVE  GenuineOf(v)'
  <2>1. tx'[w] = t /\ (v # w => tx'[v] = tx[v])
    BY <1>2, GotoWorkers DEF Fed
  <2> QED BY <1>1, <1>2, <2>1 DEF GenuineOf
<1>3. ASSUME NEW w \in Workers, NEW v \in Workers, Proceed(w) PROVE GenuineOf(v)'
  <2>0. tx[w] \in Work /\ version \in [Showtimes -> 0 .. MaxVersion] /\ version' = version
    BY <1>3 DEF Fed, TypeOK, Proceed, List, Build, Lock, Send, Unlock, Done, seats
  <2>1. CASE List(w)
    <3>1. PICK t : t = [tx[w] EXCEPT !.at = "next", !.left = {s \in Showtimes : subscribers[s] # {}}]
      OBVIOUS
    <3>2. GotoWork(w, t) /\ t.at = "next"
      BY <2>0, <2>1, <3>1 DEF List, Work
    <3> QED BY <1>2, <3>2
  <2>2. CASE Build(w)
    <3>1. PICK x \in tx[w].left :
            GotoWork(w, [tx[w] EXCEPT !.at = "lock", !.left = @ \ {x}, !.show = x,
                                      !.payload = version[x]])
      BY <2>2 DEF Build
    <3>2. PICK t : t = [tx[w] EXCEPT !.at = "lock", !.left = @ \ {x}, !.show = x,
                                     !.payload = version[x]]
      OBVIOUS
    <3>3. x \in Showtimes /\ version[x] \in Nat
      BY <2>0, <3>1 DEF Work
    <3>4. t.payload = version[x] /\ t.show = x
      BY <2>0, <3>2 DEF Work
    <3>5. t.payload <= version'[t.show]
      BY <2>0, <3>3, <3>4
    <3> QED BY <1>2, <3>1, <3>2, <3>5
  <2>3. CASE Lock(w)
    <3>1. PICK t : t = [tx[w] EXCEPT !.at = "send", !.to = subscribers[tx[w].show]]
      OBVIOUS
    <3>2. GotoWork(w, t) /\ t.payload = tx[w].payload /\ t.show = tx[w].show /\ tx[w].at = "lock"
      BY <2>0, <2>3, <3>1 DEF Lock, Work
    <3> QED BY <1>2, <2>0, <3>2 DEF Genuine, GenuineOf
  <2>4. CASE Send(w)
    <3>1. PICK d \in tx[w].to : GotoWork(w, [tx[w] EXCEPT !.to = @ \ {d}])
      BY <2>4 DEF Send
    <3>2. PICK t : t = [tx[w] EXCEPT !.to = @ \ {d}]
      OBVIOUS
    <3>3. t.payload = tx[w].payload /\ t.show = tx[w].show /\ tx[w].at = "send"
      BY <2>0, <2>4, <3>2 DEF Send, Work
    <3> QED BY <1>2, <2>0, <3>1, <3>2, <3>3 DEF Genuine, GenuineOf
  <2>5. CASE Unlock(w)
    <3>1. PICK t : t = [Idle EXCEPT !.at = "next", !.left = tx[w].left]
      OBVIOUS
    <3>2. GotoWork(w, t) /\ t.at = "next"
      BY <2>5, <3>1 DEF Unlock, Idle
    <3> QED BY <1>2, <3>2
  <2>6. CASE Done(w)
    BY <1>2, <2>6 DEF Done, Idle
  <2> QED BY <1>3, <2>1, <2>2, <2>3, <2>4, <2>5, <2>6 DEF Proceed
<1>4. ASSUME NEW w \in Workers, NEW v \in Workers,
             (\E s \in Showtimes : Change(w, s)) \/ Release(w) \/ BuildFails(w)
      PROVE  GenuineOf(v)'
  <2>1. \E t : GotoWork(w, t) /\ t.at \in {"next", "list"}
    <3>1. ASSUME NEW s \in Showtimes, Change(w, s) PROVE \E t : GotoWork(w, t) /\ t.at \in {"next", "list"}
      <4>1. [Idle EXCEPT !.at = "next", !.left = {s}].at = "next"
        BY DEF Idle
      <4> QED BY <3>1, <4>1 DEF Change
    <3>2. CASE Release(w)
      <4>1. [Idle EXCEPT !.at = "list"].at = "list"
        BY DEF Idle
      <4> QED BY <3>2, <4>1 DEF Release
    <3>3. CASE BuildFails(w)
      <4>1. PICK s \in tx[w].left : GotoWork(w, [tx[w] EXCEPT !.left = @ \ {s}])
        BY <3>3 DEF BuildFails
      <4>2. tx[w] \in Work /\ tx[w].at = "next"
        BY <3>3 DEF BuildFails, Fed, TypeOK
      <4>3. [tx[w] EXCEPT !.left = @ \ {s}].at = "next"
        BY <4>2 DEF Work
      <4> QED BY <4>1, <4>3
    <3> QED BY <1>4, <3>1, <3>2, <3>3
  <2> QED BY <1>2, <2>1
<1>5. ASSUME UNCHANGED tx, NEW v \in Workers PROVE GenuineOf(v)'
  BY <1>1, <1>5
<1> QED BY <1>3, <1>4, <1>5 DEF Next, Expire, ChangeUnconfirmed, ReleaseUnconfirmed, Stream, Subscribe, Snapshot, SnapshotFails, Write,
           Receive, Quit, Unsubscribe, vars

LEMMA ClientsGenuine ==
  ASSUME Fed, Genuine, [Next]_vars
  PROVE  \A c \in Clients : GenuineFor(c)'
<1>0. /\ inbox \in [Clients -> Seq(Nat)] /\ newest \in [Clients -> Nat]
      /\ client \in [Clients -> Connection]
      /\ \A s \in Showtimes : version[s] \in Nat
  BY DEF Fed, TypeOK
<1>1. ASSUME UNCHANGED <<client, inbox, newest>>, NEW c \in Clients PROVE GenuineFor(c)'
  BY <1>1, StaysGenuine DEF Genuine
\* Only c's handler steps.
<1>2. ASSUME NEW c \in Clients, NEW k \in Connection, GotoClient(c, k), UNCHANGED version,
             \A d \in Clients \ {c} : inbox'[d] = inbox[d] /\ newest'[d] = newest[d],
             k.at = "off" => newest'[c] = 0,
             k.at # "off" => /\ newest'[c] <= version[k.show] /\ k.payload <= version[k.show]
                             /\ \A i \in DOMAIN inbox'[c] : inbox'[c][i] <= version[k.show],
             NEW d \in Clients
      PROVE  GenuineFor(d)'
  <2>1. client'[c] = k /\ (d # c => client'[d] = client[d])
    BY <1>2, GotoClients DEF Fed
  <2>2. CASE d = c
    BY <1>2, <2>1, <2>2 DEF GenuineFor, OnlyPast
  <2>3. CASE d # c
    BY <1>2, <2>1, <2>3, StaysGenuine DEF Genuine
  <2> QED BY <2>2, <2>3
<1>3. ASSUME NEW w \in Workers, Send(w), NEW c \in Clients PROVE GenuineFor(c)'
  <2>1. PICK d \in tx[w].to :
          \/ inbox' = [inbox EXCEPT ![d] = Append(@, tx[w].payload)]
          \/ UNCHANGED inbox
    BY <1>3 DEF Send
  <2>2. UNCHANGED <<version, client, newest>>
    BY <1>3 DEF Send, seats
  <2>3. CASE inbox'[c] = inbox[c]
    BY <2>2, <2>3, StaysGenuine DEF Genuine
  <2>4. CASE inbox'[c] # inbox[c]
    <3>1. c = d /\ inbox'[c] = Append(inbox[c], tx[w].payload)
      BY <1>0, <2>1, <2>4
    <3>2. PICK s : s = tx[w].show
      OBVIOUS
    <3>3. tx[w].at = "send" /\ tx[w].to \subseteq subscribers[s] /\ s \in Showtimes
      BY <1>3, <3>2 DEF Send, Fed, WorkOK
    <3>4. client[c].at # "off" /\ client[c].show = s
      BY <2>1, <3>1, <3>3 DEF Fed, HubOK
    <3>5. tx[w].payload <= version[s] /\ tx[w].payload \in Nat
      BY <3>2, <3>3 DEF Genuine, GenuineOf, Fed, TypeOK, Work
    <3>6. OnlyPast(c, s)
      BY <3>4 DEF Genuine, GenuineFor
    <3>7. ASSUME NEW i \in DOMAIN inbox'[c] PROVE inbox'[c][i] <= version[s]
      <4>1. i \in 1 .. Len(inbox[c]) + 1
        BY <1>0, <3>1, <3>5, <3>7
      <4>2. CASE i \in 1 .. Len(inbox[c])
        <5>1. inbox'[c][i] = inbox[c][i] /\ i \in DOMAIN inbox[c]
          BY <1>0, <3>1, <3>5, <4>2
        <5> QED BY <3>6, <5>1 DEF OnlyPast
      <4>3. CASE i = Len(inbox[c]) + 1
        <5>1. inbox'[c][i] = tx[w].payload
          BY <1>0, <3>1, <3>5, <4>3
        <5> QED BY <3>5, <5>1
      <4>4. Len(inbox[c]) \in Nat
        BY <1>0
      <4> QED BY <4>1, <4>2, <4>3, <4>4
    <3> QED BY <2>2, <3>4, <3>6, <3>7 DEF GenuineFor, OnlyPast
  <2> QED BY <2>3, <2>4
<1>4. ASSUME NEW c \in Clients, NEW s \in Showtimes, Subscribe(c, s), NEW d \in Clients
      PROVE  GenuineFor(d)'
  <2>1. PICK k : k = [Off EXCEPT !.at = "subscribed", !.show = s]
    OBVIOUS
  <2>2. k \in Connection /\ k.at = "subscribed" /\ k.show = s /\ k.payload = 0
    BY <2>1 DEF Off, Connection
  <2>3. /\ GotoClient(c, k) /\ client[c].at = "off" /\ inbox' = [inbox EXCEPT ![c] = <<>>]
        /\ UNCHANGED <<version, newest>>
    BY <1>4, <2>1 DEF Subscribe, seats
  <2>4. newest[c] = 0 /\ version[s] \in Nat
    BY <1>0, <2>3 DEF Genuine, GenuineFor
  <2>5. inbox'[c] = <<>> /\ \A e \in Clients \ {c} : inbox'[e] = inbox[e]
    BY <1>0, <2>3
  <2>6. DOMAIN inbox'[c] = {}
    BY <2>5
  <2> QED BY <1>2, <2>2, <2>3, <2>4, <2>5, <2>6
<1>5. ASSUME NEW c \in Clients, Unsubscribe(c), NEW d \in Clients PROVE GenuineFor(d)'
  <2>1. Off \in Connection /\ Off.at = "off"
    BY DEF Off, Connection
  <2>2. /\ GotoClient(c, Off) /\ inbox' = [inbox EXCEPT ![c] = <<>>]
        /\ newest' = [newest EXCEPT ![c] = 0] /\ UNCHANGED version
    BY <1>5 DEF Unsubscribe, seats
  <2>3. newest'[c] = 0 /\ \A e \in Clients \ {c} : inbox'[e] = inbox[e] /\ newest'[e] = newest[e]
    BY <1>0, <2>2
  <2> QED BY <1>2, <2>1, <2>2, <2>3
<1>6. ASSUME NEW c \in Clients, NEW d \in Clients,
             Snapshot(c) \/ SnapshotFails(c) \/ Write(c) \/ Receive(c) \/ Quit(c)
      PROVE  GenuineFor(d)'
  <2>0. /\ client[c] \in Connection /\ client[c].at # "off"
        /\ UNCHANGED version
    BY <1>0, <1>6 DEF Snapshot, SnapshotFails, Write, Receive, Quit, seats
  <2>1. PICK s : s = client[c].show
    OBVIOUS
  <2>2. OnlyPast(c, s) /\ s \in Showtimes /\ version[s] \in Nat
    BY <1>0, <2>0, <2>1 DEF Genuine, GenuineFor, Fed, HubOK
  <2>3. CASE Snapshot(c)
    <3>1. PICK k : k = [client[c] EXCEPT !.at = "write", !.payload = version[s]]
      OBVIOUS
    <3>2. k \in Connection /\ k.at = "write" /\ k.show = s /\ k.payload = version[s]
      BY <2>0, <2>1, <2>2, <3>1 DEF Connection
    <3>3. GotoClient(c, k) /\ UNCHANGED <<version, inbox, newest>>
      BY <2>1, <2>3, <3>1 DEF Snapshot, seats, hub
    <3>4. k.payload <= version[s]
      BY <2>2, <3>2
    <3> QED BY <1>2, <2>2, <3>2, <3>3, <3>4 DEF OnlyPast
  <2>4. CASE SnapshotFails(c)
    <3>1. PICK k : k = [client[c] EXCEPT !.at = "streaming"]
      OBVIOUS
    <3>2. k \in Connection /\ k.at = "streaming" /\ k.show = s /\ k.payload = client[c].payload
      BY <2>0, <2>1, <3>1 DEF Connection
    <3>3. GotoClient(c, k) /\ UNCHANGED <<version, inbox, newest>>
      BY <2>4, <3>1 DEF SnapshotFails, seats, hub
    <3> QED BY <1>2, <2>2, <3>2, <3>3 DEF OnlyPast
  <2>5. CASE Quit(c)
    <3>1. PICK k : k = [client[c] EXCEPT !.at = "closing", !.payload = 0]
      OBVIOUS
    <3>2. k \in Connection /\ k.at = "closing" /\ k.show = s /\ k.payload = 0
      BY <2>0, <2>1, <3>1 DEF Connection
    <3>3. GotoClient(c, k) /\ UNCHANGED <<version, inbox, newest>>
      BY <2>5, <3>1 DEF Quit, seats, hub
    <3> QED BY <1>2, <2>2, <3>2, <3>3 DEF OnlyPast
  <2>6. CASE Write(c)
    <3>1. PICK k : k = [client[c] EXCEPT !.at = "streaming", !.payload = 0]
      OBVIOUS
    <3>2. k \in Connection /\ k.at = "streaming" /\ k.show = s /\ k.payload = 0
      BY <2>0, <2>1, <3>1 DEF Connection
    <3>3. GotoClient(c, k) /\ Shown(c, client[c].payload) /\ UNCHANGED <<version, inbox>>
      BY <2>6, <3>1 DEF Write, seats, hub
    <3>4. /\ newest'[c] \in {newest[c], client[c].payload}
          /\ \A e \in Clients \ {c} : newest'[e] = newest[e]
      BY <1>0, <3>3 DEF Shown
    <3>5. newest'[c] <= version[s]
      BY <2>2, <3>4 DEF OnlyPast
    <3> QED BY <1>2, <2>2, <3>2, <3>3, <3>4, <3>5 DEF OnlyPast
  <2>7. CASE Receive(c)
    <3>1. PICK q \in Seq(Nat) : q = inbox[c]
      BY <1>0
    <3>2. PICK k : k = [client[c] EXCEPT !.at = "write", !.payload = Head(q)]
      OBVIOUS
    <3>3. /\ q # <<>> /\ GotoClient(c, k) /\ inbox' = [inbox EXCEPT ![c] = Tail(q)]
          /\ UNCHANGED <<version, newest>>
      BY <2>7, <3>1, <3>2 DEF Receive, seats
    <3>4. /\ Head(q) \in Nat /\ Head(q) = q[1] /\ Tail(q) \in Seq(Nat)
          /\ Len(Tail(q)) = Len(q) - 1
          /\ \A i \in 1 .. Len(q) - 1 : Tail(q)[i] = q[i + 1]
      BY <3>3, HeadTailProperties
    <3>5. DOMAIN q = 1 .. Len(q) /\ Len(q) \in Nat \ {0} /\ DOMAIN Tail(q) = 1 .. Len(q) - 1
      BY <3>3, <3>4, LenProperties, EmptySeq
    <3>6. k \in Connection /\ k.at = "write" /\ k.show = s /\ k.payload = q[1]
      BY <2>0, <2>1, <3>2, <3>4 DEF Connection
    <3>7. inbox'[c] = Tail(q) /\ \A e \in Clients \ {c} : inbox'[e] = inbox[e]
      BY <1>0, <3>1, <3>3
    <3>8. \A i \in 1 .. Len(q) : q[i] <= version[s]
      BY <2>2, <3>1, <3>5 DEF OnlyPast
    <3>9. k.payload <= version[s] /\ newest'[c] <= version[s]
      <4>1. 1 \in 1 .. Len(q)
        BY <3>5
      <4> QED BY <2>2, <3>3, <3>6, <3>8, <4>1 DEF OnlyPast
    <3>10. ASSUME NEW i \in DOMAIN inbox'[c] PROVE inbox'[c][i] <= version[s]
      <4>1. i \in 1 .. Len(q) - 1 /\ i + 1 \in 1 .. Len(q)
        BY <3>5, <3>7, <3>10
      <4> QED BY <3>4, <3>7, <3>8, <4>1
    <3> QED BY <1>2, <3>3, <3>6, <3>7, <3>9, <3>10
  <2> QED BY <1>6, <2>3, <2>4, <2>5, <2>6, <2>7
<1>7. ASSUME NEW c \in Clients,
             \/ UNCHANGED vars
             \/ \E s \in Showtimes : Expire(s)
             \/ \E w \in Workers : \/ \E s \in Showtimes : Change(w, s) \/ ChangeUnconfirmed(w, s)
                                   \/ Release(w) \/ ReleaseUnconfirmed(w) \/ BuildFails(w)
                                   \/ (Proceed(w) /\ ~Send(w))
      PROVE  GenuineFor(c)'
  <2>1. UNCHANGED <<client, inbox, newest>>
    BY <1>7 DEF vars, hub, Expire, Change, ChangeUnconfirmed, Release, ReleaseUnconfirmed,
                   BuildFails, Proceed, List, Build, Lock, Unlock, Done
  <2> QED BY <1>1, <2>1
<1> QED BY <1>3, <1>4, <1>5, <1>6, <1>7 DEF Next, Stream

-----------------------------------------------------------------------------
(* A broadcast comes to its end.                                           *)

StagesLeft(t) ==
  CASE t.at = "lock" -> 2
    [] t.at = "send" -> 1
    [] OTHER -> 0

\* t is nearer to the end of a worker's broadcasts than s.
Nearer(s, t) ==
  \/ t.at = "idle"
  \/ s.at = "list" /\ t.at = "next"
  \/ t.left \subseteq s.left /\ t.left # s.left
  \/ t.left = s.left /\ StagesLeft(t) < StagesLeft(s)
  \/ t.left = s.left /\ t.at = s.at /\ t.to \subseteq s.to /\ t.to # s.to

\* A worker broadcasts to each showtime at most once, sends to each of its
\* channels at most once, and goes on whether the client reads or not.
BroadcastsGoForward ==
  [][\A w \in Workers : tx[w].at # "idle" /\ tx'[w] # tx[w] => Nearer(tx[w], tx'[w])]_vars

LEMMA ProceedNearer ==
  ASSUME Fed, NEW w \in Workers, Proceed(w) \/ BuildFails(w)
  PROVE  Nearer(tx[w], tx'[w]) /\ \A v \in Workers \ {w} : tx'[v] = tx[v]
<1>0. tx[w] \in Work
  BY DEF Fed, TypeOK
<1>1. ASSUME NEW t, GotoWork(w, t), Nearer(tx[w], t)
      PROVE  Nearer(tx[w], tx'[w]) /\ \A v \in Workers \ {w} : tx'[v] = tx[v]
  BY <1>1, GotoWorkers DEF Fed
<1>2. CASE List(w)
  <2>1. PICK t : t = [tx[w] EXCEPT !.at = "next", !.left = {s \in Showtimes : subscribers[s] # {}}]
    OBVIOUS
  <2>2. GotoWork(w, t) /\ t.at = "next" /\ tx[w].at = "list"
    BY <1>0, <1>2, <2>1 DEF List, Work
  <2> QED BY <1>1, <2>2 DEF Nearer
<1>3. CASE Done(w)
  BY <1>1, <1>3 DEF Done, Idle, Nearer
<1>4. CASE Build(w)
  <2>1. PICK x \in tx[w].left :
          GotoWork(w, [tx[w] EXCEPT !.at = "lock", !.left = @ \ {x}, !.show = x,
                                    !.payload = version[x]])
    BY <1>4 DEF Build
  <2>2. PICK t : t = [tx[w] EXCEPT !.at = "lock", !.left = @ \ {x}, !.show = x,
                                   !.payload = version[x]]
    OBVIOUS
  <2>3. t.left = tx[w].left \ {x}
    BY <1>0, <2>2 DEF Work
  <2> QED BY <1>1, <2>1, <2>2, <2>3 DEF Nearer
<1>5. CASE BuildFails(w)
  <2>1. PICK x \in tx[w].left : GotoWork(w, [tx[w] EXCEPT !.left = @ \ {x}])
    BY <1>5 DEF BuildFails
  <2>2. PICK t : t = [tx[w] EXCEPT !.left = @ \ {x}]
    OBVIOUS
  <2>3. t.left = tx[w].left \ {x}
    BY <1>0, <2>2 DEF Work
  <2> QED BY <1>1, <2>1, <2>2, <2>3 DEF Nearer
<1>6. CASE Lock(w)
  <2>1. PICK t : t = [tx[w] EXCEPT !.at = "send", !.to = subscribers[tx[w].show]]
    OBVIOUS
  <2>2. GotoWork(w, t) /\ t.at = "send" /\ t.left = tx[w].left /\ tx[w].at = "lock"
    BY <1>0, <1>6, <2>1 DEF Lock, Work
  <2> QED BY <1>1, <2>2 DEF Nearer, StagesLeft
<1>7. CASE Send(w)
  <2>1. PICK c \in tx[w].to : GotoWork(w, [tx[w] EXCEPT !.to = @ \ {c}])
    BY <1>7 DEF Send
  <2>2. PICK t : t = [tx[w] EXCEPT !.to = @ \ {c}]
    OBVIOUS
  <2>3. t.left = tx[w].left /\ t.at = tx[w].at /\ t.to = tx[w].to \ {c}
    BY <1>0, <2>2 DEF Work
  <2> QED BY <1>1, <2>1, <2>2, <2>3 DEF Nearer
<1>8. CASE Unlock(w)
  <2>1. PICK t : t = [Idle EXCEPT !.at = "next", !.left = tx[w].left]
    OBVIOUS
  <2>2. GotoWork(w, t) /\ t.at = "next" /\ t.left = tx[w].left /\ tx[w].at = "send"
    BY <1>8, <2>1 DEF Unlock, Idle
  <2> QED BY <1>1, <2>2 DEF Nearer, StagesLeft
<1> QED BY <1>2, <1>3, <1>4, <1>5, <1>6, <1>7, <1>8 DEF Proceed

LEMMA NearerStep ==
  ASSUME Fed, [Next]_vars, NEW v \in Workers, tx[v].at # "idle", tx'[v] # tx[v]
  PROVE  Nearer(tx[v], tx'[v])
<1>1. ASSUME NEW w \in Workers, NEW s \in Showtimes, Change(w, s) PROVE FALSE
  BY <1>1, GotoWorkers DEF Change, Fed
<1>2. ASSUME NEW w \in Workers, Release(w) PROVE FALSE
  BY <1>2, GotoWorkers DEF Release, Fed
<1>3. ASSUME NEW w \in Workers, Proceed(w) \/ BuildFails(w) PROVE Nearer(tx[v], tx'[v])
  BY <1>3, ProceedNearer
<1>4. UNCHANGED tx \/ \E w \in Workers : \/ \E s \in Showtimes : Change(w, s)
                                         \/ Release(w) \/ Proceed(w) \/ BuildFails(w)
  BY DEF Next, Expire, ChangeUnconfirmed, ReleaseUnconfirmed, Stream, Subscribe, Snapshot,
         SnapshotFails, Receive, Write, Quit, Unsubscribe, vars
<1> QED BY <1>1, <1>2, <1>3, <1>4

-----------------------------------------------------------------------------
(* The theorems.                                                           *)

LEMMA InitFed == Init => Fed
<1> SUFFICES ASSUME Init PROVE Fed
  OBVIOUS
<1>1. Idle \in Work /\ Idle.at = "idle" /\ Idle.left = {}
  BY DEF Idle, Work
<1>2. Off \in Connection /\ Off.at = "off"
  BY DEF Off, Connection
<1>3. <<>> \in Seq(Nat) /\ Len(<<>>) <= Capacity
  BY BoundsAssumption
<1>4. TypeOK
  BY <1>1, <1>2, <1>3, BoundsAssumption DEF Init, TypeOK
<1>5. (\A w \in Workers : WorkOK(tx[w])) /\ HubOK
  BY <1>1, <1>2 DEF Init, WorkOK, HubOK
<1>6. NoNewsLost
  BY <1>2 DEF Init, NoNewsLost, Streaming
<1> QED BY <1>4, <1>5, <1>6 DEF Fed

LEMMA FedStep == Fed /\ [Next]_vars => Fed'
<1> SUFFICES ASSUME Fed, [Next]_vars PROVE Fed'
  OBVIOUS
<1>1. ASSUME NEW s \in Showtimes, Expire(s) PROVE Fed'
  BY <1>1, ExpireKeeps
<1>2. ASSUME NEW w \in Workers, NEW s \in Showtimes, Change(w, s) PROVE Fed'
  BY <1>2, ChangeKeeps
<1>3. ASSUME NEW w \in Workers, Release(w) PROVE Fed'
  BY <1>3, ReleaseKeeps
<1>4. ASSUME NEW w \in Workers, Proceed(w) \/ BuildFails(w) PROVE Fed'
  BY <1>4, ProceedKeeps
<1>5. ASSUME NEW w \in Workers, (\E s \in Showtimes : ChangeUnconfirmed(w, s)) \/ ReleaseUnconfirmed(w)
      PROVE  Fed'
  BY <1>5, UnconfirmedKeeps
<1>6. ASSUME NEW c \in Clients, Stream(c) PROVE Fed'
  BY <1>6, SubscribeKeeps, SnapshotKeeps, WriteKeeps, ReceiveKeeps, UnsubscribeKeeps DEF Stream
<1>7. ASSUME UNCHANGED vars PROVE Fed'
  <2>1. UNCHANGED <<version, expired, tx, subscribers, client, inbox, newest, missed, faults>>
    BY <1>7 DEF vars, seats, hub
  <2> QED BY <2>1 DEF Fed, TypeOK, WorkOK, HubOK, NoNewsLost, Covered, Pending, Streaming
<1> QED BY <1>1, <1>2, <1>3, <1>4, <1>5, <1>6, <1>7 DEF Next

\* Every reachable state satisfies the invariant: the hub's table agrees with
\* the handlers, and what is not yet shown is on its way.
THEOREM FeedFed == Spec => []Fed
BY InitFed, FedStep, PTL DEF Spec

\* Every variable keeps its shape, and no channel ever holds more payloads than
\* Broadcast's select lets in.
THEOREM FeedTyped == Spec => []TypeOK
<1>1. Fed => TypeOK
  BY DEF Fed
<1> QED BY <1>1, FeedFed, PTL

\* Broadcast never sends to a channel Unsubscribe has closed.
THEOREM ChannelsOpen == Spec => []OnlyOpenChannels
<1>1. Fed => OnlyOpenChannels
  BY DEF Fed, WorkOK, OnlyOpenChannels
<1> QED BY <1>1, FeedFed, PTL

\* No change falls between Subscribe, the first payload and the broadcasts of
\* StreamSeatsStatus.
THEOREM NewsCovered == Spec => []NoNewsLost
<1>1. Fed => NoNewsLost
  BY DEF Fed
<1> QED BY <1>1, FeedFed, PTL

\* No client is ever shown the seats of another showtime, or a state its
\* showtime's seats never had: Broadcast sends to the channels of one showtime
\* and a channel that is used again has been emptied.
THEOREM FeedGenuine == Spec => []Genuine
<1>1. Init => Genuine
  <2> SUFFICES ASSUME Init PROVE Genuine
    OBVIOUS
  <2>1. \A c \in Clients : GenuineFor(c)
    BY DEF Init, GenuineFor, Off
  <2>2. \A w \in Workers : GenuineOf(w)
    BY DEF Init, GenuineOf, Idle
  <2> QED BY <2>1, <2>2 DEF Genuine
<1>2. Fed /\ Genuine /\ [Next]_vars => Genuine'
  BY WorkersGenuine, ClientsGenuine DEF Genuine
<1> QED BY <1>1, <1>2, FeedFed, PTL DEF Spec

\* No broadcast goes on for ever or waits for a client: each step of a worker
\* leaves fewer showtimes, stages or channels.
THEOREM BroadcastsProgress == Spec => BroadcastsGoForward
<1>1. Fed /\ [Next]_vars =>
        [\A w \in Workers : tx[w].at # "idle" /\ tx'[w] # tx[w] => Nearer(tx[w], tx'[w])]_vars
  BY NearerStep
<1> QED BY <1>1, FeedFed, PTL DEF Spec, BroadcastsGoForward

=============================================================================
