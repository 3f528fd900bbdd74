------------------------------ MODULE SeatFeed ------------------------------
(***************************************************************************)
(* The live seat feed: realtime.SeatHub, the handlers that broadcast after  *)
(* a change, the expired-hold releaser, and the WebSocket handler           *)
(* StreamSeatsStatus.                                                      *)
(*                                                                         *)
(* What the seats of a showtime look like is the number of changes they    *)
(* have seen; a payload is the number it shows.  Channel sends go on under  *)
(* the hub's read lock; whoever takes the write lock does all its work in   *)
(* one step, when no broadcast holds the read lock.                        *)
(***************************************************************************)
EXTENDS Naturals, FiniteSets, Sequences

CONSTANTS
  Showtimes,
  Handlers,    \* goroutines that serve requests which change seats
  Releaser,    \* the goroutine of StartExpiredHoldReleaser
  Clients,     \* WebSocket connections
  None,
  Capacity,    \* of a subscriber's channel
  MaxVersion,  \* bound on the changes of a showtime
  MaxFaults    \* bound on lost replies and payloads that cannot be built

Workers == Handlers \cup {Releaser}

ASSUME NamesAssumption == None \notin Showtimes /\ Releaser \notin Handlers
ASSUME BoundsAssumption ==
  Capacity \in Nat \ {0} /\ MaxVersion \in Nat /\ MaxFaults \in Nat

VARIABLES
  version,      \* per showtime: changes of what GetSeatsStatus returns
  expired,      \* showtimes with a hold that has run out and is still HOLDING
  tx,           \* what each worker is doing
  subscribers,  \* per showtime: the clients whose channels the hub knows
  client,       \* what each client's handler is doing
  inbox,        \* per client: its channel
  newest,       \* per client: the newest payload it was sent (history)
  missed,       \* clients for whom a payload was dropped or never built (history)
  faults        \* failures so far

seats == <<version, expired>>
hub == <<subscribers, inbox>>

vars == <<seats, tx, hub, client, newest, missed, faults>>

-----------------------------------------------------------------------------
(* Workers and clients.                                                    *)

\* left are the showtimes still to broadcast, to the channels still to send to.
Work == [at : {"idle", "list", "next", "lock", "send"}, left : SUBSET Showtimes,
         show : Showtimes \cup {None}, payload : Nat, to : SUBSET Clients]

Idle == [at |-> "idle", left |-> {}, show |-> None, payload |-> 0, to |-> {}]

Connection == [at : {"off", "subscribed", "write", "streaming", "closing"},
               show : Showtimes \cup {None}, payload : Nat]

Off == [at |-> "off", show |-> None, payload |-> 0]

GotoWork(w, t) == tx' = [tx EXCEPT ![w] = t]

GotoClient(c, k) == client' = [client EXCEPT ![c] = k]

\* The write lock is free.
Unlocked == \A w \in Workers : tx[w].at # "send"

-----------------------------------------------------------------------------
(* Changes of the seats.                                                   *)

\* A hold, confirm or cancel has committed; it may have settled the expired
\* holds of the showtime.
Change(w, s) ==
  /\ tx[w].at = "idle" /\ w # Releaser
  /\ version[s] < MaxVersion
  /\ version' = [version EXCEPT ![s] = @ + 1]
  /\ expired' \in {expired, expired \ {s}}
  /\ GotoWork(w, [Idle EXCEPT !.at = "next", !.left = {s}])
  /\ UNCHANGED <<hub, client, newest, missed, faults>>

\* A hold runs out: its seats show as available from now on.
Expire(s) ==
  /\ version[s] < MaxVersion
  /\ version' = [version EXCEPT ![s] = @ + 1]
  /\ expired' = expired \cup {s}
  /\ UNCHANGED <<tx, hub, client, newest, missed, faults>>

\* Mistake: the ticker's goroutine releases and tells nobody.
ReleaseUnheard(w) ==
  /\ tx[w].at = "idle"
  /\ w = Releaser => expired # {}
  /\ expired' = {}
  /\ GotoWork(w, IF w = Releaser THEN Idle ELSE [Idle EXCEPT !.at = "list"])
  /\ UNCHANGED <<version, hub, client, newest, missed, faults>>

\* ReleaseExpiredHolds has committed.  The ticker's goroutine broadcasts only
\* if it released something, an administrator's request always.
Release(w) ==
  /\ tx[w].at = "idle"
  /\ w = Releaser => expired # {}
  /\ expired' = {}
  /\ GotoWork(w, [Idle EXCEPT !.at = "list"])
  /\ UNCHANGED <<version, hub, client, newest, missed, faults>>

\* The rows are changed, but the reply to the commit is lost: the handler
\* reports an error and broadcasts nothing.
ChangeUnconfirmed(w, s) ==
  /\ tx[w].at = "idle" /\ w # Releaser
  /\ version[s] < MaxVersion
  /\ faults < MaxFaults /\ faults' = faults + 1
  /\ version' = [version EXCEPT ![s] = @ + 1]
  /\ expired' \in {expired, expired \ {s}}
  /\ missed' = missed \cup subscribers[s]
  /\ UNCHANGED <<tx, hub, client, newest>>

ReleaseUnconfirmed(w) ==
  /\ tx[w].at = "idle" /\ expired # {}
  /\ faults < MaxFaults /\ faults' = faults + 1
  /\ expired' = {}
  /\ missed' = missed \cup UNION {subscribers[s] : s \in expired}
  /\ UNCHANGED <<version, tx, hub, client, newest>>

\* ShowtimeIDs
List(w) ==
  /\ tx[w].at = "list"
  /\ GotoWork(w, [tx[w] EXCEPT !.at = "next",
                               !.left = {s \in Showtimes : subscribers[s] # {}}])
  /\ UNCHANGED <<seats, hub, client, newest, missed, faults>>

Done(w) ==
  /\ tx[w].at = "next" /\ tx[w].left = {}
  /\ GotoWork(w, Idle)
  /\ UNCHANGED <<seats, hub, client, newest, missed, faults>>

-----------------------------------------------------------------------------
(* broadcastSeats.                                                         *)

\* buildSeatsPayload
Build(w) ==
  /\ tx[w].at = "next"
  /\ \E s \in tx[w].left :
       GotoWork(w, [tx[w] EXCEPT !.at = "lock", !.left = @ \ {s}, !.show = s,
                                 !.payload = version[s]])
  /\ UNCHANGED <<seats, hub, client, newest, missed, faults>>

\* The seats cannot be read; nothing is broadcast.
BuildFails(w) ==
  /\ tx[w].at = "next"
  /\ faults < MaxFaults /\ faults' = faults + 1
  /\ \E s \in tx[w].left :
       /\ GotoWork(w, [tx[w] EXCEPT !.left = @ \ {s}])
       /\ missed' = missed \cup subscribers[s]
  /\ UNCHANGED <<seats, hub, client, newest>>

\* Broadcast takes the read lock.
Lock(w) ==
  /\ tx[w].at = "lock"
  /\ GotoWork(w, [tx[w] EXCEPT !.at = "send", !.to = subscribers[tx[w].show]])
  /\ UNCHANGED <<seats, hub, client, newest, missed, faults>>

\* Mistake: the send is tried again until the channel has room.
SendSpins(w) ==
  /\ tx[w].at = "send"
  /\ \E c \in tx[w].to :
       \/ /\ Len(inbox[c]) < Capacity
          /\ inbox' = [inbox EXCEPT ![c] = Append(@, tx[w].payload)]
          /\ GotoWork(w, [tx[w] EXCEPT !.to = @ \ {c}])
       \/ /\ Len(inbox[c]) >= Capacity
          /\ UNCHANGED <<inbox, tx>>
  /\ UNCHANGED <<seats, subscribers, client, newest, missed, faults>>

\* Mistake: one payload too many is put into a channel.
SendBeyond(w) ==
  /\ tx[w].at = "send"
  /\ \E c \in tx[w].to :
       /\ Len(inbox[c]) <= Capacity
       /\ inbox' = [inbox EXCEPT ![c] = Append(@, tx[w].payload)]
       /\ GotoWork(w, [tx[w] EXCEPT !.to = @ \ {c}])
  /\ UNCHANGED <<seats, subscribers, client, newest, missed, faults>>

\* The payload goes into one more channel, or is dropped if the channel is full.
Send(w) ==
  /\ tx[w].at = "send"
  /\ \E c \in tx[w].to :
       /\ \/ /\ Len(inbox[c]) < Capacity
             /\ inbox' = [inbox EXCEPT ![c] = Append(@, tx[w].payload)]
             /\ UNCHANGED missed
          \/ /\ Len(inbox[c]) >= Capacity
             /\ missed' = missed \cup {c}
             /\ UNCHANGED inbox
       /\ GotoWork(w, [tx[w] EXCEPT !.to = @ \ {c}])
  /\ UNCHANGED <<seats, subscribers, client, newest, faults>>

Unlock(w) ==
  /\ tx[w].at = "send" /\ tx[w].to = {}
  /\ GotoWork(w, [Idle EXCEPT !.at = "next", !.left = tx[w].left])
  /\ UNCHANGED <<seats, hub, client, newest, missed, faults>>

-----------------------------------------------------------------------------
(* StreamSeatsStatus.                                                      *)

Subscribe(c, s) ==
  /\ client[c].at = "off"
  /\ Unlocked
  /\ subscribers' = [subscribers EXCEPT ![s] = @ \cup {c}]
  /\ inbox' = [inbox EXCEPT ![c] = <<>>]
  /\ GotoClient(c, [Off EXCEPT !.at = "subscribed", !.show = s])
  /\ UNCHANGED <<seats, tx, newest, missed, faults>>

\* Mistake: no first payload.
SnapshotSkipped(c) ==
  /\ client[c].at = "subscribed"
  /\ GotoClient(c, [client[c] EXCEPT !.at = "streaming"])
  /\ UNCHANGED <<seats, tx, hub, newest, missed, faults>>

\* The first payload is built.
Snapshot(c) ==
  /\ client[c].at = "subscribed"
  /\ GotoClient(c, [client[c] EXCEPT !.at = "write", !.payload = version[client[c].show]])
  /\ UNCHANGED <<seats, tx, hub, newest, missed, faults>>

\* Without a first payload the client waits for the next broadcast.
SnapshotFails(c) ==
  /\ client[c].at = "subscribed"
  /\ faults < MaxFaults /\ faults' = faults + 1
  /\ GotoClient(c, [client[c] EXCEPT !.at = "streaming"])
  /\ missed' = missed \cup {c}
  /\ UNCHANGED <<seats, tx, hub, newest>>

Shown(c, p) == newest' = [newest EXCEPT ![c] = IF p > @ THEN p ELSE @]

\* One payload is taken from the channel.
Receive(c) ==
  /\ client[c].at = "streaming" /\ inbox[c] # <<>>
  /\ GotoClient(c, [client[c] EXCEPT !.at = "write", !.payload = Head(inbox[c])])
  /\ inbox' = [inbox EXCEPT ![c] = Tail(@)]
  /\ UNCHANGED <<seats, tx, subscribers, newest, missed, faults>>

\* The connection takes what is written to it.
Write(c) ==
  /\ client[c].at = "write"
  /\ GotoClient(c, [client[c] EXCEPT !.at = "streaming", !.payload = 0])
  /\ Shown(c, client[c].payload)
  /\ UNCHANGED <<seats, tx, hub, missed, faults>>

\* A write fails or the client is gone.
Quit(c) ==
  /\ client[c].at \in {"write", "streaming"}
  /\ GotoClient(c, [client[c] EXCEPT !.at = "closing", !.payload = 0])
  /\ UNCHANGED <<seats, tx, hub, newest, missed, faults>>

\* Mistake: the channel is closed without the lock.
UnsubscribeUnlocked(c) ==
  /\ client[c].at = "closing"
  /\ subscribers' = [subscribers EXCEPT ![client[c].show] = @ \ {c}]
  /\ inbox' = [inbox EXCEPT ![c] = <<>>]
  /\ GotoClient(c, Off)
  /\ newest' = [newest EXCEPT ![c] = 0]
  /\ missed' = missed \ {c}
  /\ UNCHANGED <<seats, tx, faults>>

\* The channel is forgotten and closed.
Unsubscribe(c) ==
  /\ client[c].at = "closing"
  /\ Unlocked
  /\ subscribers' = [subscribers EXCEPT ![client[c].show] = @ \ {c}]
  /\ inbox' = [inbox EXCEPT ![c] = <<>>]
  /\ GotoClient(c, Off)
  /\ newest' = [newest EXCEPT ![c] = 0]
  /\ missed' = missed \ {c}
  /\ UNCHANGED <<seats, tx, faults>>

-----------------------------------------------------------------------------

Init ==
  /\ version = [s \in Showtimes |-> 0]
  /\ expired = {}
  /\ tx = [w \in Workers |-> Idle]
  /\ subscribers = [s \in Showtimes |-> {}]
  /\ client = [c \in Clients |-> Off]
  /\ inbox = [c \in Clients |-> <<>>]
  /\ newest = [c \in Clients |-> 0]
  /\ missed = {}
  /\ faults = 0

\* The steps of a broadcast that has begun.
Proceed(w) == List(w) \/ Build(w) \/ Lock(w) \/ Send(w) \/ Unlock(w) \/ Done(w)

Stream(c) ==
  \/ \E s \in Showtimes : Subscribe(c, s)
  \/ Snapshot(c) \/ SnapshotFails(c) \/ Receive(c) \/ Write(c) \/ Quit(c) \/ Unsubscribe(c)

Next ==
  \/ \E s \in Showtimes : Expire(s)
  \/ \E w \in Workers :
       \/ \E s \in Showtimes : Change(w, s) \/ ChangeUnconfirmed(w, s)
       \/ Release(w) \/ ReleaseUnconfirmed(w) \/ Proceed(w) \/ BuildFails(w)
  \/ \E c \in Clients : Stream(c)

Spec == Init /\ [][Next]_vars

\* Goroutines run and the ticker ticks.  Nothing is said of the clients: a
\* write to one that does not read may block for ever.
Fairness ==
  /\ \A w \in Workers : WF_vars(Proceed(w))
  /\ WF_vars(Release(Releaser))

FairSpec == Spec /\ Fairness

-----------------------------------------------------------------------------
(* Properties.                                                             *)

\* Every variable has the shape the code gives it; a channel never holds more
\* than its capacity.
TypeOK ==
  /\ version \in [Showtimes -> 0 .. MaxVersion]
  /\ expired \subseteq Showtimes
  /\ tx \in [Workers -> Work]
  /\ subscribers \in [Showtimes -> SUBSET Clients]
  /\ client \in [Clients -> Connection]
  /\ inbox \in [Clients -> Seq(Nat)]
  /\ \A c \in Clients : Len(inbox[c]) <= Capacity
  /\ newest \in [Clients -> Nat]
  /\ missed \subseteq Clients
  /\ faults \in 0 .. MaxFaults

\* A broadcast only sends to channels that are still open: a send to a closed
\* one would panic.
OnlyOpenChannels ==
  \A w \in Workers : tx[w].at = "send" => tx[w].to \subseteq subscribers[tx[w].show]

Streaming(c) == client[c].at \in {"write", "streaming"}

\* w will still send c a payload that shows all changes of s.
Pending(w, c, s) ==
  \/ tx[w].at = "list"
  \/ s \in tx[w].left
  \/ tx[w].show = s /\ tx[w].payload >= version[s]
     /\ (tx[w].at = "lock" \/ (tx[w].at = "send" /\ c \in tx[w].to))

\* The newest change has been shown to c, is on its way, or will be.
Covered(c, s) ==
  \/ newest[c] >= version[s]
  \/ client[c].at = "write" /\ client[c].payload >= version[s]
  \/ \E i \in DOMAIN inbox[c] : inbox[c][i] >= version[s]
  \/ s \in expired
  \/ \E w \in Workers : Pending(w, c, s)

\* Between subscribing, the first payload and the broadcasts no change falls
\* through, unless a payload was dropped, could not be built, or the change was
\* not confirmed.
NoNewsLost ==
  \A c \in Clients : Streaming(c) /\ c \notin missed => Covered(c, client[c].show)

\* Broadcasts end, even if no client ever reads.
BroadcastsEnd == \A w \in Workers : tx[w].at # "idle" ~> tx[w].at = "idle"

\* The client's connection takes what is written to it.
Reads(c) == []<>(client[c].at # "write" /\ inbox[c] = <<>>)

\* Every change, an expiry too, is shown to every client that reads.
NewsArrives ==
  \A c \in Clients : Reads(c) =>
    \A s \in Showtimes, n \in 1 .. MaxVersion :
      (Streaming(c) /\ client[c].show = s /\ version[s] >= n) ~>
        (newest[c] >= n \/ c \in missed \/ ~Streaming(c))

=============================================================================
