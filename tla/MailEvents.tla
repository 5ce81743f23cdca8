----------------------------- MODULE MailEvents -----------------------------
(***************************************************************************)
(* From a committed message to the list on the screen: the transactional   *)
(* outbox and its relays, the hub that pushes to WebSockets, and the       *)
(* webmail page that fetches its list anew for every push and after every  *)
(* reconnect.                                                              *)
(*                                                                         *)
(* A message commits with its event in one transaction; the event's number *)
(* is drawn before, so numbers may become visible in any order.  A list is *)
(* the set of messages it shows.  The hub's channel carries events, but    *)
(* all the page does with one is fetch, so the channel is its length.  One *)
(* page of one mailbox is followed; instances of the service each have a   *)
(* relay and a hub.                                                        *)
(***************************************************************************)
EXTENDS Integers, FiniteSets

CONSTANTS
    Instances,    \* instances of the protocols service
    Buffer,       \* subscriberBuffer
    BatchSize,    \* OutboxRelay.batchSize
    MaxMessages,  \* bound: messages delivered
    MaxFetches,   \* bound: list requests of the page
    MaxFaults     \* bound: crashes, broken connections and failed calls

ASSUME EventsAssumption ==
    /\ Buffer \in Nat \ {0} /\ BatchSize \in Nat \ {0}
    /\ MaxMessages \in Nat /\ MaxFetches \in Nat \ {0} /\ MaxFaults \in Nat

VARIABLES
    committed,  \* messages in the mailbox, and rows in domain_events_outbox
    published,  \* events with published_at
    relay,      \* the relay of each instance
    pubs,       \* events handed to a hub (observation)
    sock,       \* the page's WebSocket
    at,         \* the instance it is connected to
    buf,        \* sub.events: how many wait
    fetches,    \* list requests in flight
    asked,      \* requests made so far
    error,      \* the page shows that a request failed
    shown,      \* every message the page's list has shown (observation)
    missed,     \* since the page's last request an event was pushed where it
                \* was not yet (observation)
    faults

client == <<sock, at, buf, fetches, asked, error, shown, missed>>
eventsVars == <<committed, published, relay, pubs, client, faults>>

Events == 1..MaxMessages

Request(n) == [id |-> n, read |-> FALSE, shows |-> {}]

Resting == [pc |-> "idle", batch |-> {}, left |-> {}]

\* The request a page makes when its folder is opened is already under way.
EventsInit ==
    /\ committed = {}
    /\ published = {}
    /\ relay = [i \in Instances |-> Resting]
    /\ pubs = {}
    /\ sock = "down"
    /\ at \in Instances
    /\ buf = 0
    /\ fetches = {Request(1)}
    /\ asked = 1
    /\ error = FALSE
    /\ shown = {}
    /\ missed = FALSE
    /\ faults = 0

Faulty == faults < MaxFaults /\ faults' = faults + 1

-----------------------------------------------------------------------------
(***************************************************************************)
(* A delivery commits, its event in the same transaction.                  *)
(***************************************************************************)
Commit(e) ==
    /\ e \notin committed
    /\ committed' = committed \cup {e}
    /\ UNCHANGED <<published, relay, pubs, client, faults>>

(***************************************************************************)
(* FetchUnpublished takes the first rows that are not published.  It runs  *)
(* outside a transaction: its row locks are gone when it returns, so       *)
(* another relay may fetch the same rows.                                  *)
(***************************************************************************)
Unpublished == committed \ published

\* Mutant of Batch: the relay goes on after the last event it published.
BatchAfterLast ==
    LET new == {e \in committed : \A p \in published : p < e}
    IN  {e \in new : Cardinality({x \in new : x < e}) < BatchSize}

Batch ==
    {e \in Unpublished : Cardinality({x \in Unpublished : x < e}) < BatchSize}

FetchUnpublished(i) ==
    /\ relay[i].pc = "idle"
    /\ Batch # {}
    /\ relay' = [relay EXCEPT ![i] = [pc |-> "publish", batch |-> Batch,
                                      left |-> Batch]]
    /\ UNCHANGED <<committed, published, pubs, client, faults>>

(***************************************************************************)
(* A full channel does not take the event.                                 *)
(***************************************************************************)
Push(n) == IF n < Buffer THEN n + 1 ELSE n

(***************************************************************************)
(* Publish hands the event to the hub, which passes it to the page if it   *)
(* is subscribed here.                                                     *)
(***************************************************************************)
Publish(i) ==
    /\ relay[i].pc = "publish"
    /\ relay[i].left # {}
    /\ LET e == CHOOSE x \in relay[i].left : \A y \in relay[i].left : x <= y
       IN  /\ relay' = [relay EXCEPT ![i].left = @ \ {e}]
           /\ pubs' = pubs \cup {e}
    /\ buf' = IF sock = "joined" /\ at = i THEN Push(buf) ELSE buf
    /\ missed' = (missed \/ (sock # "down" /\ ~(sock = "joined" /\ at = i)))
    /\ UNCHANGED <<committed, published, sock, at, fetches, asked, error, shown,
                   faults>>

(***************************************************************************)
(* MarkPublished; if it fails the rows are fetched again.                  *)
(***************************************************************************)
MarkPublished(i) ==
    /\ relay[i].pc = "publish"
    /\ relay[i].left = {}
    /\ \/ published' = published \cup relay[i].batch /\ UNCHANGED faults
       \/ Faulty /\ UNCHANGED published
    /\ relay' = [relay EXCEPT ![i] = Resting]
    /\ UNCHANGED <<committed, pubs, client>>

(***************************************************************************)
(* An instance dies: its relay, its hub and its connections with it.       *)
(***************************************************************************)
Crash(i) ==
    /\ Faulty
    /\ relay' = [relay EXCEPT ![i] = Resting]
    /\ sock' = IF at = i THEN "down" ELSE sock
    /\ buf' = IF at = i THEN 0 ELSE buf
    /\ UNCHANGED <<committed, published, pubs, at, fetches, asked, error, shown,
                   missed>>

-----------------------------------------------------------------------------
(***************************************************************************)
(* loadMessages clears the error and makes a request.                      *)
(***************************************************************************)
Load ==
    /\ asked < MaxFetches
    /\ asked' = asked + 1
    /\ fetches' = fetches \cup {Request(asked + 1)}
    /\ error' = FALSE
    /\ missed' = FALSE

\* Mutant of Resync: a reconnect fetches nothing.
NoResync == UNCHANGED <<asked, fetches, error, missed>>

(***************************************************************************)
(* Every (re)connect is followed by a fetch.                               *)
(***************************************************************************)
Resync == Load

Connect(i) ==
    /\ sock = "down"
    /\ sock' = "open"
    /\ at' = i
    /\ buf' = 0
    /\ Resync
    /\ UNCHANGED <<committed, published, relay, pubs, shown, faults>>

(***************************************************************************)
(* The connection is accepted before it is added to the hub.               *)
(***************************************************************************)
Add ==
    /\ sock = "open"
    /\ sock' = "joined"
    /\ UNCHANGED <<committed, published, relay, pubs, at, buf, fetches, asked,
                   error, shown, missed, faults>>

(***************************************************************************)
(* An event is written to the socket and the page fetches its list.        *)
(***************************************************************************)
WriteEvent ==
    /\ sock = "joined"
    /\ buf > 0
    /\ buf' = buf - 1
    /\ Load
    /\ UNCHANGED <<committed, published, relay, pubs, sock, at, shown, faults>>

Disconnect ==
    /\ sock # "down"
    /\ Faulty
    /\ sock' = "down"
    /\ buf' = 0
    /\ UNCHANGED <<committed, published, relay, pubs, at, fetches, asked, error,
                   shown, missed>>

(***************************************************************************)
(* The server reads the list for a request.                                *)
(***************************************************************************)
ReadList(f) ==
    /\ ~f.read
    /\ fetches' = (fetches \ {f})
                  \cup {[f EXCEPT !.read = TRUE, !.shows = committed]}
    /\ UNCHANGED <<committed, published, relay, pubs, sock, at, buf, asked, error,
                   shown, missed, faults>>

(***************************************************************************)
(* Whatever answer comes is shown.                                         *)
(***************************************************************************)
ShowList(f) ==
    /\ f.read
    /\ fetches' = fetches \ {f}
    /\ shown' = shown \cup f.shows
    /\ UNCHANGED <<committed, published, relay, pubs, sock, at, buf, asked,
                   error, missed, faults>>

(***************************************************************************)
(* A request fails, and the page says so until the next one.               *)
(***************************************************************************)
FetchFails(f) ==
    /\ Faulty
    /\ fetches' = fetches \ {f}
    /\ error' = TRUE
    /\ UNCHANGED <<committed, published, relay, pubs, sock, at, buf, asked, shown,
                   missed>>

RelayStep(i) == FetchUnpublished(i) \/ Publish(i) \/ MarkPublished(i)

PageStep ==
    \/ Add \/ WriteEvent
    \/ \E i \in Instances : Connect(i)
    \/ \E f \in fetches : ReadList(f) \/ ShowList(f) \/ FetchFails(f)

EventsNext ==
    \/ PageStep \/ Disconnect
    \/ \E e \in Events : Commit(e)
    \/ \E i \in Instances : RelayStep(i) \/ Crash(i)

EventsSpec == EventsInit /\ [][EventsNext]_eventsVars

(***************************************************************************)
(* The relay's ticker fires every second for as long as an instance runs.  *)
(***************************************************************************)
FairEventsSpec ==
    EventsSpec /\ \A i \in Instances : WF_eventsVars(RelayStep(i))

-----------------------------------------------------------------------------
(***************************************************************************)
(* Properties                                                              *)
(***************************************************************************)

\* Rows, channel and requests stay in their types; the channel stays within
\* its buffer.
EventsTypeOK ==
    /\ committed \subseteq Events
    /\ published \subseteq committed
    /\ relay \in [Instances -> [pc: {"idle", "publish"}, batch: SUBSET Events,
                                left: SUBSET Events]]
    /\ pubs \subseteq Events
    /\ sock \in {"down", "open", "joined"}
    /\ at \in Instances
    /\ buf \in 0..Buffer
    /\ fetches \subseteq [id: 1..MaxFetches, read: BOOLEAN,
                           shows: SUBSET committed]
    /\ asked \in 1..MaxFetches
    /\ shown \subseteq committed
    /\ error \in BOOLEAN /\ missed \in BOOLEAN
    /\ faults \in 0..MaxFaults

Quiet ==
    /\ sock = "joined" /\ buf = 0 /\ fetches = {}
    /\ Unpublished = {}
    /\ \A i \in Instances : relay[i].pc = "idle"

\* When everything has been pushed and answered, and no failure is on the
\* screen, the page has shown every message: although the hub drops events
\* when a channel is full, those still in it bring the list up to date, and a
\* reconnect makes up for what was pushed meanwhile.  A push that falls
\* between accept and add, or goes to another instance's hub, is excepted,
\* until the page's next request.
QuietPageHasShownAll == Quiet /\ ~missed /\ ~error => shown = committed

\* Every event is handed to a hub in the end, crashes and failed updates
\* included, whatever the order in which the rows become visible: "a crash
\* between commit and publish loses nothing" (outbox_relay.go).
AllEventsPublished ==
    \A e \in Events : e \in committed ~> e \in pubs
=============================================================================
