-------------------------- MODULE TimelineStream --------------------------
(***************************************************************************)
(* The event store's live feed and the Inspector that reads it.            *)
(*                                                                         *)
(* A connection first replays the stored events after the client's cursor  *)
(* and then forwards what is appended, through a bounded queue that the    *)
(* store fills.  The generator that does this is suspended wherever the    *)
(* socket makes it wait, so appends of other handlers fall between its     *)
(* steps.  The Inspector's cursor is the highest sequence it has applied;  *)
(* it reconnects from there.  It keeps the last events it applied, and     *)
(* looks for duplicates among those only.                                  *)
(*                                                                         *)
(* An event is its sequence number.  Two history variables say what became *)
(* of events where it happens: `skipped' collects those a client is not    *)
(* sent or shows no more, `overtaken' those of them that were under way to *)
(* it once more when they left its list.                                   *)
(***************************************************************************)
EXTENDS Naturals, Sequences, FiniteSets

CONSTANTS
    Client,
    ReplayLimit,     \* events one subscription replays (1000)
    HistoryLimit,    \* events one history request returns (5000)
    QueueSize,       \* events a subscriber's queue holds (256)
    Window,          \* events the Inspector keeps (1200)
    MaxEvents,       \* bound on the timeline
    MaxDisconnects   \* bound on lost connections, restarts and reloads

ASSUME LimitAssumption ==
    /\ ReplayLimit \in Nat \ {0}
    /\ HistoryLimit \in Nat \ {0}
    /\ QueueSize \in Nat \ {0}
    /\ Window \in Nat \ {0}
    /\ MaxEvents \in Nat
    /\ MaxDisconnects \in Nat

VARIABLES
    timeline,     \* the sequence number of the last event
    phase,        \* of each client's subscription
    rows,         \* what is left to replay
    queue,        \* the subscriber's queue
    wire,         \* messages sent and not yet applied
    cursor,       \* the Inspector's cursor
    events,       \* the events the Inspector keeps and shows, in its order
    page,         \* the answer to a history request, not yet applied
    skipped,
    overtaken,
    disconnects

subscription == <<phase, rows, queue>>
inspector    == <<cursor, events, page, overtaken>>
vars == <<timeline, phase, rows, queue, wire, cursor, events, page, skipped, overtaken,
          disconnects>>

NoPage == <<0>>   \* no event has sequence number 0

Elements(s) == {s[i] : i \in DOMAIN s}
Smaller(a, b) == IF a < b THEN a ELSE b
Larger(a, b)  == IF a < b THEN b ELSE a

\* Mutant: the first event after the cursor is left out.
ListEventsOffByOne(after, limit) ==
    [i \in 1 .. Smaller(limit, IF timeline > after + 1 THEN timeline - after - 1 ELSE 0)
        |-> after + 1 + i]

\* list_events: the events after a sequence number, oldest first, up to a limit.
ListEvents(after, limit) ==
    [i \in 1 .. Smaller(limit, IF timeline > after THEN timeline - after ELSE 0)
        |-> after + i]

-----------------------------------------------------------------------------
\* A page that is not loaded has neither a cursor nor a subscription.
Init ==
    /\ timeline = 0
    /\ phase = [c \in Client |-> "unloaded"]
    /\ rows = [c \in Client |-> <<>>]
    /\ queue = [c \in Client |-> <<>>]
    /\ wire = [c \in Client |-> <<>>]
    /\ cursor = [c \in Client |-> 0]
    /\ events = [c \in Client |-> <<>>]
    /\ page = [c \in Client |-> NoPage]
    /\ skipped = [c \in Client |-> {}]
    /\ overtaken = [c \in Client |-> {}]
    /\ disconnects = 0

-----------------------------------------------------------------------------
\* The store.

\* append: a subscriber whose queue is full does not get the event, and a client
\* whose replay was read but who is not registered yet does not either.
Misses(c) ==
    \/ phase[c] = "replay"
    \/ phase[c] = "live" /\ Len(queue[c]) = QueueSize

\* Mutant: the queue has no limit.
AppendUnbounded ==
    /\ timeline < MaxEvents
    /\ timeline' = timeline + 1
    /\ queue' = [c \in Client |-> IF phase[c] = "live" THEN Append(queue[c], timeline')
                                 ELSE queue[c]]
    /\ UNCHANGED <<phase, rows, wire, inspector, skipped, disconnects>>

AppendEvent ==
    /\ timeline < MaxEvents
    /\ timeline' = timeline + 1
    /\ queue' = [c \in Client |->
                   IF phase[c] = "live" /\ ~Misses(c)
                   THEN Append(queue[c], timeline') ELSE queue[c]]
    /\ skipped' = [c \in Client |->
                     IF Misses(c) THEN skipped[c] \cup {timeline'} ELSE skipped[c]]
    /\ UNCHANGED <<phase, rows, wire, inspector, disconnects>>

\* Mutant: a reconnection asks for the events from the first one on.
ConnectAnew(c) ==
    /\ phase[c] = "closed"
    /\ rows' = [rows EXCEPT ![c] = ListEvents(0, ReplayLimit)]
    /\ phase' = [phase EXCEPT ![c] = IF rows'[c] = <<>> THEN "live" ELSE "replay"]
    /\ skipped' = [skipped EXCEPT ![c] = @ \cup
                     ((ReplayLimit + 1) .. timeline)]
    /\ UNCHANGED <<timeline, queue, wire, inspector, disconnects>>

\* subscribe, first step: the replay is read.  With nothing to replay the queue
\* is registered in the same step.
Connect(c) ==
    /\ phase[c] = "closed"
    /\ rows' = [rows EXCEPT ![c] = ListEvents(cursor[c], ReplayLimit)]
    /\ phase' = [phase EXCEPT ![c] = IF rows'[c] = <<>> THEN "live" ELSE "replay"]
    /\ skipped' = [skipped EXCEPT ![c] = @ \cup
                     ((cursor[c] + ReplayLimit + 1) .. timeline)]
    /\ UNCHANGED <<timeline, queue, wire, inspector, disconnects>>

SendRow(c) ==
    /\ phase[c] = "replay"
    /\ rows[c] # <<>>
    /\ wire' = [wire EXCEPT ![c] = Append(@, Head(rows[c]))]
    /\ rows' = [rows EXCEPT ![c] = Tail(@)]
    /\ UNCHANGED <<timeline, phase, queue, inspector, skipped, disconnects>>

\* The last row was sent; only now does the store know the queue.
Register(c) ==
    /\ phase[c] = "replay"
    /\ rows[c] = <<>>
    /\ phase' = [phase EXCEPT ![c] = "live"]
    /\ UNCHANGED <<timeline, rows, queue, wire, inspector, skipped, disconnects>>

\* Mutant: an event is taken from the queue and dropped while another is in flight.
SendLiveIfIdle(c) ==
    /\ phase[c] = "live"
    /\ queue[c] # <<>>
    /\ wire' = [wire EXCEPT ![c] = IF @ = <<>> THEN <<Head(queue[c])>> ELSE @]
    /\ queue' = [queue EXCEPT ![c] = Tail(@)]
    /\ UNCHANGED <<timeline, phase, rows, inspector, skipped, disconnects>>

SendLive(c) ==
    /\ phase[c] = "live"
    /\ queue[c] # <<>>
    /\ wire' = [wire EXCEPT ![c] = Append(@, Head(queue[c]))]
    /\ queue' = [queue EXCEPT ![c] = Tail(@)]
    /\ UNCHANGED <<timeline, phase, rows, inspector, skipped, disconnects>>

\* Mutant: the subscriber is not discarded when its connection ends.
DisconnectedKeepsQueue(clients) ==
    /\ disconnects < MaxDisconnects
    /\ disconnects' = disconnects + 1
    /\ phase' = [c \in Client |->
                   IF c \in clients /\ phase[c] # "unloaded" THEN "closed" ELSE phase[c]]
    /\ rows' = [c \in Client |-> IF c \in clients THEN <<>> ELSE rows[c]]
    /\ wire' = [c \in Client |-> IF c \in clients THEN <<>> ELSE wire[c]]
    /\ UNCHANGED <<timeline, queue, inspector, skipped>>

\* The connections of these clients end: what was queued or on its way is gone.
Disconnected(clients) ==
    /\ disconnects < MaxDisconnects
    /\ disconnects' = disconnects + 1
    /\ phase' = [c \in Client |->
                   IF c \in clients /\ phase[c] # "unloaded" THEN "closed" ELSE phase[c]]
    /\ rows' = [c \in Client |-> IF c \in clients THEN <<>> ELSE rows[c]]
    /\ queue' = [c \in Client |-> IF c \in clients THEN <<>> ELSE queue[c]]
    /\ wire' = [c \in Client |-> IF c \in clients THEN <<>> ELSE wire[c]]
    /\ UNCHANGED <<timeline, inspector, skipped>>

Disconnect(c) == phase[c] \in {"replay", "live"} /\ Disconnected({c})
Restart       == Disconnected(Client)

-----------------------------------------------------------------------------
\* The Inspector.

\* What a connection carries, and the events in it.
Feed(c)     == wire[c] \o rows[c] \o queue[c]
InFlight(c) == Elements(wire[c]) \cup Elements(rows[c]) \cup Elements(queue[c])

\* What applyEvent leaves of a list that it built event by event: each push beyond
\* the limit shifts the first one out.
Latest(s) == IF Len(s) > Window THEN SubSeq(s, Len(s) - Window + 1, Len(s)) ELSE s

\* The list is built from these events; what it held, or would hold, and does not.
Lists(c, s) == events' = [events EXCEPT ![c] = Latest(s)]
Leaves(c, s) == (Elements(events[c]) \cup Elements(s)) \ Elements(Latest(s))
Accounts(c, left) ==
    /\ skipped' = [skipped EXCEPT ![c] = @ \cup left]
    /\ overtaken' = [overtaken EXCEPT ![c] = @ \cup (left \cap InFlight(c))]

\* applyEvent drops an event that it finds in the list.
Known(c, e) == e <= cursor[c] /\ e \in Elements(events[c])

\* bootstrap: the cursor is the status's, then the history is applied, then the
\* socket is opened.  Between the two requests events may be appended.
Hydrate(c) ==
    /\ phase[c] = "unloaded"
    /\ page[c] = NoPage
    /\ cursor' = [cursor EXCEPT ![c] = timeline]
    /\ page' = [page EXCEPT ![c] = <<>>]
    /\ UNCHANGED <<timeline, subscription, wire, events, skipped, overtaken, disconnects>>

LoadHistory(c) ==
    /\ phase[c] = "unloaded"
    /\ page[c] = <<>>
    /\ LET history == ListEvents(0, HistoryLimit)
       IN  /\ Lists(c, history)
           /\ Accounts(c, Leaves(c, history) \cup ((Len(history) + 1) .. cursor[c]))
           /\ cursor' = [cursor EXCEPT ![c] = Larger(@, Len(history))]
    /\ page' = [page EXCEPT ![c] = NoPage]
    /\ phase' = [phase EXCEPT ![c] = "closed"]
    /\ UNCHANGED <<timeline, rows, queue, wire, disconnects>>

\* Mutant: an event is shown again when it arrives again.
ReceiveAgain(c) ==
    /\ wire[c] # <<>>
    /\ LET arrived == Append(events[c], Head(wire[c]))
       IN  /\ Lists(c, arrived)
           /\ Accounts(c, Leaves(c, arrived))
           /\ cursor' = [cursor EXCEPT ![c] = Larger(@, Head(wire[c]))]
    /\ wire' = [wire EXCEPT ![c] = Tail(@)]
    /\ UNCHANGED <<timeline, subscription, page, disconnects>>

Receive(c) ==
    /\ wire[c] # <<>>
    /\ LET e == Head(wire[c])
           arrived == Append(events[c], e)
       IN  IF Known(c, e) THEN UNCHANGED <<events, cursor, skipped, overtaken>>
           ELSE /\ Lists(c, arrived)
                /\ Accounts(c, Leaves(c, arrived))
                /\ cursor' = [cursor EXCEPT ![c] = Larger(@, e)]
    /\ wire' = [wire EXCEPT ![c] = Tail(@)]
    /\ UNCHANGED <<timeline, subscription, page, disconnects>>

\* The refresh button reads the history again, and applies the answer when it
\* comes: live events may have been applied in between.
RefreshRead(c) ==
    /\ phase[c] # "unloaded"
    /\ page[c] = NoPage
    /\ page' = [page EXCEPT ![c] = ListEvents(0, HistoryLimit)]
    /\ UNCHANGED <<timeline, subscription, wire, cursor, events, skipped, overtaken,
                   disconnects>>

\* The list is emptied and the page applied to it: what was shown after the page
\* was read, or is beyond one of the limits, is shown no more.
RefreshApply(c) ==
    /\ phase[c] # "unloaded"
    /\ page[c] # NoPage
    /\ Lists(c, page[c])
    /\ Accounts(c, Leaves(c, page[c]))
    /\ cursor' = [cursor EXCEPT ![c] = Len(page[c])]
    /\ page' = [page EXCEPT ![c] = NoPage]
    /\ UNCHANGED <<timeline, subscription, wire, disconnects>>

\* The browser loads the page anew.
Reload(c) ==
    /\ phase[c] # "unloaded"
    /\ disconnects < MaxDisconnects
    /\ disconnects' = disconnects + 1
    /\ phase' = [phase EXCEPT ![c] = "unloaded"]
    /\ rows' = [rows EXCEPT ![c] = <<>>]
    /\ queue' = [queue EXCEPT ![c] = <<>>]
    /\ wire' = [wire EXCEPT ![c] = <<>>]
    /\ cursor' = [cursor EXCEPT ![c] = 0]
    /\ events' = [events EXCEPT ![c] = <<>>]
    /\ page' = [page EXCEPT ![c] = NoPage]
    /\ skipped' = [skipped EXCEPT ![c] = {}]
    /\ overtaken' = [overtaken EXCEPT ![c] = {}]
    /\ UNCHANGED timeline

-----------------------------------------------------------------------------
ServerStep(c) == SendRow(c) \/ Register(c) \/ SendLive(c)

Next ==
    \/ AppendEvent
    \/ Restart
    \/ \E c \in Client :
         \/ Connect(c) \/ ServerStep(c) \/ Disconnect(c)
         \/ Hydrate(c) \/ LoadHistory(c) \/ Receive(c)
         \/ RefreshRead(c) \/ RefreshApply(c) \/ Reload(c)

Spec == Init /\ [][Next]_vars

\* The event loop resumes a generator that can go on (a client that stops reading
\* is disconnected by the keep-alive of the socket), and the browser delivers.
FairSpec ==
    /\ Spec
    /\ \A c \in Client : /\ WF_vars(ServerStep(c))
                         /\ WF_vars(Receive(c))

-----------------------------------------------------------------------------
Numbers == Seq(1 .. timeline)

TypeOK ==
    /\ timeline \in Nat
    /\ phase \in [Client -> {"unloaded", "closed", "replay", "live"}]
    /\ {rows, queue, wire, events} \subseteq [Client -> Numbers]
    /\ page \in [Client -> Numbers \cup {NoPage}]
    /\ cursor \in [Client -> 0 .. timeline]
    /\ {skipped, overtaken} \subseteq [Client -> SUBSET (1 .. timeline)]
    /\ \A c \in Client : Len(queue[c]) <= QueueSize /\ Len(events[c]) <= Window
    /\ disconnects \in Nat

Increasing(s) == \A i, j \in DOMAIN s : i < j => s[i] < s[j]

(* The Inspector holds no event twice, and shows one after a later one only *)
(* when a refresh had overtaken it: it was under way when the list, which    *)
(* keeps the last events only, was cut behind it.  Replays, reconnections    *)
(* and refreshes that overlap the live feed do not change the order.         *)
InOrder(s, late) ==
    \A i, j \in DOMAIN s : i < j => s[i] < s[j] \/ (s[j] \in late /\ s[i] # s[j])
ShownInOrder == \A c \in Client : InOrder(events[c], overtaken[c])

(* What a connection carries is in order from the wire back to the queue,    *)
(* and the live part never repeats the replayed part.                        *)
FeedInOrder == \A c \in Client : Increasing(Feed(c))

(* A gap behind the cursor, which no reconnection fills, has a known cause:  *)
(* an append between the replay and the registration, a full queue, a limit  *)
(* of a request, a refresh that was overtaken by the live feed, or the end   *)
(* of the list, which keeps the last events only.                            *)
GapsAreKnown ==
    \A c \in Client : phase[c] # "unloaded" =>
        (1 .. timeline) \subseteq
            Elements(events[c]) \cup skipped[c] \cup InFlight(c)
            \cup (IF phase[c] = "closed" THEN (cursor[c] + 1) .. timeline ELSE {})

(* An event that was put into a subscriber's queue is applied by its client, *)
(* or the connection is lost.                                                *)
QueuedIsShown ==
    \A c \in Client, e \in 1 .. MaxEvents :
        e \in Elements(queue[c]) ~> (e \in Elements(events[c]) \/ phase[c] # "live")

\* The state of the abstract feed: the stages of a connection are one queue.
Connected == [c \in Client |-> phase[c] \in {"replay", "live"}]
OnTheWay  == [c \in Client |-> Feed(c)]

Promised == INSTANCE OrderedFeed WITH
              Reader <- Client,
              published <- timeline,
              open <- Connected,
              feed <- OnTheWay,
              shown <- events,
              missed <- skipped

(* Replay, registration, queue and wire behave as one queue that comes in   *)
(* order and leaves out nothing but what is accounted for, over every       *)
(* reconnection, restart, reload and refresh.                               *)
ImplementsFeed == Promised!Spec

-----------------------------------------------------------------------------
\* What documents say and the code does not do.

(* "Reconnection replays missed events" (handoff/tasks/                      *)
(* 16-inspector-ui-shell/TASK.md): when a subscription goes over from the    *)
(* replay to the live feed, its client has, or is being sent, all there is.  *)
ReconnectReplaysMissed ==
    [][\A c \in Client : phase[c] = "replay" /\ phase'[c] = "live" =>
          (1 .. timeline) \subseteq Elements(events[c]) \cup InFlight(c)]_vars

(* "Slow clients can replay missed events from their cursor"                 *)
(* (event_store.py:102): an event that a client was not sent is not behind   *)
(* its cursor.                                                               *)
SlowClientsCanReplay ==
    \A c \in Client : \A e \in skipped[c] : e > cursor[c] \/ e \in Elements(events[c])
=============================================================================
