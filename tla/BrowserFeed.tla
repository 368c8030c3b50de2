----------------------------- MODULE BrowserFeed -----------------------------
(***************************************************************************)
(* What a browser sees of the live application: CompanionSession           *)
(* (session/companion_session.py), the WebSocket and symbol endpoints      *)
(* (web/app.py) and the browser's applyEvent and applySnapshot             *)
(* (web/static/app.js).                                                    *)
(*                                                                         *)
(* An update of the session is a locked section that changes it, one that  *)
(* numbers the event and picks the subscribers, and a delivery outside the *)
(* lock.  Each datum is an integer version: the active symbol, and per     *)
(* symbol a quote, which stands for every value an event replaces (AE      *)
(* snapshot, patterns, history, LLM output), and the ten-second bars,      *)
(* which events append to.  Rendering is left out.                         *)
(***************************************************************************)
EXTENDS Integers, Sequences, FiniteSets

CONSTANTS
    Watched,        \* symbols
    NoSymbol,
    Feeder,         \* the stream thread
    Selectors,      \* API threads of POST /api/symbol
    MaxBars,        \* max_bars_per_symbol, and the browser's 600
    MaxQueue,       \* maxsize of the socket's queue
    MaxUpdates,     \* bound of the session's updates
    MaxSockets      \* bound of the connections
ASSUME FeedAssumption ==
    /\ NoSymbol \notin Watched /\ Feeder \notin Selectors
    /\ {MaxBars, MaxQueue, MaxUpdates, MaxSockets} \subseteq Nat \ {0}

VARIABLES
    session,        \* CompanionSession's state
    sequence,       \* self._sequence
    subscriber,     \* number of the subscribed connection, 0 for none
    busy,           \* per thread: what it still has to emit
    queue,          \* the connection's asyncio.Queue
    socket,         \* [id, up: "closed", "subscribed" or "open"]
    wire,           \* the snapshot that precedes the queue
    response,       \* snapshots of POST /api/symbol on their way to the browser
    view,           \* state of app.js
    applied,        \* number of the newest event or snapshot applied to view since its last snapshot
    base,           \* number up to which view holds every event: its last snapshot's, until an older
                    \* event, which was queued before that snapshot, takes its datum back
    lost            \* number of the newest event that no queue will bring any more

feedVars == <<session, sequence, subscriber, busy, queue, socket, wire, response,
              view, applied, base, lost>>

FeedThreads == {Feeder} \cup Selectors
Blank == [active |-> NoSymbol, quote |-> [s \in Watched |-> 0], bars |-> [s \in Watched |-> <<>>]]
Quiet == [todo |-> <<>>, out |-> <<>>]
Nothing == <<>>

AllBars(bars) == bars
LastBars(bars) ==
    IF Len(bars) > MaxBars THEN SubSeq(bars, Len(bars) - MaxBars + 1, Len(bars)) ELSE bars

FeedInit ==
    /\ session = Blank /\ sequence = 0 /\ subscriber = 0
    /\ busy = [t \in FeedThreads |-> Quiet]
    /\ queue = <<>>
    /\ socket = [id |-> 0, up |-> "closed"] /\ wire = Nothing
    /\ response = {}
    /\ view = Blank /\ applied = 0 /\ base = 0 /\ lost = 0

-----------------------------------------------------------------------------
(* CompanionSession.                                                       *)

Idle(t) == busy[t] = Quiet
Say(t, events) == busy' = [busy EXCEPT ![t].todo = events]
Version == sequence + 1

\* add_symbol(s): the event of a change of the active symbol, if it is one.
\* (symbol_added only makes room in the browser, as every event does.)
Activated(s) == IF session.active = s THEN <<>> ELSE <<[kind |-> "active", symbol |-> s]>>
FirstOnly(s) == IF session.active = NoSymbol THEN Activated(s) ELSE <<>>

\* select_symbol: add_symbol(make_active), and the snapshot it answers with.
SelectSymbol(t, s) ==
    /\ Idle(t) /\ sequence < MaxUpdates /\ response = {}
    /\ session' = [session EXCEPT !.active = s]
    /\ Say(t, Activated(s) \o <<[kind |-> "answer"]>>)
    /\ UNCHANGED sequence

\* ingest_quote, which stands for every update of a latest value (history, analysis,
\* model output, trade, patterns): add_symbol, then the quote.  One section of the lock each; a
\* symbol that is not there yet is added first.
IngestQuote(s) ==
    /\ Idle(Feeder) /\ sequence < MaxUpdates
    /\ IF session.active = NoSymbol
       THEN /\ session' = [session EXCEPT !.active = s]
            /\ Say(Feeder, FirstOnly(s))
       ELSE /\ session' = [session EXCEPT !.quote[s] = Version]
            /\ Say(Feeder, <<[kind |-> "quote", symbol |-> s, value |-> Version]>>)
    /\ UNCHANGED sequence

\* ingest_bar, of a symbol that is there.
IngestBar(s) ==
    /\ Idle(Feeder) /\ sequence < MaxUpdates /\ session.active # NoSymbol
    /\ session' = [session EXCEPT !.bars[s] = LastBars(Append(@, Version))]
    /\ Say(Feeder, <<[kind |-> "bar", symbol |-> s, value |-> Version]>>)
    /\ UNCHANGED sequence

\* _emit under the lock.
Emit(t) ==
    /\ busy[t].todo # <<>> /\ busy[t].out = <<>> /\ Head(busy[t].todo).kind # "answer"
    /\ sequence' = sequence + 1
    /\ busy' = [busy EXCEPT ![t] =
                   [todo |-> Tail(@.todo),
                    out |-> <<[event |-> Head(@.todo), seq |-> sequence + 1, to |-> subscriber]>>]]
    /\ UNCHANGED <<session, subscriber, queue, socket, wire, response, view, applied, base, lost>>

Newer(m, n) == IF m > n THEN m ELSE n

\* The subscriber, for the connection it was picked for.  What it hands to the
\* event loop runs there in that order: enqueue, and a full queue loses its
\* oldest event.
DropOldest(event) == Append(IF Len(queue) = MaxQueue THEN Tail(queue) ELSE queue, event)
Deliver(t) ==
    /\ busy[t].out # <<>>
    /\ busy' = [busy EXCEPT ![t].out = <<>>]
    /\ LET event == busy[t].out[1] IN
       IF event.to = socket.id /\ socket.up # "closed"
       THEN /\ queue' = DropOldest(event)
            /\ lost' = IF Len(queue) = MaxQueue THEN Newer(lost, Head(queue).seq) ELSE lost
       ELSE UNCHANGED <<queue, lost>>
    /\ UNCHANGED <<session, sequence, subscriber, socket, wire, response, view, applied, base>>

Update ==
    /\ \/ \E t \in Selectors, s \in Watched : SelectSymbol(t, s)
       \/ \E s \in Watched : IngestQuote(s) \/ IngestBar(s)
    /\ UNCHANGED <<subscriber, queue, socket, wire, response, view, applied, base, lost>>
\* The endpoint's answer: a snapshot.
Snapshot == [state |-> session, seq |-> sequence]
Answer(t) ==
    /\ busy[t].out = <<>> /\ busy[t].todo # <<>> /\ Head(busy[t].todo).kind = "answer"
    /\ busy' = [busy EXCEPT ![t] = Quiet]
    /\ response' = response \cup {Snapshot}
    /\ UNCHANGED <<session, sequence, subscriber, queue, socket, wire, view,
                   applied, base, lost>>

-----------------------------------------------------------------------------
(* The WebSocket endpoint, on the event loop.                              *)

\* The page connects, at first and 1.5 s after a close; subscribe comes first.
KeepSubscriber == 0
NewSubscriber == socket.id + 1
Connect ==
    /\ socket.up = "closed" /\ socket.id < MaxSockets
    /\ socket' = [id |-> socket.id + 1, up |-> "subscribed"]
    /\ subscriber' = NewSubscriber
    /\ queue' = <<>>
    /\ UNCHANGED <<session, sequence, busy, wire, response, view, applied, base, lost>>

SendSnapshot ==
    /\ socket.up = "subscribed"
    /\ socket' = [socket EXCEPT !.up = "open"]
    /\ wire' = <<Snapshot>>
    /\ UNCHANGED <<session, sequence, subscriber, busy, queue, response, view, applied, base, lost>>

\* The connection is lost with what was on it.
Disconnect ==
    /\ socket.up # "closed" /\ socket.id < MaxSockets
    /\ socket' = [socket EXCEPT !.up = "closed"]
    /\ subscriber' = 0 /\ queue' = <<>> /\ wire' = Nothing
    /\ UNCHANGED <<session, sequence, busy, response, view, applied, base, lost>>

-----------------------------------------------------------------------------
(* The page.                                                               *)

\* applySnapshot: a snapshot makes up for every event it is newer than.
Adopt(snapshot) ==
    view' = snapshot.state /\ applied' = snapshot.seq /\ base' = snapshot.seq

\* The first message of a connection.
ReceiveSnapshot ==
    /\ wire # Nothing
    /\ Adopt(wire[1])
    /\ wire' = Nothing
    /\ UNCHANGED <<session, sequence, subscriber, busy, queue, socket, response, lost>>

\* applyEvent.
BarsOverwritten(bars, value) == <<value>>
BarsShown(bars, value) == LastBars(Append(bars, value))
ApplyEvent ==
    /\ socket.up = "open" /\ wire = Nothing /\ queue # <<>>
    /\ LET e == Head(queue).event IN
       view' = CASE e.kind = "active" -> [view EXCEPT !.active = e.symbol]
                 [] e.kind = "quote" -> [view EXCEPT !.quote[e.symbol] = e.value]
                 [] e.kind = "bar" -> [view EXCEPT !.bars[e.symbol] = BarsShown(@, e.value)]
    /\ applied' = Newer(applied, Head(queue).seq)
    /\ base' = IF Head(queue).seq < base THEN Head(queue).seq ELSE base
    /\ queue' = Tail(queue)
    /\ UNCHANGED <<session, sequence, subscriber, busy, socket, wire, response, lost>>

\* The answer to the symbol form is applied whatever has arrived since.
ApplyResponse ==
    /\ \E r \in response :
         /\ Adopt(r)
         /\ lost' = IF r.seq < applied THEN Newer(lost, applied) ELSE lost
         /\ response' = response \ {r}
    /\ UNCHANGED <<session, sequence, subscriber, busy, queue, socket, wire>>

SocketStep == SendSnapshot \/ ReceiveSnapshot \/ ApplyEvent
Announce == \E t \in FeedThreads : Emit(t) \/ Deliver(t)
FeedNext ==
    \/ Update \/ Announce \/ \E t \in Selectors : Answer(t)
    \/ Connect \/ SocketStep \/ Disconnect \/ ApplyResponse

\* The event loop and the threads run; the page connects again after a close.
FeedFairness ==
    /\ WF_feedVars(SocketStep) /\ WF_feedVars(Connect)
    /\ WF_feedVars(ApplyResponse)
    /\ \A t \in FeedThreads : WF_feedVars(Emit(t) \/ Deliver(t))
    /\ \A t \in Selectors : WF_feedVars(Answer(t))

FeedSpec == FeedInit /\ [][FeedNext]_feedVars /\ FeedFairness

-----------------------------------------------------------------------------
(* Properties.                                                             *)

Elements(seq) == {seq[i] : i \in 1 .. Len(seq)}
Views == [active : Watched \cup {NoSymbol}, quote : [Watched -> Nat], bars : [Watched -> Seq(Nat)]]

\* Types; the bars of the session and the page stay within their length, the queue
\* within its size, and the subscriber is the last connection's.  (CompanionSession's
\* and the page's state.)
FeedTypeOK ==
    /\ session \in Views /\ view \in Views
    /\ sequence \in Nat /\ {applied, base} \subseteq 0 .. sequence /\ lost \in 0 .. sequence
    /\ subscriber \in {0, socket.id} /\ socket.id \in 0 .. MaxSockets
    /\ Len(queue) <= MaxQueue /\ Len(wire) <= 1
    /\ \A s \in Watched : Len(session.bars[s]) <= MaxBars /\ Len(view.bars[s]) <= MaxBars

Settled ==
    /\ \A t \in FeedThreads : Idle(t)
    /\ queue = <<>> /\ wire = Nothing /\ response = {}
    /\ socket.up = "open"

\* Once all that is on its way has arrived, a page that lost nothing shows the
\* session's quotes, its newest bar, no bar the session never had and, while
\* there is room for the bars a snapshot and the queue both bring, every bar.
Shows(s) ==
    /\ view.quote[s] = session.quote[s]
    /\ session.bars[s] # <<>> =>
         /\ view.bars[s] # <<>>
         /\ view.bars[s][Len(view.bars[s])] = session.bars[s][Len(session.bars[s])]
    /\ Len(view.bars[s]) < MaxBars => Elements(view.bars[s]) = Elements(session.bars[s])
ViewTrue == Settled /\ lost <= base => \A s \in Watched : Shows(s)

\* Only a queue at its limit, or an answer that events overtook, loses events:
\* with neither the page ends up with the session's state, also when the
\* connection was lost in between.
CatchesUp == <>[](lost <= base => \A s \in Watched : Shows(s))

\* The page that lost nothing shows the session, and its buffers keep their bounds.
\* (CompanionSession, websocket_endpoint, app.js.)
PageTrue == FeedTypeOK /\ ViewTrue
=============================================================================
