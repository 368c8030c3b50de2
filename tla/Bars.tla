-------------------------------- MODULE Bars --------------------------------
(***************************************************************************)
(* From LEVELONE_EQUITIES messages to bars, for one symbol, in the three   *)
(* ways the program takes: live into ten-second bars (LevelOneCache in     *)
(* clients/stream_mapping.py, CompanionRuntime._handle_quote and           *)
(* BarAggregator10s in data/bar_aggregator.py), from the recorder's lines  *)
(* again (recording/pattern_replay.py), and from them into minute candles  *)
(* (recording/history.py).                                                 *)
(*                                                                         *)
(* A message brings only the fields that changed.  Times are whole         *)
(* seconds, as the aggregator gets them.  Sizes of bid and ask and the     *)
(* extended-hours mark of a bar are left out.                              *)
(***************************************************************************)
EXTENDS Integers, Sequences, FiniteSetsExt, Lists

CONSTANTS
    Window,         \* WINDOW_SEC
    Minute,         \* seconds of a candle
    Prices,
    Gains,          \* what may be traded between two messages
    VolumeCap,      \* VOLUME_ANOMALY_CAP_DEFAULT
    WarmUp,         \* deltas before the cap applies
    MaxDeltas,      \* length of _volume_history
    RecordFrom,     \* messages at which the recorder may have started
    MaxTime,        \* bound of the messages' timestamps
    MaxTraded,      \* bound of the cumulative volume
    MaxMessages,    \* bound of the number of messages
    MaxOdd          \* bound of those that are late, partial or of a new day
ASSUME BarsAssumption ==
    /\ {Window, Minute, VolumeCap, WarmUp, MaxDeltas} \subseteq Nat \ {0}
    /\ Prices \subseteq Nat \ {0} /\ Gains \subseteq Nat /\ RecordFrom \subseteq Nat \ {0}
    /\ {MaxTime, MaxTraded, MaxMessages, MaxOdd} \subseteq Nat

VARIABLES
    messages,       \* what the stream has sent, oldest first
    traded,         \* the market's cumulative volume
    odd,            \* number of odd messages
    live            \* the runtime's cache and aggregator, with the bars they gave

barsVars == <<messages, traded, odd, live>>

None == -1
NoBar == [ts |-> None]
NewCache == [quoted |-> FALSE, last |-> None, volume |-> None]
NewAggregator ==
    [forming |-> NoBar,                             \* _current_bar
     window |-> None,                               \* _window_start
     baseline |-> [volume |-> None, ts |-> 0],      \* _last_cum_volume, _last_volume_ts_ms
     deltas |-> <<>>,                               \* _volume_history
     completed |-> <<>>]                            \* the bars returned
Fresh == [cache |-> NewCache, agg |-> NewAggregator]

-----------------------------------------------------------------------------
(* _volume_delta: the new baseline, the new history and the delta.         *)

\* Twice the median, which may be a half.
TwiceMedian(seq) ==
    LET sorted(k) == seq[SortedPlaces(seq)[k]]
        mid == Len(seq) \div 2
    IN IF Len(seq) % 2 = 0 THEN sorted(mid) + sorted(mid + 1) ELSE 2 * sorted(mid + 1)

\* The delta joins the history before it is measured against it.
Limited(delta, history) ==
    LET cap == Max({VolumeCap, 5 * TwiceMedian(history)})
    IN IF Len(history) >= WarmUp /\ delta > cap THEN cap ELSE delta

Remembered(history) ==
    IF Len(history) > MaxDeltas THEN SubSeq(history, Len(history) - MaxDeltas + 1, Len(history))
    ELSE history

\* No baseline, or one that is not older than the update, is replaced.
StartsAtZero(baseline, ts) == FALSE
StartsOver(baseline, ts) == baseline.volume = None \/ ts <= baseline.ts

VolumeDelta(agg, ts, volume) ==
    LET delta == volume - agg.baseline.volume
        history == Remembered(Append(agg.deltas, delta))
        kept == [baseline |-> [volume |-> volume, ts |-> ts], deltas |-> agg.deltas, delta |-> 0]
    IN IF volume = None
       THEN [kept EXCEPT !.baseline = agg.baseline]
       ELSE IF StartsOver(agg.baseline, ts) \/ delta < 0
            THEN kept
            ELSE [kept EXCEPT !.deltas = history, !.delta = Limited(delta, history)]

-----------------------------------------------------------------------------
(* ingest_price.                                                           *)

Unaligned(ts) == ts
Floor(ts) == (ts \div Window) * Window

NewBar(ts, price, volume) ==
    [ts |-> ts, open |-> price, high |-> price, low |-> price, close |-> price, volume |-> volume]

Widened(bar, price, volume) ==
    [bar EXCEPT !.high = Max({@, price}), !.low = Min({@, price}), !.close = price, !.volume = @ + volume]

\* The window an update falls in: one that is late joins the current window.
WindowMovesBack(agg, ts) == Floor(ts)
WindowOf(agg, ts) ==
    IF agg.window = None THEN Floor(ts)
    ELSE IF ts < agg.window + Window THEN agg.window
    ELSE agg.window + Window * ((ts - agg.window) \div Window)

IngestPrice(agg, ts, price, volume) ==
    LET v == VolumeDelta(agg, ts, volume)
        start == WindowOf(agg, ts)
        rolls == agg.forming # NoBar /\ start # agg.window
    IN [window |-> start, baseline |-> v.baseline, deltas |-> v.deltas,
        forming |-> IF agg.forming = NoBar \/ rolls THEN NewBar(start, price, v.delta)
                    ELSE Widened(agg.forming, price, v.delta),
        completed |-> IF rolls THEN Append(agg.completed, agg.forming) ELSE agg.completed]

\* process_messages: fields that are absent keep their last value.
Updated(old, value) == IF value = None THEN old ELSE value
Merged(cache, m) ==
    [quoted |-> cache.quoted \/ m.quoted, last |-> Updated(cache.last, m.last),
     volume |-> Updated(cache.volume, m.volume)]
\* Nothing is emitted before bid, ask and last are known.
Emits(cache) == cache.quoted /\ cache.last # None

\* _handle_quote.
HandleQuote(state, m) ==
    LET cache == Merged(state.cache, m) IN
    [cache |-> cache,
     agg |-> IF Emits(cache) THEN IngestPrice(state.agg, m.ts, cache.last, cache.volume) ELSE state.agg]

-----------------------------------------------------------------------------
(* The recorder's lines again.                                             *)

\* The lines of a recorder that was started before the message `from`.
Recorded(from) == SubSeq(messages, from, Len(messages))

\* PatternReplayRunner.feed_record: a cache and an aggregator of its own.
FeedUncached(state, m) ==
    [state EXCEPT !.agg = IF m.last # None THEN IngestPrice(@, m.ts, m.last, m.volume) ELSE @]
FeedRecord(state, m) ==
    LET known == Merged(state.cache, m) IN
    [state EXCEPT !.cache = known,
                  !.agg = IF Emits(known) THEN IngestPrice(@, m.ts, known.last, known.volume) ELSE @]
Replayed(lines) ==
    LET after[n \in 0 .. Len(lines)] == IF n = 0 THEN Fresh ELSE FeedRecord(after[n - 1], lines[n])
    IN after[Len(lines)].agg

\* load_recorded_minute_candles.  Rows are sorted by time, those of one time
\* stay in the order of the files.
InOrder(lines) ==
    LET at == SortedPlaces([i \in DOMAIN lines |-> lines[i].ts])
    IN [k \in DOMAIN lines |-> lines[at[k]]]

MinuteOf(ts) == (ts \div Minute) * Minute
NoCandles == [price |-> None, volume |-> None, candles |-> <<>>]

\* One row: the price is carried forward, the volume is the cumulative one's
\* growth.  candles maps a minute to its candle.
PriceOfRow(price, m) == m.last
PriceThen(price, m) == Updated(price, m.last)
Row(state, m) ==
    LET price == PriceThen(state.price, m)
        grown == m.volume # None /\ state.volume # None /\ m.volume >= state.volume
        delta == IF grown THEN m.volume - state.volume ELSE 0
        minute == MinuteOf(m.ts)
    IN [price |-> price, volume |-> Updated(state.volume, m.volume),
        candles |->
            IF price = None THEN state.candles
            ELSE LET candle == IF minute \in DOMAIN state.candles
                               THEN Widened(state.candles[minute], price, delta)
                               ELSE NewBar(minute, price, delta)
                 IN [t \in DOMAIN state.candles \cup {minute} |->
                        IF t = minute THEN candle ELSE state.candles[t]]]
CandlesOf(rows) ==
    LET after[n \in 0 .. Len(rows)] == IF n = 0 THEN NoCandles ELSE Row(after[n - 1], rows[n])
    IN after[Len(rows)].candles
Candles(lines) == CandlesOf(InOrder(lines))

-----------------------------------------------------------------------------
(* The stream.                                                             *)

BarsInit ==
    /\ messages = <<>> /\ traded = 0 /\ odd = 0
    /\ live = Fresh

Latest == IF messages = <<>> THEN 0 ELSE messages[Len(messages)].ts

\* Timestamps may repeat, skip windows and, after a reconnect, go back.  The
\* first message of a subscription has every field.
Message ==
    \E ts \in {Latest - 1, Latest, Latest + 1, Latest + Window + 1} \cap 0 .. MaxTime,
       quoted \in BOOLEAN, last \in Prices \cup {None}, volume \in {None, 0} \cup {traded + g : g \in Gains} :
        LET m == [ts |-> ts, quoted |-> quoted, last |-> last, volume |-> volume]
            isOdd == ts < Latest \/ ~quoted \/ last = None \/ volume = None \/ volume < traded
        IN /\ Len(messages) < MaxMessages
           /\ volume <= MaxTraded
           /\ odd' = odd + (IF isOdd THEN 1 ELSE 0) /\ odd' <= MaxOdd
           /\ traded' = Updated(traded, volume)
           /\ messages' = Append(messages, m)
           /\ live' = HandleQuote(live, m)
BarsNext == Message

BarsSpec == BarsInit /\ [][BarsNext]_barsVars

-----------------------------------------------------------------------------
(* Properties.                                                             *)

AllBars(agg) == IF agg.forming = NoBar THEN agg.completed ELSE Append(agg.completed, agg.forming)
VolumeOf(bars) == Total([i \in DOMAIN bars |-> bars[i].volume])

BarsTypeOK ==
    /\ live.cache.last \in Prices \cup {None} /\ Len(live.agg.deltas) <= MaxDeltas
    /\ \A i \in DOMAIN AllBars(live.agg) : LET bar == AllBars(live.agg)[i] IN
         /\ bar.ts % Window = 0 /\ bar.volume \in Nat
         /\ {bar.open, bar.high, bar.low, bar.close} \subseteq Prices

\* The updates the aggregator gets: every message once bid, ask and last are
\* known, with the last price there was.
Has(i, field) == IF field = "quoted" THEN messages[i].quoted ELSE messages[i][field] # None
LastWith(i, field) == LET had == {j \in 1 .. i : Has(j, field)} IN IF had = {} THEN 0 ELSE Max(had)
Updates == {i \in DOMAIN messages : LastWith(i, "quoted") # 0 /\ LastWith(i, "last") # 0}
PriceAt(i) == messages[LastWith(i, "last")].last

\* Reference: an update belongs to the newest window any update so far has
\* reached, a window with updates has one bar, and a window without has none.
WindowAt(i) == Floor(Max({messages[j].ts : j \in {k \in Updates : k <= i}}))
Shape(at) == LET p == {PriceAt(i) : i \in at} IN
    [open |-> PriceAt(Min(at)), high |-> Max(p), low |-> Min(p), close |-> PriceAt(Max(at))]
SameShape(bar, shape) == \A f \in DOMAIN shape : bar[f] = shape[f]

\* "Bars are left-inclusive, right-exclusive", "If no quotes in a 10s window: no
\* bar emitted": the bars are the reference's, in order, whatever the updates'
\* times do.
BarsTrue ==
    LET bars == AllBars(live.agg) IN
    /\ {bars[n].ts : n \in DOMAIN bars} = {WindowAt(i) : i \in Updates}
    /\ \A m, n \in DOMAIN bars : m < n => bars[m].ts < bars[n].ts
    /\ \A n \in DOMAIN bars : SameShape(bars[n], Shape({i \in Updates : WindowAt(i) = bars[n].ts}))

\* Volume the market is known to have traded from the first message with a
\* volume on: what a message adds to the last volume before it.
Grown(lines, i) ==
    LET heard == {j \in 1 .. i - 1 : lines[j].volume # None}
    IN IF lines[i].volume = None \/ heard = {} THEN 0
       ELSE Max({0, lines[i].volume - lines[Max(heard)].volume})
Growth(lines) == Total([i \in DOMAIN lines |-> Grown(lines, i)])

\* Bars never hold volume that was not traded: not across a cumulative volume
\* that repeats, falls, is missing or arrives late.
VolumeNotInvented == VolumeOf(AllBars(live.agg)) <= Growth(messages)

\* "Volume computed as sum of per-message deltas": without an anomaly, the bars
\* hold all that was traded since the first update.
NoAnomaly ==
    /\ odd = 0 /\ Len(live.agg.deltas) < WarmUp
VolumeComplete == NoAnomaly => VolumeOf(AllBars(live.agg)) = Growth(messages)

\* "Replay recorded L1 events through the same quote/bar/pattern semantics as
\* live": a recording of all messages replays to the bars that were live, and one
\* that was started later to the same bars from its second on, volumes included.
ReplayIsLive ==
    /\ Replayed(messages) = live.agg
    /\ \A from \in RecordFrom :
        LET again == AllBars(Replayed(Recorded(from)))
            then == AllBars(live.agg)
        IN odd = 0 /\ Len(live.agg.deltas) < WarmUp =>
               \A i \in 2 .. Len(again) : \E j \in DOMAIN then : again[i] = then[j]

\* The candles of a recording are the minutes' prices and hold, if every row has
\* a price, the volume traded in their minutes, in whatever order lines were written.
CandlesTrue == \A from \in RecordFrom :
    LET rows == InOrder(Recorded(from))
        candles == Candles(Recorded(from))
        priced == {i \in DOMAIN rows : \E j \in 1 .. i : rows[j].last # None}
        price(i) == rows[Max({j \in 1 .. i : rows[j].last # None})].last
        of(t) == {i \in priced : MinuteOf(rows[i].ts) = t}
    IN /\ DOMAIN candles = {MinuteOf(rows[i].ts) : i \in priced}
       /\ \A t \in DOMAIN candles :
            /\ candles[t].ts = t
            /\ candles[t].open = price(Min(of(t))) /\ candles[t].close = price(Max(of(t)))
            /\ candles[t].high = Max({price(i) : i \in of(t)})
            /\ candles[t].low = Min({price(i) : i \in of(t)})
            /\ priced = DOMAIN rows =>
                 candles[t].volume = Total([i \in DOMAIN rows |-> IF i \in of(t) THEN Grown(rows, i) ELSE 0])

\* The bars made of live messages are the reference's, and hold no volume that was not traded.
\* (BarAggregator10s.)
LiveBarsTrue == BarsTypeOK /\ BarsTrue /\ VolumeNotInvented

\* A recording gives the bars that were live, and the candles of its prices and volumes.
\* (PatternReplayRunner.replay_file, load_recorded_minute_candles.)
RecordingTrue == ReplayIsLive /\ CandlesTrue
=============================================================================
