------------------------------- MODULE Desktop -------------------------------
(***************************************************************************)
(* The desktop application (ui/controller.py, ui/chart_adapter.py): the Qt *)
(* thread that enters a symbol and draws the chart, and the stream thread  *)
(* that brings the quotes and chart bars of the symbol subscribed last.    *)
(*                                                                         *)
(* Entering a symbol runs on the Qt thread from the text box to the        *)
(* subscription and holds no lock, so the stream thread works through any  *)
(* of its steps; the render holds the bars' lock only to copy them.  A bar *)
(* is its ten-second window, the symbols whose quotes are in it and a      *)
(* version, which grows with every quote.  The studies, the header and the *)
(* labels are recomputed from the same data and left out.                  *)
(***************************************************************************)
EXTENDS Integers, Sequences, FiniteSets

CONSTANTS
    DeskSymbols, NoDesk,
    MaxSlot,        \* bound of the ten-second windows
    MaxTrades,      \* bound of the quotes
    MaxEntries      \* bound of the symbols entered
ASSUME DeskAssumption ==
    NoDesk \notin DeskSymbols /\ {MaxSlot, MaxTrades, MaxEntries} \subseteq Nat

VARIABLES
    entered,        \* _active_symbol and _pending_symbol
    subscribed,     \* the stream's level-one symbol
    forming,        \* the aggregator's bar in progress
    bars,           \* _bars
    minutes,        \* AE engine: its symbol, and the symbols whose bars it holds
    snapshot,       \* symbol of _last_ae_snapshot
    chart,          \* the chart adapter's _last_full
    drawn,          \* _initial_render_done
    dirty,          \* _dirty
    qt,             \* what the Qt thread does next, and the bars it draws
    work,           \* what the stream thread is handling
    slot,           \* the current ten-second window
    trades, entries,
    heard,          \* whether a quote was handled since the symbol was entered
    upsets          \* what has come between two steps of a thread

deskVars == <<entered, subscribed, forming, bars, minutes, snapshot, chart, drawn, dirty,
              qt, work, slot, trades, entries, heard, upsets>>

NoBar == [t |-> -1, of |-> {}, v |-> 0]
NoWork == [pc |-> "idle", sym |-> NoDesk, bar |-> NoBar]
Looping == [pc |-> "loop", bars |-> <<>>]

DeskInit ==
    /\ entered = NoDesk /\ subscribed = NoDesk
    /\ forming = NoBar /\ bars = <<>>
    /\ minutes = [sym |-> NoDesk, of |-> {}] /\ snapshot = NoDesk
    /\ chart = <<>> /\ drawn = FALSE /\ dirty = FALSE
    /\ qt = Looping /\ work = NoWork
    /\ slot = 0 /\ trades = 0 /\ entries = 0
    /\ heard = FALSE /\ upsets = {}

-----------------------------------------------------------------------------
(* The chart adapter.                                                      *)

LastTime(s) == IF s = <<>> THEN -1 ELSE s[Len(s)].t

\* set_history sorts by time; bars of one time keep their order.
Earlier(shown, i, j) == shown[i].t < shown[j].t \/ (shown[i].t = shown[j].t /\ i < j)
Rank(shown, i) == Cardinality({j \in DOMAIN shown : Earlier(shown, j, i)}) + 1
SetHistory(shown) ==
    [k \in DOMAIN shown |-> shown[CHOOSE i \in DOMAIN shown : Rank(shown, i) = k]]

\* upsert_bar: an older bar is dropped, the last one replaced, a newer added.
UpsertAny(s, bar) == Append(s, bar)
Upserted(s, bar) ==
    IF bar.t < LastTime(s) THEN s
    ELSE IF bar.t = LastTime(s) THEN [s EXCEPT ![Len(s)] = bar]
    ELSE Append(s, bar)

-----------------------------------------------------------------------------
(* _on_symbol_entered.                                                     *)

Then(next) == qt' = [qt EXCEPT !.pc = next]
ThreadUnchanged == UNCHANGED <<work, slot, trades>>

EnterSymbol(s) ==
    /\ qt.pc = "loop" /\ entries < MaxEntries /\ entries' = entries + 1
    /\ entered' = s /\ Then("clear")
    /\ heard' = FALSE
    /\ upsets' = IF work.pc # "idle" THEN upsets \cup {"stray"} ELSE upsets
    /\ UNCHANGED <<subscribed, forming, bars, minutes, snapshot, chart, drawn, dirty>>
    /\ ThreadUnchanged

\* A new aggregator, no bars, the engine's intraday state reset.
KeepForming == forming
ClearedForming == NoBar
Clear ==
    /\ qt.pc = "clear" /\ Then("history")
    /\ forming' = ClearedForming /\ bars' = <<>> /\ drawn' = FALSE
    /\ minutes' = [sym |-> NoDesk, of |-> {}]
    /\ UNCHANGED <<entered, subscribed, snapshot, chart, dirty, entries, heard, upsets>>
    /\ ThreadUnchanged

\* _load_history: the candles before now, none, or a failure.
Candles(s) == [i \in 1 .. slot |-> [t |-> i - 1, of |-> {s}, v |-> 0]]
AnyDrawable(candles) == TRUE
Drawable(candles) == candles # <<>>
LoadHistory ==
    /\ qt.pc = "history" /\ Then("minutes")
    /\ \/ /\ bars' = Candles(entered)
          /\ IF Drawable(bars')
             THEN chart' = SetHistory(bars') /\ drawn' = TRUE
             ELSE UNCHANGED <<chart, drawn>>
       \/ bars' = <<>> /\ UNCHANGED <<chart, drawn>>
       \/ UNCHANGED <<bars, chart, drawn>>
    /\ UNCHANGED <<entered, subscribed, forming, minutes, snapshot, dirty, entries, heard, upsets>>
    /\ ThreadUnchanged

\* _ensure_snapshot: a snapshot of this symbol is kept, else one is built.
EnsuredAny(s) == IF snapshot # NoDesk THEN snapshot ELSE s
Ensured(s) == IF snapshot = s THEN snapshot ELSE s

\* _load_bars_1m, which ends with _ensure_snapshot unless the request fails.
LoadMinutes ==
    /\ qt.pc = "minutes" /\ Then("seed")
    /\ snapshot' \in {snapshot, Ensured(entered)}
    /\ UNCHANGED <<entered, subscribed, forming, bars, minutes, chart, drawn, dirty,
                   entries, heard, upsets>>
    /\ ThreadUnchanged

\* compute_profile and seed_intraday_from_history.
SeedAnalysis ==
    /\ qt.pc = "seed" /\ Then("subscribe")
    /\ \/ minutes' = [sym |-> entered, of |-> minutes.of \cup {entered}] /\ snapshot' = entered
       \/ minutes' = [minutes EXCEPT !.sym = entered] /\ UNCHANGED snapshot
    /\ UNCHANGED <<entered, subscribed, forming, bars, chart, drawn, dirty,
                   entries, heard, upsets>>
    /\ ThreadUnchanged

\* _subscribe_stream comes last; it may find no stream or a closed market.
SubscribeSymbol ==
    /\ qt.pc = "subscribe" /\ Then("loop")
    /\ subscribed' \in {subscribed, entered}
    /\ UNCHANGED <<entered, forming, bars, minutes, snapshot, chart, drawn, dirty,
                   entries, heard, upsets>>
    /\ ThreadUnchanged

-----------------------------------------------------------------------------
(* The render, on the 50 ms timer or posted by a change.                   *)

WithForming == IF forming = NoBar THEN bars ELSE Append(bars, forming)

\* _prune_and_render copies the bars and draws the last one, or all of them the
\* first time.
Draw ==
    /\ qt.pc = "loop" /\ dirty
    /\ qt' = [pc |-> "drawing", bars |-> WithForming]
    /\ UNCHANGED <<entered, subscribed, forming, bars, minutes, snapshot, chart, drawn, dirty,
                   entries, heard, upsets>>
    /\ ThreadUnchanged

Show ==
    /\ qt.pc = "drawing" /\ qt' = [pc |-> "drawn", bars |-> <<>>]
    /\ IF qt.bars = <<>> THEN UNCHANGED <<chart, drawn>>
       ELSE /\ chart' = IF drawn THEN Upserted(chart, qt.bars[Len(qt.bars)])
                        ELSE SetHistory(qt.bars)
            /\ drawn' = TRUE
    /\ UNCHANGED <<entered, subscribed, forming, bars, minutes, snapshot, dirty,
                   entries, heard, upsets>>
    /\ ThreadUnchanged

\* Only then does _render_tick clear the flag.
Undirty ==
    /\ qt.pc = "drawn" /\ Then("loop") /\ dirty' = FALSE
    /\ UNCHANGED <<entered, subscribed, forming, bars, minutes, snapshot, chart, drawn,
                   entries, heard, upsets>>
    /\ ThreadUnchanged

-----------------------------------------------------------------------------
(* The stream thread.                                                      *)

QtUnchanged == UNCHANGED <<entered, subscribed, chart, drawn, qt, slot, entries>>

\* _request_render; a request between the copy and the clear is lost.
RequestRender ==
    /\ dirty' = TRUE
    /\ upsets' = IF qt.pc \in {"drawing", "drawn"} THEN upsets \cup {"missed"} ELSE upsets

\* A quote of the subscribed symbol arrives; which symbol is never checked.
TakeQuote ==
    /\ work.pc = "idle" /\ subscribed # NoDesk /\ trades < MaxTrades /\ trades' = trades + 1
    /\ work' = [pc |-> "quote", sym |-> subscribed, bar |-> NoBar]
    /\ upsets' = IF subscribed # entered THEN upsets \cup {"stray"} ELSE upsets
    /\ UNCHANGED <<forming, bars, minutes, snapshot, dirty, heard>> /\ QtUnchanged

\* ingest_price, under the bars' lock.
Bar(sym) == [t |-> slot, of |-> {sym}, v |-> trades]
AddQuote ==
    /\ work.pc = "quote"
    /\ IF forming # NoBar /\ forming.t = slot
       THEN /\ forming' = [forming EXCEPT !.of = @ \cup {work.sym}, !.v = trades]
            /\ work' = [work EXCEPT !.pc = "sign"]
       ELSE /\ forming' = Bar(work.sym)
            /\ work' = [work EXCEPT !.pc = IF forming = NoBar THEN "sign" ELSE "append",
                                    !.bar = forming]
    /\ UNCHANGED <<bars, minutes, snapshot, dirty, trades, heard, upsets>> /\ QtUnchanged

\* The completed bar: _append_bar_locked and the analysis, which every sixth bar
\* has a snapshot of.
AppendBar ==
    /\ work.pc = "append" /\ work' = [work EXCEPT !.pc = "sign"]
    /\ bars' = Append(bars, work.bar)
    /\ minutes' = [minutes EXCEPT !.of = @ \cup work.bar.of]
    /\ snapshot' \in {snapshot, minutes.sym}
    /\ RequestRender
    /\ UNCHANGED <<forming, trades, heard>> /\ QtUnchanged

\* The bar in progress has changed: render.
SignForming ==
    /\ work.pc = "sign" /\ work' = [work EXCEPT !.pc = "ensure"]
    /\ RequestRender
    /\ UNCHANGED <<forming, bars, minutes, snapshot, trades, heard>> /\ QtUnchanged

EnsureSnapshot ==
    /\ work.pc = "ensure" /\ work' = NoWork
    /\ snapshot' = Ensured(entered)
    /\ heard' = (work.sym = entered)
    /\ UNCHANGED <<forming, bars, minutes, dirty, trades, upsets>> /\ QtUnchanged

\* _handle_chart_bar, which does check the symbol: the bar of a closed window
\* is added, and the aggregator starts over.
ChartBar ==
    /\ work.pc = "idle" /\ entered # NoDesk /\ subscribed = entered /\ slot > 0
    /\ trades < MaxTrades /\ trades' = trades + 1
    /\ bars' = Append(bars, [t |-> slot - 1, of |-> {entered}, v |-> trades'])
    /\ forming' = NoBar
    /\ dirty' = TRUE /\ upsets' = upsets \cup {"restart"}
    /\ UNCHANGED <<minutes, snapshot, work, heard>> /\ QtUnchanged

NextSlot ==
    /\ slot < MaxSlot /\ slot' = slot + 1
    /\ UNCHANGED <<entered, subscribed, forming, bars, minutes, snapshot, chart, drawn, dirty,
                   qt, work, trades, entries, heard, upsets>>

QtStep ==
    \/ Clear \/ LoadHistory \/ LoadMinutes \/ SeedAnalysis \/ SubscribeSymbol
    \/ Draw \/ Show \/ Undirty
StreamStep == AddQuote \/ AppendBar \/ SignForming \/ EnsureSnapshot
DeskNext ==
    \/ \E s \in DeskSymbols : EnterSymbol(s)
    \/ QtStep \/ TakeQuote \/ StreamStep \/ ChartBar \/ NextSlot

DeskSpec == DeskInit /\ [][DeskNext]_deskVars

-----------------------------------------------------------------------------
(* Properties.                                                             *)

\* Types; the chart counts as drawn only with bars, and quotes are handled only when
\* a symbol is subscribed.  (AppController's fields.)
DeskTypeOK ==
    /\ {entered, subscribed, snapshot, minutes.sym} \subseteq DeskSymbols \cup {NoDesk}
    /\ forming = NoBar \/ forming.t \in 0 .. slot
    /\ (drawn => chart # <<>>) /\ (work # NoWork => subscribed # NoDesk)
    /\ upsets \subseteq {"stray", "missed", "restart"}

\* What is kept for a symbol is that symbol's: unless a quote of the one before
\* was still on its way while it was entered, nothing of the old symbol is left in
\* the bar in progress, the bars, the analysis or, once it is drawn, the chart.
OnlyEntered ==
    "stray" \notin upsets /\ qt.pc # "clear" =>
        \A b \in {forming, minutes} \cup {bars[i] : i \in DOMAIN bars}
                 \cup (IF drawn THEN {chart[i] : i \in DOMAIN chart} ELSE {}) :
            b.of \subseteq {entered}

\* Once the symbol has had a quote the language model is given its snapshot.
SnapshotCurrent ==
    "stray" \notin upsets /\ heard /\ work = NoWork => snapshot = entered

\* When both threads are at rest the chart ends with the newest bar there is, at
\* its newest version, or with a later candle of the history, unless data came
\* while the chart was being drawn or a chart bar made the bar in progress start
\* over; and the chart's bars are in the order of time.
ChartNewest ==
    /\ qt.pc = "loop" /\ work = NoWork /\ ~dirty /\ WithForming # <<>> /\ upsets = {} =>
           /\ drawn
           /\ LET shown == chart[Len(chart)]
                  newest == WithForming[Len(WithForming)]
              IN shown = newest \/ shown.t > newest.t
    /\ "restart" \notin upsets =>
           \A i \in 2 .. Len(chart) : chart[i - 1].t < chart[i].t

\* Bars, analysis, snapshot and chart are of the symbol entered last, and the chart is up to date.
\* (_on_symbol_entered, _handle_quote, _render_tick.)
DeskTrue == DeskTypeOK /\ OnlyEntered /\ SnapshotCurrent /\ ChartNewest
=============================================================================
