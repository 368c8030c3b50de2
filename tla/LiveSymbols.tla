----------------------------- MODULE LiveSymbols -----------------------------
(***************************************************************************)
(* Which symbols are live (runtime/companion_runtime.py): the calls that   *)
(* select a symbol or record one, the subscription they leave on the       *)
(* stream, the analysis engine of each symbol, and the watchdog that finds *)
(* a connected stream silent.                                              *)
(*                                                                         *)
(* A step of a call is one locked section, one message to the stream or    *)
(* one request that may fail; calls interleave between them.  The recorder *)
(* itself is module RecordingRuntime, the connection SchwabStream: here    *)
(* the stream is down, logging in or connected.  Time is counted in tens   *)
(* of seconds and ages stop at MaxAge.                                     *)
(***************************************************************************)
EXTENDS Integers, FiniteSets

CONSTANTS
    Tickers,        \* symbols
    NoTicker,
    Callers,        \* API threads
    MaxLiveCalls    \* bound of the calls
ASSUME LiveAssumption ==
    /\ NoTicker \notin Tickers /\ Tickers # {} /\ MaxLiveCalls \in Nat
    /\ IsFiniteSet(Tickers) /\ IsFiniteSet(Callers)

VARIABLES
    active,         \* _active_symbol
    shownActive,    \* the session's active symbol
    analysis,       \* _analysis_symbols
    recording,      \* _recording_symbols
    recorder,       \* whether _recorder is not None
    engine,         \* _ae_engines: the number of a symbol's engine, 0 for none
    alias,          \* self.ae_engine
    fed,            \* engine -> symbols whose bars or history it was given
    made,           \* whether _stream is not None
    link,           \* the stream: "down", "login" or "connected"
    wanted,         \* the client's _level_one_symbols
    served,         \* what the server's subscription holds
    frame,          \* per thread: the step and variables of its call
    liveCalls,      \* number of calls so far
    overlapped,     \* whether two calls were ever in progress at once
    complete,       \* whether the last call to return succeeded
    window,         \* is_intraday_window
    age,            \* seconds_since_last_level_one / 10, while connected
    refreshed,      \* age of _stale_resubscribe_at, None for None
    spaced          \* time since the last forced reconnect

liveCallVars == <<active, shownActive, analysis, recording, recorder, engine, alias,
                  made, frame, liveCalls, overlapped, complete>>
watchVars == <<window, refreshed, spaced>>
liveVars == <<liveCallVars, fed, link, wanted, served, age, watchVars>>

Engines == 1 .. Cardinality(Tickers)
None == -1
Stale == 3          \* older than 20 s
Retry == 2          \* _check_stream_freshness_once waits 20 s
MaxAge == 5
Older(n) == IF n < MaxAge THEN n + 1 ELSE n

Resting == [at |-> "rest", sym |-> NoTicker, new |-> FALSE, syms |-> {}]
Desired == recording \cup analysis
AtRest == \A c \in Callers : frame[c] = Resting
NumberOfCalls == Cardinality({c \in Callers : frame[c] # Resting})

LiveInit ==
    /\ active = NoTicker /\ shownActive = NoTicker /\ analysis = {} /\ recording = {}
    /\ recorder = FALSE
    /\ engine = [s \in Tickers |-> 0] /\ alias = 1 /\ fed = [e \in Engines |-> {}]
    /\ made = FALSE /\ link = "down" /\ wanted = {} /\ served = {}
    /\ frame = [c \in Callers |-> Resting]
    /\ liveCalls = 0 /\ overlapped = FALSE /\ complete = TRUE
    /\ window = TRUE /\ age = 0 /\ refreshed = None /\ spaced = MaxAge

-----------------------------------------------------------------------------
(* Calls.                                                                  *)

At(c, step) == frame[c].at = step
Step(c, step) == frame' = [frame EXCEPT ![c].at = step]
Begin(c, step, s, new) ==
    /\ At(c, "rest") /\ liveCalls < MaxLiveCalls /\ liveCalls' = liveCalls + 1
    /\ frame' = [frame EXCEPT ![c] = [at |-> step, sym |-> s, new |-> new, syms |-> {}]]
    /\ overlapped' = (overlapped \/ NumberOfCalls > 0)
    /\ UNCHANGED <<complete, made, engine, alias>>
Return(c, success) ==
    /\ frame' = [frame EXCEPT ![c] = Resting] /\ complete' = success
    /\ UNCHANGED <<active, shownActive, analysis, recording, recorder, engine, alias,
                   made, liveCalls, overlapped>>

StreamUnchanged == UNCHANGED <<link, wanted, served, age>>
DataUnchanged == UNCHANGED <<active, shownActive, analysis, recording, recorder,
                             liveCalls, overlapped, complete>>

\* select_symbol.
Select(c, s) ==
    /\ Begin(c, "show", s, s \notin analysis)
    /\ active' = s /\ analysis' = analysis \cup {s}
    /\ UNCHANGED <<shownActive, recording, recorder, fed, watchVars>> /\ StreamUnchanged

ShowActive(c) ==
    /\ At(c, "show") /\ Step(c, "engine") /\ shownActive' = frame[c].sym
    /\ UNCHANGED <<active, analysis, recording, recorder, engine, alias, made,
                   liveCalls, overlapped, complete, fed, watchVars>> /\ StreamUnchanged

\* _ensure_symbol_analysis: the first symbol has the engine made at the start,
\* every other one its own.
AliasEngine == alias
NewEngine ==
    IF \A s \in Tickers : engine[s] = 0 THEN alias
    ELSE CHOOSE e \in Engines : e # 1 /\ \A s \in Tickers : engine[s] # e
WithEngine(s) == IF engine[s] = 0 THEN [engine EXCEPT ![s] = NewEngine] ELSE engine
EnsureAnalysis(s) ==
    /\ engine' = WithEngine(s)
    /\ alias' = IF s = active THEN engine'[s] ELSE alias

EnsureEngine(c) ==
    /\ At(c, "engine")
    /\ EnsureAnalysis(frame[c].sym)
    /\ Step(c, IF frame[c].new THEN "seed" ELSE "ensure")
    /\ DataUnchanged /\ UNCHANGED <<made, fed, watchVars>> /\ StreamUnchanged

\* History, profile and seed, which catch every failure.
SeedEngine(c) ==
    /\ At(c, "seed") /\ Step(c, "ensure")
    /\ fed' = [fed EXCEPT ![engine[frame[c].sym]] = @ \cup {frame[c].sym}]
    /\ DataUnchanged /\ UNCHANGED <<made, engine, alias, watchVars>> /\ StreamUnchanged

\* start_recording, add_recording_symbol, remove_recording_symbol and
\* stop_recording, as far as the subscription goes.
StartRecording(c, s) ==
    /\ ~recorder /\ recorder' = TRUE /\ recording' = {s}
    /\ Begin(c, "ensure", s, FALSE)
    /\ UNCHANGED <<active, shownActive, analysis, fed, watchVars>> /\ StreamUnchanged

AddRecorded(c, s) ==
    /\ recorder /\ recording' = recording \cup {s}
    /\ Begin(c, "ensure", s, FALSE)
    /\ UNCHANGED <<active, shownActive, analysis, recorder, fed, watchVars>> /\ StreamUnchanged

RemoveRecorded(c, s) ==
    /\ recorder /\ recording' = recording \ {s}
    /\ Begin(c, IF made THEN "unsubscribe" ELSE "read", s, FALSE)
    /\ UNCHANGED <<active, shownActive, analysis, recorder, fed, watchVars>> /\ StreamUnchanged

\* A stop that forgets the recorder but not its symbols.
StopKeepsSymbols(c) ==
    /\ recorder /\ recorder' = FALSE
    /\ Begin(c, "read", NoTicker, FALSE)
    /\ UNCHANGED <<active, shownActive, analysis, recording, fed, watchVars>> /\ StreamUnchanged

StopRecording(c) ==
    /\ recorder /\ recorder' = FALSE /\ recording' = {}
    /\ Begin(c, "read", NoTicker, FALSE)
    /\ UNCHANGED <<active, shownActive, analysis, fed, watchVars>> /\ StreamUnchanged

\* remove_recording_symbol: a symbol that is still analysed stays subscribed.
Unsubscribed(s) == {s} \ analysis
Unsubscribe(c) ==
    /\ At(c, "unsubscribe") /\ Step(c, "read")
    /\ wanted' = wanted \ Unsubscribed(frame[c].sym)
    /\ served' = IF link = "connected" THEN served \ Unsubscribed(frame[c].sym) ELSE served
    /\ DataUnchanged /\ UNCHANGED <<engine, alias, made, fed, link, age, watchVars>>

\* _ensure_stream: the preferences are fetched outside the lock and the fetch
\* may fail; of two streams made at once the first one counts.
EnsureStream(c) ==
    /\ At(c, "ensure")
    /\ \/ made /\ Step(c, "read") /\ UNCHANGED complete
       \/ ~made /\ Step(c, "make") /\ UNCHANGED complete
    /\ UNCHANGED <<active, shownActive, analysis, recording, recorder, liveCalls, overlapped,
                   engine, alias, made, fed, watchVars>> /\ StreamUnchanged

FailToMake(c) ==
    /\ At(c, "make") /\ Return(c, FALSE)
    /\ UNCHANGED <<fed, watchVars>> /\ StreamUnchanged

MakeStream(c) ==
    /\ At(c, "make") /\ made' = TRUE
    /\ Step(c, IF made THEN "read" ELSE "connect")
    /\ DataUnchanged /\ UNCHANGED <<engine, alias, fed, watchVars>> /\ StreamUnchanged

\* What it subscribes is read just before, and once more by the caller next.
ConnectStream(c) ==
    /\ At(c, "connect") /\ Step(c, "read")
    /\ wanted' = Desired /\ link' = "login"
    /\ DataUnchanged /\ UNCHANGED <<engine, alias, made, fed, served, age, watchVars>>

\* _refresh_stream_subscription: with no symbol desired nothing is sent.
ReadDesired(c) ==
    /\ At(c, "read") /\ made /\ Desired # {}
    /\ frame' = [frame EXCEPT ![c].at = "send", ![c].syms = Desired]
    /\ DataUnchanged /\ UNCHANGED <<engine, alias, made, fed, watchVars>> /\ StreamUnchanged

NothingToSend(c) ==
    /\ At(c, "read") /\ ~(made /\ Desired # {}) /\ Return(c, TRUE)
    /\ UNCHANGED <<fed, watchVars>> /\ StreamUnchanged

AddToWanted(c) == wanted \cup {frame[c].sym}
Subscription(c) == frame[c].syms
SendDesired(c) ==
    /\ At(c, "send") /\ Return(c, TRUE)
    /\ wanted' = Subscription(c)
    /\ served' = IF link = "connected" THEN Subscription(c) ELSE served
    /\ UNCHANGED <<fed, link, age, watchVars>>

CallStep(c) ==
    \/ ShowActive(c) \/ EnsureEngine(c) \/ SeedEngine(c)
    \/ Unsubscribe(c) \/ EnsureStream(c) \/ FailToMake(c) \/ MakeStream(c) \/ ConnectStream(c)
    \/ ReadDesired(c) \/ NothingToSend(c) \/ SendDesired(c)
NewCall(c) ==
    \/ StopRecording(c)
    \/ \E s \in Tickers : Select(c, s) \/ StartRecording(c, s) \/ AddRecorded(c, s)
                            \/ RemoveRecorded(c, s)

-----------------------------------------------------------------------------
(* The stream.                                                             *)

\* LOGIN is confirmed and the client restores what it wants.
LoggedIn ==
    /\ link = "login" /\ link' = "connected" /\ served' = wanted /\ age' = 0
    /\ UNCHANGED <<liveCallVars, fed, wanted, watchVars>>

ConnectionLost ==
    /\ link = "connected" /\ link' = "login" /\ served' = {} /\ age' = 0
    /\ UNCHANGED <<liveCallVars, fed, wanted, watchVars>>

\* _handle_quote, of a quote that completes a bar: the bar of an analysed
\* symbol goes to its engine, which is made if it is not there yet.
HandleQuote(s) ==
    /\ link = "connected" /\ s \in served /\ age' = 0
    /\ IF s \in analysis
       THEN /\ EnsureAnalysis(s)
            /\ fed' = [fed EXCEPT ![engine'[s]] = @ \cup {s}]
       ELSE UNCHANGED <<engine, alias, fed>>
    /\ shownActive' = IF shownActive = NoTicker THEN s ELSE shownActive
    /\ UNCHANGED <<active, analysis, recording, recorder, made, frame,
                   liveCalls, overlapped, complete, link, wanted, served, watchVars>>

-----------------------------------------------------------------------------
(* The watchdog.                                                           *)

Tick ==
    /\ age' = IF link = "connected" THEN Older(age) ELSE age
    /\ refreshed' = IF refreshed = None THEN None ELSE Older(refreshed)
    /\ spaced' = Older(spaced)
    /\ UNCHANGED <<liveCallVars, fed, link, wanted, served, window>>

CloseMarket ==
    /\ window /\ window' = FALSE
    /\ UNCHANGED <<liveCallVars, fed, link, wanted, served, age, refreshed, spaced>>

\* _check_stream_freshness_once.
Silent == window /\ made /\ Desired # {} /\ link = "connected" /\ age >= Stale
NotSilent ==
    /\ ~Silent /\ refreshed' = None
    /\ UNCHANGED <<liveCallVars, fed, link, wanted, served, age, window, spaced>>

AlwaysRefreshes == Silent
FirstSilent == Silent /\ refreshed = None
Refresh ==
    /\ FirstSilent
    /\ refreshed' = IF wanted # {} THEN 0 ELSE None
    /\ served' = IF wanted # {} THEN wanted ELSE served
    /\ UNCHANGED <<liveCallVars, fed, link, wanted, age, window, spaced>>

KeepsRefreshed == refreshed
AfterReconnect == None
Reconnect ==
    /\ Silent /\ ~FirstSilent /\ refreshed >= Retry
    /\ refreshed' = AfterReconnect /\ spaced' = 0
    /\ link' = "login" /\ served' = {} /\ age' = 0
    /\ UNCHANGED <<liveCallVars, fed, wanted, window>>

Poll == NotSilent \/ Refresh \/ Reconnect
LiveWork ==
    \/ \E c \in Callers : NewCall(c) \/ CallStep(c)
    \/ LoggedIn \/ ConnectionLost \/ \E s \in Tickers : HandleQuote(s)
Watch == Tick \/ CloseMarket \/ Poll
LiveNext == LiveWork \/ Watch

\* Threads run, time passes and the watchdog polls.  Quotes need not come.
LiveFairness ==
    /\ \A c \in Callers : WF_liveVars(CallStep(c))
    /\ WF_liveVars(Tick) /\ WF_liveVars(Poll)

LiveSpec == LiveInit /\ [][LiveNext]_liveVars /\ LiveFairness

-----------------------------------------------------------------------------
(* Properties.                                                             *)

\* Types; a symbol is active when one is analysed, symbols are recorded only by a
\* recorder, and a connection belongs to a stream.  (CompanionRuntime's fields.)
LiveTypeOK ==
    /\ active \in Tickers \cup {NoTicker} /\ analysis \cup recording \subseteq Tickers
    /\ (active # NoTicker <=> analysis # {}) /\ (recording # {} => recorder)
    /\ engine \in [Tickers -> 0 .. Cardinality(Tickers)] /\ alias \in Engines
    /\ link \in {"down", "login", "connected"} /\ (link # "down" => made)
    /\ served \subseteq Tickers /\ age \in 0 .. MaxAge /\ refreshed \in -1 .. MaxAge

\* No engine is ever given the bars of two symbols: a symbol's levels, profile
\* and VWAP come from its own trades, also when a quote comes before select has
\* made the engine.
OwnEngine == \A e \in Engines : Cardinality(fed[e]) <= 1

\* When calls that never overlapped are over, and the last one succeeded, the
\* stream wants exactly what is analysed or recorded (a stop that leaves nothing
\* to want sends nothing) and the server serves it; the active symbol is the one
\* the browsers see.
SerialCallsServed ==
    AtRest /\ ~overlapped /\ complete /\ made =>
        /\ Desired \in {wanted, {}}
        /\ link = "connected" => served = wanted
        /\ active \in {NoTicker, shownActive}

\* The watchdog never forces a reconnect less than 40 s after another, however
\* late its polls are: a new connection has the time to bring its first quote.
ReconnectsSpaced == [][spaced' < spaced => spaced >= Stale + Retry - 1]_liveVars

\* A connected stream that stays silent while symbols are watched is connected
\* again.
SilenceEnds == Silent ~> ~Silent

\* Each symbol has an engine of its own, and calls that do not overlap leave the stream with the
\* symbols they asked for.  (select_symbol, start_recording, add_recording_symbol.)
CallsServed == LiveTypeOK /\ OwnEngine /\ SerialCallsServed
=============================================================================
