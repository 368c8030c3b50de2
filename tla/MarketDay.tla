------------------------------ MODULE MarketDay ------------------------------
(***************************************************************************)
(* One recording session on disk: MarketDayRecorder                        *)
(* (recording/market_day.py), fed by the stream thread, edited by API      *)
(* threads and closed by the one thread that released it (RecordingRuntime *)
(* proves there is one), and its readers: RecordingCatalog                 *)
(* (replay/catalog.py) and the quote-history cache of the review endpoint  *)
(* (web/app.py).                                                           *)
(*                                                                         *)
(* The recorder's RLock makes its methods atomic for each other, not for   *)
(* readers: an event is one flushed line, a manifest is truncated and then *)
(* written.  record_payload and close look at _closed before they take the *)
(* lock.  A file is abstracted to its number of lines; the symbols' order, *)
(* file handles and the wording of the manifest are left out.              *)
(***************************************************************************)
EXTENDS Integers, Sequences

CONSTANTS
    Symbols,        \* ticker symbols
    Streamers,      \* threads that call record_payload
    Editors,        \* API threads that call add_symbol and remove_symbol
    Closer,         \* the thread that owns the session's end
    Readers,        \* API threads of the review and replay endpoints
    Payloads,       \* stream payloads: sequences of the symbols they quote
    First,          \* the symbols the session starts with
    MaxClock,       \* bound of the wall clock
    MaxPeriods,     \* bound of the periods per symbol
    MaxLines        \* bound of the lines per file
ASSUME MarketDayAssumption ==
    /\ First \subseteq Symbols
    /\ Payloads \subseteq Seq(Symbols)
    /\ Closer \notin Streamers \cup Editors
    /\ "free" \notin Streamers \cup Editors \cup {Closer}
    /\ MaxClock \in Nat \ {0} /\ MaxLines \in Nat
    /\ MaxPeriods \in Nat

VARIABLES
    known,          \* self.symbols
    active,         \* self._active_symbols
    life,           \* periods of self._symbol_lifecycle
    counts,         \* self._counts
    closed,         \* self._closed
    lines,          \* the .jsonl files: events on disk
    manifest,       \* manifest.json
    mutex,          \* owner of self._lock
    doing,          \* per thread: the operation it is in
    clock,
    alive,          \* the recording process has not crashed
    reading,        \* per reader: what load_manifest told it
    cache           \* lru_cache of the review endpoint

recorderVars == <<known, active, life, counts, closed, mutex, doing>>
marketVars == <<recorderVars, lines, manifest, clock, alive, reading, cache>>

Writers == Streamers \cup Editors \cup {Closer}
Free == "free"
Torn == [torn |-> TRUE]          \* truncated: not JSON
Never == 0                      \* None of ended_at_et and of an entry of cache
Idle == [op |-> "idle"]
Wanting(op, s, when) == [op |-> op, symbol |-> s, when |-> when]
Period == [from : 1 .. MaxClock, to : 0 .. MaxClock]

\* _write_manifest's payload.
Manifest(ended) ==
    [known |-> known, active |-> active, life |-> life, counts |-> counts, ended |-> ended]

MarketInit ==
    /\ known = First /\ active = First
    /\ life = [s \in Symbols |->
                  IF s \in First THEN <<[from |-> 1, to |-> Never]>> ELSE <<>>]
    /\ counts = [s \in Symbols |-> 0] /\ lines = [s \in Symbols |-> 0]
    /\ closed = FALSE /\ mutex = Free /\ clock = 1 /\ alive = TRUE
    /\ manifest = Manifest(Never)
    /\ doing = [t \in Writers |-> Idle]
    /\ reading = [r \in Readers |-> "idle"]
    /\ cache = [s \in Symbols |-> Never]

-----------------------------------------------------------------------------
(* Writers.                                                                *)

\* record_payload up to the lock: a closed recorder raises.
BeginRecord(t, payload) ==
    /\ doing[t] = Idle /\ ~closed
    /\ doing' = [doing EXCEPT ![t] = [op |-> "record", todo |-> payload]]
    /\ UNCHANGED <<known, active, life, counts, closed, mutex, lines, manifest>>

\* The entries record_payload keeps.
WantedKnown(s) == s \in known
Wanted(s) == s \in active

TakeForRecord(t) ==
    /\ doing[t].op = "record" /\ mutex = Free
    /\ mutex' = t
    /\ doing' = [doing EXCEPT ![t].op = "writing"]
    /\ UNCHANGED <<known, active, life, counts, closed, lines, manifest>>

\* One entry: a line written and flushed, and counted.
RecordEntry(t) ==
    /\ doing[t].op = "writing" /\ doing[t].todo # <<>>
    /\ LET s == Head(doing[t].todo)
           n == IF Wanted(s) /\ lines[s] < MaxLines THEN 1 ELSE 0
       IN /\ lines' = [lines EXCEPT ![s] = @ + n]
          /\ counts' = [counts EXCEPT ![s] = @ + n]
    /\ doing' = [doing EXCEPT ![t].todo = Tail(@)]
    /\ UNCHANGED <<known, active, life, closed, mutex, manifest>>

EndRecord(t) ==
    /\ doing[t].op = "writing" /\ doing[t].todo = <<>>
    /\ mutex' = Free
    /\ doing' = [doing EXCEPT ![t] = Idle]
    /\ UNCHANGED <<known, active, life, counts, closed, lines, manifest>>

\* add_symbol and remove_symbol read the clock before they take the lock.
BeginEdit(t, op, s) ==
    /\ doing[t] = Idle
    /\ Len(life[s]) < MaxPeriods
    /\ doing' = [doing EXCEPT ![t] = Wanting(op, s, clock)]
    /\ UNCHANGED <<known, active, life, counts, closed, mutex, lines, manifest>>

LeavePeriod(periods, when) == periods
EndPeriod(periods, when) ==
    IF periods # <<>> /\ periods[Len(periods)].to = Never
    THEN [periods EXCEPT ![Len(periods)].to = when]
    ELSE periods

\* The locked part of an edit that changes nothing: closed (it raises), or the
\* symbol is already there or already gone.
EditIdle(t) ==
    /\ doing[t].op \in {"add", "remove"} /\ mutex = Free
    /\ closed \/ (doing[t].op = "add" <=> doing[t].symbol \in active)
    /\ doing' = [doing EXCEPT ![t] = Idle]
    /\ UNCHANGED <<known, active, life, counts, closed, mutex, lines, manifest>>

\* Only a symbol that is new to the session gets counters.
RegisteredNever(s) == known
Registered(s) == known \cup {s}

\* The locked part of add_symbol, up to the truncation of the manifest.
Add(t) ==
    /\ doing[t].op = "add" /\ mutex = Free /\ ~closed
    /\ LET s == doing[t].symbol IN
       /\ s \notin active
       /\ known' = Registered(s)
       /\ life' = [life EXCEPT ![s] = Append(@, [from |-> doing[t].when, to |-> Never])]
       /\ active' = active \cup {s}
    /\ mutex' = t /\ manifest' = Torn
    /\ doing' = [doing EXCEPT ![t] = [op |-> "manifest", ended |-> Never]]
    /\ UNCHANGED <<counts, closed, lines>>

Remove(t) ==
    /\ doing[t].op = "remove" /\ mutex = Free /\ ~closed
    /\ LET s == doing[t].symbol IN
       /\ s \in active
       /\ active' = active \ {s}
       /\ life' = [life EXCEPT ![s] = EndPeriod(@, doing[t].when)]
    /\ mutex' = t /\ manifest' = Torn
    /\ doing' = [doing EXCEPT ![t] = [op |-> "manifest", ended |-> Never]]
    /\ UNCHANGED <<known, counts, closed, lines>>

\* close() returns at once when _closed is set.
MayCloseTwice == TRUE
MayClose == ~closed
BeginClose ==
    /\ doing[Closer] = Idle /\ MayClose
    /\ doing' = [doing EXCEPT ![Closer] = [op |-> "close"]]
    /\ UNCHANGED <<known, active, life, counts, closed, mutex, lines, manifest>>

Close ==
    /\ doing[Closer].op = "close" /\ mutex = Free
    /\ life' = [s \in Symbols |-> IF s \in active THEN EndPeriod(life[s], clock) ELSE life[s]]
    /\ active' = {} /\ closed' = TRUE
    /\ mutex' = Closer /\ manifest' = Torn
    /\ doing' = [doing EXCEPT ![Closer] = [op |-> "manifest", ended |-> clock]]
    /\ UNCHANGED <<known, counts, lines>>

\* The manifest's text reaches the file and the lock is given back.
WriteManifest(t) ==
    /\ doing[t].op = "manifest"
    /\ manifest' = Manifest(doing[t].ended)
    /\ mutex' = Free
    /\ doing' = [doing EXCEPT ![t] = Idle]
    /\ UNCHANGED <<known, active, life, counts, closed, lines>>

Stream(t) ==
    \/ \E p \in Payloads : BeginRecord(t, p)
    \/ TakeForRecord(t) \/ RecordEntry(t) \/ EndRecord(t)
EditSymbols(t) ==
    \/ \E s \in Symbols : BeginEdit(t, "add", s) \/ BeginEdit(t, "remove", s)
    \/ EditIdle(t) \/ Add(t) \/ Remove(t)

Writing ==
    /\ alive
    /\ \/ \E t \in Streamers : Stream(t)
       \/ \E t \in Editors : EditSymbols(t)
       \/ \E t \in Writers : WriteManifest(t)
       \/ BeginClose \/ Close
    /\ UNCHANGED <<clock, alive, reading, cache>>

-----------------------------------------------------------------------------
(* Readers, in this process or in the one that follows a crash.            *)

\* _cached_complete_l1_quote_history is for recordings that have ended.
CacheableAlways(m) == TRUE
Cacheable(m) == m.ended # Never

\* load_manifest; a torn manifest answers 400.
LoadManifest(r) ==
    /\ reading[r] = "idle" /\ manifest # Torn
    /\ reading' = [reading EXCEPT ![r] = IF Cacheable(manifest) THEN "cached" ELSE "fresh"]
    /\ UNCHANGED cache

\* load_events: the symbol must be in the manifest and have a file.
Loadable(s) == manifest # Torn /\ s \in manifest.known /\ lines[s] > 0

\* _build_l1_quote_history, behind the cache or not.  An entry of the cache is
\* the number of events the history was built from.
ReadHistory(r, s) ==
    /\ reading[r] # "idle"
    /\ reading' = [reading EXCEPT ![r] = "idle"]
    /\ cache' = IF reading[r] = "cached" /\ cache[s] = Never /\ Loadable(s)
                THEN [cache EXCEPT ![s] = lines[s]]
                ELSE cache

Reading ==
    /\ \E r \in Readers : LoadManifest(r) \/ \E s \in Symbols : ReadHistory(r, s)
    /\ UNCHANGED <<recorderVars, lines, manifest, clock, alive>>

-----------------------------------------------------------------------------
Tick ==
    /\ clock < MaxClock
    /\ clock' = clock + 1
    /\ UNCHANGED <<recorderVars, lines, manifest, alive, reading, cache>>

\* The process dies; what is on disk stays as it is.
Crash ==
    /\ alive /\ alive' = FALSE
    /\ UNCHANGED <<recorderVars, lines, manifest, clock, reading, cache>>

MarketNext == Writing \/ Reading \/ Tick \/ Crash
MarketSpec == MarketInit /\ [][MarketNext]_marketVars

-----------------------------------------------------------------------------
(* Properties.                                                             *)

Counter == [Symbols -> Nat]
Lives == [Symbols -> Seq(Period)]
Manifests ==
    [known : SUBSET Symbols, active : SUBSET Symbols, life : Lives,
     counts : Counter, ended : 0 .. MaxClock]
Jobs ==
    {Idle, [op |-> "close"]}
      \cup [op : {"record", "writing"}, todo : Seq(Symbols)]
      \cup [op : {"add", "remove"}, symbol : Symbols, when : 1 .. MaxClock]
      \cup [op : {"manifest"}, ended : 0 .. MaxClock]

\* Types; an active symbol has counters (record_payload indexes them).
MarketTypeOK ==
    /\ known \in SUBSET Symbols /\ active \in SUBSET known
    /\ life \in Lives
    /\ counts \in Counter /\ lines \in Counter
    /\ closed \in BOOLEAN /\ alive \in BOOLEAN
    /\ manifest \in Manifests \cup {Torn}
    /\ mutex \in Writers \cup {Free}
    /\ doing \in [Writers -> Jobs]
    /\ clock \in 1 .. MaxClock
    /\ reading \in [Readers -> {"idle", "fresh", "cached"}]
    /\ cache \in Counter

\* The lifecycle that auditors read agrees with what is recorded: a symbol has
\* an open period, its last one, exactly while it is active, whatever adds,
\* removes and the close interleave.
Open(s, i) == life[s][i].to = Never
LifeMatches ==
    \A s \in Symbols :
        /\ \A i \in 1 .. Len(life[s]) : Open(s, i) => i = Len(life[s])
        /\ s \in active <=> life[s] # <<>> /\ Open(s, Len(life[s]))

\* The manifest of a closed session is complete and counts every line of the
\* files, although payloads pass the unlocked test of _closed before the close
\* and are recorded after it.
FinalManifest ==
    closed /\ mutex = Free =>
        /\ manifest # Torn
        /\ manifest.ended # Never
        /\ manifest.active = {}
        /\ manifest.counts = lines

\* "Completed recordings are immutable" (web/app.py): once close() has let go
\* of the lock no step changes the files or the manifest.
Immutable ==
    [][closed /\ mutex = Free => lines' = lines /\ manifest' = manifest]_marketVars

\* "the LRU never serves stale quotes" (web/app.py): a cached history was built
\* from all the events the file will ever have.
CacheHonest == \A s \in Symbols : cache[s] # Never => cache[s] = lines[s]

\* What is on disk, in memory and in the cache of a session agree, for its readers, its writers and
\* after a crash.  (MarketDayRecorder, _cached_complete_l1_quote_history.)
SessionTrue == MarketTypeOK /\ LifeMatches /\ FinalManifest /\ CacheHonest
=============================================================================
