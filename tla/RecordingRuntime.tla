-------------------------- MODULE RecordingRuntime --------------------------
(***************************************************************************)
(* The recording half of CompanionRuntime (runtime/companion_runtime.py):  *)
(* which MarketDayRecorder is active, the recording intent persisted in    *)
(* the app-state database, and the threads that change both: API workers   *)
(* (one per in-flight HTTP request), the lifecycle thread that runs        *)
(* start() and stop(), the 5-second watchdog, and one cutoff thread per    *)
(* recording session.                                                      *)
(*                                                                         *)
(* Grain: a step is what one thread does under the runtime lock, or one    *)
(* access to the app-state database, or one call that can take long        *)
(* (REST, token helper).  The lock is released between them in the code,   *)
(* so steps of different threads interleave freely here.                   *)
(*                                                                         *)
(* Abstracted: a session directory is a number, the newest the largest;    *)
(* the clock is a day and whether 15:00 ET has passed; the outcome of      *)
(* auth_status() is a free choice; the symbols subscribed on the stream    *)
(* and the recorded lines are not state of this module.                    *)
(***************************************************************************)
EXTENDS Naturals

CONSTANTS
    Symbols,      \* ticker symbols a client may ask to record
    Clients,      \* API worker threads of the web server
    Watchdog,     \* the thread started by _start_stream_watchdog
    Main,         \* the thread of the server's lifespan: start(), stop()
    MaxSessions,  \* bound: recording sessions ever created
    MaxBoots,     \* bound: times the process is started
    MaxCalls,     \* bound: API calls made in the whole behaviour
    MaxDay        \* bound: trading days

Sessions == 1 .. MaxSessions
Recoverers == {Watchdog, Main}
Threads == Clients \cup Recoverers \cup Sessions

ASSUME BoundsAssumption ==
    /\ MaxSessions \in Nat
    /\ MaxBoots \in Nat
    /\ MaxCalls \in Nat
    /\ MaxDay \in Nat \ {0}

\* The cutoff thread of a session is named by the session.
ASSUME ThreadsAssumption ==
    /\ Watchdog # Main
    /\ Recoverers \cap Clients = {}
    /\ (Clients \cup Recoverers) \cap Sessions = {}

Intents == [day : 0 .. MaxDay, symbols : SUBSET Symbols, previous : 0 .. MaxSessions]
NoIntent == [day |-> 0, symbols |-> {}, previous |-> 0]

\* Local variables of a running call: the operation, the recorder it works
\* on, the symbols it holds, and the intent a recovery loaded.
Operations == {"none", "start", "add", "remove", "manual", "cutoff", "shutdown"}
Frames == [op : Operations, rec : 0 .. MaxSessions, syms : SUBSET Symbols, found : Intents]
NewFrame(op, found, syms) == [op |-> op, rec |-> 0, syms |-> syms, found |-> found]
Blank == NewFrame("none", NoIntent, {})

\* "none": not created; "open": no end in the manifest; "lost": the process
\* died with the session open; otherwise the manifest's stop_reason.
Statuses == {"none", "open", "manual", "cutoff", "shutdown", "lost"}
Births == [context : Intents, day : 0 .. MaxDay, boot : 0 .. MaxBoots]
Unborn == [context |-> NoIntent, day |-> 0, boot |-> 0]

\* What the session publishes to the browsers as recorder_state.
Shown == {"inactive", "active", "awaiting_auth", "restart_failed", "interrupted"}

AtRest == {"idle", "serving", "stopped", "down", "unarmed", "sleeping", "done"}
Busy == {"lookup", "consult", "expire", "authorize", "report", "create", "persist",
         "ensure", "publish", "edit", "take", "close", "settle", "close_publish",
         "announce", "discard", "halt"}

VARIABLES
    \* on disk
    intent,            \* app_state[_RECORDING_INTENT_KEY]
    count,             \* session directories created so far
    status,            \* status[s] of the manifest of session s
    active,            \* active[s]: MarketDayRecorder._active_symbols
    birth,             \* birth[s]: recovery context, day and boot of session s
    \* in memory, gone with the process
    started,           \* _started
    watchdogStop,      \* _stream_watchdog_stop
    recorder,          \* _recorder, 0 for None
    recordingSymbols,  \* _recording_symbols
    stream,            \* whether _stream is not None
    recentAttempt,     \* whether start()'s recovery attempt may be under 5 s old
    shown,             \* CompanionSession._recorder_state
    pc, frame,         \* where each thread is, and its local variables
    \* the world
    day, late,         \* ET date, and whether 15:00 ET has passed
    boots, calls       \* bound counters

sessions == <<count, status, active, birth>>
disk == <<intent, sessions>>
recording == <<recorder, recordingSymbols>>
process == <<started, watchdogStop, stream, recentAttempt>>
memory == <<recording, process, shown>>
world == <<day, late, boots, calls>>
vars == <<disk, memory, pc, frame, world>>

Rest0 == [t \in Threads |->
            IF t = Main THEN "down" ELSE IF t \in Sessions THEN "unarmed" ELSE "idle"]

Init ==
    /\ intent = NoIntent
    /\ count = 0
    /\ status = [s \in Sessions |-> "none"]
    /\ active = [s \in Sessions |-> {}]
    /\ birth = [s \in Sessions |-> Unborn]
    /\ started = FALSE
    /\ watchdogStop = FALSE
    /\ recorder = 0
    /\ recordingSymbols = {}
    /\ stream = FALSE
    /\ recentAttempt = FALSE
    /\ shown = "inactive"
    /\ pc = Rest0
    /\ frame = [t \in Threads |-> Blank]
    /\ day = 1 /\ late = FALSE
    /\ boots = 0 /\ calls = 0

-----------------------------------------------------------------------------
(* Control of a thread.                                                    *)

Go(t, next) == pc' = [pc EXCEPT ![t] = next]

\* Where a thread rests when its call has returned.
RestOf(t) ==
    IF t = Main THEN (IF started THEN "serving" ELSE "stopped")
    ELSE IF t \in Sessions THEN "done" ELSE "idle"

Finish(t) ==
    /\ Go(t, RestOf(t))
    /\ frame' = [frame EXCEPT ![t] = Blank]

\* start_recording raises: the API call just fails, a recovery reports it.
Raise(t) ==
    IF t \in Recoverers
    THEN Go(t, "report") /\ UNCHANGED frame
    ELSE Finish(t)

Call(t, op, syms, next) ==
    /\ pc[t] = "idle" /\ pc[Main] = "serving" /\ calls < MaxCalls
    /\ Go(t, next)
    /\ frame' = [frame EXCEPT ![t] = NewFrame(op, NoIntent, syms)]
    /\ calls' = calls + 1
    /\ UNCHANGED <<disk, memory, day, late, boots>>

-----------------------------------------------------------------------------
(* The API calls arrive.  start_recording and add_recording_symbol check    *)
(* the cutoff before anything else, remove_ and stop_recording do not.      *)

StartCall(t) == \E syms \in SUBSET Symbols : ~late /\ Call(t, "start", syms, "create")
AddCall(t) == \E s \in Symbols : ~late /\ Call(t, "add", {s}, "edit")
RemoveCall(t) == \E s \in Symbols : Call(t, "remove", {s}, "edit")
StopCall(t) == Call(t, "manual", {}, "take")

-----------------------------------------------------------------------------
(* start_recording, from the lock on.                                      *)

Install(t) ==
    LET s == count + 1 IN
    /\ count' = s
    /\ status' = [status EXCEPT ![s] = "open"]
    /\ active' = [active EXCEPT ![s] = frame[t].syms]
    /\ birth' = [birth EXCEPT ![s] =
            [context |-> frame[t].found, day |-> day, boot |-> boots]]
    /\ recorder' = s
    /\ recordingSymbols' = frame[t].syms
    /\ frame' = [frame EXCEPT ![t].rec = s]
    /\ Go(t, "persist")
    /\ UNCHANGED <<intent, process, shown, world>>

CanInstallOver == count < MaxSessions
CanInstall == recorder = 0 /\ count < MaxSessions

\* A recorder is created and installed unless one is active.  (At the bound
\* MaxSessions the directory cannot be made, which raises as well.)
Create(t) ==
    /\ pc[t] = "create"
    /\ \/ CanInstall /\ Install(t)
       \/ ~CanInstall /\ Raise(t) /\ UNCHANGED <<disk, memory, world>>

PersistOnlyFirst(syms, previous) ==
    intent' = IF intent # NoIntent THEN intent
              ELSE [day |-> day, symbols |-> syms, previous |-> previous]

PersistRecordingIntent(syms, previous) ==
    intent' = [day |-> day, symbols |-> syms, previous |-> previous]

ClearRecordingIntent == intent' = NoIntent

\* start, add and remove persist the symbols they saw under the lock, after
\* having released it.
Persist(t) ==
    /\ pc[t] = "persist"
    /\ PersistRecordingIntent(frame[t].syms, 0)
    /\ Go(t, IF frame[t].op = "remove" THEN "publish" ELSE "ensure")
    /\ UNCHANGED <<sessions, memory, frame, world>>

\* _ensure_stream: no call when a stream exists; otherwise the preferences
\* are fetched, which may raise.
EnsureStream(t) ==
    /\ pc[t] = "ensure"
    /\ \/ stream' = TRUE /\ Go(t, "publish") /\ UNCHANGED frame
       \/ ~stream /\ Raise(t) /\ UNCHANGED stream
    /\ UNCHANGED <<disk, recording, started, watchdogStop, recentAttempt, shown, world>>

RecorderStateRaw(s) == status[s]
RecorderState(s) == IF status[s] = "open" THEN "active" ELSE "inactive"

\* The recorder's state is published; a start also starts the cutoff thread.
Publish(t) ==
    LET rec == frame[t].rec IN
    /\ pc[t] = "publish"
    /\ shown' = RecorderState(rec)
    /\ pc' = [u \in Threads |->
                IF u = t THEN RestOf(t)
                ELSE IF u = rec /\ frame[t].op = "start" THEN "sleeping" ELSE pc[u]]
    /\ frame' = [frame EXCEPT ![t] = Blank]
    /\ UNCHANGED <<disk, recording, process, world>>

-----------------------------------------------------------------------------
(* add_recording_symbol and remove_recording_symbol, under the lock.       *)

Edit(t) ==
    /\ pc[t] = "edit"
    /\ \/ /\ recorder = 0
          /\ Finish(t)
          /\ UNCHANGED <<active, recordingSymbols>>
       \/ /\ recorder # 0
          /\ LET now == IF frame[t].op = "add"
                        THEN active[recorder] \cup frame[t].syms
                        ELSE active[recorder] \ frame[t].syms
             IN /\ active' = [active EXCEPT ![recorder] = now]
                /\ recordingSymbols' = now
                /\ frame' = [frame EXCEPT ![t].rec = recorder, ![t].syms = now]
          /\ Go(t, "persist")
    /\ UNCHANGED <<intent, count, status, birth, recorder, process, shown, world>>

-----------------------------------------------------------------------------
(* stop_recording: the recorder is taken under the lock, closed, and then   *)
(* the intent is kept (shutdown with symbols) or cleared.                   *)

ReleaseOnly == recorder' = 0 /\ UNCHANGED recordingSymbols
Release == recorder' = 0 /\ recordingSymbols' = {}

Take(t) ==
    /\ pc[t] = "take"
    /\ Go(t, IF recorder = 0 THEN "announce" ELSE "close")
    /\ frame' = [frame EXCEPT ![t].rec = recorder, ![t].syms = recordingSymbols]
    /\ Release
    /\ UNCHANGED <<disk, process, shown, world>>

SealOnly(s, reason) ==
    status' = [status EXCEPT ![s] = reason] /\ UNCHANGED active

Seal(s, reason) ==
    status' = [status EXCEPT ![s] = reason] /\ active' = [active EXCEPT ![s] = {}]

Close(t) ==
    /\ pc[t] = "close"
    /\ Seal(frame[t].rec, frame[t].op)
    /\ Go(t, "settle")
    /\ UNCHANGED <<intent, count, birth, memory, frame, world>>

KeepsIntentAlways(t) == frame[t].syms # {}
KeepsIntent(t) == frame[t].op = "shutdown" /\ frame[t].syms # {}

Settle(t) ==
    /\ pc[t] = "settle"
    /\ IF KeepsIntent(t)
       THEN PersistRecordingIntent(frame[t].syms, frame[t].rec)
       ELSE ClearRecordingIntent
    /\ Go(t, "close_publish")
    /\ UNCHANGED <<sessions, memory, frame, world>>

StoppedStateAlways(t) == "interrupted"
StoppedState(t) == IF KeepsIntent(t) THEN "interrupted" ELSE "inactive"

ClosePublish(t) ==
    /\ pc[t] = "close_publish"
    /\ shown' = StoppedState(t)
    /\ Finish(t)
    /\ UNCHANGED <<disk, recording, process, world>>

\* No recorder was active: publish, then clear the intent unless shutting down.
Announce(t) ==
    /\ pc[t] = "announce"
    /\ shown' = "inactive"
    /\ IF frame[t].op = "shutdown"
       THEN Finish(t)
       ELSE Go(t, "discard") /\ UNCHANGED frame
    /\ UNCHANGED <<disk, recording, process, world>>

Discard(t) ==
    /\ pc[t] = "discard"
    /\ ClearRecordingIntent
    /\ Finish(t)
    /\ UNCHANGED <<sessions, memory, world>>

NotMine(s) == recorder # s
Mine(s) == recorder = s

\* The cutoff thread of session t wakes at 15:00 ET and stops the recording
\* if its recorder is still the active one.
CutoffWake(t) ==
    /\ t \in Sessions
    /\ pc[t] = "sleeping" /\ late
    /\ IF Mine(t)
       THEN /\ Go(t, "take")
            /\ frame' = [frame EXCEPT ![t] = NewFrame("cutoff", NoIntent, {})]
       ELSE Finish(t)
    /\ UNCHANGED <<disk, memory, world>>

-----------------------------------------------------------------------------
(* _recover_recording_intent_once, by the watchdog and once by start().    *)

WatchdogTick ==
    /\ pc[Watchdog] = "idle" /\ started /\ ~watchdogStop
    /\ Go(Watchdog, "lookup")
    /\ UNCHANGED <<disk, memory, frame, world>>

Lookup(t) ==
    /\ pc[t] = "lookup"
    /\ IF recorder # 0 \/ ~started
       THEN Finish(t)
       ELSE Go(t, "consult") /\ UNCHANGED frame
    /\ UNCHANGED <<disk, memory, world>>

ExpiredAtCutoffOnly == late
Expired == intent.day # day \/ late

ThrottleForever == UNCHANGED recentAttempt
ThrottleOnce == recentAttempt' = FALSE

Attempt(t) ==
    /\ Go(t, "authorize")
    /\ frame' = [frame EXCEPT ![t] = NewFrame("start", intent, intent.symbols)]
    /\ recentAttempt' = (t = Main)

\* The intent is loaded and judged: there is none; it expired; it names no
\* symbol; start() made an attempt less than 5 s ago; or an attempt is made.
Consult(t) ==
    /\ pc[t] = "consult"
    /\ \/ intent = NoIntent /\ Finish(t) /\ UNCHANGED recentAttempt
       \/ /\ intent # NoIntent /\ Expired
          /\ Go(t, "expire")
          /\ UNCHANGED <<frame, recentAttempt>>
       \/ /\ intent # NoIntent /\ ~Expired
          /\ \/ intent.symbols = {} /\ Finish(t) /\ UNCHANGED recentAttempt
             \/ /\ intent.symbols # {} /\ t = Watchdog /\ recentAttempt
                /\ Finish(t)
                /\ ThrottleOnce
             \/ intent.symbols # {} /\ Attempt(t)
    /\ UNCHANGED <<disk, recording, started, watchdogStop, stream, shown, world>>

Expire(t) ==
    /\ pc[t] = "expire"
    /\ ClearRecordingIntent
    /\ Finish(t)
    /\ UNCHANGED <<sessions, memory, world>>

\* auth_status() says no: the recovery waits.
Unauthorized(t) ==
    /\ pc[t] = "authorize"
    /\ shown' = "awaiting_auth"
    /\ Finish(t)
    /\ UNCHANGED <<disk, recording, process, world>>

\* auth_status() says yes: start_recording, which first checks the cutoff.
Authorized(t) ==
    /\ pc[t] = "authorize"
    /\ Go(t, IF late THEN "report" ELSE "create")
    /\ UNCHANGED <<disk, memory, frame, world>>

ReportFailure(t) ==
    /\ pc[t] = "report"
    /\ shown' = "restart_failed"
    /\ Finish(t)
    /\ UNCHANGED <<disk, recording, process, world>>

-----------------------------------------------------------------------------
(* The process: start(), stop(), crash.                                     *)

Boot ==
    /\ pc[Main] = "down" /\ boots < MaxBoots
    /\ boots' = boots + 1
    /\ started' = TRUE
    /\ Go(Main, "lookup")
    /\ UNCHANGED <<disk, recording, watchdogStop, stream, recentAttempt, shown, frame, day, late, calls>>

\* The server waits for its requests before it runs stop().
Shutdown ==
    /\ pc[Main] = "serving" /\ \A t \in Clients : pc[t] = "idle"
    /\ started' = FALSE
    /\ stream' = FALSE
    /\ Go(Main, "halt")
    /\ UNCHANGED <<disk, recording, watchdogStop, recentAttempt, shown, frame, world>>

Halt ==
    /\ pc[Main] = "halt"
    /\ watchdogStop' = TRUE
    /\ Go(Main, "take")
    /\ frame' = [frame EXCEPT ![Main] = NewFrame("shutdown", NoIntent, {})]
    /\ UNCHANGED <<disk, recording, started, stream, recentAttempt, shown, world>>

\* All memory is gone; a session that was open never gets an end.
Forget ==
    /\ status' = [s \in Sessions |-> IF status[s] = "open" THEN "lost" ELSE status[s]]
    /\ active' = [s \in Sessions |-> {}]
    /\ started' = FALSE /\ watchdogStop' = FALSE
    /\ recorder' = 0 /\ recordingSymbols' = {}
    /\ stream' = FALSE /\ recentAttempt' = FALSE
    /\ shown' = "inactive"
    /\ pc' = Rest0
    /\ frame' = [t \in Threads |-> Blank]
    /\ UNCHANGED <<intent, count, birth, world>>

Exit == pc[Main] = "stopped" /\ Forget
Crash == pc[Main] \notin {"down", "stopped"} /\ Forget

-----------------------------------------------------------------------------
(* The clock.  A call does not last from 15:00 to midnight, and a cutoff    *)
(* thread does not oversleep by nine hours.                                 *)

ReachCutoff ==
    /\ ~late
    /\ late' = TRUE
    /\ UNCHANGED <<disk, memory, pc, frame, day, boots, calls>>

NextDay ==
    /\ late /\ day < MaxDay
    /\ \A t \in Threads : pc[t] \in AtRest \ {"sleeping"}
    /\ day' = day + 1 /\ late' = FALSE
    /\ UNCHANGED <<disk, memory, pc, frame, boots, calls>>

-----------------------------------------------------------------------------
Invoke(t) == StartCall(t) \/ AddCall(t) \/ RemoveCall(t) \/ StopCall(t)

\* The steps a running thread takes on its own.
Step(t) ==
    \/ Create(t) \/ Persist(t) \/ EnsureStream(t) \/ Publish(t) \/ Edit(t)
    \/ Take(t) \/ Close(t) \/ Settle(t) \/ ClosePublish(t)
    \/ Announce(t) \/ Discard(t) \/ CutoffWake(t)
    \/ Lookup(t) \/ Consult(t) \/ Expire(t) \/ Unauthorized(t) \/ Authorized(t)
    \/ ReportFailure(t)

World == Boot \/ Shutdown \/ Exit \/ Crash \/ ReachCutoff \/ NextDay

Next ==
    \/ \E t \in Clients : Invoke(t)
    \/ \E t \in Threads : Step(t)
    \/ WatchdogTick \/ Halt
    \/ World

Spec == Init /\ [][Next]_vars

\* Threads are scheduled; authorization is not lost for good; no client has
\* to call, and neither crashes nor the clock are owed.
Fairness ==
    /\ \A t \in Threads : WF_vars(Step(t))
    /\ WF_vars(WatchdogTick)
    /\ WF_vars(Halt)
    /\ SF_vars(Authorized(Watchdog))

FairSpec == Spec /\ Fairness

\* One call at a time: a thread moves only while the others rest.  Crashes
\* and the clock still come at any step.
Alone(t) == \A u \in Threads \ {t} : pc[u] \in AtRest

SerialNext ==
    \/ \E t \in Clients : Alone(t) /\ Invoke(t)
    \/ \E t \in Threads : Alone(t) /\ Step(t)
    \/ Alone(Watchdog) /\ WatchdogTick
    \/ Alone(Main) /\ Halt
    \/ World

SerialSpec == Init /\ [][SerialNext]_vars

-----------------------------------------------------------------------------
(* Properties.                                                              *)

\* Every variable keeps its type.
TypeOK ==
    /\ intent \in Intents
    /\ count \in 0 .. MaxSessions
    /\ status \in [Sessions -> Statuses]
    /\ active \in [Sessions -> SUBSET Symbols]
    /\ birth \in [Sessions -> Births]
    /\ started \in BOOLEAN /\ watchdogStop \in BOOLEAN
    /\ recorder \in 0 .. MaxSessions
    /\ recordingSymbols \in SUBSET Symbols
    /\ stream \in BOOLEAN /\ recentAttempt \in BOOLEAN
    /\ shown \in Shown
    /\ pc \in [Threads -> AtRest \cup Busy]
    /\ frame \in [Threads -> Frames]
    /\ day \in 1 .. MaxDay /\ late \in BOOLEAN
    /\ boots \in 0 .. MaxBoots /\ calls \in 0 .. MaxCalls

\* No session is left open behind the runtime's back: whatever the API
\* calls, the recovery attempts and the cutoff do to each other, a session
\* whose files are open is the active recorder or is being closed by the one
\* thread that took it.
NoOrphanSession ==
    \A s \in Sessions : status[s] = "open" =>
        recorder = s \/ \E t \in Threads : pc[t] = "close" /\ frame[t].rec = s

\* The runtime and its recorder agree: the active recorder is an open session
\* and _recording_symbols is what it records; with no recorder the runtime
\* asks the stream for no recording symbol.
RecorderView ==
    IF recorder = 0
    THEN recordingSymbols = {}
    ELSE status[recorder] = "open" /\ recordingSymbols = active[recorder]

\* Recovery lineage is true: a session that names a previous session names
\* an earlier one that stop() closed, and a recovered session comes from an
\* intent of its own ET date, never of a prior one.
LineageTrue ==
    \A s \in Sessions : LET from == birth[s].context IN
        from # NoIntent =>
            /\ from.day = birth[s].day
            /\ from.previous # 0 =>
                    from.previous < s /\ status[from.previous] = "shutdown"

\* A session that ended, or was lost in a crash, is never reopened, never
\* ended again for another reason, and records no symbol any more.
SealedSessions ==
    [][\A s \in Sessions : status[s] \notin {"none", "open"} =>
            status'[s] = status[s] /\ active'[s] = {}]_vars

\* "Recorder automatically stops at 3:00 PM ET", for every recording whose
\* start_recording returned: its cutoff thread is running.
ArmedRecordingStops ==
    \A s \in Sessions : (recorder = s /\ pc[s] = "sleeping" /\ late) ~> recorder # s

\* The same of every recording, also one whose start_recording raised.
RecordingStopsAtCutoff ==
    \A s \in Sessions : (recorder = s /\ late /\ day = 1) ~> (recorder # s)

Interrupted ==
    /\ started /\ pc[Main] = "serving"
    /\ recorder = 0 /\ count < MaxSessions
    /\ intent.day = day /\ ~late /\ intent.symbols # {}

\* An interrupted recording is not left pending for ever: with authorization
\* available again the watchdog starts a new session, unless the intent is
\* withdrawn, the cutoff passes or the process ends.
InterruptionResolved == Interrupted ~> ~Interrupted

Quiet == \A t \in Threads : pc[t] \in AtRest

\* Between calls the persisted intent is the recording: its symbols and its
\* date, so a crash at any such moment can be recovered from.
IntentFollowsRecording ==
    Quiet /\ recorder # 0 /\ birth[recorder].day = day =>
        intent = [day |-> day, symbols |-> recordingSymbols, previous |-> 0]

\* "A normal user/manual stop or the 15:00 ET cutoff clears the intent": when
\* all calls have returned, no intent survives the recording that a user or
\* the cutoff ended in this run of the process.
StopClearsIntent ==
    Quiet /\ pc[Main] = "serving" /\ count > 0 /\ birth[count].boot = boots
          /\ status[count] \in {"manual", "cutoff"} => intent = NoIntent

\* What the browsers are shown is the recorder: between calls, "active" only
\* with a recorder, and never anything else for one that was fully started.
ShownHonest ==
    Quiet => /\ shown = "active" => recorder # 0
             /\ recorder # 0 /\ pc[recorder] = "sleeping" => shown = "active"
             /\ shown = "interrupted" => intent.symbols # {}

\* "A normal user/manual stop [...] clears the intent": a recording that a
\* user stopped is not resumed by the recovery of the same process.
ManualStopFinal ==
    \A s \in Sessions \ {1} :
        /\ birth[s].context # NoIntent
        /\ birth[s].boot = birth[s - 1].boot
        => status[s - 1] # "manual"

\* Between calls that did not overlap, the persisted intent, the recording and what the browsers are
\* shown agree (_persist_recording_intent, _clear_recording_intent, _publish_recorder_state).
IntentHonest == IntentFollowsRecording /\ StopClearsIntent /\ ShownHonest
=============================================================================
