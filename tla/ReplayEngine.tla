----------------------------- MODULE ReplayEngine -----------------------------
(***************************************************************************)
(* ReplayEngine (replay/engine.py): the API threads of web/app.py drive    *)
(* one engine, and each play() starts a player thread.  Every locked       *)
(* section is one step; what happens between two sections of a method      *)
(* (pause() and the lock of load, step and seek; play's lock and the start *)
(* of its thread; two rounds of a player) interleaves.  An event is what   *)
(* Tapes say it is (its timestamp): `ingested` are the events the session, *)
(* the aggregator and the analysis engines have consumed since they were   *)
(* last reset.  Waiting between two events has no effect but its time.     *)
(***************************************************************************)
EXTENDS Integers, Sequences

CONSTANTS
    Tapes,          \* what RecordingCatalog.load_events returns
    Viewers,        \* API threads
    MaxStep,        \* the counts of step
    MaxPlays        \* bound of _play_generation
ASSUME ReplayAssumption ==
    /\ Tapes \subseteq Seq(Nat)
    /\ MaxStep \in Nat \ {0}
    /\ MaxPlays \in Nat

VARIABLES
    loaded,         \* self._symbol is not None
    events,         \* self._events
    cursor,         \* self._cursor
    status,         \* self._status
    generation,     \* self._play_generation
    ingested,       \* what the analysis state was built from
    players,        \* generations of the live player threads
    call            \* per viewer: the method it is in

replayVars == <<loaded, events, cursor, status, generation, ingested, players, call>>
engineVars == <<loaded, events, cursor, ingested>>

Resting == [op |-> "none"]
End == Len(events)

ReplayInit ==
    /\ loaded = FALSE /\ events = <<>> /\ cursor = 0 /\ status = "EMPTY"
    /\ generation = 0 /\ ingested = <<>> /\ players = {}
    /\ call = [v \in Viewers |-> Resting]

\* pause(): whoever plays is told to stop.
PausedNever == status
PausedAlways == "PAUSED"
Paused == IF status = "PLAYING" THEN "PAUSED" ELSE status

\* The _ingest_record calls of a loop that moves the cursor from m to n.
Ingest(seen, m, n) == seen \o SubSeq(events, m + 1, n)
\* _reset_analysis: a new session, cache, aggregator, pattern service and AE.
ResetNever == ingested
Reset == <<>>
AtRest(n) == IF n >= End THEN "COMPLETE" ELSE "PAUSED"

-----------------------------------------------------------------------------
(* API threads.                                                            *)

Pause(v) ==
    /\ call[v] = Resting /\ generation < MaxPlays
    /\ generation' = generation + 1 /\ status' = Paused
    /\ UNCHANGED <<engineVars, players, call>>

\* load, step and seek begin with pause().
Begin(v, job) ==
    /\ call[v] = Resting /\ generation < MaxPlays
    /\ generation' = generation + 1 /\ status' = Paused
    /\ call' = [call EXCEPT ![v] = job]
    /\ UNCHANGED <<engineVars, players>>

Load(v) ==
    /\ call[v].op = "load"
    /\ loaded' = TRUE /\ events' = call[v].tape /\ cursor' = 0
    /\ ingested' = Reset
    /\ status' = IF call[v].tape = <<>> THEN "COMPLETE" ELSE "PAUSED"
    /\ call' = [call EXCEPT ![v] = Resting]
    /\ UNCHANGED <<generation, players>>

\* step and seek of an engine that holds no recording raise.
Refuse(v) ==
    /\ call[v].op \in {"step", "seek"} /\ ~loaded
    /\ call' = [call EXCEPT ![v] = Resting]
    /\ UNCHANGED <<engineVars, generation, status, players>>

Step(v) ==
    /\ call[v].op = "step" /\ loaded
    /\ LET end == IF cursor + call[v].arg < End THEN cursor + call[v].arg ELSE End IN
       /\ cursor' = end
       /\ ingested' = Ingest(ingested, cursor, end)
       /\ status' = AtRest(end)
    /\ call' = [call EXCEPT ![v] = Resting]
    /\ UNCHANGED <<loaded, events, generation, players>>

\* seek rebuilds the analysis from the first event.
Seek(v) ==
    /\ call[v].op = "seek" /\ loaded
    /\ LET target == IF call[v].arg < End THEN call[v].arg ELSE End IN
       /\ cursor' = target
       /\ ingested' = Ingest(Reset, 0, target)
       /\ status' = AtRest(target)
    /\ call' = [call EXCEPT ![v] = Resting]
    /\ UNCHANGED <<loaded, events, generation, players>>

\* The locked section of play(); its thread is started by StartPlayer.
Play(v) ==
    /\ call[v] = Resting /\ loaded /\ generation < MaxPlays
    /\ IF cursor >= End
       THEN /\ status' = "COMPLETE"
            /\ UNCHANGED <<generation, call>>
       ELSE /\ status' = "PLAYING"
            /\ generation' = generation + 1
            /\ call' = [call EXCEPT ![v] = [op |-> "play", arg |-> generation + 1]]
    /\ UNCHANGED <<engineVars, players>>

SpawnedIfNone(g) == IF players = {} THEN {g} ELSE players
Spawned(g) == players \cup {g}
StartPlayer(v) ==
    /\ call[v].op = "play"
    /\ players' = Spawned(call[v].arg)
    /\ call' = [call EXCEPT ![v] = Resting]
    /\ UNCHANGED <<engineVars, generation, status>>

-----------------------------------------------------------------------------
(* Player threads.                                                         *)

Stale(g) == g # generation \/ status # "PLAYING"

Leave(g) ==
    /\ g \in players /\ Stale(g)
    /\ players' = players \ {g}
    /\ UNCHANGED <<engineVars, generation, status, call>>

Round(g) ==
    /\ g \in players /\ ~Stale(g) /\ cursor < End
    /\ ingested' = Ingest(ingested, cursor, cursor + 1)
    /\ cursor' = cursor + 1
    /\ IF cursor + 1 >= End
       THEN status' = "COMPLETE" /\ players' = players \ {g}
       ELSE UNCHANGED <<status, players>>
    /\ UNCHANGED <<loaded, events, generation, call>>

-----------------------------------------------------------------------------
Request(v) ==
    \/ \E t \in Tapes : Begin(v, [op |-> "load", tape |-> t])
    \/ \E n \in 1 .. MaxStep : Begin(v, [op |-> "step", arg |-> n])
    \/ \E n \in 0 .. MaxStep : Begin(v, [op |-> "seek", arg |-> n])
    \/ Play(v) \/ Pause(v)

Continue(v) == Load(v) \/ Refuse(v) \/ Step(v) \/ Seek(v) \/ StartPlayer(v)
Player(g) == Leave(g) \/ Round(g)

ReplayNext ==
    \/ \E v \in Viewers : Request(v) \/ Continue(v)
    \/ \E g \in 1 .. MaxPlays : Player(g)

ReplaySpec == ReplayInit /\ [][ReplayNext]_replayVars

\* A method that began goes on, and threads are scheduled.
ReplayFairness ==
    /\ WF_replayVars(\E v \in Viewers : Continue(v))
    /\ WF_replayVars(\E g \in 1 .. MaxPlays : Player(g))

-----------------------------------------------------------------------------
(* Properties.                                                             *)

Calls ==
    [op : {"none"}] \cup [op : {"load"}, tape : Tapes]
      \cup [op : {"step", "seek", "play"}, arg : Nat]

\* Types; the cursor stays on the recording; every thread has a generation
\* that was handed out.
ReplayTypeOK ==
    /\ loaded \in BOOLEAN
    /\ events \in Seq(Nat)
    /\ cursor \in 0 .. Len(events)
    /\ status \in {"EMPTY", "PAUSED", "PLAYING", "COMPLETE"}
    /\ generation \in 0 .. MaxPlays
    /\ ingested \in Seq(Nat)
    /\ players \in SUBSET (1 .. generation)
    /\ call \in [Viewers -> Calls]
    /\ \A v \in Viewers : call[v].op = "play" => call[v].arg \in 1 .. generation
    /\ loaded <=> status # "EMPTY"

\* An engine that says PLAYING has a thread that will move it, running or
\* about to be started, however play, pause, load, step and seek interleave.
PlayingIsDriven ==
    status = "PLAYING" =>
        /\ cursor < Len(events)
        /\ \/ generation \in players
           \/ \E v \in Viewers : call[v] = [op |-> "play", arg |-> generation]

\* The same with the types of the engine's fields.  (ReplayEngine.)
PlaybackDriven == ReplayTypeOK /\ PlayingIsDriven

\* "Deterministic [...] replay": the engine implements the player, whose
\* analysis is a function of the recording and the position alone.
Abstract ==
    INSTANCE Replay WITH tape <- events, pos <- cursor, mode <- status, shown <- ingested
Deterministic == Abstract!PlayerSpec

\* A player that is not stopped reaches the end.
PlaysOut == status = "PLAYING" ~> status # "PLAYING"
===============================================================================
