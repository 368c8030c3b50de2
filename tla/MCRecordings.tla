---------------------------- MODULE MCRecordings ----------------------------
(***************************************************************************)
(* Model-checking instance of what records a market day and of what plays  *)
(* it again: a recorder with its readers, the stand-alone runner, a replay *)
(* engine, and the bars made of a stream and of its recording.  They share *)
(* nothing but finished files, so a behaviour exercises one of them,       *)
(* chosen among Parts.                                                     *)
(***************************************************************************)
EXTENDS MarketDay, MarketDayRunner, ReplayEngine, Bars, TLC

CONSTANTS Parts, a, b, f1, e1, r1, v1, v2

MCSymbols == {a, b}
MCStreamers == {f1}
MCEditors == {e1}
MCReaders == {r1}
MCPayloads == {<<a, b>>}
MCFirst == {a}
MCViewers == {v1, v2}
MCTapes == {<<>>, <<1, 2, 3>>}

VARIABLE part
allVars == <<marketVars, runnerVars, replayVars, barsVars, part>>

RecordingsInit ==
    /\ MarketInit /\ RunnerInit /\ ReplayInit /\ BarsInit /\ part \in Parts

RecordingsNext ==
    \/ part = "recorder" /\ MarketNext /\ UNCHANGED <<runnerVars, replayVars, barsVars, part>>
    \/ part = "runner" /\ RunnerNext /\ UNCHANGED <<marketVars, replayVars, barsVars, part>>
    \/ part = "replay" /\ ReplayNext /\ UNCHANGED <<marketVars, runnerVars, barsVars, part>>
    \/ part = "bars" /\ BarsNext /\ UNCHANGED <<marketVars, runnerVars, replayVars, part>>

\* ReplayFairness and RunnerFairness, asked only of the part that runs.
RecordingsSpec ==
    /\ RecordingsInit /\ [][RecordingsNext]_allVars
    /\ WF_replayVars(part = "replay" /\ \E v \in Viewers : Continue(v))
    /\ WF_replayVars(part = "replay" /\ \E g \in 1 .. MaxPlays : Player(g))
    /\ WF_runnerVars(part = "runner" /\ RunStep)
    /\ WF_runnerVars(part = "runner" /\ StopStep)
    /\ WF_runnerVars(part = "runner" /\ socket = "closed" /\ Hangup)
=============================================================================
