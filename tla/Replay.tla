-------------------------------- MODULE Replay --------------------------------
(***************************************************************************)
(* What a replay of a recording promises its viewer (the docstrings of     *)
(* ReplayEngine, replay/engine.py): a player with a position on a tape,    *)
(* whose analysis has seen exactly the tape up to the position, whatever   *)
(* way the position was reached.                                           *)
(***************************************************************************)
EXTENDS Integers, Sequences

CONSTANT Tapes          \* recordings: sequences of events

VARIABLES
    tape,               \* the recording on the player
    pos,                \* events played
    mode,               \* "EMPTY", "PAUSED", "PLAYING" or "COMPLETE"
    shown               \* the events the analysis has seen

playerVars == <<tape, pos, mode, shown>>

Prefix(n) == SubSeq(tape, 1, n)
Rest(n) == IF n >= Len(tape) THEN "COMPLETE" ELSE "PAUSED"

PlayerInit == tape = <<>> /\ pos = 0 /\ mode = "EMPTY" /\ shown = <<>>

Insert(t) ==
    /\ tape' = t /\ pos' = 0 /\ shown' = <<>>
    /\ mode' = IF t = <<>> THEN "COMPLETE" ELSE "PAUSED"

\* A jump stops the player.
JumpTo(n) ==
    /\ mode # "EMPTY"
    /\ pos' = n /\ shown' = Prefix(n) /\ mode' = Rest(n)
    /\ UNCHANGED tape

Start ==
    /\ mode # "EMPTY"
    /\ mode' = IF pos >= Len(tape) THEN "COMPLETE" ELSE "PLAYING"
    /\ UNCHANGED <<tape, pos, shown>>

Halt ==
    /\ mode = "PLAYING" /\ mode' = "PAUSED"
    /\ UNCHANGED <<tape, pos, shown>>

\* Only a playing tape moves by itself, one event at a time, to its end.
Advance ==
    /\ mode = "PLAYING" /\ pos < Len(tape)
    /\ pos' = pos + 1 /\ shown' = Prefix(pos + 1)
    /\ mode' = IF pos + 1 >= Len(tape) THEN "COMPLETE" ELSE "PLAYING"
    /\ UNCHANGED tape

PlayerNext ==
    \/ \E t \in Tapes : Insert(t)
    \/ \E n \in 0 .. Len(tape) : JumpTo(n)
    \/ Start \/ Halt \/ Advance

PlayerSpec == PlayerInit /\ [][PlayerNext]_playerVars
===============================================================================
