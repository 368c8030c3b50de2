------------------------- MODULE MCRecordingRuntime -------------------------
(* Model-checking instance of RecordingRuntime. *)
EXTENDS RecordingRuntime, TLC

CONSTANTS w1, w2, a, b

MCClients == {w1, w2}
OneClient == {w1}
MCSymbols == {a, b}
OneSymbol == {a}

\* API workers are interchangeable, and so are symbols (safety runs only).
Interchangeable == Permutations(MCClients) \cup Permutations(MCSymbols)
=============================================================================
