---------------------------- MODULE MCSchwabStream ----------------------------
(* Model-checking instance of SchwabStream. *)
EXTENDS SchwabStream, TLC

CONSTANTS t1, t2, a, b

MCCallers == {t1, t2}
OneCaller == {t1}
MCSymbols == {a, b}
OneSymbol == {a}
=============================================================================
