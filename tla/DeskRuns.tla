------------------------------ MODULE DeskRuns ------------------------------
(***************************************************************************)
(* The desktop's runs of the language model (ui/controller.py,             *)
(* ui/main_window.py): the automatic runs, which the stream thread gates   *)
(* by time and by change and posts to the Qt thread, and the manual ones,  *)
(* each a thread of its own.  What a run returns is module Setups.         *)
(*                                                                         *)
(* A snapshot is its symbol and a version, which stands for its hash.      *)
(* Time is counted in half minutes, the interval of refreshes; ages stop   *)
(* at one.  Whether a posted call ever runs depends on the event loop of   *)
(* the thread that posted it, so it may be lost.                           *)
(***************************************************************************)
EXTENDS Integers, Sequences

CONSTANTS
    Charts,         \* symbols
    NoChart,
    MaxRunsAsked,   \* bound of the runs
    MaxVersions,    \* bound of a snapshot's versions
    MaxSwitches     \* bound of the symbols entered
ASSUME DeskRunsAssumption ==
    NoChart \notin Charts /\ {MaxRunsAsked, MaxVersions, MaxSwitches} \subseteq Nat

VARIABLES
    open,           \* _active_symbol and _pending_symbol
    enabled,        \* _llm_enabled
    last,           \* _last_llm_ts: symbol -> time since, Never if it has none
    sent,           \* _last_llm_hash: symbol -> version, 0 if it has none
    held,           \* _last_ae_snapshot
    posted,         \* runs posted to the Qt thread
    auto,           \* the run the Qt thread is in
    manual,         \* manual runs in progress
    recommended,    \* the run whose result is shown, whichever symbol is entered
    prior,          \* _last_llm_rec_by_symbol: the run a refresh builds on
    asks, switches,
    begun,          \* per symbol: the automatic runs since it was entered
    mixed           \* history: what has come between two steps

runVars == <<open, enabled, last, sent, held, posted, auto, manual, recommended, prior,
             asks, switches, begun, mixed>>

Never == -1
NoRun == [sym |-> NoChart, version |-> 0, first |-> FALSE, n |-> 0]
InFlight == {run \in {auto} \cup {posted[i] : i \in DOMAIN posted} \cup manual : run # NoRun}

RunsInit ==
    /\ open = NoChart /\ enabled = TRUE
    /\ last = [s \in Charts |-> Never] /\ sent = [s \in Charts |-> 0] /\ held = NoRun
    /\ posted = <<>> /\ auto = NoRun /\ manual = {} /\ recommended = NoRun
    /\ prior = [s \in Charts |-> NoRun] /\ asks = 0 /\ switches = 0
    /\ begun = [s \in Charts |-> <<>>] /\ mixed = {}

\* _on_symbol_entered, on the Qt thread: the symbol may run at once, and with the full model.
ForgottenHash(s) == [sent EXCEPT ![s] = 0]
Switch(s) ==
    /\ auto = NoRun /\ switches < MaxSwitches /\ switches' = switches + 1
    /\ open' = s /\ last' = [last EXCEPT ![s] = Never] /\ sent' = ForgottenHash(s)
    /\ begun' = [begun EXCEPT ![s] = <<>>]
    /\ mixed' = mixed \cup (IF InFlight # {} THEN {"switched"} ELSE {})
    /\ UNCHANGED <<enabled, held, posted, auto, manual, recommended, prior, asks>>

Toggle ==
    /\ auto = NoRun /\ enabled' = ~enabled
    /\ UNCHANGED <<open, last, sent, held, posted, auto, manual, recommended, prior, asks,
                   switches, begun, mixed>>

\* _maybe_invoke_llm, for a new snapshot.
NotSeen(s, v) == TRUE
Changed(s, v) == sent[s] # v
AlwaysDue(s) == TRUE
Due(s) == last[s] # 0
Gate(s, v) == enabled /\ Due(s) /\ Changed(s, v)
Snap(v, ready) ==
    /\ open # NoChart /\ v \in held.version .. MaxVersions
    /\ held' = [NoRun EXCEPT !.sym = open, !.version = v]
    /\ IF ready /\ Gate(open, v) /\ asks < MaxRunsAsked
       THEN /\ asks' = asks + 1 /\ sent' = [sent EXCEPT ![open] = v]
            /\ posted' = Append(posted, [sym |-> open, version |-> v, first |-> last[open] = Never,
                                         n |-> asks + 1])
            /\ mixed' = mixed \cup (IF posted # <<>> \/ auto # NoRun THEN {"queued"} ELSE {})
       ELSE UNCHANGED <<asks, sent, posted, mixed>>
    /\ UNCHANGED <<open, enabled, last, auto, manual, recommended, prior, switches, begun>>

LosePosted ==
    /\ posted # <<>> /\ posted' = Tail(posted)
    /\ UNCHANGED <<open, enabled, last, sent, held, auto, manual, recommended, prior, asks,
                   switches, begun, mixed>>

\* The interval is counted from the beginning of a run.
KeepsTime(s) == last
Began(s) == [last EXCEPT ![s] = 0]
\* _run_llm_from_snapshot, which blocks the Qt thread until the model has answered.
RunAuto ==
    /\ auto = NoRun /\ posted # <<>> /\ posted' = Tail(posted) /\ auto' = Head(posted)
    /\ last' = Began(Head(posted).sym)
    /\ begun' = [begun EXCEPT ![Head(posted).sym] =
                   Append(@, [run |-> Head(posted), after |-> last[Head(posted).sym]])]
    /\ UNCHANGED <<open, enabled, sent, held, manual, recommended, prior, asks, switches, mixed>>

\* _emit_llm_result: the recommendation of the symbol, and the label, which shows whatever comes.
ShowsLastStarted(run) == IF auto # NoRun THEN auto ELSE run
ResultOf(run) == run
Emitted(run) ==
    /\ prior' = [prior EXCEPT ![run.sym] = ResultOf(run)]
    /\ recommended' = ResultOf(run)

EndAuto(success) ==
    /\ auto # NoRun /\ auto' = NoRun
    /\ IF success THEN Emitted(auto) ELSE UNCHANGED <<prior, recommended>>
    /\ UNCHANGED <<open, enabled, last, sent, held, posted, manual, asks, switches, begun, mixed>>

\* _run_llm_manual takes the snapshot there is, a symbol's that was entered before perhaps.
RunManual ==
    /\ auto = NoRun /\ enabled /\ held # NoRun /\ asks < MaxRunsAsked /\ asks' = asks + 1
    /\ manual' = manual \cup {[held EXCEPT !.n = asks + 1]}
    /\ mixed' = mixed \cup (IF held.sym # open THEN {"switched"} ELSE {})
    /\ UNCHANGED <<open, enabled, last, sent, held, posted, auto, recommended, prior, switches, begun>>

\* Its end sets the time of the symbol that is entered by now.
EndManual(run, success) ==
    /\ manual' = manual \ {run}
    /\ IF success
       THEN Emitted(run) /\ last' = [last EXCEPT ![open] = 0] /\ mixed' = mixed \cup {"manual"}
       ELSE UNCHANGED <<prior, recommended, last, mixed>>
    /\ UNCHANGED <<open, enabled, sent, held, posted, auto, asks, switches, begun>>

HalfMinute ==
    /\ \E s \in Charts : last[s] = 0
    /\ last' = [s \in Charts |-> IF last[s] = 0 THEN 1 ELSE last[s]]
    /\ UNCHANGED <<open, enabled, sent, held, posted, auto, manual, recommended, prior, asks,
                   switches, begun, mixed>>

RunsNext ==
    \/ \E s \in Charts : Switch(s)
    \/ \E v \in 1 .. MaxVersions, ready \in BOOLEAN : Snap(v, ready)
    \/ Toggle \/ LosePosted \/ RunAuto \/ RunManual \/ HalfMinute
    \/ \E success \in BOOLEAN : EndAuto(success) \/ \E run \in manual : EndManual(run, success)

RunsSpec == RunsInit /\ [][RunsNext]_runVars

-----------------------------------------------------------------------------
(* Properties.                                                             *)

\* Types; automatic runs are of a symbol that was entered, and a result of a run that was asked for.
\* (AppController's fields.)
RunsTypeOK ==
    /\ open \in Charts \cup {NoChart} /\ last \in [Charts -> {Never, 0, 1}]
    /\ \A run \in InFlight : run.sym \in Charts /\ run.n \in 1 .. asks
    /\ \A s \in Charts : prior[s] # NoRun => prior[s].sym = s

\* Between a symbol's entry and its next one, automatic runs of it are half a minute apart, unless one
\* was posted while another was waiting or under way (the time is read when a run is posted and set
\* when it begins) or a manual run ended.
AutoSpaced ==
    mixed \cap {"queued", "manual"} = {} =>
        \A s \in Charts : \A i \in 2 .. Len(begun[s]) : begun[s][i].after # 0

\* and no two in a row are given the same snapshot, unless the symbol was entered with a run on its way.
AutoChanged ==
    "switched" \notin mixed =>
        \A s \in Charts : \A i \in 2 .. Len(begun[s]) :
            begun[s][i].run.version # begun[s][i - 1].run.version

\* The first automatic run of a symbol that was entered is the full model's, and no other one is,
\* unless another run was posted or under way, the symbol changed with one on its way, or a
\* manual run has ended (which counts for the symbol that is entered then).
FullOnlyFirst ==
    mixed = {} => \A s \in Charts : \A i \in DOMAIN begun[s] : begun[s][i].run.first <=> i = 1

\* Automatic runs keep their distance, see something new each time, and begin with the full model.
\* (_maybe_invoke_llm, _run_llm_from_snapshot.)
RunsPaced == RunsTypeOK /\ AutoSpaced /\ AutoChanged /\ FullOnlyFirst
=============================================================================
