------------------------------- MODULE Setups -------------------------------
(***************************************************************************)
(* From an analysis snapshot to the setup on the screen: the nearest       *)
(* resistance (analysis/ae.py), the payload LLMService validates against   *)
(* (llm/normalization.py, llm/validator.py), the one retry of              *)
(* LLMService.evaluate, and the desktop's choice of the best setup         *)
(* (ui/controller.py, ui/main_window.py).                                  *)
(*                                                                         *)
(* Prices are in cents, below $5.  A level that is not known is NoPrice.   *)
(* The tolerance of the label check, 0.2 %, is less than a cent for such   *)
(* prices.  Transport, availability and schema repair are in LlmRun.       *)
(***************************************************************************)
EXTENDS Integers, Sequences, FiniteSets, FiniteSetsExt

CONSTANTS
    Snapshots,      \* analysis snapshots: see SnapshotType
    Ideas           \* setups a model may propose: see IdeaType

NoPrice == 0
Price == Nat
Named == {"micro", "opening", "premarket"}      \* micro_resistance_15m, opening_range_high, premarket_high
Labels == Named \cup {"nearest", "swing", "cluster"}
\* zones: resistance clusters, <<low, high>>; others: VWAP and the session's lows; highs: of the 5-minute bars; minuteHighs: of the
\* 5-minute bars _aggregate_1m_to_5m makes of the desktop's minutes, {} for fewer than five.
SnapshotType == [last : Price, level : [Named -> Price], zones : SUBSET (Price \X Price),
                 others : SUBSET Price, highs : SUBSET Price, minuteHighs : SUBSET Price, desktop : BOOLEAN]
IdeaType == [entry : Price, stop : Price, target : Price, ext : Price, label : Labels,
             watch : BOOLEAN, rating : 1 .. 10]
\* A cluster reaches from the lowest of its swings to the highest.
ASSUME SetupsAssumption ==
    /\ Snapshots \subseteq SnapshotType /\ Ideas \subseteq IdeaType
    /\ \A s \in Snapshots : \A z \in s.zones : z[1] <= z[2]

VARIABLES
    given,          \* the snapshot of the run
    stage,          \* "asked", "retried", "shown" or "refused"
    setups,         \* the reply's setups
    warnings        \* how many of them the validator rejected

setupVars == <<given, stage, setups, warnings>>

-----------------------------------------------------------------------------
(* Levels. *)

Known(prices) == prices \ {NoPrice}
Above(prices, p) == {q \in Known(prices) : q > p}
Lowest(prices) == IF prices = {} THEN NoPrice ELSE Min(prices)
Mid(z) == (z[1] + z[2]) \div 2

\* _nearest_level: of cluster middles, VWAP and the session's levels, the lowest not below the price.
Book(s) == {Mid(z) : z \in s.zones} \cup s.others \cup {s.level["opening"], s.level["premarket"]}
NearestLevel(s) == Lowest({p \in Known(Book(s)) : p >= s.last})

\* pick_nearest_resistance: the book's level if above the price, else the first source that is.
FirstAbove(s) ==
    LET sources == <<s.level["micro"], s.level["opening"], s.level["premarket"],
                     Lowest(Above(s.highs, s.last))>>
        usable == {i \in DOMAIN sources : sources[i] > s.last}
    IN IF usable = {} THEN NoPrice ELSE sources[Min(usable)]
\* Looking further only when the book has nothing.
FirstIfNone(s) == IF NearestLevel(s) # NoPrice THEN NearestLevel(s) ELSE FirstAbove(s)
NearestResistance(s) ==
    IF NearestLevel(s) > s.last \/ FirstAbove(s) = NoPrice THEN NearestLevel(s) ELSE FirstAbove(s)

-----------------------------------------------------------------------------
(* The payload. *)

\* What the validator sees of the bars.  normalize_snapshot reads bars_window_5m, which the desktop's
\* normalized snapshot does not have, and falls back on the minutes.
BarsOfMinutes(s) == s.minuteHighs
BarHighs(s) == IF s.desktop THEN BarsOfMinutes(s) ELSE s.highs
\* Clusters are not in the desktop's normalized levels.
Clusters(s) == IF s.desktop THEN {} ELSE s.zones

\* _compute_breakout_targets: the two lowest structural highs above the nearest resistance.
Breakouts(s) ==
    LET higher == Above({s.level[n] : n \in Named} \cup BarHighs(s), NearestResistance(s))
    IN IF NearestResistance(s) = NoPrice THEN {}
       ELSE {p \in higher : \A q \in higher : q < p => \A r \in higher : r < p => r = q}

-----------------------------------------------------------------------------
(* The validator. *)

\* _matches_structural_target.
Structural(s, idea) ==
    LET near == NearestResistance(s) IN
    CASE idea.label \in Named -> s.level[idea.label] # NoPrice /\ idea.target = s.level[idea.label]
      [] idea.label = "nearest" ->
            near # NoPrice /\ (idea.target = near \/ idea.target \in Above(BarHighs(s) \cup Breakouts(s), near))
      [] idea.label = "swing" -> idea.target \in BarHighs(s)
      [] idea.label = "cluster" -> \E z \in Clusters(s) : z[1] <= idea.target /\ idea.target <= z[2]

\* The floors of validate_trade_setups: 1.5 % and a ratio of one, or 0.5 % and a half for WATCH.
Worthwhile(idea) ==
    LET risk == idea.entry - idea.stop
        reward == idea.target - idea.entry
    IN /\ risk > 0 /\ reward > 0
       /\ IF idea.watch
          THEN 1000 * reward >= 5 * idea.entry /\ 2 * reward >= risk /\ (idea.entry < 500 => 2 * reward >= 3)
          ELSE 1000 * reward >= 15 * idea.entry /\ reward >= risk /\ (idea.entry < 500 => reward >= 3)

\* A target short of a near premarket high needs an extension that reaches it.
Extended(s, idea) ==
    LET high == s.level["premarket"] IN
    (idea.target < high /\ 4 * high <= 5 * idea.target) => 1000 * idea.ext >= 998 * high

Valid(s, idea) == Worthwhile(idea) /\ Extended(s, idea) /\ Structural(s, idea)
Rejected(s, reply) == {i \in DOMAIN reply : ~Valid(s, reply[i])}

\* Looking at the floors only.
AcceptsMost(s, reply) == reply = <<>> \/ \E i \in DOMAIN reply : Worthwhile(reply[i])

\* A reply is kept when it has no setup or one that is valid; the others stay in it.
Accepted(s, reply) == reply = <<>> \/ Rejected(s, reply) # DOMAIN reply

-----------------------------------------------------------------------------
(* A run. *)

SetupsInit == given \in Snapshots /\ stage = "asked" /\ setups = <<>> /\ warnings = 0

\* Models give at most two setups.
Proposals == {<<>>} \cup {<<x>> : x \in Ideas} \cup {<<x, y>> : x, y \in Ideas}

Counted(s, reply) == Cardinality(Rejected(s, reply))
\* A refusal that passes the reply on.
KeepsRejected(reply) ==
    /\ stage \in {"asked", "retried"}
    /\ stage' = IF Accepted(given, reply) THEN "shown" ELSE IF stage = "asked" THEN "retried" ELSE "refused"
    /\ setups' = reply /\ warnings' = Counted(given, reply)
    /\ UNCHANGED given

\* A reply; the first one that is not accepted is asked for again, with the same snapshot.
Reply(reply) ==
    /\ stage \in {"asked", "retried"}
    /\ IF Accepted(given, reply)
       THEN stage' = "shown" /\ setups' = reply /\ warnings' = Counted(given, reply)
       ELSE /\ stage' = IF stage = "asked" THEN "retried" ELSE "refused"
            /\ UNCHANGED <<setups, warnings>>
    /\ UNCHANGED given

SetupsNext == \E reply \in Proposals : Reply(reply)
SetupsSpec == SetupsInit /\ [][SetupsNext]_setupVars

-----------------------------------------------------------------------------
(* What is shown. *)

\* _choose_best_setup sorts by rating, then by rr_to_target1, stably; the ratio is the model's own
\* number, so that of two of one rating either may come first.
Best(reply) == {i \in DOMAIN reply : \A j \in DOMAIN reply : reply[i].rating <= reply[j].rating}

\* Types.
SetupsTypeOK ==
    /\ given \in Snapshots /\ stage \in {"asked", "retried", "shown", "refused"}
    /\ Len(setups) <= 2 /\ warnings \in 0 .. Len(setups)
    /\ \A i \in DOMAIN setups : setups[i] \in Ideas
    /\ stage # "shown" => setups = <<>>

\* A setup that is shown as the best one risks less than it can earn, to a level of its snapshot, if
\* the reply carries no validation warning; with warnings at least one setup of the reply is such.
\* (One valid setup lets the others through: validate_trade_setups.)
ShownChecked ==
    (stage = "shown" /\ setups # <<>>) =>
        /\ warnings = 0 => \A i \in Best(setups) : Valid(given, setups[i])
        /\ \E i \in DOMAIN setups : Worthwhile(setups[i]) /\ setups[i].stop < setups[i].entry
                                    /\ Structural(given, setups[i]) /\ Extended(given, setups[i])

\* In the browser's runs a target is taken for structural by its label whatever level of the shown
\* snapshot it names: a high of its bars, a cluster, and each breakout target of the payload.
\* (run_llm shows the snapshot itself; the desktop shows bars that its validation lacks.)
LevelsHonoured ==
    (stage = "asked" /\ ~given.desktop) =>
        /\ \A p \in Known(given.highs) :
              \A x \in Ideas : Structural(given, [x EXCEPT !.label = "swing", !.target = p])
        /\ \A z \in given.zones :
              \A x \in Ideas : Structural(given, [x EXCEPT !.label = "cluster", !.target = Mid(z)])
        /\ \A p \in Breakouts(given) :
              \A x \in Ideas : Structural(given, [x EXCEPT !.label = "nearest", !.target = p])

\* The nearest resistance is above the price whenever a named level or a bar's high is.  (A level
\* exactly at the price is _nearest_level's answer; pick_nearest_resistance then looks further, but
\* no longer at the clusters.)
ResistanceAbove ==
    LET levels == {given.level[n] : n \in Named} \cup given.highs
    IN Above(levels, given.last) # {} => NearestResistance(given) > given.last

\* What is shown has been checked against the levels the model was shown.
\* (validate_trade_setups, normalize_snapshot, pick_nearest_resistance.)
SetupsSound == SetupsTypeOK /\ ShownChecked /\ LevelsHonoured /\ ResistanceAbove
=============================================================================
