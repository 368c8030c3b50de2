------------------------------- MODULE MCLive -------------------------------
(***************************************************************************)
(* Model-checking instance of what is around live symbols: which of them   *)
(* are subscribed and their analysis, the minutes the analysis is built    *)
(* from, the feed of the browser, the desktop's copy of all this, the      *)
(* setups a model proposes, when it is asked for them, the fundamentals it *)
(* is given, and the execution of orders.  What each does to the others is *)
(* environment in their modules, so a behaviour exercises one, chosen      *)
(* among Parts.  "calls" and "watch" are both LiveSymbols: any             *)
(* interleaving of calls with a stream that never goes silent, and silence *)
(* with one call.  Two more bounds: a connection is lost while events are  *)
(* still to come (before the third), and while two lookups run at once     *)
(* neither the key nor the time changes.                                   *)
(***************************************************************************)
EXTENDS LiveSymbols, MinuteBars, BrowserFeed, Desktop, Setups, Execution,
        Fundamentals, DeskRuns

CONSTANTS Parts, a, b, c1, c2

MCOne == {a}
MCStocks == {a, b}
MCCallers == {c1, c2}
MCSelectors == {c1}

\* A price of 101 cents under, at and above levels; the fields are thinned out where they only repeat.
MCLevels ==
    [micro : {NoPrice, 103}, opening : {NoPrice}, premarket : {NoPrice, 101, 106}]
MCSnapshots ==
    {s \in [last : {101}, level : MCLevels, zones : SUBSET {<<102, 104>>}, others : {{}, {101}},
            highs : SUBSET {103, 106}, minuteHighs : {{}, {103}}, desktop : BOOLEAN] :
        ~s.desktop => s.minuteHighs = {}}
\* Setups that pass or fail each check of the validator.
MCIdeas ==
    [entry : {101}, stop : {100, 102}, target : {103, 106}, ext : {106}, label : {"nearest", "swing"},
     watch : {FALSE}, rating : {1}]
    \cup [entry : {101}, stop : {96}, target : {104}, ext : {NoPrice}, label : {"cluster"},
          watch : BOOLEAN, rating : {2}]

VARIABLE part
liveAllVars == <<liveVars, minuteVars, feedVars, deskVars, setupVars, execVars, fundVars, runVars, part>>

\* The part that does not propose setups has one snapshot; no path knows a's float, the second b's.
MCInit ==
    /\ LiveInit /\ MinuteInit /\ FeedInit /\ DeskInit /\ SetupsInit /\ ExecInit /\ part \in Parts
    /\ FundInit /\ known = [s \in Issues |-> IF s = a THEN {} ELSE {2}] /\ RunsInit
    /\ part # "setups" => given = CHOOSE s \in Snapshots : TRUE

MCNext ==
    \/ /\ \/ part = "calls" /\ LiveWork
          \/ part = "watch" /\ LiveNext /\ liveCalls' <= 1
       /\ UNCHANGED <<minuteVars, feedVars, deskVars, setupVars, execVars, fundVars, runVars, part>>
    \/ /\ part = "minutes" /\ MinuteNext
       /\ UNCHANGED <<liveVars, feedVars, deskVars, setupVars, execVars, fundVars, runVars, part>>
    \/ /\ part = "feed" /\ FeedNext
       /\ socket'.up = "closed" => socket.up = "closed" \/ sequence <= 2
       /\ UNCHANGED <<liveVars, minuteVars, deskVars, setupVars, execVars, fundVars, runVars, part>>
    \/ /\ part = "desk" /\ DeskNext
       /\ UNCHANGED <<liveVars, minuteVars, feedVars, setupVars, execVars, fundVars, runVars, part>>
    \/ /\ part = "setups" /\ SetupsNext
       /\ UNCHANGED <<liveVars, minuteVars, feedVars, deskVars, execVars, fundVars, runVars, part>>
    \/ /\ part = "orders" /\ ExecNext
       /\ UNCHANGED <<liveVars, minuteVars, feedVars, deskVars, setupVars, fundVars, runVars, part>>
    \/ /\ part = "lookups" /\ FundNext
       /\ Cardinality(Running) > 1 => UNCHANGED <<clock, client>>
       /\ UNCHANGED <<liveVars, minuteVars, feedVars, deskVars, setupVars, execVars, runVars, part>>
    \/ /\ part = "runs" /\ RunsNext
       /\ UNCHANGED <<liveVars, minuteVars, feedVars, deskVars, setupVars, execVars, fundVars, part>>

\* LiveFairness and FeedFairness, asked only of the part that runs.  One caller has a call while the
\* watchdog polls, and the feed's steps come to an end: fairness of any of them is fairness of each.
FeedProgress ==
    \/ SocketStep \/ Connect \/ ApplyResponse \/ Announce
    \/ \E t \in Selectors : Answer(t)

MCSpec ==
    /\ MCInit /\ [][MCNext]_liveAllVars
    /\ WF_liveVars(part = "watch" /\ \E c \in Callers : CallStep(c))
    /\ WF_liveVars(part = "watch" /\ Tick) /\ WF_liveVars(part = "watch" /\ Poll)
    /\ WF_feedVars(part = "feed" /\ FeedProgress)
=============================================================================
