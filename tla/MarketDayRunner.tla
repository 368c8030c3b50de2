--------------------------- MODULE MarketDayRunner ---------------------------
(***************************************************************************)
(* SchwabMarketDayRunner (recording/market_day.py): run() connects and     *)
(* reconnects until the cutoff or stop(), and closes the recorder.  Three  *)
(* threads: run()'s, in which the socket's callbacks run too, the cutoff   *)
(* watcher, and whoever calls stop().  The messages are MarketDay's        *)
(* payloads and left out here.                                             *)
(***************************************************************************)
EXTENDS Integers

CONSTANTS
    Runner, Watcher, User,  \* the threads
    MaxBackoff              \* 15 s in the code
ASSUME RunnerAssumption ==
    /\ MaxBackoff \in Nat \ {0}
    /\ Runner # Watcher /\ Runner # User /\ Watcher # User

VARIABLES
    at,             \* per thread: where it is
    stopping,       \* self._stop
    socket,         \* self._ws: "none", "up" or "closed"
    loggedIn,       \* login_ok of the connection
    late,           \* reached_cutoff()
    backoff,
    recorder        \* "open", or the reason it was closed for

runnerVars == <<at, stopping, socket, loggedIn, late, backoff, recorder>>

RunnerThreads == {Runner, Watcher, User}
At(t, p) == at[t] = p
Goto(t, p) == at' = [at EXCEPT ![t] = p]

RunnerInit ==
    /\ at = [t \in RunnerThreads |-> IF t = Runner THEN "start" ELSE "idle"]
    /\ stopping = FALSE /\ socket = "none" /\ loggedIn = FALSE
    /\ late \in BOOLEAN
    /\ backoff = 1 /\ recorder = "open"

\* run() up to its loop; a session that begins after the cutoff only closes.
StartRun ==
    /\ At(Runner, "start")
    /\ IF late
       THEN /\ recorder' = "cutoff_already_reached"
            /\ Goto(Runner, "done")
       ELSE /\ at' = [at EXCEPT ![Runner] = "loop", ![Watcher] = "watch"]
            /\ UNCHANGED recorder
    /\ UNCHANGED <<stopping, socket, loggedIn, late, backoff>>

Ended == stopping \/ late
Loop ==
    /\ At(Runner, "loop")
    /\ Goto(Runner, IF Ended THEN "finally" ELSE "prepare")
    /\ UNCHANGED <<stopping, socket, loggedIn, late, backoff, recorder>>

\* Preferences and token, over the network; any of them may raise.
Prepare ==
    /\ At(Runner, "prepare")
    /\ \E next \in {"dial", "failed"} : Goto(Runner, next)
    /\ UNCHANGED <<stopping, socket, loggedIn, late, backoff, recorder>>

\* _run_connection up to run_forever.
Dial ==
    /\ At(Runner, "dial")
    /\ socket' = "up" /\ loggedIn' = FALSE
    /\ Goto(Runner, "running")
    /\ UNCHANGED <<stopping, late, backoff, recorder>>

Login ==
    /\ At(Runner, "running") /\ socket = "up" /\ ~loggedIn
    /\ loggedIn' = TRUE
    /\ UNCHANGED <<at, stopping, socket, late, backoff, recorder>>

\* run_forever returns: the peer or the network ended it, or stop() did.  A
\* connection that never logged in counts as a failure.
Failed == ~loggedIn /\ ~Ended
Hangup ==
    /\ At(Runner, "running")
    /\ socket' = "none"
    /\ Goto(Runner, IF Failed THEN "failed" ELSE "loop")
    /\ backoff' = IF Failed THEN backoff ELSE 1
    /\ UNCHANGED <<stopping, loggedIn, late, recorder>>

\* The except branch: wait, interrupted by stop, and double the delay.
Uncapped(n) == n
Capped(n) == IF n < MaxBackoff THEN n ELSE MaxBackoff
Longer(n) == Capped(2 * n)
Backoff ==
    /\ At(Runner, "failed")
    /\ IF Ended
       THEN Goto(Runner, "finally") /\ UNCHANGED backoff
       ELSE Goto(Runner, "loop") /\ backoff' = Longer(backoff)
    /\ UNCHANGED <<stopping, socket, loggedIn, late, recorder>>

\* KeyboardInterrupt reaches run()'s thread and goes through its finally.
GiveUp == "done"
Unwind == "finally"
Interrupt ==
    /\ at[Runner] \in {"prepare", "running", "failed"}
    /\ Goto(Runner, Unwind)
    /\ UNCHANGED <<stopping, socket, loggedIn, late, backoff, recorder>>

Finally ==
    /\ At(Runner, "finally")
    /\ stopping' = TRUE
    /\ socket' = IF socket = "up" THEN "closed" ELSE socket
    /\ recorder' = IF late THEN "3pm_cutoff" ELSE "stopped"
    /\ Goto(Runner, "done")
    /\ UNCHANGED <<loggedIn, late, backoff>>

\* stop(), by the watcher at the cutoff or by a user: the event, then the
\* socket that is there at that moment.
SetStop(t) ==
    /\ \/ t = Watcher /\ At(Watcher, "watch") /\ late /\ ~stopping
       \/ t = User /\ At(User, "idle")
    /\ stopping' = TRUE
    /\ Goto(t, "closing")
    /\ UNCHANGED <<socket, loggedIn, late, backoff, recorder>>

KeepSocket == socket
ClosedSocket == IF socket = "up" THEN "closed" ELSE socket
CloseSocket(t) ==
    /\ At(t, "closing")
    /\ socket' = ClosedSocket
    /\ Goto(t, "done")
    /\ UNCHANGED <<stopping, loggedIn, late, backoff, recorder>>

\* The watcher's wait is cut short by stop().
WatchOver ==
    /\ At(Watcher, "watch") /\ stopping
    /\ Goto(Watcher, "done")
    /\ UNCHANGED <<stopping, socket, loggedIn, late, backoff, recorder>>

Cutoff ==
    /\ ~late /\ late' = TRUE
    /\ UNCHANGED <<at, stopping, socket, loggedIn, backoff, recorder>>

RunStep == StartRun \/ Loop \/ Prepare \/ Dial \/ Backoff \/ Finally
StopStep == \/ SetStop(Watcher) \/ WatchOver
            \/ \E t \in {Watcher, User} : CloseSocket(t)

RunnerNext ==
    \/ RunStep \/ StopStep \/ SetStop(User)
    \/ Login \/ Hangup \/ Interrupt \/ Cutoff

RunnerSpec == RunnerInit /\ [][RunnerNext]_runnerVars

\* Threads are scheduled, and run_forever returns from a socket that stop()
\* closed.  The network owes nothing: a connection may last for ever.
RunnerFairness ==
    /\ WF_runnerVars(RunStep)
    /\ WF_runnerVars(StopStep)
    /\ WF_runnerVars(socket = "closed" /\ Hangup)

-----------------------------------------------------------------------------
(* Properties.                                                             *)

\* Types; the delay between two attempts stays between 1 s and the cap.
RunnerTypeOK ==
    /\ at \in [RunnerThreads ->
                 {"idle", "start", "loop", "prepare", "dial", "running", "failed",
                  "finally", "watch", "closing", "done"}]
    /\ stopping \in BOOLEAN /\ loggedIn \in BOOLEAN /\ late \in BOOLEAN
    /\ socket \in {"none", "up", "closed"}
    /\ backoff \in 1 .. MaxBackoff
    /\ recorder \in {"open", "stopped", "3pm_cutoff", "cutoff_already_reached"}

\* However run() ends, by the clock, a stop, an interrupt or a late start, it
\* has closed the recorder, and leaves no socket up.
RunCloses ==
    /\ At(Runner, "done") <=> recorder # "open"
    /\ At(Runner, "done") => socket # "up"

\* A stop() that finds a socket ends the run, whatever the connection does
\* meanwhile.
StopHeard == (\E t \in {Watcher, User} : At(t, "closing")) /\ socket = "up" ~> At(Runner, "done")

\* The run's threads, socket and recorder agree while it runs and when it has ended.
\* (SchwabMarketDayRunner.run.)
RunTrue == RunnerTypeOK /\ RunCloses
=============================================================================
