-------------------------------- MODULE LlmRun --------------------------------
(***************************************************************************)
(* "Run LLM": the button (web/static/app.js), the endpoint (web/app.py),   *)
(* CompanionRuntime.run_llm, LLMService.evaluate (llm/service.py), the     *)
(* client of the Codex bridge (llm/codex_bridge_client.py) and the bridge  *)
(* (deploy/codex_bridge.py), a process of its own that serves one          *)
(* connection at a time.                                                   *)
(*                                                                         *)
(* A reply of the model is what evaluate tells apart: "fine", "unshaped"   *)
(* (_has_complete_setup_shape refuses it), "miscoded" (validate_response   *)
(* or validate_llm_output refuses it) and "trivial" (validate_trade_setups *)
(* refuses it).  Setups models the last of these.                          *)
(***************************************************************************)
EXTENDS Integers, Sequences, FiniteSets

CONSTANTS
    Stocks,
    MaxRuns         \* bound of the runs
ASSUME LlmAssumption == Stocks # {} /\ MaxRuns \in Nat \ {0}

VARIABLES
    llmRuns,        \* llm_runs
    workers,        \* the worker threads
    runs,           \* number of the last run
    output,         \* per stock llm_output: the run it is from, and what it is
    bridge,         \* [up, job]: the request that is being served, or NoJob
    backlog,        \* connections that wait to be accepted
    gone,           \* requests on the bridge whose client has given up
    page            \* [active, disabled, waits]

llmVars == <<llmRuns, workers, runs, output, bridge, backlog, gone, page>>
server == <<llmRuns, workers, runs, output>>
host == <<bridge, backlog, gone>>

\* A request is named after its run, which has one at a time and none after
\* one it gave up; readiness() has one at a time too.
NoJob == -1
Probing == 0
Requests == 0 .. MaxRuns
Replies == {"fine", "unshaped", "miscoded", "trivial"}
NoOutput == [run |-> 0, what |-> "nothing"]

LlmInit ==
    /\ llmRuns = {} /\ workers = {} /\ runs = 0
    /\ output = [s \in Stocks |-> NoOutput]
    /\ bridge = [up |-> TRUE, job |-> NoJob] /\ backlog = <<>> /\ gone = {}
    /\ page = [active |-> CHOOSE s \in Stocks : TRUE, disabled |-> FALSE, waits |-> {}]

Becomes(w, new) == workers' = (workers \ {w}) \cup {new}

-----------------------------------------------------------------------------
(* The page.                                                               *)

Choose(s) ==
    /\ page.active # s
    /\ page' = [page EXCEPT !.active = s]
    /\ UNCHANGED <<server, host>>

\* The click and the endpoint: one run per symbol at a time.
FreeAlways(s) == TRUE
Free(s) == s \notin llmRuns
Click ==
    /\ ~page.disabled /\ runs < MaxRuns
    /\ LET s == page.active IN
       /\ page' = [page EXCEPT !.disabled = TRUE, !.waits = @ \cup {s}]
       /\ IF Free(s)
          THEN /\ llmRuns' = llmRuns \cup {s}
               /\ runs' = runs + 1
               /\ workers' = workers \cup
                    {[run |-> runs + 1, stock |-> s, pc |-> "check", stage |-> "first",
                      result |-> "nothing"]}
          ELSE UNCHANGED <<llmRuns, runs, workers>>
    /\ UNCHANGED <<output, host>>

\* waitForLlmResult: a poll each second that takes what output there is, and
\* gives up after 125 s.
Waited(s) == page.disabled /\ s \notin page.waits
WaitOver(s) ==
    /\ s \in page.waits
    /\ page' = [page EXCEPT !.disabled = Waited(s), !.waits = @ \ {s}]
    /\ UNCHANGED <<server, host>>

-----------------------------------------------------------------------------
(* The worker: run_llm and evaluate.                                       *)

Publish(w, result) == [w EXCEPT !.pc = "publish", !.result = result]
Again(w, stage) == [w EXCEPT !.pc = "complete", !.stage = stage]

\* Published without an analysis: a request failed, or the reply is unusable.
RefusedSilently(w) == [w EXCEPT !.pc = "ended"]
Refused(w) == Publish(w, "none")

\* A connection to the bridge.
Connected(w, pc) ==
    /\ bridge.up
    /\ backlog' = Append(backlog, w.run)
    /\ Becomes(w, [w EXCEPT !.pc = pc])

\* is_available, which answers no after 5 s.
Check(w) ==
    /\ w.pc = "check"
    /\ \/ Connected(w, "status")
       \/ ~bridge.up /\ Becomes(w, Refused(w)) /\ UNCHANGED backlog
    /\ UNCHANGED <<llmRuns, runs, output, bridge, gone, page>>

\* A snapshot that is not ready is refused without a question.
Complete(w) ==
    /\ w.pc = "complete"
    /\ \/ Connected(w, "ask")
       \/ ~bridge.up /\ Becomes(w, Refused(w)) /\ UNCHANGED backlog
       \/ /\ w.stage = "first"
          /\ Becomes(w, Publish(w, "none"))
          /\ UNCHANGED backlog
    /\ UNCHANGED <<llmRuns, runs, output, bridge, gone, page>>

\* What evaluate does with a reply.  The reply to a retry is not brought into
\* shape again.
Unchecked(w, reply) ==
    IF w.stage = "retry" THEN Publish(w, reply)
    ELSE CASE reply = "fine" -> Publish(w, "fine")
           [] reply = "unshaped" -> IF w.stage = "first" THEN Again(w, "repair") ELSE Publish(w, "none")
           [] reply = "miscoded" -> Publish(w, "none")
           [] reply = "trivial" -> Again(w, "retry")
Judge(w, reply) ==
    CASE reply = "fine" -> Publish(w, "fine")
      [] reply = "unshaped" ->
           (CASE w.stage = "first" -> Again(w, "repair")
              [] w.stage = "repair" -> Publish(w, "none")
              [] w.stage = "retry" -> Publish(w, "unshaped"))
      [] reply = "miscoded" -> Publish(w, "none")
      [] reply = "trivial" -> IF w.stage = "retry" THEN Publish(w, "none") ELSE Again(w, "retry")

\* The client's own timeouts: 5 s for a status, 120 s for a completion.  The
\* bridge says in 5 s whether codex is logged in, unless it completes something.
Busy == \E v \in workers : v.pc = "ask" /\ v.run = bridge.job
GiveUp(w) ==
    /\ w.pc = "ask" \/ (w.pc = "status" /\ Busy)
    /\ gone' = gone \cup {w.run}
    /\ Becomes(w, Refused(w))
    /\ UNCHANGED <<llmRuns, runs, output, bridge, backlog, page>>

\* update_llm_output, and the event that brings it to the page.
Output(w) == [run |-> w.run, what |-> w.result]
Report(w) ==
    /\ w.pc = "publish"
    /\ output' = [output EXCEPT ![w.stock] = Output(w)]
    /\ page' = [page EXCEPT !.disabled = @ /\ page.active # w.stock]
    /\ Becomes(w, [w EXCEPT !.pc = "release"])
    /\ UNCHANGED <<llmRuns, runs, host>>

\* finally.
KeptRunning(s) == llmRuns
Remaining(s) == llmRuns \ {s}
Release(w) ==
    /\ w.pc = "release"
    /\ llmRuns' = Remaining(w.stock)
    /\ workers' = workers \ {w}
    /\ UNCHANGED <<runs, output, host, page>>

WorkerStep(w) == Check(w) \/ Complete(w) \/ GiveUp(w) \/ Report(w) \/ Release(w)

-----------------------------------------------------------------------------
(* The bridge.                                                             *)

\* readiness() asks for the status as run_llm does.
Outstanding(r) == r = bridge.job \/ \E i \in 1 .. Len(backlog) : backlog[i] = r
Probe ==
    /\ bridge.up /\ ~Outstanding(Probing)
    /\ backlog' = Append(backlog, Probing)
    /\ UNCHANGED <<server, bridge, gone, page>>

ProbeGivesUp ==
    /\ Outstanding(Probing) /\ Probing \notin gone /\ Busy
    /\ gone' = gone \cup {Probing}
    /\ UNCHANGED <<server, bridge, backlog, page>>

Accept ==
    /\ bridge.up /\ bridge.job = NoJob /\ backlog # <<>>
    /\ bridge' = [bridge EXCEPT !.job = Head(backlog)]
    /\ backlog' = Tail(backlog)
    /\ UNCHANGED <<server, gone, page>>

\* The answer to a client that has gone raises, once for the answer and once
\* more for the error, and ends the process: every connection is reset.
Waiting == {w \in workers : w.pc \in {"status", "ask"}}
Broken ==
    /\ bridge' = [up |-> FALSE, job |-> NoJob] /\ backlog' = <<>> /\ gone' = {}
    /\ workers' = (workers \ Waiting) \cup {Refused(w) : w \in Waiting}

Answered(w, reply) ==
    CASE w.pc = "status" -> [w EXCEPT !.pc = "complete"]
      [] w.pc = "ask" -> Judge(w, reply)

Respond ==
    /\ bridge.up /\ bridge.job # NoJob
    /\ IF bridge.job \in gone
       THEN Broken
       ELSE /\ bridge' = [bridge EXCEPT !.job = NoJob]
            /\ UNCHANGED <<backlog, gone>>
            /\ \/ bridge.job = Probing /\ UNCHANGED workers
               \/ \E w \in Waiting :
                    /\ w.run = bridge.job
                    /\ \/ \E reply \in Replies : Becomes(w, Answered(w, reply))
                       \/ Becomes(w, Refused(w))
    /\ UNCHANGED <<llmRuns, runs, output, page>>

\* Restart=on-failure.
BridgeRestarts ==
    /\ ~bridge.up
    /\ bridge' = [bridge EXCEPT !.up = TRUE]
    /\ UNCHANGED <<server, backlog, gone, page>>

BridgeStep == Accept \/ Respond \/ BridgeRestarts
PageStep == \E s \in Stocks : WaitOver(s)

LlmNext ==
    \/ \E s \in Stocks : Choose(s)
    \/ Click \/ PageStep
    \/ \E w \in workers : WorkerStep(w)
    \/ Probe \/ ProbeGivesUp \/ BridgeStep

LlmSpec == LlmInit /\ [][LlmNext]_llmVars

\* Threads run, the page's timers fire, and the bridge serves and is restarted.
LlmFairness ==
    /\ WF_llmVars(PageStep) /\ WF_llmVars(BridgeStep)
    /\ \A i \in 1 .. MaxRuns : WF_llmVars(\E w \in workers : w.run = i /\ WorkerStep(w))

-----------------------------------------------------------------------------
(* Properties.                                                             *)

Worker == [run : 1 .. MaxRuns, stock : Stocks,
           pc : {"check", "status", "complete", "ask", "publish", "release"},
           stage : {"first", "repair", "retry"},
           result : {"nothing", "none"} \cup Replies]

LlmTypeOK ==
    /\ llmRuns \subseteq Stocks /\ workers \subseteq Worker /\ runs \in 0 .. MaxRuns
    /\ output \in [Stocks -> [run : 0 .. MaxRuns, what : {"nothing", "none"} \cup Replies]]
    /\ bridge \in [up : BOOLEAN, job : Requests \cup {NoJob}]
    /\ backlog \in Seq(Requests) /\ gone \subseteq {r \in Requests : Outstanding(r)}
    /\ page \in [active : Stocks, disabled : BOOLEAN, waits : SUBSET Stocks]

\* A symbol has one run at a time, and a symbol is not marked as running
\* without a thread that will unmark it.
OneRunEach ==
    /\ \A v, w \in workers : v.stock = w.stock => v = w
    /\ llmRuns = {w.stock : w \in workers}

\* What a run publishes as an analysis has passed the codes and the trade
\* checks, also when it is the reply to a repair or a retry.
PublishedChecked == \A s \in Stocks : output[s].what \notin {"miscoded", "trivial"}

\* An accepted run ends and publishes, whatever the bridge does, and the
\* button is enabled again.
RunsEnd ==
    /\ \A s \in Stocks : s \in llmRuns ~> s \notin llmRuns
    /\ page.disabled ~> ~page.disabled

\* Runs of a symbol exclude each other, and only checked analyses are published.
\* (run_llm, LLMService.evaluate.)
LlmRunsSound == LlmTypeOK /\ OneRunEach /\ PublishedChecked
=============================================================================
