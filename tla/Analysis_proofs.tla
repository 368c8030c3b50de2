--------------------------- MODULE Analysis_proofs ---------------------------
(***************************************************************************)
(* Proofs about what the analysis is made of, for any stocks, prices,      *)
(* volumes, snapshots and setups, and any number of runs and bars.         *)
(*                                                                         *)
(* LlmRun: LlmInv adds two facts to the property.  A run's number is its   *)
(* worker's alone, and a worker that waits for the bridge has its request  *)
(* there: an answer goes to the worker that asked.                         *)
(*                                                                         *)
(* Setups: SetupsInv says that what is shown was accepted by the rules of  *)
(* the snapshot it was asked for, and how many warnings that left.         *)
(*                                                                         *)
(* MinuteBars: MinuteInv says whose minutes the bars are, what they add up *)
(* to and what the bar in progress holds.  Its sums are a recursive        *)
(* function: the lemmas about it go by the least index where they fail.    *)
(*                                                                         *)
(* Bars: BarsInv says that cache and aggregator fit the messages so far,   *)
(* ReplayInv that a recorder's runner fed with all lines is in the live    *)
(* state and that one fed with the later lines only differs in its first   *)
(* bar.  That a candle is right is proved row by row, for any list of rows.*)
(***************************************************************************)
EXTENDS LlmRun, Setups, MinuteBars, Bars,
        FiniteSetTheorems, SequenceTheorems, WellFoundedInduction, TLAPS

-----------------------------------------------------------------------------
(* LlmRun.                                                                 *)

Unfit == {"miscoded", "trivial"}

WorkersSound ==
    /\ llmRuns \subseteq Stocks /\ workers \subseteq Worker /\ runs \in 0 .. MaxRuns
    /\ OneRunEach
    /\ \A v, w \in workers : v.run = w.run => v = w
    /\ \A w \in workers : w.run <= runs /\ w.result \notin Unfit

HostSound ==
    /\ bridge \in [up : BOOLEAN, job : Requests \cup {NoJob}]
    /\ backlog \in Seq(Requests) /\ gone \subseteq {r \in Requests : Outstanding(r)}
    /\ \A w \in Waiting : Outstanding(w.run)

PageSound ==
    /\ output \in [Stocks -> [run : 0 .. MaxRuns, what : {"nothing", "none"} \cup Replies]]
    /\ PublishedChecked
    /\ page \in [active : Stocks, disabled : BOOLEAN, waits : SUBSET Stocks]

LlmInv == WorkersSound /\ HostSound /\ PageSound

------------------------------------------------------------------------------
(* Workers.                                                                *)

LEMMA RunNumbers == MaxRuns \in Nat /\ 0 \in 0 .. MaxRuns /\ 1 .. MaxRuns \subseteq Requests
  BY LlmAssumption DEF Requests

\* What a worker becomes is the same run of the same stock.
SameRun(w, new) ==
    new \in Worker /\ new.run = w.run /\ new.stock = w.stock /\ new.result \notin Unfit

LEMMA Refusals ==
    ASSUME NEW w \in Worker PROVE SameRun(w, Refused(w)) /\ Refused(w).pc = "publish"
  BY DEF SameRun, Refused, Publish, Worker, Unfit

LEMMA Judged ==
    ASSUME NEW w \in Worker, w.result \notin Unfit, NEW reply \in Replies
    PROVE  SameRun(w, Judge(w, reply)) /\ Judge(w, reply).pc \in {"publish", "complete"}
  <1>1. CASE reply = "fine"
    BY <1>1 DEF Judge, SameRun, Publish, Worker, Unfit, Replies
  <1>2. CASE reply = "unshaped"
    <2>1. w.stage \in {"first", "repair", "retry"}
      BY DEF Worker
    <2>2. CASE w.stage = "first"
      <3>1. Judge(w, reply) = Again(w, "repair")
        BY <1>2, <2>2 DEF Judge
      <3> QED
        BY <3>1 DEF SameRun, Again, Worker, Unfit
    <2>3. CASE w.stage = "repair"
      <3>1. Judge(w, reply) = Publish(w, "none")
        BY <1>2, <2>3 DEF Judge
      <3> QED
        BY <3>1 DEF SameRun, Publish, Worker, Unfit
    <2>4. CASE w.stage = "retry"
      <3>1. Judge(w, reply) = Publish(w, "unshaped")
        BY <1>2, <2>4 DEF Judge
      <3> QED
        BY <3>1 DEF SameRun, Publish, Worker, Unfit, Replies
    <2> QED
      BY <2>1, <2>2, <2>3, <2>4
  <1>3. CASE reply = "miscoded"
    BY <1>3 DEF Judge, SameRun, Publish, Worker, Unfit
  <1>4. CASE reply = "trivial"
    BY <1>4 DEF Judge, SameRun, Publish, Again, Worker, Unfit
  <1> QED
    BY <1>1, <1>2, <1>3, <1>4 DEF Replies

\* A worker that becomes another of its run keeps what is said of workers.
LEMMA Replaced ==
    ASSUME WorkersSound, NEW w \in workers, NEW new, SameRun(w, new), Becomes(w, new),
           UNCHANGED <<llmRuns, runs>>
    PROVE  WorkersSound'
  <1>1. \A v \in workers' : v = new \/ (v \in workers /\ v # w)
    BY DEF Becomes
  <1>2. workers' \subseteq Worker
    BY <1>1 DEF WorkersSound, SameRun
  <1>3. OneRunEach'
    <2>1. \A u, v \in workers' : u.stock = v.stock => u = v
      BY <1>1 DEF WorkersSound, OneRunEach, SameRun
    <2>2. {v.stock : v \in workers'} = {v.stock : v \in workers}
      BY DEF Becomes, SameRun
    <2> QED
      BY <2>1, <2>2 DEF WorkersSound, OneRunEach
  <1>4. \A u, v \in workers' : u.run = v.run => u = v
    BY <1>1 DEF WorkersSound, SameRun
  <1>5. \A v \in workers' : v.run <= runs /\ v.result \notin Unfit
    BY <1>1 DEF WorkersSound, SameRun
  <1> QED
    BY <1>2, <1>3, <1>4, <1>5 DEF WorkersSound

------------------------------------------------------------------------------
(* Requests.                                                               *)

\* A request more is outstanding, and those that were still are.
LEMMA MoreOutstanding ==
    ASSUME backlog \in Seq(Requests), NEW q \in Requests, backlog' = Append(backlog, q),
           UNCHANGED bridge
    PROVE  /\ backlog' \in Seq(Requests)
           /\ Outstanding(q)' /\ \A r : Outstanding(r) => Outstanding(r)'
  <1>1. backlog' \in Seq(Requests) /\ Len(backlog') = Len(backlog) + 1
    BY AppendProperties
  <1>2. \A i \in 1 .. Len(backlog) : backlog'[i] = backlog[i]
    BY AppendProperties
  <1>3. backlog'[Len(backlog) + 1] = q
    BY AppendProperties
  <1>4. Len(backlog) \in Nat
    BY LenProperties
  <1> QED
    BY <1>1, <1>2, <1>3, <1>4 DEF Outstanding

\* A worker that waits for the request it sent, or no longer waits.
LEMMA Sent ==
    ASSUME LlmInv, NEW w \in workers, NEW new, SameRun(w, new), Becomes(w, new),
           \A r : Outstanding(r) => Outstanding(r)',
           new.pc \notin {"status", "ask"} \/ Outstanding(w.run)'
    PROVE  \A v \in Waiting' : Outstanding(v.run)'
  <1> SUFFICES ASSUME NEW v \in Waiting' PROVE Outstanding(v.run)'
    OBVIOUS
  <1>1. v = new \/ v \in Waiting
    BY DEF Waiting, Becomes
  <1>2. v \in Waiting => Outstanding(v.run)
    BY DEF LlmInv, HostSound
  <1>3. v = new => Outstanding(v.run)'
    BY DEF SameRun, Waiting
  <1> QED
    BY <1>1, <1>2, <1>3

------------------------------------------------------------------------------
(* Actions.                                                                *)

LEMMA InitLlm == LlmInit => LlmInv
  <1> SUFFICES ASSUME LlmInit PROVE LlmInv
    OBVIOUS
  <1>1. WorkersSound
    BY RunNumbers DEF LlmInit, WorkersSound, OneRunEach
  <1>2. HostSound
    BY DEF LlmInit, HostSound, Waiting, Requests, NoJob
  <1>3. (CHOOSE s \in Stocks : TRUE) \in Stocks
    BY LlmAssumption
  <1>4. PageSound
    BY <1>3, RunNumbers DEF LlmInit, PageSound, PublishedChecked, NoOutput
  <1> QED
    BY <1>1, <1>2, <1>4 DEF LlmInv

LEMMA ChooseStep ==
    ASSUME LlmInv, NEW s \in Stocks, Choose(s) PROVE LlmInv'
  <1> USE DEF LlmInv, Choose, server, host
  <1>1. WorkersSound' /\ HostSound'
    BY DEF WorkersSound, OneRunEach, HostSound, Outstanding, Waiting
  <1>2. PageSound'
    BY DEF PageSound, PublishedChecked
  <1> QED
    BY <1>1, <1>2

LEMMA ClickStep ==
    ASSUME LlmInv, Click PROVE LlmInv'
  <1> DEFINE s == page.active
             new == [run |-> runs + 1, stock |-> s, pc |-> "check", stage |-> "first",
                     result |-> "nothing"]
  <1>1. s \in Stocks
    BY DEF LlmInv, PageSound
  <1>2. runs + 1 \in 1 .. MaxRuns /\ runs \in Nat
    BY RunNumbers DEF LlmInv, WorkersSound, Click
  <1>3. new \in Worker /\ new.stock = s /\ new.run = runs + 1 /\ new.result \notin Unfit
         /\ new.pc = "check"
    BY <1>1, <1>2 DEF Worker, Unfit
  <1>4. PageSound'
    BY <1>1 DEF LlmInv, PageSound, PublishedChecked, Click, host
  <1>5. CASE Free(s)
    <2> HIDE DEF s, new
    <2>1. llmRuns' = llmRuns \cup {s} /\ runs' = runs + 1 /\ workers' = workers \cup {new}
      BY <1>5 DEF Click, s, new
    <2>2. \A w \in workers : w.stock # s
      BY <1>5 DEF Free, LlmInv, WorkersSound, OneRunEach
    <2>3. \A w \in workers : w.run <= runs /\ w.run \in Nat /\ w.run # runs + 1
      BY <1>2 DEF LlmInv, WorkersSound, Worker
    <2>4. OneRunEach'
      <3>1. \A u, v \in workers' : u.stock = v.stock => u = v
        BY <1>3, <2>1, <2>2 DEF LlmInv, WorkersSound, OneRunEach
      <3>2. {w.stock : w \in workers'} = {w.stock : w \in workers} \cup {s}
        BY <1>3, <2>1
      <3> QED
        BY <2>1, <3>1, <3>2 DEF LlmInv, WorkersSound, OneRunEach
    <2>5. \A u, v \in workers' : u.run = v.run => u = v
      BY <1>3, <2>1, <2>3 DEF LlmInv, WorkersSound
    <2>6. \A w \in workers' : w.run <= runs' /\ w.result \notin Unfit
      BY <1>2, <1>3, <2>1, <2>3 DEF LlmInv, WorkersSound
    <2>7. llmRuns' \subseteq Stocks /\ workers' \subseteq Worker /\ runs' \in 0 .. MaxRuns
      BY <1>1, <1>2, <1>3, <2>1 DEF LlmInv, WorkersSound
    <2>8. WorkersSound'
      BY <2>4, <2>5, <2>6, <2>7 DEF WorkersSound
    <2>9. Waiting' = Waiting
      BY <1>3, <2>1 DEF Waiting
    <2>10. HostSound'
      BY <2>9 DEF LlmInv, HostSound, Outstanding, Click, host
    <2> QED
      BY <1>4, <2>8, <2>10 DEF LlmInv
  <1>6. CASE ~Free(s)
    <2>1. UNCHANGED <<llmRuns, runs, workers>>
      BY <1>6 DEF Click
    <2>2. WorkersSound' /\ HostSound'
      BY <2>1 DEF LlmInv, WorkersSound, OneRunEach, HostSound, Outstanding, Waiting, Click, host
    <2> QED
      BY <1>4, <2>2 DEF LlmInv
  <1> QED
    BY <1>5, <1>6

LEMMA WaitOverStep ==
    ASSUME LlmInv, NEW s \in Stocks, WaitOver(s) PROVE LlmInv'
  <1>1. WorkersSound' /\ HostSound'
    BY DEF LlmInv, WaitOver, server, host, WorkersSound, OneRunEach, HostSound, Outstanding, Waiting
  <1>2. PageSound'
    BY DEF LlmInv, WaitOver, server, host, PageSound, PublishedChecked, Waited
  <1> QED
    BY <1>1, <1>2 DEF LlmInv

\* A worker that connects, or is refused without a connection.
LEMMA ConnectStep ==
    ASSUME LlmInv, NEW w \in workers, Check(w) \/ Complete(w) PROVE LlmInv'
  <1>1. w \in Worker /\ w.run \in Requests /\ w.result \notin Unfit
    BY RunNumbers DEF LlmInv, WorkersSound, Worker
  <1>2. UNCHANGED <<llmRuns, runs, output, bridge, gone, page>>
    BY DEF Check, Complete
  <1>3. PageSound'
    BY <1>2 DEF LlmInv, PageSound, PublishedChecked
  <1>4. ASSUME NEW pc \in {"status", "ask"}, Connected(w, pc) PROVE LlmInv'
    <2> DEFINE new == [w EXCEPT !.pc = pc]
    <2>1. SameRun(w, new)
      BY <1>1 DEF SameRun, Worker, Unfit
    <2>2. Becomes(w, new) /\ backlog' = Append(backlog, w.run)
      BY <1>4 DEF Connected
    <2> HIDE DEF new
    <2>3. /\ backlog' \in Seq(Requests) /\ Outstanding(w.run)'
          /\ \A r : Outstanding(r) => Outstanding(r)'
      BY <1>1, <1>2, <2>2, MoreOutstanding DEF LlmInv, HostSound
    <2>4. WorkersSound'
      BY <1>2, <2>1, <2>2, Replaced DEF LlmInv
    <2>5. \A v \in Waiting' : Outstanding(v.run)'
      BY <2>1, <2>2, <2>3, Sent
    <2>6. HostSound'
      BY <1>2, <2>3, <2>5 DEF LlmInv, HostSound
    <2> QED
      BY <1>3, <2>4, <2>6 DEF LlmInv
  <1>5. ASSUME NEW new, SameRun(w, new), new.pc = "publish", Becomes(w, new), UNCHANGED backlog
        PROVE LlmInv'
    <2>1. \A r : Outstanding(r) => Outstanding(r)'
      BY <1>2, <1>5 DEF Outstanding
    <2>2. WorkersSound'
      BY <1>2, <1>5, Replaced DEF LlmInv
    <2>3. \A v \in Waiting' : Outstanding(v.run)'
      BY <1>5, <2>1, Sent
    <2>4. HostSound'
      BY <1>2, <1>5, <2>1, <2>3 DEF LlmInv, HostSound
    <2> QED
      BY <1>3, <2>2, <2>4 DEF LlmInv
  <1>6. SameRun(w, Refused(w)) /\ Refused(w).pc = "publish"
    BY <1>1, Refusals
  <1>7. Publish(w, "none") = Refused(w)
    BY DEF Refused
  <1>8. \/ Connected(w, "status") \/ Connected(w, "ask")
        \/ Becomes(w, Refused(w)) /\ UNCHANGED backlog
    BY <1>7 DEF Check, Complete
  <1> QED
    BY <1>4, <1>5, <1>6, <1>8

LEMMA GiveUpStep ==
    ASSUME LlmInv, NEW w \in workers, GiveUp(w) PROVE LlmInv'
  <1>1. w \in Worker /\ w \in Waiting /\ w.run \in Requests
    BY RunNumbers DEF LlmInv, WorkersSound, Worker, GiveUp, Waiting
  <1>2. SameRun(w, Refused(w)) /\ Refused(w).pc = "publish"
    BY <1>1, Refusals
  <1>3. Becomes(w, Refused(w)) /\ UNCHANGED <<llmRuns, runs, output, bridge, backlog, page>>
        /\ gone' = gone \cup {w.run}
    BY DEF GiveUp
  <1>4. \A r : Outstanding(r) => Outstanding(r)'
    BY <1>3 DEF Outstanding
  <1>5. WorkersSound'
    BY <1>2, <1>3, Replaced DEF LlmInv
  <1>6. \A v \in Waiting' : Outstanding(v.run)'
    BY <1>2, <1>3, <1>4, Sent
  <1>7. Outstanding(w.run)
    BY <1>1 DEF LlmInv, HostSound
  <1>8. HostSound'
    BY <1>1, <1>3, <1>4, <1>6, <1>7 DEF LlmInv, HostSound
  <1>9. PageSound'
    BY <1>3 DEF LlmInv, PageSound, PublishedChecked
  <1> QED
    BY <1>5, <1>8, <1>9 DEF LlmInv

LEMMA ReportStep ==
    ASSUME LlmInv, NEW w \in workers, Report(w) PROVE LlmInv'
  <1> DEFINE new == [w EXCEPT !.pc = "release"]
  <1>1. w \in Worker /\ w.result \notin Unfit
    BY DEF LlmInv, WorkersSound
  <1>2. SameRun(w, new) /\ new.pc = "release"
    BY <1>1 DEF SameRun, Worker, Unfit
  <1>3. Becomes(w, new) /\ UNCHANGED <<llmRuns, runs, bridge, backlog, gone>>
    BY DEF Report, host
  <1> HIDE DEF new
  <1>4. \A r : Outstanding(r) => Outstanding(r)'
    BY <1>3 DEF Outstanding
  <1>5. WorkersSound'
    BY <1>2, <1>3, Replaced DEF LlmInv
  <1>6. \A v \in Waiting' : Outstanding(v.run)'
    BY <1>2, <1>3, <1>4, Sent
  <1>7. HostSound'
    BY <1>3, <1>4, <1>6 DEF LlmInv, HostSound
  <1>8. Output(w) \in [run : 0 .. MaxRuns, what : {"nothing", "none"} \cup Replies]
         /\ Output(w).what \notin Unfit
    BY <1>1, RunNumbers DEF Output, Worker
  <1>9. PageSound'
    <2>1. output' = [output EXCEPT ![w.stock] = Output(w)]
      BY DEF Report
    <2>2. \A s \in Stocks : output'[s].what \notin Unfit
      BY <1>8, <2>1 DEF LlmInv, PageSound, PublishedChecked, Unfit
    <2>3. output' \in [Stocks -> [run : 0 .. MaxRuns, what : {"nothing", "none"} \cup Replies]]
      BY <1>8, <2>1 DEF LlmInv, PageSound
    <2>4. page' \in [active : Stocks, disabled : BOOLEAN, waits : SUBSET Stocks]
      BY DEF LlmInv, PageSound, Report
    <2> QED
      BY <2>2, <2>3, <2>4 DEF PageSound, PublishedChecked, Unfit
  <1> QED
    BY <1>5, <1>7, <1>9 DEF LlmInv

LEMMA ReleaseStep ==
    ASSUME LlmInv, NEW w \in workers, Release(w) PROVE LlmInv'
  <1>1. workers' = workers \ {w} /\ llmRuns' = llmRuns \ {w.stock}
        /\ UNCHANGED <<runs, output, bridge, backlog, gone, page>>
    BY DEF Release, Remaining, host
  <1>2. OneRunEach'
    <2>1. \A v \in workers' : v.stock # w.stock
      BY <1>1 DEF LlmInv, WorkersSound, OneRunEach
    <2>2. {v.stock : v \in workers'} = {v.stock : v \in workers} \ {w.stock}
      BY <1>1, <2>1
    <2> QED
      BY <1>1, <2>2 DEF LlmInv, WorkersSound, OneRunEach
  <1>3. WorkersSound'
    BY <1>1, <1>2 DEF LlmInv, WorkersSound
  <1>4. HostSound' /\ PageSound'
    BY <1>1 DEF LlmInv, HostSound, Outstanding, Waiting, PageSound, PublishedChecked
  <1> QED
    BY <1>3, <1>4 DEF LlmInv

LEMMA ProbeStep ==
    ASSUME LlmInv, Probe \/ ProbeGivesUp PROVE LlmInv'
  <1>1. UNCHANGED <<llmRuns, workers, runs, output, bridge, page>>
    BY DEF Probe, ProbeGivesUp, server
  <1>2. WorkersSound' /\ PageSound' /\ Waiting' = Waiting
    BY <1>1 DEF LlmInv, WorkersSound, OneRunEach, PageSound, PublishedChecked, Waiting
  <1>3. Probing \in Requests
    BY RunNumbers DEF Probing, Requests
  <1>4. CASE Probe
    <2>1. backlog' \in Seq(Requests) /\ \A r : Outstanding(r) => Outstanding(r)'
      BY <1>1, <1>3, <1>4, MoreOutstanding DEF LlmInv, HostSound, Probe
    <2>2. HostSound'
      BY <1>1, <1>2, <1>4, <2>1 DEF LlmInv, HostSound, Probe
    <2> QED
      BY <1>2, <2>2 DEF LlmInv
  <1>5. CASE ProbeGivesUp
    <2>1. HostSound'
      BY <1>1, <1>2, <1>3, <1>5 DEF LlmInv, HostSound, Outstanding, ProbeGivesUp
    <2> QED
      BY <1>2, <2>1 DEF LlmInv
  <1> QED
    BY <1>4, <1>5

LEMMA AcceptStep ==
    ASSUME LlmInv, Accept PROVE LlmInv'
  <1>1. UNCHANGED <<llmRuns, workers, runs, output, gone, page>>
    BY DEF Accept, server
  <1>2. WorkersSound' /\ PageSound' /\ Waiting' = Waiting
    BY <1>1 DEF LlmInv, WorkersSound, OneRunEach, PageSound, PublishedChecked, Waiting
  <1>3. /\ backlog' = Tail(backlog) /\ backlog' \in Seq(Requests) /\ Head(backlog) \in Requests
        /\ Len(backlog') = Len(backlog) - 1 /\ Len(backlog) \in Nat \ {0}
        /\ \A i \in 1 .. Len(backlog') : backlog'[i] = backlog[i + 1]
        /\ Head(backlog) = backlog[1]
    BY HeadTailProperties, EmptySeq, LenProperties DEF LlmInv, HostSound, Accept
  <1>4. bridge' \in [up : BOOLEAN, job : Requests \cup {NoJob}] /\ bridge'.job = Head(backlog)
    BY <1>3 DEF LlmInv, HostSound, Accept
  <1>5. ASSUME NEW r \in Requests, Outstanding(r) PROVE Outstanding(r)'
    <2>1. r # NoJob
      BY RunNumbers DEF NoJob, Requests
    <2>2. PICK i \in 1 .. Len(backlog) : backlog[i] = r
      BY <1>5, <2>1 DEF Outstanding, Accept
    <2>3. CASE i = 1
      BY <1>3, <1>4, <2>2, <2>3 DEF Outstanding
    <2>4. CASE i # 1
      <3>1. i - 1 \in 1 .. Len(backlog') /\ (i - 1) + 1 = i
        BY <1>3, <2>4
      <3>2. backlog'[i - 1] = r
        BY <1>3, <2>2, <3>1
      <3> QED
        BY <3>1, <3>2 DEF Outstanding
    <2> QED
      BY <2>3, <2>4
  <1>6. \A w \in Waiting : w.run \in Requests
    BY RunNumbers DEF LlmInv, WorkersSound, Worker, Waiting
  <1>7. HostSound'
    BY <1>1, <1>2, <1>3, <1>4, <1>5, <1>6 DEF LlmInv, HostSound
  <1> QED
    BY <1>2, <1>7 DEF LlmInv

\* The bridge dies: nobody waits any more, and every run goes on.
LEMMA BrokenStep ==
    ASSUME LlmInv, Broken, UNCHANGED <<llmRuns, runs, output, page>> PROVE LlmInv'
  <1>1. workers' = (workers \ Waiting) \cup {Refused(w) : w \in Waiting}
    BY DEF Broken
  <1>2. \A w \in Waiting : w \in workers /\ w \in Worker /\ SameRun(w, Refused(w)) /\ Refused(w).pc = "publish"
    BY Refusals DEF Waiting, LlmInv, WorkersSound
  <1>3. \A v \in workers' : \E w \in workers : SameRun(w, v)
    BY <1>1, <1>2 DEF LlmInv, WorkersSound, SameRun
  <1>4. \A w \in workers : \E v \in workers' : SameRun(w, v)
    BY <1>1, <1>2 DEF LlmInv, WorkersSound, SameRun
  <1>5. \A u, v \in workers' : \A w \in workers : SameRun(w, u) /\ SameRun(w, v) => u = v
    <2> SUFFICES ASSUME NEW u \in workers', NEW v \in workers', NEW w \in workers,
                        SameRun(w, u), SameRun(w, v)
                 PROVE  u = v
      OBVIOUS
    <2>1. \A x \in workers' : SameRun(w, x) => x = IF w \in Waiting THEN Refused(w) ELSE w
      <3> SUFFICES ASSUME NEW x \in workers', SameRun(w, x)
                   PROVE  x = IF w \in Waiting THEN Refused(w) ELSE w
        OBVIOUS
      <3>1. CASE x \in workers \ Waiting
        BY <3>1 DEF SameRun, LlmInv, WorkersSound
      <3>2. CASE x \notin workers \ Waiting
        <4>1. PICK y \in Waiting : x = Refused(y)
          BY <1>1, <3>2
        <4>2. y.run = x.run /\ y \in workers
          BY <1>2, <4>1 DEF SameRun
        <4>3. y = w
          BY <4>2 DEF SameRun, LlmInv, WorkersSound
        <4> QED
          BY <4>1, <4>3
      <3> QED
        BY <3>1, <3>2
    <2> QED
      BY <2>1
  <1>6. OneRunEach'
    <2>1. ASSUME NEW u \in workers', NEW v \in workers', u.stock = v.stock PROVE u = v
      <3>1. PICK x \in workers : SameRun(x, u)
        BY <1>3
      <3>2. PICK y \in workers : SameRun(y, v)
        BY <1>3
      <3>3. x = y
        BY <2>1, <3>1, <3>2 DEF SameRun, LlmInv, WorkersSound, OneRunEach
      <3> QED
        BY <1>5, <3>1, <3>2, <3>3
    <2>2. {v.stock : v \in workers'} = {w.stock : w \in workers}
      BY <1>3, <1>4 DEF SameRun
    <2> QED
      BY <2>1, <2>2 DEF LlmInv, WorkersSound, OneRunEach
  <1>7. \A u, v \in workers' : u.run = v.run => u = v
    <2> SUFFICES ASSUME NEW u \in workers', NEW v \in workers', u.run = v.run PROVE u = v
      OBVIOUS
    <2>1. PICK x \in workers : SameRun(x, u)
      BY <1>3
    <2>2. PICK y \in workers : SameRun(y, v)
      BY <1>3
    <2>3. x = y
      BY <2>1, <2>2 DEF SameRun, LlmInv, WorkersSound
    <2> QED
      BY <1>5, <2>1, <2>2, <2>3
  <1>8. \A v \in workers' : v.run <= runs /\ v.result \notin Unfit /\ v \in Worker
    BY <1>3 DEF SameRun, LlmInv, WorkersSound
  <1>9. WorkersSound'
    BY <1>6, <1>7, <1>8 DEF LlmInv, WorkersSound
  <1>10. Waiting' = {}
    BY <1>1, <1>2 DEF Waiting
  <1>11. HostSound'
    BY <1>10 DEF Broken, HostSound, NoJob
  <1>12. PageSound'
    BY DEF LlmInv, PageSound, PublishedChecked
  <1> QED
    BY <1>9, <1>11, <1>12 DEF LlmInv

LEMMA RespondStep ==
    ASSUME LlmInv, Respond PROVE LlmInv'
  <1>1. UNCHANGED <<llmRuns, runs, output, page>>
    BY DEF Respond
  <1>2. CASE bridge.job \in gone
    <2>1. Broken
      BY <1>2 DEF Respond
    <2> QED
      BY <1>1, <2>1, BrokenStep
  <1>3. CASE bridge.job \notin gone
    <2>1. bridge' = [bridge EXCEPT !.job = NoJob] /\ UNCHANGED <<backlog, gone>>
      BY <1>3 DEF Respond
    <2>2. PageSound'
      BY <1>1 DEF LlmInv, PageSound, PublishedChecked
    <2>3. \A r : Outstanding(r) /\ r # bridge.job => Outstanding(r)'
      BY <2>1 DEF Outstanding
    <2>4. bridge' \in [up : BOOLEAN, job : Requests \cup {NoJob}]
      BY <2>1 DEF LlmInv, HostSound
    <2>5. gone' \subseteq {r \in Requests : Outstanding(r)'}
      BY <1>3, <2>1, <2>3 DEF LlmInv, HostSound
    <2>6. CASE bridge.job = Probing /\ UNCHANGED workers
      <3>1. WorkersSound' /\ Waiting' = Waiting
        BY <1>1, <2>6 DEF LlmInv, WorkersSound, OneRunEach, Waiting
      <3>2. \A w \in Waiting : w.run # bridge.job
        BY <2>6 DEF LlmInv, WorkersSound, Worker, Waiting, Probing
      <3>3. HostSound'
        BY <2>1, <2>3, <2>4, <2>5, <3>1, <3>2 DEF LlmInv, HostSound
      <3> QED
        BY <2>2, <3>1, <3>3 DEF LlmInv
    <2>7. ASSUME NEW w \in Waiting, w.run = bridge.job,
                 NEW new, SameRun(w, new), new.pc \notin {"status", "ask"}, Becomes(w, new)
          PROVE  LlmInv'
      <3>1. w \in workers
        BY DEF Waiting
      <3>2. WorkersSound'
        BY <1>1, <2>7, <3>1, Replaced DEF LlmInv
      <3>3. \A v \in Waiting' : v \in Waiting /\ v.run # bridge.job
        BY <2>7, <3>1 DEF Waiting, Becomes, LlmInv, WorkersSound
      <3>4. HostSound'
        BY <2>1, <2>3, <2>4, <2>5, <3>3 DEF LlmInv, HostSound
      <3> QED
        BY <2>2, <3>2, <3>4 DEF LlmInv
    <2>8. ASSUME NEW w \in Waiting, NEW reply \in Replies
          PROVE  SameRun(w, Answered(w, reply)) /\ Answered(w, reply).pc \notin {"status", "ask"}
      <3>1. w \in Worker /\ w.result \notin Unfit /\ w.pc \in {"status", "ask"}
        BY DEF Waiting, LlmInv, WorkersSound
      <3>2. CASE w.pc = "status"
        <4>1. Answered(w, reply) = [w EXCEPT !.pc = "complete"]
          BY <3>2 DEF Answered
        <4> QED
          BY <3>1, <4>1 DEF SameRun, Worker, Unfit
      <3>3. CASE w.pc = "ask"
        <4>1. Answered(w, reply) = Judge(w, reply)
          BY <3>3 DEF Answered
        <4> QED
          BY <3>1, <4>1, Judged
      <3> QED
        BY <3>1, <3>2, <3>3
    <2>9. \A w \in Waiting : SameRun(w, Refused(w)) /\ Refused(w).pc = "publish"
      BY Refusals DEF Waiting, LlmInv, WorkersSound
    <2>10. \/ bridge.job = Probing /\ UNCHANGED workers
           \/ \E w \in Waiting :
                /\ w.run = bridge.job
                /\ \/ \E reply \in Replies : Becomes(w, Answered(w, reply))
                   \/ Becomes(w, Refused(w))
      BY <1>3 DEF Respond
    <2>11. ASSUME NEW w \in Waiting, w.run = bridge.job,
                  \/ \E reply \in Replies : Becomes(w, Answered(w, reply))
                  \/ Becomes(w, Refused(w))
           PROVE  LlmInv'
      BY <2>7, <2>8, <2>9, <2>11
    <2> QED
      BY <2>6, <2>10, <2>11
  <1> QED
    BY <1>2, <1>3

LEMMA RestartStep ==
    ASSUME LlmInv, BridgeRestarts PROVE LlmInv'
  <1>1. UNCHANGED <<llmRuns, workers, runs, output, backlog, gone, page>> /\ bridge' = [bridge EXCEPT !.up = TRUE]
    BY DEF BridgeRestarts, server
  <1>2. WorkersSound' /\ PageSound' /\ Waiting' = Waiting
    BY <1>1 DEF LlmInv, WorkersSound, OneRunEach, PageSound, PublishedChecked, Waiting
  <1>3. bridge' \in [up : BOOLEAN, job : Requests \cup {NoJob}] /\ bridge'.job = bridge.job
    BY <1>1 DEF LlmInv, HostSound
  <1>4. HostSound'
    BY <1>1, <1>2, <1>3 DEF LlmInv, HostSound, Outstanding
  <1> QED
    BY <1>2, <1>4 DEF LlmInv

------------------------------------------------------------------------------
(* The specification.                                                      *)

LEMMA LlmStep == LlmInv /\ [LlmNext]_llmVars => LlmInv'
  <1> SUFFICES ASSUME LlmInv, [LlmNext]_llmVars PROVE LlmInv'
    OBVIOUS
  <1>1. ASSUME NEW s \in Stocks, Choose(s) PROVE LlmInv'
    BY <1>1, ChooseStep
  <1>2. CASE Click
    BY <1>2, ClickStep
  <1>3. CASE PageStep
    BY <1>3, WaitOverStep DEF PageStep
  <1>4. ASSUME NEW w \in workers, WorkerStep(w) PROVE LlmInv'
    BY <1>4, ConnectStep, GiveUpStep, ReportStep, ReleaseStep DEF WorkerStep
  <1>5. CASE Probe \/ ProbeGivesUp
    BY <1>5, ProbeStep
  <1>6. CASE BridgeStep
    BY <1>6, AcceptStep, RespondStep, RestartStep DEF BridgeStep
  <1>7. CASE UNCHANGED llmVars
    BY <1>7 DEF llmVars, LlmInv, WorkersSound, OneRunEach, HostSound, Outstanding, Waiting,
                PageSound, PublishedChecked
  <1> QED
    BY <1>1, <1>2, <1>3, <1>4, <1>5, <1>6, <1>7 DEF LlmNext

\* Runs of a symbol exclude each other, a symbol is marked exactly while its worker lives, and
\* nothing unchecked is published, whatever clicks, replies, time-outs and ends of the bridge
\* interleave.  (run_llm endpoint, LLMService.evaluate, codex_bridge._handle.)
THEOREM RunsAreSound == LlmSpec => []LlmRunsSound
  <1>1. LlmInv => LlmRunsSound
    BY DEF LlmInv, WorkersSound, HostSound, PageSound, LlmRunsSound, LlmTypeOK
  <1> QED
    BY <1>1, InitLlm, LlmStep, PTL DEF LlmSpec

-----------------------------------------------------------------------------
(* Numbers: a set of them has a least one.                                 *)

LEMMA LeastNatural ==
    ASSUME NEW T \in SUBSET Nat, T # {}
    PROVE  \E m \in T : \A n \in T : m <= n
  <1> DEFINE R == OpToRel(<, Nat)
  <1>1. PICK m \in T : \A n \in T : ~(<<n, m>> \in R)
    BY NatLessThanWellFounded, WFMin
  <1>2. \A n \in T : ~(n < m)
    BY <1>1 DEF OpToRel
  <1> QED  BY <1>2

LEMMA MinOf ==
    ASSUME NEW T \in SUBSET Nat, T # {}
    PROVE  Min(T) \in T /\ \A n \in T : Min(T) <= n
  BY LeastNatural DEF Min

LEMMA UpTo ==
    ASSUME NEW n \in Nat
    PROVE  IsFiniteSet(1 .. n) /\ Cardinality(1 .. n) = n
  BY FS_Interval

-----------------------------------------------------------------------------
(* Setups: what was replied, and which levels there are.                   *)

SetupsInv ==
    /\ given \in Snapshots /\ stage \in {"asked", "retried", "shown", "refused"}
    /\ setups \in Proposals /\ warnings = Counted(given, setups)
    /\ stage # "shown" => setups = <<>>
    /\ Accepted(given, setups)

LEMMA ReplyTyped ==
    ASSUME NEW reply \in Proposals
    PROVE  /\ Len(reply) \in Nat /\ Len(reply) <= 2 /\ DOMAIN reply = 1 .. Len(reply)
           /\ \A i \in DOMAIN reply : reply[i] \in Ideas /\ reply[i] \in IdeaType
  <1>1. reply \in Seq(Ideas) /\ (Len(reply) = 0 \/ Len(reply) = 1 \/ Len(reply) = 2)
    <2>1. CASE reply = <<>>
      BY <2>1, EmptySeq
    <2>2. ASSUME NEW x \in Ideas, reply = <<x>>
          PROVE  reply \in Seq(Ideas) /\ Len(reply) = 1
      BY <2>2
    <2>3. ASSUME NEW x \in Ideas, NEW y \in Ideas, reply = <<x, y>>
          PROVE  reply \in Seq(Ideas) /\ Len(reply) = 2
      BY <2>3
    <2>4. reply = <<>> \/ (\E x \in Ideas : reply = <<x>>) \/ \E x, y \in Ideas : reply = <<x, y>>
      BY DEF Proposals
    <2> QED  BY <2>1, <2>2, <2>3, <2>4
  <1>2. DOMAIN reply = 1 .. Len(reply) /\ \A i \in 1 .. Len(reply) : reply[i] \in Ideas
    BY <1>1, LenProperties, ElementOfSeq
  <1> QED  BY <1>1, <1>2, SetupsAssumption

LEMMA RejectedCounted ==
    ASSUME NEW s, NEW reply \in Proposals
    PROVE  /\ Counted(s, reply) \in 0 .. Len(reply)
           /\ Counted(s, reply) = 0 => Rejected(s, reply) = {}
  <1>1. IsFiniteSet(DOMAIN reply) /\ Cardinality(DOMAIN reply) = Len(reply) /\ Len(reply) \in Nat
    <2>1. DOMAIN reply = 1 .. Len(reply) /\ Len(reply) \in Nat
      BY ReplyTyped
    <2> QED  BY <2>1, UpTo
  <1>2. Rejected(s, reply) \in SUBSET DOMAIN reply
    BY DEF Rejected
  <1>3. IsFiniteSet(Rejected(s, reply)) /\ Cardinality(Rejected(s, reply)) <= Len(reply)
    BY <1>1, <1>2, FS_Subset
  <1>4. Cardinality(Rejected(s, reply)) \in Nat
    BY <1>3, FS_CardinalityType
  <1>5. Cardinality(Rejected(s, reply)) = 0 => Rejected(s, reply) = {}
    BY <1>3, FS_EmptySet
  <1> QED  BY <1>1, <1>3, <1>4, <1>5 DEF Counted

LEMMA NothingReplied ==
    ASSUME NEW s
    PROVE  <<>> \in Proposals /\ Counted(s, <<>>) = 0 /\ Accepted(s, <<>>)
  <1>1. <<>> \in Proposals
    BY DEF Proposals
  <1>2. Counted(s, <<>>) \in 0 .. Len(<<>>)
    BY <1>1, RejectedCounted
  <1> QED  BY <1>1, <1>2 DEF Accepted

LEMMA InitSetups == SetupsInit => SetupsInv
  BY NothingReplied DEF SetupsInit, SetupsInv

LEMMA SetupsStep == SetupsInv /\ [SetupsNext]_setupVars => SetupsInv'
  <1> SUFFICES ASSUME SetupsInv, [SetupsNext]_setupVars
               PROVE  SetupsInv'
    OBVIOUS
  <1>1. CASE UNCHANGED setupVars
    BY <1>1 DEF setupVars, SetupsInv
  <1>2. ASSUME NEW reply \in Proposals, Reply(reply)
        PROVE  SetupsInv'
    <2>1. given' = given /\ stage' \in {"shown", "retried", "refused"}
      BY <1>2 DEF Reply
    <2>2. CASE Accepted(given, reply)
      <3>1. stage' = "shown" /\ setups' = reply /\ warnings' = Counted(given, reply)
        BY <1>2, <2>2 DEF Reply
      <3> QED  BY <2>1, <2>2, <3>1 DEF SetupsInv
    <2>3. CASE ~Accepted(given, reply)
      <3>1. setups' = setups /\ warnings' = warnings /\ stage # "shown"
        BY <1>2, <2>3 DEF Reply
      <3> QED  BY <2>1, <3>1 DEF SetupsInv
    <2> QED  BY <2>2, <2>3
  <1> QED  BY <1>1, <1>2 DEF SetupsNext

\* The lowest of some prices is one of them.
LEMMA LowestOne ==
    ASSUME NEW P \in SUBSET Nat, P # {}
    PROVE  Lowest(P) \in P
  BY MinOf DEF Lowest

\* The first source above the price is above it, and there is one if any level or high is.
LEMMA FirstIsAbove ==
    ASSUME NEW s \in SnapshotType
    PROVE  /\ FirstAbove(s) # NoPrice => FirstAbove(s) > s.last
           /\ Above({s.level[n] : n \in Named} \cup s.highs, s.last) # {} => FirstAbove(s) > s.last
  <1> DEFINE high == Lowest(Above(s.highs, s.last))
             sources == <<s.level["micro"], s.level["opening"], s.level["premarket"], high>>
             usable == {i \in DOMAIN sources : sources[i] > s.last}
  <1>1. /\ s.last \in Nat /\ s.highs \in SUBSET Nat /\ s.level["micro"] \in Nat
        /\ s.level["opening"] \in Nat /\ s.level["premarket"] \in Nat
    BY DEF SnapshotType, Price, Named
  <1>2. Above(s.highs, s.last) \in SUBSET Nat
    BY <1>1 DEF Above, Known
  <1>3. Above(s.highs, s.last) # {} => high > s.last
    BY <1>2, LowestOne DEF Above, Known
  <1>4. DOMAIN sources = 1 .. 4 /\ usable \in SUBSET Nat
    OBVIOUS
  <1>5. FirstAbove(s) = IF usable = {} THEN NoPrice ELSE sources[Min(usable)]
    BY DEF FirstAbove
  <1>6. usable # {} => FirstAbove(s) > s.last
    <2> HIDE DEF sources
    <2>1. usable # {} => Min(usable) \in usable
      BY <1>4, MinOf
    <2> QED  BY <1>5, <2>1
  <1>7. Above({s.level[n] : n \in Named} \cup s.highs, s.last) # {} => usable # {}
    <2> SUFFICES ASSUME NEW p \in {s.level[n] : n \in Named} \cup s.highs, p > s.last
                 PROVE  \E i \in 1 .. 4 : sources[i] > s.last
      BY <1>4 DEF Above, Known
    <2>1. CASE p \in s.highs
      <3>1. p \in Above(s.highs, s.last)
        BY <1>1, <2>1 DEF Above, Known, NoPrice
      <3> QED  BY <1>3, <3>1
    <2>2. CASE p = s.level["micro"]
      BY <2>2
    <2>3. CASE p = s.level["opening"]
      BY <2>3
    <2>4. CASE p = s.level["premarket"]
      BY <2>4
    <2> QED  BY <2>1, <2>2, <2>3, <2>4 DEF Named
  <1> QED  BY <1>5, <1>6, <1>7

LEMMA ResistanceIsAbove ==
    ASSUME SetupsInv
    PROVE  ResistanceAbove
  <1> SUFFICES ASSUME Above({given.level[n] : n \in Named} \cup given.highs, given.last) # {}
               PROVE  NearestResistance(given) > given.last
    BY DEF ResistanceAbove
  <1>1. given \in SnapshotType
    BY SetupsAssumption DEF SetupsInv
  <1>2. FirstAbove(given) > given.last /\ given.last \in Nat
    BY <1>1, FirstIsAbove DEF SnapshotType, Price
  <1>3. FirstAbove(given) # NoPrice
    BY <1>2 DEF NoPrice
  <1> QED  BY <1>2, <1>3 DEF NearestResistance

\* Every level of the snapshot is taken for structural by the label that means it.
LEMMA LevelsAreHonoured ==
    ASSUME SetupsInv
    PROVE  LevelsHonoured
  <1> SUFFICES ASSUME stage = "asked", ~given.desktop
               PROVE  /\ \A p \in Known(given.highs) : \A x \in Ideas :
                            Structural(given, [x EXCEPT !.label = "swing", !.target = p])
                      /\ \A z \in given.zones : \A x \in Ideas :
                            Structural(given, [x EXCEPT !.label = "cluster", !.target = Mid(z)])
                      /\ \A p \in Breakouts(given) : \A x \in Ideas :
                            Structural(given, [x EXCEPT !.label = "nearest", !.target = p])
    BY DEF LevelsHonoured
  <1>1. /\ given \in SnapshotType /\ Ideas \subseteq IdeaType
        /\ \A z \in given.zones : z[1] \in Nat /\ z[2] \in Nat /\ z[1] <= z[2]
    <2>1. given \in SnapshotType /\ given \in Snapshots
      BY SetupsAssumption DEF SetupsInv
    <2>2. \A z \in given.zones : z \in Nat \X Nat
      BY <2>1 DEF SnapshotType, Price
    <2> QED  BY <2>1, <2>2, SetupsAssumption
  <1>2. \A p, l : \A x \in Ideas :
           /\ [x EXCEPT !.label = l, !.target = p].label = l
           /\ [x EXCEPT !.label = l, !.target = p].target = p
    <2> TAKE p, l
    <2> TAKE x \in Ideas
    <2>1. x \in IdeaType
      BY <1>1
    <2> QED  BY <2>1 DEF IdeaType
  <1>3. ASSUME NEW p \in Known(given.highs), NEW x \in Ideas
        PROVE  Structural(given, [x EXCEPT !.label = "swing", !.target = p])
    <2> DEFINE y == [x EXCEPT !.label = "swing", !.target = p]
    <2>1. y.label = "swing" /\ y.target = p
      BY <1>2
    <2>2. p \in BarHighs(given)
      BY DEF BarHighs, Known
    <2> HIDE DEF y
    <2>3. Structural(given, y)
      BY <2>1, <2>2 DEF Structural, Named
    <2> QED  BY <2>3 DEF y
  <1>4. ASSUME NEW z \in given.zones, NEW x \in Ideas
        PROVE  Structural(given, [x EXCEPT !.label = "cluster", !.target = Mid(z)])
    <2> DEFINE y == [x EXCEPT !.label = "cluster", !.target = Mid(z)]
    <2>1. y.label = "cluster" /\ y.target = Mid(z)
      BY <1>2
    <2>2. z[1] <= Mid(z) /\ Mid(z) <= z[2]
      BY <1>1 DEF Mid
    <2>3. z \in Clusters(given)
      BY DEF Clusters
    <2> HIDE DEF y
    <2>4. Structural(given, y)
      BY <2>1, <2>2, <2>3 DEF Structural, Named
    <2> QED  BY <2>4 DEF y
  <1>5. ASSUME NEW p \in Breakouts(given), NEW x \in Ideas
        PROVE  Structural(given, [x EXCEPT !.label = "nearest", !.target = p])
    <2> DEFINE y == [x EXCEPT !.label = "nearest", !.target = p]
    <2>1. y.label = "nearest" /\ y.target = p
      BY <1>2
    <2>2. NearestResistance(given) # NoPrice /\ p \in Above(BarHighs(given) \cup Breakouts(given),
                                                            NearestResistance(given))
      BY DEF Breakouts, Above, Known
    <2> HIDE DEF y
    <2>3. Structural(given, y)
      BY <2>1, <2>2 DEF Structural, Named
    <2> QED  BY <2>3 DEF y
  <1> QED  BY <1>3, <1>4, <1>5

LEMMA SetupsInvSound == SetupsInv => SetupsSound
  <1> SUFFICES ASSUME SetupsInv
               PROVE  SetupsSound
    OBVIOUS
  <1>1. setups \in Proposals /\ warnings = Counted(given, setups)
    BY DEF SetupsInv
  <1>2. SetupsTypeOK
    <2>1. Len(setups) <= 2 /\ \A i \in DOMAIN setups : setups[i] \in Ideas
      BY <1>1, ReplyTyped
    <2>2. warnings \in 0 .. Len(setups)
      BY <1>1, RejectedCounted
    <2>3. /\ given \in Snapshots /\ stage \in {"asked", "retried", "shown", "refused"}
          /\ stage # "shown" => setups = <<>>
      BY DEF SetupsInv
    <2> QED  BY <2>1, <2>2, <2>3, Zenon DEF SetupsTypeOK
  <1>3. ShownChecked
    <2> SUFFICES ASSUME setups # <<>>
                 PROVE  /\ warnings = 0 => \A i \in Best(setups) : Valid(given, setups[i])
                        /\ \E i \in DOMAIN setups :
                              /\ Worthwhile(setups[i]) /\ setups[i].stop < setups[i].entry
                              /\ Structural(given, setups[i]) /\ Extended(given, setups[i])
      BY DEF ShownChecked
    <2>1. warnings = 0 => \A i \in Best(setups) : Valid(given, setups[i])
      BY <1>1, RejectedCounted DEF Rejected, Best
    <2>2. PICK i \in DOMAIN setups : Valid(given, setups[i])
      BY DEF SetupsInv, Accepted, Rejected
    <2>3. setups[i].entry \in Nat /\ setups[i].stop \in Nat
      BY <1>1, ReplyTyped DEF IdeaType, Price
    <2>4. setups[i].stop < setups[i].entry
      BY <2>2, <2>3 DEF Valid, Worthwhile
    <2> QED  BY <2>1, <2>2, <2>4 DEF Valid
  <1> QED  BY <1>2, <1>3, ResistanceIsAbove, LevelsAreHonoured DEF SetupsSound

\* What is shown has been checked against the levels the model was shown, for any snapshots and any
\* setups a model may propose.
THEOREM SetupsHold == SetupsSpec => []SetupsSound
  BY InitSetups, SetupsStep, SetupsInvSound, PTL DEF SetupsSpec

-----------------------------------------------------------------------------
(* Sums: Total satisfies its recursion, so it is what is added up so far.  *)

IsSum(f, v) ==
    /\ f[0] = 0
    /\ \A n \in 1 .. Len(v) : f[n] = f[n - 1] + v[n]

LEMMA SumNatural ==
    ASSUME NEW v \in Seq(Nat), NEW f, IsSum(f, v)
    PROVE  \A n \in 0 .. Len(v) : f[n] \in Nat
  <1> DEFINE T == {n \in 0 .. Len(v) : f[n] \notin Nat}
  <1>0. Len(v) \in Nat
    BY LenProperties
  <1> SUFFICES ASSUME T # {} PROVE FALSE
    OBVIOUS
  <1>00. T \in SUBSET Nat
    BY <1>0
  <1>1. PICK m \in T : \A n \in T : m <= n
    <2> HIDE DEF T
    <2> QED  BY LeastNatural, <1>00
  <1>2. m # 0 /\ m \in 1 .. Len(v) /\ m - 1 \in 0 .. Len(v) /\ m - 1 \notin T
    BY <1>0, <1>1 DEF IsSum
  <1>3. v[m] \in Nat
    BY <1>2, ElementOfSeq
  <1> QED  BY <1>1, <1>2, <1>3 DEF IsSum

LEMMA SumExists ==
    ASSUME NEW v \in Seq(Nat)
    PROVE  \E f : f = [n \in 0 .. Len(v) |-> IF n = 0 THEN 0 ELSE f[n - 1] + v[n]]
  <1> DEFINE Upto(f, m) == f = [n \in 0 .. m |-> IF n = 0 THEN 0 ELSE f[n - 1] + v[n]]
  <1> DEFINE T == {m \in 0 .. Len(v) : ~ \E f : Upto(f, m)}
  <1>0. Len(v) \in Nat
    BY LenProperties
  <1> SUFFICES ASSUME T # {} PROVE FALSE
    BY <1>0
  <1>00. T \in SUBSET Nat
    BY <1>0
  <1>1. PICK m \in T : \A n \in T : m <= n
    <2> HIDE DEF T
    <2> QED  BY LeastNatural, <1>00
  <1>2. m # 0
    <2> SUFFICES ASSUME m = 0 PROVE FALSE
      OBVIOUS
    <2> DEFINE z == [n \in 0 .. 0 |-> 0]
    <2>1. Upto(z, 0)
      BY SMT
    <2> QED  BY <1>1, <2>1
  <1>3. m \in Nat /\ m - 1 \in 0 .. Len(v) /\ m - 1 \notin T
    <2>1. m \in 0 .. Len(v)
      OBVIOUS
    <2> HIDE DEF T
    <2>2. \A n \in T : n \in Nat
      BY <1>00
    <2> QED  BY <1>0, <1>1, <1>2, <2>1, <2>2
  <1>4. PICK g : Upto(g, m - 1)
    BY <1>3
  <1> DEFINE h == [n \in 0 .. m |-> IF n = 0 THEN 0 ELSE g[n - 1] + v[n]]
  <1>5. \A n \in 0 .. m : n # m => h[n] = g[n]
    BY <1>0, <1>1, <1>4
  <1>6. Upto(h, m)
    <2>1. \A n \in 0 .. m : (IF n = 0 THEN 0 ELSE g[n - 1] + v[n]) = (IF n = 0 THEN 0 ELSE h[n - 1] + v[n])
      BY <1>5, <1>0, <1>1
    <2> HIDE DEF T
    <2>2. h = [n \in 0 .. m |-> IF n = 0 THEN 0 ELSE g[n - 1] + v[n]]
      OBVIOUS
    <2> HIDE DEF h
    <2> QED  BY <2>1, <2>2
  <1> QED  BY <1>1, <1>6

LEMMA SumOf ==
    ASSUME NEW v \in Seq(Nat)
    PROVE  \E f : IsSum(f, v) /\ Total(v) = f[Len(v)]
  <1> DEFINE sum[n \in 0 .. Len(v)] == IF n = 0 THEN 0 ELSE sum[n - 1] + v[n]
  <1>0. Len(v) \in Nat
    BY LenProperties
  <1>1. Total(v) = sum[Len(v)]
    BY DEF Total
  <1>2. PICK g : g = [n \in 0 .. Len(v) |-> IF n = 0 THEN 0 ELSE g[n - 1] + v[n]]
    BY SumExists
  <1>3. sum = [n \in 0 .. Len(v) |-> IF n = 0 THEN 0 ELSE sum[n - 1] + v[n]]
    BY <1>2, Zenon
  <1>4. PICK s : s = [n \in 0 .. Len(v) |-> IF n = 0 THEN 0 ELSE s[n - 1] + v[n]] /\ Total(v) = s[Len(v)]
    BY <1>1, <1>3
  <1>5. s[0] = 0
    BY <1>0, <1>4
  <1>6. ASSUME NEW n \in 1 .. Len(v) PROVE s[n] = s[n - 1] + v[n]
    <2>1. n \in 0 .. Len(v) /\ n # 0
      BY <1>0
    <2> QED  BY <2>1, <1>4
  <1>7. IsSum(s, v)
    BY <1>5, <1>6 DEF IsSum
  <1> QED  BY <1>4, <1>7

\* Two sums of numbers that are the same up to n are the same up to n.
LEMMA SameSum ==
    ASSUME NEW v \in Seq(Nat), NEW w \in Seq(Nat), NEW f, NEW g, IsSum(f, v), IsSum(g, w)
    PROVE  \A l \in Nat : l <= Len(v) /\ l <= Len(w) /\ (\A i \in 1 .. l : v[i] = w[i]) => f[l] = g[l]
  <1> SUFFICES ASSUME NEW l \in Nat, l <= Len(v), l <= Len(w), \A i \in 1 .. l : v[i] = w[i]
               PROVE  f[l] = g[l]
    OBVIOUS
  <1> DEFINE T == {n \in 0 .. l : f[n] # g[n]}
  <1>0. Len(v) \in Nat /\ Len(w) \in Nat
    BY LenProperties
  <1> SUFFICES ASSUME T # {} PROVE FALSE
    OBVIOUS
  <1>00. T \in SUBSET Nat
    BY <1>0
  <1>1. PICK m \in T : \A n \in T : m <= n
    <2> HIDE DEF T
    <2> QED  BY LeastNatural, <1>00
  <1>2. m # 0 /\ m \in 1 .. Len(v) /\ m \in 1 .. Len(w) /\ m \in 1 .. l /\ m - 1 \in 0 .. l /\ m - 1 \notin T
    BY <1>0, <1>1 DEF IsSum
  <1> QED  BY <1>1, <1>2 DEF IsSum

LEMMA TotalNatural ==
    ASSUME NEW v \in Seq(Nat)
    PROVE  Total(v) \in Nat
  <1>1. PICK f : IsSum(f, v) /\ Total(v) = f[Len(v)]
    BY SumOf
  <1> QED  BY <1>1, SumNatural, LenProperties

LEMMA TotalOfNone ==
    ASSUME NEW v \in Seq(Nat), v = <<>>
    PROVE  Total(v) = 0
  <1>1. PICK f : IsSum(f, v) /\ Total(v) = f[Len(v)]
    BY SumOf
  <1> QED  BY <1>1, EmptySeq DEF IsSum

LEMMA TotalAppended ==
    ASSUME NEW v \in Seq(Nat), NEW w \in Seq(Nat), NEW n \in Nat,
           Len(w) = Len(v) + 1, \A i \in 1 .. Len(v) : w[i] = v[i], w[Len(v) + 1] = n
    PROVE  Total(w) = Total(v) + n
  <1>0. Len(v) \in Nat
    BY LenProperties
  <1>1. PICK f : IsSum(f, v) /\ Total(v) = f[Len(v)]
    BY SumOf
  <1>2. PICK g : IsSum(g, w) /\ Total(w) = g[Len(w)]
    BY SumOf
  <1>3. f[Len(v)] = g[Len(v)]
    <2>1. Len(v) \in Nat /\ Len(v) <= Len(v) /\ Len(v) <= Len(w) /\ \A i \in 1 .. Len(v) : v[i] = w[i]
      BY <1>0
    <2>2. \A l \in Nat : l <= Len(v) /\ l <= Len(w) /\ (\A i \in 1 .. l : v[i] = w[i]) => f[l] = g[l]
      BY <1>1, <1>2, SameSum
    <2> QED  BY <2>1, <2>2, Zenon
  <1>4. g[Len(w)] = g[Len(v)] + n
    BY <1>0, <1>2 DEF IsSum
  <1> QED  BY <1>1, <1>2, <1>3, <1>4

LEMMA Shifted ==
    ASSUME NEW f, NEW g, NEW v, NEW w, NEW k, NEW m, v[k] \in Nat, w[k] \in Nat, v[m] \in Nat,
           f[m - 1] \in Nat, g[m - 1] \in Nat, w[m] = v[m],
           f[m] = f[m - 1] + v[m], g[m] = g[m - 1] + w[m],
           g[m - 1] = f[m - 1] - v[k] + w[k], f[m - 1] >= v[k]
    PROVE  g[m] = f[m] - v[k] + w[k] /\ f[m] >= v[k]
  OBVIOUS

\* Another number at i changes the sum by the difference, and no number exceeds it.
LEMMA TotalChanged ==
    ASSUME NEW v \in Seq(Nat), NEW w \in Seq(Nat), NEW k \in 1 .. Len(v), Len(w) = Len(v),
           \A i \in 1 .. Len(v) : i # k => w[i] = v[i]
    PROVE  Total(w) = Total(v) - v[k] + w[k] /\ Total(v) >= v[k]
  <1>0. Len(v) \in Nat /\ k \in Nat /\ v[k] \in Nat /\ w[k] \in Nat
    BY LenProperties, ElementOfSeq
  <1>1. PICK f : IsSum(f, v) /\ Total(v) = f[Len(v)]
    BY SumOf
  <1>2. PICK g : IsSum(g, w) /\ Total(w) = g[Len(w)]
    BY SumOf
  <1>3. \A n \in 0 .. Len(v) : f[n] \in Nat /\ g[n] \in Nat
    BY <1>1, <1>2, SumNatural
  <1>4. f[k - 1] = g[k - 1]
    <2>1. k - 1 \in Nat /\ k - 1 <= Len(v) /\ k - 1 <= Len(w) /\ \A i \in 1 .. k - 1 : v[i] = w[i]
      BY <1>0
    <2>2. \A l \in Nat : l <= Len(v) /\ l <= Len(w) /\ (\A i \in 1 .. l : v[i] = w[i]) => f[l] = g[l]
      BY <1>1, <1>2, SameSum
    <2> QED  BY <2>1, <2>2, Zenon
  <1> DEFINE Differ(n) == g[n] = f[n] - v[k] + w[k] /\ f[n] >= v[k]
  <1> DEFINE T == {n \in k .. Len(v) : ~Differ(n)}
  <1>5. ASSUME NEW m \in T, \A n \in T : m <= n PROVE FALSE
    <2>1. m \in k .. Len(v) /\ ~Differ(m)
      OBVIOUS
    <2>2. m \in 1 .. Len(v) /\ m - 1 \in 0 .. Len(v) /\ m \in 0 .. Len(v)
      BY <1>0, <2>1
    <2>3. f[m] = f[m - 1] + v[m] /\ g[m] = g[m - 1] + w[m] /\ v[m] \in Nat /\ w[m] \in Nat
      BY <1>1, <1>2, <2>2, ElementOfSeq DEF IsSum
    <2>4. f[m - 1] \in Nat /\ g[m - 1] \in Nat /\ f[m] \in Nat /\ g[m] \in Nat
      BY <1>3, <2>2
    <2>5. CASE m = k
      BY <1>0, <1>4, <2>1, <2>3, <2>4, <2>5
    <2>6. CASE m # k
      <3>1. m - 1 \in k .. Len(v)
        BY <1>0, <2>1, <2>6
      <3>2. m - 1 \in T => m <= m - 1
        BY <1>5
      <3>3. Differ(m - 1)
        BY <3>1, <3>2, <2>2
      <3>4. w[m] = v[m]
        BY <2>2, <2>6
      <3>5. g[m - 1] = f[m - 1] - v[k] + w[k] /\ f[m - 1] >= v[k]
        BY <3>3
      <3>6. g[m] = f[m] - v[k] + w[k] /\ f[m] >= v[k]
        <4>1. v[k] \in Nat /\ w[k] \in Nat /\ v[m] \in Nat /\ f[m - 1] \in Nat /\ g[m - 1] \in Nat
          BY <1>0, <2>3, <2>4
        <4>2. f[m] = f[m - 1] + v[m] /\ g[m] = g[m - 1] + w[m] /\ w[m] = v[m]
          BY <2>3, <3>4
        <4> HIDE DEF T, Differ
        <4> QED  BY <3>5, <4>1, <4>2, Shifted, Zenon
      <3> QED  BY <2>1, <3>6
    <2> QED  BY <2>5, <2>6
  <1>6. T \in SUBSET Nat
    BY <1>0
  <1>7. T = {}
    <2> HIDE DEF T
    <2> QED  BY <1>5, <1>6, LeastNatural
  <1>8. Len(v) \in k .. Len(v)
    BY <1>0
  <1>9. Differ(Len(v))
    BY <1>7, <1>8
  <1> QED  BY <1>1, <1>2, <1>9

-----------------------------------------------------------------------------
(* The greatest of some numbers.                                           *)

LEMMA MaxOf ==
    ASSUME NEW T \in SUBSET Nat, T # {}, NEW b \in Nat, \A n \in T : n <= b
    PROVE  Max(T) \in T /\ \A n \in T : n <= Max(T)
  <1> DEFINE B == {k \in Nat : \A n \in T : n <= k}
  <1>1. PICK k \in B : \A n \in B : k <= n
    BY LeastNatural
  <1>2. k \in T
    <2> SUFFICES ASSUME k \notin T PROVE FALSE
      OBVIOUS
    <2>1. \A n \in T : n <= k - 1 /\ k - 1 \in Nat
      BY <1>1
    <2>2. k - 1 \in B
      BY <2>1
    <2> QED  BY <1>1, <2>2
  <1>3. \A n \in T : k >= n
    BY <1>1
  <1> QED  BY <1>2, <1>3 DEF Max

LEMMA MaxOfTwo ==
    ASSUME NEW m \in Int, NEW n \in Int
    PROVE  Max({m, n}) = IF m >= n THEN m ELSE n
  <1>1. \E x \in {m, n} : \A y \in {m, n} : x >= y
    OBVIOUS
  <1>2. Max({m, n}) \in {m, n} /\ \A y \in {m, n} : Max({m, n}) >= y
    BY <1>1 DEF Max
  <1> QED  BY <1>2

\* Of finitely many natural numbers there is a greatest.
LEMMA MaxOfMany ==
    ASSUME NEW l \in Nat, l # 0, NEW f, \A i \in 1 .. l : f[i] \in Nat
    PROVE  /\ Max({f[i] : i \in 1 .. l}) \in Nat
           /\ \A i \in 1 .. l : f[i] <= Max({f[j] : j \in 1 .. l})
  <1> DEFINE T == {m \in 0 .. l : ~ \E b \in Nat : \A i \in 1 .. m : f[i] <= b}
  <1>a. T \in SUBSET Nat
    OBVIOUS
  <1>b. ASSUME NEW m \in T, \A n \in T : m <= n PROVE FALSE
    <2>1. m \in 0 .. l /\ ~ \E b \in Nat : \A i \in 1 .. m : f[i] <= b
      OBVIOUS
    <2>2. m # 0
      <3>1. \A i \in 1 .. 0 : f[i] <= 0
        OBVIOUS
      <3> QED  BY <2>1, <3>1
    <2>3. m \in 1 .. l /\ m - 1 \in 0 .. l
      BY <2>1, <2>2
    <2>4. m - 1 \in T => m <= m - 1
      BY <1>b
    <2>5. PICK b \in Nat : \A i \in 1 .. m - 1 : f[i] <= b
      BY <2>3, <2>4
    <2>6. f[m] \in Nat /\ f[m] + b \in Nat
      BY <2>3
    <2>7. ASSUME NEW i \in 1 .. m PROVE f[i] <= f[m] + b
      <3>1. f[i] \in Nat /\ (i = m \/ i \in 1 .. m - 1)
        BY <2>3
      <3> QED  BY <3>1, <2>5, <2>6
    <2> QED  BY <2>1, <2>6, <2>7
  <1>1. T = {}
    <2> HIDE DEF T
    <2> QED  BY <1>a, <1>b, LeastNatural
  <1>2. PICK b \in Nat : \A i \in 1 .. l : f[i] <= b
    BY <1>1
  <1> DEFINE F == {f[i] : i \in 1 .. l}
  <1>3. F \subseteq Nat /\ F # {} /\ \A n \in F : n <= b
    BY <1>2
  <1>4. Max(F) \in F /\ \A n \in F : n <= Max(F)
    <2> HIDE DEF F
    <2> QED  BY <1>3, MaxOf
  <1> QED  BY <1>3, <1>4

-----------------------------------------------------------------------------
(* MinuteBars: whose minutes the bars are, and what they add up to.        *)

MinuteBar == [ts : Nat, high : Nat, close : Nat, volume : Nat]
Aggregate ==
    [current : MinuteBar \cup {NoMinute}, bars : Seq(MinuteBar), seededTs : Int,
     num : Nat, den : Nat, high : Nat]
MinuteTyped ==
    /\ minute \in Nat /\ tens \in Nat /\ gap \subseteq Nat /\ seeding \in {"none", "reset", "done", "live"}
    /\ DOMAIN market \subseteq 0 .. minute
    /\ \A t \in DOMAIN market : market[t] \in MinuteBar /\ market[t].ts = t
    /\ agg \in Aggregate /\ agg.seededTs \in -1 .. minute

\* The engine is given bars only once it is subscribed, after the seed.
MinutePhases ==
    /\ seeding \in {"none", "reset"} => agg.bars = <<>> /\ agg.num = 0 /\ agg.den = 0
    /\ seeding # "live" => agg.current = NoMinute
    /\ agg.seededTs = minute => minute \in gap

\* The bar in progress is later than every bar but the seed's last.
Horizon == IF agg.current = NoMinute THEN minute ELSE agg.current.ts
MinutePlaces ==
    /\ agg.current # NoMinute =>
         /\ agg.current.ts \in DOMAIN market /\ agg.seededTs <= agg.current.ts
         /\ agg.current.high <= agg.high
         /\ agg.current.ts \notin gap => agg.current = market[agg.current.ts]
    /\ \A i \in DOMAIN agg.bars :
         /\ agg.bars[i].ts \in DOMAIN market
         /\ agg.bars[i].ts = agg.seededTs \/ agg.bars[i].ts < Horizon
    /\ \A i, j \in DOMAIN agg.bars : i < j => agg.bars[i].ts < agg.bars[j].ts

\* What the market made of this minute since the subscription, the bar in progress holds.
MinuteFollows ==
    seeding = "live" /\ minute \in DOMAIN market \ gap =>
        agg.current # NoMinute /\ agg.current.ts = minute

MinuteInv ==
    /\ MinuteTyped /\ MinutePhases /\ MinutePlaces /\ MinuteFollows
    /\ MinutesTrue /\ VwapIsBars

LEMMA VolumesOf ==
    ASSUME NEW bars \in Seq(MinuteBar)
    PROVE  /\ Len(bars) \in Nat /\ DOMAIN bars = 1 .. Len(bars)
           /\ \A i \in 1 .. Len(bars) : bars[i] \in MinuteBar
           /\ [i \in DOMAIN bars |-> bars[i].volume] \in Seq(Nat)
           /\ Len([i \in DOMAIN bars |-> bars[i].volume]) = Len(bars)
           /\ \A j \in 1 .. Len(bars) : [i \in DOMAIN bars |-> bars[i].volume][j] = bars[j].volume
           /\ Volumes(bars) \in Nat /\ Worth(bars) \in Nat
  <1>1. Len(bars) \in Nat /\ DOMAIN bars = 1 .. Len(bars) /\ \A i \in 1 .. Len(bars) : bars[i] \in MinuteBar
    BY LenProperties, ElementOfSeq
  <1>2. [i \in DOMAIN bars |-> bars[i].volume] \in [1 .. Len(bars) -> Nat]
    BY <1>1 DEF MinuteBar
  <1>3. /\ [i \in DOMAIN bars |-> bars[i].volume] \in Seq(Nat)
        /\ Len([i \in DOMAIN bars |-> bars[i].volume]) = Len(bars)
    BY <1>1, <1>2, SeqDef, LenProperties
  <1>4. \A m, n \in Nat : m * n \in Nat
    OBVIOUS
  <1>5. \A i \in 1 .. Len(bars) : bars[i].close * bars[i].volume \in Nat
    <2>1. \A i \in 1 .. Len(bars) : bars[i].close \in Nat /\ bars[i].volume \in Nat
      BY <1>1 DEF MinuteBar
    <2> QED  BY <1>4, <2>1
  <1>6. [i \in DOMAIN bars |-> bars[i].close * bars[i].volume] \in [1 .. Len(bars) -> Nat]
    BY <1>1, <1>5
  <1>7. [i \in DOMAIN bars |-> bars[i].close * bars[i].volume] \in Seq(Nat)
    BY <1>1, <1>6, SeqDef
  <1>8. Volumes(bars) \in Nat /\ Worth(bars) \in Nat
    BY <1>3, <1>7, TotalNatural DEF Volumes, Worth
  <1>9. \A j \in 1 .. Len(bars) : [i \in DOMAIN bars |-> bars[i].volume][j] = bars[j].volume
    BY <1>1
  <1> QED  BY <1>1, <1>3, <1>8, <1>9

LEMMA VolumesOfNone ==
    ASSUME NEW bars, bars = <<>>
    PROVE  Volumes(bars) = 0
  <1>1. bars \in Seq(MinuteBar) /\ Len(bars) = 0
    BY EmptySeq
  <1>2. /\ [i \in DOMAIN bars |-> bars[i].volume] \in Seq(Nat)
        /\ Len([i \in DOMAIN bars |-> bars[i].volume]) = 0
    BY <1>1, VolumesOf
  <1>3. [i \in DOMAIN bars |-> bars[i].volume] = <<>>
    BY <1>2, EmptySeq
  <1> QED  BY <1>2, <1>3, TotalOfNone DEF Volumes

LEMMA VolumesAppended ==
    ASSUME NEW bars \in Seq(MinuteBar), NEW bar \in MinuteBar
    PROVE  Volumes(Append(bars, bar)) = Volumes(bars) + bar.volume
  <1> DEFINE more == Append(bars, bar)
             v == [i \in DOMAIN bars |-> bars[i].volume]
             w == [i \in DOMAIN more |-> more[i].volume]
  <1>1. /\ more \in Seq(MinuteBar) /\ Len(more) = Len(bars) + 1 /\ more[Len(bars) + 1] = bar
        /\ \A i \in 1 .. Len(bars) : more[i] = bars[i]
    BY AppendProperties
  <1>2. /\ v \in Seq(Nat) /\ Len(v) = Len(bars) /\ Len(bars) \in Nat
        /\ \A i \in 1 .. Len(bars) : v[i] = bars[i].volume
    BY VolumesOf
  <1>3. /\ w \in Seq(Nat) /\ Len(w) = Len(more)
        /\ \A i \in 1 .. Len(more) : w[i] = more[i].volume
    <2> HIDE DEF more
    <2> QED  BY <1>1, VolumesOf
  <1>4. Volumes(bars) = Total(v) /\ Volumes(Append(bars, bar)) = Total(w)
    BY DEF Volumes
  <1> HIDE DEF more, v, w
  <1>5. bar.volume \in Nat
    BY DEF MinuteBar
  <1>6. (\A i \in 1 .. Len(v) : w[i] = v[i]) /\ w[Len(v) + 1] = bar.volume /\ Len(w) = Len(v) + 1
    <2>1. Len(w) = Len(v) + 1 /\ Len(v) + 1 \in 1 .. Len(more)
      BY <1>1, <1>2, <1>3
    <2>2. w[Len(v) + 1] = bar.volume
      BY <1>1, <1>2, <1>3, <2>1
    <2>3. \A i \in 1 .. Len(v) : i \in 1 .. Len(more) /\ i \in 1 .. Len(bars)
      BY <1>1, <1>2
    <2> QED  BY <1>1, <1>2, <1>3, <2>1, <2>2, <2>3
  <1>7. Total(w) = Total(v) + bar.volume
    BY <1>2, <1>3, <1>5, <1>6, TotalAppended
  <1> QED  BY <1>4, <1>7

LEMMA VolumesReplaced ==
    ASSUME NEW bars \in Seq(MinuteBar), NEW bar \in MinuteBar, NEW k \in 1 .. Len(bars)
    PROVE  /\ [bars EXCEPT ![k] = bar] \in Seq(MinuteBar) /\ Len([bars EXCEPT ![k] = bar]) = Len(bars)
           /\ \A i \in 1 .. Len(bars) : [bars EXCEPT ![k] = bar][i] = IF i = k THEN bar ELSE bars[i]
           /\ Volumes([bars EXCEPT ![k] = bar]) = Volumes(bars) - bars[k].volume + bar.volume
           /\ Volumes(bars) >= bars[k].volume
  <1> DEFINE more == [bars EXCEPT ![k] = bar]
             v == [i \in DOMAIN bars |-> bars[i].volume]
             w == [i \in DOMAIN more |-> more[i].volume]
  <1>1. /\ more \in Seq(MinuteBar) /\ Len(more) = Len(bars)
        /\ \A i \in 1 .. Len(bars) : more[i] = IF i = k THEN bar ELSE bars[i]
    BY ExceptSeq
  <1>2. /\ v \in Seq(Nat) /\ Len(v) = Len(bars) /\ Len(bars) \in Nat
        /\ \A i \in 1 .. Len(bars) : v[i] = bars[i].volume
    BY VolumesOf
  <1>3. /\ w \in Seq(Nat) /\ Len(w) = Len(more)
        /\ \A i \in 1 .. Len(more) : w[i] = more[i].volume
    <2> HIDE DEF more
    <2> QED  BY <1>1, VolumesOf
  <1>4. Volumes(bars) = Total(v) /\ Volumes(more) = Total(w)
    BY DEF Volumes
  <1>5. Total(w) = Total(v) - v[k] + w[k] /\ Total(v) >= v[k]
    <2> HIDE DEF more, v, w
    <2>1. \A i \in 1 .. Len(v) : i # k => w[i] = v[i]
      BY <1>1, <1>2, <1>3
    <2>2. k \in 1 .. Len(v) /\ Len(w) = Len(v)
      BY <1>1, <1>2, <1>3
    <2> QED  BY <1>2, <1>3, <2>1, <2>2, TotalChanged
  <1>6. v[k] = bars[k].volume /\ w[k] = bar.volume
    <2> HIDE DEF more, v, w
    <2> QED  BY <1>1, <1>2, <1>3
  <1> HIDE DEF v, w
  <1> QED  BY <1>1, <1>4, <1>5, <1>6

LEMMA JoinedTyped ==
    ASSUME NEW bar \in MinuteBar, NEW price \in Nat, NEW volume \in Nat
    PROVE  /\ Joined(bar, price, volume) \in MinuteBar /\ Joined(bar, price, volume).ts = bar.ts
           /\ Joined(bar, price, volume).volume = bar.volume + volume
           /\ \A high \in Nat : bar.high <= high => Joined(bar, price, volume).high <= Max({high, price})
  <1>1. bar.ts \in Nat /\ bar.high \in Nat /\ bar.close \in Nat /\ bar.volume \in Nat
    BY DEF MinuteBar
  <1>2. Max({bar.high, price}) = IF bar.high >= price THEN bar.high ELSE price
    BY <1>1, MaxOfTwo
  <1>3. Joined(bar, price, volume) =
          [ts |-> bar.ts, high |-> Max({bar.high, price}), close |-> price, volume |-> bar.volume + volume]
    <2>1. bar = [ts |-> bar.ts, high |-> bar.high, close |-> bar.close, volume |-> bar.volume]
      BY DEF MinuteBar
    <2> DEFINE m == Max({bar.high, price})
    <2>2. Joined(bar, price, volume) = [bar EXCEPT !.high = m, !.close = price, !.volume = bar.volume + volume]
      BY DEF Joined
    <2> HIDE DEF m
    <2>3. Joined(bar, price, volume) =
            [ts |-> bar.ts, high |-> m, close |-> price, volume |-> bar.volume + volume]
      BY <2>1, <2>2
    <2> QED  BY <2>3 DEF m
  <1>4. Max({bar.high, price}) \in Nat /\ bar.volume + volume \in Nat
    BY <1>1, <1>2
  <1>5. ASSUME NEW high \in Nat, bar.high <= high PROVE Max({bar.high, price}) <= Max({high, price})
    <2>1. Max({high, price}) = IF high >= price THEN high ELSE price
      BY MaxOfTwo
    <2> QED  BY <1>1, <1>2, <1>5, <2>1
  <1> DEFINE m == Max({bar.high, price})
  <1> HIDE DEF m
  <1>6. Joined(bar, price, volume) =
          [ts |-> bar.ts, high |-> m, close |-> price, volume |-> bar.volume + volume]
    BY <1>3 DEF m
  <1>7. m \in Nat /\ bar.volume + volume \in Nat
    BY <1>4 DEF m
  <1>8. Joined(bar, price, volume) \in MinuteBar
    BY <1>1, <1>6, <1>7 DEF MinuteBar
  <1>9. \A high \in Nat : bar.high <= high => m <= Max({high, price})
    BY <1>5 DEF m
  <1> QED  BY <1>6, <1>8, <1>9

LEMMA MinuteOfTenTyped ==
    ASSUME NEW ts \in Nat, NEW price \in Nat, NEW volume \in Nat
    PROVE  /\ MinuteOfTen(ts, price, volume) \in MinuteBar
           /\ MinuteOfTen(ts, price, volume).ts = ts
           /\ MinuteOfTen(ts, price, volume).volume = volume
           /\ \A high \in Nat : MinuteOfTen(ts, price, volume).high <= Max({high, price})
  <1>1. ASSUME NEW high \in Nat PROVE price <= Max({high, price})
    BY MaxOfTwo
  <1> QED  BY <1>1 DEF MinuteOfTen, MinuteBar

\* No bar has the time of the one there is when there is none.
LEMMA NoMinuteApart ==
    NoMinute \notin MinuteBar
  BY DEF NoMinute, MinuteBar

\* Storing the minute in progress: each bar is an earlier minute or that one, and the sum is theirs.
LEMMA StoredKeeps ==
    ASSUME MinuteInv, agg.current # NoMinute, NEW stored, stored = Stored(agg, agg.current)
    PROVE  /\ stored \in Aggregate /\ stored.current = agg.current /\ stored.high = agg.high
           /\ stored.seededTs \in {agg.seededTs, -1}
           /\ stored.den = Volumes(stored.bars)
           /\ \A i \in DOMAIN stored.bars :
                /\ stored.bars[i].ts \in DOMAIN market /\ stored.bars[i].ts <= agg.current.ts
                /\ stored.bars[i].high <= agg.high
                /\ stored.bars[i].ts \notin gap => stored.bars[i] = market[stored.bars[i].ts]
           /\ \A i, j \in DOMAIN stored.bars : i < j => stored.bars[i].ts < stored.bars[j].ts
  <1> DEFINE bar == agg.current
             same == {i \in DOMAIN agg.bars : agg.bars[i].ts = bar.ts}
             k == Max(same)
             n == Len(agg.bars)
  <1>1. /\ agg \in Aggregate /\ bar \in MinuteBar /\ agg.bars \in Seq(MinuteBar) /\ agg.num \in Nat
        /\ agg.den \in Nat /\ agg.high \in Nat /\ agg.seededTs \in Int
    BY DEF MinuteInv, MinuteTyped, Aggregate
  <1>2. /\ bar.ts \in Nat /\ bar.volume \in Nat /\ bar.ts \in DOMAIN market /\ agg.seededTs <= bar.ts
        /\ bar.high <= agg.high /\ (bar.ts \notin gap => bar = market[bar.ts])
    BY <1>1 DEF MinuteInv, MinutePlaces, MinuteBar
  <1>3. /\ n \in Nat /\ DOMAIN agg.bars = 1 .. n /\ \A i \in 1 .. n : agg.bars[i] \in MinuteBar
        /\ Volumes(agg.bars) \in Nat
    BY <1>1, VolumesOf
  <1>4. \A i \in 1 .. n : agg.bars[i].ts \in Nat /\ agg.bars[i].volume \in Nat /\ agg.bars[i].close \in Nat
    BY <1>3 DEF MinuteBar
  <1>5. \A i \in 1 .. n :
          /\ agg.bars[i].ts \in DOMAIN market
          /\ agg.bars[i].ts = agg.seededTs \/ agg.bars[i].ts < bar.ts
          /\ agg.bars[i].high <= agg.high
          /\ agg.bars[i].ts \notin gap => agg.bars[i] = market[agg.bars[i].ts]
    BY <1>3 DEF MinuteInv, MinutePlaces, MinutesTrue, Closed, Horizon
  <1>6. \A i, j \in 1 .. n : i < j => agg.bars[i].ts < agg.bars[j].ts
    BY <1>3 DEF MinuteInv, MinutePlaces
  <1>7. agg.den = Volumes(agg.bars) + bar.volume
    BY DEF MinuteInv, VwapIsBars, AndCurrent, Closed
  <1>8. CASE bar.ts = agg.seededTs /\ same # {}
    <2>1. k \in 1 .. n /\ agg.bars[k].ts = bar.ts
      <3>1. same \in SUBSET Nat /\ \A i \in same : i <= n
        BY <1>3
      <3>2. k \in same
        <4> HIDE DEF same
        <4> QED  BY <1>3, <1>8, <3>1, MaxOf
      <3> QED  BY <1>3, <3>2
    <2> HIDE DEF k
    <2> DEFINE bars == [agg.bars EXCEPT ![k] = bar]
               less == Max({0, agg.num - agg.bars[k].close * agg.bars[k].volume})
               den == Max({0, agg.den - agg.bars[k].volume})
    <2>2. stored = [agg EXCEPT !.bars[k] = bar, !.seededTs = -1, !.num = less, !.den = den]
      BY <1>8 DEF Stored, Unseeded, k
    <2>3. /\ bars \in Seq(MinuteBar) /\ Len(bars) = n
          /\ \A i \in 1 .. n : bars[i] = IF i = k THEN bar ELSE agg.bars[i]
          /\ Volumes(bars) = Volumes(agg.bars) - agg.bars[k].volume + bar.volume
          /\ Volumes(agg.bars) >= agg.bars[k].volume
      BY <1>1, <2>1, VolumesReplaced
    <2>4. /\ stored.current = bar /\ stored.high = agg.high /\ stored.seededTs = -1
          /\ stored.bars = bars /\ stored.num = less /\ stored.den = den
          /\ stored = [current |-> bar, bars |-> bars, seededTs |-> -1, num |-> less, den |-> den, high |-> agg.high]
      <3> HIDE DEF less, den
      <3> QED  BY <1>1, <2>2 DEF Aggregate
    <2>5. less \in Nat
      <3>1. agg.bars[k].close * agg.bars[k].volume \in Int
        BY <1>4, <2>1
      <3> DEFINE p == agg.bars[k].close * agg.bars[k].volume
      <3>2. Max({0, agg.num - p}) = IF 0 >= agg.num - p THEN 0 ELSE agg.num - p
        <4> HIDE DEF p
        <4> QED  BY <1>1, <3>1, MaxOfTwo DEF p
      <3> HIDE DEF p
      <3>3. p \in Int
        BY <3>1 DEF p
      <3>4. Max({0, agg.num - p}) \in Nat
        BY <1>1, <3>2, <3>3
      <3> QED  BY <3>4 DEF p
    <2>6. den = Volumes(bars) /\ den \in Nat
      <3>1. agg.bars[k].volume \in Nat /\ agg.den - agg.bars[k].volume \in Nat
        BY <1>2, <1>3, <1>4, <1>7, <2>1, <2>3
      <3>2. den = IF 0 >= agg.den - agg.bars[k].volume THEN 0 ELSE agg.den - agg.bars[k].volume
        BY <3>1, MaxOfTwo
      <3> HIDE DEF bars
      <3> QED  BY <1>2, <1>3, <1>7, <2>3, <3>1, <3>2
    <2>7. stored \in Aggregate
      <3> HIDE DEF less, den, bars
      <3> QED  BY <1>1, <2>3, <2>4, <2>5, <2>6 DEF Aggregate
    <2>8. DOMAIN bars = 1 .. n
      BY <2>3, LenProperties
    <2> HIDE DEF bars, den, less
    <2>9. \A i \in 1 .. n :
            /\ bars[i].ts \in DOMAIN market /\ bars[i].ts <= bar.ts /\ bars[i].high <= agg.high
            /\ bars[i].ts \notin gap => bars[i] = market[bars[i].ts]
      <3> TAKE i \in 1 .. n
      <3>1. CASE i = k
        BY <1>2, <2>3, <3>1
      <3>2. CASE i # k
        <4>1. bars[i] = agg.bars[i]
          BY <2>3, <3>2
        <4>2. agg.bars[i].ts \in Nat /\ (agg.bars[i].ts = bar.ts \/ agg.bars[i].ts < bar.ts)
          BY <1>4, <1>5, <1>8
        <4>3. agg.bars[i].ts <= bar.ts
          BY <1>2, <4>2
        <4> QED  BY <1>5, <4>1, <4>3
      <3> QED  BY <3>1, <3>2
    <2>10. \A i \in 1 .. n : bars[i].ts = agg.bars[i].ts
      BY <2>1, <2>3
    <2> QED  BY <1>6, <2>4, <2>6, <2>7, <2>8, <2>9, <2>10
  <1>9. CASE ~(bar.ts = agg.seededTs /\ same # {})
    <2> DEFINE bars == Append(agg.bars, bar)
    <2>1. stored = [agg EXCEPT !.bars = bars]
      BY <1>9 DEF Stored
    <2>2. /\ bars \in Seq(MinuteBar) /\ Len(bars) = n + 1 /\ bars[n + 1] = bar
          /\ \A i \in 1 .. n : bars[i] = agg.bars[i]
          /\ Volumes(bars) = Volumes(agg.bars) + bar.volume
      BY <1>1, AppendProperties, VolumesAppended
    <2>3. stored = [current |-> bar, bars |-> bars, seededTs |-> agg.seededTs, num |-> agg.num,
                    den |-> agg.den, high |-> agg.high]
      BY <1>1, <2>1 DEF Aggregate
    <2>4. DOMAIN bars = 1 .. n + 1
      BY <2>2, LenProperties
    <2>5. \A i \in 1 .. n : agg.bars[i].ts < bar.ts
      <3>1. ASSUME NEW i \in 1 .. n, agg.bars[i].ts = agg.seededTs PROVE agg.bars[i].ts # bar.ts
        <4>1. agg.bars[i].ts = bar.ts => i \in same
          BY <1>3
        <4> QED  BY <1>9, <3>1, <4>1
      <3> QED  BY <1>1, <1>2, <1>4, <1>5, <3>1
    <2> HIDE DEF bars
    <2>6. stored \in Aggregate
      BY <1>1, <2>2, <2>3 DEF Aggregate
    <2>7. \A i \in 1 .. n + 1 : i = n + 1 \/ i \in 1 .. n
      BY <1>3
    <2>8. \A i \in 1 .. n + 1 :
            /\ bars[i].ts \in DOMAIN market /\ bars[i].ts <= bar.ts /\ bars[i].high <= agg.high
            /\ bars[i].ts \notin gap => bars[i] = market[bars[i].ts]
      <3> TAKE i \in 1 .. n + 1
      <3>1. CASE i = n + 1
        BY <1>2, <2>2, <3>1
      <3>2. CASE i \in 1 .. n
        <4>1. bars[i] = agg.bars[i] /\ agg.bars[i].ts < bar.ts /\ agg.bars[i].ts \in Nat
          BY <1>4, <2>2, <2>5, <3>2
        <4> QED  BY <1>2, <1>5, <3>2, <4>1
      <3> QED  BY <2>7, <3>1, <3>2
    <2>9. \A i, j \in 1 .. n + 1 : i < j => bars[i].ts < bars[j].ts
      <3> TAKE i, j \in 1 .. n + 1
      <3> HAVE i < j
      <3>1. i \in 1 .. n
        BY <1>3
      <3> QED  BY <1>6, <2>2, <2>5, <2>7, <3>1
    <2> QED  BY <1>7, <2>2, <2>3, <2>4, <2>6, <2>8, <2>9
  <1> QED  BY <1>8, <1>9

Made(price, volume) ==
    IF minute \in DOMAIN market
    THEN [market EXCEPT ![minute] = Joined(@, price, volume)]
    ELSE [t \in DOMAIN market \cup {minute} |->
            IF t = minute THEN MinuteOfTen(minute, price, volume) ELSE market[t]]

LEMMA MarketMakes ==
    ASSUME MinuteInv, NEW price \in Nat, NEW volume \in Nat
    PROVE  /\ DOMAIN Made(price, volume) = DOMAIN market \cup {minute}
           /\ \A t \in DOMAIN market : t # minute => Made(price, volume)[t] = market[t]
           /\ minute \in DOMAIN market => Made(price, volume)[minute] = Joined(market[minute], price, volume)
           /\ minute \notin DOMAIN market => Made(price, volume)[minute] = MinuteOfTen(minute, price, volume)
           /\ \A t \in DOMAIN Made(price, volume) : Made(price, volume)[t] \in MinuteBar /\ Made(price, volume)[t].ts = t
           /\ DOMAIN Made(price, volume) \subseteq 0 .. minute
  <1> DEFINE made == Made(price, volume)
  <1>1. /\ minute \in Nat /\ DOMAIN market \subseteq 0 .. minute
        /\ \A t \in DOMAIN market : market[t] \in MinuteBar /\ market[t].ts = t
    BY DEF MinuteInv, MinuteTyped
  <1>2. CASE minute \in DOMAIN market
    <2>1. made = [market EXCEPT ![minute] = Joined(market[minute], price, volume)]
      BY <1>2 DEF Made
    <2>2. Joined(market[minute], price, volume) \in MinuteBar /\ Joined(market[minute], price, volume).ts = minute
      BY <1>1, <1>2, JoinedTyped
    <2>3. /\ DOMAIN made = DOMAIN market /\ made[minute] = Joined(market[minute], price, volume)
          /\ \A t \in DOMAIN market : t # minute => made[t] = market[t]
      BY <1>2, <2>1
    <2>4. DOMAIN market = DOMAIN market \cup {minute}
      BY <1>2
    <2> QED  BY <1>1, <1>2, <2>2, <2>3, <2>4
  <1>3. CASE minute \notin DOMAIN market
    <2>1. made = [t \in DOMAIN market \cup {minute} |->
                    IF t = minute THEN MinuteOfTen(minute, price, volume) ELSE market[t]]
      BY <1>3 DEF Made
    <2>2. MinuteOfTen(minute, price, volume) \in MinuteBar /\ MinuteOfTen(minute, price, volume).ts = minute
      BY <1>1, MinuteOfTenTyped
    <2>3. /\ DOMAIN made = DOMAIN market \cup {minute} /\ made[minute] = MinuteOfTen(minute, price, volume)
          /\ \A t \in DOMAIN market : t # minute => made[t] = market[t]
      BY <1>3, <2>1
    <2> QED  BY <1>1, <1>3, <2>2, <2>3
  <1> QED  BY <1>2, <1>3

\* A ten-second bar of a live engine: its minute is in progress and is the market's, if it was seen whole.
LEMMA IngestedKeeps ==
    ASSUME MinuteInv, seeding = "live", NEW price \in Nat, NEW volume \in Nat,
           NEW ingested, ingested = Ingested(agg, minute, price, volume)
    PROVE  /\ ingested \in Aggregate /\ ingested.current \in MinuteBar /\ ingested.current.ts = minute
           /\ ingested.seededTs \in -1 .. minute /\ (ingested.seededTs = minute => minute \in gap)
           /\ ingested.den = Volumes(ingested.bars) + ingested.current.volume
           /\ ingested.current.high <= ingested.high
           /\ minute \notin gap => ingested.current = Made(price, volume)[minute]
           /\ \A i \in DOMAIN ingested.bars :
                /\ ingested.bars[i].ts \in DOMAIN market
                /\ ingested.bars[i].ts = ingested.seededTs \/ ingested.bars[i].ts < minute
                /\ ingested.bars[i].ts = minute => minute \in gap
                /\ ingested.bars[i].high <= ingested.high
                /\ ingested.bars[i].ts \notin gap => ingested.bars[i] = market[ingested.bars[i].ts]
           /\ \A i, j \in DOMAIN ingested.bars : i < j => ingested.bars[i].ts < ingested.bars[j].ts
  <1> DEFINE rolls == agg.current # NoMinute /\ minute > agg.current.ts
             rolled == IF rolls THEN Stored(agg, agg.current) ELSE agg
             now == IF agg.current = NoMinute \/ minute > agg.current.ts
                    THEN MinuteOfTen(minute, price, volume) ELSE Joined(agg.current, price, volume)
             high == Max({rolled.high, price})
  <1>1. /\ minute \in Nat /\ DOMAIN market \subseteq 0 .. minute /\ agg \in Aggregate
        /\ \A t \in DOMAIN market : market[t] \in MinuteBar /\ market[t].ts = t
        /\ agg.seededTs \in -1 .. minute /\ (agg.seededTs = minute => minute \in gap)
    BY DEF MinuteInv, MinuteTyped, MinutePhases
  <1>2. /\ agg.bars \in Seq(MinuteBar) /\ agg.high \in Nat
        /\ agg.current = NoMinute \/ agg.current \in MinuteBar
    BY <1>1 DEF Aggregate
  <1>3. CASE rolls
    <2> DEFINE stored == Stored(agg, agg.current)
    <2>1. /\ stored \in Aggregate /\ stored.current = agg.current /\ stored.high = agg.high
          /\ stored.seededTs \in {agg.seededTs, -1}
          /\ stored.den = Volumes(stored.bars)
          /\ \A i \in DOMAIN stored.bars :
               /\ stored.bars[i].ts \in DOMAIN market /\ stored.bars[i].ts <= agg.current.ts
               /\ stored.bars[i].high <= agg.high
               /\ stored.bars[i].ts \notin gap => stored.bars[i] = market[stored.bars[i].ts]
          /\ \A i, j \in DOMAIN stored.bars : i < j => stored.bars[i].ts < stored.bars[j].ts
      BY <1>3, StoredKeeps
    <2>2. rolled = stored /\ now = MinuteOfTen(minute, price, volume)
      BY <1>3
    <2>3. /\ rolled \in Aggregate /\ rolled.high = agg.high /\ rolled.seededTs \in {agg.seededTs, -1}
          /\ rolled.den = Volumes(rolled.bars)
      BY <2>1, <2>2
    <2>4. /\ now \in MinuteBar /\ now.ts = minute /\ now.volume = volume
          /\ now.high <= Max({agg.high, price})
      <3> DEFINE ten == MinuteOfTen(minute, price, volume)
      <3>1. /\ ten \in MinuteBar /\ ten.ts = minute /\ ten.volume = volume
            /\ \A h \in Nat : ten.high <= Max({h, price})
        <4> HIDE DEF now
        <4> QED  BY <1>1, MinuteOfTenTyped
      <3>2. now = ten
        BY <2>2
      <3> HIDE DEF now, ten
      <3> QED  BY <1>2, <3>1, <3>2
    <2>5. minute \notin gap => now = Made(price, volume)[minute]
      <3>1. agg.current.ts # minute
        BY <1>1, <1>2, <1>3 DEF MinuteBar
      <3>2. minute \notin gap => minute \notin DOMAIN market
        BY <3>1 DEF MinuteInv, MinuteFollows
      <3> QED  BY <2>2, <3>2, MarketMakes
    <2>6. \A i \in DOMAIN rolled.bars :
            /\ rolled.bars[i].ts \in DOMAIN market /\ rolled.bars[i].ts < minute
            /\ rolled.bars[i].high <= agg.high
            /\ rolled.bars[i].ts \notin gap => rolled.bars[i] = market[rolled.bars[i].ts]
      <3> HIDE DEF stored
      <3>1. agg.current.ts \in Nat
        BY <1>2, <1>3 DEF MinuteBar
      <3>2. \A i \in DOMAIN stored.bars : stored.bars[i].ts \in Int
        BY <1>1, <2>1
      <3>3. \A i \in DOMAIN stored.bars : stored.bars[i].ts < minute
        BY <1>1, <1>3, <2>1, <3>1, <3>2
      <3> QED  BY <2>1, <2>2, <3>3
    <2>7. \A i, j \in DOMAIN rolled.bars : i < j => rolled.bars[i].ts < rolled.bars[j].ts
      BY <2>1, <2>2
    <2> HIDE DEF rolls, rolled, now, stored
    <2>8. ingested = [rolled EXCEPT !.current = now, !.high = high, !.num = @ + price * volume, !.den = @ + volume]
      BY DEF Ingested, Rolls, rolls, rolled, now
    <2>9. high = Max({agg.high, price}) /\ high \in Nat /\ agg.high <= high
      BY <1>2, <2>3, MaxOfTwo
    <2>10. /\ rolled.num \in Nat /\ rolled.den \in Nat /\ rolled.bars \in Seq(MinuteBar)
           /\ rolled.seededTs \in Int
      BY <2>3 DEF Aggregate
    <2>11. rolled.num + price * volume \in Nat /\ rolled.den + volume \in Nat
      <3>1. price * volume \in Nat
        OBVIOUS
      <3> QED  BY <2>10, <3>1
    <2> DEFINE num == rolled.num + price * volume
    <2> HIDE DEF high, num
    <2>12. ingested = [current |-> now, bars |-> rolled.bars, seededTs |-> rolled.seededTs,
                       num |-> num, den |-> rolled.den + volume, high |-> high]
      BY <2>3, <2>8 DEF Aggregate, num
    <2>13. ingested \in Aggregate
      BY <2>4, <2>9, <2>10, <2>11, <2>12 DEF Aggregate, num
    <2>14. rolled.seededTs \in -1 .. minute /\ (rolled.seededTs = minute => minute \in gap)
      BY <1>1, <2>3
    <2>15. rolled.den + volume = Volumes(rolled.bars) + now.volume
      BY <2>3, <2>4
    <2>16. /\ ingested.bars = rolled.bars /\ ingested.current = now /\ ingested.seededTs = rolled.seededTs
           /\ ingested.den = rolled.den + volume /\ ingested.high = high
      BY <2>12
    <2>17. \A i \in DOMAIN rolled.bars : rolled.bars[i].high <= high
      <3>1. \A i \in DOMAIN rolled.bars : rolled.bars[i].high \in Nat
        BY <2>10, VolumesOf DEF MinuteBar
      <3> QED  BY <1>2, <2>6, <2>9, <3>1
    <2>18. \A i \in DOMAIN rolled.bars : rolled.bars[i].ts # minute
      BY <1>1, <2>6
    <2>19. /\ ingested.current \in MinuteBar /\ ingested.current.ts = minute
           /\ ingested.seededTs \in -1 .. minute /\ (ingested.seededTs = minute => minute \in gap)
           /\ ingested.den = Volumes(ingested.bars) + ingested.current.volume
           /\ ingested.current.high <= ingested.high
           /\ minute \notin gap => ingested.current = Made(price, volume)[minute]
      BY <2>4, <2>5, <2>9, <2>14, <2>15, <2>16
    <2>20. \A i \in DOMAIN ingested.bars :
             /\ ingested.bars[i].ts \in DOMAIN market
             /\ ingested.bars[i].ts = ingested.seededTs \/ ingested.bars[i].ts < minute
             /\ ingested.bars[i].ts = minute => minute \in gap
             /\ ingested.bars[i].high <= ingested.high
             /\ ingested.bars[i].ts \notin gap => ingested.bars[i] = market[ingested.bars[i].ts]
      BY <2>6, <2>16, <2>17, <2>18
    <2>21. \A i, j \in DOMAIN ingested.bars : i < j => ingested.bars[i].ts < ingested.bars[j].ts
      BY <2>7, <2>16
    <2> QED  BY <2>13, <2>19, <2>20, <2>21
  <1>4. CASE ~rolls
    <2>1. rolled = agg
      BY <1>4
    <2>2. /\ \A i \in DOMAIN agg.bars :
               /\ agg.bars[i].ts \in DOMAIN market
               /\ agg.bars[i].ts = agg.seededTs \/ agg.bars[i].ts < Horizon
               /\ agg.bars[i].high <= agg.high
               /\ agg.bars[i].ts \notin gap => agg.bars[i] = market[agg.bars[i].ts]
          /\ \A i, j \in DOMAIN agg.bars : i < j => agg.bars[i].ts < agg.bars[j].ts
          /\ agg.den = Volumes(agg.bars) + agg.current.volume
      BY DEF MinuteInv, MinutePlaces, MinutesTrue, VwapIsBars, AndCurrent, Closed
    <2>3. Horizon = minute
      <3>1. CASE agg.current = NoMinute
        BY <3>1 DEF Horizon
      <3>2. CASE agg.current # NoMinute
        <4>1. agg.current.ts \in DOMAIN market /\ ~(minute > agg.current.ts)
          BY <1>4, <3>2 DEF MinuteInv, MinutePlaces
        <4>2. agg.current.ts = minute
          BY <1>1, <4>1
        <4> QED  BY <3>2, <4>2 DEF Horizon
      <3> QED  BY <3>1, <3>2
    <2>4. Volumes(agg.bars) \in Nat
      BY <1>2, VolumesOf
    <2>5. /\ now \in MinuteBar /\ now.ts = minute /\ now.high <= Max({agg.high, price})
          /\ now.volume = agg.current.volume + volume /\ agg.current.volume \in Nat
          /\ minute \notin gap => now = Made(price, volume)[minute]
      <3>1. CASE agg.current = NoMinute
        <4>1. now = MinuteOfTen(minute, price, volume)
          BY <3>1
        <4>2. agg.current.volume = 0
          BY <3>1 DEF NoMinute
        <4>3. minute \notin gap => minute \notin DOMAIN market
          BY <3>1 DEF MinuteInv, MinuteFollows
        <4>4. minute \notin gap => now = Made(price, volume)[minute]
          BY <4>1, <4>3, MarketMakes
        <4>5. /\ now \in MinuteBar /\ now.ts = minute /\ now.volume = volume
              /\ now.high <= Max({agg.high, price})
          <5> DEFINE ten == MinuteOfTen(minute, price, volume)
          <5>1. /\ ten \in MinuteBar /\ ten.ts = minute /\ ten.volume = volume
                /\ \A h \in Nat : ten.high <= Max({h, price})
            <6> HIDE DEF now
            <6> QED  BY <1>1, MinuteOfTenTyped
          <5>2. now = ten
            BY <4>1
          <5> HIDE DEF now, ten
          <5> QED  BY <1>2, <5>1, <5>2
        <4> HIDE DEF now
        <4> QED  BY <4>2, <4>4, <4>5
      <3>2. CASE agg.current # NoMinute
        <4>1. /\ agg.current.ts = minute /\ agg.current \in MinuteBar /\ minute \in DOMAIN market
              /\ agg.current.high <= agg.high /\ (minute \notin gap => agg.current = market[minute])
          BY <1>2, <2>3, <3>2 DEF MinuteInv, MinutePlaces, Horizon
        <4>2. now = Joined(agg.current, price, volume)
          BY <1>1, <3>2, <4>1
        <4>3. minute \notin gap => now = Made(price, volume)[minute]
          BY <4>1, <4>2, MarketMakes
        <4>4. /\ now \in MinuteBar /\ now.ts = minute /\ now.volume = agg.current.volume + volume
              /\ now.high <= Max({agg.high, price})
          <5> HIDE DEF now
          <5> QED  BY <1>2, <4>1, <4>2, JoinedTyped
        <4>5. agg.current.volume \in Nat
          BY <4>1 DEF MinuteBar
        <4> HIDE DEF now
        <4> QED  BY <4>3, <4>4, <4>5
      <3> QED  BY <3>1, <3>2
    <2> HIDE DEF rolls, rolled, now
    <2>6. ingested = [agg EXCEPT !.current = now, !.high = high, !.num = @ + price * volume, !.den = @ + volume]
      BY <2>1 DEF Ingested, Rolls, rolls, rolled, now
    <2>7. high = Max({agg.high, price}) /\ high \in Nat /\ agg.high <= high
      BY <1>2, <2>1, MaxOfTwo
    <2>8. agg.num \in Nat /\ agg.den \in Nat /\ agg.seededTs \in Int
      BY <1>1 DEF Aggregate
    <2>9. agg.num + price * volume \in Nat /\ agg.den + volume \in Nat
      <3>1. price * volume \in Nat
        OBVIOUS
      <3> QED  BY <2>8, <3>1
    <2> DEFINE num == agg.num + price * volume
    <2> HIDE DEF high, num
    <2>10. ingested = [current |-> now, bars |-> agg.bars, seededTs |-> agg.seededTs,
                       num |-> num, den |-> agg.den + volume, high |-> high]
      BY <1>1, <2>6 DEF Aggregate, num
    <2>11. ingested \in Aggregate
      BY <1>2, <2>5, <2>7, <2>8, <2>9, <2>10 DEF Aggregate, num
    <2>12. agg.den + volume = Volumes(agg.bars) + now.volume
      BY <2>2, <2>4, <2>5
    <2>13. /\ ingested.bars = agg.bars /\ ingested.current = now /\ ingested.seededTs = agg.seededTs
           /\ ingested.den = agg.den + volume /\ ingested.high = high
      BY <2>10
    <2>14. \A i \in DOMAIN agg.bars : agg.bars[i].high <= high
      <3>1. \A i \in DOMAIN agg.bars : agg.bars[i].high \in Nat
        BY <1>2, VolumesOf DEF MinuteBar
      <3> QED  BY <1>2, <2>2, <2>7, <3>1
    <2>15. \A i \in DOMAIN agg.bars :
             /\ agg.bars[i].ts = agg.seededTs \/ agg.bars[i].ts < minute
             /\ agg.bars[i].ts = minute => minute \in gap
      <3>1. \A i \in DOMAIN agg.bars : agg.bars[i].ts \in Int
        BY <1>1, <2>2
      <3> QED  BY <1>1, <2>2, <2>3, <3>1
    <2>16. \A i \in DOMAIN ingested.bars :
             /\ ingested.bars[i].ts \in DOMAIN market
             /\ ingested.bars[i].ts = ingested.seededTs \/ ingested.bars[i].ts < minute
             /\ ingested.bars[i].ts = minute => minute \in gap
             /\ ingested.bars[i].high <= ingested.high
             /\ ingested.bars[i].ts \notin gap => ingested.bars[i] = market[ingested.bars[i].ts]
      BY <2>2, <2>13, <2>14, <2>15
    <2>17. \A i, j \in DOMAIN ingested.bars : i < j => ingested.bars[i].ts < ingested.bars[j].ts
      BY <2>2, <2>13
    <2>18. /\ ingested.current \in MinuteBar /\ ingested.current.ts = minute
           /\ ingested.seededTs \in -1 .. minute /\ (ingested.seededTs = minute => minute \in gap)
           /\ ingested.den = Volumes(ingested.bars) + ingested.current.volume
           /\ ingested.current.high <= ingested.high
           /\ minute \notin gap => ingested.current = Made(price, volume)[minute]
      BY <1>1, <2>5, <2>7, <2>12, <2>13
    <2> QED  BY <2>11, <2>16, <2>17, <2>18
  <1> QED  BY <1>3, <1>4

-----------------------------------------------------------------------------
(* The steps.                                                              *)

LEMMA TenBarKeeps ==
    ASSUME MinuteInv, TenBar, MinuteAssumption
    PROVE  MinuteInv'
  <1>1. PICK price \in MinutePrices, volume \in MinuteVolumes :
          /\ tens' = tens + 1 /\ market' = Made(price, volume)
          /\ agg' = IF seeding = "live" THEN Ingested(agg, minute, price, volume) ELSE agg
          /\ UNCHANGED <<minute, seeding, gap>>
    BY DEF TenBar, Made
  <1>2. price \in Nat /\ volume \in Nat
    BY DEF MinuteAssumption
  <1>3. /\ DOMAIN market' = DOMAIN market \cup {minute}
        /\ \A t \in DOMAIN market : t # minute => market'[t] = market[t]
        /\ \A t \in DOMAIN market' : market'[t] \in MinuteBar /\ market'[t].ts = t
        /\ DOMAIN market' \subseteq 0 .. minute
    <2>1. /\ DOMAIN Made(price, volume) = DOMAIN market \cup {minute}
          /\ \A t \in DOMAIN market : t # minute => Made(price, volume)[t] = market[t]
          /\ \A t \in DOMAIN Made(price, volume) :
               Made(price, volume)[t] \in MinuteBar /\ Made(price, volume)[t].ts = t
          /\ DOMAIN Made(price, volume) \subseteq 0 .. minute
      BY <1>2, MarketMakes
    <2> QED  BY <1>1, <2>1, Zenon
  <1>4. /\ minute \in Nat /\ tens \in Nat /\ gap \subseteq Nat
        /\ seeding \in {"none", "reset", "done", "live"}
        /\ agg \in Aggregate /\ agg.seededTs \in -1 .. minute /\ DOMAIN market \subseteq 0 .. minute
        /\ (agg.seededTs = minute => minute \in gap)
    BY DEF MinuteInv, MinuteTyped, MinutePhases
  <1>5. CASE seeding = "live"
    <2>1. agg' = Ingested(agg, minute, price, volume)
      BY <1>1, <1>5
    <2> DEFINE ingested == Ingested(agg, minute, price, volume)
    <2>2. /\ agg' \in Aggregate /\ agg.current' \in MinuteBar /\ agg.current'.ts = minute
          /\ agg.seededTs' \in -1 .. minute /\ (agg.seededTs' = minute => minute \in gap)
          /\ agg.den' = Volumes(agg.bars') + agg.current'.volume
          /\ agg.current'.high <= agg.high'
          /\ minute \notin gap => agg.current' = market'[minute]
          /\ \A i \in DOMAIN agg.bars' :
               /\ agg.bars'[i].ts \in DOMAIN market
               /\ agg.bars'[i].ts = agg.seededTs' \/ agg.bars'[i].ts < minute
               /\ agg.bars'[i].ts = minute => minute \in gap
               /\ agg.bars'[i].high <= agg.high'
               /\ agg.bars'[i].ts \notin gap => agg.bars'[i] = market[agg.bars'[i].ts]
          /\ \A i, j \in DOMAIN agg.bars' : i < j => agg.bars'[i].ts < agg.bars'[j].ts
      <3>1. /\ ingested \in Aggregate /\ ingested.current \in MinuteBar /\ ingested.current.ts = minute
            /\ ingested.seededTs \in -1 .. minute /\ (ingested.seededTs = minute => minute \in gap)
            /\ ingested.den = Volumes(ingested.bars) + ingested.current.volume
            /\ ingested.current.high <= ingested.high
            /\ minute \notin gap => ingested.current = Made(price, volume)[minute]
            /\ \A i \in DOMAIN ingested.bars :
                 /\ ingested.bars[i].ts \in DOMAIN market
                 /\ ingested.bars[i].ts = ingested.seededTs \/ ingested.bars[i].ts < minute
                 /\ ingested.bars[i].ts = minute => minute \in gap
                 /\ ingested.bars[i].high <= ingested.high
                 /\ ingested.bars[i].ts \notin gap => ingested.bars[i] = market[ingested.bars[i].ts]
            /\ \A i, j \in DOMAIN ingested.bars : i < j => ingested.bars[i].ts < ingested.bars[j].ts
        <4>1. ingested = Ingested(agg, minute, price, volume)
          OBVIOUS
        <4> HIDE DEF ingested
        <4> QED  BY <1>2, <1>5, <4>1, IngestedKeeps
      <3>2. agg' = ingested
        BY <2>1
      <3> HIDE DEF ingested
      <3> QED  BY <1>1, <3>1, <3>2
    <2>3. agg.current' # NoMinute
      BY <2>2, NoMinuteApart
    <2>4. MinuteTyped'
      BY <1>1, <1>3, <1>4, <2>2 DEF MinuteTyped
    <2>5. MinutePhases'
      BY <1>1, <1>5, <2>2 DEF MinutePhases
    <2>6. /\ agg.current'.ts \in DOMAIN market' /\ agg.seededTs' <= agg.current'.ts
          /\ agg.current'.ts \notin gap => agg.current' = market'[agg.current'.ts]
      BY <1>3, <1>4, <2>2
    <2>7. MinutePlaces'
      BY <1>1, <1>3, <2>2, <2>3, <2>6 DEF MinutePlaces, Horizon
    <2>8. MinuteFollows'
      BY <1>1, <2>2, <2>3 DEF MinuteFollows
    <2>9. \A i \in DOMAIN agg.bars' :
            agg.bars'[i].ts \notin gap => agg.bars'[i] = market'[agg.bars'[i].ts]
      BY <1>3, <2>2
    <2>10. MinutesTrue'
      BY <1>1, <2>2, <2>9 DEF MinutesTrue, Closed
    <2>11. VwapIsBars'
      BY <2>2 DEF VwapIsBars, AndCurrent, Closed
    <2> QED  BY <2>4, <2>5, <2>7, <2>8, <2>10, <2>11 DEF MinuteInv
  <1>6. CASE seeding # "live"
    <2>1. agg' = agg /\ agg.current = NoMinute
      BY <1>1, <1>6 DEF MinuteInv, MinutePhases
    <2>2. MinuteTyped'
      BY <1>1, <1>3, <1>4, <2>1 DEF MinuteTyped
    <2>3. MinutePhases'
      BY <1>1, <2>1 DEF MinuteInv, MinutePhases
    <2>4. MinutePlaces'
      BY <1>1, <1>3, <2>1 DEF MinuteInv, MinutePlaces, Horizon
    <2>5. MinuteFollows'
      BY <1>1, <1>6 DEF MinuteFollows
    <2>6. \A i \in DOMAIN agg.bars : agg.bars[i].ts \notin gap => market'[agg.bars[i].ts] = market[agg.bars[i].ts]
      <3>1. \A i \in DOMAIN agg.bars :
              agg.bars[i].ts \in DOMAIN market /\ (agg.bars[i].ts = agg.seededTs \/ agg.bars[i].ts < minute)
        BY <2>1 DEF MinuteInv, MinutePlaces, Horizon
      <3>2. \A i \in DOMAIN agg.bars : agg.bars[i].ts = minute => minute \in gap
        BY <1>4, <3>1
      <3> QED  BY <1>3, <3>1, <3>2
    <2>7. MinutesTrue'
      BY <1>1, <2>1, <2>6 DEF MinuteInv, MinutesTrue, Closed
    <2>8. VwapIsBars'
      BY <2>1 DEF MinuteInv, VwapIsBars, AndCurrent, Closed
    <2> QED  BY <2>2, <2>3, <2>4, <2>5, <2>7, <2>8 DEF MinuteInv
  <1> QED  BY <1>5, <1>6

LEMMA NextMinuteKeeps ==
    ASSUME MinuteInv, NextMinute
    PROVE  MinuteInv'
  <1>1. /\ minute' = minute + 1 /\ gap \subseteq gap' /\ gap' \subseteq gap \cup {minute'}
        /\ UNCHANGED <<market, tens, agg, seeding>>
    BY DEF NextMinute
  <1>2. /\ minute \in Nat /\ gap \subseteq Nat /\ DOMAIN market \subseteq 0 .. minute
        /\ agg.seededTs \in -1 .. minute
    BY DEF MinuteInv, MinuteTyped
  <1>3. minute' \in Nat /\ gap' \subseteq Nat /\ DOMAIN market \subseteq 0 .. minute'
    BY <1>1, <1>2
  <1>4. agg.seededTs \in -1 .. minute'
    BY <1>1, <1>2
  <1>5. MinuteTyped'
    BY <1>1, <1>3, <1>4 DEF MinuteInv, MinuteTyped
  <1>6. agg.seededTs # minute' /\ minute' \notin DOMAIN market
    BY <1>1, <1>2
  <1>7. MinutePhases'
    BY <1>1, <1>6 DEF MinuteInv, MinutePhases
  <1>8. \A i \in DOMAIN agg.bars : agg.bars[i].ts \in Nat
    BY <1>2 DEF MinuteInv, MinutePlaces
  <1>9. \A i \in DOMAIN agg.bars :
          agg.bars[i].ts = agg.seededTs \/ agg.bars[i].ts < (IF agg.current = NoMinute THEN minute + 1 ELSE agg.current.ts)
    BY <1>2, <1>8 DEF MinuteInv, MinutePlaces, Horizon
  <1>10. MinutePlaces'
    BY <1>1, <1>9 DEF MinuteInv, MinutePlaces, Horizon
  <1>11. MinuteFollows'
    BY <1>1, <1>6 DEF MinuteFollows
  <1>12. MinutesTrue' /\ VwapIsBars'
    BY <1>1 DEF MinuteInv, MinutesTrue, VwapIsBars, AndCurrent, Closed
  <1> QED  BY <1>5, <1>7, <1>10, <1>11, <1>12 DEF MinuteInv

LEMMA ResetKeeps ==
    ASSUME MinuteInv, ResetLevels
    PROVE  MinuteInv'
  <1>1. /\ seeding = "none" /\ seeding' = "reset" /\ UNCHANGED <<market, minute, tens, gap>>
        /\ agg' = [agg EXCEPT !.high = 0, !.seededTs = -1]
    BY DEF ResetLevels, Unseeded
  <1>2. /\ agg \in Aggregate /\ agg.bars = <<>> /\ agg.num = 0 /\ agg.den = 0 /\ agg.current = NoMinute
        /\ minute \in Nat
    BY <1>1 DEF MinuteInv, MinuteTyped, MinutePhases
  <1>3. agg' = [current |-> NoMinute, bars |-> <<>>, seededTs |-> -1, num |-> 0, den |-> 0, high |-> 0]
    BY <1>1, <1>2 DEF Aggregate
  <1>4. agg' \in Aggregate
    BY <1>3, EmptySeq DEF Aggregate
  <1>5. MinuteTyped'
    BY <1>1, <1>2, <1>3, <1>4 DEF MinuteInv, MinuteTyped
  <1>6. MinutePhases'
    BY <1>1, <1>2, <1>3 DEF MinutePhases
  <1>7. DOMAIN agg'.bars = {}
    BY <1>3
  <1>8. MinutePlaces' /\ MinuteFollows'
    <2>1. agg.current' = NoMinute /\ DOMAIN agg.bars' = {}
      BY <1>3, <1>7
    <2>2. MinutePlaces'
      BY <2>1, Zenon DEF MinutePlaces
    <2> QED  BY <1>1, <2>2 DEF MinuteFollows
  <1>9. MinutesTrue'
    BY <1>7 DEF MinutesTrue, Closed
  <1>10. VwapIsBars'
    BY <1>3, VolumesOfNone DEF VwapIsBars, AndCurrent, Closed, NoMinute
  <1> QED  BY <1>5, <1>6, <1>8, <1>9, <1>10 DEF MinuteInv

LEMMA SubscribeKeeps ==
    ASSUME MinuteInv, SubscribeLive
    PROVE  MinuteInv'
  <1>1. /\ seeding' = "live" /\ gap' = gap \cup {minute} /\ UNCHANGED <<market, minute, tens, agg>>
    BY DEF SubscribeLive
  <1>2. minute \in Nat /\ gap \subseteq Nat
    BY DEF MinuteInv, MinuteTyped
  <1>3. gap' \subseteq Nat
    BY <1>1, <1>2
  <1>4. MinuteTyped'
    BY <1>1, <1>3 DEF MinuteInv, MinuteTyped
  <1>5. MinutePhases' /\ MinuteFollows'
    BY <1>1 DEF MinutePhases, MinuteFollows
  <1>6. MinutePlaces'
    BY <1>1 DEF MinuteInv, MinutePlaces, Horizon
  <1>7. MinutesTrue' /\ VwapIsBars'
    BY <1>1 DEF MinuteInv, MinutesTrue, VwapIsBars, AndCurrent, Closed
  <1> QED  BY <1>4, <1>5, <1>6, <1>7 DEF MinuteInv

LEMMA SeedKeeps ==
    ASSUME MinuteInv, Seed
    PROVE  MinuteInv'
  <1>1. seeding = "reset" /\ seeding' = "done" /\ gap' = {minute} /\ UNCHANGED <<market, minute, tens>>
    BY DEF Seed
  <1>2. /\ minute \in Nat /\ tens \in Nat /\ agg \in Aggregate /\ agg.seededTs \in -1 .. minute
        /\ DOMAIN market \subseteq 0 .. minute
        /\ \A t \in DOMAIN market : market[t] \in MinuteBar /\ market[t].ts = t
        /\ agg.bars = <<>> /\ agg.num = 0 /\ agg.den = 0 /\ agg.current = NoMinute
    BY <1>1 DEF MinuteInv, MinuteTyped, MinutePhases
  <1>3. gap' \subseteq Nat /\ minute \in gap'
    BY <1>1, <1>2
  <1>4. MinuteFollows'
    BY <1>1 DEF MinuteFollows
  <1>5. CASE agg' = agg
    <2>1. MinuteTyped'
      BY <1>1, <1>2, <1>3, <1>5 DEF MinuteTyped
    <2>2. MinutePhases'
      BY <1>1, <1>2, <1>3, <1>5 DEF MinutePhases
    <2>3. DOMAIN agg.bars = {}
      BY <1>2
    <2>4. MinutePlaces'
      BY <1>2, <1>5, <2>3, Zenon DEF MinutePlaces
    <2>5. MinutesTrue'
      BY <1>5, <2>3 DEF MinutesTrue, Closed
    <2>6. VwapIsBars'
      BY <1>5 DEF MinuteInv, VwapIsBars, AndCurrent, Closed
    <2> QED  BY <1>4, <2>1, <2>2, <2>4, <2>5, <2>6 DEF MinuteInv
  <1>6. CASE agg' # agg
    <2>1. PICK minutes \in Histories \ {{}} : \E at \in Sorted(minutes) :
            LET bars == agg.bars \o [i \in DOMAIN at |-> market[at[i]]]
            IN agg' = [agg EXCEPT !.bars = bars, !.seededTs = SeededTs(at), !.num = Worth(bars),
                                  !.den = Volumes(bars), !.high = Max({bars[i].high : i \in DOMAIN bars})]
      BY <1>6 DEF Seed
    <2> DEFINE n == Cardinality(minutes)
    <2>2. PICK at \in Sorted(minutes) :
            LET bars == agg.bars \o [i \in DOMAIN at |-> market[at[i]]]
            IN agg' = [agg EXCEPT !.bars = bars, !.seededTs = SeededTs(at), !.num = Worth(bars),
                                  !.den = Volumes(bars), !.high = Max({bars[i].high : i \in DOMAIN bars})]
      BY <2>1
    <2>3. /\ minutes \subseteq DOMAIN market /\ minutes # {} /\ minutes \subseteq 0 .. minute
          /\ \A t \in minutes : market[t] \in MinuteBar /\ market[t].ts = t
      BY <1>2, <2>1 DEF Histories
    <2>4. n \in Nat /\ n # 0
      <3>1. IsFiniteSet(0 .. minute)
        BY <1>2, FS_Interval
      <3>2. IsFiniteSet(minutes)
        BY <2>3, <3>1, FS_Subset
      <3> QED  BY <2>3, <3>2, FS_CardinalityType, FS_EmptySet
    <2> HIDE DEF n
    <2>5. at \in [1 .. n -> minutes] /\ \A i, j \in 1 .. n : i < j => at[i] < at[j]
      BY <2>2 DEF Sorted, n
    <2>6. /\ at \in Seq(minutes) /\ Len(at) = n /\ DOMAIN at = 1 .. n
          /\ \A i \in 1 .. n : at[i] \in minutes /\ at[i] \in 0 .. minute
      <3>1. at \in Seq(minutes)
        BY <2>4, <2>5, SeqDef
      <3> QED  BY <2>3, <2>4, <2>5, <3>1, LenProperties
    <2> DEFINE bars == [i \in DOMAIN at |-> market[at[i]]]
               high == Max({bars[i].high : i \in DOMAIN bars})
    <2>7. /\ bars \in Seq(MinuteBar) /\ Len(bars) = n /\ DOMAIN bars = 1 .. n
          /\ \A i \in 1 .. n : bars[i] = market[at[i]] /\ bars[i].ts = at[i] /\ bars[i] \in MinuteBar
      <3>1. bars \in [1 .. n -> MinuteBar]
        BY <2>3, <2>6
      <3>2. bars \in Seq(MinuteBar)
        BY <2>4, <3>1, SeqDef
      <3> QED  BY <2>3, <2>4, <2>6, <3>1, <3>2, LenProperties
    <2> HIDE DEF bars, high
    <2>8. agg.bars \o bars = bars
      BY <1>2, <2>7, ConcatEmptySeq
    <2>9. agg' = [agg EXCEPT !.bars = bars, !.seededTs = at[n], !.num = Worth(bars), !.den = Volumes(bars), !.high = high]
      <3> DEFINE all == agg.bars \o bars
      <3>1. agg' = [agg EXCEPT !.bars = all, !.seededTs = SeededTs(at), !.num = Worth(all),
                               !.den = Volumes(all), !.high = Max({all[i].high : i \in DOMAIN all})]
        BY <2>2 DEF bars
      <3>2. all = bars
        BY <2>8
      <3>3. SeededTs(at) = at[n]
        BY <2>6 DEF SeededTs
      <3> HIDE DEF all
      <3>4. agg' = [agg EXCEPT !.bars = bars, !.seededTs = at[n], !.num = Worth(bars),
                               !.den = Volumes(bars), !.high = Max({bars[i].high : i \in DOMAIN bars})]
        BY <3>1, <3>2, <3>3
      <3> QED  BY <3>4 DEF high
    <2>10. high \in Nat /\ \A i \in 1 .. n : bars[i].high <= high
      <3>1. \A i \in 1 .. n : bars[i].high \in Nat
        BY <2>7 DEF MinuteBar
      <3> DEFINE highs == [i \in 1 .. n |-> bars[i].high]
      <3>2. (\A i \in 1 .. n : highs[i] \in Nat) /\ {bars[i].high : i \in DOMAIN bars} = {highs[i] : i \in 1 .. n}
        BY <2>7, <3>1
      <3>3. \A i \in 1 .. n : highs[i] = bars[i].high
        OBVIOUS
      <3> HIDE DEF highs
      <3>4. /\ Max({highs[i] : i \in 1 .. n}) \in Nat
            /\ \A i \in 1 .. n : highs[i] <= Max({highs[j] : j \in 1 .. n})
        BY <2>4, <3>2, MaxOfMany
      <3>5. high = Max({highs[i] : i \in 1 .. n})
        BY <3>2 DEF high
      <3> QED  BY <3>3, <3>4, <3>5
    <2>11. Volumes(bars) \in Nat /\ Worth(bars) \in Nat
      BY <2>7, VolumesOf
    <2>12. n \in 1 .. n /\ at[n] \in 0 .. minute
      BY <2>4, <2>6
    <2> DEFINE worth == Worth(bars)
               volumes == Volumes(bars)
               last == at[n]
    <2> HIDE DEF worth, volumes, last
    <2>13. agg' = [current |-> NoMinute, bars |-> bars, seededTs |-> last, num |-> worth, den |-> volumes, high |-> high]
      BY <1>2, <2>9 DEF Aggregate, worth, volumes, last
    <2>14. worth \in Nat /\ volumes \in Nat /\ last \in Int /\ last \in -1 .. minute
      BY <1>2, <2>11, <2>12 DEF worth, volumes, last
    <2>15. agg' \in Aggregate
      BY <2>7, <2>10, <2>13, <2>14 DEF Aggregate
    <2>16. /\ agg.current' = NoMinute /\ agg.bars' = bars /\ agg.seededTs' = last /\ agg.den' = volumes
           /\ agg.high' = high
      BY <2>13
    <2>17. MinuteTyped'
      BY <1>1, <1>2, <1>3, <2>14, <2>15, <2>16 DEF MinuteTyped
    <2>18. MinutePhases'
      BY <1>1, <1>3, <2>16 DEF MinutePhases
    <2>19. \A i \in 1 .. n :
             /\ bars[i].ts \in DOMAIN market
             /\ bars[i].ts = last \/ bars[i].ts < minute
      <3> TAKE i \in 1 .. n
      <3>1. at[i] \in DOMAIN market /\ bars[i].ts = at[i] /\ at[i] \in 0 .. minute
        BY <2>3, <2>6, <2>7
      <3>2. i = n \/ at[i] < at[n]
        BY <2>4, <2>5, <2>12
      <3>3. at[i] = last \/ at[i] < minute
        BY <1>2, <2>12, <3>1, <3>2 DEF last
      <3> QED  BY <3>1, <3>3
    <2>20. \A i, j \in 1 .. n : i < j => bars[i].ts < bars[j].ts
      BY <2>5, <2>7
    <2>21. MinutePlaces'
      BY <1>1, <2>7, <2>16, <2>19, <2>20 DEF MinutePlaces, Horizon
    <2>22. \A i \in 1 .. n : bars[i] = market[bars[i].ts]
      BY <2>7
    <2>23. MinutesTrue'
      BY <1>1, <2>7, <2>10, <2>16, <2>22 DEF MinutesTrue, Closed
    <2>24. VwapIsBars'
      <3>1. agg.den' = Volumes(agg.bars') + 0
        BY <2>11, <2>16 DEF volumes
      <3> QED  BY <2>16, <3>1 DEF VwapIsBars, AndCurrent, Closed, NoMinute
    <2> QED  BY <1>4, <2>17, <2>18, <2>21, <2>23, <2>24 DEF MinuteInv
  <1> QED  BY <1>5, <1>6

\* What is added up and shown of a seeded and then live engine is the market's
\* minutes, once each and in order.  (MinuteBarAggregator, seed_intraday_from_history.)
THEOREM MinutesHold ==
    MinuteSpec => []MinutesAddUp
  <1>1. ASSUME MinuteInit PROVE MinuteInv
    <2>1. /\ market = <<>> /\ minute = 0 /\ tens = 0 /\ seeding = "none" /\ gap = {}
          /\ agg = [current |-> NoMinute, bars |-> <<>>, seededTs |-> -1, num |-> 0, den |-> 0, high |-> 0]
      BY <1>1 DEF MinuteInit, Unseeded
    <2>2. DOMAIN market = {} /\ DOMAIN agg.bars = {} /\ agg.current = NoMinute
      BY <2>1
    <2>3. agg \in Aggregate
      BY <2>1, EmptySeq DEF Aggregate
    <2>4. MinuteTyped
      BY <2>1, <2>2, <2>3 DEF MinuteTyped
    <2>5. MinutePhases
      BY <2>1 DEF MinutePhases
    <2>6. MinutePlaces
      BY <2>2, Zenon DEF MinutePlaces
    <2>7. MinuteFollows /\ MinutesTrue
      BY <2>1, <2>2 DEF MinuteFollows, MinutesTrue, Closed
    <2>8. VwapIsBars
      BY <2>1, VolumesOfNone DEF VwapIsBars, AndCurrent, Closed, NoMinute
    <2> QED  BY <2>4, <2>5, <2>6, <2>7, <2>8 DEF MinuteInv
  <1>2. ASSUME MinuteInv, [MinuteNext]_minuteVars PROVE MinuteInv'
    <2>1. CASE TenBar
      BY <1>2, <2>1, MinuteAssumption, TenBarKeeps
    <2>2. CASE NextMinute
      BY <1>2, <2>2, NextMinuteKeeps
    <2>3. CASE ResetLevels
      BY <1>2, <2>3, ResetKeeps
    <2>4. CASE Seed
      BY <1>2, <2>4, SeedKeeps
    <2>5. CASE SubscribeLive
      BY <1>2, <2>5, SubscribeKeeps
    <2>6. CASE UNCHANGED minuteVars
      BY <1>2, <2>6 DEF minuteVars, MinuteInv, MinuteTyped, MinutePhases, MinutePlaces, Horizon,
                        MinuteFollows, MinutesTrue, VwapIsBars, AndCurrent, Closed
    <2> QED  BY <1>2, <2>1, <2>2, <2>3, <2>4, <2>5, <2>6 DEF MinuteNext
  <1>3. MinuteInv => MinutesAddUp
    <2> SUFFICES ASSUME MinuteInv PROVE MinutesAddUp
      OBVIOUS
    <2>1. /\ minute \in Nat /\ agg \in Aggregate /\ agg.seededTs \in -1 .. minute
          /\ DOMAIN market \subseteq 0 .. minute
      BY DEF MinuteInv, MinuteTyped
    <2>2. agg.bars \in Seq(MinuteBar) /\ {agg.num, agg.den, agg.high} \subseteq Nat /\ agg.current \in MinuteBar \cup {NoMinute}
      BY <2>1 DEF Aggregate
    <2>3. MinuteTypeOK
      <3>1. agg.current = NoMinute \/ agg.current.ts \in 0 .. minute
        BY <2>1 DEF MinuteInv, MinutePlaces
      <3> QED  BY <2>1, <2>2, <3>1 DEF MinuteTypeOK
    <2>4. Len(agg.bars) \in Nat /\ DOMAIN agg.bars = 1 .. Len(agg.bars)
      BY <2>2, VolumesOf
    <2>5. \A i \in 2 .. Len(agg.bars) : agg.bars[i - 1].ts < agg.bars[i].ts
      <3> TAKE i \in 2 .. Len(agg.bars)
      <3>1. i \in DOMAIN agg.bars /\ i - 1 \in DOMAIN agg.bars /\ i - 1 < i
        BY <2>4
      <3> QED  BY <3>1 DEF MinuteInv, MinutePlaces
    <2>6. ASSUME agg.bars # <<>>, agg.current # NoMinute, agg.seededTs # agg.current.ts
          PROVE  agg.bars[Len(agg.bars)].ts < agg.current.ts
      <3>1. Len(agg.bars) \in DOMAIN agg.bars
        BY <2>2, <2>4, <2>6, EmptySeq
      <3>2. /\ agg.bars[Len(agg.bars)].ts = agg.seededTs \/ agg.bars[Len(agg.bars)].ts < agg.current.ts
            /\ agg.seededTs <= agg.current.ts /\ agg.current.ts \in DOMAIN market
        BY <2>6, <3>1 DEF MinuteInv, MinutePlaces, Horizon
      <3> QED  BY <2>1, <2>6, <3>2
    <2>7. MinutesOnce
      BY <2>5, <2>6 DEF MinutesOnce, Closed
    <2> QED  BY <2>3, <2>7 DEF MinuteInv, MinutesAddUp
  <1> QED  BY <1>1, <1>2, <1>3, PTL DEF MinuteSpec

-----------------------------------------------------------------------------
(* sorted(): every place is someone's, and nobody has two.                 *)

LEMMA SortedInjective ==
    ASSUME NEW n \in Nat, NEW s, DOMAIN s = 1 .. n, \A i \in 1 .. n : s[i] \in Int
    PROVE  /\ \A i \in 1 .. n : SortedPlace(s, i) \in 1 .. n
           /\ \A i, j \in 1 .. n : SortedPlace(s, i) = SortedPlace(s, j) => i = j
  <1> DEFINE Less(i, j) == s[i] < s[j] \/ (s[i] = s[j] /\ i < j)
             Ahead(i) == {j \in 1 .. n : Less(j, i)}
  <1>1. IsFiniteSet(1 .. n) /\ Cardinality(1 .. n) = n
    BY FS_Interval
  <1>2. \A i \in 1 .. n : Ahead(i) \in SUBSET (1 .. n) /\ i \notin Ahead(i)
    OBVIOUS
  <1>3. \A i \in 1 .. n : IsFiniteSet(Ahead(i)) /\ Cardinality(Ahead(i)) \in 0 .. n
    <2> TAKE i \in 1 .. n
    <2>1. IsFiniteSet(Ahead(i)) /\ Cardinality(Ahead(i)) <= n
      BY <1>1, <1>2, FS_Subset
    <2> QED  BY <2>1, FS_CardinalityType
  <1>4. \A i \in 1 .. n : Cardinality(Ahead(i)) # n
    <2> TAKE i \in 1 .. n
    <2>1. Ahead(i) # 1 .. n
      BY <1>2
    <2> QED  BY <1>1, <1>2, <2>1, FS_Subset
  <1>5. \A i, j \in 1 .. n : Less(i, j) => Cardinality(Ahead(i)) # Cardinality(Ahead(j))
    <2> SUFFICES ASSUME NEW i \in 1 .. n, NEW j \in 1 .. n, Less(i, j)
                 PROVE  Cardinality(Ahead(i)) # Cardinality(Ahead(j))
      OBVIOUS
    <2>1. \A k \in 1 .. n : Less(k, i) => Less(k, j)
      OBVIOUS
    <2>2. Ahead(i) \in SUBSET Ahead(j) /\ i \in Ahead(j)
      BY <2>1
    <2>3. Ahead(i) # Ahead(j)
      BY <1>2, <2>2
    <2> QED  BY <1>3, <2>2, <2>3, FS_Subset
  <1>6. \A i, j \in 1 .. n : i # j => Less(i, j) \/ Less(j, i)
    OBVIOUS
  <1>7. \A i \in 1 .. n : SortedPlace(s, i) = Cardinality(Ahead(i)) + 1
    BY DEF SortedPlace
  <1> HIDE DEF Ahead, Less
  <1>8. \A i \in 1 .. n : SortedPlace(s, i) \in 1 .. n
    BY <1>3, <1>4, <1>7
  <1> QED  BY <1>3, <1>5, <1>6, <1>7, <1>8

LEMMA SortedOnto ==
    ASSUME NEW n \in Nat, NEW s, DOMAIN s = 1 .. n, \A i \in 1 .. n : s[i] \in Int
    PROVE  /\ DOMAIN SortedPlaces(s) = 1 .. n
           /\ \A k \in 1 .. n : /\ SortedPlaces(s)[k] \in 1 .. n
                                /\ SortedPlace(s, SortedPlaces(s)[k]) = k
  <1> DEFINE place == [i \in 1 .. n |-> SortedPlace(s, i)]
  <1>1. place \in Injection(1 .. n, 1 .. n)
    BY SortedInjective DEF Injection, IsInjective
  <1>2. IsFiniteSet(1 .. n)
    BY FS_Interval
  <1>3. place \in Surjection(1 .. n, 1 .. n)
    BY <1>1, <1>2, FS_Injection
  <1>4. \A k \in 1 .. n : \E i \in 1 .. n : SortedPlace(s, i) = k
    BY <1>3 DEF Surjection
  <1> QED  BY <1>4 DEF SortedPlaces

-----------------------------------------------------------------------------
(* Windows.                                                                *)

LEMMA Products ==
    ASSUME NEW x \in Int, NEW y \in Int, NEW w \in Nat \ {0}, x < y
    PROVE  x * w + w <= y * w
  <1>1. (y - x - 1) * w >= 0
    <2>1. y - x - 1 \in Nat
      OBVIOUS
    <2> DEFINE d == y - x - 1
    <2>2. d \in Nat /\ d * w >= 0
      BY <2>1
    <2> QED  BY <2>2
  <1> QED  BY <1>1

LEMMA DivisionOf ==
    ASSUME NEW x \in Nat, NEW w \in Nat \ {0}
    PROVE  /\ x \div w \in Nat /\ (x \div w) * w <= x /\ x < (x \div w) * w + w
           /\ \A q \in Int : q * w <= x /\ x < q * w + w => q = x \div w
  <1>1. x \div w \in Int
    OBVIOUS
  <1> DEFINE d == x \div w
  <1>2. d * w <= x /\ x < d * w + w
    OBVIOUS
  <1>3. d \in Nat
    <2> SUFFICES ASSUME d < 0 PROVE FALSE
      BY <1>1
    <2>1. d * w + w <= 0 * w
      BY <1>1, Products
    <2> QED  BY <1>2, <2>1
  <1>4. ASSUME NEW q \in Int, q * w <= x, x < q * w + w PROVE q = d
    <2>1. q < d => q * w + w <= d * w
      BY <1>1, Products
    <2>2. d < q => d * w + w <= q * w
      BY <1>1, Products
    <2> HIDE DEF d
    <2> QED  BY <1>1, <1>2, <1>3, <1>4, <2>1, <2>2
  <1> QED  BY <1>2, <1>3, <1>4

LEMMA FloorOf ==
    ASSUME NEW ts \in Nat
    PROVE  /\ Floor(ts) \in Nat /\ Floor(ts) <= ts /\ ts < Floor(ts) + Window
           /\ Floor(ts) % Window = 0
  <1>1. Window \in Nat \ {0}
    BY BarsAssumption
  <1> DEFINE q == ts \div Window
  <1>2. q \in Nat /\ q * Window <= ts /\ ts < q * Window + Window
    BY <1>1, DivisionOf
  <1> HIDE DEF q
  <1>3. q * Window \in Nat
    BY <1>1, <1>2
  <1>4. (q * Window) % Window = 0
    <2> DEFINE p == q * Window
               d == p \div Window
    <2>1. p \in Nat /\ q * Window <= p /\ p < q * Window + Window
      BY <1>1, <1>3
    <2>2. q = d
      BY <1>1, <1>2, <2>1, DivisionOf
    <2>3. p = Window * d + (p % Window) /\ p % Window \in Int
      BY <1>1, <2>1
    <2> QED  BY <1>1, <1>2, <2>2, <2>3
  <1> QED  BY <1>2, <1>3, <1>4 DEF Floor, q

\* The window moves to that of the newest time.
LEMMA NextWindow ==
    ASSUME NEW last \in Nat, NEW ts \in Nat
    PROVE  (IF ts < Floor(last) + Window THEN Floor(last)
            ELSE Floor(last) + Window * ((ts - Floor(last)) \div Window))
           = Floor(IF ts > last THEN ts ELSE last)
  <1>1. Window \in Nat \ {0}
    BY BarsAssumption
  <1> DEFINE q == last \div Window
             r == ts \div Window
  <1>2. q \in Nat /\ q * Window <= last /\ last < q * Window + Window
    BY <1>1, DivisionOf
  <1>3. /\ r \in Nat /\ r * Window <= ts /\ ts < r * Window + Window
        /\ \A k \in Int : k * Window <= ts /\ ts < k * Window + Window => k = r
    BY <1>1, DivisionOf
  <1>4. Floor(last) = q * Window /\ Floor(ts) = r * Window
    BY DEF Floor
  <1> HIDE DEF q, r
  <1>5. q * Window \in Nat /\ r * Window \in Nat
    BY <1>1, <1>2, <1>3
  <1>6. CASE ts < q * Window + Window
    <2>1. ts > last => q = r
      BY <1>1, <1>2, <1>3, <1>5, <1>6
    <2> QED  BY <1>2, <1>4, <1>6, <2>1
  <1>7. CASE ~(ts < q * Window + Window)
    <2>1. ts > last
      BY <1>1, <1>2, <1>5, <1>7
    <2> DEFINE beyond == ts - q * Window
               k == beyond \div Window
    <2>2. beyond \in Nat
      BY <1>1, <1>5, <1>7
    <2>3. k \in Nat /\ k * Window <= beyond /\ beyond < k * Window + Window
      BY <1>1, <2>2, DivisionOf
    <2> HIDE DEF k
    <2>4. (q + k) * Window = q * Window + k * Window /\ k * Window \in Nat
      BY <1>1, <1>2, <2>3
    <2>5. q + k = r
      BY <1>1, <1>2, <1>3, <1>5, <2>3, <2>4
    <2>6. Floor(last) + Window * ((ts - Floor(last)) \div Window) = Floor(ts)
      <3>1. (ts - Floor(last)) \div Window = k
        BY <1>4 DEF k
      <3>2. Window * k = k * Window
        BY <1>1, <2>3
      <3> QED  BY <1>4, <2>4, <2>5, <3>1, <3>2
    <2> QED  BY <1>4, <1>7, <2>1, <2>6
  <1> QED  BY <1>6, <1>7

-----------------------------------------------------------------------------
(* The volume of an update.                                                *)

LEMMA MedianOf ==
    ASSUME NEW h \in Seq(Nat), h # <<>>
    PROVE  TwiceMedian(h) \in Nat
  <1> DEFINE n == Len(h)
             at == SortedPlaces(h)
             mid == n \div 2
  <1>1. n \in Nat /\ n # 0 /\ DOMAIN h = 1 .. n /\ \A i \in 1 .. n : h[i] \in Nat
    BY LenProperties, EmptySeq, ElementOfSeq
  <1>2. \A k \in 1 .. n : h[at[k]] \in Nat
    <2> HIDE DEF n, at
    <2>1. \A i \in 1 .. n : h[i] \in Int
      BY <1>1
    <2>2. \A k \in 1 .. n : SortedPlaces(h)[k] \in 1 .. n
      BY <1>1, <2>1, SortedOnto
    <2> QED  BY <1>1, <2>2 DEF at
  <1> HIDE DEF n, at
  <1>3. CASE n % 2 = 0
    <2>1. mid \in 1 .. n /\ mid + 1 \in 1 .. n
      BY <1>1, <1>3
    <2> HIDE DEF mid
    <2>2. h[at[mid]] \in Nat /\ h[at[mid + 1]] \in Nat
      BY <1>2, <2>1
    <2>3. TwiceMedian(h) = h[at[mid]] + h[at[mid + 1]]
      BY <1>3 DEF TwiceMedian, n, at, mid
    <2> QED  BY <2>2, <2>3
  <1>4. CASE n % 2 # 0
    <2>1. mid + 1 \in 1 .. n
      BY <1>1, <1>4
    <2> HIDE DEF mid
    <2>2. h[at[mid + 1]] \in Nat
      BY <1>2, <2>1
    <2>3. TwiceMedian(h) = 2 * h[at[mid + 1]]
      BY <1>4 DEF TwiceMedian, n, at, mid
    <2> QED  BY <2>2, <2>3
  <1> QED  BY <1>3, <1>4

LEMMA LimitedOf ==
    ASSUME NEW d \in Nat, NEW h \in Seq(Nat), h # <<>>
    PROVE  /\ Limited(d, h) \in Nat /\ Limited(d, h) <= d
           /\ Len(h) < WarmUp => Limited(d, h) = d
  <1> DEFINE cap == Max({VolumeCap, 5 * TwiceMedian(h)})
  <1>1. 5 * TwiceMedian(h) \in Nat /\ VolumeCap \in Nat /\ WarmUp \in Nat /\ Len(h) \in Nat
    BY MedianOf, BarsAssumption, LenProperties
  <1>2. cap \in Nat
    BY <1>1, MaxOfTwo
  <1> HIDE DEF cap
  <1>3. Limited(d, h) = IF Len(h) >= WarmUp /\ d > cap THEN cap ELSE d
    BY DEF Limited, cap
  <1> QED  BY <1>1, <1>2, <1>3

LEMMA RememberedOf ==
    ASSUME NEW h \in Seq(Nat), NEW d \in Nat, Len(h) <= MaxDeltas
    PROVE  /\ Remembered(Append(h, d)) \in Seq(Nat) /\ Remembered(Append(h, d)) # <<>>
           /\ Len(Remembered(Append(h, d))) <= MaxDeltas
           /\ Len(Remembered(Append(h, d))) = IF Len(h) + 1 > MaxDeltas THEN MaxDeltas ELSE Len(h) + 1
  <1> DEFINE g == Append(h, d)
  <1>1. g \in Seq(Nat) /\ Len(g) = Len(h) + 1 /\ Len(h) \in Nat /\ g # <<>>
    BY AppendProperties, LenProperties
  <1>2. MaxDeltas \in Nat \ {0}
    BY BarsAssumption
  <1> HIDE DEF g
  <1>3. CASE Len(g) > MaxDeltas
    <2> DEFINE r == SubSeq(g, Len(g) - MaxDeltas + 1, Len(g))
    <2>1. r \in Seq(Nat) /\ Len(r) = MaxDeltas
      <3>1. Len(g) - MaxDeltas + 1 \in 1 .. Len(g) + 1
        BY <1>1, <1>2, <1>3
      <3>2. Len(g) \in Nat /\ Len(g) - (Len(g) - MaxDeltas + 1) + 1 = MaxDeltas
        BY <1>1, <1>2
      <3> QED  BY <1>1, <1>2, <1>3, <3>1, <3>2, SubSeqProperties
    <2>2. Remembered(g) = r
      BY <1>3 DEF Remembered
    <2>3. r # <<>>
      BY <1>2, <2>1
    <2>4. Len(h) + 1 > MaxDeltas /\ Len(r) <= MaxDeltas
      BY <1>1, <1>2, <1>3, <2>1
    <2> HIDE DEF r
    <2>5. Remembered(g) \in Seq(Nat) /\ Remembered(g) # <<>> /\ Len(Remembered(g)) = MaxDeltas
      BY <2>1, <2>2, <2>3
    <2> QED  BY <1>2, <2>4, <2>5 DEF g
  <1>4. CASE ~(Len(g) > MaxDeltas)
    <2>1. Remembered(g) = g
      BY <1>4 DEF Remembered
    <2> QED  BY <1>1, <1>2, <1>4, <2>1 DEF g
  <1> QED  BY <1>3, <1>4

\* What an update adds is at most what the volume grew, and nothing without a
\* baseline; the baseline follows the volume.
Baselines == [volume : Nat \cup {None}, ts : Int]
LEMMA DeltaOf ==
    ASSUME NEW old, old.baseline \in Baselines, old.deltas \in Seq(Nat), Len(old.deltas) <= MaxDeltas,
           NEW ts \in Int, NEW volume \in Nat \cup {None}
    PROVE  LET v == VolumeDelta(old, ts, volume) IN
           /\ v.baseline \in Baselines /\ v.deltas \in Seq(Nat) /\ Len(v.deltas) <= MaxDeltas
           /\ v.delta \in Nat
           /\ v.baseline.volume = IF volume = None THEN old.baseline.volume ELSE volume
           /\ v.delta # 0 => /\ volume # None /\ old.baseline.volume # None
                             /\ v.delta <= volume - old.baseline.volume
  <1> DEFINE v == VolumeDelta(old, ts, volume)
             delta == volume - old.baseline.volume
             history == Remembered(Append(old.deltas, delta))
             kept == [baseline |-> [volume |-> volume, ts |-> ts], deltas |-> old.deltas, delta |-> 0]
  <1>0. None \notin Nat /\ None \in Int
    BY DEF None
  <1>1. CASE volume = None
    <2>1. v = [kept EXCEPT !.baseline = old.baseline]
      BY <1>1 DEF VolumeDelta
    <2> QED  BY <1>1, <2>1
  <1>2. CASE volume # None /\ (StartsOver(old.baseline, ts) \/ delta < 0)
    <2>1. v = kept
      BY <1>2 DEF VolumeDelta
    <2> QED  BY <1>2, <2>1 DEF Baselines
  <1>3. CASE volume # None /\ ~(StartsOver(old.baseline, ts) \/ delta < 0)
    <2>1. v = [kept EXCEPT !.deltas = history, !.delta = Limited(delta, history)]
      BY <1>3 DEF VolumeDelta
    <2>2. old.baseline.volume # None /\ old.baseline.volume \in Nat /\ volume \in Nat /\ delta \in Nat
      BY <1>0, <1>3 DEF StartsOver, Baselines
    <2> HIDE DEF delta
    <2>3. history \in Seq(Nat) /\ history # <<>> /\ Len(history) <= MaxDeltas
      BY <2>2, RememberedOf
    <2> HIDE DEF history
    <2>4. Limited(delta, history) \in Nat /\ Limited(delta, history) <= delta
      BY <2>2, <2>3, LimitedOf
    <2> QED  BY <1>3, <2>1, <2>2, <2>3, <2>4 DEF Baselines, delta
  <1> QED  BY <1>1, <1>2, <1>3

-----------------------------------------------------------------------------
(* What a list of messages says up to its n-th.                            *)

Msgs == [ts : 0 .. MaxTime, quoted : BOOLEAN, last : Prices \cup {None}, volume : Nat \cup {None}]

QuotedBy(ms, n) == \E j \in 1 .. n : ms[j].quoted
Priced(ms, n) == {j \in 1 .. n : ms[j].last # None}
HeardBy(ms, n) == {j \in 1 .. n : ms[j].volume # None}
PriceIn(ms, n) == IF Priced(ms, n) = {} THEN None ELSE ms[Max(Priced(ms, n))].last
VolumeIn(ms, n) == IF HeardBy(ms, n) = {} THEN None ELSE ms[Max(HeardBy(ms, n))].volume
Counts(ms, n) == QuotedBy(ms, n) /\ Priced(ms, n) # {}
Ups(ms, n) == {i \in 1 .. n : Counts(ms, i)}
Times(ms, n) == {ms[j].ts : j \in Ups(ms, n)}
WindowIn(ms, n) == Floor(Max(Times(ms, n)))

LEMMA MsgOf ==
    ASSUME NEW ms \in Seq(Msgs)
    PROVE  /\ Len(ms) \in Nat /\ DOMAIN ms = 1 .. Len(ms)
           /\ \A i \in 1 .. Len(ms) :
                 /\ ms[i] \in Msgs
                 /\ ms[i].ts \in Nat /\ ms[i].ts <= MaxTime /\ ms[i].quoted \in BOOLEAN
                 /\ ms[i].last \in Prices \cup {None} /\ ms[i].volume \in Nat \cup {None}
  <1>1. Len(ms) \in Nat /\ DOMAIN ms = 1 .. Len(ms) /\ \A i \in 1 .. Len(ms) : ms[i] \in Msgs
    BY LenProperties, ElementOfSeq
  <1>2. MaxTime \in Nat
    BY BarsAssumption
  <1>3. \A m \in Msgs : /\ m.ts \in Nat /\ m.ts <= MaxTime /\ m.quoted \in BOOLEAN
                        /\ m.last \in Prices \cup {None} /\ m.volume \in Nat \cup {None}
    BY <1>2 DEF Msgs
  <1> QED  BY <1>1, <1>3

LEMMA LastOf ==
    ASSUME NEW n \in Nat, NEW S \in SUBSET (1 .. n), S # {}
    PROVE  Max(S) \in S /\ Max(S) \in 1 .. n /\ \A j \in S : j <= Max(S)
  <1>1. S \in SUBSET Nat /\ \A j \in S : j <= n
    OBVIOUS
  <1> QED  BY <1>1, MaxOf

LEMMA GreatestIs ==
    ASSUME NEW S \in SUBSET Int, NEW g \in S, \A j \in S : j <= g
    PROVE  Max(S) = g
  <1> DEFINE IsIt(x) == \A y \in S : x >= y
  <1>1. IsIt(g)
    OBVIOUS
  <1>2. (CHOOSE x \in S : IsIt(x)) \in S /\ IsIt(CHOOSE x \in S : IsIt(x))
    BY <1>1
  <1>3. Max(S) = CHOOSE x \in S : IsIt(x)
    BY DEF Max
  <1>4. Max(S) \in S /\ IsIt(Max(S))
    BY <1>2, <1>3
  <1>5. Max(S) \in Int /\ g \in Int /\ Max(S) >= g /\ Max(S) <= g
    BY <1>4
  <1> HIDE DEF IsIt
  <1> QED  BY <1>5

LEMMA LeastIs ==
    ASSUME NEW S \in SUBSET Int, NEW g \in S, \A j \in S : g <= j
    PROVE  Min(S) = g
  <1> DEFINE IsIt(x) == \A y \in S : x =< y
  <1>1. IsIt(g)
    OBVIOUS
  <1>2. (CHOOSE x \in S : IsIt(x)) \in S /\ IsIt(CHOOSE x \in S : IsIt(x))
    BY <1>1
  <1>3. Min(S) = CHOOSE x \in S : IsIt(x)
    BY DEF Min
  <1>4. Min(S) \in S /\ IsIt(Min(S))
    BY <1>2, <1>3
  <1>5. Min(S) \in Int /\ g \in Int /\ Min(S) =< g /\ Min(S) >= g
    BY <1>4
  <1> HIDE DEF IsIt
  <1> QED  BY <1>5

LEMMA LastPushed ==
    ASSUME NEW n \in Nat, NEW S \in SUBSET (1 .. n), NEW T \in SUBSET (1 .. n + 1),
           \A j \in 1 .. n : j \in T <=> j \in S
    PROVE  IF n + 1 \in T THEN Max(T) = n + 1 /\ T = S \cup {n + 1} ELSE T = S
  <1>1. CASE n + 1 \in T
    <2>1. T \in SUBSET Int /\ \A j \in T : j <= n + 1
      OBVIOUS
    <2>2. Max(T) = n + 1
      BY <1>1, <2>1, GreatestIs
    <2>3. \A j \in T : j \in 1 .. n \/ j = n + 1
      OBVIOUS
    <2> QED  BY <1>1, <2>2, <2>3
  <1>2. CASE n + 1 \notin T
    <2>3. \A j \in 1 .. n + 1 : j # n + 1 => j \in 1 .. n
      OBVIOUS
    <2>4. T \subseteq 1 .. n /\ S \subseteq 1 .. n
      BY <1>2, <2>3, Zenon
    <2>5. T = S
      BY <2>4
    <2> QED  BY <1>2, <2>5
  <1> QED  BY <1>1, <1>2

LEMMA NextPrice ==
    ASSUME NEW ms, NEW n \in Nat
    PROVE  /\ PriceIn(ms, n + 1) = Updated(PriceIn(ms, n), ms[n + 1].last)
           /\ Priced(ms, n + 1) = IF ms[n + 1].last # None THEN Priced(ms, n) \cup {n + 1}
                                  ELSE Priced(ms, n)
  <1> DEFINE S == Priced(ms, n)
             T == Priced(ms, n + 1)
  <1>0. S \in SUBSET (1 .. n) /\ T \in SUBSET (1 .. n + 1)
    BY DEF Priced
  <1>1. \A j \in 1 .. n : j \in T <=> j \in S
    BY DEF Priced
  <1>2. n + 1 \in T <=> ms[n + 1].last # None
    BY DEF Priced
  <1>3. PriceIn(ms, n) = IF S = {} THEN None ELSE ms[Max(S)].last
    BY DEF PriceIn
  <1>4. PriceIn(ms, n + 1) = IF T = {} THEN None ELSE ms[Max(T)].last
    BY DEF PriceIn
  <1> HIDE DEF S, T
  <1>5. IF n + 1 \in T THEN Max(T) = n + 1 /\ T = S \cup {n + 1} ELSE T = S
    BY <1>0, <1>1, LastPushed
  <1>6. PriceIn(ms, n + 1) = Updated(PriceIn(ms, n), ms[n + 1].last)
    BY <1>2, <1>3, <1>4, <1>5 DEF Updated
  <1>7. T = IF ms[n + 1].last # None THEN S \cup {n + 1} ELSE S
    BY <1>2, <1>5
  <1> QED  BY <1>6, <1>7 DEF S, T

LEMMA NextVolume ==
    ASSUME NEW ms, NEW n \in Nat
    PROVE  VolumeIn(ms, n + 1) = Updated(VolumeIn(ms, n), ms[n + 1].volume)
  <1> DEFINE S == HeardBy(ms, n)
             T == HeardBy(ms, n + 1)
  <1>1. S \in SUBSET (1 .. n) /\ T \in SUBSET (1 .. n + 1) /\ \A j \in 1 .. n : j \in T <=> j \in S
    BY DEF HeardBy
  <1>2. n + 1 \in T <=> ms[n + 1].volume # None
    BY DEF HeardBy
  <1>3. VolumeIn(ms, n) = IF S = {} THEN None ELSE ms[Max(S)].volume
    BY DEF VolumeIn
  <1>4. VolumeIn(ms, n + 1) = IF T = {} THEN None ELSE ms[Max(T)].volume
    BY DEF VolumeIn
  <1> HIDE DEF S, T
  <1>5. IF n + 1 \in T THEN Max(T) = n + 1 /\ T = S \cup {n + 1} ELSE T = S
    BY <1>1, LastPushed
  <1> QED  BY <1>2, <1>3, <1>4, <1>5 DEF Updated

LEMMA NextQuoted ==
    ASSUME NEW ms, NEW n \in Nat, ms[n + 1].quoted \in BOOLEAN
    PROVE  QuotedBy(ms, n + 1) = (QuotedBy(ms, n) \/ ms[n + 1].quoted)
  <1>1. \A j \in 1 .. n + 1 : j \in 1 .. n \/ j = n + 1
    OBVIOUS
  <1>2. n + 1 \in 1 .. n + 1 /\ \A j \in 1 .. n : j \in 1 .. n + 1
    OBVIOUS
  <1> QED  BY <1>1, <1>2 DEF QuotedBy

LEMMA NoneYet ==
    ASSUME NEW ms
    PROVE  /\ ~QuotedBy(ms, 0) /\ PriceIn(ms, 0) = None /\ VolumeIn(ms, 0) = None
           /\ Priced(ms, 0) = {} /\ HeardBy(ms, 0) = {} /\ Ups(ms, 0) = {}
  BY DEF QuotedBy, PriceIn, VolumeIn, Priced, HeardBy, Ups

\* Once messages count, they go on.
LEMMA CountsOn ==
    ASSUME NEW ms, NEW n \in Nat, NEW i \in 1 .. n, Counts(ms, i)
    PROVE  Counts(ms, n)
  BY DEF Counts, QuotedBy, Priced

LEMMA NextUps ==
    ASSUME NEW ms, NEW n \in Nat
    PROVE  /\ Ups(ms, n) \subseteq 1 .. n
           /\ Ups(ms, n + 1) = IF Counts(ms, n + 1) THEN Ups(ms, n) \cup {n + 1} ELSE {}
           /\ Ups(ms, n) # {} => Counts(ms, n) /\ Counts(ms, n + 1) /\ n \in Ups(ms, n)
           /\ Ups(ms, n) = {} => ~Counts(ms, n)
  <1>1. Ups(ms, n) \subseteq 1 .. n
    BY DEF Ups
  <1>2. ASSUME NEW i \in Ups(ms, n) PROVE Counts(ms, n) /\ Counts(ms, n + 1) /\ n \in Ups(ms, n)
    <2>1. i \in 1 .. n /\ i \in 1 .. n + 1 /\ n + 1 \in Nat /\ Counts(ms, i) /\ n \in 1 .. n
      BY <1>2 DEF Ups
    <2>2. Counts(ms, n) /\ Counts(ms, n + 1)
      BY <2>1, CountsOn
    <2> QED  BY <2>1, <2>2 DEF Ups
  <1>3. Counts(ms, n) => n # 0
    BY DEF Counts, QuotedBy
  <1>4. Counts(ms, n) => n \in Ups(ms, n)
    BY <1>3 DEF Ups
  <1>5. Ups(ms, n + 1) = IF Counts(ms, n + 1) THEN Ups(ms, n) \cup {n + 1} ELSE Ups(ms, n)
    BY DEF Ups
  <1> QED  BY <1>1, <1>2, <1>4, <1>5

\* What is said up to n depends on the first n messages only.
LEMMA SamePrefix ==
    ASSUME NEW v, NEW w, NEW n \in Nat, \A i \in 1 .. n : v[i] = w[i]
    PROVE  \A i \in 0 .. n : /\ QuotedBy(v, i) = QuotedBy(w, i)
                             /\ Priced(v, i) = Priced(w, i) /\ PriceIn(v, i) = PriceIn(w, i)
                             /\ HeardBy(v, i) = HeardBy(w, i) /\ VolumeIn(v, i) = VolumeIn(w, i)
                             /\ Counts(v, i) = Counts(w, i) /\ Ups(v, i) = Ups(w, i)
                             /\ Times(v, i) = Times(w, i) /\ WindowIn(v, i) = WindowIn(w, i)
  <1>1. \A i \in 0 .. n : QuotedBy(v, i) = QuotedBy(w, i) /\ Priced(v, i) = Priced(w, i)
                          /\ HeardBy(v, i) = HeardBy(w, i)
    BY DEF QuotedBy, Priced, HeardBy
  <1>2. ASSUME NEW i \in 0 .. n PROVE PriceIn(v, i) = PriceIn(w, i)
    <2>1. Priced(v, i) # {} => Max(Priced(v, i)) \in 1 .. i
      <3>1. Priced(v, i) \in SUBSET (1 .. i) /\ i \in Nat
        BY DEF Priced
      <3> QED  BY <3>1, LastOf
    <2>2. Priced(v, i) # {} => v[Max(Priced(v, i))] = w[Max(Priced(v, i))]
      BY <2>1
    <2> QED  BY <1>1, <2>2 DEF PriceIn
  <1>3. ASSUME NEW i \in 0 .. n PROVE VolumeIn(v, i) = VolumeIn(w, i)
    <2>1. HeardBy(v, i) # {} => Max(HeardBy(v, i)) \in 1 .. i
      <3>1. HeardBy(v, i) \in SUBSET (1 .. i) /\ i \in Nat
        BY DEF HeardBy
      <3> QED  BY <3>1, LastOf
    <2>2. HeardBy(v, i) # {} => v[Max(HeardBy(v, i))] = w[Max(HeardBy(v, i))]
      BY <2>1
    <2> QED  BY <1>1, <2>2 DEF VolumeIn
  <1>4. \A i \in 0 .. n : Counts(v, i) = Counts(w, i)
    BY <1>1 DEF Counts
  <1>5. \A i \in 0 .. n : Ups(v, i) = Ups(w, i)
    BY <1>4 DEF Ups
  <1>6. ASSUME NEW i \in 0 .. n PROVE Times(v, i) = Times(w, i)
    <2>1. \A j \in Ups(v, i) : v[j].ts = w[j].ts
      BY DEF Ups
    <2> QED  BY <1>5, <2>1 DEF Times
  <1>7. \A i \in 0 .. n : WindowIn(v, i) = WindowIn(w, i)
    BY <1>6 DEF WindowIn
  <1> QED  BY <1>1, <1>2, <1>3, <1>4, <1>5, <1>6, <1>7

\* The window of the update n + 1.
LEMMA NextWindowIn ==
    ASSUME NEW ms \in Seq(Msgs), NEW n \in Nat, n < Len(ms), Counts(ms, n + 1)
    PROVE  /\ Ups(ms, n) = {} => WindowIn(ms, n + 1) = Floor(ms[n + 1].ts)
           /\ Ups(ms, n) # {} =>
                WindowIn(ms, n + 1) = LET at == WindowIn(ms, n) IN
                    IF ms[n + 1].ts < at + Window THEN at
                    ELSE at + Window * ((ms[n + 1].ts - at) \div Window)
           /\ WindowIn(ms, n + 1) \in Nat /\ WindowIn(ms, n + 1) % Window = 0
           /\ Ups(ms, n) # {} => WindowIn(ms, n) <= WindowIn(ms, n + 1)
  <1> DEFINE ts == ms[n + 1].ts
             S == Times(ms, n)
             T == Times(ms, n + 1)
  <1>1. n + 1 \in 1 .. Len(ms) /\ ts \in Nat /\ MaxTime \in Nat
    BY MsgOf, BarsAssumption
  <1>2. T = S \cup {ts}
    <2>1. Ups(ms, n + 1) = Ups(ms, n) \cup {n + 1}
      BY NextUps
    <2> QED  BY <2>1 DEF Times
  <1>3. S \in SUBSET Nat /\ \A t \in S : t <= MaxTime
    <2>1. \A j \in Ups(ms, n) : j \in 1 .. Len(ms)
      BY MsgOf DEF Ups
    <2> QED  BY <2>1, MsgOf DEF Times
  <1>4. S = {} <=> Ups(ms, n) = {}
    BY DEF Times
  <1>5. WindowIn(ms, n) = Floor(Max(S)) /\ WindowIn(ms, n + 1) = Floor(Max(T))
    BY DEF WindowIn
  <1> HIDE DEF ts, S, T
  <1>6. CASE S = {}
    <2>1. Max(T) = ts
      BY <1>1, <1>2, <1>6, GreatestIs
    <2> QED  BY <1>1, <1>4, <1>5, <1>6, <2>1, FloorOf DEF ts
  <1>7. CASE S # {}
    <2> DEFINE last == Max(S)
    <2>1. last \in S /\ \A t \in S : t <= last
      BY <1>1, <1>3, <1>7, MaxOf
    <2>2. last \in Nat
      BY <1>3, <2>1
    <2> HIDE DEF last
    <2>3. Max(T) = IF ts > last THEN ts ELSE last
      <3> DEFINE g == IF ts > last THEN ts ELSE last
      <3>1. T \in SUBSET Int /\ g \in T /\ \A t \in T : t <= g
        BY <1>1, <1>2, <1>3, <2>1, <2>2
      <3> QED  BY <3>1, GreatestIs
    <2>4. Max(T) \in Nat
      BY <1>1, <2>2, <2>3
    <2>5. WindowIn(ms, n + 1) = LET at == WindowIn(ms, n) IN
                    IF ts < at + Window THEN at ELSE at + Window * ((ts - at) \div Window)
      BY <1>1, <1>5, <2>2, <2>3, NextWindow DEF last
    <2>6. WindowIn(ms, n + 1) \in Nat /\ WindowIn(ms, n + 1) % Window = 0
      BY <1>5, <2>4, FloorOf
    <2>7. WindowIn(ms, n) <= WindowIn(ms, n + 1)
      <3>1. /\ Floor(last) \in Nat /\ Floor(last) <= last /\ last < Floor(last) + Window
            /\ Floor(ts) \in Nat /\ Floor(ts) <= ts /\ ts < Floor(ts) + Window
        BY <1>1, <2>2, FloorOf
      <3>2. CASE ts > last
        <4>1. last \div Window <= ts \div Window
          <5> DEFINE q == last \div Window
                     r == ts \div Window
          <5>1. Window \in Nat \ {0}
            BY BarsAssumption
          <5>2. /\ q \in Nat /\ r \in Nat /\ q * Window <= last /\ ts < r * Window + Window
            BY <1>1, <2>2, <5>1, DivisionOf
          <5>3. r < q => r * Window + Window <= q * Window
            BY <5>1, <5>2, Products
          <5>4. q * Window \in Nat /\ r * Window \in Nat
            BY <5>1, <5>2
          <5> HIDE DEF q, r
          <5>5. q <= r
            BY <1>1, <2>2, <3>2, <5>1, <5>2, <5>3, <5>4
          <5> QED  BY <5>5 DEF q, r
        <4>2. Floor(last) <= Floor(ts)
          <5> DEFINE q == last \div Window
                     r == ts \div Window
          <5>1. Window \in Nat \ {0}
            BY BarsAssumption
          <5>2. q \in Nat /\ r \in Nat
            BY <1>1, <2>2, <5>1, DivisionOf
          <5>3. q < r => q * Window + Window <= r * Window
            BY <5>1, <5>2, Products
          <5>4. q * Window \in Nat /\ r * Window \in Nat
            BY <5>1, <5>2
          <5>5. q <= r
            BY <4>1
          <5>6. Floor(last) = q * Window /\ Floor(ts) = r * Window
            BY DEF Floor
          <5> HIDE DEF q, r
          <5>7. q = r \/ q < r
            BY <5>2, <5>5
          <5> QED  BY <5>1, <5>2, <5>3, <5>4, <5>6, <5>7
        <4> QED  BY <1>5, <2>3, <3>2, <4>2 DEF last
      <3>3. CASE ~(ts > last)
        BY <1>5, <2>3, <3>1, <3>3 DEF last
      <3> QED  BY <3>2, <3>3
    <2> QED  BY <1>4, <1>7, <2>5, <2>6, <2>7 DEF ts
  <1> QED  BY <1>6, <1>7

-----------------------------------------------------------------------------
(* Bars: the shape of a window's updates.                                  *)

Bar == [ts : Nat, open : Prices, high : Prices, low : Prices, close : Prices, volume : Nat]

ShapeIn(ms, at) == LET p == {PriceIn(ms, i) : i \in at} IN
    [open |-> PriceIn(ms, Min(at)), high |-> Max(p), low |-> Min(p), close |-> PriceIn(ms, Max(at))]
InWindow(ms, n, w) == {i \in Ups(ms, n) : WindowIn(ms, i) = w}

LEMMA PriceOf ==
    ASSUME NEW ms \in Seq(Msgs), NEW n \in 0 .. Len(ms)
    PROVE  /\ Priced(ms, n) # {} => PriceIn(ms, n) \in Prices
           /\ PriceIn(ms, n) \in Prices \cup {None}
           /\ PriceIn(ms, n) = None <=> Priced(ms, n) = {}
           /\ HeardBy(ms, n) # {} => VolumeIn(ms, n) \in Nat
           /\ VolumeIn(ms, n) \in Nat \cup {None}
           /\ VolumeIn(ms, n) = None <=> HeardBy(ms, n) = {}
           /\ Prices \subseteq Nat \ {0} /\ None \notin Nat
  <1>1. Prices \subseteq Nat \ {0} /\ None \notin Nat /\ n \in Nat
    BY BarsAssumption, MsgOf DEF None
  <1>2. Priced(ms, n) \in SUBSET (1 .. n) /\ HeardBy(ms, n) \in SUBSET (1 .. n)
    BY DEF Priced, HeardBy
  <1>3. \A i \in 1 .. n : i \in 1 .. Len(ms)
    BY MsgOf
  <1>4. Priced(ms, n) # {} => PriceIn(ms, n) \in Prices
    <2> SUFFICES ASSUME Priced(ms, n) # {} PROVE PriceIn(ms, n) \in Prices
      OBVIOUS
    <2> DEFINE k == Max(Priced(ms, n))
    <2>1. k \in Priced(ms, n) /\ k \in 1 .. n
      BY <1>1, <1>2, LastOf
    <2>2. ms[k].last # None /\ ms[k].last \in Prices \cup {None}
      BY <1>3, <2>1, MsgOf DEF Priced
    <2> QED  BY <2>2 DEF PriceIn
  <1>5. HeardBy(ms, n) # {} => VolumeIn(ms, n) \in Nat
    <2> SUFFICES ASSUME HeardBy(ms, n) # {} PROVE VolumeIn(ms, n) \in Nat
      OBVIOUS
    <2> DEFINE k == Max(HeardBy(ms, n))
    <2>1. k \in HeardBy(ms, n) /\ k \in 1 .. n
      BY <1>1, <1>2, LastOf
    <2>2. ms[k].volume # None /\ ms[k].volume \in Nat \cup {None}
      BY <1>3, <2>1, MsgOf DEF HeardBy
    <2> QED  BY <2>2 DEF VolumeIn
  <1>6. Priced(ms, n) = {} => PriceIn(ms, n) = None
    BY DEF PriceIn
  <1>7. HeardBy(ms, n) = {} => VolumeIn(ms, n) = None
    BY DEF VolumeIn
  <1> QED  BY <1>1, <1>4, <1>5, <1>6, <1>7

LEMMA UpsPriced ==
    ASSUME NEW ms \in Seq(Msgs), NEW n \in 0 .. Len(ms), NEW i \in Ups(ms, n)
    PROVE  i \in 1 .. n /\ PriceIn(ms, i) \in Prices /\ PriceIn(ms, i) \in Nat
  <1>1. i \in 1 .. n /\ Counts(ms, i) /\ n <= Len(ms) /\ Len(ms) \in Nat
    BY MsgOf DEF Ups
  <1>2. i \in 0 .. Len(ms) /\ Priced(ms, i) # {}
    BY <1>1 DEF Counts
  <1> QED  BY <1>1, <1>2, PriceOf

LEMMA ShapeOfOne ==
    ASSUME NEW ms, NEW k \in Nat, PriceIn(ms, k) \in Nat
    PROVE  LET p == PriceIn(ms, k) IN
           ShapeIn(ms, {k}) = [open |-> p, high |-> p, low |-> p, close |-> p]
  <1> DEFINE p == PriceIn(ms, k)
  <1>1. {PriceIn(ms, i) : i \in {k}} = {p}
    OBVIOUS
  <1>2. Max({k}) = k /\ Min({k}) = k
    <2>1. {k} \in SUBSET Int /\ k \in {k} /\ \A j \in {k} : j <= k /\ k <= j
      OBVIOUS
    <2> QED  BY <2>1, GreatestIs, LeastIs
  <1>3. Max({p}) = p /\ Min({p}) = p
    <2>1. {p} \in SUBSET Int /\ p \in {p} /\ \A j \in {p} : j <= p /\ p <= j
      OBVIOUS
    <2> HIDE DEF p
    <2> QED  BY <2>1, GreatestIs, LeastIs
  <1> QED  BY <1>1, <1>2, <1>3 DEF ShapeIn

LEMMA Bounded ==
    ASSUME NEW n \in Nat, NEW at \in SUBSET (1 .. n), NEW f, \A i \in at : f[i] \in Nat
    PROVE  \E b \in Nat : \A i \in at : f[i] <= b
  <1>1. CASE n = 0
    BY <1>1
  <1>2. CASE n # 0
    <2> DEFINE g == [i \in 1 .. n |-> IF i \in at THEN f[i] ELSE 0]
    <2>1. \A i \in 1 .. n : g[i] \in Nat
      OBVIOUS
    <2>2. \A i \in at : i \in 1 .. n /\ g[i] = f[i]
      OBVIOUS
    <2> HIDE DEF g
    <2> DEFINE b == Max({g[i] : i \in 1 .. n})
    <2>3. b \in Nat /\ \A i \in 1 .. n : g[i] <= b
      BY <1>2, <2>1, MaxOfMany
    <2> HIDE DEF b
    <2> QED  BY <2>2, <2>3
  <1> QED  BY <1>1, <1>2

LEMMA ShapeOfMore ==
    ASSUME NEW ms, NEW n \in Nat, NEW at \in SUBSET (1 .. n), at # {},
           \A i \in at : PriceIn(ms, i) \in Nat, PriceIn(ms, n + 1) \in Nat
    PROVE  LET old == ShapeIn(ms, at)
               new == ShapeIn(ms, at \cup {n + 1})
               p == PriceIn(ms, n + 1)
           IN /\ new.open = old.open /\ new.close = p
              /\ new.high = (IF old.high >= p THEN old.high ELSE p)
              /\ new.low = (IF old.low <= p THEN old.low ELSE p)
              /\ old.high \in Nat /\ old.low \in Nat
  <1> DEFINE p == PriceIn(ms, n + 1)
             S == {PriceIn(ms, i) : i \in at}
             T == {PriceIn(ms, i) : i \in at \cup {n + 1}}
             more == at \cup {n + 1}
  <1>1. T = S \cup {p} /\ S # {} /\ S \in SUBSET Nat
    OBVIOUS
  <1>2. Min(at) \in at /\ \A i \in at : Min(at) <= i
    <2>1. at \in SUBSET Nat
      OBVIOUS
    <2> QED  BY <2>1, MinOf
  <1>3. Min(more) = Min(at)
    <2> DEFINE g == Min(at)
    <2>1. g \in at /\ \A i \in at : g <= i
      BY <1>2
    <2> HIDE DEF g
    <2>2. g \in 1 .. n /\ g <= n + 1
      BY <2>1
    <2>3. more \in SUBSET Int /\ g \in more /\ \A j \in more : g <= j
      BY <2>1, <2>2
    <2> HIDE DEF more
    <2>4. Min(more) = g
      BY <2>3, LeastIs
    <2> QED  BY <2>4 DEF g
  <1>4. Max(more) = n + 1
    <2>1. more \in SUBSET Int /\ n + 1 \in more /\ \A j \in more : j <= n + 1
      OBVIOUS
    <2> HIDE DEF more
    <2> QED  BY <2>1, GreatestIs
  <1>5. PICK b \in Nat : \A s \in S : s <= b
    <2> DEFINE f == [i \in at |-> PriceIn(ms, i)]
    <2>1. \A i \in at : f[i] \in Nat /\ f[i] = PriceIn(ms, i)
      OBVIOUS
    <2> HIDE DEF f
    <2>2. \E b \in Nat : \A i \in at : f[i] <= b
      BY <2>1, Bounded
    <2> QED  BY <2>1, <2>2
  <1> HIDE DEF S
  <1>6. Max(S) \in S /\ (\A s \in S : s <= Max(S)) /\ Min(S) \in S /\ (\A s \in S : Min(S) <= s)
    BY <1>1, <1>5, MaxOf, MinOf
  <1>7. Max(S) \in Nat /\ Min(S) \in Nat
    BY <1>1, <1>6
  <1> HIDE DEF T, p
  <1>8. p \in Nat
    BY DEF p
  <1>9. Max(T) = IF Max(S) >= p THEN Max(S) ELSE p
    <2> DEFINE h == Max(S)
               g == IF h >= p THEN h ELSE p
    <2>1. h \in S /\ h \in Nat /\ \A s \in S : s <= h
      BY <1>6, <1>7
    <2> HIDE DEF h
    <2>2. T \in SUBSET Int /\ g \in T /\ \A j \in T : j <= g
      BY <1>1, <1>8, <2>1
    <2> HIDE DEF g
    <2>3. Max(T) = g
      BY <2>2, GreatestIs
    <2> QED  BY <2>3 DEF g, h
  <1>10. Min(T) = IF Min(S) <= p THEN Min(S) ELSE p
    <2> DEFINE h == Min(S)
               g == IF h <= p THEN h ELSE p
    <2>1. h \in S /\ h \in Nat /\ \A s \in S : h <= s
      BY <1>6, <1>7
    <2> HIDE DEF h
    <2>2. T \in SUBSET Int /\ g \in T /\ \A j \in T : g <= j
      BY <1>1, <1>8, <2>1
    <2> HIDE DEF g
    <2>3. Min(T) = g
      BY <2>2, LeastIs
    <2> QED  BY <2>3 DEF g, h
  <1>11. ShapeIn(ms, at) = [open |-> PriceIn(ms, Min(at)), high |-> Max(S), low |-> Min(S),
                            close |-> PriceIn(ms, Max(at))]
    BY DEF ShapeIn, S
  <1>12. ShapeIn(ms, more) = [open |-> PriceIn(ms, Min(at)), high |-> Max(T), low |-> Min(T),
                              close |-> p]
    BY <1>3, <1>4 DEF ShapeIn, T, p
  <1> QED  BY <1>7, <1>9, <1>10, <1>11, <1>12 DEF more, p

LEMMA SameShapeIs ==
    ASSUME NEW bar, NEW ms, NEW at
    PROVE  SameShape(bar, ShapeIn(ms, at)) <=>
           LET s == ShapeIn(ms, at) IN
           bar.open = s.open /\ bar.high = s.high /\ bar.low = s.low /\ bar.close = s.close
  <1> DEFINE s == ShapeIn(ms, at)
  <1>1. DOMAIN s = {"open", "high", "low", "close"}
    BY DEF ShapeIn
  <1> HIDE DEF s
  <1>2. SameShape(bar, s) <=> \A f \in {"open", "high", "low", "close"} : bar[f] = s[f]
    BY <1>1 DEF SameShape
  <1> QED  BY <1>2 DEF s

-----------------------------------------------------------------------------
(* Bars: their volume, and what was traded.                                *)

LEMMA MinOfTwo ==
    ASSUME NEW m \in Int, NEW n \in Int
    PROVE  Min({m, n}) = IF m <= n THEN m ELSE n
  <1> DEFINE g == IF m <= n THEN m ELSE n
  <1>1. {m, n} \in SUBSET Int /\ g \in {m, n} /\ \A j \in {m, n} : g <= j
    OBVIOUS
  <1> QED  BY <1>1, LeastIs

LEMMA BarVolumes ==
    ASSUME NEW list \in Seq(Bar)
    PROVE  /\ Len(list) \in Nat /\ DOMAIN list = 1 .. Len(list)
           /\ \A i \in 1 .. Len(list) : list[i] \in Bar /\ list[i].volume \in Nat
           /\ [i \in DOMAIN list |-> list[i].volume] \in Seq(Nat)
           /\ Len([i \in DOMAIN list |-> list[i].volume]) = Len(list)
           /\ \A j \in 1 .. Len(list) : [i \in DOMAIN list |-> list[i].volume][j] = list[j].volume
           /\ VolumeOf(list) \in Nat
  <1>1. Len(list) \in Nat /\ DOMAIN list = 1 .. Len(list) /\ \A i \in 1 .. Len(list) : list[i] \in Bar
    BY LenProperties, ElementOfSeq
  <1> DEFINE v == [i \in DOMAIN list |-> list[i].volume]
  <1>2. \A i \in 1 .. Len(list) : list[i].volume \in Nat
    BY <1>1 DEF Bar
  <1>3. v \in [1 .. Len(list) -> Nat]
    BY <1>1, <1>2
  <1>4. v \in Seq(Nat) /\ Len(v) = Len(list)
    BY <1>1, <1>3, IsASeq, LenProperties
  <1>5. \A j \in 1 .. Len(list) : v[j] = list[j].volume
    BY <1>1
  <1>6. Total(v) \in Nat
    BY <1>4, TotalNatural
  <1> QED  BY <1>1, <1>2, <1>4, <1>5, <1>6 DEF VolumeOf

LEMMA VolumeOfNone == VolumeOf(<<>>) = 0
  <1> DEFINE none == <<>>
             v == [i \in DOMAIN none |-> none[i].volume]
  <1>1. none \in Seq(Bar) /\ Len(none) = 0
    BY EmptySeq
  <1>2. v \in Seq(Nat) /\ Len(v) = 0
    BY <1>1, BarVolumes
  <1>3. v = <<>>
    BY <1>2, EmptySeq
  <1>4. Total(v) = 0
    BY <1>2, <1>3, TotalOfNone
  <1> QED  BY <1>4 DEF VolumeOf

LEMMA VolumeOfMore ==
    ASSUME NEW list \in Seq(Bar), NEW bar \in Bar
    PROVE  /\ Append(list, bar) \in Seq(Bar) /\ Len(Append(list, bar)) = Len(list) + 1
           /\ \A i \in 1 .. Len(list) : Append(list, bar)[i] = list[i]
           /\ Append(list, bar)[Len(list) + 1] = bar
           /\ VolumeOf(Append(list, bar)) = VolumeOf(list) + bar.volume
  <1> DEFINE more == Append(list, bar)
             v == [i \in DOMAIN list |-> list[i].volume]
             w == [i \in DOMAIN more |-> more[i].volume]
  <1>1. /\ more \in Seq(Bar) /\ Len(more) = Len(list) + 1 /\ Len(list) \in Nat
        /\ \A i \in 1 .. Len(list) : more[i] = list[i]
        /\ more[Len(list) + 1] = bar
    BY LenProperties, AppendProperties
  <1>2. v \in Seq(Nat) /\ Len(v) = Len(list) /\ \A j \in 1 .. Len(list) : v[j] = list[j].volume
    BY BarVolumes
  <1> HIDE DEF more
  <1>3. w \in Seq(Nat) /\ Len(w) = Len(more) /\ \A j \in 1 .. Len(more) : w[j] = more[j].volume
    BY <1>1, BarVolumes
  <1>4. bar.volume \in Nat
    BY DEF Bar
  <1>5. VolumeOf(list) = Total(v) /\ VolumeOf(more) = Total(w)
    BY DEF VolumeOf
  <1> HIDE DEF v, w
  <1>6. \A i \in 1 .. Len(v) : w[i] = v[i]
    <2> TAKE i \in 1 .. Len(v)
    <2>1. i \in 1 .. Len(list) /\ i \in 1 .. Len(more)
      BY <1>1, <1>2
    <2> QED  BY <1>1, <1>2, <1>3, <2>1
  <1>7. w[Len(v) + 1] = bar.volume
    <2>1. Len(list) + 1 \in 1 .. Len(more)
      BY <1>1
    <2> QED  BY <1>1, <1>2, <1>3, <2>1
  <1>8. Total(w) = Total(v) + bar.volume
    <2>1. Len(w) = Len(v) + 1 /\ v \in Seq(Nat) /\ w \in Seq(Nat)
      BY <1>1, <1>2, <1>3
    <2> QED  BY <1>4, <1>6, <1>7, <2>1, TotalAppended
  <1> QED  BY <1>1, <1>5, <1>8 DEF more

\* What the message n + 1 adds to the volume before it.
GrowthTo(ms, n) == Total([i \in 1 .. n |-> Grown(ms, i)])

LEMMA GrownIs ==
    ASSUME NEW ms, NEW n \in Int, NEW k \in Int, k = n + 1
    PROVE  Grown(ms, k) = IF ms[k].volume = None \/ HeardBy(ms, n) = {} THEN 0
                          ELSE Max({0, ms[k].volume - ms[Max(HeardBy(ms, n))].volume})
  <1>1. {j \in 1 .. k - 1 : ms[j].volume # None} = HeardBy(ms, n)
    <2>1. k - 1 = n
      OBVIOUS
    <2> QED  BY <2>1 DEF HeardBy
  <1> QED  BY <1>1 DEF Grown

LEMMA GrownOf ==
    ASSUME NEW ms \in Seq(Msgs), NEW n \in 0 .. Len(ms) - 1
    PROVE  /\ Grown(ms, n + 1) \in Nat
           /\ Grown(ms, n + 1) =
                LET was == VolumeIn(ms, n) IN
                IF ms[n + 1].volume # None /\ was # None /\ ms[n + 1].volume >= was
                THEN ms[n + 1].volume - was ELSE 0
  <1> DEFINE volume == ms[n + 1].volume
             was == VolumeIn(ms, n)
             had == HeardBy(ms, n)
  <1>1. n \in Nat /\ n + 1 \in 1 .. Len(ms) /\ n \in 0 .. Len(ms) /\ n + 1 - 1 = n
    BY MsgOf
  <1>2. volume \in Nat \cup {None} /\ was \in Nat \cup {None} /\ None \notin Nat
        /\ (was = None <=> had = {})
    BY <1>1, MsgOf, PriceOf
  <1>3. Grown(ms, n + 1) = IF volume = None \/ had = {} THEN 0
                           ELSE Max({0, volume - ms[Max(had)].volume})
    <2>1. n \in Int /\ n + 1 \in Int
      BY <1>1
    <2>2. PICK k \in Int : k = n + 1
      BY <2>1
    <2>3. Grown(ms, k) = IF ms[k].volume = None \/ had = {} THEN 0
                         ELSE Max({0, ms[k].volume - ms[Max(had)].volume})
      BY <2>1, <2>2, GrownIs
    <2> QED  BY <2>2, <2>3
  <1>5. had # {} => ms[Max(had)].volume = was
    BY DEF VolumeIn
  <1> HIDE DEF volume, was, had
  <1>6. CASE volume = None \/ had = {}
    BY <1>2, <1>3, <1>6 DEF volume, was
  <1>7. CASE ~(volume = None \/ had = {})
    <2>1. volume \in Nat /\ was \in Nat /\ was # None /\ volume # None
      BY <1>2, <1>7
    <2> DEFINE d == volume - was
    <2>2. d \in Int /\ (d \in Nat <=> volume >= was)
      BY <2>1
    <2>3. Grown(ms, n + 1) = Max({0, d})
      BY <1>3, <1>5, <1>7
    <2> HIDE DEF d
    <2>4. Grown(ms, n + 1) = IF 0 >= d THEN 0 ELSE d
      BY <2>2, <2>3, MaxOfTwo
    <2>5. Grown(ms, n + 1) = IF volume >= was THEN d ELSE 0
      BY <2>2, <2>4
    <2> QED  BY <2>1, <2>2, <2>5 DEF d, volume, was
  <1> QED  BY <1>6, <1>7

LEMMA GrowthOf ==
    ASSUME NEW ms \in Seq(Msgs), NEW n \in 0 .. Len(ms)
    PROVE  /\ [i \in 1 .. n |-> Grown(ms, i)] \in Seq(Nat)
           /\ Len([i \in 1 .. n |-> Grown(ms, i)]) = n
           /\ GrowthTo(ms, n) \in Nat
  <1> DEFINE v == [i \in 1 .. n |-> Grown(ms, i)]
  <1>1. n \in Nat /\ Len(ms) \in Nat
    BY MsgOf
  <1>2. ASSUME NEW i \in 1 .. n PROVE Grown(ms, i) \in Nat
    <2> DEFINE k == i - 1
    <2>1. k \in 0 .. Len(ms) - 1 /\ i = k + 1
      BY <1>1
    <2> HIDE DEF k
    <2> QED  BY <2>1, GrownOf
  <1>3. v \in [1 .. n -> Nat]
    BY <1>2
  <1>4. v \in Seq(Nat) /\ Len(v) = n
    BY <1>1, <1>3, IsASeq, LenProperties
  <1>5. Total(v) \in Nat
    BY <1>4, TotalNatural
  <1> QED  BY <1>4, <1>5 DEF GrowthTo

LEMMA GrowthOfMore ==
    ASSUME NEW ms \in Seq(Msgs), NEW n \in 0 .. Len(ms) - 1
    PROVE  GrowthTo(ms, n + 1) = GrowthTo(ms, n) + Grown(ms, n + 1)
  <1> DEFINE v == [i \in 1 .. n |-> Grown(ms, i)]
             w == [i \in 1 .. n + 1 |-> Grown(ms, i)]
  <1>1. n \in Nat /\ n \in 0 .. Len(ms) /\ n + 1 \in 0 .. Len(ms) /\ n + 1 \in 1 .. n + 1
    BY MsgOf
  <1>2. v \in Seq(Nat) /\ Len(v) = n /\ w \in Seq(Nat) /\ Len(w) = n + 1
    BY <1>1, GrowthOf
  <1>3. (\A i \in 1 .. n : v[i] = w[i]) /\ w[n + 1] = Grown(ms, n + 1)
    BY <1>1
  <1>4. Grown(ms, n + 1) \in Nat
    BY GrownOf
  <1>5. GrowthTo(ms, n) = Total(v) /\ GrowthTo(ms, n + 1) = Total(w)
    BY DEF GrowthTo
  <1> HIDE DEF v, w
  <1> QED  BY <1>2, <1>3, <1>4, <1>5, TotalAppended

-----------------------------------------------------------------------------
(* Bars: one for each window of the updates, in order, of its shape.       *)

WindowsIn(ms, n) == {WindowIn(ms, i) : i \in Ups(ms, n)}
BarsShaped(ms, n, list) ==
    /\ {list[k].ts : k \in DOMAIN list} = WindowsIn(ms, n)
    /\ \A k, l \in DOMAIN list : k < l => list[k].ts < list[l].ts
    /\ \A k \in DOMAIN list : SameShape(list[k], ShapeIn(ms, InWindow(ms, n, list[k].ts)))

LEMMA WindowsMore ==
    ASSUME NEW ms \in Seq(Msgs), NEW n \in 0 .. Len(ms) - 1, Counts(ms, n + 1)
    PROVE  /\ WindowsIn(ms, n + 1) = WindowsIn(ms, n) \cup {WindowIn(ms, n + 1)}
           /\ \A w : InWindow(ms, n + 1, w) =
                        IF w = WindowIn(ms, n + 1) THEN InWindow(ms, n, w) \cup {n + 1}
                        ELSE InWindow(ms, n, w)
           /\ \A w : InWindow(ms, n, w) # {} <=> w \in WindowsIn(ms, n)
           /\ \A w : InWindow(ms, n, w) \in SUBSET (1 .. n)
  <1>1. n \in Nat
    BY MsgOf
  <1>2. Ups(ms, n + 1) = Ups(ms, n) \cup {n + 1} /\ Ups(ms, n) \subseteq 1 .. n
    BY <1>1, NextUps
  <1>3. WindowsIn(ms, n + 1) = WindowsIn(ms, n) \cup {WindowIn(ms, n + 1)}
    BY <1>2 DEF WindowsIn
  <1>4. ASSUME NEW w
        PROVE  /\ InWindow(ms, n + 1, w) =
                        IF w = WindowIn(ms, n + 1) THEN InWindow(ms, n, w) \cup {n + 1}
                        ELSE InWindow(ms, n, w)
               /\ InWindow(ms, n, w) # {} <=> w \in WindowsIn(ms, n)
               /\ InWindow(ms, n, w) \in SUBSET (1 .. n)
    <2>1. InWindow(ms, n, w) # {} <=> w \in WindowsIn(ms, n)
      BY DEF InWindow, WindowsIn
    <2>2. InWindow(ms, n, w) \in SUBSET (1 .. n)
      BY <1>2 DEF InWindow
    <2>3. InWindow(ms, n + 1, w) = IF w = WindowIn(ms, n + 1) THEN InWindow(ms, n, w) \cup {n + 1}
                                   ELSE InWindow(ms, n, w)
      BY <1>2 DEF InWindow
    <2> QED  BY <2>1, <2>2, <2>3
  <1> QED  BY <1>3, <1>4

LEMMA BarAdded ==
    ASSUME NEW ms \in Seq(Msgs), NEW n \in 0 .. Len(ms) - 1, Counts(ms, n + 1),
           NEW list \in Seq(Bar), BarsShaped(ms, n, list), NEW bar \in Bar,
           bar.ts = WindowIn(ms, n + 1), \A k \in 1 .. Len(list) : list[k].ts < bar.ts,
           bar.open = PriceIn(ms, n + 1), bar.high = PriceIn(ms, n + 1),
           bar.low = PriceIn(ms, n + 1), bar.close = PriceIn(ms, n + 1)
    PROVE  BarsShaped(ms, n + 1, Append(list, bar))
  <1> DEFINE w == WindowIn(ms, n + 1)
             more == Append(list, bar)
             l == Len(list)
  <1>1. /\ l \in Nat /\ DOMAIN list = 1 .. l /\ DOMAIN more = 1 .. l + 1
        /\ (\A i \in 1 .. l : more[i] = list[i]) /\ more[l + 1] = bar
        /\ \A i \in 1 .. l : list[i] \in Bar /\ list[i].ts \in Nat
    <2>1. more \in Seq(Bar) /\ Len(more) = l + 1 /\ (\A i \in 1 .. l : more[i] = list[i])
          /\ more[l + 1] = bar
      BY VolumeOfMore
    <2>2. l \in Nat /\ DOMAIN list = 1 .. l /\ \A i \in 1 .. l : list[i] \in Bar
      BY BarVolumes
    <2>3. DOMAIN more = 1 .. l + 1
      BY <2>1, BarVolumes
    <2>4. \A b \in Bar : b.ts \in Nat
      BY DEF Bar
    <2> QED  BY <2>1, <2>2, <2>3, <2>4
  <1> HIDE DEF more, l
  <1>2. {list[k].ts : k \in 1 .. l} = WindowsIn(ms, n)
    BY <1>1 DEF BarsShaped
  <1>3. \A k \in 1 .. l : list[k].ts # w /\ list[k].ts < w
    BY <1>1 DEF l
  <1>4. {more[k].ts : k \in 1 .. l + 1} = WindowsIn(ms, n + 1)
    <2>1. WindowsIn(ms, n + 1) = WindowsIn(ms, n) \cup {w}
      BY WindowsMore
    <2>2. \A k \in 1 .. l + 1 : k \in 1 .. l \/ k = l + 1
      BY <1>1
    <2>3. l + 1 \in 1 .. l + 1 /\ \A k \in 1 .. l : k \in 1 .. l + 1
      BY <1>1
    <2>4. {more[k].ts : k \in 1 .. l + 1} = {list[k].ts : k \in 1 .. l} \cup {w}
      BY <1>1, <2>2, <2>3
    <2> QED  BY <1>2, <2>1, <2>4
  <1>5. \A i, j \in 1 .. l + 1 : i < j => more[i].ts < more[j].ts
    <2> TAKE i, j \in 1 .. l + 1
    <2> HAVE i < j
    <2>1. i \in 1 .. l
      BY <1>1
    <2>2. CASE j \in 1 .. l
      <3>1. list[i].ts < list[j].ts
        BY <1>1, <2>1, <2>2 DEF BarsShaped
      <3> QED  BY <1>1, <2>1, <2>2, <3>1
    <2>3. CASE j \notin 1 .. l
      <3>1. j = l + 1
        BY <1>1, <2>3
      <3> QED  BY <1>1, <1>3, <2>1, <3>1
    <2> QED  BY <2>2, <2>3
  <1>6. ASSUME NEW k \in 1 .. l + 1
        PROVE  SameShape(more[k], ShapeIn(ms, InWindow(ms, n + 1, more[k].ts)))
    <2>1. CASE k \in 1 .. l
      <3>1. more[k] = list[k] /\ list[k].ts # w
        BY <1>1, <1>3, <2>1
      <3>2. InWindow(ms, n + 1, list[k].ts) = InWindow(ms, n, list[k].ts)
        BY <3>1, WindowsMore
      <3>3. SameShape(list[k], ShapeIn(ms, InWindow(ms, n, list[k].ts)))
        BY <1>1, <2>1 DEF BarsShaped
      <3> QED  BY <3>1, <3>2, <3>3
    <2>2. CASE k \notin 1 .. l
      <3>1. k = l + 1 /\ more[k] = bar
        BY <1>1, <2>2
      <3>2. w \notin WindowsIn(ms, n)
        BY <1>2, <1>3
      <3>3. InWindow(ms, n, w) = {}
        BY <3>2, WindowsMore
      <3>4. InWindow(ms, n + 1, w) = {n + 1}
        BY <3>3, WindowsMore
      <3>5. n + 1 \in Nat /\ PriceIn(ms, n + 1) \in Nat
        <4>1. n + 1 \in 0 .. Len(ms) /\ Priced(ms, n + 1) # {}
          BY MsgOf DEF Counts
        <4> QED  BY <4>1, PriceOf
      <3> DEFINE m == n + 1
      <3>6. ShapeIn(ms, {m}) = [open |-> PriceIn(ms, m), high |-> PriceIn(ms, m),
                                low |-> PriceIn(ms, m), close |-> PriceIn(ms, m)]
        <4> HIDE DEF m
        <4>1. m \in Nat /\ PriceIn(ms, m) \in Nat
          BY <3>5 DEF m
        <4> QED  BY <4>1, ShapeOfOne
      <3>7. SameShape(bar, ShapeIn(ms, {m}))
        BY <3>6, SameShapeIs
      <3> QED  BY <3>1, <3>4, <3>7
    <2> QED  BY <2>1, <2>2
  <1> QED  BY <1>1, <1>4, <1>5, <1>6 DEF BarsShaped, more

LEMMA BarWidened ==
    ASSUME NEW ms \in Seq(Msgs), NEW n \in 0 .. Len(ms) - 1, Counts(ms, n + 1),
           NEW list \in Seq(Bar), NEW old \in Bar, NEW bar \in Bar,
           BarsShaped(ms, n, Append(list, old)),
           old.ts = WindowIn(ms, n + 1), bar.ts = old.ts, bar.open = old.open,
           bar.high = (IF old.high >= PriceIn(ms, n + 1) THEN old.high ELSE PriceIn(ms, n + 1)),
           bar.low = (IF old.low <= PriceIn(ms, n + 1) THEN old.low ELSE PriceIn(ms, n + 1)),
           bar.close = PriceIn(ms, n + 1)
    PROVE  BarsShaped(ms, n + 1, Append(list, bar))
  <1> DEFINE w == WindowIn(ms, n + 1)
             was == Append(list, old)
             more == Append(list, bar)
             l == Len(list)
  <1>1. /\ l \in Nat /\ DOMAIN was = 1 .. l + 1 /\ DOMAIN more = 1 .. l + 1
        /\ \A i \in 1 .. l : more[i] = list[i] /\ was[i] = list[i]
        /\ more[l + 1] = bar /\ was[l + 1] = old
    <2>1. /\ more \in Seq(Bar) /\ Len(more) = l + 1 /\ \A i \in 1 .. l : more[i] = list[i]
          /\ more[l + 1] = bar
          /\ was \in Seq(Bar) /\ Len(was) = l + 1 /\ \A i \in 1 .. l : was[i] = list[i]
          /\ was[l + 1] = old
      BY VolumeOfMore
    <2>2. l \in Nat
      BY BarVolumes
    <2>3. DOMAIN more = 1 .. l + 1 /\ DOMAIN was = 1 .. l + 1
      BY <2>1, BarVolumes
    <2> QED  BY <2>1, <2>2, <2>3
  <1>a. BarsShaped(ms, n, was)
    OBVIOUS
  <1> HIDE DEF more, was, l
  <1>2. {was[k].ts : k \in 1 .. l + 1} = WindowsIn(ms, n)
    BY <1>1, <1>a DEF BarsShaped
  <1>3. \A k \in 1 .. l + 1 : k \in 1 .. l \/ k = l + 1
    BY <1>1
  <1>4. \A k \in 1 .. l + 1 : more[k].ts = was[k].ts
    BY <1>1, <1>3
  <1>5. l + 1 \in 1 .. l + 1 /\ \A k \in 1 .. l : k \in 1 .. l + 1 /\ k < l + 1
    BY <1>1
  <1>6. {more[k].ts : k \in 1 .. l + 1} = WindowsIn(ms, n + 1)
    <2>1. WindowsIn(ms, n + 1) = WindowsIn(ms, n) \cup {w}
      BY WindowsMore
    <2>2. w \in WindowsIn(ms, n)
      BY <1>1, <1>2, <1>5
    <2> QED  BY <1>2, <1>4, <2>1, <2>2
  <1>7. \A i, j \in 1 .. l + 1 : i < j => more[i].ts < more[j].ts
    <2>1. \A i, j \in 1 .. l + 1 : i < j => was[i].ts < was[j].ts
      BY <1>1, <1>a DEF BarsShaped
    <2> QED  BY <1>4, <2>1
  <1>8. ASSUME NEW k \in 1 .. l + 1
        PROVE  SameShape(more[k], ShapeIn(ms, InWindow(ms, n + 1, more[k].ts)))
    <2>0. SameShape(was[k], ShapeIn(ms, InWindow(ms, n, was[k].ts)))
      BY <1>1, <1>a DEF BarsShaped
    <2>1. CASE k \in 1 .. l
      <3>1. more[k] = was[k]
        BY <1>1, <2>1
      <3>2. was[k].ts < was[l + 1].ts /\ was[l + 1].ts = w /\ w \in Nat
        <4>1. was[k].ts < was[l + 1].ts
          BY <1>1, <1>5, <1>a, <2>1 DEF BarsShaped
        <4>2. old.ts \in Nat
          BY DEF Bar
        <4> QED  BY <1>1, <4>1, <4>2
      <3>3. was[k].ts # w
        <4>1. was[k].ts \in Nat
          <5>1. list[k] \in Bar
            BY <2>1, BarVolumes DEF l
          <5> QED  BY <1>1, <2>1, <5>1 DEF Bar
        <4> QED  BY <3>2, <4>1
      <3>4. InWindow(ms, n + 1, was[k].ts) = InWindow(ms, n, was[k].ts)
        BY <3>3, WindowsMore
      <3> QED  BY <2>0, <3>1, <3>4
    <2>2. CASE k \notin 1 .. l
      <3>1. more[k] = bar /\ was[k] = old
        BY <1>1, <1>3, <2>2
      <3> DEFINE at == InWindow(ms, n, w)
                 s == ShapeIn(ms, at)
                 t == ShapeIn(ms, at \cup {n + 1})
                 p == PriceIn(ms, n + 1)
      <3>2. at # {} /\ at \in SUBSET (1 .. n) /\ InWindow(ms, n + 1, w) = at \cup {n + 1}
        <4>1. w \in WindowsIn(ms, n)
          BY <1>1, <1>2, <1>5
        <4> QED  BY <4>1, WindowsMore
      <3>3. \A i \in at : PriceIn(ms, i) \in Nat
        <4>1. \A i \in at : i \in Ups(ms, n) /\ n \in 0 .. Len(ms)
          BY MsgOf DEF InWindow
        <4> QED  BY <4>1, UpsPriced
      <3>4. p \in Nat /\ n \in Nat
        <4>1. n + 1 \in 0 .. Len(ms) /\ Priced(ms, n + 1) # {} /\ n \in Nat
          BY MsgOf DEF Counts
        <4> QED  BY <4>1, PriceOf
      <3> HIDE DEF at
      <3>5. /\ t.open = s.open /\ t.close = p
            /\ t.high = (IF s.high >= p THEN s.high ELSE p)
            /\ t.low = (IF s.low <= p THEN s.low ELSE p)
        BY <3>2, <3>3, <3>4, ShapeOfMore
      <3>6. old.open = s.open /\ old.high = s.high /\ old.low = s.low
        <4>1. SameShape(old, s)
          BY <2>0, <3>1 DEF at
        <4> QED  BY <4>1, SameShapeIs
      <3>7. SameShape(bar, t)
        <4>1. bar.open = t.open /\ bar.high = t.high /\ bar.low = t.low /\ bar.close = t.close
          <5> HIDE DEF s, t, p
          <5>1. bar.high = (IF old.high >= p THEN old.high ELSE p)
                /\ bar.low = (IF old.low <= p THEN old.low ELSE p) /\ bar.close = p /\ bar.open = old.open
            BY DEF p
          <5> QED  BY <3>5, <3>6, <5>1
        <4> QED  BY <4>1, SameShapeIs
      <3> QED  BY <3>1, <3>2, <3>7
    <2> QED  BY <2>1, <2>2
  <1> QED  BY <1>1, <1>6, <1>7, <1>8 DEF BarsShaped, more

\* The state that fits the first n messages.
AggFits(ms, n, a) ==
    /\ a.baseline \in Baselines /\ a.deltas \in Seq(Nat) /\ Len(a.deltas) <= MaxDeltas
    /\ a.completed \in Seq(Bar)
    /\ Ups(ms, n) = {} => /\ a.forming = NoBar /\ a.window = None /\ a.completed = <<>>
                          /\ a.baseline.volume = None
    /\ Ups(ms, n) # {} => /\ a.forming \in Bar /\ a.window = a.forming.ts
                          /\ a.window = WindowIn(ms, n) /\ a.baseline.volume = VolumeIn(ms, n)
    /\ BarsShaped(ms, n, AllBars(a))
    /\ VolumeOf(AllBars(a)) <= GrowthTo(ms, n)
CacheFits(ms, n, c) == c = [quoted |-> QuotedBy(ms, n), last |-> PriceIn(ms, n), volume |-> VolumeIn(ms, n)]
StateFits(ms, n, s) == CacheFits(ms, n, s.cache) /\ AggFits(ms, n, s.agg)

\* What an update adds is no more than the market's growth.
LEMMA DeltaFits ==
    ASSUME NEW ms \in Seq(Msgs), NEW n \in 0 .. Len(ms) - 1, NEW a, AggFits(ms, n, a), Counts(ms, n + 1)
    PROVE  LET v == VolumeDelta(a, ms[n + 1].ts, VolumeIn(ms, n + 1)) IN
           /\ v.baseline \in Baselines /\ v.deltas \in Seq(Nat) /\ Len(v.deltas) <= MaxDeltas
           /\ v.delta \in Nat /\ v.delta <= Grown(ms, n + 1)
           /\ v.baseline.volume = VolumeIn(ms, n + 1)
  <1> DEFINE ts == ms[n + 1].ts
             new == ms[n + 1].volume
             was == VolumeIn(ms, n)
             vol == VolumeIn(ms, n + 1)
             v == VolumeDelta(a, ts, vol)
             g == Grown(ms, n + 1)
  <1>1. /\ n \in Nat /\ ts \in Int /\ new \in Nat \cup {None} /\ was \in Nat \cup {None}
        /\ vol \in Nat \cup {None} /\ None \notin Nat
    <2>1. n \in Nat /\ n + 1 \in 1 .. Len(ms) /\ n + 1 \in 0 .. Len(ms) /\ n \in 0 .. Len(ms)
      BY MsgOf
    <2>2. ts \in Nat /\ new \in Nat \cup {None}
      BY <2>1, MsgOf
    <2>3. was \in Nat \cup {None} /\ None \notin Nat
      BY <2>1, PriceOf
    <2>4. vol \in Nat \cup {None}
      <3> DEFINE k == n + 1
      <3>1. k \in 0 .. Len(ms)
        BY <2>1
      <3> HIDE DEF k
      <3>2. VolumeIn(ms, k) \in Nat \cup {None}
        BY <3>1, PriceOf
      <3> QED  BY <3>2 DEF k
    <2> QED  BY <2>1, <2>2, <2>3, <2>4
  <1>2. vol = Updated(was, new)
    BY <1>1, NextVolume
  <1>3. /\ g \in Nat
        /\ g = IF new # None /\ was # None /\ new >= was THEN new - was ELSE 0
    BY GrownOf
  <1>4. a.baseline.volume = IF Ups(ms, n) = {} THEN None ELSE was
    BY DEF AggFits
  <1>5. a.baseline \in Baselines /\ a.deltas \in Seq(Nat) /\ Len(a.deltas) <= MaxDeltas
    BY DEF AggFits
  <1> HIDE DEF ts, new, was, vol, g
  <1>6. /\ v.baseline \in Baselines /\ v.deltas \in Seq(Nat) /\ Len(v.deltas) <= MaxDeltas
        /\ v.delta \in Nat
        /\ v.baseline.volume = IF vol = None THEN a.baseline.volume ELSE vol
        /\ v.delta # 0 => /\ vol # None /\ a.baseline.volume # None
                          /\ v.delta <= vol - a.baseline.volume
    BY <1>1, <1>5, DeltaOf
  <1> HIDE DEF v
  <1>7. v.baseline.volume = vol
    BY <1>1, <1>2, <1>4, <1>6 DEF Updated
  <1>8. v.delta <= g
    <2>1. CASE v.delta = 0
      BY <1>3, <2>1
    <2>2. CASE v.delta # 0
      <3>1. was # None /\ vol # None /\ v.delta <= vol - was
        BY <1>4, <1>6, <2>2
      <3>2. was \in Nat /\ vol \in Nat
        BY <1>1, <3>1
      <3>3. CASE new = None
        BY <1>2, <1>6, <2>2, <3>1, <3>2, <3>3 DEF Updated
      <3>4. CASE new # None
        <4>1. vol = new
          BY <1>2, <3>4 DEF Updated
        <4> QED  BY <1>3, <1>6, <2>2, <3>1, <3>2, <3>4, <4>1
      <3> QED  BY <3>3, <3>4
    <2> QED  BY <2>1, <2>2
  <1> QED  BY <1>6, <1>7, <1>8 DEF v, g, vol, ts

LEMMA WidenedOf ==
    ASSUME NEW bar \in Bar, NEW price \in Prices, NEW volume \in Nat
    PROVE  LET wide == Widened(bar, price, volume) IN
           /\ wide \in Bar /\ wide.ts = bar.ts /\ wide.volume = bar.volume + volume
           /\ wide.open = bar.open
           /\ wide.high = (IF bar.high >= price THEN bar.high ELSE price)
           /\ wide.low = (IF bar.low <= price THEN bar.low ELSE price) /\ wide.close = price
  <1> DEFINE wide == Widened(bar, price, volume)
             high == Max({bar.high, price})
             low == Min({bar.low, price})
  <1>1. /\ bar.high \in Prices /\ bar.low \in Prices /\ bar.open \in Prices /\ bar.close \in Prices
        /\ bar.volume \in Nat /\ bar.ts \in Nat
    BY DEF Bar
  <1>2. bar.high \in Int /\ bar.low \in Int /\ price \in Int
    <2>1. \A q \in Prices : q \in Int
      BY BarsAssumption
    <2>2. bar.high \in Int /\ bar.low \in Int
      BY <1>1, <2>1
    <2>3. price \in Int
      BY <2>1
    <2> QED  BY <2>2, <2>3
  <1>3. bar = [ts |-> bar.ts, open |-> bar.open, high |-> bar.high, low |-> bar.low,
               close |-> bar.close, volume |-> bar.volume]
    BY DEF Bar
  <1>4. high = (IF bar.high >= price THEN bar.high ELSE price)
        /\ low = (IF bar.low <= price THEN bar.low ELSE price)
    BY <1>2, MaxOfTwo, MinOfTwo
  <1>5. wide = [ts |-> bar.ts, open |-> bar.open, high |-> high, low |-> low,
                close |-> price, volume |-> bar.volume + volume]
    <2> DEFINE o == bar.open
               h == bar.high
               l == bar.low
               c == bar.close
               u == bar.volume
               t == bar.ts
    <2>1. wide = [bar EXCEPT !.high = high, !.low = low, !.close = price, !.volume = u + volume]
      BY DEF Widened
    <2>2. bar = [ts |-> t, open |-> o, high |-> h, low |-> l, close |-> c, volume |-> u]
      BY <1>3
    <2> HIDE DEF high, low, wide, t, o, h, l, c, u
    <2> QED  BY <2>1, <2>2 DEF o, t, u
  <1> HIDE DEF high, low
  <1>6. high \in Prices /\ low \in Prices /\ bar.volume + volume \in Nat
    BY <1>1, <1>4
  <1> HIDE DEF wide
  <1> QED  BY <1>1, <1>4, <1>5, <1>6 DEF Bar, wide

LEMMA UpdateFits ==
    ASSUME NEW ms \in Seq(Msgs), NEW n \in 0 .. Len(ms) - 1, NEW a, AggFits(ms, n, a), Counts(ms, n + 1)
    PROVE  AggFits(ms, n + 1, IngestPrice(a, ms[n + 1].ts, PriceIn(ms, n + 1), VolumeIn(ms, n + 1)))
  <1> DEFINE ts == ms[n + 1].ts
             p == PriceIn(ms, n + 1)
             vol == VolumeIn(ms, n + 1)
             v == VolumeDelta(a, ts, vol)
             b == IngestPrice(a, ts, p, vol)
             w == WindowIn(ms, n + 1)
             g == Grown(ms, n + 1)
  <1>1. n \in Nat /\ n + 1 \in 0 .. Len(ms) /\ n \in 0 .. Len(ms) /\ n < Len(ms) /\ n + 1 \in 1 .. Len(ms)
    BY MsgOf
  <1>2. p \in Prices /\ p \in Nat /\ None \notin Nat
    <2> DEFINE k == n + 1
    <2>1. k \in 0 .. Len(ms) /\ Priced(ms, k) # {}
      BY <1>1 DEF Counts
    <2> HIDE DEF k
    <2>2. PriceIn(ms, k) \in Prices /\ Prices \subseteq Nat \ {0} /\ None \notin Nat
      BY <2>1, PriceOf
    <2> QED  BY <2>2 DEF k
  <1>3. /\ v.baseline \in Baselines /\ v.deltas \in Seq(Nat) /\ Len(v.deltas) <= MaxDeltas
        /\ v.delta \in Nat /\ v.delta <= g /\ v.baseline.volume = vol
    BY DeltaFits
  <1>4. w \in Nat
    BY <1>1, NextWindowIn
  <1>5. WindowOf(a, ts) = w
    <2>1. CASE Ups(ms, n) = {}
      <3>1. a.window = None
        BY <2>1 DEF AggFits
      <3>2. w = Floor(ts)
        BY <1>1, <2>1, NextWindowIn
      <3> QED  BY <3>1, <3>2 DEF WindowOf
    <2>2. CASE Ups(ms, n) # {}
      <3>1. a.window = WindowIn(ms, n) /\ a.window = a.forming.ts /\ a.forming \in Bar
        BY <2>2 DEF AggFits
      <3>2. a.window # None
        BY <1>2, <3>1 DEF Bar
      <3>3. w = IF ts < a.window + Window THEN a.window
                ELSE a.window + Window * ((ts - a.window) \div Window)
        BY <1>1, <2>2, <3>1, NextWindowIn
      <3> QED  BY <3>2, <3>3 DEF WindowOf
    <2> QED  BY <2>1, <2>2
  <1>6. Ups(ms, n + 1) # {}
    BY <1>1, NextUps
  <1>7. GrowthTo(ms, n + 1) = GrowthTo(ms, n) + g /\ g \in Nat /\ GrowthTo(ms, n) \in Nat
    BY <1>1, GrowthOfMore, GrowthOf, GrownOf
  <1>8. /\ a.completed \in Seq(Bar)
        /\ BarsShaped(ms, n, AllBars(a)) /\ VolumeOf(AllBars(a)) <= GrowthTo(ms, n)
    BY DEF AggFits
  <1>9. /\ b.window = w /\ b.baseline = v.baseline /\ b.deltas = v.deltas
        /\ b.forming = (IF a.forming = NoBar \/ (a.forming # NoBar /\ w # a.window) THEN NewBar(w, p, v.delta)
                        ELSE Widened(a.forming, p, v.delta))
        /\ b.completed = (IF a.forming # NoBar /\ w # a.window THEN Append(a.completed, a.forming)
                          ELSE a.completed)
    BY <1>5 DEF IngestPrice
  <1>10. \A bar \in Bar : bar # NoBar
    BY <1>2 DEF Bar, NoBar
  <1>11. ASSUME b.forming \in Bar, b.forming.ts = w, b.completed \in Seq(Bar),
                BarsShaped(ms, n + 1, Append(b.completed, b.forming)),
                VolumeOf(Append(b.completed, b.forming)) <= GrowthTo(ms, n + 1)
         PROVE  AggFits(ms, n + 1, b)
    <2>1. AllBars(b) = Append(b.completed, b.forming)
      BY <1>10, <1>11 DEF AllBars
    <2> HIDE DEF b, v
    <2> QED  BY <1>3, <1>6, <1>9, <1>11, <2>1 DEF AggFits
  <1> DEFINE new == NewBar(w, p, v.delta)
  <1>12. /\ new \in Bar /\ new.ts = w /\ new.volume = v.delta
         /\ new.open = p /\ new.high = p /\ new.low = p /\ new.close = p
    BY <1>2, <1>3, <1>4 DEF NewBar, Bar
  <1> HIDE DEF b, v, g, new
  <1>13. CASE Ups(ms, n) = {}
    <2>1. a.forming = NoBar /\ a.completed = <<>> /\ AllBars(a) = <<>>
      BY <1>13 DEF AggFits, AllBars
    <2>2. b.forming = new /\ b.completed = <<>>
      BY <1>9, <2>1 DEF new
    <2>3. <<>> \in Seq(Bar) /\ Len(<<>>) = 0
      OBVIOUS
    <2>4. VolumeOf(Append(<<>>, new)) = v.delta
      <3>1. VolumeOf(Append(<<>>, new)) = VolumeOf(<<>>) + new.volume
        BY <1>12, <2>3, VolumeOfMore
      <3> QED  BY <1>3, <1>12, <3>1, VolumeOfNone
    <2>5. BarsShaped(ms, n + 1, Append(<<>>, new))
      <3>1. BarsShaped(ms, n, <<>>) /\ \A k \in 1 .. Len(<<>>) : (<<>>[k]).ts < new.ts
        BY <1>8, <2>1, <2>3
      <3> QED  BY <1>12, <2>3, <3>1, BarAdded
    <2>6. VolumeOf(Append(<<>>, new)) <= GrowthTo(ms, n + 1)
      BY <1>3, <1>7, <2>4
    <2> QED  BY <1>11, <1>12, <2>2, <2>3, <2>5, <2>6 DEF b
  <1>14. CASE Ups(ms, n) # {}
    <2> DEFINE old == a.forming
    <2>1. /\ old \in Bar /\ a.window = old.ts /\ old # NoBar /\ old.ts \in Nat
          /\ old.ts = WindowIn(ms, n) /\ old.ts <= w
      <3>1. old \in Bar /\ a.window = old.ts /\ a.window = WindowIn(ms, n)
        BY <1>14 DEF AggFits
      <3>2. WindowIn(ms, n) <= w
        BY <1>1, <1>14, NextWindowIn
      <3> QED  BY <1>10, <3>1, <3>2 DEF Bar
    <2>2. AllBars(a) = Append(a.completed, old)
      BY <2>1 DEF AllBars
    <2>3. /\ Append(a.completed, old) \in Seq(Bar)
          /\ VolumeOf(Append(a.completed, old)) = VolumeOf(a.completed) + old.volume
          /\ VolumeOf(a.completed) \in Nat /\ old.volume \in Nat
      <3>1. old.volume \in Nat
        BY <2>1 DEF Bar
      <3> QED  BY <1>8, <2>1, <3>1, VolumeOfMore, BarVolumes
    <2>4. CASE w # old.ts
      <3> DEFINE list == Append(a.completed, old)
      <3>1. b.forming = new /\ b.completed = list
        BY <1>9, <2>1, <2>4 DEF new
      <3>2. list \in Seq(Bar) /\ BarsShaped(ms, n, list) /\ VolumeOf(list) <= GrowthTo(ms, n)
            /\ VolumeOf(list) \in Nat
        BY <1>8, <2>2, <2>3
      <3>3. \A k \in 1 .. Len(list) : list[k].ts < new.ts
        <4> DEFINE l == Len(a.completed)
        <4>1. l \in Nat /\ Len(list) = l + 1 /\ list[l + 1] = old /\ DOMAIN list = 1 .. l + 1
          BY <1>8, <2>1, <3>2, VolumeOfMore, BarVolumes
        <4>2. \A i, j \in 1 .. l + 1 : i < j => list[i].ts < list[j].ts
          BY <3>2, <4>1 DEF BarsShaped
        <4>3. \A k \in 1 .. l + 1 : list[k].ts \in Nat
          BY <3>2, <4>1, BarVolumes DEF Bar
        <4>4. old.ts < w
          BY <1>4, <2>1, <2>4
        <4> HIDE DEF list, l, old
        <4>5. ASSUME NEW k \in 1 .. l + 1  PROVE list[k].ts < w
          <5>1. CASE k = l + 1
            BY <4>1, <4>4, <5>1
          <5>2. CASE k # l + 1
            <6>1. k < l + 1 /\ l + 1 \in 1 .. l + 1
              BY <4>1, <5>2
            <6>2. list[k].ts < list[l + 1].ts
              BY <4>2, <6>1
            <6> QED  BY <1>4, <2>1, <4>1, <4>3, <4>4, <6>2
          <5> QED  BY <5>1, <5>2
        <4> QED  BY <1>12, <4>1, <4>5
      <3> HIDE DEF list
      <3>4. BarsShaped(ms, n + 1, Append(list, new))
        BY <1>12, <3>2, <3>3, BarAdded
      <3>5. VolumeOf(Append(list, new)) <= GrowthTo(ms, n + 1)
        <4>1. VolumeOf(Append(list, new)) = VolumeOf(list) + v.delta
          BY <1>12, <3>2, VolumeOfMore
        <4> QED  BY <1>3, <1>7, <3>2, <4>1
      <3> QED  BY <1>11, <1>12, <3>1, <3>2, <3>4, <3>5 DEF b
    <2>5. CASE w = old.ts
      <3> DEFINE wide == Widened(old, p, v.delta)
      <3>1. b.forming = wide /\ b.completed = a.completed
        BY <1>9, <2>1, <2>5
      <3>2. /\ wide \in Bar /\ wide.ts = w /\ wide.volume = old.volume + v.delta /\ wide.open = old.open
            /\ wide.high = (IF old.high >= p THEN old.high ELSE p)
            /\ wide.low = (IF old.low <= p THEN old.low ELSE p) /\ wide.close = p
        <4> DEFINE d == v.delta
        <4>1. old \in Bar /\ p \in Prices /\ d \in Nat
          BY <1>2, <1>3, <2>1
        <4> HIDE DEF old, p, d
        <4>2. /\ Widened(old, p, d) \in Bar /\ Widened(old, p, d).ts = old.ts
              /\ Widened(old, p, d).volume = old.volume + d
              /\ Widened(old, p, d).open = old.open
              /\ Widened(old, p, d).high = (IF old.high >= p THEN old.high ELSE p)
              /\ Widened(old, p, d).low = (IF old.low <= p THEN old.low ELSE p)
              /\ Widened(old, p, d).close = p
          BY <4>1, WidenedOf
        <4> QED  BY <2>5, <4>2 DEF d
      <3> HIDE DEF wide
      <3>3. BarsShaped(ms, n + 1, Append(a.completed, wide))
        <4>1. BarsShaped(ms, n, Append(a.completed, old))
          BY <1>8, <2>2
        <4> HIDE DEF old
        <4> QED  BY <1>8, <2>1, <2>5, <3>2, <4>1, BarWidened
      <3>4. VolumeOf(Append(a.completed, wide)) <= GrowthTo(ms, n + 1)
        <4>1. VolumeOf(Append(a.completed, wide)) = VolumeOf(a.completed) + (old.volume + v.delta)
          BY <1>8, <3>2, VolumeOfMore
        <4>2. VolumeOf(a.completed) + old.volume <= GrowthTo(ms, n)
          BY <1>8, <2>2, <2>3
        <4> QED  BY <1>3, <1>7, <2>3, <4>1, <4>2
      <3> QED  BY <1>8, <1>11, <3>1, <3>2, <3>3, <3>4 DEF b
    <2> QED  BY <2>4, <2>5
  <1> QED  BY <1>13, <1>14 DEF b

\* What fits the messages so far does so in every longer list of them.
LEMMA SameShapeIn ==
    ASSUME NEW v, NEW w, NEW n \in Nat, NEW at \in SUBSET (1 .. n), at # {},
           \A i \in at : PriceIn(v, i) = PriceIn(w, i)
    PROVE  ShapeIn(v, at) = ShapeIn(w, at)
  <1>1. Min(at) \in at /\ Max(at) \in at
    <2>1. at \in SUBSET Nat
      OBVIOUS
    <2> QED  BY <2>1, MinOf, LastOf
  <1>2. PriceIn(v, Min(at)) = PriceIn(w, Min(at)) /\ PriceIn(v, Max(at)) = PriceIn(w, Max(at))
    BY <1>1
  <1>3. {PriceIn(v, i) : i \in at} = {PriceIn(w, i) : i \in at}
    OBVIOUS
  <1> QED  BY <1>2, <1>3 DEF ShapeIn

LEMMA SameBars ==
    ASSUME NEW v, NEW w, NEW n \in Nat, \A i \in 1 .. n : v[i] = w[i],
           NEW list, BarsShaped(v, n, list)
    PROVE  BarsShaped(w, n, list)
  <1>1. \A i \in 0 .. n : /\ PriceIn(v, i) = PriceIn(w, i) /\ Ups(v, i) = Ups(w, i)
                          /\ WindowIn(v, i) = WindowIn(w, i)
    BY SamePrefix
  <1>2. n \in 0 .. n /\ Ups(v, n) = Ups(w, n) /\ Ups(v, n) \subseteq 1 .. n /\ 1 .. n \subseteq 0 .. n
    <2>1. n \in 0 .. n /\ 1 .. n \subseteq 0 .. n
      OBVIOUS
    <2> QED  BY <1>1, <2>1 DEF Ups
  <1>3. WindowsIn(v, n) = WindowsIn(w, n)
    <2>1. \A i \in Ups(v, n) : WindowIn(v, i) = WindowIn(w, i)
      BY <1>1, <1>2
    <2> QED  BY <1>2, <2>1 DEF WindowsIn
  <1>4. \A t : InWindow(v, n, t) = InWindow(w, n, t)
    <2>1. \A i \in Ups(v, n) : WindowIn(v, i) = WindowIn(w, i)
      BY <1>1, <1>2
    <2> QED  BY <1>2, <2>1 DEF InWindow
  <1>5. /\ {list[k].ts : k \in DOMAIN list} = WindowsIn(v, n)
        /\ \A k, l \in DOMAIN list : k < l => list[k].ts < list[l].ts
        /\ \A k \in DOMAIN list : SameShape(list[k], ShapeIn(v, InWindow(v, n, list[k].ts)))
    BY DEF BarsShaped
  <1>6. ASSUME NEW k \in DOMAIN list
        PROVE  SameShape(list[k], ShapeIn(w, InWindow(w, n, list[k].ts)))
    <2> DEFINE t == list[k].ts
               at == InWindow(v, n, t)
    <2>1. t \in WindowsIn(v, n)
      BY <1>5
    <2>2. at # {} /\ at \in SUBSET (1 .. n)
      BY <1>2, <2>1 DEF WindowsIn, InWindow
    <2>3. at = InWindow(w, n, t)
      BY <1>4
    <2>4. SameShape(list[k], ShapeIn(v, at))
      BY <1>5
    <2> HIDE DEF at
    <2>5. \A i \in at : PriceIn(v, i) = PriceIn(w, i)
      BY <1>1, <1>2, <2>2
    <2>6. ShapeIn(v, at) = ShapeIn(w, at)
      BY <2>2, <2>5, SameShapeIn
    <2> QED  BY <2>3, <2>4, <2>6
  <1> QED  BY <1>3, <1>5, <1>6 DEF BarsShaped

LEMMA SameGrowth ==
    ASSUME NEW v, NEW w, NEW n \in Nat, \A i \in 1 .. n : v[i] = w[i]
    PROVE  GrowthTo(v, n) = GrowthTo(w, n)
  <1>1. ASSUME NEW i \in 1 .. n  PROVE Grown(v, i) = Grown(w, i)
    <2> DEFINE hv == {j \in 1 .. i - 1 : v[j].volume # None}
               hw == {j \in 1 .. i - 1 : w[j].volume # None}
    <2>1. \A j \in 1 .. i - 1 : j \in 1 .. n
      OBVIOUS
    <2>2. hv = hw
      BY <2>1
    <2>3. v[i] = w[i]
      OBVIOUS
    <2>4. hv # {} => v[Max(hv)] = w[Max(hv)]
      <3>1. i - 1 \in Nat /\ hv \in SUBSET (1 .. i - 1)
        OBVIOUS
      <3> HIDE DEF hv
      <3>2. hv # {} => Max(hv) \in 1 .. i - 1
        BY <3>1, LastOf
      <3> QED  BY <2>1, <3>2
    <2>5. Grown(v, i) = IF v[i].volume = None \/ hv = {} THEN 0
                        ELSE Max({0, v[i].volume - v[Max(hv)].volume})
      BY DEF Grown
    <2>6. Grown(w, i) = IF w[i].volume = None \/ hw = {} THEN 0
                        ELSE Max({0, w[i].volume - w[Max(hw)].volume})
      BY DEF Grown
    <2> HIDE DEF hv, hw
    <2> QED  BY <2>2, <2>3, <2>4, <2>5, <2>6
  <1>2. [i \in 1 .. n |-> Grown(v, i)] = [i \in 1 .. n |-> Grown(w, i)]
    BY <1>1
  <1> QED  BY <1>2 DEF GrowthTo

LEMMA SameState ==
    ASSUME NEW v, NEW w, NEW n \in Nat, \A i \in 1 .. n : v[i] = w[i],
           NEW s, StateFits(v, n, s)
    PROVE  StateFits(w, n, s)
  <1>1. n \in 0 .. n
    OBVIOUS
  <1>2. /\ QuotedBy(v, n) = QuotedBy(w, n) /\ PriceIn(v, n) = PriceIn(w, n)
        /\ VolumeIn(v, n) = VolumeIn(w, n) /\ Ups(v, n) = Ups(w, n) /\ WindowIn(v, n) = WindowIn(w, n)
    BY <1>1, SamePrefix
  <1>3. GrowthTo(v, n) = GrowthTo(w, n)
    BY SameGrowth
  <1>4. BarsShaped(w, n, AllBars(s.agg))
    <2>1. BarsShaped(v, n, AllBars(s.agg))
      BY DEF StateFits, AggFits
    <2> QED  BY <2>1, SameBars
  <1> QED  BY <1>2, <1>3, <1>4 DEF StateFits, CacheFits, AggFits

\* _handle_quote keeps the fit.
LEMMA QuoteFits ==
    ASSUME NEW ms \in Seq(Msgs), NEW n \in 0 .. Len(ms) - 1, NEW s, StateFits(ms, n, s)
    PROVE  StateFits(ms, n + 1, HandleQuote(s, ms[n + 1]))
  <1> DEFINE m == ms[n + 1]
             cache == Merged(s.cache, m)
             ks == HandleQuote(s, m)
  <1>1. n \in Nat /\ n + 1 \in 0 .. Len(ms) /\ n \in 0 .. Len(ms) /\ n + 1 \in 1 .. Len(ms)
    BY MsgOf
  <1>2. m \in Msgs /\ m.quoted \in BOOLEAN
    BY <1>1, MsgOf
  <1>3. cache = [quoted |-> QuotedBy(ms, n + 1), last |-> PriceIn(ms, n + 1), volume |-> VolumeIn(ms, n + 1)]
    <2>1. s.cache = [quoted |-> QuotedBy(ms, n), last |-> PriceIn(ms, n), volume |-> VolumeIn(ms, n)]
      BY DEF StateFits, CacheFits
    <2>2. cache = [quoted |-> QuotedBy(ms, n) \/ m.quoted, last |-> Updated(PriceIn(ms, n), m.last),
                   volume |-> Updated(VolumeIn(ms, n), m.volume)]
      BY <2>1 DEF Merged
    <2>3. QuotedBy(ms, n + 1) = (QuotedBy(ms, n) \/ m.quoted)
      BY <1>1, <1>2, NextQuoted
    <2>4. PriceIn(ms, n + 1) = Updated(PriceIn(ms, n), m.last)
          /\ VolumeIn(ms, n + 1) = Updated(VolumeIn(ms, n), m.volume)
      BY <1>1, NextPrice, NextVolume
    <2> QED  BY <2>2, <2>3, <2>4
  <1>4. Emits(cache) <=> Counts(ms, n + 1)
    <2>1. PriceIn(ms, n + 1) = None <=> Priced(ms, n + 1) = {}
      <3> DEFINE k == n + 1
      <3>1. k \in 0 .. Len(ms)
        BY <1>1
      <3> HIDE DEF k
      <3>2. PriceIn(ms, k) = None <=> Priced(ms, k) = {}
        BY <3>1, PriceOf
      <3> QED  BY <3>2 DEF k
    <2> QED  BY <1>3, <2>1 DEF Emits, Counts
  <1>5. AggFits(ms, n, s.agg)
    BY DEF StateFits
  <1>6. ks.cache = cache
        /\ ks.agg = IF Emits(cache) THEN IngestPrice(s.agg, m.ts, cache.last, cache.volume) ELSE s.agg
    BY DEF HandleQuote
  <1>7. CacheFits(ms, n + 1, ks.cache)
    BY <1>3, <1>6 DEF CacheFits
  <1>8. AggFits(ms, n + 1, ks.agg)
    <2>1. CASE Counts(ms, n + 1)
      <3>1. ks.agg = IngestPrice(s.agg, m.ts, PriceIn(ms, n + 1), VolumeIn(ms, n + 1))
        BY <1>3, <1>4, <1>6, <2>1
      <3> QED  BY <1>5, <2>1, <3>1, UpdateFits
    <2>2. CASE ~Counts(ms, n + 1)
      <3>1. ks.agg = s.agg
        BY <1>4, <1>6, <2>2
      <3>2. Ups(ms, n) = {} /\ Ups(ms, n + 1) = {}
        BY <1>1, <2>2, NextUps
      <3>3. BarsShaped(ms, n + 1, AllBars(s.agg))
        <4>1. WindowsIn(ms, n) = WindowsIn(ms, n + 1)
              /\ \A w : InWindow(ms, n, w) = InWindow(ms, n + 1, w)
          BY <3>2 DEF WindowsIn, InWindow
        <4>2. BarsShaped(ms, n, AllBars(s.agg))
          BY <1>5 DEF AggFits
        <4>3. AllBars(s.agg) = <<>>
          BY <1>5, <3>2 DEF AggFits, AllBars
        <4>4. WindowsIn(ms, n + 1) = {}
          BY <3>2 DEF WindowsIn
        <4> QED  BY <4>3, <4>4 DEF BarsShaped
      <3>4. VolumeOf(AllBars(s.agg)) <= GrowthTo(ms, n + 1)
        <4>1. AllBars(s.agg) = <<>>
          BY <1>5, <3>2 DEF AggFits, AllBars
        <4>2. GrowthTo(ms, n + 1) \in Nat
          <5> DEFINE k == n + 1
          <5>1. k \in 0 .. Len(ms)
            BY <1>1
          <5> HIDE DEF k
          <5>2. GrowthTo(ms, k) \in Nat
            BY <5>1, GrowthOf
          <5> QED  BY <5>2 DEF k
        <4> QED  BY <4>1, <4>2, VolumeOfNone
      <3> QED  BY <1>5, <3>1, <3>2, <3>3, <3>4 DEF AggFits
    <2> QED  BY <2>1, <2>2
  <1> QED  BY <1>7, <1>8 DEF StateFits

\* The reference's words for the messages are the proof's.
LEMMA SameWords ==
    ASSUME NEW n \in Nat, messages \in Seq(Msgs), n = Len(messages)
    PROVE  /\ Updates = Ups(messages, n)
           /\ \A i \in Updates : PriceAt(i) = PriceIn(messages, i) /\ WindowAt(i) = WindowIn(messages, i)
  <1>1. DOMAIN messages = 1 .. n
    BY MsgOf
  <1>2. ASSUME NEW i \in 1 .. n
        PROVE  /\ (LastWith(i, "quoted") # 0 /\ LastWith(i, "last") # 0) <=> Counts(messages, i)
               /\ Counts(messages, i) => PriceAt(i) = PriceIn(messages, i)
    <2> DEFINE hq == {j \in 1 .. i : Has(j, "quoted")}
               hl == {j \in 1 .. i : Has(j, "last")}
    <2>1. hl = Priced(messages, i)
      BY DEF Has, Priced
    <2>2. hq # {} <=> QuotedBy(messages, i)
      <3>0. \A j \in 1 .. i : j \in 1 .. Len(messages)
        OBVIOUS
      <3>1. \A j \in 1 .. i : messages[j].quoted \in BOOLEAN
        BY <3>0, MsgOf
      <3> QED  BY <3>1 DEF Has, QuotedBy
    <2>3. LastWith(i, "quoted") = (IF hq = {} THEN 0 ELSE Max(hq))
          /\ LastWith(i, "last") = (IF hl = {} THEN 0 ELSE Max(hl))
      BY DEF LastWith
    <2>4. hq \in SUBSET (1 .. i) /\ hl \in SUBSET (1 .. i) /\ i \in Nat
      OBVIOUS
    <2> HIDE DEF hq, hl
    <2>5. (hq # {} => Max(hq) \in 1 .. i) /\ (hl # {} => Max(hl) \in 1 .. i)
      BY <2>4, LastOf
    <2>6. (LastWith(i, "quoted") # 0 <=> hq # {}) /\ (LastWith(i, "last") # 0 <=> hl # {})
      <3>1. \A k \in 1 .. i : k # 0
        OBVIOUS
      <3>2. LastWith(i, "quoted") # 0 <=> hq # {}
        BY <2>3, <2>5, <3>1
      <3>3. LastWith(i, "last") # 0 <=> hl # {}
        BY <2>3, <2>5, <3>1
      <3> QED  BY <3>2, <3>3
    <2>7. hl # {} => PriceAt(i) = PriceIn(messages, i)
      BY <2>1, <2>3 DEF PriceAt, PriceIn
    <2> QED  BY <2>1, <2>2, <2>6, <2>7 DEF Counts
  <1>3. Updates = Ups(messages, n)
    BY <1>1, <1>2 DEF Updates, Ups
  <1>4. ASSUME NEW i \in Updates
        PROVE  WindowAt(i) = WindowIn(messages, i)
    <2>1. {k \in Updates : k <= i} = Ups(messages, i)
      BY <1>3 DEF Ups
    <2> QED  BY <2>1 DEF WindowAt, WindowIn, Times
  <1> QED  BY <1>2, <1>3, <1>4 DEF Ups

LEMMA SameShapes ==
    ASSUME NEW n \in Nat, messages \in Seq(Msgs), n = Len(messages),
           NEW at \in SUBSET Updates, at # {}
    PROVE  Shape(at) = ShapeIn(messages, at)
  <1>1. Updates \subseteq 1 .. n
    BY SameWords DEF Ups
  <1>2. Min(at) \in at /\ Max(at) \in at
    <2>1. at \in SUBSET Nat /\ at \in SUBSET (1 .. n)
      BY <1>1
    <2> QED  BY <2>1, MinOf, LastOf
  <1>3. \A i \in at : PriceAt(i) = PriceIn(messages, i)
    BY SameWords
  <1>4. {PriceAt(i) : i \in at} = {PriceIn(messages, i) : i \in at}
    BY <1>3
  <1> QED  BY <1>2, <1>3, <1>4 DEF Shape, ShapeIn

\* The bars that fit the messages are the reference's.
LEMMA FitIsTrue ==
    ASSUME NEW n \in Nat, messages \in Seq(Msgs), n = Len(messages), StateFits(messages, n, live)
    PROVE  LiveBarsTrue
  <1> DEFINE a == live.agg
             bars == AllBars(a)
             l == Len(bars)
  <1>0. n \in 0 .. Len(messages)
    OBVIOUS
  <1>1. /\ live.cache.last = PriceIn(messages, n) /\ Len(a.deltas) <= MaxDeltas
        /\ a.completed \in Seq(Bar) /\ (a.forming = NoBar \/ a.forming \in Bar)
        /\ BarsShaped(messages, n, bars) /\ VolumeOf(bars) <= GrowthTo(messages, n)
    BY DEF StateFits, CacheFits, AggFits
  <1>2. bars \in Seq(Bar)
    BY <1>1, VolumeOfMore DEF AllBars
  <1> HIDE DEF a, bars
  <1>3. l \in Nat /\ DOMAIN bars = 1 .. l /\ \A i \in 1 .. l : bars[i] \in Bar
    BY <1>2, BarVolumes
  <1>4. /\ {bars[k].ts : k \in 1 .. l} = WindowsIn(messages, n)
        /\ \A i, k \in 1 .. l : i < k => bars[i].ts < bars[k].ts
        /\ \A k \in 1 .. l : SameShape(bars[k], ShapeIn(messages, InWindow(messages, n, bars[k].ts)))
    BY <1>1, <1>3 DEF BarsShaped
  <1> HIDE DEF l
  <1>5. Updates = Ups(messages, n)
        /\ \A i \in Updates : PriceAt(i) = PriceIn(messages, i) /\ WindowAt(i) = WindowIn(messages, i)
    BY SameWords
  <1>6. ASSUME NEW w \in WindowsIn(messages, n)  PROVE w % Window = 0
    <2>1. PICK i \in Ups(messages, n) : w = WindowIn(messages, i)
      BY DEF WindowsIn
    <2>2. PICK j \in Int : j = i - 1
      BY DEF Ups
    <2>3. i = j + 1 /\ j \in Nat /\ j < Len(messages) /\ Counts(messages, i)
      BY <2>2 DEF Ups
    <2>4. WindowIn(messages, j + 1) % Window = 0
      BY <2>3, NextWindowIn
    <2> QED  BY <2>1, <2>3, <2>4
  <1>7. BarsTypeOK
    <2>1. live.cache.last \in Prices \cup {None}
      BY <1>0, <1>1, PriceOf
    <2>2. ASSUME NEW k \in 1 .. l
          PROVE  /\ bars[k].ts % Window = 0 /\ bars[k].volume \in Nat
                 /\ {bars[k].open, bars[k].high, bars[k].low, bars[k].close} \subseteq Prices
      <3>1. bars[k] \in Bar /\ bars[k].ts \in WindowsIn(messages, n)
        BY <1>3, <1>4
      <3> QED  BY <1>6, <3>1 DEF Bar
    <2> QED  BY <1>1, <1>3, <2>1, <2>2 DEF BarsTypeOK, a, bars
  <1>8. BarsTrue
    <2>1. {WindowAt(i) : i \in Updates} = WindowsIn(messages, n)
      BY <1>5 DEF WindowsIn
    <2>2. ASSUME NEW k \in 1 .. l
          PROVE  SameShape(bars[k], Shape({i \in Updates : WindowAt(i) = bars[k].ts}))
      <3> DEFINE t == bars[k].ts
                 at == {i \in Updates : WindowAt(i) = t}
      <3>1. at = InWindow(messages, n, t)
        BY <1>5 DEF InWindow
      <3>2. at # {} /\ at \in SUBSET Updates
        <4>1. t \in {WindowAt(i) : i \in Updates}
          BY <1>4, <2>1
        <4> QED  BY <4>1
      <3>3. SameShape(bars[k], ShapeIn(messages, InWindow(messages, n, t)))
        BY <1>4
      <3> HIDE DEF at
      <3>4. Shape(at) = ShapeIn(messages, at)
        BY <3>2, SameShapes
      <3>5. SameShape(bars[k], Shape(at))
        BY <3>1, <3>3, <3>4
      <3> QED  BY <3>5 DEF at
    <2> QED  BY <1>3, <1>4, <2>1, <2>2 DEF BarsTrue, bars, a
  <1>9. VolumeNotInvented
    <2>1. Growth(messages) = GrowthTo(messages, n)
      <3>1. DOMAIN messages = 1 .. n
        BY MsgOf
      <3> QED  BY <3>1 DEF Growth, GrowthTo
    <2> QED  BY <1>1, <2>1 DEF VolumeNotInvented, bars, a
  <1> QED  BY <1>7, <1>8, <1>9 DEF LiveBarsTrue

-----------------------------------------------------------------------------
\* What the cache and the aggregator hold fits all the messages there were.
BarsInv == messages \in Seq(Msgs) /\ traded \in Nat /\ StateFits(messages, Len(messages), live)

LEMMA BarsInitInv == BarsInit => BarsInv
  <1> SUFFICES ASSUME BarsInit  PROVE BarsInv
    OBVIOUS
  <1>1. messages = <<>> /\ traded = 0 /\ live = Fresh /\ messages \in Seq(Msgs) /\ Len(messages) = 0
    BY DEF BarsInit
  <1>2. /\ ~QuotedBy(<<>>, 0) /\ PriceIn(<<>>, 0) = None /\ VolumeIn(<<>>, 0) = None /\ Ups(<<>>, 0) = {}
    BY NoneYet
  <1>3. QuotedBy(<<>>, 0) = FALSE
    BY <1>2 DEF QuotedBy
  <1>4. CacheFits(<<>>, 0, live.cache)
    BY <1>1, <1>2, <1>3 DEF CacheFits, Fresh, NewCache
  <1>5. live.agg = NewAggregator /\ AllBars(live.agg) = <<>>
    BY <1>1 DEF Fresh, NewAggregator, AllBars
  <1>6. BarsShaped(<<>>, 0, <<>>)
    BY <1>2 DEF BarsShaped, WindowsIn
  <1>7. GrowthTo(<<>>, 0) \in Nat
    <2>1. <<>> \in Seq(Msgs) /\ 0 \in 0 .. Len(<<>>)
      OBVIOUS
    <2> QED  BY <2>1, GrowthOf
  <1>8. AggFits(<<>>, 0, live.agg)
    <2>1. MaxDeltas \in Nat
      BY BarsAssumption
    <2>2. [volume |-> None, ts |-> 0] \in Baselines /\ <<>> \in Seq(Nat) /\ Len(<<>>) = 0 /\ <<>> \in Seq(Bar)
      BY DEF Baselines
    <2>3. VolumeOf(<<>>) <= GrowthTo(<<>>, 0)
      BY <1>7, VolumeOfNone
    <2> QED  BY <1>2, <1>5, <1>6, <2>1, <2>2, <2>3 DEF AggFits, NewAggregator
  <1> QED  BY <1>1, <1>4, <1>8 DEF BarsInv, StateFits

LEMMA BarsNextInv == BarsInv /\ [BarsNext]_barsVars => BarsInv'
  <1> SUFFICES ASSUME BarsInv, [BarsNext]_barsVars  PROVE BarsInv'
    OBVIOUS
  <1>1. CASE UNCHANGED barsVars
    BY <1>1 DEF barsVars, BarsInv
  <1>2. CASE Message
    <2>1. PICK ts \in 0 .. MaxTime, quoted \in BOOLEAN, last \in Prices \cup {None},
               volume \in {None, 0} \cup {traded + g : g \in Gains} :
            LET m == [ts |-> ts, quoted |-> quoted, last |-> last, volume |-> volume] IN
            /\ traded' = Updated(traded, volume)
            /\ messages' = Append(messages, m) /\ live' = HandleQuote(live, m)
      BY <1>2 DEF Message
    <2> DEFINE m == [ts |-> ts, quoted |-> quoted, last |-> last, volume |-> volume]
               n == Len(messages)
               more == Append(messages, m)
    <2>2. volume \in Nat \cup {None} /\ traded' \in Nat
      <3>1. Gains \subseteq Nat /\ traded \in Nat
        BY BarsAssumption DEF BarsInv
      <3>2. volume \in Nat \cup {None}
        BY <3>1
      <3> QED  BY <2>1, <3>1, <3>2 DEF Updated
    <2>3. m \in Msgs /\ messages \in Seq(Msgs) /\ n \in Nat
      BY <2>2 DEF Msgs, BarsInv
    <2> HIDE DEF m
    <2>4. /\ more \in Seq(Msgs) /\ Len(more) = n + 1 /\ more[n + 1] = m
          /\ \A i \in 1 .. n : messages[i] = more[i]
      BY <2>3, AppendProperties
    <2>5. messages' = more /\ live' = HandleQuote(live, m)
      BY <2>1 DEF m
    <2> HIDE DEF more, n
    <2>6. StateFits(more, n, live)
      <3>1. StateFits(messages, n, live)
        BY DEF BarsInv, n
      <3> QED  BY <2>3, <2>4, <3>1, SameState
    <2>7. StateFits(more, n + 1, HandleQuote(live, m))
      <3>1. n \in 0 .. Len(more) - 1
        BY <2>3, <2>4
      <3> QED  BY <2>4, <2>6, <3>1, QuoteFits
    <2> QED  BY <2>2, <2>4, <2>5, <2>7 DEF BarsInv
  <1> QED  BY <1>1, <1>2 DEF BarsNext

\* The ten-second bars of the live messages are the reference's: a bar for each
\* window with updates and none for another, in order, each with the prices of
\* its window's updates, whatever their times do; and they hold no more volume
\* than the messages say was traded.  (BarAggregator10s.ingest_price,
\* CompanionRuntime._handle_quote.)
THEOREM LiveBarsHold == BarsSpec => []LiveBarsTrue
  <1>1. BarsInv => LiveBarsTrue
    <2> SUFFICES ASSUME BarsInv  PROVE LiveBarsTrue
      OBVIOUS
    <2>1. PICK n \in Nat : n = Len(messages)
      BY MsgOf DEF BarsInv
    <2>2. messages \in Seq(Msgs) /\ StateFits(messages, n, live)
      BY <2>1 DEF BarsInv
    <2> QED  BY <2>1, <2>2, FitIsTrue
  <1> QED  BY <1>1, BarsInitInv, BarsNextInv, PTL DEF BarsSpec

-----------------------------------------------------------------------------
(* Replaying a recording.                                                  *)

\* The state of the runner after the lines.
After(lines) ==
    LET after[n \in 0 .. Len(lines)] == IF n = 0 THEN Fresh ELSE FeedRecord(after[n - 1], lines[n])
    IN after[Len(lines)]
IsReplay(f, lines) ==
    f[0] = Fresh /\ \A n \in 1 .. Len(lines) : f[n] = FeedRecord(f[n - 1], lines[n])

LEMMA ReplayExists ==
    ASSUME NEW lines, Len(lines) \in Nat
    PROVE  \E f : f = [n \in 0 .. Len(lines) |->
                          IF n = 0 THEN Fresh ELSE FeedRecord(f[n - 1], lines[n])]
  <1> DEFINE Upto(f, m) == f = [n \in 0 .. m |-> IF n = 0 THEN Fresh ELSE FeedRecord(f[n - 1], lines[n])]
  <1> DEFINE T == {m \in 0 .. Len(lines) : ~ \E f : Upto(f, m)}
  <1> SUFFICES ASSUME T # {} PROVE FALSE
    OBVIOUS
  <1>0. T \in SUBSET Nat
    OBVIOUS
  <1>1. PICK m \in T : \A n \in T : m <= n
    <2> HIDE DEF T
    <2> QED  BY LeastNatural, <1>0
  <1>2. m # 0
    <2> SUFFICES ASSUME m = 0 PROVE FALSE
      OBVIOUS
    <2> DEFINE z == [n \in 0 .. 0 |-> Fresh]
    <2>1. Upto(z, 0)
      BY SMT
    <2> QED  BY <1>1, <2>1
  <1>3. m \in Nat /\ m - 1 \in 0 .. Len(lines) /\ m - 1 \notin T
    <2>1. m \in 0 .. Len(lines)
      OBVIOUS
    <2> HIDE DEF T
    <2>2. \A n \in T : n \in Nat
      BY <1>0
    <2> QED  BY <1>1, <1>2, <2>1, <2>2
  <1>4. PICK g : Upto(g, m - 1)
    BY <1>3
  <1> DEFINE h == [n \in 0 .. m |-> IF n = 0 THEN Fresh ELSE FeedRecord(g[n - 1], lines[n])]
  <1>5. \A n \in 0 .. m : n # m => h[n] = g[n]
    BY <1>1, <1>4
  <1>6. Upto(h, m)
    <2>1. \A n \in 0 .. m : (IF n = 0 THEN Fresh ELSE FeedRecord(g[n - 1], lines[n]))
                            = (IF n = 0 THEN Fresh ELSE FeedRecord(h[n - 1], lines[n]))
      BY <1>5, <1>1
    <2> HIDE DEF T
    <2>2. h = [n \in 0 .. m |-> IF n = 0 THEN Fresh ELSE FeedRecord(g[n - 1], lines[n])]
      OBVIOUS
    <2> HIDE DEF h
    <2> QED  BY <2>1, <2>2
  <1> QED  BY <1>1, <1>6

LEMMA ReplayOf ==
    ASSUME NEW lines, Len(lines) \in Nat
    PROVE  \E f : IsReplay(f, lines) /\ After(lines) = f[Len(lines)]
  <1> DEFINE after[n \in 0 .. Len(lines)] == IF n = 0 THEN Fresh ELSE FeedRecord(after[n - 1], lines[n])
  <1>1. After(lines) = after[Len(lines)]
    BY DEF After
  <1>2. PICK g : g = [n \in 0 .. Len(lines) |-> IF n = 0 THEN Fresh ELSE FeedRecord(g[n - 1], lines[n])]
    BY ReplayExists
  <1>3. after = [n \in 0 .. Len(lines) |-> IF n = 0 THEN Fresh ELSE FeedRecord(after[n - 1], lines[n])]
    BY <1>2, Zenon
  <1>4. PICK s : /\ s = [n \in 0 .. Len(lines) |-> IF n = 0 THEN Fresh ELSE FeedRecord(s[n - 1], lines[n])]
                 /\ After(lines) = s[Len(lines)]
    BY <1>1, <1>3
  <1>5. s[0] = Fresh
    BY <1>4
  <1>6. ASSUME NEW n \in 1 .. Len(lines) PROVE s[n] = FeedRecord(s[n - 1], lines[n])
    <2>1. n \in 0 .. Len(lines) /\ n # 0
      OBVIOUS
    <2> QED  BY <2>1, <1>4
  <1>7. IsReplay(s, lines)
    BY <1>5, <1>6 DEF IsReplay
  <1> QED  BY <1>4, <1>7

\* A line more is fed to the state the others left.
LEMMA AfterMore ==
    ASSUME NEW lines \in Seq(Msgs), NEW m \in Msgs
    PROVE  After(<<>>) = Fresh /\ After(Append(lines, m)) = FeedRecord(After(lines), m)
  <1> DEFINE more == Append(lines, m)
             l == Len(lines)
  <1>1. /\ l \in Nat /\ Len(more) = l + 1 /\ more[l + 1] = m /\ \A i \in 1 .. l : more[i] = lines[i]
        /\ Len(<<>>) = 0
    BY AppendProperties, LenProperties
  <1> HIDE DEF more
  <1>2. PICK f : IsReplay(f, lines) /\ After(lines) = f[l]
    BY <1>1, ReplayOf
  <1>3. Len(more) \in Nat
    BY <1>1
  <1>4. PICK g : IsReplay(g, more) /\ After(more) = g[Len(more)]
    BY <1>3, ReplayOf
  <1> HIDE DEF l
  <1>a. /\ f[0] = Fresh /\ \A n \in 1 .. l : f[n] = FeedRecord(f[n - 1], lines[n])
        /\ g[0] = Fresh /\ \A n \in 1 .. l + 1 : g[n] = FeedRecord(g[n - 1], more[n])
    BY <1>1, <1>2, <1>4 DEF IsReplay, l
  <1>5. f[l] = g[l]
    <2> DEFINE T == {n \in 0 .. l : f[n] # g[n]}
    <2> SUFFICES ASSUME T # {} PROVE FALSE
      BY <1>1
    <2>0. T \in SUBSET Nat
      BY <1>1
    <2>1. PICK n \in T : \A k \in T : n <= k
      <3> HIDE DEF T
      <3> QED  BY LeastNatural, <2>0
    <2>2. n \in 1 .. l /\ n \in 1 .. l + 1 /\ n - 1 \in 0 .. l /\ n - 1 \notin T /\ f[n] # g[n]
      BY <1>1, <1>a, <2>1
    <2>3. f[n - 1] = g[n - 1] /\ lines[n] = more[n]
      BY <1>1, <2>2
    <2> QED  BY <1>a, <2>2, <2>3
  <1>6. After(more) = FeedRecord(After(lines), m)
    <2>1. l + 1 \in 1 .. l + 1 /\ (l + 1) - 1 = l
      BY <1>1
    <2>2. g[l + 1] = FeedRecord(g[(l + 1) - 1], more[l + 1])
      BY <1>a, <2>1
    <2> QED  BY <1>1, <1>2, <1>4, <1>5, <2>1, <2>2 DEF l
  <1>7. After(<<>>) = Fresh
    <2>1. Len(<<>>) \in Nat
      BY <1>1
    <2>2. PICK h : IsReplay(h, <<>>) /\ After(<<>>) = h[Len(<<>>)]
      BY <2>1, ReplayOf
    <2> QED  BY <1>1, <2>2 DEF IsReplay
  <1> QED  BY <1>6, <1>7 DEF more

\* What an update adds is the same after the same baseline, if no cap applies.
LEMMA SameDelta ==
    ASSUME NEW a, NEW l, a.baseline = l.baseline, l.baseline \in Baselines,
           a.deltas \in Seq(Nat), l.deltas \in Seq(Nat), Len(a.deltas) <= Len(l.deltas),
           Len(l.deltas) <= MaxDeltas, NEW ts \in Int, NEW volume \in Nat,
           Len(VolumeDelta(l, ts, volume).deltas) < WarmUp
    PROVE  LET va == VolumeDelta(a, ts, volume)
               vl == VolumeDelta(l, ts, volume)
           IN /\ va.baseline = vl.baseline /\ va.delta = vl.delta
              /\ va.deltas \in Seq(Nat) /\ Len(va.deltas) <= Len(vl.deltas)
              /\ Len(l.deltas) <= Len(vl.deltas)
  <1> DEFINE va == VolumeDelta(a, ts, volume)
             vl == VolumeDelta(l, ts, volume)
             delta == volume - l.baseline.volume
             ha == Remembered(Append(a.deltas, delta))
             hl == Remembered(Append(l.deltas, delta))
             base == [volume |-> volume, ts |-> ts]
  <1>0. volume # None /\ Len(a.deltas) \in Nat /\ Len(l.deltas) \in Nat /\ MaxDeltas \in Nat /\ WarmUp \in Nat
    BY LenProperties, BarsAssumption DEF None
  <1>1. CASE StartsOver(l.baseline, ts) \/ delta < 0
    <2>1. va = [baseline |-> base, deltas |-> a.deltas, delta |-> 0]
      BY <1>0, <1>1 DEF VolumeDelta
    <2>2. vl = [baseline |-> base, deltas |-> l.deltas, delta |-> 0]
      BY <1>0, <1>1 DEF VolumeDelta
    <2> QED  BY <1>0, <2>1, <2>2
  <1>2. CASE ~(StartsOver(l.baseline, ts) \/ delta < 0)
    <2>1. va = [baseline |-> base, deltas |-> ha, delta |-> Limited(delta, ha)]
      BY <1>0, <1>2 DEF VolumeDelta
    <2>2. vl = [baseline |-> base, deltas |-> hl, delta |-> Limited(delta, hl)]
      BY <1>0, <1>2 DEF VolumeDelta
    <2>3. delta \in Nat
      BY <1>0, <1>2 DEF StartsOver, Baselines
    <2> HIDE DEF delta
    <2>4. /\ ha \in Seq(Nat) /\ ha # <<>> /\ hl \in Seq(Nat) /\ hl # <<>>
          /\ Len(ha) = IF Len(a.deltas) + 1 > MaxDeltas THEN MaxDeltas ELSE Len(a.deltas) + 1
          /\ Len(hl) = IF Len(l.deltas) + 1 > MaxDeltas THEN MaxDeltas ELSE Len(l.deltas) + 1
      <3>1. Len(a.deltas) <= MaxDeltas
        BY <1>0
      <3> QED  BY <2>3, <3>1, RememberedOf
    <2> HIDE DEF ha, hl, va, vl, base
    <2>5. Len(ha) <= Len(hl) /\ Len(l.deltas) <= Len(hl) /\ Len(hl) \in Nat /\ Len(ha) \in Nat
      <3> DEFINE x == Len(a.deltas)
                 y == Len(l.deltas)
      <3>1. x \in Nat /\ y \in Nat /\ MaxDeltas \in Nat /\ x <= y /\ y <= MaxDeltas
        BY <1>0
      <3>2. /\ Len(ha) = IF x + 1 > MaxDeltas THEN MaxDeltas ELSE x + 1
            /\ Len(hl) = IF y + 1 > MaxDeltas THEN MaxDeltas ELSE y + 1
        BY <2>4
      <3> HIDE DEF x, y
      <3> QED  BY <3>1, <3>2 DEF y
    <2>6. Len(hl) < WarmUp /\ Len(ha) < WarmUp
      <3>1. Len(vl.deltas) < WarmUp
        BY DEF vl
      <3> QED  BY <1>0, <2>2, <2>5, <3>1
    <2>7. Limited(delta, ha) = delta /\ Limited(delta, hl) = delta
      BY <2>3, <2>4, <2>6, LimitedOf
    <2>8. va.baseline = base /\ vl.baseline = base /\ va.delta = delta /\ vl.delta = delta
          /\ va.deltas = ha /\ vl.deltas = hl
      BY <2>1, <2>2, <2>7
    <2>9. /\ va.baseline = vl.baseline /\ va.delta = vl.delta
          /\ va.deltas \in Seq(Nat) /\ Len(va.deltas) <= Len(vl.deltas)
          /\ Len(l.deltas) <= Len(vl.deltas)
      BY <2>4, <2>5, <2>8
    <2> QED  BY <2>9 DEF va, vl
  <1> QED  BY <1>1, <1>2

\* What a recorder that started later replays follows what is live.
Follows(a, l) ==
    /\ a.window = l.window /\ a.baseline = l.baseline
    /\ a.deltas \in Seq(Nat) /\ Len(a.deltas) <= Len(l.deltas)
    /\ a.forming \in Bar /\ l.forming \in Bar
    /\ a.completed \in Seq(Bar) /\ l.completed \in Seq(Bar)
    /\ a.completed # <<>> => a.forming = l.forming
    /\ \A i \in 2 .. Len(a.completed) : \E j \in 1 .. Len(l.completed) : a.completed[i] = l.completed[j]

LEMMA FollowsOn ==
    ASSUME NEW a, NEW l, Follows(a, l), l.baseline \in Baselines, l.deltas \in Seq(Nat),
           Len(l.deltas) <= MaxDeltas, NEW ts \in Nat, NEW price \in Prices, NEW volume \in Nat,
           WindowOf(l, ts) \in Nat, VolumeDelta(l, ts, volume).delta \in Nat,
           Len(IngestPrice(l, ts, price, volume).deltas) < WarmUp
    PROVE  /\ Follows(IngestPrice(a, ts, price, volume), IngestPrice(l, ts, price, volume))
           /\ Len(l.deltas) <= Len(IngestPrice(l, ts, price, volume).deltas)
  <1> DEFINE va == VolumeDelta(a, ts, volume)
             vl == VolumeDelta(l, ts, volume)
             w == WindowOf(l, ts)
             d == vl.delta
             na == IngestPrice(a, ts, price, volume)
             nl == IngestPrice(l, ts, price, volume)
             fa == a.forming
             fl == l.forming
             ca == a.completed
             cl == l.completed
             new == NewBar(w, price, d)
  <1>1. /\ a.window = l.window /\ a.baseline = l.baseline
        /\ a.deltas \in Seq(Nat) /\ Len(a.deltas) <= Len(l.deltas)
        /\ fa \in Bar /\ fl \in Bar /\ ca \in Seq(Bar) /\ cl \in Seq(Bar)
        /\ ca # <<>> => fa = fl
        /\ \A i \in 2 .. Len(ca) : \E j \in 1 .. Len(cl) : ca[i] = cl[j]
    BY DEF Follows
  <1>2. WindowOf(a, ts) = w
    BY <1>1 DEF WindowOf
  <1>3. vl.deltas = nl.deltas
    BY DEF IngestPrice
  <1>4. /\ va.baseline = vl.baseline /\ va.delta = d /\ va.deltas \in Seq(Nat)
        /\ Len(va.deltas) <= Len(vl.deltas) /\ Len(l.deltas) <= Len(vl.deltas)
    <2>1. Len(vl.deltas) < WarmUp
      BY <1>3
    <2> QED  BY <1>1, <2>1, SameDelta
  <1>5. fa # NoBar /\ fl # NoBar
    <2>1. \A bar \in Bar : bar # NoBar
      BY DEF Bar, NoBar, None
    <2> QED  BY <1>1, <2>1
  <1>6. /\ na.window = w /\ na.baseline = va.baseline /\ na.deltas = va.deltas
        /\ na.forming = (IF w # l.window THEN new ELSE Widened(fa, price, d))
        /\ na.completed = (IF w # l.window THEN Append(ca, fa) ELSE ca)
    BY <1>1, <1>2, <1>4, <1>5 DEF IngestPrice
  <1>7. /\ nl.window = w /\ nl.baseline = vl.baseline /\ nl.deltas = vl.deltas
        /\ nl.forming = (IF w # l.window THEN new ELSE Widened(fl, price, d))
        /\ nl.completed = (IF w # l.window THEN Append(cl, fl) ELSE cl)
    BY <1>5 DEF IngestPrice
  <1>8. w \in Nat /\ d \in Nat
    OBVIOUS
  <1>9. Len(ca) \in Nat /\ Len(cl) \in Nat /\ (ca # <<>> <=> Len(ca) # 0)
    BY <1>1, LenProperties, EmptySeq
  <1> HIDE DEF na, nl, va, vl, w, d, fa, fl, ca, cl
  <1>10. new \in Bar
    BY <1>8 DEF NewBar, Bar
  <1>11. Widened(fa, price, d) \in Bar /\ Widened(fl, price, d) \in Bar
    BY <1>1, <1>8, WidenedOf
  <1> HIDE DEF new
  <1>12. CASE w # l.window
    <2>1. na.forming = new /\ nl.forming = new /\ na.completed = Append(ca, fa) /\ nl.completed = Append(cl, fl)
      BY <1>6, <1>7, <1>12
    <2>2. /\ Append(ca, fa) \in Seq(Bar) /\ Len(Append(ca, fa)) = Len(ca) + 1
          /\ Append(ca, fa)[Len(ca) + 1] = fa /\ \A i \in 1 .. Len(ca) : Append(ca, fa)[i] = ca[i]
          /\ Append(cl, fl) \in Seq(Bar) /\ Len(Append(cl, fl)) = Len(cl) + 1
          /\ Append(cl, fl)[Len(cl) + 1] = fl /\ \A i \in 1 .. Len(cl) : Append(cl, fl)[i] = cl[i]
      BY <1>1, AppendProperties
    <2>3. ASSUME NEW i \in 2 .. Len(ca) + 1
          PROVE  \E j \in 1 .. Len(cl) + 1 : Append(ca, fa)[i] = Append(cl, fl)[j]
      <3>1. CASE i = Len(ca) + 1
        <4>1. Len(ca) # 0 /\ Append(ca, fa)[i] = fa
          BY <1>9, <2>2, <3>1
        <4>2. fa = fl
          BY <1>1, <1>9, <4>1
        <4>3. Len(cl) + 1 \in 1 .. Len(cl) + 1
          BY <1>9
        <4> QED  BY <2>2, <4>1, <4>2, <4>3
      <3>2. CASE i # Len(ca) + 1
        <4>1. i \in 2 .. Len(ca) /\ i \in 1 .. Len(ca)
          BY <1>9, <3>2
        <4>2. PICK j \in 1 .. Len(cl) : ca[i] = cl[j]
          BY <1>1, <4>1
        <4>3. j \in 1 .. Len(cl) + 1
          BY <1>9
        <4> QED  BY <2>2, <4>1, <4>2, <4>3
      <3> QED  BY <3>1, <3>2
    <2>4. Follows(na, nl)
      <3> DEFINE ma == Append(ca, fa)
                 ml == Append(cl, fl)
      <3>1. /\ ma \in Seq(Bar) /\ ml \in Seq(Bar) /\ Len(ma) = Len(ca) + 1 /\ Len(ml) = Len(cl) + 1
            /\ \A i \in 2 .. Len(ca) + 1 : \E j \in 1 .. Len(cl) + 1 : ma[i] = ml[j]
        BY <2>2, <2>3
      <3>2. na.forming = new /\ nl.forming = new /\ na.completed = ma /\ nl.completed = ml
        BY <2>1
      <3> HIDE DEF ma, ml
      <3>3. \A i \in 2 .. Len(na.completed) :
               \E j \in 1 .. Len(nl.completed) : na.completed[i] = nl.completed[j]
        BY <3>1, <3>2
      <3>4. /\ na.window = nl.window /\ na.baseline = nl.baseline
            /\ na.deltas \in Seq(Nat) /\ Len(na.deltas) <= Len(nl.deltas)
        BY <1>4, <1>6, <1>7
      <3> QED  BY <1>10, <3>1, <3>2, <3>3, <3>4 DEF Follows
    <2> QED  BY <1>4, <1>7, <2>4 DEF na, nl
  <1>13. CASE w = l.window
    <2>1. /\ na.forming = Widened(fa, price, d) /\ nl.forming = Widened(fl, price, d)
          /\ na.completed = ca /\ nl.completed = cl
      BY <1>6, <1>7, <1>13
    <2>2. ca # <<>> => Widened(fa, price, d) = Widened(fl, price, d)
      BY <1>1
    <2>3. Follows(na, nl)
      BY <1>1, <1>4, <1>6, <1>7, <1>11, <2>1, <2>2 DEF Follows
    <2> QED  BY <1>4, <1>7, <2>3 DEF na, nl
  <1> QED  BY <1>12, <1>13

\* After the first line of a recorder that started now.
LEMMA FollowsFirst ==
    ASSUME NEW l, NEW ts \in Nat, NEW price \in Prices, NEW volume \in Nat, WindowOf(l, ts) = Floor(ts),
           LET nl == IngestPrice(l, ts, price, volume) IN
              nl.forming \in Bar /\ nl.completed \in Seq(Bar) /\ nl.deltas \in Seq(Nat)
    PROVE  Follows(IngestPrice(NewAggregator, ts, price, volume), IngestPrice(l, ts, price, volume))
  <1> DEFINE nl == IngestPrice(l, ts, price, volume)
             na == IngestPrice(NewAggregator, ts, price, volume)
             base == [volume |-> volume, ts |-> ts]
             v == VolumeDelta(NewAggregator, ts, volume)
  <1>1. volume # None
    BY DEF None
  <1>2. VolumeDelta(l, ts, volume).baseline = base
    BY <1>1 DEF VolumeDelta
  <1>3. nl.window = Floor(ts) /\ nl.baseline = base
    BY <1>2 DEF IngestPrice
  <1>4. v = [baseline |-> base, deltas |-> <<>>, delta |-> 0]
    BY <1>1 DEF VolumeDelta, NewAggregator, StartsOver
  <1>5. WindowOf(NewAggregator, ts) = Floor(ts)
    BY DEF WindowOf, NewAggregator
  <1>6. /\ na.window = Floor(ts) /\ na.baseline = base /\ na.deltas = <<>>
        /\ na.forming = NewBar(Floor(ts), price, 0) /\ na.completed = <<>>
    <2>1. NewAggregator.forming = NoBar /\ NewAggregator.completed = <<>>
      BY DEF NewAggregator
    <2> HIDE DEF v
    <2> QED  BY <1>4, <1>5, <2>1 DEF IngestPrice, v
  <1>7. na.forming \in Bar
    <2>1. Floor(ts) \in Nat
      BY FloorOf
    <2> QED  BY <1>6, <2>1 DEF NewBar, Bar
  <1>8. /\ nl.forming \in Bar /\ nl.completed \in Seq(Bar) /\ Len(nl.deltas) \in Nat
        /\ <<>> \in Seq(Nat) /\ <<>> \in Seq(Bar) /\ Len(<<>>) = 0
    BY LenProperties
  <1> HIDE DEF na, nl
  <1> QED  BY <1>3, <1>6, <1>7, <1>8 DEF Follows, na, nl

IsState(s) == s = [cache |-> s.cache, agg |-> s.agg]
LEMMA FeedIsLive ==
    ASSUME NEW s, IsState(s), NEW m
    PROVE  FeedRecord(s, m) = HandleQuote(s, m) /\ IsState(HandleQuote(s, m))
  <1> DEFINE c == s.cache
             a == s.agg
             k == Merged(c, m)
  <1>1. s = [cache |-> c, agg |-> a]
    BY DEF IsState
  <1>2. HandleQuote(s, m) =
          [cache |-> k, agg |-> IF Emits(k) THEN IngestPrice(a, m.ts, k.last, k.volume) ELSE a]
    BY DEF HandleQuote
  <1>3. FeedRecord(s, m) =
          [s EXCEPT !.cache = k, !.agg = IF Emits(k) THEN IngestPrice(a, m.ts, k.last, k.volume) ELSE a]
    BY DEF FeedRecord
  <1> HIDE DEF c, a, k
  <1>4. FeedRecord(s, m) = HandleQuote(s, m)
    BY <1>1, <1>2, <1>3
  <1> QED  BY <1>2, <1>4 DEF IsState

\* The lines of a recorder that was started before the message `from`.
LinesOf(ms, from) == SubSeq(ms, from, Len(ms))
LEMMA LinesMore ==
    ASSUME NEW ms \in Seq(Msgs), NEW m \in Msgs, NEW from \in 1 .. Len(ms) + 1
    PROVE  /\ LinesOf(ms, from) \in Seq(Msgs)
           /\ LinesOf(Append(ms, m), from) = Append(LinesOf(ms, from), m)
           /\ from = Len(ms) + 1 => LinesOf(ms, from) = <<>>
  <1> DEFINE n == Len(ms)
             more == Append(ms, m)
             old == SubSeq(ms, from, n)
             new == SubSeq(more, from, n + 1)
             k == n - from + 1
  <1>1. n \in Nat /\ \A i \in 1 .. n : ms[i] \in Msgs
    BY MsgOf
  <1>2. /\ more \in Seq(Msgs) /\ Len(more) = n + 1 /\ more[n + 1] = m
        /\ \A i \in 1 .. n : more[i] = ms[i]
    BY AppendProperties
  <1> HIDE DEF more, n
  <1>3. \A i \in 1 .. n + 1 : more[i] \in Msgs
    BY <1>1, <1>2, ElementOfSeq
  <1>a. from \in Int /\ from >= 1 /\ from <= n + 1
    BY <1>1 DEF n
  <1>4. /\ old \in Seq(Msgs) /\ Len(old) = (IF from <= n THEN n - from + 1 ELSE 0)
        /\ \A i \in 1 .. n - from + 1 : old[i] = ms[from + i - 1]
    <2>1. \A i \in from .. n : ms[i] \in Msgs
      BY <1>1, <1>a
    <2>2. from \in Int /\ n \in Int
      BY <1>1, <1>a
    <2> QED  BY <2>1, <2>2, SubSeqProperties
  <1>5. /\ new \in Seq(Msgs) /\ Len(new) = (IF from <= n + 1 THEN (n + 1) - from + 1 ELSE 0)
        /\ \A i \in 1 .. (n + 1) - from + 1 : new[i] = more[from + i - 1]
    <2>1. \A i \in from .. n + 1 : more[i] \in Msgs
      BY <1>1, <1>3, <1>a
    <2>2. from \in Int /\ n + 1 \in Int
      BY <1>1, <1>a
    <2> QED  BY <2>1, <2>2, SubSeqProperties
  <1> HIDE DEF old, new
  <1>6. Len(old) = k /\ Len(new) = k + 1 /\ k \in Nat
    BY <1>1, <1>4, <1>5, <1>a
  <1>7. /\ Append(old, m) \in Seq(Msgs) /\ Len(Append(old, m)) = k + 1
        /\ \A i \in 1 .. k : Append(old, m)[i] = old[i]
        /\ Append(old, m)[k + 1] = m
    BY <1>4, <1>6, AppendProperties
  <1>8. new = Append(old, m)
    <2>1. ASSUME NEW i \in 1 .. k + 1  PROVE new[i] = Append(old, m)[i]
      <3>0. new[i] = more[from + i - 1]
        BY <1>1, <1>5, <1>a
      <3>1. CASE i = k + 1
        <4>1. from + i - 1 = n + 1
          BY <1>1, <1>a, <3>1
        <4> QED  BY <1>2, <1>7, <3>0, <3>1, <4>1
      <3>2. CASE i # k + 1
        <4>1. i \in 1 .. k /\ from + i - 1 \in 1 .. n
          BY <1>1, <1>6, <1>a, <3>2
        <4>2. old[i] = ms[from + i - 1]
          BY <1>4, <4>1
        <4> QED  BY <1>2, <1>7, <3>0, <4>1, <4>2
      <3> QED  BY <3>1, <3>2
    <2> HIDE DEF k
    <2> QED  BY <1>5, <1>6, <1>7, <2>1, SeqEqual
  <1>9. from = n + 1 => old = <<>>
    <2>1. n \in Int /\ (from = n + 1 => n < from)
      BY <1>1, <1>a
    <2> QED  BY <1>a, <2>1, SubSeqEmpty DEF old
  <1>10. LinesOf(ms, from) = old /\ LinesOf(more, from) = new
    BY <1>2 DEF LinesOf, old, new, n
  <1> QED  BY <1>4, <1>8, <1>9, <1>10 DEF more, n

\* A late recorder's runner and what is live.
Catches(ms, l) ==
    \A from \in 1 .. Len(ms) : LET s == After(LinesOf(ms, from)) IN
        IsState(s) /\ s.cache = l.cache /\ Follows(s.agg, l.agg)
InTime(ms) == \A i \in 1 .. Len(ms) : ms[i].ts <= ms[Len(ms)].ts
Full(m) == m.quoted /\ m.last # None /\ m.volume # None

\* A full message in time keeps all late recorders' runners.
LEMMA CatchesOn ==
    ASSUME NEW ms \in Seq(Msgs), NEW l, IsState(l), StateFits(ms, Len(ms), l), Catches(ms, l),
           NEW m \in Msgs, Full(m), \A i \in 1 .. Len(ms) : ms[i].ts <= m.ts,
           Len(HandleQuote(l, m).agg.deltas) < WarmUp
    PROVE  Catches(Append(ms, m), HandleQuote(l, m))
  <1> DEFINE n == Len(ms)
             more == Append(ms, m)
             nl == HandleQuote(l, m)
             ts == m.ts
             price == m.last
             volume == m.volume
             known == [quoted |-> TRUE, last |-> price, volume |-> volume]
  <1>1. /\ n \in Nat /\ more \in Seq(Msgs) /\ Len(more) = n + 1 /\ more[n + 1] = m
        /\ \A i \in 1 .. n : more[i] = ms[i]
    BY LenProperties, AppendProperties
  <1>2. /\ ts \in Nat /\ price \in Prices /\ volume \in Nat /\ m.quoted /\ price # None /\ volume # None
    BY DEF Msgs, Full
  <1>3. StateFits(more, n, l)
    BY <1>1, SameState
  <1>4. StateFits(more, n + 1, nl)
    <2>1. n \in 0 .. Len(more) - 1
      BY <1>1
    <2> QED  BY <1>1, <1>3, <2>1, QuoteFits
  <1>5. ASSUME NEW c  PROVE Merged(c, m) = known /\ Emits(known)
    BY <1>2 DEF Merged, Updated, Emits
  <1>6. ASSUME NEW s
        PROVE  /\ HandleQuote(s, m).cache = known
               /\ HandleQuote(s, m).agg = IngestPrice(s.agg, ts, price, volume)
    <2> DEFINE k == Merged(s.cache, m)
    <2>1. HandleQuote(s, m) =
            [cache |-> k, agg |-> IF Emits(k) THEN IngestPrice(s.agg, m.ts, k.last, k.volume) ELSE s.agg]
      BY DEF HandleQuote
    <2>2. k = known /\ Emits(k)
      BY <1>5
    <2>3. k.last = price /\ k.volume = volume
      BY <2>2
    <2> HIDE DEF k, known
    <2> QED  BY <2>1, <2>2, <2>3
  <1>7. n + 1 \in Ups(more, n + 1) /\ Counts(more, n + 1)
    <2>1. n + 1 \in 1 .. n + 1 /\ more[n + 1].quoted /\ more[n + 1].last # None
      BY <1>1, <1>2
    <2> QED  BY <2>1 DEF Ups, Counts, QuotedBy, Priced
  <1>8. nl.agg.window = Floor(ts)
    <2>1. Max(Times(more, n + 1)) = ts
      <3>1. \A j \in Ups(more, n + 1) : j \in 1 .. n + 1
        BY DEF Ups
      <3>2. \A j \in 1 .. n + 1 : more[j].ts \in Int /\ more[j].ts <= ts
        <4>1. \A j \in 1 .. n + 1 : more[j].ts \in Nat
          BY <1>1, MsgOf
        <4>2. ASSUME NEW j \in 1 .. n + 1  PROVE more[j].ts <= ts
          <5>1. CASE j = n + 1
            BY <1>1, <1>2, <5>1
          <5>2. CASE j # n + 1
            <6>1. j \in 1 .. n
              BY <1>1, <5>2
            <6> QED  BY <1>1, <6>1
          <5> QED  BY <5>1, <5>2
        <4> QED  BY <4>1, <4>2
      <3> DEFINE T == Times(more, n + 1)
      <3>3. T \in SUBSET Int /\ ts \in T /\ \A t \in T : t <= ts
        BY <1>1, <1>7, <3>1, <3>2 DEF Times
      <3> HIDE DEF T
      <3>4. Max(T) = ts
        BY <3>3, GreatestIs
      <3> QED  BY <3>4 DEF T
    <2>2. nl.agg.window = WindowIn(more, n + 1)
      BY <1>4, <1>7 DEF StateFits, AggFits
    <2> QED  BY <2>1, <2>2 DEF WindowIn
  <1>9. WindowOf(l.agg, ts) = Floor(ts) /\ Floor(ts) \in Nat
    <2>1. nl.agg = IngestPrice(l.agg, ts, price, volume)
      BY <1>6
    <2> HIDE DEF nl
    <2>2. nl.agg.window = WindowOf(l.agg, ts)
      BY <2>1 DEF IngestPrice
    <2> QED  BY <1>2, <1>8, <2>2, FloorOf
  <1>10. /\ nl.agg.forming \in Bar /\ nl.agg.completed \in Seq(Bar) /\ nl.agg.deltas \in Seq(Nat)
         /\ l.agg.baseline \in Baselines /\ l.agg.deltas \in Seq(Nat) /\ Len(l.agg.deltas) <= MaxDeltas
    BY <1>3, <1>4, <1>7 DEF StateFits, AggFits
  <1>11. nl.cache = known /\ nl.agg = IngestPrice(l.agg, ts, price, volume)
    BY <1>6
  <1>12. VolumeDelta(l.agg, ts, volume).delta \in Nat
    <2>1. ts \in Int /\ volume \in Nat \cup {None}
      BY <1>2
    <2> QED  BY <1>10, <2>1, DeltaOf
  <1> HIDE DEF nl, more, known
  <1>13. ASSUME NEW from \in 1 .. n + 1
         PROVE  LET s == After(LinesOf(more, from)) IN
                IsState(s) /\ s.cache = nl.cache /\ Follows(s.agg, nl.agg)
    <2> DEFINE s == After(LinesOf(ms, from))
               ns == After(LinesOf(more, from))
    <2>1. ns = FeedRecord(s, m)
      BY LinesMore, AfterMore DEF more
    <2>2. IsState(s)
      <3>1. CASE from = n + 1
        <4>1. s = Fresh
          BY <3>1, LinesMore, AfterMore
        <4> QED  BY <4>1 DEF IsState, Fresh
      <3>2. CASE from # n + 1
        <4>1. from \in 1 .. n
          BY <1>1, <3>2
        <4> QED  BY <4>1 DEF Catches
      <3> QED  BY <3>1, <3>2
    <2>3. ns = HandleQuote(s, m) /\ IsState(ns)
      BY <2>1, <2>2, FeedIsLive
    <2>4. ns.cache = known /\ ns.agg = IngestPrice(s.agg, ts, price, volume)
      BY <1>6, <2>3
    <2>5. Follows(ns.agg, nl.agg)
      <3>1. CASE from = n + 1
        <4>1. s.agg = NewAggregator
          BY <3>1, LinesMore, AfterMore DEF Fresh
        <4>2. Follows(IngestPrice(NewAggregator, ts, price, volume), IngestPrice(l.agg, ts, price, volume))
          BY <1>2, <1>9, <1>10, <1>11, FollowsFirst
        <4> QED  BY <1>11, <2>4, <4>1, <4>2
      <3>2. CASE from # n + 1
        <4>1. from \in 1 .. n
          BY <1>1, <3>2
        <4>2. Follows(s.agg, l.agg)
          BY <4>1 DEF Catches
        <4>3. Len(IngestPrice(l.agg, ts, price, volume).deltas) < WarmUp
          BY <1>11 DEF nl
        <4> HIDE DEF s, ts, price, volume
        <4>4. Follows(IngestPrice(s.agg, ts, price, volume), IngestPrice(l.agg, ts, price, volume))
          BY <1>2, <1>9, <1>10, <1>12, <4>2, <4>3, FollowsOn
        <4> QED  BY <1>11, <2>4, <4>4
      <3> QED  BY <3>1, <3>2
    <2> QED  BY <1>11, <2>3, <2>4, <2>5
  <1> QED  BY <1>1, <1>13 DEF Catches, nl, more

\* The runner of all lines is in the live state; while nothing was odd, those of
\* the recorders that started later have caught up with it.
ReplayInv ==
    /\ BarsInv /\ IsState(live) /\ After(messages) = live
    /\ odd \in Nat /\ (odd = 0 => InTime(messages))
    /\ NoAnomaly => Catches(messages, live)

LEMMA ReplayInitInv == BarsInit => ReplayInv
  <1> SUFFICES ASSUME BarsInit  PROVE ReplayInv
    OBVIOUS
  <1>1. messages = <<>> /\ odd = 0 /\ live = Fresh /\ Len(messages) = 0
    BY DEF BarsInit
  <1>2. BarsInv
    BY BarsInitInv
  <1>3. IsState(live)
    BY <1>1 DEF IsState, Fresh
  <1>4. After(messages) = live
    <2>1. Len(<<>>) = 0 /\ Len(<<>>) \in Nat
      OBVIOUS
    <2>2. PICK h : IsReplay(h, <<>>) /\ After(<<>>) = h[Len(<<>>)]
      BY <2>1, ReplayOf
    <2> QED  BY <1>1, <2>1, <2>2 DEF IsReplay
  <1>5. InTime(messages) /\ Catches(messages, live)
    BY <1>1 DEF InTime, Catches
  <1> QED  BY <1>1, <1>2, <1>3, <1>4, <1>5 DEF ReplayInv

LEMMA ReplayNextInv == ReplayInv /\ [BarsNext]_barsVars => ReplayInv'
  <1> SUFFICES ASSUME ReplayInv, [BarsNext]_barsVars  PROVE ReplayInv'
    OBVIOUS
  <1>0. BarsInv'
    BY BarsNextInv DEF ReplayInv
  <1>1. CASE UNCHANGED barsVars
    BY <1>0, <1>1 DEF barsVars, ReplayInv, NoAnomaly
  <1>2. CASE Message
    <2>1. PICK ts \in {Latest - 1, Latest, Latest + 1, Latest + Window + 1} \cap 0 .. MaxTime,
               quoted \in BOOLEAN, last \in Prices \cup {None},
               volume \in {None, 0} \cup {traded + g : g \in Gains} :
            LET m == [ts |-> ts, quoted |-> quoted, last |-> last, volume |-> volume]
                isOdd == ts < Latest \/ ~quoted \/ last = None \/ volume = None \/ volume < traded
            IN /\ Len(messages) < MaxMessages
               /\ volume <= MaxTraded
               /\ odd' = odd + (IF isOdd THEN 1 ELSE 0) /\ odd' <= MaxOdd
               /\ traded' = Updated(traded, volume)
               /\ messages' = Append(messages, m)
               /\ live' = HandleQuote(live, m)
      BY <1>2, Zenon DEF Message
    <2>a. ts \in 0 .. MaxTime
      OBVIOUS
    <2> DEFINE m == [ts |-> ts, quoted |-> quoted, last |-> last, volume |-> volume]
               n == Len(messages)
               more == Append(messages, m)
               isOdd == ts < Latest \/ ~quoted \/ last = None \/ volume = None \/ volume < traded
    <2>2. /\ messages \in Seq(Msgs) /\ StateFits(messages, n, live) /\ traded \in Nat
          /\ IsState(live) /\ After(messages) = live /\ odd \in Nat
      BY DEF ReplayInv, BarsInv
    <2>3. volume \in Nat \cup {None}
      <3>1. Gains \subseteq Nat
        BY BarsAssumption
      <3> QED  BY <2>2, <3>1
    <2>4. m \in Msgs /\ m.ts = ts /\ m.quoted = quoted /\ m.last = last /\ m.volume = volume /\ ts \in Nat
      BY <2>3 DEF Msgs
    <2>5. messages' = more /\ live' = HandleQuote(live, m) /\ odd' = odd + (IF isOdd THEN 1 ELSE 0)
      BY <2>1
    <2>6. odd' \in Nat /\ (odd' = 0 => odd = 0 /\ ~isOdd)
      <3> HIDE DEF isOdd
      <3> QED  BY <2>2, <2>5
    <2>7. /\ n \in Nat /\ more \in Seq(Msgs) /\ Len(more) = n + 1 /\ more[n + 1] = m
          /\ \A i \in 1 .. n : more[i] = messages[i]
      <3> HIDE DEF m
      <3> QED  BY <2>2, <2>4, LenProperties, AppendProperties
    <2>8. odd' = 0 => /\ \A i \in 1 .. n : messages[i].ts <= m.ts
                      /\ Full(m)
      <3> SUFFICES ASSUME odd' = 0
                   PROVE  (\A i \in 1 .. n : messages[i].ts <= m.ts) /\ Full(m)
        OBVIOUS
      <3>1. ~(ts < Latest) /\ quoted /\ last # None /\ volume # None /\ odd = 0
        BY <2>6
      <3>2. \A i \in 1 .. n : messages[i].ts <= messages[n].ts /\ messages[i].ts \in Nat
        <4>1. InTime(messages)
          BY <3>1 DEF ReplayInv
        <4> QED  BY <2>2, <4>1, MsgOf DEF InTime
      <3>3. ASSUME NEW i \in 1 .. n  PROVE messages[i].ts <= m.ts
        <4>1. messages # <<>> /\ n \in 1 .. n
          BY <2>2, <2>7
        <4>2. Latest = messages[n].ts /\ messages[n].ts \in Nat /\ messages[i].ts <= messages[n].ts
          BY <2>7, <3>2, <4>1 DEF Latest
        <4> QED  BY <2>4, <3>1, <3>2, <4>2
      <3> QED  BY <2>4, <3>1, <3>3 DEF Full
    <2> HIDE DEF m, more, isOdd, n
    <2>9. IsState(HandleQuote(live, m)) /\ After(more) = HandleQuote(live, m)
      BY <2>2, <2>4, AfterMore, FeedIsLive DEF more
    <2>10. odd' = 0 => InTime(more)
      <3> SUFFICES ASSUME odd' = 0, NEW i \in 1 .. n + 1  PROVE more[i].ts <= more[n + 1].ts
        BY <2>7 DEF InTime
      <3>1. CASE i = n + 1
        <4>1. m.ts <= m.ts
          BY <2>4
        <4> QED  BY <2>7, <3>1, <4>1
      <3>2. CASE i # n + 1
        <4>1. i \in 1 .. n
          BY <2>7, <3>2
        <4> QED  BY <2>7, <2>8, <4>1
      <3> QED  BY <3>1, <3>2
    <2>11. ASSUME odd' = 0, Len(HandleQuote(live, m).agg.deltas) < WarmUp
           PROVE  Catches(more, HandleQuote(live, m))
      <3> DEFINE l == live.agg
                 nl == HandleQuote(live, m).agg
      <3>1. Full(m) /\ odd = 0 /\ \A i \in 1 .. n : messages[i].ts <= m.ts
        BY <2>6, <2>8, <2>11
      <3>2. m.quoted /\ m.last # None /\ m.volume # None /\ m.volume \in Nat /\ m.ts \in Int
        BY <2>4, <3>1 DEF Full, Msgs
      <3>3. nl = IngestPrice(l, m.ts, m.last, m.volume)
        <4>1. Merged(live.cache, m) = [quoted |-> TRUE, last |-> m.last, volume |-> m.volume]
          BY <3>2 DEF Merged, Updated
        <4> DEFINE k == Merged(live.cache, m)
        <4>2. k.last = m.last /\ k.volume = m.volume /\ Emits(k)
          BY <3>2, <4>1 DEF Emits
        <4>3. nl = IF Emits(k) THEN IngestPrice(l, m.ts, k.last, k.volume) ELSE l
          BY DEF HandleQuote
        <4> HIDE DEF k, nl, l
        <4> QED  BY <4>2, <4>3
      <3>4. nl.deltas = VolumeDelta(l, m.ts, m.volume).deltas
        <4> HIDE DEF nl, l
        <4> QED  BY <3>3 DEF IngestPrice
      <3>5. l.baseline \in Baselines /\ l.deltas \in Seq(Nat) /\ Len(l.deltas) <= MaxDeltas
        BY <2>2 DEF StateFits, AggFits
      <3>6. Len(l.deltas) <= Len(VolumeDelta(l, m.ts, m.volume).deltas)
        <4>1. Len(VolumeDelta(l, m.ts, m.volume).deltas) < WarmUp
          BY <2>11, <3>4
        <4>2. Len(l.deltas) <= Len(l.deltas)
          BY <3>5, LenProperties
        <4> HIDE DEF l
        <4> QED  BY <3>2, <3>5, <4>1, <4>2, SameDelta
      <3>7. Len(l.deltas) < WarmUp
        <4>1. Len(l.deltas) \in Nat /\ WarmUp \in Nat
          BY <3>5, LenProperties, BarsAssumption
        <4>2. VolumeDelta(l, m.ts, m.volume).deltas \in Seq(Nat)
          <5>1. m.ts \in Int /\ m.volume \in Nat \cup {None}
            BY <3>2
          <5> HIDE DEF l
          <5> QED  BY <3>5, <5>1, DeltaOf
        <4>3. Len(VolumeDelta(l, m.ts, m.volume).deltas) \in Nat
          BY <4>2, LenProperties
        <4>4. Len(VolumeDelta(l, m.ts, m.volume).deltas) < WarmUp
          BY <2>11, <3>4
        <4> HIDE DEF l
        <4> QED  BY <3>6, <4>1, <4>3, <4>4
      <3>8. Catches(messages, live)
        BY <3>1, <3>7 DEF ReplayInv, NoAnomaly
      <3>9. /\ StateFits(messages, Len(messages), live)
            /\ \A i \in 1 .. Len(messages) : messages[i].ts <= m.ts
        BY <2>2, <3>1 DEF n
      <3> QED  BY <2>2, <2>4, <2>11, <3>1, <3>8, <3>9, CatchesOn DEF more
    <2>12. (NoAnomaly => Catches(messages, live))'
      BY <2>5, <2>11 DEF NoAnomaly
    <2>13. (odd = 0 => InTime(messages))'
      BY <2>5, <2>10
    <2> QED  BY <1>0, <2>5, <2>6, <2>9, <2>12, <2>13 DEF ReplayInv
  <1> QED  BY <1>1, <1>2 DEF BarsNext

LEMMA ReplaysAreLive == ReplayInv => ReplayIsLive
  <1> SUFFICES ASSUME ReplayInv  PROVE ReplayIsLive
    OBVIOUS
  <1>1. Replayed(messages) = live.agg
    BY DEF Replayed, After, ReplayInv
  <1>2. messages \in Seq(Msgs) /\ Len(messages) \in Nat
    BY LenProperties DEF ReplayInv, BarsInv
  <1>3. ASSUME NEW from \in RecordFrom, odd = 0, Len(live.agg.deltas) < WarmUp,
               NEW i \in 2 .. Len(AllBars(Replayed(Recorded(from))))
        PROVE  \E j \in DOMAIN AllBars(live.agg) : AllBars(Replayed(Recorded(from)))[i] = AllBars(live.agg)[j]
    <2> DEFINE s == After(LinesOf(messages, from))
               a == s.agg
               l == live.agg
               ca == a.completed
               cl == l.completed
    <2>0. from \in Nat \ {0}
      BY BarsAssumption
    <2>1. Replayed(Recorded(from)) = a
      BY DEF Replayed, After, Recorded, LinesOf
    <2>2. CASE from > Len(messages)
      <3>1. LinesOf(messages, from) = <<>>
        <4>1. from \in Int /\ Len(messages) \in Int /\ Len(messages) < from
          BY <1>2, <2>0, <2>2
        <4> QED  BY <4>1, SubSeqEmpty DEF LinesOf
      <3>2. s = Fresh
        <4>1. Len(<<>>) = 0 /\ Len(<<>>) \in Nat
          OBVIOUS
        <4>2. PICK h : IsReplay(h, <<>>) /\ After(<<>>) = h[Len(<<>>)]
          BY <4>1, ReplayOf
        <4> QED  BY <3>1, <4>1, <4>2 DEF IsReplay
      <3>3. AllBars(a) = <<>> /\ Len(<<>>) = 0
        BY <3>2 DEF AllBars, Fresh, NewAggregator
      <3> QED  BY <1>3, <2>1, <3>3
    <2>3. CASE from \in 1 .. Len(messages)
      <3>1. Follows(a, l)
        BY <1>3, <2>3 DEF ReplayInv, NoAnomaly, Catches
      <3>2. /\ a.forming \in Bar /\ l.forming \in Bar /\ ca \in Seq(Bar) /\ cl \in Seq(Bar)
            /\ ca # <<>> => a.forming = l.forming
            /\ \A k \in 2 .. Len(ca) : \E j \in 1 .. Len(cl) : ca[k] = cl[j]
        BY <3>1 DEF Follows
      <3>3. AllBars(a) = Append(ca, a.forming) /\ AllBars(l) = Append(cl, l.forming)
        <4>1. \A bar \in Bar : bar # NoBar
          BY DEF Bar, NoBar, None
        <4> QED  BY <3>2, <4>1 DEF AllBars
      <3>4. i \in 2 .. Len(Append(ca, a.forming))
        BY <2>1, <3>3
      <3> DEFINE fa == a.forming
                 fl == l.forming
      <3> HIDE DEF a, l, ca, cl, fa, fl
      <3>5. /\ Append(ca, fa) \in Seq(Bar) /\ Len(Append(ca, fa)) = Len(ca) + 1
            /\ Append(ca, fa)[Len(ca) + 1] = fa /\ \A k \in 1 .. Len(ca) : Append(ca, fa)[k] = ca[k]
            /\ Append(cl, fl) \in Seq(Bar) /\ Len(Append(cl, fl)) = Len(cl) + 1
            /\ Append(cl, fl)[Len(cl) + 1] = fl /\ \A k \in 1 .. Len(cl) : Append(cl, fl)[k] = cl[k]
            /\ Len(ca) \in Nat /\ Len(cl) \in Nat
        BY <3>2, AppendProperties, LenProperties DEF fa, fl
      <3>6. DOMAIN Append(cl, fl) = 1 .. Len(cl) + 1
        BY <3>5, LenProperties
      <3>7. \E j \in 1 .. Len(cl) + 1 : Append(ca, fa)[i] = Append(cl, fl)[j]
        <4>1. CASE i = Len(ca) + 1
          <5>1. ca # <<>>
            BY <3>4, <3>5, <4>1 DEF fa
          <5>2. fa = fl /\ Len(cl) + 1 \in 1 .. Len(cl) + 1
            BY <3>2, <3>5, <5>1 DEF fa, fl
          <5> QED  BY <3>5, <4>1, <5>2
        <4>2. CASE i # Len(ca) + 1
          <5>1. i \in 2 .. Len(ca) /\ i \in 1 .. Len(ca)
            BY <3>4, <3>5, <4>2 DEF fa
          <5>2. PICK j \in 1 .. Len(cl) : ca[i] = cl[j]
            BY <3>2, <5>1
          <5>3. j \in 1 .. Len(cl) + 1
            BY <3>5
          <5> QED  BY <3>5, <5>1, <5>2, <5>3
        <4> QED  BY <4>1, <4>2
      <3> QED  BY <2>1, <3>3, <3>6, <3>7 DEF fa, fl, l
    <2> QED  BY <1>2, <2>0, <2>2, <2>3
  <1>4. ASSUME NEW from \in RecordFrom, odd = 0, Len(live.agg.deltas) < WarmUp
        PROVE  \A i \in 2 .. Len(AllBars(Replayed(Recorded(from)))) :
                  \E j \in DOMAIN AllBars(live.agg) :
                      AllBars(Replayed(Recorded(from)))[i] = AllBars(live.agg)[j]
    BY <1>3, <1>4
  <1> QED  BY <1>1, <1>4 DEF ReplayIsLive

-----------------------------------------------------------------------------
(* The candles of a recording.                                             *)

PricedRows(rows, n) == {i \in 1 .. n : Priced(rows, i) # {}}
RowsOf(rows, n, t) == {i \in PricedRows(rows, n) : MinuteOf(rows[i].ts) = t}
GrownIn(rows, n, t) == [i \in 1 .. n |-> IF i \in RowsOf(rows, n, t) THEN Grown(rows, i) ELSE 0]
CandlesFit(rows, n, c) ==
    /\ c.price = PriceIn(rows, n) /\ c.volume = VolumeIn(rows, n)
    /\ DOMAIN c.candles = {MinuteOf(rows[i].ts) : i \in PricedRows(rows, n)}
    /\ \A t \in DOMAIN c.candles :
         /\ c.candles[t] \in Bar /\ c.candles[t].ts = t
         /\ SameShape(c.candles[t], ShapeIn(rows, RowsOf(rows, n, t)))
         /\ PricedRows(rows, n) = 1 .. n => c.candles[t].volume = Total(GrownIn(rows, n, t))
    /\ \A t : t \notin DOMAIN c.candles => Total(GrownIn(rows, n, t)) = 0

LEMMA MinuteIs ==
    ASSUME NEW ts \in Nat
    PROVE  MinuteOf(ts) \in Nat
  <1>1. Minute \in Nat \ {0}
    BY BarsAssumption
  <1>2. ts \div Minute \in Nat
    BY <1>1, DivisionOf
  <1> DEFINE q == ts \div Minute
  <1> HIDE DEF q
  <1>3. q * Minute \in Nat
    BY <1>1, <1>2 DEF q
  <1> QED  BY <1>3 DEF MinuteOf, q

LEMMA RowsMore ==
    ASSUME NEW rows \in Seq(Msgs), NEW n \in 0 .. Len(rows) - 1
    PROVE  /\ PricedRows(rows, n + 1) =
                IF Priced(rows, n + 1) # {} THEN PricedRows(rows, n) \cup {n + 1} ELSE PricedRows(rows, n)
           /\ \A t : RowsOf(rows, n + 1, t) =
                IF Priced(rows, n + 1) # {} /\ MinuteOf(rows[n + 1].ts) = t
                THEN RowsOf(rows, n, t) \cup {n + 1} ELSE RowsOf(rows, n, t)
           /\ \A t : RowsOf(rows, n, t) # {} <=> t \in {MinuteOf(rows[i].ts) : i \in PricedRows(rows, n)}
           /\ \A t : RowsOf(rows, n, t) \in SUBSET (1 .. n)
           /\ PricedRows(rows, n + 1) = 1 .. n + 1 => PricedRows(rows, n) = 1 .. n
           /\ PricedRows(rows, n + 1) = 1 .. n + 1 => Priced(rows, n + 1) # {}
  <1>1. n \in Nat
    BY MsgOf
  <1>2. \A i : i \in 1 .. n + 1 <=> i \in 1 .. n \/ i = n + 1
    BY <1>1
  <1>3. n + 1 \notin 1 .. n
    BY <1>1
  <1>4. PricedRows(rows, n + 1) =
          IF Priced(rows, n + 1) # {} THEN PricedRows(rows, n) \cup {n + 1} ELSE PricedRows(rows, n)
    BY <1>2 DEF PricedRows
  <1>5. \A t : RowsOf(rows, n + 1, t) =
          IF Priced(rows, n + 1) # {} /\ MinuteOf(rows[n + 1].ts) = t
          THEN RowsOf(rows, n, t) \cup {n + 1} ELSE RowsOf(rows, n, t)
    BY <1>4 DEF RowsOf
  <1>6. \A t : RowsOf(rows, n, t) # {} <=> t \in {MinuteOf(rows[i].ts) : i \in PricedRows(rows, n)}
    BY DEF RowsOf
  <1>7. \A t : RowsOf(rows, n, t) \in SUBSET (1 .. n)
    BY DEF RowsOf, PricedRows
  <1>8. PricedRows(rows, n + 1) = 1 .. n + 1 => PricedRows(rows, n) = 1 .. n
    BY <1>2, <1>3 DEF PricedRows
  <1>9. PricedRows(rows, n + 1) = 1 .. n + 1 => Priced(rows, n + 1) # {}
    BY <1>2 DEF PricedRows
  <1> QED  BY <1>4, <1>5, <1>6, <1>7, <1>8, <1>9

LEMMA GrownTyped ==
    ASSUME NEW rows \in Seq(Msgs), NEW n \in 0 .. Len(rows), NEW t
    PROVE  GrownIn(rows, n, t) \in Seq(Nat) /\ Len(GrownIn(rows, n, t)) = n
           /\ Total(GrownIn(rows, n, t)) \in Nat
  <1>1. n \in Nat
    BY MsgOf
  <1>2. ASSUME NEW i \in 1 .. n  PROVE Grown(rows, i) \in Nat
    <2>1. PICK j \in Int : j = i - 1
      BY <1>1
    <2>2. j \in 0 .. Len(rows) - 1 /\ i = j + 1
      BY <1>1, <2>1, MsgOf
    <2>3. Grown(rows, j + 1) \in Nat
      BY <2>2, GrownOf
    <2> QED  BY <2>2, <2>3
  <1>3. GrownIn(rows, n, t) \in Seq(Nat) /\ Len(GrownIn(rows, n, t)) = n
    <2>1. GrownIn(rows, n, t) \in [1 .. n -> Nat]
      BY <1>2 DEF GrownIn
    <2>2. DOMAIN GrownIn(rows, n, t) = 1 .. n
      BY DEF GrownIn
    <2>3. GrownIn(rows, n, t) \in Seq(Nat)
      BY <1>1, <2>1, IsASeq
    <2>4. DOMAIN GrownIn(rows, n, t) = 1 .. Len(GrownIn(rows, n, t)) /\ Len(GrownIn(rows, n, t)) \in Nat
      BY <2>3, LenProperties
    <2> QED  BY <1>1, <2>2, <2>3, <2>4
  <1> QED  BY <1>3, TotalNatural

LEMMA GrownInMore ==
    ASSUME NEW rows \in Seq(Msgs), NEW n \in 0 .. Len(rows) - 1, NEW t
    PROVE  Total(GrownIn(rows, n + 1, t)) =
             Total(GrownIn(rows, n, t))
             + (IF Priced(rows, n + 1) # {} /\ MinuteOf(rows[n + 1].ts) = t THEN Grown(rows, n + 1) ELSE 0)
  <1> DEFINE v == GrownIn(rows, n, t)
             w == GrownIn(rows, n + 1, t)
             counts == Priced(rows, n + 1) # {} /\ MinuteOf(rows[n + 1].ts) = t
             g == IF counts THEN Grown(rows, n + 1) ELSE 0
  <1>1. n \in Nat /\ n \in 0 .. Len(rows) /\ n + 1 \in 0 .. Len(rows)
    BY MsgOf
  <1>2. v \in Seq(Nat) /\ Len(v) = n
    BY <1>1, GrownTyped
  <1>3. w \in Seq(Nat) /\ Len(w) = n + 1
    BY <1>1, GrownTyped
  <1>4. g \in Nat
    BY GrownOf
  <1>5. /\ RowsOf(rows, n + 1, t) = IF counts THEN RowsOf(rows, n, t) \cup {n + 1} ELSE RowsOf(rows, n, t)
        /\ RowsOf(rows, n, t) \in SUBSET (1 .. n)
    BY RowsMore
  <1>6. \A i \in 1 .. n : i \in 1 .. n + 1 /\ i # n + 1
    BY <1>1
  <1>7. \A i \in 1 .. n : w[i] = v[i]
    <2> HIDE DEF counts
    <2>1. \A i \in 1 .. n : i \in RowsOf(rows, n + 1, t) <=> i \in RowsOf(rows, n, t)
      BY <1>5, <1>6
    <2> QED  BY <1>6, <2>1 DEF GrownIn
  <1>8. w[n + 1] = g
    <2> HIDE DEF counts
    <2>1. n + 1 \in RowsOf(rows, n + 1, t) <=> counts
      BY <1>1, <1>5
    <2>2. n + 1 \in 1 .. n + 1
      BY <1>1
    <2> QED  BY <2>1, <2>2 DEF GrownIn
  <1> HIDE DEF v, w, g
  <1>9. Total(w) = Total(v) + g
    BY <1>2, <1>3, <1>4, <1>7, <1>8, TotalAppended
  <1> QED  BY <1>9 DEF v, w, g

\* A row keeps the candles' fit.
LEMMA RowFits ==
    ASSUME NEW rows \in Seq(Msgs), NEW n \in 0 .. Len(rows) - 1, NEW c, CandlesFit(rows, n, c)
    PROVE  CandlesFit(rows, n + 1, Row(c, rows[n + 1]))
  <1> DEFINE m == rows[n + 1]
             price == PriceIn(rows, n + 1)
             t0 == MinuteOf(m.ts)
             g == Grown(rows, n + 1)
             old == c.candles
             candle == IF t0 \in DOMAIN old THEN Widened(old[t0], price, g) ELSE NewBar(t0, price, g)
             nc == Row(c, m)
             hasPrice == Priced(rows, n + 1) # {}
  <1>1. n \in Nat /\ n + 1 \in 0 .. Len(rows) /\ n \in 0 .. Len(rows) /\ n + 1 \in 1 .. Len(rows)
    BY MsgOf
  <1>2. /\ c.price = PriceIn(rows, n) /\ c.volume = VolumeIn(rows, n)
        /\ DOMAIN old = {MinuteOf(rows[i].ts) : i \in PricedRows(rows, n)}
        /\ \A t \in DOMAIN old :
             /\ old[t] \in Bar /\ old[t].ts = t
             /\ SameShape(old[t], ShapeIn(rows, RowsOf(rows, n, t)))
             /\ PricedRows(rows, n) = 1 .. n => old[t].volume = Total(GrownIn(rows, n, t))
        /\ \A t : t \notin DOMAIN old => Total(GrownIn(rows, n, t)) = 0
    BY DEF CandlesFit
  <1>3. PriceThen(c.price, m) = price /\ Updated(c.volume, m.volume) = VolumeIn(rows, n + 1)
    BY <1>1, <1>2, NextPrice, NextVolume DEF PriceThen
  <1>4. /\ g \in Nat
        /\ g = IF m.volume # None /\ c.volume # None /\ m.volume >= c.volume THEN m.volume - c.volume ELSE 0
    BY <1>2, GrownOf
  <1>5. t0 \in Nat
    <2>1. m.ts \in Nat
      BY <1>1, MsgOf
    <2> QED  BY <2>1, MinuteIs
  <1>6. (price = None <=> ~hasPrice) /\ (hasPrice => price \in Prices)
    <2> DEFINE k == n + 1
    <2>1. k \in 0 .. Len(rows)
      BY <1>1
    <2> HIDE DEF k
    <2>2. (PriceIn(rows, k) = None <=> Priced(rows, k) = {}) /\ (Priced(rows, k) # {} => PriceIn(rows, k) \in Prices)
      BY <2>1, PriceOf
    <2> QED  BY <2>2 DEF k
  <1>7. /\ nc.price = price /\ nc.volume = VolumeIn(rows, n + 1)
        /\ nc.candles = (IF price = None THEN old
                         ELSE [t \in DOMAIN old \cup {t0} |-> IF t = t0 THEN candle ELSE old[t]])
    BY <1>3, <1>4 DEF Row
  <1>8. /\ PricedRows(rows, n + 1) =
             IF hasPrice THEN PricedRows(rows, n) \cup {n + 1} ELSE PricedRows(rows, n)
        /\ \A t : RowsOf(rows, n + 1, t) =
             IF hasPrice /\ t0 = t THEN RowsOf(rows, n, t) \cup {n + 1} ELSE RowsOf(rows, n, t)
        /\ \A t : RowsOf(rows, n, t) # {} <=> t \in DOMAIN old
        /\ \A t : RowsOf(rows, n, t) \in SUBSET (1 .. n)
        /\ PricedRows(rows, n + 1) = 1 .. n + 1 => PricedRows(rows, n) = 1 .. n
        /\ PricedRows(rows, n + 1) = 1 .. n + 1 => hasPrice
    BY <1>2, RowsMore
  <1>9. \A t : Total(GrownIn(rows, n + 1, t)) =
             Total(GrownIn(rows, n, t)) + (IF hasPrice /\ t0 = t THEN g ELSE 0)
    BY GrownInMore
  <1>10. \A t : Total(GrownIn(rows, n, t)) \in Nat
    BY <1>1, GrownTyped
  <1> HIDE DEF nc, g, t0, price, hasPrice, old, m
  <1>11. CASE ~hasPrice
    <2>1. nc.candles = old
      BY <1>6, <1>7, <1>11
    <2>2. PricedRows(rows, n + 1) = PricedRows(rows, n) /\ \A t : RowsOf(rows, n + 1, t) = RowsOf(rows, n, t)
      BY <1>8, <1>11
    <2>3. PricedRows(rows, n + 1) # 1 .. n + 1
      BY <1>8, <1>11
    <2>4. \A t : Total(GrownIn(rows, n + 1, t)) = Total(GrownIn(rows, n, t))
      <3> SUFFICES ASSUME NEW t
                   PROVE  Total(GrownIn(rows, n + 1, t)) = Total(GrownIn(rows, n, t))
        OBVIOUS
      <3> DEFINE x == Total(GrownIn(rows, n, t))
                 y == Total(GrownIn(rows, n + 1, t))
      <3>1. x \in Nat /\ y = x + (IF hasPrice /\ t0 = t THEN g ELSE 0)
        BY <1>9, <1>10
      <3> HIDE DEF x, y
      <3>2. x = y
        BY <1>11, <3>1
      <3> QED  BY <3>2 DEF x, y
    <2>5. DOMAIN nc.candles = {MinuteOf(rows[i].ts) : i \in PricedRows(rows, n + 1)}
      BY <1>2, <2>1, <2>2
    <2>6. ASSUME NEW t \in DOMAIN nc.candles
          PROVE  /\ nc.candles[t] \in Bar /\ nc.candles[t].ts = t
                 /\ SameShape(nc.candles[t], ShapeIn(rows, RowsOf(rows, n + 1, t)))
                 /\ PricedRows(rows, n + 1) = 1 .. n + 1 =>
                      nc.candles[t].volume = Total(GrownIn(rows, n + 1, t))
      BY <1>2, <2>1, <2>2, <2>3
    <2>7. \A t : t \notin DOMAIN nc.candles => Total(GrownIn(rows, n + 1, t)) = 0
      BY <1>2, <2>1, <2>4
    <2> QED  BY <1>7, <2>5, <2>6, <2>7 DEF CandlesFit, nc, m, price
  <1>12. CASE hasPrice
    <2> DEFINE new == [t \in DOMAIN old \cup {t0} |-> IF t = t0 THEN candle ELSE old[t]]
    <2>1. nc.candles = new /\ price \in Prices
      BY <1>6, <1>7, <1>12
    <2>2. /\ DOMAIN new = DOMAIN old \cup {t0} /\ new[t0] = candle
          /\ \A t \in DOMAIN old : t # t0 => new[t] = old[t]
      <3> HIDE DEF candle
      <3> QED  OBVIOUS
    <2>3. DOMAIN new = {MinuteOf(rows[i].ts) : i \in PricedRows(rows, n + 1)}
      BY <1>2, <1>8, <1>12, <2>2 DEF t0, m
    <2>4. \A t : t # t0 => /\ RowsOf(rows, n + 1, t) = RowsOf(rows, n, t)
                           /\ Total(GrownIn(rows, n + 1, t)) = Total(GrownIn(rows, n, t))
      <3> SUFFICES ASSUME NEW t, t # t0
                   PROVE  /\ RowsOf(rows, n + 1, t) = RowsOf(rows, n, t)
                          /\ Total(GrownIn(rows, n + 1, t)) = Total(GrownIn(rows, n, t))
        OBVIOUS
      <3> DEFINE x == Total(GrownIn(rows, n, t))
                 y == Total(GrownIn(rows, n + 1, t))
      <3>1. x \in Nat /\ y = x + (IF hasPrice /\ t0 = t THEN g ELSE 0)
        BY <1>9, <1>10
      <3> HIDE DEF x, y
      <3>2. x = y
        BY <3>1
      <3>3. RowsOf(rows, n + 1, t) = RowsOf(rows, n, t)
        BY <1>8
      <3> QED  BY <3>2, <3>3 DEF x, y
    <2>5. RowsOf(rows, n + 1, t0) = RowsOf(rows, n, t0) \cup {n + 1}
          /\ Total(GrownIn(rows, n + 1, t0)) = Total(GrownIn(rows, n, t0)) + g
      BY <1>8, <1>9, <1>12
    <2> DEFINE at == RowsOf(rows, n, t0)
               s == ShapeIn(rows, at)
               k == n + 1
               p == PriceIn(rows, k)
    <2>6. p \in Nat /\ p \in Prices /\ p = price
      <3>1. Prices \subseteq Nat
        BY BarsAssumption
      <3> QED  BY <2>1, <3>1 DEF price
    <2>7. /\ candle \in Bar /\ candle.ts = t0
          /\ SameShape(candle, ShapeIn(rows, at \cup {k}))
          /\ PricedRows(rows, n) = 1 .. n => candle.volume = Total(GrownIn(rows, n, t0)) + g
      <3>1. CASE t0 \in DOMAIN old
        <4> DEFINE was == old[t0]
        <4>1. /\ was \in Bar /\ was.ts = t0 /\ SameShape(was, s)
              /\ PricedRows(rows, n) = 1 .. n => was.volume = Total(GrownIn(rows, n, t0))
          BY <1>2, <3>1
        <4>2. candle = Widened(was, price, g)
          BY <3>1
        <4> HIDE DEF candle, was
        <4>a. /\ Widened(was, price, g) \in Bar /\ Widened(was, price, g).ts = was.ts
              /\ Widened(was, price, g).volume = was.volume + g
              /\ Widened(was, price, g).open = was.open
              /\ Widened(was, price, g).high = (IF was.high >= price THEN was.high ELSE price)
              /\ Widened(was, price, g).low = (IF was.low <= price THEN was.low ELSE price)
              /\ Widened(was, price, g).close = price
          <5>1. was \in Bar /\ price \in Prices /\ g \in Nat
            BY <1>4, <2>1, <4>1
          <5> HIDE DEF s, at, new, p, k
          <5> QED  BY <5>1, WidenedOf
        <4>3. /\ candle \in Bar /\ candle.ts = t0 /\ candle.volume = was.volume + g
              /\ candle.open = was.open /\ candle.close = price
              /\ candle.high = (IF was.high >= price THEN was.high ELSE price)
              /\ candle.low = (IF was.low <= price THEN was.low ELSE price)
          BY <4>1, <4>2, <4>a
        <4>4. at # {} /\ at \in SUBSET (1 .. n)
          BY <1>8, <3>1
        <4>5. \A i \in at : PriceIn(rows, i) \in Nat
          <5>1. \A i \in at : i \in 0 .. Len(rows) /\ Priced(rows, i) # {}
            BY <1>1 DEF RowsOf, PricedRows
          <5>2. Prices \subseteq Nat
            BY BarsAssumption
          <5> QED  BY <5>1, <5>2, PriceOf
        <4> HIDE DEF at
        <4> DEFINE new1 == ShapeIn(rows, at \cup {n + 1})
        <4>6. /\ new1.open = s.open /\ new1.close = PriceIn(rows, n + 1)
              /\ new1.high = (IF s.high >= PriceIn(rows, n + 1) THEN s.high ELSE PriceIn(rows, n + 1))
              /\ new1.low = (IF s.low <= PriceIn(rows, n + 1) THEN s.low ELSE PriceIn(rows, n + 1))
          BY <1>1, <2>6, <4>4, <4>5, ShapeOfMore
        <4>7. was.open = s.open /\ was.high = s.high /\ was.low = s.low
          BY <4>1, SameShapeIs
        <4>8. SameShape(candle, new1)
          <5> HIDE DEF new1, s
          <5>1. candle.open = new1.open /\ candle.high = new1.high /\ candle.low = new1.low
                /\ candle.close = new1.close
            BY <4>3, <4>6, <4>7 DEF price
          <5> QED  BY <5>1, SameShapeIs DEF new1
        <4> QED  BY <4>1, <4>3, <4>8 DEF candle
      <3>2. CASE t0 \notin DOMAIN old
        <4>1. candle = NewBar(t0, price, g)
          BY <3>2
        <4> HIDE DEF candle
        <4>2. /\ candle \in Bar /\ candle.ts = t0 /\ candle.volume = g /\ candle.open = price
              /\ candle.high = price /\ candle.low = price /\ candle.close = price
          BY <1>4, <1>5, <2>1, <4>1 DEF NewBar, Bar
        <4>3. at \cup {k} = {k}
          BY <1>8, <3>2
        <4>4. k \in Nat
          BY <1>1
        <4> HIDE DEF k
        <4>5. ShapeIn(rows, {k}) = [open |-> p, high |-> p, low |-> p, close |-> p]
          BY <2>6, <4>4, ShapeOfOne
        <4>6. SameShape(candle, ShapeIn(rows, {k}))
          BY <2>6, <4>2, <4>5, SameShapeIs
        <4>7. Total(GrownIn(rows, n, t0)) = 0
          BY <1>2, <3>2
        <4>8. candle.volume = Total(GrownIn(rows, n, t0)) + g
          BY <1>4, <4>2, <4>7
        <4>9. SameShape(candle, ShapeIn(rows, at \cup {k}))
          BY <4>3, <4>6
        <4> QED  BY <4>2, <4>8, <4>9 DEF candle, k
      <3> QED  BY <3>1, <3>2
    <2> HIDE DEF candle, new
    <2>8. ASSUME NEW t \in DOMAIN new
          PROVE  /\ new[t] \in Bar /\ new[t].ts = t
                 /\ SameShape(new[t], ShapeIn(rows, RowsOf(rows, n + 1, t)))
                 /\ PricedRows(rows, n + 1) = 1 .. n + 1 => new[t].volume = Total(GrownIn(rows, n + 1, t))
      <3>1. CASE t = t0
        BY <1>8, <2>2, <2>5, <2>7, <3>1
      <3>2. CASE t # t0
        <4>1. t \in DOMAIN old /\ new[t] = old[t]
          BY <2>2, <3>2
        <4> QED  BY <1>2, <1>8, <2>4, <3>2, <4>1
      <3> QED  BY <3>1, <3>2
    <2>9. ASSUME NEW t, t \notin DOMAIN new  PROVE Total(GrownIn(rows, n + 1, t)) = 0
      <3>1. t \notin DOMAIN old /\ t # t0
        BY <2>2, <2>9
      <3> QED  BY <1>2, <2>4, <3>1
    <2> QED  BY <1>7, <2>1, <2>3, <2>8, <2>9 DEF CandlesFit, nc, m, price
  <1> QED  BY <1>11, <1>12

CandlesAfter(rows) ==
    LET after[n \in 0 .. Len(rows)] == IF n = 0 THEN NoCandles ELSE Row(after[n - 1], rows[n])
    IN after[Len(rows)]
AreCandles(f, rows) ==
    f[0] = NoCandles /\ \A n \in 1 .. Len(rows) : f[n] = Row(f[n - 1], rows[n])

LEMMA CandlesExist ==
    ASSUME NEW rows, Len(rows) \in Nat
    PROVE  \E f : f = [n \in 0 .. Len(rows) |->
                          IF n = 0 THEN NoCandles ELSE Row(f[n - 1], rows[n])]
  <1> DEFINE Upto(f, m) == f = [n \in 0 .. m |-> IF n = 0 THEN NoCandles ELSE Row(f[n - 1], rows[n])]
  <1> DEFINE T == {m \in 0 .. Len(rows) : ~ \E f : Upto(f, m)}
  <1> SUFFICES ASSUME T # {} PROVE FALSE
    OBVIOUS
  <1>0. T \in SUBSET Nat
    OBVIOUS
  <1>1. PICK m \in T : \A n \in T : m <= n
    <2> HIDE DEF T
    <2> QED  BY LeastNatural, <1>0
  <1>2. m # 0
    <2> SUFFICES ASSUME m = 0 PROVE FALSE
      OBVIOUS
    <2> DEFINE z == [n \in 0 .. 0 |-> NoCandles]
    <2>1. Upto(z, 0)
      BY SMT
    <2> QED  BY <1>1, <2>1
  <1>3. m \in Nat /\ m - 1 \in 0 .. Len(rows) /\ m - 1 \notin T
    <2>1. m \in 0 .. Len(rows)
      OBVIOUS
    <2> HIDE DEF T
    <2>2. \A n \in T : n \in Nat
      BY <1>0
    <2> QED  BY <1>1, <1>2, <2>1, <2>2
  <1>4. PICK g : Upto(g, m - 1)
    BY <1>3
  <1> DEFINE h == [n \in 0 .. m |-> IF n = 0 THEN NoCandles ELSE Row(g[n - 1], rows[n])]
  <1>5. \A n \in 0 .. m : n # m => h[n] = g[n]
    BY <1>1, <1>4
  <1>6. Upto(h, m)
    <2>1. \A n \in 0 .. m : (IF n = 0 THEN NoCandles ELSE Row(g[n - 1], rows[n]))
                            = (IF n = 0 THEN NoCandles ELSE Row(h[n - 1], rows[n]))
      BY <1>5, <1>1
    <2> HIDE DEF T
    <2>2. h = [n \in 0 .. m |-> IF n = 0 THEN NoCandles ELSE Row(g[n - 1], rows[n])]
      OBVIOUS
    <2> HIDE DEF h
    <2> QED  BY <2>1, <2>2
  <1> QED  BY <1>1, <1>6

LEMMA CandlesLast ==
    ASSUME NEW rows, Len(rows) \in Nat
    PROVE  \E f : AreCandles(f, rows) /\ CandlesAfter(rows) = f[Len(rows)]
  <1> DEFINE after[n \in 0 .. Len(rows)] == IF n = 0 THEN NoCandles ELSE Row(after[n - 1], rows[n])
  <1>1. CandlesAfter(rows) = after[Len(rows)]
    BY DEF CandlesAfter
  <1>2. PICK g : g = [n \in 0 .. Len(rows) |-> IF n = 0 THEN NoCandles ELSE Row(g[n - 1], rows[n])]
    BY CandlesExist
  <1>3. after = [n \in 0 .. Len(rows) |-> IF n = 0 THEN NoCandles ELSE Row(after[n - 1], rows[n])]
    BY <1>2, Zenon
  <1>4. PICK s : /\ s = [n \in 0 .. Len(rows) |-> IF n = 0 THEN NoCandles ELSE Row(s[n - 1], rows[n])]
                 /\ CandlesAfter(rows) = s[Len(rows)]
    BY <1>1, <1>3
  <1>5. s[0] = NoCandles
    BY <1>4
  <1>6. ASSUME NEW n \in 1 .. Len(rows) PROVE s[n] = Row(s[n - 1], rows[n])
    <2>1. n \in 0 .. Len(rows) /\ n # 0
      OBVIOUS
    <2> QED  BY <2>1, <1>4
  <1>7. AreCandles(s, rows)
    BY <1>5, <1>6 DEF AreCandles
  <1> QED  BY <1>4, <1>7

LEMMA CandlesAreFit ==
    ASSUME NEW rows \in Seq(Msgs)
    PROVE  CandlesFit(rows, Len(rows), CandlesAfter(rows))
  <1> DEFINE l == Len(rows)
  <1>1. l \in Nat
    BY LenProperties
  <1>2. PICK f : AreCandles(f, rows) /\ CandlesAfter(rows) = f[l]
    BY <1>1, CandlesLast
  <1>3. CandlesFit(rows, 0, f[0])
    <2>1. f[0] = NoCandles
      BY <1>2 DEF AreCandles
    <2>2. PricedRows(rows, 0) = {} /\ PriceIn(rows, 0) = None /\ VolumeIn(rows, 0) = None
      BY NoneYet DEF PricedRows
    <2>3. ASSUME NEW t  PROVE Total(GrownIn(rows, 0, t)) = 0
      <3>1. 0 \in 0 .. Len(rows)
        BY <1>1
      <3>2. GrownIn(rows, 0, t) \in Seq(Nat) /\ Len(GrownIn(rows, 0, t)) = 0
        BY <3>1, GrownTyped
      <3> DEFINE v == GrownIn(rows, 0, t)
      <3> HIDE DEF v
      <3>3. v \in Seq(Nat) /\ v = <<>>
        BY <3>2, EmptySeq DEF v
      <3> QED  BY <3>3, TotalOfNone DEF v
    <2>4. DOMAIN <<>> = {}
      OBVIOUS
    <2>5. f[0].price = None /\ f[0].volume = None /\ f[0].candles = <<>>
      BY <2>1 DEF NoCandles
    <2>6. {MinuteOf(rows[i].ts) : i \in PricedRows(rows, 0)} = {}
      BY <2>2
    <2> QED  BY <2>2, <2>3, <2>4, <2>5, <2>6 DEF CandlesFit
  <1> DEFINE T == {n \in 0 .. l : ~CandlesFit(rows, n, f[n])}
  <1>4. ASSUME T # {}  PROVE FALSE
    <2>0. T \in SUBSET Nat
      BY <1>1
    <2>1. PICK n \in T : \A k \in T : n <= k
      <3> HIDE DEF T
      <3> QED  BY <1>4, LeastNatural, <2>0
    <2>2. n # 0 /\ n \in 1 .. l
      BY <1>1, <1>3, <2>1
    <2>3. PICK k \in Int : k = n - 1
      BY <2>2
    <2>4. k \in 0 .. Len(rows) - 1 /\ n = k + 1 /\ k \notin T /\ k \in 0 .. l
      BY <1>1, <2>1, <2>2, <2>3
    <2>5. CandlesFit(rows, k, f[k])
      BY <2>4
    <2>6. CandlesFit(rows, k + 1, Row(f[k], rows[k + 1]))
      <3> DEFINE c == f[k]
      <3> HIDE DEF c, T, l
      <3>1. CandlesFit(rows, k, c)
        BY <2>5 DEF c
      <3>2. CandlesFit(rows, k + 1, Row(c, rows[k + 1]))
        BY <2>4, <3>1, RowFits
      <3> QED  BY <3>2 DEF c
    <2>7. f[n] = Row(f[k], rows[n])
      BY <1>2, <2>2, <2>3 DEF AreCandles
    <2> QED  BY <2>1, <2>4, <2>6, <2>7
  <1>5. l \in 0 .. l /\ l \notin T
    BY <1>1, <1>4
  <1> QED  BY <1>2, <1>5

LEMMA InOrderIs ==
    ASSUME NEW lines \in Seq(Msgs)
    PROVE  InOrder(lines) \in Seq(Msgs) /\ Len(InOrder(lines)) = Len(lines)
  <1> DEFINE n == Len(lines)
             times == [i \in DOMAIN lines |-> lines[i].ts]
             at == SortedPlaces(times)
             rows == InOrder(lines)
  <1>1. n \in Nat /\ DOMAIN lines = 1 .. n /\ \A i \in 1 .. n : lines[i] \in Msgs /\ lines[i].ts \in Int
    BY MsgOf
  <1>2. DOMAIN times = 1 .. n /\ \A i \in 1 .. n : times[i] \in Int
    BY <1>1
  <1> HIDE DEF times, n
  <1>3. \A k \in 1 .. n : SortedPlaces(times)[k] \in 1 .. n
    BY <1>1, <1>2, SortedOnto
  <1>4. rows = [k \in 1 .. n |-> lines[at[k]]]
    BY <1>1 DEF InOrder, times
  <1>5. \A k \in 1 .. n : lines[at[k]] \in Msgs
    BY <1>1, <1>3
  <1> HIDE DEF rows, at
  <1>6. rows \in Seq(Msgs)
    <2>1. rows \in [1 .. n -> Msgs]
      BY <1>4, <1>5
    <2> QED  BY <1>1, <2>1, IsASeq
  <1>7. Len(rows) = n
    <2>1. DOMAIN rows = 1 .. n
      BY <1>4
    <2> QED  BY <1>1, <1>6, <2>1, LenProperties
  <1> QED  BY <1>6, <1>7 DEF rows, n

\* The rows of any list of messages give the candles of its prices and volumes.
LEMMA CandlesAreTrue ==
    ASSUME messages \in Seq(Msgs)
    PROVE  CandlesTrue
  <1> SUFFICES ASSUME NEW from \in RecordFrom
               PROVE  LET rows == InOrder(Recorded(from))
                          candles == Candles(Recorded(from))
                          priced == {i \in DOMAIN rows : \E j \in 1 .. i : rows[j].last # None}
                          price(i) == rows[Max({j \in 1 .. i : rows[j].last # None})].last
                          of(t) == {i \in priced : MinuteOf(rows[i].ts) = t}
                      IN /\ DOMAIN candles = {MinuteOf(rows[i].ts) : i \in priced}
                         /\ \A t \in DOMAIN candles :
                              /\ candles[t].ts = t
                              /\ candles[t].open = price(Min(of(t))) /\ candles[t].close = price(Max(of(t)))
                              /\ candles[t].high = Max({price(i) : i \in of(t)})
                              /\ candles[t].low = Min({price(i) : i \in of(t)})
                              /\ priced = DOMAIN rows =>
                                   candles[t].volume =
                                     Total([i \in DOMAIN rows |-> IF i \in of(t) THEN Grown(rows, i) ELSE 0])
    BY DEF CandlesTrue
  <1> DEFINE lines == Recorded(from)
             rows == InOrder(lines)
             n == Len(rows)
             candles == Candles(lines)
             priced == {i \in DOMAIN rows : \E j \in 1 .. i : rows[j].last # None}
             price(i) == rows[Max({j \in 1 .. i : rows[j].last # None})].last
             of(t) == {i \in priced : MinuteOf(rows[i].ts) = t}
  <1>1. lines \in Seq(Msgs)
    <2>1. from \in Int /\ from >= 1 /\ Len(messages) \in Int
      BY BarsAssumption, LenProperties
    <2>2. \A i \in from .. Len(messages) : messages[i] \in Msgs
      BY <2>1, MsgOf
    <2> QED  BY <2>1, <2>2, SubSeqProperties DEF Recorded
  <1> HIDE DEF lines
  <1>2. rows \in Seq(Msgs)
    BY <1>1, InOrderIs
  <1>3. candles = CandlesAfter(rows).candles
    BY DEF Candles, CandlesOf, CandlesAfter
  <1> HIDE DEF rows, candles
  <1>4. n \in Nat /\ DOMAIN rows = 1 .. n
    BY <1>2, LenProperties
  <1> DEFINE c == CandlesAfter(rows)
  <1>5. CandlesFit(rows, n, c)
    BY <1>2, CandlesAreFit
  <1> HIDE DEF c
  <1>6. priced = PricedRows(rows, n)
    BY <1>4 DEF PricedRows, Priced
  <1>7. \A t : of(t) = RowsOf(rows, n, t)
    BY <1>6 DEF RowsOf
  <1>8. \A i \in priced : price(i) = PriceIn(rows, i)
    <2>1. \A i \in priced : Priced(rows, i) # {}
      BY <1>6 DEF PricedRows
    <2> HIDE DEF priced
    <2> QED  BY <2>1 DEF PriceIn, Priced
  <1>9. DOMAIN candles = {MinuteOf(rows[i].ts) : i \in priced}
    BY <1>3, <1>5, <1>6 DEF CandlesFit, c
  <1>10. ASSUME NEW t \in DOMAIN candles
         PROVE  /\ candles[t].ts = t
                /\ candles[t].open = price(Min(of(t))) /\ candles[t].close = price(Max(of(t)))
                /\ candles[t].high = Max({price(i) : i \in of(t)})
                /\ candles[t].low = Min({price(i) : i \in of(t)})
                /\ priced = DOMAIN rows =>
                     candles[t].volume =
                       Total([i \in DOMAIN rows |-> IF i \in of(t) THEN Grown(rows, i) ELSE 0])
    <2> DEFINE at == of(t)
               s == ShapeIn(rows, RowsOf(rows, n, t))
    <2>1. /\ candles[t].ts = t /\ SameShape(candles[t], s)
          /\ PricedRows(rows, n) = 1 .. n => candles[t].volume = Total(GrownIn(rows, n, t))
      BY <1>3, <1>5 DEF CandlesFit, c
    <2>2. at # {} /\ at \subseteq priced /\ at \in SUBSET (1 .. n) /\ at = RowsOf(rows, n, t)
      BY <1>4, <1>7, <1>9
    <2>3. [i \in DOMAIN rows |-> IF i \in of(t) THEN Grown(rows, i) ELSE 0] = GrownIn(rows, n, t)
      BY <1>4, <1>7 DEF GrownIn
    <2>4. priced = DOMAIN rows => candles[t].volume = Total(GrownIn(rows, n, t))
      BY <1>4, <1>6, <2>1
    <2> HIDE DEF at, priced, price
    <2>5. Min(at) \in at /\ Max(at) \in at
      <3>1. at \in SUBSET Nat
        BY <2>2
      <3> QED  BY <1>4, <2>2, <3>1, MinOf, LastOf
    <2>6. price(Min(at)) = PriceIn(rows, Min(at)) /\ price(Max(at)) = PriceIn(rows, Max(at))
      BY <1>8, <2>2, <2>5
    <2>7. {price(i) : i \in at} = {PriceIn(rows, i) : i \in at}
      BY <1>8, <2>2
    <2>8. /\ candles[t].open = PriceIn(rows, Min(at)) /\ candles[t].close = PriceIn(rows, Max(at))
          /\ candles[t].high = Max({PriceIn(rows, i) : i \in at})
          /\ candles[t].low = Min({PriceIn(rows, i) : i \in at})
      <3>1. s = [open |-> PriceIn(rows, Min(at)), high |-> Max({PriceIn(rows, i) : i \in at}),
                 low |-> Min({PriceIn(rows, i) : i \in at}), close |-> PriceIn(rows, Max(at))]
        BY <2>2 DEF ShapeIn
      <3>2. /\ candles[t].open = s.open /\ candles[t].high = s.high
            /\ candles[t].low = s.low /\ candles[t].close = s.close
        BY <2>1, SameShapeIs
      <3> HIDE DEF s
      <3> QED  BY <3>1, <3>2
    <2> QED  BY <2>1, <2>3, <2>4, <2>6, <2>7, <2>8 DEF at
  <1> QED  BY <1>9, <1>10 DEF rows, candles, lines

\* A recording of all the messages replays to the very bars that were live, one
\* that was started later to the same bars from its second on, and the candles of
\* any recording are those of its prices and volumes.
\* (PatternReplayRunner.feed_record, load_recorded_minute_candles.)
THEOREM RecordingHolds == BarsSpec => []RecordingTrue
  <1>1. ReplayInv => RecordingTrue
    BY ReplaysAreLive, CandlesAreTrue DEF RecordingTrue, ReplayInv, BarsInv
  <1> QED  BY <1>1, ReplayInitInv, ReplayNextInv, PTL DEF BarsSpec
=============================================================================
