----------------------- MODULE RecordingRuntime_proofs -----------------------
(***************************************************************************)
(* Proofs about RecordingRuntime, for any symbols, clients and bounds.     *)
(***************************************************************************)
EXTENDS RecordingRuntime, TLAPS

StopOperations == {"manual", "cutoff", "shutdown"}

\* A thread inside stop_recording knows why it stops.
Stopping ==
    \A t \in Threads : pc[t] \in {"take", "close", "settle"} => frame[t].op \in StopOperations

TypeInv == TypeOK /\ Stopping

ControlOK ==
    /\ pc \in [Threads -> AtRest \cup Busy]
    /\ frame \in [Threads -> Frames]

\* The rest of TypeOK: everything but the threads' control.
DataOK ==
    /\ intent \in Intents
    /\ count \in 0 .. MaxSessions
    /\ status \in [Sessions -> Statuses]
    /\ active \in [Sessions -> SUBSET Symbols]
    /\ birth \in [Sessions -> Births]
    /\ started \in BOOLEAN /\ watchdogStop \in BOOLEAN
    /\ recorder \in 0 .. MaxSessions
    /\ recordingSymbols \in SUBSET Symbols
    /\ stream \in BOOLEAN /\ recentAttempt \in BOOLEAN
    /\ shown \in Shown
    /\ day \in 1 .. MaxDay /\ late \in BOOLEAN
    /\ boots \in 0 .. MaxBoots /\ calls \in 0 .. MaxCalls

\* The named threads are threads, and the constants have their types.
LEMMA ThreadTypes ==
    /\ Watchdog \in Threads /\ Main \in Threads
    /\ Clients \subseteq Threads /\ Sessions \subseteq Threads
    /\ MaxSessions \in Nat /\ MaxBoots \in Nat /\ MaxCalls \in Nat
    /\ MaxDay \in Nat /\ 1 \in 1 .. MaxDay
    /\ 0 \in 0 .. MaxSessions /\ 0 \in 0 .. MaxBoots /\ 0 \in 0 .. MaxCalls
    /\ Blank \in Frames /\ NoIntent \in Intents /\ Unborn \in Births
    /\ Rest0 \in [Threads -> AtRest]
    /\ \A t \in Threads : RestOf(t) \in AtRest
BY BoundsAssumption DEF Threads, Recoverers, Blank, NewFrame, Frames, NoIntent, Intents, Unborn,
    Births, Operations, Rest0, AtRest, RestOf

\* A thread that returns keeps the control well-typed.
LEMMA FinishControl ==
    ASSUME ControlOK, Stopping, NEW t \in Threads, Finish(t)
    PROVE  ControlOK' /\ Stopping'
<1>1. ControlOK'
  BY ThreadTypes DEF ControlOK, Finish, Go
<1>2. Stopping'
  BY ThreadTypes DEF ControlOK, Stopping, Finish, Go, AtRest
<1> QED BY <1>1, <1>2

\* So does one that only moves on.
LEMMA GoControl ==
    ASSUME ControlOK, Stopping, NEW t \in Threads, UNCHANGED frame,
           NEW next \in AtRest \cup Busy, Go(t, next),
           next \in {"take", "close", "settle"} => frame[t].op \in StopOperations
    PROVE  ControlOK' /\ Stopping'
BY DEF ControlOK, Stopping, Go

\* So does one that moves on with another frame.
LEMMA JumpControl ==
    ASSUME ControlOK, Stopping, NEW t \in Threads, 
           NEW next \in AtRest \cup Busy, Go(t, next),
           NEW f \in Frames, frame' = [frame EXCEPT ![t] = f],
           next \in {"take", "close", "settle"} => f.op \in StopOperations
    PROVE  ControlOK' /\ Stopping'
BY DEF ControlOK, Stopping, Go

\* So does one that enters an operation with a new frame.
LEMMA CallControl ==
    ASSUME ControlOK, Stopping, NEW t \in Threads, NEW next \in AtRest \cup Busy,
           NEW op \in Operations, NEW syms \in SUBSET Symbols, NEW found \in Intents,
           Go(t, next), frame' = [frame EXCEPT ![t] = NewFrame(op, found, syms)],
           next \in {"take", "close", "settle"} => op \in StopOperations
    PROVE  ControlOK' /\ Stopping'
<1>1. NewFrame(op, found, syms) \in Frames /\ NewFrame(op, found, syms).op = op
  BY ThreadTypes DEF NewFrame, Frames
<1> QED BY <1>1, JumpControl

\* So does one that notes a recorder and its symbols.
LEMMA HoldControl ==
    ASSUME ControlOK, Stopping, NEW t \in Threads, NEW next \in AtRest \cup Busy,
           NEW rec \in 0 .. MaxSessions, NEW syms \in SUBSET Symbols, Go(t, next),
           frame' = [frame EXCEPT ![t].rec = rec, ![t].syms = syms],
           next \in {"take", "close", "settle"} => frame[t].op \in StopOperations
    PROVE  ControlOK' /\ Stopping'
<1> DEFINE f == [frame[t] EXCEPT !.rec = rec, !.syms = syms]
<1>1. f \in Frames /\ f.op = frame[t].op
  BY DEF ControlOK, Frames
<1>2. frame' = [frame EXCEPT ![t] = f]
  BY DEF ControlOK
<1> HIDE DEF f
<1> QED BY <1>1, <1>2, JumpControl

\* So does one that notes the recorder it installed.
LEMMA InstallControl ==
    ASSUME ControlOK, Stopping, NEW t \in Threads, NEW rec \in 0 .. MaxSessions,
           Go(t, "persist"), frame' = [frame EXCEPT ![t].rec = rec]
    PROVE  ControlOK' /\ Stopping'
<1> DEFINE f == [frame[t] EXCEPT !.rec = rec]
<1>1. f \in Frames
  BY DEF ControlOK, Frames
<1>2. frame' = [frame EXCEPT ![t] = f]
  BY DEF ControlOK
<1> HIDE DEF f
<1>3. "persist" \in AtRest \cup Busy
  BY DEF Busy
<1> QED BY <1>1, <1>2, <1>3 DEF ControlOK, Stopping, Go

\* A process that is gone has every thread at rest.
LEMMA BlankControl ==
    ASSUME pc' = Rest0, frame' = [t \in Threads |-> Blank]
    PROVE  ControlOK' /\ Stopping'
BY ThreadTypes DEF ControlOK, Stopping, AtRest

\* A step that leaves control alone keeps it well-typed.
LEMMA UnchangedControl ==
    ASSUME ControlOK, Stopping, UNCHANGED <<pc, frame>>
    PROVE  ControlOK' /\ Stopping'
BY DEF ControlOK, Stopping

\* The initial state is well-typed.
LEMMA TypeInit == Init => TypeInv
<1> SUFFICES ASSUME Init PROVE TypeInv
  OBVIOUS
<1>1. ControlOK /\ Stopping
  BY ThreadTypes DEF Init, ControlOK, Stopping, AtRest
<1>2. /\ status \in [Sessions -> Statuses] /\ active \in [Sessions -> SUBSET Symbols]
      /\ birth \in [Sessions -> Births] /\ shown \in Shown
  BY ThreadTypes DEF Init, Statuses, Shown
<1>3. DataOK
  BY ThreadTypes, <1>2 DEF Init, DataOK
<1> QED BY <1>1, <1>3 DEF TypeInv, TypeOK, DataOK, ControlOK

\* Every step keeps the state well-typed.
LEMMA TypeStep == TypeInv /\ [Next]_vars => TypeInv'
<1> SUFFICES ASSUME TypeInv, [Next]_vars PROVE TypeInv'
  OBVIOUS
<1>a. DataOK /\ ControlOK /\ Stopping
  BY DEF TypeInv, TypeOK, DataOK, ControlOK
<1>b. ASSUME DataOK', ControlOK', Stopping' PROVE TypeInv'
  BY <1>b DEF TypeInv, TypeOK, DataOK, ControlOK
<1> USE <1>a, ThreadTypes DEF disk, sessions, recording, process, memory, world
<1>1. ASSUME NEW t \in Clients, StartCall(t) PROVE TypeInv'
  <2>1. ControlOK' /\ Stopping'
    BY <1>1, CallControl DEF StartCall, Call, Busy, Operations
  <2>2. DataOK'
    BY <1>1 DEF StartCall, DataOK, Call
  <2> QED BY <1>b, <2>1, <2>2
<1>2. ASSUME NEW t \in Clients, AddCall(t) PROVE TypeInv'
  <2>1. ControlOK' /\ Stopping'
    BY <1>2, CallControl, ZenonT(40) DEF AddCall, Call, Busy, Operations
  <2>2. DataOK'
    BY <1>2 DEF AddCall, DataOK, Call
  <2> QED BY <1>b, <2>1, <2>2
<1>3. ASSUME NEW t \in Clients, RemoveCall(t) PROVE TypeInv'
  <2>1. ControlOK' /\ Stopping'
    BY <1>3, CallControl, ZenonT(40) DEF RemoveCall, Call, Busy, Operations
  <2>2. DataOK'
    BY <1>3 DEF RemoveCall, DataOK, Call
  <2> QED BY <1>b, <2>1, <2>2
<1>4. ASSUME NEW t \in Clients, StopCall(t) PROVE TypeInv'
  <2>1. ControlOK' /\ Stopping'
    BY <1>4, CallControl DEF StopCall, Call, Busy, Operations,
       StopOperations
  <2>2. DataOK'
    BY <1>4 DEF StopCall, DataOK, Call
  <2> QED BY <1>b, <2>1, <2>2
<1>5. ASSUME NEW t \in Threads, Create(t) PROVE TypeInv'
  <2>1. CASE CanInstall /\ Install(t)
    <3>1. count + 1 \in Sessions /\ count + 1 \in 0 .. MaxSessions
      BY <2>1 DEF CanInstall, DataOK, Sessions
    <3>2. ControlOK' /\ Stopping'
      BY <2>1, <3>1, InstallControl DEF Install
    <3>3. frame[t].syms \in SUBSET Symbols
          /\ [context |-> frame[t].found, day |-> day, boot |-> boots] \in Births
      BY DEF ControlOK, Frames, Births, DataOK
    <3>4. DataOK'
      BY <2>1, <3>1, <3>3 DEF Install, DataOK, Statuses
    <3> QED BY <1>b, <3>2, <3>4
  <2>2. CASE ~CanInstall /\ Raise(t) /\ UNCHANGED <<disk, memory, world>>
    <3>1. ControlOK' /\ Stopping'
      BY <2>2, GoControl, FinishControl DEF Raise, Busy
    <3>2. DataOK'
      BY <2>2 DEF DataOK
    <3> QED BY <1>b, <3>1, <3>2
  <2> QED BY <1>5, <2>1, <2>2 DEF Create
<1>6. ASSUME NEW t \in Threads, Persist(t) PROVE TypeInv'
  <2>1. ControlOK' /\ Stopping'
    BY <1>6, GoControl DEF Persist, Busy
  <2>2. DataOK'
    BY <1>6 DEF Persist, DataOK, PersistRecordingIntent, Intents, ControlOK, Frames
  <2> QED BY <1>b, <2>1, <2>2
<1>7. ASSUME NEW t \in Threads, EnsureStream(t) PROVE TypeInv'
  <2>1. ControlOK' /\ Stopping'
    BY <1>7, GoControl, FinishControl DEF EnsureStream, Raise, Busy
  <2>2. DataOK'
    BY <1>7 DEF EnsureStream, DataOK
  <2> QED BY <1>b, <2>1, <2>2
<1>8. ASSUME NEW t \in Threads, Publish(t) PROVE TypeInv'
  <2>1. ControlOK' /\ Stopping'
    BY <1>8, FinishControl DEF Publish, ControlOK, Stopping, Busy, AtRest
  <2>2. DataOK'
    BY <1>8 DEF Publish, DataOK, RecorderState, Shown
  <2> QED BY <1>b, <2>1, <2>2
<1>9. ASSUME NEW t \in Threads, Edit(t) PROVE TypeInv'
  <2> DEFINE now == IF frame[t].op = "add"
                    THEN active[recorder] \cup frame[t].syms
                    ELSE active[recorder] \ frame[t].syms
  <2>1. CASE recorder = 0
    <3>1. ControlOK' /\ Stopping'
      BY <1>9, <2>1, FinishControl DEF Edit
    <3>2. DataOK'
      BY <1>9, <2>1 DEF Edit, DataOK
    <3> QED BY <1>b, <3>1, <3>2
  <2>2. CASE recorder # 0
    <3>1. recorder \in Sessions
      BY <2>2 DEF DataOK, Sessions
    <3>2. now \in SUBSET Symbols
      BY <3>1 DEF ControlOK, DataOK, Frames
    <3>3. /\ active' = [active EXCEPT ![recorder] = now]
          /\ recordingSymbols' = now
          /\ frame' = [frame EXCEPT ![t].rec = recorder, ![t].syms = now]
          /\ Go(t, "persist")
      BY <1>9, <2>2 DEF Edit
    <3> HIDE DEF now
    <3>4. ControlOK' /\ Stopping'
      BY <3>2, <3>3, HoldControl DEF DataOK, Busy
    <3>5. DataOK'
      BY <1>9, <3>1, <3>2, <3>3 DEF Edit, DataOK
    <3> QED BY <1>b, <3>4, <3>5
  <2> QED BY <2>1, <2>2
<1>10. ASSUME NEW t \in Threads, Take(t) PROVE TypeInv'
  <2>1. ControlOK' /\ Stopping'
    BY <1>10, HoldControl DEF Take, DataOK, Stopping, Busy
  <2>2. DataOK'
    BY <1>10 DEF Take, DataOK, Release
  <2> QED BY <1>b, <2>1, <2>2
<1>11. ASSUME NEW t \in Threads, Close(t) PROVE TypeInv'
  <2>1. ControlOK' /\ Stopping'
    BY <1>11, GoControl DEF Close, Busy, Stopping
  <2>2. DataOK'
    BY <1>11 DEF Close, DataOK, Seal, Statuses, StopOperations, Stopping
  <2> QED BY <1>b, <2>1, <2>2
<1>12. ASSUME NEW t \in Threads, Settle(t) PROVE TypeInv'
  <2>1. ControlOK' /\ Stopping'
    BY <1>12, GoControl DEF Settle, Busy
  <2>2. DataOK'
    BY <1>12 DEF Settle, DataOK, PersistRecordingIntent, ClearRecordingIntent,
       Intents, ControlOK, Frames
  <2> QED BY <1>b, <2>1, <2>2
<1>13. ASSUME NEW t \in Threads, ClosePublish(t) PROVE TypeInv'
  <2>1. ControlOK' /\ Stopping'
    BY <1>13, FinishControl DEF ClosePublish
  <2>2. DataOK'
    BY <1>13 DEF ClosePublish, DataOK, StoppedState, Shown
  <2> QED BY <1>b, <2>1, <2>2
<1>14. ASSUME NEW t \in Threads, Announce(t) PROVE TypeInv'
  <2>1. ControlOK' /\ Stopping'
    BY <1>14, GoControl, FinishControl DEF Announce, Busy
  <2>2. DataOK'
    BY <1>14 DEF Announce, DataOK, Shown
  <2> QED BY <1>b, <2>1, <2>2
<1>15. ASSUME NEW t \in Threads, Discard(t) PROVE TypeInv'
  <2>1. ControlOK' /\ Stopping'
    BY <1>15, FinishControl DEF Discard
  <2>2. DataOK'
    BY <1>15 DEF Discard, DataOK, ClearRecordingIntent
  <2> QED BY <1>b, <2>1, <2>2
<1>16. ASSUME NEW t \in Threads, CutoffWake(t) PROVE TypeInv'
  <2>1. ControlOK' /\ Stopping'
    BY <1>16, CallControl, FinishControl DEF CutoffWake, Mine, Busy,
       Operations, StopOperations
  <2>2. DataOK'
    BY <1>16 DEF CutoffWake, DataOK
  <2> QED BY <1>b, <2>1, <2>2
<1>17. ASSUME NEW t \in Threads, Lookup(t) PROVE TypeInv'
  <2>1. ControlOK' /\ Stopping'
    BY <1>17, GoControl, FinishControl DEF Lookup, Busy
  <2>2. DataOK'
    BY <1>17 DEF Lookup, DataOK
  <2> QED BY <1>b, <2>1, <2>2
<1>18. ASSUME NEW t \in Threads, Consult(t) PROVE TypeInv'
  <2>1. ControlOK' /\ Stopping'
    BY <1>18, CallControl, GoControl, FinishControl DEF Consult,
       Attempt, Busy, Operations, Intents, DataOK
  <2>2. DataOK'
    BY <1>18 DEF Consult, DataOK, Attempt, ThrottleOnce
  <2> QED BY <1>b, <2>1, <2>2
<1>19. ASSUME NEW t \in Threads, Expire(t) PROVE TypeInv'
  <2>1. ControlOK' /\ Stopping'
    BY <1>19, FinishControl DEF Expire
  <2>2. DataOK'
    BY <1>19 DEF Expire, DataOK, ClearRecordingIntent
  <2> QED BY <1>b, <2>1, <2>2
<1>20. ASSUME NEW t \in Threads, Unauthorized(t) PROVE TypeInv'
  <2>1. ControlOK' /\ Stopping'
    BY <1>20, FinishControl DEF Unauthorized
  <2>2. DataOK'
    BY <1>20 DEF Unauthorized, DataOK, Shown
  <2> QED BY <1>b, <2>1, <2>2
<1>21. ASSUME NEW t \in Threads, Authorized(t) PROVE TypeInv'
  <2>1. ControlOK' /\ Stopping'
    BY <1>21, GoControl DEF Authorized, Busy
  <2>2. DataOK'
    BY <1>21 DEF Authorized, DataOK
  <2> QED BY <1>b, <2>1, <2>2
<1>22. ASSUME NEW t \in Threads, ReportFailure(t) PROVE TypeInv'
  <2>1. ControlOK' /\ Stopping'
    BY <1>22, FinishControl DEF ReportFailure
  <2>2. DataOK'
    BY <1>22 DEF ReportFailure, DataOK, Shown
  <2> QED BY <1>b, <2>1, <2>2
<1>23. ASSUME WatchdogTick PROVE TypeInv'
  <2>1. ControlOK' /\ Stopping'
    BY <1>23, GoControl DEF WatchdogTick, Busy
  <2>2. DataOK'
    BY <1>23 DEF WatchdogTick, DataOK
  <2> QED BY <1>b, <2>1, <2>2
<1>24. ASSUME Halt PROVE TypeInv'
  <2>1. ControlOK' /\ Stopping'
    BY <1>24, CallControl DEF Halt, Busy, Operations,
       StopOperations
  <2>2. DataOK'
    BY <1>24 DEF Halt, DataOK
  <2> QED BY <1>b, <2>1, <2>2
<1>25. ASSUME Boot PROVE TypeInv'
  <2>1. ControlOK' /\ Stopping'
    BY <1>25, GoControl DEF Boot, Busy
  <2>2. DataOK'
    BY <1>25 DEF Boot, DataOK
  <2> QED BY <1>b, <2>1, <2>2
<1>26. ASSUME Shutdown PROVE TypeInv'
  <2>1. ControlOK' /\ Stopping'
    BY <1>26, GoControl DEF Shutdown, Busy
  <2>2. DataOK'
    BY <1>26 DEF Shutdown, DataOK
  <2> QED BY <1>b, <2>1, <2>2
<1>27. ASSUME Forget PROVE TypeInv'
  <2>1. ControlOK' /\ Stopping'
    BY <1>27, BlankControl DEF Forget
  <2>2. DataOK'
    <3>1. status' \in [Sessions -> Statuses]
      BY <1>27 DEF Forget, DataOK, Statuses
    <3>2. active' \in [Sessions -> SUBSET Symbols]
      BY <1>27 DEF Forget
    <3>3. recorder' \in 0 .. MaxSessions /\ recordingSymbols' \in SUBSET Symbols
      BY <1>27 DEF Forget
    <3>4. shown' \in Shown
      BY <1>27 DEF Forget, Shown
    <3> QED BY <1>27, <3>1, <3>2, <3>3, <3>4 DEF Forget, DataOK
  <2> QED BY <1>b, <2>1, <2>2
<1>28. ASSUME ReachCutoff PROVE TypeInv'
  <2>1. ControlOK' /\ Stopping'
    BY <1>28, UnchangedControl DEF ReachCutoff
  <2>2. DataOK'
    BY <1>28 DEF ReachCutoff, DataOK
  <2> QED BY <1>b, <2>1, <2>2
<1>29. ASSUME NextDay PROVE TypeInv'
  <2>1. ControlOK' /\ Stopping'
    BY <1>29, UnchangedControl DEF NextDay
  <2>2. DataOK'
    <3>1. day' \in 1 .. MaxDay
      BY <1>29 DEF NextDay, DataOK
    <3> QED BY <1>29, <3>1 DEF NextDay, DataOK
  <2> QED BY <1>b, <2>1, <2>2
<1>30. CASE UNCHANGED vars
  <2>1. ControlOK' /\ Stopping'
    BY <1>30, UnchangedControl DEF vars
  <2>2. DataOK'
    BY <1>30 DEF vars, DataOK
  <2> QED BY <1>b, <2>1, <2>2
<1> QED
  BY <1>1, <1>2, <1>3, <1>4, <1>5, <1>6, <1>7, <1>8, <1>9, <1>10, <1>11, <1>12,
     <1>13, <1>14, <1>15, <1>16, <1>17, <1>18, <1>19, <1>20, <1>21, <1>22, <1>23,
     <1>24, <1>25, <1>26, <1>27, <1>28, <1>29, <1>30
  DEF Next, Invoke, Step, World, Exit, Crash

\* Every variable of the recording runtime keeps its type.
THEOREM TypeCorrect == Spec => []TypeOK
<1>1. TypeInv => TypeOK
  BY DEF TypeInv
<1> QED BY TypeInit, TypeStep, <1>1, PTL DEF Spec

-----------------------------------------------------------------------------
(* The inductive invariant of the safety properties.                       *)

\* Sessions are numbered in the order of their creation.
Numbering ==
    /\ recorder <= count
    /\ \A s \in Sessions : s > count => status[s] = "none"

\* A session being closed is open, is not the active recorder and has one
\* closer; one whose intent is being settled has the closer's stop reason.
Closing ==
    /\ \A t \in Threads : pc[t] = "close" =>
            /\ frame[t].rec \in Sessions /\ frame[t].rec <= count
            /\ frame[t].rec # recorder
            /\ status[frame[t].rec] = "open"
    /\ \A t, u \in Threads :
            pc[t] = "close" /\ pc[u] = "close" /\ frame[t].rec = frame[u].rec => t = u
    /\ \A t \in Threads : pc[t] = "settle" =>
            /\ frame[t].rec \in Sessions /\ frame[t].rec <= count
            /\ status[frame[t].rec] = frame[t].op
    /\ \A s \in Sessions : status[s] \notin {"none", "open"} => active[s] = {}

\* An intent names no previous session, or one that stop() closed.
TrueIntent(i) ==
    i.previous # 0 => i.previous <= count /\ status[i.previous] = "shutdown"

Provenance ==
    /\ TrueIntent(intent)
    /\ \A t \in Threads : TrueIntent(frame[t].found)
    /\ \A t \in Threads : pc[t] \in {"authorize", "create"} =>
            frame[t].found = NoIntent \/ frame[t].found.day = day

\* A start between its installation and its return is the only one to work on
\* its session, whose cutoff thread does not run yet.
Starter(t) == pc[t] \in {"persist", "ensure", "publish"} /\ frame[t].op = "start"

Arming ==
    /\ \A t \in Threads : Starter(t) =>
            frame[t].rec \in Sessions /\ frame[t].rec <= count /\ pc[frame[t].rec] = "unarmed"
    /\ \A t, u \in Threads : Starter(t) /\ Starter(u) /\ frame[t].rec = frame[u].rec => t = u
    /\ \A s \in Sessions : s > count => pc[s] = "unarmed"
    /\ \A t \in Threads : pc[t] = "edit" => frame[t].op # "start"

Safe ==
    /\ RecorderView /\ NoOrphanSession
    /\ Numbering /\ Closing /\ Arming
    /\ Provenance /\ LineageTrue

\* The initial state is safe.
LEMMA SafeInit == Init => Safe
<1> SUFFICES ASSUME Init PROVE Safe
  OBVIOUS
<1>1. \A t \in Threads : pc[t] \in AtRest /\ frame[t] = Blank
  BY ThreadTypes DEF Init
<1>2. \A s \in Sessions : pc[s] = "unarmed"
  BY ThreadTypes, ThreadsAssumption DEF Init, Rest0, Recoverers
<1>3. RecorderView /\ NoOrphanSession /\ Numbering
  BY ThreadTypes DEF Init, RecorderView, NoOrphanSession, Numbering
<1>4. Closing
  BY <1>1 DEF Init, Closing, AtRest
<1>5. Arming
  BY <1>1, <1>2 DEF Arming, Starter, AtRest
<1>6. Provenance
  BY <1>1 DEF Init, Provenance, TrueIntent, AtRest, Blank, NewFrame, NoIntent
<1>7. LineageTrue
  BY DEF Init, LineageTrue, Unborn
<1> QED BY <1>3, <1>4, <1>5, <1>6, <1>7 DEF Safe

\* Arming survives a step of one thread that starts nothing.
LEMMA ArmingKept ==
    ASSUME TypeInv, Safe, NEW t \in Threads, count' = count, pc[t] # "unarmed",
           \A u \in Threads : u # t => pc'[u] = pc[u] /\ frame'[u] = frame[u],
           (Starter(t))' => Starter(t) /\ frame'[t].rec = frame[t].rec,
           pc'[t] = "edit" => frame'[t].op # "start"
    PROVE  Arming'
<1>1. \A u \in Threads : (Starter(u))' => Starter(u) /\ frame'[u].rec = frame[u].rec
  BY DEF Starter
<1>2. \A s \in Sessions : s \in Threads /\ (pc[s] = "unarmed" => pc'[s] = "unarmed")
  BY DEF Threads
<1> QED BY <1>1, <1>2 DEF Safe, Arming

\* Steps that change a thread's control and perhaps the intent only.
LEMMA ControlStep ==
    ASSUME TypeInv, Safe, NEW t \in Threads, NEW next \in AtRest \cup Busy, NEW f \in Frames,
           Go(t, next), frame' = [frame EXCEPT ![t] = f],
           pc[t] # "close", next \notin {"close", "settle"},
           f.found \in {NoIntent, intent, frame[t].found},
           next \in {"authorize", "create"} => f.found = NoIntent \/ f.found.day = day,
           pc[t] # "unarmed", next = "edit" => f.op # "start",
           next \in {"persist", "ensure", "publish"} =>
                pc[t] \in {"persist", "ensure", "publish"} /\ f = frame[t],
           intent' = intent \/ intent'.previous = 0,
           UNCHANGED <<sessions, recording, day>>
    PROVE  Safe'
<1> USE DEF sessions, recording
<1>1. RecorderView'
  BY DEF Safe, RecorderView
<1>2. NoOrphanSession'
  BY DEF Safe, NoOrphanSession, Go, TypeInv, TypeOK
<1>3. Numbering'
  BY DEF Safe, Numbering
<1>4. Closing'
  BY DEF Safe, Closing, Go, TypeInv, TypeOK
<1>5. Provenance'
  BY DEF Safe, Provenance, TrueIntent, Go, TypeInv, TypeOK, NoIntent
<1>6. LineageTrue'
  BY DEF Safe, LineageTrue
<1>7. /\ pc'[t] = next /\ frame'[t] = f
      /\ \A u \in Threads : u # t => pc'[u] = pc[u] /\ frame'[u] = frame[u]
  BY DEF Go, TypeInv, TypeOK
<1>8. Arming'
  BY <1>7, ArmingKept DEF Starter
<1> QED BY <1>1, <1>2, <1>3, <1>4, <1>5, <1>6, <1>8 DEF Safe

\* A thread that returns keeps Safe.
LEMMA FinishStep ==
    ASSUME TypeInv, Safe, NEW t \in Threads, Finish(t), pc[t] # "close", pc[t] # "unarmed",
           intent' = intent \/ intent'.previous = 0, UNCHANGED <<sessions, recording, day>>
    PROVE  Safe'
<1>1. RestOf(t) \in AtRest \cup Busy /\ RestOf(t) \notin Busy
  BY ThreadTypes DEF AtRest, Busy
<1>2. Blank.found = NoIntent
  BY DEF Blank, NewFrame
<1> QED BY <1>1, <1>2, ThreadTypes, ControlStep DEF Finish, Busy

\* A thread that only moves on keeps Safe.
LEMMA GoStep ==
    ASSUME TypeInv, Safe, NEW t \in Threads, NEW next \in AtRest \cup Busy, Go(t, next),
           pc[t] # "close", next \notin {"close", "settle"},
           next = "create" => pc[t] = "authorize", next # "authorize", next # "edit",
           next \in {"persist", "ensure", "publish"} => pc[t] \in {"persist", "ensure", "publish"},
           pc[t] # "unarmed", UNCHANGED frame,
           intent' = intent \/ intent'.previous = 0, UNCHANGED <<sessions, recording, day>>
    PROVE  Safe'
<1>1. frame[t] \in Frames /\ frame' = [frame EXCEPT ![t] = frame[t]]
  BY DEF TypeInv, TypeOK
<1>2. next \in {"authorize", "create"} => frame[t].found = NoIntent \/ frame[t].found.day = day
  BY DEF Safe, Provenance
<1> QED BY <1>1, <1>2, ControlStep

\* A thread that enters an operation with a new frame keeps Safe.
LEMMA EnterStep ==
    ASSUME TypeInv, Safe, NEW t \in Threads, NEW next \in AtRest \cup Busy, Go(t, next),
           NEW op \in Operations, NEW syms \in SUBSET Symbols, NEW found \in {NoIntent, intent},
           frame' = [frame EXCEPT ![t] = NewFrame(op, found, syms)],
           pc[t] # "close", pc[t] # "unarmed", next = "edit" => op # "start",
           next \notin {"close", "settle", "persist", "ensure", "publish"},
           found = NoIntent \/ found.day = day, UNCHANGED <<intent, sessions, recording, day>>
    PROVE  Safe'
<1>1. /\ NewFrame(op, found, syms) \in Frames
      /\ NewFrame(op, found, syms).found = found /\ NewFrame(op, found, syms).op = op
  BY ThreadTypes DEF NewFrame, Frames, TypeInv, TypeOK
<1> QED BY <1>1, ControlStep

\* An arriving API call keeps Safe.
LEMMA CallStep ==
    ASSUME TypeInv, Safe, NEW t \in Clients, NEW op \in Operations, NEW syms \in SUBSET Symbols,
           NEW next \in {"create", "edit", "take"}, Call(t, op, syms, next),
           next = "edit" => op # "start"
    PROVE  Safe'
<1>1. next \in AtRest \cup Busy /\ next \notin {"close", "settle", "persist", "ensure", "publish"}
  BY DEF Busy
<1>2. /\ Go(t, next) /\ frame' = [frame EXCEPT ![t] = NewFrame(op, NoIntent, syms)]
      /\ pc[t] = "idle" /\ UNCHANGED <<intent, sessions, recording, day>>
  BY DEF Call, disk, memory, sessions, recording
<1>3. NoIntent \in {NoIntent, intent}
  OBVIOUS
<1> QED BY <1>1, <1>2, <1>3, ThreadTypes, EnterStep

\* Intents stay true as long as the sessions stop() closed stay as they are.
LEMMA ProvenanceKept ==
    ASSUME TypeInv, Safe, count' \in Nat, count <= count', day' = day,
           \A s \in Sessions : status[s] = "shutdown" => status'[s] = "shutdown",
           \/ intent' = intent \/ intent'.previous = 0
           \/ intent'.previous <= count' /\ status'[intent'.previous] = "shutdown",
           \A u \in Threads : frame'[u].found \in {frame[u].found, NoIntent},
           \A u \in Threads : pc'[u] \in {"authorize", "create"} =>
                pc'[u] = pc[u] /\ frame'[u].found = frame[u].found
    PROVE  Provenance'
<1>1. \A i \in Intents : i.previous # 0 => i.previous \in Sessions /\ i.previous \in Nat
  BY DEF Intents, Sessions
<1>2. intent \in Intents /\ \A u \in Threads : frame[u].found \in Intents
  BY DEF TypeInv, TypeOK, Frames
<1>3. count \in Nat
  BY DEF TypeInv, TypeOK
<1>4. (TrueIntent(intent))'
  BY <1>1, <1>2, <1>3 DEF Safe, Provenance, TrueIntent
<1>5. \A u \in Threads : (TrueIntent(frame[u].found))'
  BY <1>1, <1>2, <1>3 DEF Safe, Provenance, TrueIntent, NoIntent
<1>6. \A u \in Threads : pc'[u] \in {"authorize", "create"} =>
            frame'[u].found = NoIntent \/ frame'[u].found.day = day'
  BY DEF Safe, Provenance
<1> QED BY <1>4, <1>5, <1>6 DEF Provenance

\* Lineage stays true as long as the sessions stop() closed stay as they are.
LEMMA LineageKept ==
    ASSUME TypeInv, Safe, birth' = birth,
           \A s \in Sessions : status[s] = "shutdown" => status'[s] = "shutdown"
    PROVE  LineageTrue'
<1>1. \A s \in Sessions : birth[s].context.previous # 0 => birth[s].context.previous \in Sessions
  BY DEF TypeInv, TypeOK, Births, Intents, Sessions
<1> QED BY <1>1 DEF Safe, LineageTrue

\* Every step keeps Safe.
LEMMA SafeStep == TypeInv /\ Safe /\ [Next]_vars => Safe'
<1> SUFFICES ASSUME TypeInv, Safe, [Next]_vars PROVE Safe'
  OBVIOUS
<1>a. ASSUME NEW t \in Threads PROVE frame[t] \in Frames /\ frame[t].found \in Intents
  BY DEF TypeInv, TypeOK, Frames
<1>b. count \in Nat /\ recorder \in Nat
  BY ThreadTypes DEF TypeInv, TypeOK
<1> USE <1>a, <1>b, ThreadTypes DEF disk, sessions, recording, process, memory, world
<1>1. ASSUME NEW t \in Clients, StartCall(t) PROVE Safe'
  BY <1>1, CallStep DEF StartCall, Operations
<1>2. ASSUME NEW t \in Clients, AddCall(t) PROVE Safe'
  BY <1>2, CallStep DEF AddCall, Operations
<1>3. ASSUME NEW t \in Clients, RemoveCall(t) PROVE Safe'
  BY <1>3, CallStep DEF RemoveCall, Operations
<1>4. ASSUME NEW t \in Clients, StopCall(t) PROVE Safe'
  BY <1>4, CallStep DEF StopCall, Operations
<1>5. ASSUME NEW t \in Threads, Persist(t) PROVE Safe'
  BY <1>5, FinishStep, GoStep DEF Persist, PersistRecordingIntent, Busy
<1>6. ASSUME NEW t \in Threads, EnsureStream(t) PROVE Safe'
  BY <1>6, FinishStep, GoStep DEF EnsureStream, Raise, Busy
<1>7. ASSUME NEW t \in Threads, ClosePublish(t) PROVE Safe'
  BY <1>7, FinishStep, GoStep DEF ClosePublish
<1>8. ASSUME NEW t \in Threads, Announce(t) PROVE Safe'
  BY <1>8, FinishStep, GoStep DEF Announce, Busy
<1>9. ASSUME NEW t \in Threads, Discard(t) PROVE Safe'
  BY <1>9, FinishStep, GoStep DEF Discard, ClearRecordingIntent, NoIntent
<1>10. ASSUME NEW t \in Threads, CutoffWake(t) PROVE Safe'
  <2>1. CASE Mine(t)
    <3>1. Go(t, "take") /\ frame' = [frame EXCEPT ![t] = NewFrame("cutoff", NoIntent, {})]
      BY <1>10, <2>1 DEF CutoffWake
    <3>2. pc[t] = "sleeping" /\ UNCHANGED <<intent, sessions, recording, day>>
      BY <1>10 DEF CutoffWake
    <3>3. "cutoff" \in Operations /\ {} \in SUBSET Symbols
          /\ NoIntent \in {NoIntent, intent} /\ "take" \in AtRest \cup Busy
      BY DEF Operations, Busy
    <3> QED BY <3>1, <3>2, <3>3, EnterStep
  <2>2. CASE ~Mine(t)
    BY <1>10, <2>2, FinishStep DEF CutoffWake
  <2> QED BY <2>1, <2>2
<1>11. ASSUME NEW t \in Threads, Lookup(t) PROVE Safe'
  BY <1>11, FinishStep, GoStep DEF Lookup, Busy
<1>12. ASSUME NEW t \in Threads, Consult(t) PROVE Safe'
  <2>1. pc[t] = "consult" /\ UNCHANGED <<intent, sessions, recording, day>>
    BY <1>12 DEF Consult
  <2>2. CASE Finish(t)
    BY <2>1, <2>2, FinishStep
  <2>3. CASE Go(t, "expire") /\ UNCHANGED frame
    BY <2>1, <2>3, GoStep DEF Busy
  <2>4. CASE ~Expired /\ Attempt(t)
    <3>1. intent.symbols \in SUBSET Symbols /\ intent.day = day
      BY <2>4 DEF Expired, TypeInv, TypeOK, Intents
    <3>2. "start" \in Operations /\ "authorize" \in AtRest \cup Busy
      BY DEF Operations, Busy
    <3> QED BY <2>1, <2>4, <3>1, <3>2, EnterStep DEF Attempt
  <2> QED BY <1>12, <2>2, <2>3, <2>4 DEF Consult
<1>13. ASSUME NEW t \in Threads, Expire(t) PROVE Safe'
  BY <1>13, FinishStep, GoStep DEF Expire, ClearRecordingIntent, NoIntent
<1>14. ASSUME NEW t \in Threads, Unauthorized(t) PROVE Safe'
  BY <1>14, FinishStep, GoStep DEF Unauthorized
<1>15. ASSUME NEW t \in Threads, Authorized(t) PROVE Safe'
  BY <1>15, FinishStep, GoStep DEF Authorized, Busy
<1>16. ASSUME NEW t \in Threads, ReportFailure(t) PROVE Safe'
  BY <1>16, FinishStep, GoStep DEF ReportFailure
<1>17. ASSUME WatchdogTick PROVE Safe'
  BY <1>17, FinishStep, GoStep DEF WatchdogTick, Busy
<1>18. ASSUME Halt PROVE Safe'
  <2>1. "shutdown" \in Operations /\ {} \in SUBSET Symbols
        /\ NoIntent \in {NoIntent, intent} /\ "take" \in AtRest \cup Busy
    BY DEF Operations, Busy
  <2> QED BY <1>18, <2>1, EnterStep DEF Halt
<1>19. ASSUME Boot PROVE Safe'
  BY <1>19, FinishStep, GoStep DEF Boot, Busy
<1>20. ASSUME Shutdown PROVE Safe'
  BY <1>20, FinishStep, GoStep DEF Shutdown, Busy
<1>21. ASSUME NEW t \in Threads, Create(t) PROVE Safe'
  <2>1. CASE ~CanInstall
    BY <1>21, <2>1, FinishStep, GoStep DEF Create, Raise, Busy
  <2>2. CASE CanInstall
    <3>a. Install(t) /\ pc[t] = "create"
      BY <1>21, <2>2 DEF Create
    <3>1. count + 1 \in Sessions /\ recorder = 0 /\ count \in Nat /\ count' = count + 1
      BY <2>2, <3>a DEF CanInstall, Install, Sessions, TypeInv, TypeOK
    <3>b. status[count + 1] = "none"
      BY <3>1 DEF Safe, Numbering
    <3>c. status' = [status EXCEPT ![count + 1] = "open"]
      BY <3>a DEF Install
    <3>d. \A u \in Threads : /\ frame'[u].found = frame[u].found
                             /\ u # t => frame'[u] = frame[u] /\ pc'[u] = pc[u]
      BY <3>a DEF Install, Go, Frames, TypeInv, TypeOK
    <3>e. pc'[t] = "persist" /\ recorder' = count + 1 /\ UNCHANGED <<intent, day>>
      BY <3>a DEF Install, Go, TypeInv, TypeOK
    <3>2. RecorderView'
      BY <3>a, <3>1 DEF Install, TypeInv, TypeOK, RecorderView
    <3>3. NoOrphanSession'
      <4>1. \A s \in Sessions : s # count + 1 => status'[s] = status[s] /\ s # recorder
        BY <3>1, <3>c DEF Sessions, TypeInv, TypeOK
      <4> QED BY <3>a, <3>d, <3>e, <4>1 DEF Safe, NoOrphanSession
    <3>4. Numbering'
      BY <3>a, <3>1 DEF Install, Sessions, TypeInv, TypeOK, Safe, Numbering
    <3>5. Closing'
      BY <3>a, <3>1, <3>b, SMTT(30) DEF Install, Go, Sessions, Frames, TypeInv, TypeOK, Safe, Closing,
         Numbering
    <3>f. \A s \in Sessions : status[s] = "shutdown" => status'[s] = "shutdown"
      BY <3>b, <3>c DEF TypeInv, TypeOK
    <3>6. Provenance'
      BY <3>1, <3>d, <3>e, <3>f, ProvenanceKept
    <3>7. LineageTrue'
      <4>1. birth' = [birth EXCEPT ![count + 1] =
                [context |-> frame[t].found, day |-> day, boot |-> boots]]
        BY <3>a DEF Install
      <4>2. ASSUME NEW s \in Sessions, s # count + 1
            PROVE  birth'[s].context # NoIntent =>
                /\ birth'[s].context.day = birth'[s].day
                /\ birth'[s].context.previous # 0 =>
                        birth'[s].context.previous < s
                        /\ status'[birth'[s].context.previous] = "shutdown"
        <5>1. birth'[s] = birth[s]
          BY <4>1, <4>2 DEF TypeInv, TypeOK
        <5>2. birth[s].context.previous # 0 => birth[s].context.previous \in Sessions
          BY SMTT(30) DEF TypeInv, TypeOK, Births, Intents, Sessions
        <5> QED BY <5>1, <5>2, <3>f DEF Safe, LineageTrue
      <4>3. birth'[count + 1] = [context |-> frame[t].found, day |-> day, boot |-> boots]
        BY <4>1, <3>1 DEF TypeInv, TypeOK
      <4>4. frame[t].found # NoIntent => frame[t].found.day = day
        BY <3>a DEF Safe, Provenance
      <4>5. frame[t].found.previous # 0 =>
                frame[t].found.previous < count + 1
                /\ status'[frame[t].found.previous] = "shutdown"
        <5>1. frame[t].found.previous # 0 => frame[t].found.previous \in Sessions
          BY DEF Intents, Sessions
        <5> QED BY <5>1, <3>1, <3>f DEF Safe, Provenance, TrueIntent, Sessions
      <4> QED BY <4>2, <4>3, <4>4, <4>5 DEF LineageTrue
    <3>8. Arming'
      <4>1. \A s \in Sessions : s \in Threads /\ s \in Nat
        BY DEF Sessions
      <4>2. pc[t] = "create" /\ (\A u \in Threads : u # t => pc'[u] = pc[u] /\ frame'[u] = frame[u])
        BY <3>a, <3>d
      <4>3. frame'[t].rec = count + 1 /\ pc[count + 1] = "unarmed" /\ count + 1 # t
        <5>1. pc[count + 1] = "unarmed"
          BY <3>1 DEF Safe, Arming
        <5> QED BY <3>a, <4>2, <5>1 DEF Install, TypeInv, TypeOK, Frames
      <4>4. \A u \in Threads \ {t} : (Starter(u))' => Starter(u) /\ frame'[u].rec = frame[u].rec
        BY <4>2 DEF Starter
      <4> QED BY <3>1, <3>e, <4>1, <4>2, <4>3, <4>4 DEF Safe, Arming
    <3> QED BY <3>2, <3>3, <3>4, <3>5, <3>6, <3>7, <3>8 DEF Safe
  <2> QED BY <2>1, <2>2
<1>22. ASSUME NEW t \in Threads, Publish(t) PROVE Safe'
  <2>a. \A u \in Threads : pc'[u] # pc[u] => pc'[u] \in AtRest
    BY <1>22 DEF Publish, AtRest, TypeInv, TypeOK
  <2>b. \A u \in Threads : u # t => frame'[u] = frame[u]
    BY <1>22 DEF Publish, TypeInv, TypeOK
  <2>c. pc[t] = "publish" /\ frame'[t] = Blank /\ UNCHANGED <<sessions, recording, intent, day>>
    BY <1>22 DEF Publish, TypeInv, TypeOK
  <2>d. pc' \in [Threads -> AtRest \cup Busy] /\ pc'[t] \in AtRest
    BY <1>22 DEF Publish, AtRest, TypeInv, TypeOK
  <2>e. \A u \in Threads : pc[u] = "close" => pc'[u] = "close"
    <3>1. pc[t] = "publish" /\ (frame[t].op = "start" => pc[frame[t].rec] = "unarmed")
      BY <1>22 DEF Publish, Safe, Arming, Starter
    <3> QED BY <1>22, <3>1 DEF Publish
  <2>1. RecorderView'
    BY <2>c DEF Safe, RecorderView
  <2>2. NoOrphanSession'
    BY <2>b, <2>c, <2>e DEF Safe, NoOrphanSession
  <2>3. Numbering'
    BY <2>c DEF Safe, Numbering
  <2>4. Closing'
    BY <2>a, <2>b, <2>c DEF Safe, Closing, AtRest
  <2>5. Provenance'
    BY <2>a, <2>b, <2>c, ProvenanceKept DEF AtRest, Blank, NewFrame
  <2>6. LineageTrue'
    BY <2>c, LineageKept
  <2>7. Arming'
    <3>1. \A u \in Threads : pc'[u] =
                IF u = t THEN RestOf(t)
                ELSE IF u = frame[t].rec /\ frame[t].op = "start" THEN "sleeping" ELSE pc[u]
      BY <1>22 DEF Publish
    <3>2. ~(Starter(t))' /\ pc'[t] # "edit"
      BY <2>d DEF Starter, AtRest
    <3>3. \A u \in Threads : u # t /\ (Starter(u))' => Starter(u) /\ frame'[u].rec = frame[u].rec
      BY <2>b, <3>1 DEF Starter
    <3>4. frame[t].op = "start" => Starter(t)
      BY <2>c DEF Starter
    <3>5. \A s \in Sessions : s \in Threads /\ s \in Nat
      BY DEF Sessions
    <3>6. \A s \in Sessions : pc[s] = "unarmed" =>
            pc'[s] = "unarmed" \/ (Starter(t) /\ s = frame[t].rec)
      BY <2>c, <3>1, <3>4, <3>5
    <3> QED BY <2>b, <2>c, <3>1, <3>2, <3>3, <3>5, <3>6 DEF Safe, Arming
  <2> QED BY <2>1, <2>2, <2>3, <2>4, <2>5, <2>6, <2>7 DEF Safe
<1>23. ASSUME NEW t \in Threads, Edit(t) PROVE Safe'
  <2>1. CASE recorder = 0
    BY <1>23, <2>1, FinishStep DEF Edit
  <2>2. CASE recorder # 0
    <3>1. recorder \in Sessions /\ status[recorder] = "open"
      BY <2>2 DEF Safe, RecorderView, TypeInv, TypeOK, Sessions
    <3>2. PICK now : /\ active' = [active EXCEPT ![recorder] = now]
                     /\ recordingSymbols' = now
                     /\ frame' = [frame EXCEPT ![t].rec = recorder, ![t].syms = now]
                     /\ Go(t, "persist")
      BY <1>23, <2>2 DEF Edit
    <3>3. pc[t] = "edit" /\ UNCHANGED <<intent, count, status, birth, recorder, day>>
      BY <1>23 DEF Edit
    <3>4. RecorderView'
      <4>1. active'[recorder] = now
        BY <3>1, <3>2 DEF TypeInv, TypeOK
      <4> QED BY <2>2, <3>1, <3>2, <3>3, <4>1 DEF RecorderView
    <3>a. \A u \in Threads : /\ u # t => pc'[u] = pc[u] /\ frame'[u] = frame[u]
                             /\ frame'[u].found = frame[u].found
      BY <3>2 DEF Go, TypeInv, TypeOK, Frames
    <3>b. pc'[t] = "persist"
      BY <3>2 DEF Go, TypeInv, TypeOK
    <3>c. \A s \in Sessions : status[s] # "open" => active'[s] = active[s]
      BY <3>1, <3>2 DEF TypeInv, TypeOK
    <3>5. NoOrphanSession'
      BY <3>a, <3>b, <3>3 DEF Safe, NoOrphanSession
    <3>6. Numbering'
      BY <3>3 DEF Safe, Numbering
    <3>7. Closing'
      BY <3>a, <3>b, <3>c, <3>3 DEF Safe, Closing
    <3>8. Provenance'
      BY <3>a, <3>b, <3>3, ProvenanceKept
    <3>9. LineageTrue'
      BY <3>3, LineageKept
    <3>10. Arming'
      <4>1. (Starter(t))' => FALSE
        BY <3>2, <3>3 DEF Starter, Safe, Arming, TypeInv, TypeOK, Frames
      <4> QED BY <3>a, <3>b, <3>3, <4>1, ArmingKept
    <3> QED BY <3>4, <3>5, <3>6, <3>7, <3>8, <3>9, <3>10 DEF Safe
  <2> QED BY <2>1, <2>2
<1>24. ASSUME NEW t \in Threads, Take(t) PROVE Safe'
  <2>a. pc[t] = "take" /\ recorder' = 0 /\ recordingSymbols' = {}
        /\ UNCHANGED <<intent, sessions, day>>
    BY <1>24 DEF Take, Release
  <2>b. \A u \in Threads : /\ u # t => pc'[u] = pc[u] /\ frame'[u] = frame[u]
                           /\ frame'[u].found = frame[u].found
    BY <1>24 DEF Take, Go, TypeInv, TypeOK, Frames
  <2>c. /\ pc'[t] = IF recorder = 0 THEN "announce" ELSE "close"
        /\ frame'[t].rec = recorder
    BY <1>24 DEF Take, Go, TypeInv, TypeOK, Frames
  <2>d. recorder # 0 => recorder \in Sessions /\ recorder <= count /\ status[recorder] = "open"
    BY DEF Safe, RecorderView, Numbering, TypeInv, TypeOK, Sessions
  <2>1. RecorderView'
    BY <2>a DEF RecorderView
  <2>2. NoOrphanSession'
    BY <2>a, <2>b, <2>c, ThreadTypes DEF Safe, NoOrphanSession, Sessions
  <2>3. Numbering'
    BY <2>a DEF Safe, Numbering, TypeInv, TypeOK
  <2>4. Closing'
    <3>1. \A u \in Threads : pc'[u] = "close" =>
            /\ frame'[u].rec \in Sessions /\ frame'[u].rec <= count'
            /\ frame'[u].rec # recorder' /\ status'[frame'[u].rec] = "open"
      BY <2>a, <2>b, <2>c, <2>d DEF Safe, Closing, Sessions
    <3>2. \A u, v \in Threads :
            pc'[u] = "close" /\ pc'[v] = "close" /\ frame'[u].rec = frame'[v].rec => u = v
      BY <2>a, <2>b, <2>c DEF Safe, Closing
    <3>3. \A u \in Threads : pc'[u] = "settle" =>
            /\ frame'[u].rec \in Sessions /\ frame'[u].rec <= count'
            /\ status'[frame'[u].rec] = frame'[u].op
      BY <2>a, <2>b, <2>c DEF Safe, Closing
    <3> QED BY <2>a, <3>1, <3>2, <3>3 DEF Safe, Closing
  <2>5. Provenance'
    BY <2>a, <2>b, <2>c, ProvenanceKept
  <2>6. LineageTrue'
    BY <2>a, LineageKept
  <2>7. Arming'
    BY <2>a, <2>b, <2>c, ArmingKept DEF Starter
  <2> QED BY <2>1, <2>2, <2>3, <2>4, <2>5, <2>6, <2>7 DEF Safe
<1>25. ASSUME NEW t \in Threads, Close(t) PROVE Safe'
  <2> DEFINE r == frame[t].rec
  <2>a. pc[t] = "close" /\ UNCHANGED <<intent, count, birth, recording, frame, day>>
    BY <1>25 DEF Close
  <2>b. r \in Sessions /\ r <= count /\ r # recorder /\ status[r] = "open"
    BY <2>a DEF Safe, Closing
  <2>c. /\ status' = [status EXCEPT ![r] = frame[t].op]
        /\ active' = [active EXCEPT ![r] = {}]
        /\ Go(t, "settle")
    BY <1>25 DEF Close, Seal
  <2>d. frame[t].op \in StopOperations
    BY <2>a DEF TypeInv, Stopping
  <2>e. /\ \A u \in Threads : u # t => pc'[u] = pc[u]
        /\ pc'[t] = "settle"
        /\ \A s \in Sessions : s # r => status'[s] = status[s] /\ active'[s] = active[s]
        /\ status'[r] = frame[t].op /\ active'[r] = {}
    BY <2>b, <2>c DEF Go, TypeInv, TypeOK
  <2>f. \A s \in Sessions : status[s] = "shutdown" => status'[s] = "shutdown"
    BY <2>b, <2>e
  <2> HIDE DEF r
  <2>g. r = frame[t].rec
    BY DEF r
  <2>1. RecorderView'
    BY <2>a, <2>b, <2>e DEF Safe, RecorderView, TypeInv, TypeOK, Sessions
  <2>2. NoOrphanSession'
    BY <2>a, <2>d, <2>e, <2>g DEF Safe, NoOrphanSession, StopOperations
  <2>3. Numbering'
    BY <2>a, <2>b, <2>e DEF Safe, Numbering, TypeInv, TypeOK, Sessions
  <2>4. Closing'
    <3>1. \A u \in Threads : pc'[u] = "close" => pc[u] = "close" /\ u # t /\ frame[u].rec # r
      BY <2>a, <2>e, <2>g DEF Safe, Closing
    <3>2. \A u \in Threads : pc[u] = "settle" => frame[u].rec # r
      BY <2>b DEF Safe, Closing, TypeInv, Stopping, StopOperations
    <3> QED BY <2>a, <2>b, <2>e, <2>g, <3>1, <3>2 DEF Safe, Closing
  <2>5. Provenance'
    BY <2>a, <2>e, <2>f, ProvenanceKept
  <2>6. LineageTrue'
    BY <2>a, <2>f, LineageKept
  <2>7. Arming'
    BY <2>a, <2>e, ArmingKept DEF Starter
  <2> QED BY <2>1, <2>2, <2>3, <2>4, <2>5, <2>6, <2>7 DEF Safe
<1>26. ASSUME NEW t \in Threads, Settle(t) PROVE Safe'
  <2>a. pc[t] = "settle" /\ UNCHANGED <<sessions, recording, frame, day>>
    BY <1>26 DEF Settle
  <2>b. (\A u \in Threads : u # t => pc'[u] = pc[u]) /\ pc'[t] = "close_publish"
    BY <1>26 DEF Settle, Go, TypeInv, TypeOK
  <2>c. \/ intent'.previous = 0
        \/ intent'.previous <= count' /\ status'[intent'.previous] = "shutdown"
    BY <1>26, <2>a DEF Settle, KeepsIntent, PersistRecordingIntent, ClearRecordingIntent,
       NoIntent, Safe, Closing
  <2>1. RecorderView'
    BY <2>a DEF Safe, RecorderView
  <2>2. NoOrphanSession'
    BY <2>a, <2>b DEF Safe, NoOrphanSession
  <2>3. Numbering'
    BY <2>a DEF Safe, Numbering
  <2>4. Closing'
    BY <2>a, <2>b DEF Safe, Closing
  <2>5. Provenance'
    BY <2>a, <2>b, <2>c, ProvenanceKept
  <2>6. LineageTrue'
    BY <2>a, LineageKept
  <2>7. Arming'
    BY <2>a, <2>b, ArmingKept DEF Starter
  <2> QED BY <2>1, <2>2, <2>3, <2>4, <2>5, <2>6, <2>7 DEF Safe
<1>27. ASSUME Forget PROVE Safe'
  <2>a. /\ \A u \in Threads : pc'[u] \in AtRest /\ frame'[u] = Blank
        /\ \A u \in Sessions : pc'[u] = "unarmed"
        /\ recorder' = 0 /\ recordingSymbols' = {}
        /\ UNCHANGED <<intent, count, birth, day>>
    BY <1>27, ThreadsAssumption DEF Forget, Rest0, Recoverers
  <2>b. \A s \in Sessions : /\ status'[s] = (IF status[s] = "open" THEN "lost" ELSE status[s])
                            /\ active'[s] = {}
    BY <1>27 DEF Forget
  <2>1. RecorderView'
    BY <2>a DEF RecorderView
  <2>2. NoOrphanSession'
    BY <2>b DEF NoOrphanSession
  <2>3. Numbering'
    BY <2>a, <2>b DEF Safe, Numbering, TypeInv, TypeOK
  <2>4. Closing'
    BY <2>a, <2>b DEF Closing, AtRest
  <2>5. Provenance'
    BY <2>a, <2>b, ProvenanceKept DEF AtRest, Blank, NewFrame
  <2>6. LineageTrue'
    BY <2>a, <2>b, LineageKept
  <2>7. Arming'
    BY <2>a DEF Arming, Starter, AtRest
  <2> QED BY <2>1, <2>2, <2>3, <2>4, <2>5, <2>6, <2>7 DEF Safe
<1>28. ASSUME ReachCutoff PROVE Safe'
  <2>1. RecorderView'
    BY <1>28 DEF ReachCutoff, Safe, RecorderView
  <2>2. NoOrphanSession'
    BY <1>28 DEF ReachCutoff, Safe, NoOrphanSession
  <2>3. Numbering'
    BY <1>28 DEF ReachCutoff, Safe, Numbering
  <2>4. Closing'
    BY <1>28 DEF ReachCutoff, Safe, Closing
  <2>5. Provenance'
    BY <1>28 DEF ReachCutoff, Safe, Provenance, TrueIntent
  <2>6. LineageTrue'
    BY <1>28 DEF ReachCutoff, Safe, LineageTrue
  <2>7. Arming'
    BY <1>28 DEF ReachCutoff, Safe, Arming, Starter
  <2> QED BY <2>1, <2>2, <2>3, <2>4, <2>5, <2>6, <2>7 DEF Safe
<1>29. ASSUME NextDay PROVE Safe'
  <2>1. RecorderView'
    BY <1>29 DEF NextDay, AtRest, Safe, RecorderView
  <2>2. NoOrphanSession'
    BY <1>29 DEF NextDay, AtRest, Safe, NoOrphanSession
  <2>3. Numbering'
    BY <1>29 DEF NextDay, AtRest, Safe, Numbering
  <2>4. Closing'
    BY <1>29 DEF NextDay, AtRest, Safe, Closing
  <2>5. Provenance'
    BY <1>29 DEF NextDay, AtRest, Safe, Provenance, TrueIntent
  <2>6. LineageTrue'
    BY <1>29 DEF NextDay, AtRest, Safe, LineageTrue
  <2>7. Arming'
    BY <1>29 DEF NextDay, Safe, Arming, Starter
  <2> QED BY <2>1, <2>2, <2>3, <2>4, <2>5, <2>6, <2>7 DEF Safe
<1>30. CASE UNCHANGED vars
  <2>1. RecorderView'
    BY <1>30 DEF vars, Safe, RecorderView
  <2>2. NoOrphanSession'
    BY <1>30 DEF vars, Safe, NoOrphanSession
  <2>3. Numbering'
    BY <1>30 DEF vars, Safe, Numbering
  <2>4. Closing'
    BY <1>30 DEF vars, Safe, Closing
  <2>5. Provenance'
    BY <1>30 DEF vars, Safe, Provenance, TrueIntent
  <2>6. LineageTrue'
    BY <1>30 DEF vars, Safe, LineageTrue
  <2>7. Arming'
    BY <1>30 DEF vars, Safe, Arming, Starter
  <2> QED BY <2>1, <2>2, <2>3, <2>4, <2>5, <2>6, <2>7 DEF Safe
<1> QED
  BY <1>1, <1>2, <1>3, <1>4, <1>5, <1>6, <1>7, <1>8, <1>9, <1>10, <1>11, <1>12, <1>13,
     <1>14, <1>15, <1>16, <1>17, <1>18, <1>19, <1>20, <1>21, <1>22, <1>23, <1>24, <1>25,
     <1>26, <1>27, <1>28, <1>29, <1>30
  DEF Next, Invoke, Step, World, Exit, Crash

\* TypeInv and Safe hold in every reachable state.
LEMMA Invariant == Spec => [](TypeInv /\ Safe)
<1>1. Init => TypeInv /\ Safe
  BY TypeInit, SafeInit
<1>2. TypeInv /\ Safe /\ [Next]_vars => (TypeInv /\ Safe)'
  BY TypeStep, SafeStep
<1> QED BY <1>1, <1>2, PTL DEF Spec

\* Whatever calls, recoveries and cutoffs do to each other, a session whose
\* files are open is the active recorder or is being closed.
THEOREM NoOrphan == Spec => []NoOrphanSession
<1>1. TypeInv /\ Safe => NoOrphanSession
  BY DEF Safe
<1> QED BY <1>1, Invariant, PTL

\* The runtime's recorder is always an open session, and its recording
\* symbols are what that session records.
THEOREM RecorderAgreement == Spec => []RecorderView
<1>1. TypeInv /\ Safe => RecorderView
  BY DEF Safe
<1> QED BY <1>1, Invariant, PTL

\* The lineage a session records names an earlier session that stop() closed,
\* and a recovered session continues an intent of its own date.
THEOREM LineageIsTrue == Spec => []LineageTrue
<1>1. TypeInv /\ Safe => LineageTrue
  BY DEF Safe
<1> QED BY <1>1, Invariant, PTL
\* A session that ended is left as it is by every step.
LEMMA SealedStep ==
    ASSUME TypeInv, Safe, [Next]_vars, NEW s \in Sessions, status[s] \notin {"none", "open"}
    PROVE  status'[s] = status[s] /\ active'[s] = {}
<1> USE ThreadTypes DEF disk, sessions, recording, process, memory, world
<1>1. active[s] = {} /\ status \in [Sessions -> Statuses] /\ active \in [Sessions -> SUBSET Symbols]
  BY DEF Safe, Closing, TypeInv, TypeOK
<1>2. CASE UNCHANGED <<status, active>>
  BY <1>1, <1>2
<1>3. ASSUME NEW t \in Threads, Create(t) PROVE status'[s] = status[s] /\ active'[s] = {}
  <2>1. CASE CanInstall /\ Install(t)
    <3>1. count + 1 # s
      BY <2>1 DEF CanInstall, Sessions, Safe, Numbering, TypeInv, TypeOK
    <3> QED BY <1>1, <2>1, <3>1 DEF Install
  <2> QED BY <1>2, <1>3, <2>1 DEF Create
<1>4. ASSUME NEW t \in Threads, Edit(t) PROVE status'[s] = status[s] /\ active'[s] = {}
  <2>1. recorder # 0 => recorder # s
    BY DEF Safe, RecorderView
  <2> QED BY <1>1, <1>4, <2>1 DEF Edit
<1>5. ASSUME NEW t \in Threads, Close(t) PROVE status'[s] = status[s] /\ active'[s] = {}
  <2>1. frame[t].rec # s
    BY <1>5 DEF Close, Safe, Closing
  <2> QED BY <1>1, <1>5, <2>1 DEF Close, Seal
<1>6. CASE Forget
  BY <1>1, <1>6 DEF Forget
<1>7. ASSUME NEW t \in Clients, Invoke(t) PROVE UNCHANGED <<status, active>>
  BY <1>7 DEF Invoke, StartCall, AddCall, RemoveCall, StopCall, Call
<1>8. ASSUME NEW t \in Threads, Step(t), ~Create(t), ~Edit(t), ~Close(t)
      PROVE  UNCHANGED <<status, active>>
  <2>1. CASE Persist(t) \/ EnsureStream(t) \/ Publish(t) \/ Take(t)
    BY <2>1 DEF Persist, EnsureStream, Publish, Take
  <2>2. CASE Settle(t) \/ ClosePublish(t) \/ Announce(t) \/ Discard(t) \/ CutoffWake(t)
    BY <2>2 DEF Settle, ClosePublish, Announce, Discard, CutoffWake
  <2>3. CASE Lookup(t) \/ Consult(t) \/ Expire(t) \/ Unauthorized(t) \/ Authorized(t)
             \/ ReportFailure(t)
    BY <2>3 DEF Lookup, Consult, Expire, Unauthorized, Authorized, ReportFailure
  <2> QED BY <1>8, <2>1, <2>2, <2>3 DEF Step
<1>9. CASE WatchdogTick \/ Halt \/ Boot \/ Shutdown \/ ReachCutoff \/ NextDay \/ UNCHANGED vars
  BY <1>2, <1>9 DEF WatchdogTick, Halt, Boot, Shutdown, ReachCutoff, NextDay, vars
<1> QED BY <1>2, <1>3, <1>4, <1>5, <1>6, <1>7, <1>8, <1>9 DEF Next, World, Exit, Crash

\* A session that ended, or was lost in a crash, never opens again, never ends
\* for another reason and records nothing any more.
THEOREM Sealed == Spec => SealedSessions
<1>1. TypeInv /\ Safe /\ [Next]_vars =>
        [\A s \in Sessions : status[s] \notin {"none", "open"} =>
            status'[s] = status[s] /\ active'[s] = {}]_vars
  BY SealedStep
<1> QED BY <1>1, Invariant, PTL DEF Spec, SealedSessions
-----------------------------------------------------------------------------
(* Calls that do not overlap: SerialSpec.                                  *)

Working(t) == pc[t] \notin AtRest \cup {"halt"}

\* One thread works at a time, none while the process is down, and stop() is
\* the lifespan thread's last work.
OneAtATime ==
    /\ \A t, u \in Threads : Working(t) /\ Working(u) => t = u
    /\ pc[Main] = "down" => pc = Rest0 /\ ~started
    /\ pc[Main] \in {"halt", "stopped"} => ~started
    /\ \A t \in Threads : frame[t].op = "shutdown" => t = Main /\ ~started /\ pc[Main] # "down"

\* The active recorder is the newest session; none is from the future.
Newest ==
    /\ recorder \in {0, count}
    /\ \A s \in Sessions : birth[s].day <= day /\ birth[s].boot <= boots

\* What a thread knows at each point of its call.
KnowsNoRecorder(t) ==
    \/ pc[t] \in {"close", "settle", "close_publish", "announce", "discard",
                  "consult", "expire", "authorize"}
    \/ pc[t] = "create" /\ t \in Recoverers
KnowsRecorder(t) == pc[t] \in {"persist", "ensure", "publish"}

Knows(t) ==
    /\ KnowsNoRecorder(t) => recorder = 0
    /\ KnowsRecorder(t) =>
            recorder # 0 /\ frame[t].rec = recorder /\ frame[t].syms = recordingSymbols
    /\ pc[t] \in {"close", "settle"} => frame[t].rec = count
    /\ pc[t] = "close_publish" /\ KeepsIntent(t) => intent.symbols = frame[t].syms
    /\ pc[t] = "report" => recorder = 0 \/ pc[recorder] # "sleeping"
    /\ pc[t] \in {"create", "authorize"} => frame[t].op = "start"
    /\ pc[t] \in {"persist", "ensure"} /\ t \in Recoverers => frame[t].op = "start"
    /\ pc[t] = "edit" => t \notin Recoverers

\* The persisted intent is the recording, unless it is just being persisted.
IntentKept ==
    recorder # 0 /\ birth[recorder].day = day /\ (\A t \in Threads : pc[t] # "persist") =>
        intent = [day |-> day, symbols |-> recordingSymbols, previous |-> 0]

\* A stop of this process has cleared it, unless it is just about to.
StopKept ==
    (/\ pc[Main] # "down" /\ count > 0 /\ birth[count].boot = boots
     /\ status[count] \in {"manual", "cutoff"}
     /\ \A t \in Threads : pc[t] # "settle")
        => intent = NoIntent

\* What is shown is the recorder, unless a stop is just about to say so.
ShownKept ==
    /\ shown = "active" =>
            \/ recorder # 0
            \/ \E t \in Threads : pc[t] \in {"close", "settle", "close_publish", "announce"}
    /\ recorder # 0 /\ pc[recorder] = "sleeping" => shown = "active"
    /\ shown = "interrupted" =>
            /\ pc[Main] = "stopped" /\ recorder = 0 /\ intent.symbols # {}
            /\ \A t \in Threads : pc[t] \in AtRest

Honest ==
    /\ OneAtATime /\ Newest /\ \A t \in Threads : Knows(t)
    /\ IntentKept /\ StopKept /\ ShownKept

-----------------------------------------------------------------------------
(* One thread moves while the others rest.                                 *)

Moves(t, next) ==
    /\ Alone(t) /\ pc[Main] # "down" /\ Go(t, next)
    /\ next \in (AtRest \ {"down", "sleeping"}) \cup (Busy \ {"halt"})
    /\ next = "stopped" => ~started
    /\ started' = started
    /\ \A u \in Threads : frame'[u].op = "shutdown" => frame[u].op = "shutdown"

\* A thread that rests knows nothing.
LEMMA RestKnows ==
    ASSUME NEW t \in Threads, pc[t] \in AtRest PROVE Knows(t)
BY DEF Knows, KnowsNoRecorder, KnowsRecorder, AtRest

LEMMA RestKnowsNext ==
    ASSUME NEW t \in Threads, pc'[t] \in AtRest PROVE Knows(t)'
BY DEF Knows, KnowsNoRecorder, KnowsRecorder, AtRest

\* A thread in the middle of a call, or asleep, belongs to a live process.
LEMMA ProcessUp ==
    ASSUME OneAtATime, NEW t \in Threads, pc[t] \notin {"idle", "unarmed", "down"}
    PROVE  pc[Main] # "down"
BY DEF OneAtATime, Rest0

LEMMA MovesControl ==
    ASSUME TypeInv, OneAtATime, NEW t \in Threads, NEW next, Moves(t, next)
    PROVE  /\ OneAtATime' /\ pc'[t] = next
           /\ \A u \in Threads : u # t => pc'[u] = pc[u]
           /\ \A u \in Threads : u # t => pc'[u] \in AtRest /\ Knows(u)'
           /\ \A u \in Threads : pc'[u] = "sleeping" => pc[u] = "sleeping"
<1>1. pc'[t] = next /\ \A u \in Threads : u # t => pc'[u] = pc[u] /\ pc'[u] \in AtRest
      BY DEF Moves, Go, Alone, TypeInv, TypeOK
<1>2. \A u \in Threads : u # t => Knows(u)'  BY <1>1, RestKnowsNext
<1>3. next \notin {"down", "sleeping", "halt"}  BY DEF Moves, Busy, AtRest
<1>4. pc'[Main] # "down"
      BY <1>1, <1>3, ThreadTypes DEF Moves
<1>5. pc'[Main] \in {"halt", "stopped"} => ~started'
      BY <1>1, <1>3, ThreadTypes DEF Moves, OneAtATime
<1>6. \A u \in Threads : frame'[u].op = "shutdown" => u = Main /\ ~started' /\ pc'[Main] # "down"
      BY <1>4 DEF Moves, OneAtATime
<1>7. OneAtATime'  BY <1>1, <1>4, <1>5, <1>6 DEF OneAtATime, Working
<1>. QED  BY <1>1, <1>2, <1>3, <1>7

\* What the data truths rest on is left alone by most steps.
LEMMA DataKept ==
    ASSUME TypeInv, Honest, NEW t \in Threads, NEW next, Moves(t, next),
           UNCHANGED <<intent, count, status, birth, recorder, recordingSymbols, day, boots>>,
           pc[t] \notin {"persist", "settle"}
    PROVE  Newest' /\ IntentKept' /\ StopKept'
<1>1. \A u \in Threads : u # t => pc'[u] = pc[u]  BY MovesControl DEF Honest
<1>2. Newest'  BY DEF Honest, Newest
<1>3. IntentKept'  BY <1>1 DEF Honest, IntentKept
<1>4. StopKept'  BY <1>1 DEF Honest, StopKept, Moves
<1>. QED  BY <1>2, <1>3, <1>4

\* So is what is shown.
LEMMA ShownSame ==
    ASSUME TypeInv, Honest, NEW t \in Threads, NEW next, Moves(t, next),
           shown # "interrupted", UNCHANGED <<shown, recorder>>,
           \/ pc[t] \notin {"close", "settle", "close_publish", "announce"}
           \/ next \in {"close", "settle", "close_publish", "announce"}
    PROVE  ShownKept'
<1>1. /\ pc'[t] = next /\ \A u \in Threads : u # t => pc'[u] = pc[u]
      /\ \A u \in Threads : pc'[u] = "sleeping" => pc[u] = "sleeping"
      BY MovesControl DEF Honest
<1>2. recorder # 0 => recorder \in Threads
      BY ThreadTypes DEF TypeInv, TypeOK, Sessions
<1>3. shown' = "active" => \/ recorder' # 0
                           \/ \E u \in Threads : pc'[u] \in {"close", "settle", "close_publish", "announce"}
      BY <1>1 DEF Honest, ShownKept
<1>4. recorder' # 0 /\ pc'[recorder'] = "sleeping" => shown' = "active"
      BY <1>1, <1>2 DEF Honest, ShownKept
<1>. QED  BY <1>3, <1>4 DEF ShownKept

\* Nobody works while an interruption is shown.
LEMMA WorkingShown ==
    ASSUME ShownKept, NEW t \in Threads, pc[t] \notin AtRest PROVE shown # "interrupted"
BY DEF ShownKept

LEMMA FinishMoves ==
    ASSUME TypeInv, NEW t \in Threads, Finish(t), Alone(t), pc[Main] # "down", started' = started
    PROVE  Moves(t, RestOf(t)) /\ RestOf(t) \in AtRest
<1>1. RestOf(t) \in AtRest \ {"down", "sleeping"} /\ (RestOf(t) = "stopped" => ~started)
      BY DEF RestOf, AtRest
<1>2. \A u \in Threads : frame'[u].op = "shutdown" => frame[u].op = "shutdown"
      BY DEF Finish, Blank, NewFrame, TypeInv, TypeOK
<1>. QED  BY <1>1, <1>2 DEF Moves, Finish

\* The pieces make the whole.
LEMMA HonestAgain ==
    ASSUME TypeInv, Honest, NEW t \in Threads, NEW next, Moves(t, next),
           Knows(t)', Newest', IntentKept', StopKept', ShownKept'
    PROVE  Honest'
<1>1. OneAtATime' /\ \A u \in Threads : u # t => Knows(u)'  BY MovesControl DEF Honest
<1>2. \A u \in Threads : Knows(u)'  BY <1>1
<1>. QED  BY <1>1, <1>2 DEF Honest

\* A call returns and leaves everything as it was.
LEMMA FinishKeeps ==
    ASSUME TypeInv, Honest, NEW t \in Threads, Finish(t), Alone(t), pc[t] \notin AtRest,
           started' = started,
           UNCHANGED <<intent, count, status, birth, recorder, recordingSymbols, day, boots, shown>>,
           pc[t] \notin {"persist", "settle", "close", "close_publish", "announce"}
    PROVE  Honest'
<1>1. pc[Main] # "down"  BY ProcessUp DEF Honest, AtRest
<1>2. Moves(t, RestOf(t)) /\ RestOf(t) \in AtRest  BY <1>1, FinishMoves
<1>3. Newest' /\ IntentKept' /\ StopKept'  BY <1>2, DataKept
<1>4. ShownKept'  BY <1>2, ShownSame, WorkingShown DEF Honest
<1>5. Knows(t)'  BY <1>2, MovesControl, RestKnowsNext DEF Honest
<1>. QED  BY <1>2, <1>3, <1>4, <1>5, HonestAgain

\* A thread goes on in its call, which changes nothing that is known.
LEMMA GoOnKeeps ==
    ASSUME TypeInv, Honest, NEW t \in Threads, Alone(t), pc[t] \notin AtRest,
           NEW next \in Busy \ {"halt"}, Go(t, next), Knows(t)',
           started' = started, UNCHANGED frame,
           UNCHANGED <<intent, count, status, birth, recorder, recordingSymbols, day, boots, shown>>,
           pc[t] \notin {"persist", "settle", "close", "close_publish", "announce"}
    PROVE  Honest'
<1>1. pc[Main] # "down"  BY ProcessUp DEF Honest, AtRest
<1>2. Moves(t, next)  BY <1>1 DEF Moves, Busy
<1>3. Newest' /\ IntentKept' /\ StopKept'  BY <1>2, DataKept
<1>4. ShownKept'  BY <1>2, ShownSame, WorkingShown DEF Honest
<1>. QED  BY <1>2, <1>3, <1>4, HonestAgain

-----------------------------------------------------------------------------
(* The steps of a call that does not overlap another.                      *)

LEMMA HonestCreate ==
    ASSUME TypeInv, Safe, Honest, NEW t \in Threads, Alone(t), Create(t)
    PROVE  Honest'
<1>1. /\ pc[t] = "create" /\ pc[t] \notin AtRest /\ pc[Main] # "down"
      /\ Knows(t) /\ frame[t].op = "start"
  <2>1. pc[t] = "create" /\ pc[t] \notin AtRest  BY DEF Create, AtRest
  <2>. QED  BY <2>1, ProcessUp DEF Honest, AtRest, Knows
<1>2. CASE CanInstall /\ Install(t)
  <2>. DEFINE s == count + 1
  <2>1. /\ s \in Sessions /\ s \in Threads /\ recorder = 0 /\ pc[s] = "unarmed" /\ s > count
        /\ count \in 0 .. MaxSessions
        BY <1>2, ThreadTypes DEF CanInstall, TypeInv, TypeOK, Sessions, Safe, Arming
  <2>2. /\ count' = s /\ recorder' = s /\ recordingSymbols' = frame[t].syms
        /\ status' = [status EXCEPT ![s] = "open"]
        /\ birth' = [birth EXCEPT ![s] = [context |-> frame[t].found, day |-> day, boot |-> boots]]
        /\ frame' = [frame EXCEPT ![t].rec = s] /\ Go(t, "persist")
        /\ UNCHANGED <<intent, process, shown, world>>
        BY <1>2 DEF Install
  <2>. HIDE DEF s
  <2>3. /\ frame'[t].rec = s /\ frame'[t].syms = frame[t].syms /\ frame'[t].op = frame[t].op
        /\ \A u \in Threads : u # t => frame'[u] = frame[u]
        BY <2>2 DEF TypeInv, TypeOK, Frames
  <2>4. Moves(t, "persist")
        BY <1>1, <2>2, <2>3 DEF Moves, Busy, process
  <2>5. pc'[t] = "persist" /\ \A u \in Threads : pc'[u] = "sleeping" => pc[u] = "sleeping"
        BY <2>4, MovesControl DEF Honest
  <2>6. Knows(t)'
        BY <1>1, <2>1, <2>2, <2>3, <2>5 DEF Knows, KnowsNoRecorder, KnowsRecorder, Sessions
  <2>7. Newest'
    <3>1. birth'[s].day = day /\ birth'[s].boot = boots
          BY <2>1, <2>2 DEF TypeInv, TypeOK
    <3>2. \A x \in Sessions : x # s => birth'[x] = birth[x]  BY <2>2 DEF TypeInv, TypeOK
    <3>3. day \in Nat /\ boots \in Nat  BY ThreadTypes DEF TypeInv, TypeOK
    <3>4. \A x \in Sessions : birth'[x].day <= day /\ birth'[x].boot <= boots
          BY <3>1, <3>2, <3>3 DEF Honest, Newest
    <3>. QED  BY <2>2, <3>4 DEF Newest, world
  <2>8. IntentKept'  BY <2>5 DEF IntentKept
  <2>9. StopKept'
    <3>1. status'[count'] = "open"  BY <2>1, <2>2 DEF TypeInv, TypeOK
    <3>. QED  BY <3>1 DEF StopKept
  <2>10. ShownKept'
    <3>1. shown # "interrupted"  BY <1>1, WorkingShown DEF Honest
    <3>2. recorder' # 0 /\ pc'[recorder'] # "sleeping"
          BY <2>1, <2>2, <2>5 DEF Sessions
    <3>. QED  BY <3>1, <3>2, <2>2 DEF ShownKept
  <2>. QED  BY <2>4, <2>6, <2>7, <2>8, <2>9, <2>10, HonestAgain
<1>3. CASE ~CanInstall /\ Raise(t) /\ UNCHANGED <<disk, memory, world>>
  <2>1. UNCHANGED <<intent, count, status, birth, recorder, recordingSymbols, day, boots, shown,
                    started>>
        BY <1>3 DEF disk, sessions, memory, recording, process, world
  <2>2. CASE t \in Recoverers
    <3>1. Go(t, "report") /\ UNCHANGED frame  BY <1>3, <2>2 DEF Raise
    <3>2. recorder = 0  BY <1>1, <2>2 DEF Knows, KnowsNoRecorder
    <3>3. pc'[t] = "report"  BY <3>1 DEF Go, TypeInv, TypeOK
    <3>4. Knows(t)'  BY <2>1, <3>2, <3>3 DEF Knows, KnowsNoRecorder, KnowsRecorder
    <3>. QED  BY <1>1, <2>1, <3>1, <3>4, GoOnKeeps DEF Busy
  <2>3. CASE t \notin Recoverers
    <3>1. Finish(t)  BY <1>3, <2>3 DEF Raise
    <3>. QED  BY <1>1, <2>1, <3>1, FinishKeeps
  <2>. QED  BY <2>2, <2>3
<1>. QED  BY <1>2, <1>3 DEF Create

\* A thread that knows its recorder works on the newest session, which is open.
LEMMA KnownIsOpen ==
    ASSUME TypeInv, Safe, Honest, NEW t \in Threads, KnowsRecorder(t)
    PROVE  /\ recorder # 0 /\ recorder \in Sessions /\ recorder = count
           /\ status[recorder] = "open"
           /\ frame[t].rec = recorder /\ frame[t].syms = recordingSymbols
           /\ pc[t] \notin AtRest /\ pc[Main] # "down" /\ shown # "interrupted"
<1>1. Knows(t) /\ pc[t] \notin AtRest  BY DEF Honest, KnowsRecorder, AtRest
<1>2. recorder # 0 /\ frame[t].rec = recorder /\ frame[t].syms = recordingSymbols
      BY <1>1 DEF Knows
<1>3. recorder \in Sessions /\ recorder = count
      BY <1>2 DEF TypeInv, TypeOK, Sessions, Honest, Newest
<1>4. status[recorder] = "open"  BY <1>2 DEF Safe, RecorderView
<1>5. pc[Main] # "down" /\ shown # "interrupted"
      BY <1>1, ProcessUp, WorkingShown DEF Honest, AtRest
<1>. QED  BY <1>1, <1>2, <1>3, <1>4, <1>5

LEMMA HonestPersist ==
    ASSUME TypeInv, Safe, Honest, NEW t \in Threads, Alone(t), Persist(t)
    PROVE  Honest'
<1>. DEFINE next == IF frame[t].op = "remove" THEN "publish" ELSE "ensure"
<1>1. /\ pc[t] = "persist" /\ Go(t, next) /\ next \in {"publish", "ensure"}
      /\ UNCHANGED <<count, status, active, birth, recorder, recordingSymbols, started, shown,
                     frame, day, boots>>
      /\ intent' = [day |-> day, symbols |-> frame[t].syms, previous |-> 0]
      BY DEF Persist, PersistRecordingIntent, sessions, memory, recording, process, world
<1>. HIDE DEF next
<1>2. /\ recorder # 0 /\ recorder \in Sessions /\ recorder = count
      /\ status[recorder] = "open"
      /\ frame[t].rec = recorder /\ frame[t].syms = recordingSymbols
      /\ pc[t] \notin AtRest /\ pc[Main] # "down" /\ shown # "interrupted"
      BY <1>1, KnownIsOpen DEF KnowsRecorder
<1>3. Moves(t, next)  BY <1>1, <1>2 DEF Moves, Busy
<1>4. pc'[t] = next  BY <1>3, MovesControl DEF Honest
<1>5. Knows(t)'
  <2>1. t \in Recoverers => frame[t].op = "start"  BY <1>1 DEF Honest, Knows
  <2>. QED  BY <1>1, <1>2, <1>4, <2>1 DEF Knows, KnowsNoRecorder, KnowsRecorder
<1>6. Newest'  BY <1>1 DEF Honest, Newest
<1>7. IntentKept'  BY <1>1, <1>2 DEF IntentKept
<1>8. StopKept'  BY <1>1, <1>2 DEF StopKept
<1>9. ShownKept'  BY <1>1, <1>2, <1>3, ShownSame
<1>. QED  BY <1>3, <1>5, <1>6, <1>7, <1>8, <1>9, HonestAgain

LEMMA HonestEnsure ==
    ASSUME TypeInv, Safe, Honest, NEW t \in Threads, Alone(t), EnsureStream(t)
    PROVE  Honest'
<1>1. /\ pc[t] = "ensure"
      /\ UNCHANGED <<intent, count, status, birth, recorder, recordingSymbols, started, shown,
                     day, boots>>
      BY DEF EnsureStream, disk, sessions, recording, world
<1>2. /\ recorder # 0 /\ frame[t].rec = recorder /\ frame[t].syms = recordingSymbols
      /\ pc[t] \notin AtRest
      BY <1>1, KnownIsOpen DEF KnowsRecorder
<1>3. CASE Go(t, "publish") /\ UNCHANGED frame
  <2>1. pc'[t] = "publish"  BY <1>3 DEF Go, TypeInv, TypeOK
  <2>2. Knows(t)'  BY <1>1, <1>2, <1>3, <2>1 DEF Knows, KnowsNoRecorder, KnowsRecorder
  <2>. QED  BY <1>1, <1>2, <1>3, <2>2, GoOnKeeps DEF Busy
<1>4. CASE Raise(t)
  <2>1. CASE t \in Recoverers
    <3>1. Go(t, "report") /\ UNCHANGED frame  BY <1>4, <2>1 DEF Raise
    <3>2. pc[recorder] = "unarmed"
      <4>1. Starter(t)  BY <1>1, <2>1 DEF Starter, Honest, Knows
      <4>. QED  BY <1>2, <4>1 DEF Safe, Arming
    <3>3. pc'[t] = "report" /\ pc'[recorder] # "sleeping"
          BY <1>2, <3>1, <3>2, ThreadTypes DEF Go, TypeInv, TypeOK, Sessions
    <3>4. Knows(t)'  BY <1>1, <3>3 DEF Knows, KnowsNoRecorder, KnowsRecorder
    <3>. QED  BY <1>1, <1>2, <3>1, <3>4, GoOnKeeps DEF Busy
  <2>2. CASE t \notin Recoverers
    <3>1. Finish(t)  BY <1>4, <2>2 DEF Raise
    <3>. QED  BY <1>1, <1>2, <3>1, FinishKeeps
  <2>. QED  BY <2>1, <2>2
<1>. QED  BY <1>3, <1>4 DEF EnsureStream

\* Publish returns, and arms the cutoff thread of a start.
LEMMA HonestPublish ==
    ASSUME TypeInv, Safe, Honest, NEW t \in Threads, Alone(t), Publish(t)
    PROVE  Honest'
<1>1. /\ pc[t] = "publish" /\ shown' = RecorderState(frame[t].rec)
      /\ pc' = [u \in Threads |->
                  IF u = t THEN RestOf(t)
                  ELSE IF u = frame[t].rec /\ frame[t].op = "start" THEN "sleeping" ELSE pc[u]]
      /\ frame' = [frame EXCEPT ![t] = Blank]
      /\ UNCHANGED <<intent, count, status, birth, recorder, recordingSymbols, started, day, boots>>
      BY DEF Publish, disk, sessions, recording, process, world
<1>2. /\ recorder # 0 /\ recorder \in Sessions /\ recorder = count
      /\ status[recorder] = "open" /\ frame[t].rec = recorder
      /\ pc[t] \notin AtRest /\ pc[Main] # "down" /\ shown # "interrupted"
      BY <1>1, KnownIsOpen DEF KnowsRecorder
<1>3. shown' = "active"  BY <1>1, <1>2 DEF RecorderState
<1>4. \A u \in Threads : pc'[u] \in AtRest
  <2>1. RestOf(t) \in AtRest /\ "sleeping" \in AtRest  BY ThreadTypes DEF AtRest
  <2>. QED  BY <1>1, <2>1 DEF Alone
<1>5. /\ pc'[Main] # "down"
      /\ pc'[Main] \in {"halt", "stopped"} => ~started
  <2>1. pc'[Main] \in {pc[Main], RestOf(t), "sleeping"} /\ (pc'[Main] = RestOf(t) \/ t # Main)
        BY <1>1, ThreadTypes
  <2>2. RestOf(t) # "down" /\ (RestOf(t) \in {"halt", "stopped"} => ~started)
        BY DEF RestOf
  <2>. QED  BY <1>2, <2>1, <2>2 DEF Honest, OneAtATime
<1>6. \A u \in Threads : frame'[u].op = "shutdown" => frame[u].op = "shutdown"
      BY <1>1 DEF Blank, NewFrame, TypeInv, TypeOK
<1>7. OneAtATime'
      BY <1>1, <1>4, <1>5, <1>6 DEF Honest, OneAtATime, Working
<1>8. \A u \in Threads : Knows(u)'  BY <1>4, RestKnowsNext
<1>9. Newest'  BY <1>1 DEF Honest, Newest
<1>10. IntentKept'
  <2>1. \A u \in Threads : pc[u] # "persist"  BY <1>1 DEF Alone, AtRest
  <2>. QED  BY <1>1, <2>1 DEF Honest, IntentKept
<1>11. StopKept'  BY <1>1, <1>2 DEF StopKept
<1>12. ShownKept'  BY <1>1, <1>2, <1>3 DEF ShownKept
<1>. QED  BY <1>7, <1>8, <1>9, <1>10, <1>11, <1>12 DEF Honest

LEMMA HonestEdit ==
    ASSUME TypeInv, Safe, Honest, NEW t \in Threads, Alone(t), Edit(t)
    PROVE  Honest'
<1>1. /\ pc[t] = "edit" /\ pc[t] \notin AtRest /\ t \notin Recoverers
      /\ UNCHANGED <<intent, count, status, birth, recorder, started, shown, day, boots>>
      BY DEF Edit, AtRest, Honest, Knows, process, world
<1>2. pc[Main] # "down" /\ shown # "interrupted"
      BY <1>1, ProcessUp, WorkingShown DEF Honest, AtRest
<1>3. CASE recorder = 0
  <2>1. Finish(t) /\ UNCHANGED recordingSymbols  BY <1>3 DEF Edit
  <2>. QED  BY <1>1, <2>1, FinishKeeps
<1>4. CASE recorder # 0
  <2>. DEFINE now == IF frame[t].op = "add" THEN active[recorder] \cup frame[t].syms
                     ELSE active[recorder] \ frame[t].syms
  <2>1. /\ recordingSymbols' = now /\ Go(t, "persist")
        /\ frame' = [frame EXCEPT ![t].rec = recorder, ![t].syms = now]
        BY <1>4 DEF Edit
  <2>. HIDE DEF now
  <2>2. /\ frame'[t].rec = recorder /\ frame'[t].syms = now /\ frame'[t].op = frame[t].op
        /\ \A u \in Threads : u # t => frame'[u] = frame[u]
        BY <2>1 DEF TypeInv, TypeOK, Frames
  <2>3. Moves(t, "persist")  BY <1>1, <1>2, <2>1, <2>2 DEF Moves, Busy
  <2>4. pc'[t] = "persist"  BY <2>3, MovesControl DEF Honest
  <2>5. Knows(t)'
        BY <1>1, <1>4, <2>1, <2>2, <2>4 DEF Knows, KnowsNoRecorder, KnowsRecorder
  <2>6. Newest'  BY <1>1 DEF Honest, Newest
  <2>7. IntentKept'  BY <2>4 DEF IntentKept
  <2>8. StopKept'
    <3>1. status[count] = "open"
          BY <1>4 DEF Safe, RecorderView, Honest, Newest
    <3>. QED  BY <1>1, <3>1 DEF StopKept
  <2>9. ShownKept'  BY <1>1, <1>2, <2>3, ShownSame
  <2>. QED  BY <2>3, <2>5, <2>6, <2>7, <2>8, <2>9, HonestAgain
<1>. QED  BY <1>3, <1>4

LEMMA HonestTake ==
    ASSUME TypeInv, Safe, Honest, NEW t \in Threads, Alone(t), Take(t)
    PROVE  Honest'
<1>. DEFINE next == IF recorder = 0 THEN "announce" ELSE "close"
<1>1. /\ pc[t] = "take" /\ pc[t] \notin AtRest /\ Go(t, next) /\ next \in {"announce", "close"}
      /\ next = "close" => recorder # 0
      /\ recorder' = 0
      /\ frame' = [frame EXCEPT ![t].rec = recorder, ![t].syms = recordingSymbols]
      /\ UNCHANGED <<intent, count, status, birth, started, shown, day, boots>>
      BY DEF Take, Release, AtRest, disk, sessions, process, world
<1>. HIDE DEF next
<1>2. pc[Main] # "down" /\ shown # "interrupted"
      BY <1>1, ProcessUp, WorkingShown DEF Honest, AtRest
<1>3. /\ frame'[t].rec = recorder /\ frame'[t].op = frame[t].op
      /\ \A u \in Threads : u # t => frame'[u] = frame[u]
      BY <1>1 DEF TypeInv, TypeOK, Frames
<1>4. Moves(t, next)  BY <1>1, <1>2, <1>3 DEF Moves, Busy
<1>5. pc'[t] = next /\ \A u \in Threads : u # t => pc'[u] = pc[u]
      BY <1>4, MovesControl DEF Honest
<1>6. Knows(t)'
  <2>1. recorder # 0 => recorder = count  BY DEF Honest, Newest
  <2>. QED  BY <1>1, <1>3, <1>5, <2>1 DEF Knows, KnowsNoRecorder, KnowsRecorder
<1>7. Newest'  BY <1>1 DEF Honest, Newest
<1>8. IntentKept'  BY <1>1 DEF IntentKept
<1>9. StopKept'
  <2>1. \A u \in Threads : pc'[u] # "settle" => pc[u] # "settle"  BY <1>1, <1>5
  <2>2. pc[t] # "settle"  BY <1>1
  <2>. QED  BY <1>1, <1>2, <2>1, <2>2 DEF Honest, StopKept
<1>10. ShownKept'  BY <1>1, <1>2, <1>5 DEF ShownKept
<1>. QED  BY <1>4, <1>6, <1>7, <1>8, <1>9, <1>10, HonestAgain

LEMMA HonestClose ==
    ASSUME TypeInv, Safe, Honest, NEW t \in Threads, Alone(t), Close(t)
    PROVE  Honest'
<1>1. /\ pc[t] = "close" /\ pc[t] \notin AtRest /\ Go(t, "settle")
      /\ status' = [status EXCEPT ![frame[t].rec] = frame[t].op]
      /\ UNCHANGED <<intent, count, birth, recorder, recordingSymbols, started, shown, frame,
                     day, boots>>
      BY DEF Close, Seal, AtRest, memory, recording, process, world
<1>2. pc[Main] # "down" /\ shown # "interrupted"
      BY <1>1, ProcessUp, WorkingShown DEF Honest, AtRest
<1>3. recorder = 0 /\ frame[t].rec = count  BY <1>1 DEF Honest, Knows, KnowsNoRecorder
<1>4. Moves(t, "settle")  BY <1>1, <1>2 DEF Moves, Busy
<1>5. pc'[t] = "settle"  BY <1>4, MovesControl DEF Honest
<1>6. Knows(t)'  BY <1>1, <1>3, <1>5 DEF Knows, KnowsNoRecorder, KnowsRecorder
<1>7. Newest'  BY <1>1 DEF Honest, Newest
<1>8. IntentKept'  BY <1>1, <1>3 DEF IntentKept
<1>9. StopKept'  BY <1>5 DEF StopKept
<1>10. ShownKept'  BY <1>1, <1>2, <1>4, ShownSame
<1>. QED  BY <1>4, <1>6, <1>7, <1>8, <1>9, <1>10, HonestAgain

LEMMA HonestSettle ==
    ASSUME TypeInv, Safe, Honest, NEW t \in Threads, Alone(t), Settle(t)
    PROVE  Honest'
<1>1. /\ pc[t] = "settle" /\ pc[t] \notin AtRest /\ Go(t, "close_publish")
      /\ UNCHANGED <<count, status, birth, recorder, recordingSymbols, started, shown, frame,
                     day, boots>>
      BY DEF Settle, AtRest, sessions, memory, recording, process, world
<1>2. pc[Main] # "down" /\ shown # "interrupted"
      BY <1>1, ProcessUp, WorkingShown DEF Honest, AtRest
<1>3. recorder = 0 /\ frame[t].rec = count  BY <1>1 DEF Honest, Knows, KnowsNoRecorder
<1>4. Moves(t, "close_publish")  BY <1>1, <1>2 DEF Moves, Busy
<1>5. pc'[t] = "close_publish"  BY <1>4, MovesControl DEF Honest
<1>6. KeepsIntent(t) => intent'.symbols = frame[t].syms
      BY DEF Settle, PersistRecordingIntent
<1>7. KeepsIntent(t)' <=> KeepsIntent(t)  BY <1>1 DEF KeepsIntent
<1>8. Knows(t)'
      BY <1>1, <1>3, <1>5, <1>6, <1>7 DEF Knows, KnowsNoRecorder, KnowsRecorder
<1>9. Newest'  BY <1>1 DEF Honest, Newest
<1>10. IntentKept'  BY <1>1, <1>3 DEF IntentKept
<1>11. StopKept'
  <2>. SUFFICES ASSUME status[count] \in {"manual", "cutoff"} PROVE intent' = NoIntent
       BY <1>1 DEF StopKept
  <2>1. status[count] = frame[t].op  BY <1>1, <1>3 DEF Safe, Closing
  <2>2. ~KeepsIntent(t)  BY <2>1 DEF KeepsIntent
  <2>. QED  BY <2>2 DEF Settle, ClearRecordingIntent
<1>12. ShownKept'  BY <1>1, <1>2, <1>4, ShownSame
<1>. QED  BY <1>4, <1>8, <1>9, <1>10, <1>11, <1>12, HonestAgain

\* A stop returns, with the intent it left behind on show.
LEMMA HonestClosePublish ==
    ASSUME TypeInv, Safe, Honest, NEW t \in Threads, Alone(t), ClosePublish(t)
    PROVE  Honest'
<1>1. /\ pc[t] = "close_publish" /\ pc[t] \notin AtRest /\ Finish(t)
      /\ shown' = StoppedState(t)
      /\ UNCHANGED <<intent, count, status, birth, recorder, recordingSymbols, started, day, boots>>
      BY DEF ClosePublish, AtRest, disk, sessions, recording, process, world
<1>2. pc[Main] # "down"  BY <1>1, ProcessUp DEF Honest, AtRest
<1>3. recorder = 0  BY <1>1 DEF Honest, Knows, KnowsNoRecorder
<1>4. Moves(t, RestOf(t)) /\ RestOf(t) \in AtRest  BY <1>1, <1>2, FinishMoves
<1>5. Newest' /\ IntentKept' /\ StopKept'  BY <1>1, <1>4, DataKept
<1>6. /\ pc'[t] = RestOf(t)
      /\ \A u \in Threads : pc'[u] \in AtRest
      BY <1>4, MovesControl DEF Honest
<1>7. Knows(t)'  BY <1>6, RestKnowsNext
<1>8. ShownKept'
  <2>1. CASE KeepsIntent(t)
    <3>1. t = Main /\ ~started  BY <2>1 DEF KeepsIntent, Honest, OneAtATime
    <3>2. pc'[Main] = "stopped"  BY <3>1, <1>6 DEF RestOf
    <3>3. intent.symbols # {}  BY <1>1, <2>1 DEF Honest, Knows, KeepsIntent
    <3>4. shown' = "interrupted"  BY <1>1, <2>1 DEF StoppedState
    <3>. QED  BY <1>1, <1>3, <1>6, <3>2, <3>3, <3>4 DEF ShownKept
  <2>2. CASE ~KeepsIntent(t)
    <3>1. shown' = "inactive"  BY <1>1, <2>2 DEF StoppedState
    <3>. QED  BY <1>1, <1>3, <3>1 DEF ShownKept
  <2>. QED  BY <2>1, <2>2
<1>. QED  BY <1>4, <1>5, <1>7, <1>8, HonestAgain

LEMMA HonestAnnounce ==
    ASSUME TypeInv, Safe, Honest, NEW t \in Threads, Alone(t), Announce(t)
    PROVE  Honest'
<1>1. /\ pc[t] = "announce" /\ pc[t] \notin AtRest /\ shown' = "inactive"
      /\ UNCHANGED <<intent, count, status, birth, recorder, recordingSymbols, started, day, boots>>
      BY DEF Announce, AtRest, disk, sessions, recording, process, world
<1>2. pc[Main] # "down" /\ recorder = 0
      BY <1>1, ProcessUp DEF Honest, AtRest, Knows, KnowsNoRecorder
<1>3. ShownKept'  BY <1>1, <1>2 DEF ShownKept
<1>4. CASE Finish(t)
  <2>1. Moves(t, RestOf(t)) /\ RestOf(t) \in AtRest  BY <1>1, <1>2, <1>4, FinishMoves
  <2>2. Newest' /\ IntentKept' /\ StopKept'  BY <1>1, <2>1, DataKept
  <2>3. Knows(t)'  BY <2>1, MovesControl, RestKnowsNext DEF Honest
  <2>. QED  BY <1>3, <2>1, <2>2, <2>3, HonestAgain
<1>5. CASE Go(t, "discard") /\ UNCHANGED frame
  <2>1. Moves(t, "discard")  BY <1>1, <1>2, <1>5 DEF Moves, Busy
  <2>2. Newest' /\ IntentKept' /\ StopKept'  BY <1>1, <2>1, DataKept
  <2>3. pc'[t] = "discard"  BY <2>1, MovesControl DEF Honest
  <2>4. Knows(t)'  BY <1>1, <1>2, <2>3 DEF Knows, KnowsNoRecorder, KnowsRecorder
  <2>. QED  BY <1>3, <2>1, <2>2, <2>4, HonestAgain
<1>. QED  BY <1>4, <1>5 DEF Announce

\* The intent is cleared, and no recorder is active.
LEMMA HonestClear ==
    ASSUME TypeInv, Safe, Honest, NEW t \in Threads, Alone(t), Discard(t) \/ Expire(t)
    PROVE  Honest'
<1>1. /\ pc[t] \in {"discard", "expire"} /\ pc[t] \notin AtRest /\ Finish(t)
      /\ intent' = NoIntent
      /\ UNCHANGED <<count, status, birth, recorder, recordingSymbols, started, shown, day, boots>>
      BY DEF Discard, Expire, ClearRecordingIntent, AtRest, sessions, memory, recording, process,
             world
<1>2. pc[Main] # "down" /\ shown # "interrupted" /\ recorder = 0
      BY <1>1, ProcessUp, WorkingShown DEF Honest, AtRest, Knows, KnowsNoRecorder
<1>3. Moves(t, RestOf(t)) /\ RestOf(t) \in AtRest  BY <1>1, <1>2, FinishMoves
<1>4. Knows(t)'  BY <1>3, MovesControl, RestKnowsNext DEF Honest
<1>5. Newest'  BY <1>1 DEF Honest, Newest
<1>6. IntentKept'  BY <1>1, <1>2 DEF IntentKept
<1>7. StopKept'  BY <1>1 DEF StopKept
<1>8. ShownKept'  BY <1>1, <1>2, <1>3, ShownSame
<1>. QED  BY <1>3, <1>4, <1>5, <1>6, <1>7, <1>8, HonestAgain

LEMMA HonestWake ==
    ASSUME TypeInv, Safe, Honest, NEW t \in Threads, Alone(t), CutoffWake(t)
    PROVE  Honest'
<1>1. /\ t \in Sessions /\ pc[t] = "sleeping"
      /\ UNCHANGED <<intent, count, status, birth, recorder, recordingSymbols, started, shown,
                     day, boots>>
      BY DEF CutoffWake, disk, sessions, memory, recording, process, world
<1>2. pc[Main] # "down"  BY <1>1, ProcessUp DEF Honest
<1>3. CASE Mine(t)
  <2>1. /\ Go(t, "take") /\ frame' = [frame EXCEPT ![t] = NewFrame("cutoff", NoIntent, {})]
        BY <1>3 DEF CutoffWake
  <2>2. \A u \in Threads : frame'[u].op = "shutdown" => frame[u].op = "shutdown"
        BY <2>1 DEF NewFrame, TypeInv, TypeOK
  <2>3. Moves(t, "take")  BY <1>1, <1>2, <2>1, <2>2 DEF Moves, Busy
  <2>4. Newest' /\ IntentKept' /\ StopKept'  BY <1>1, <2>3, DataKept
  <2>5. shown # "interrupted"
        BY <1>1, <1>3 DEF Mine, Honest, ShownKept, Sessions
  <2>6. ShownKept'  BY <1>1, <2>3, <2>5, ShownSame
  <2>7. pc'[t] = "take"  BY <2>3, MovesControl DEF Honest
  <2>8. Knows(t)'  BY <2>7 DEF Knows, KnowsNoRecorder, KnowsRecorder
  <2>. QED  BY <2>3, <2>4, <2>6, <2>8, HonestAgain
<1>4. CASE ~Mine(t)
  <2>1. Finish(t)  BY <1>4 DEF CutoffWake
  <2>2. Moves(t, RestOf(t)) /\ RestOf(t) \in AtRest  BY <1>1, <1>2, <2>1, FinishMoves
  <2>3. Newest' /\ IntentKept' /\ StopKept'  BY <1>1, <2>2, DataKept
  <2>4. Knows(t)'  BY <2>2, MovesControl, RestKnowsNext DEF Honest
  <2>5. ShownKept'
    <3>1. CASE shown # "interrupted"  BY <1>1, <2>2, <3>1, ShownSame
    <3>2. CASE shown = "interrupted"
      <4>1. /\ pc'[Main] = pc[Main] /\ \A u \in Threads : pc'[u] \in AtRest
        <5>1. t # Main  BY <1>1, ThreadsAssumption DEF Recoverers
        <5>. QED  BY <2>2, <5>1, MovesControl, ThreadTypes DEF Honest
      <4>. QED  BY <1>1, <3>2, <4>1 DEF Honest, ShownKept
    <3>. QED  BY <3>1, <3>2
  <2>. QED  BY <2>2, <2>3, <2>4, <2>5, HonestAgain
<1>. QED  BY <1>3, <1>4

LEMMA HonestLookup ==
    ASSUME TypeInv, Safe, Honest, NEW t \in Threads, Alone(t), Lookup(t)
    PROVE  Honest'
<1>1. /\ pc[t] = "lookup" /\ pc[t] \notin AtRest
      /\ UNCHANGED <<intent, count, status, birth, recorder, recordingSymbols, started, shown,
                     day, boots>>
      BY DEF Lookup, AtRest, disk, sessions, memory, recording, process, world
<1>2. CASE Finish(t)  BY <1>1, <1>2, FinishKeeps
<1>3. CASE recorder = 0 /\ Go(t, "consult") /\ UNCHANGED frame
  <2>1. pc'[t] = "consult"  BY <1>3 DEF Go, TypeInv, TypeOK
  <2>2. Knows(t)'  BY <1>1, <1>3, <2>1 DEF Knows, KnowsNoRecorder, KnowsRecorder
  <2>. QED  BY <1>1, <1>3, <2>2, GoOnKeeps DEF Busy
<1>. QED  BY <1>2, <1>3 DEF Lookup

LEMMA HonestConsult ==
    ASSUME TypeInv, Safe, Honest, NEW t \in Threads, Alone(t), Consult(t)
    PROVE  Honest'
<1>1. /\ pc[t] = "consult" /\ pc[t] \notin AtRest
      /\ UNCHANGED <<intent, count, status, birth, recorder, recordingSymbols, started, shown,
                     day, boots>>
      BY DEF Consult, AtRest, disk, sessions, recording, world
<1>2. recorder = 0 /\ pc[Main] # "down" /\ shown # "interrupted"
      BY <1>1, ProcessUp, WorkingShown DEF Honest, AtRest, Knows, KnowsNoRecorder
<1>3. CASE Finish(t)  BY <1>1, <1>3, FinishKeeps
<1>4. CASE Go(t, "expire") /\ UNCHANGED frame
  <2>1. pc'[t] = "expire"  BY <1>4 DEF Go, TypeInv, TypeOK
  <2>2. Knows(t)'  BY <1>1, <1>2, <2>1 DEF Knows, KnowsNoRecorder, KnowsRecorder
  <2>. QED  BY <1>1, <1>4, <2>2, GoOnKeeps DEF Busy
<1>5. CASE Attempt(t)
  <2>1. Go(t, "authorize") /\ frame' = [frame EXCEPT ![t] = NewFrame("start", intent, intent.symbols)]
        BY <1>5 DEF Attempt
  <2>2. frame'[t].op = "start" /\ \A u \in Threads : frame'[u].op = "shutdown" => frame[u].op = "shutdown"
        BY <2>1 DEF NewFrame, TypeInv, TypeOK
  <2>3. Moves(t, "authorize")  BY <1>1, <1>2, <2>1, <2>2 DEF Moves, Busy
  <2>4. Newest' /\ IntentKept' /\ StopKept'  BY <1>1, <2>3, DataKept
  <2>5. ShownKept'  BY <1>1, <1>2, <2>3, ShownSame
  <2>6. pc'[t] = "authorize"  BY <2>3, MovesControl DEF Honest
  <2>7. Knows(t)'  BY <1>1, <1>2, <2>2, <2>6 DEF Knows, KnowsNoRecorder, KnowsRecorder
  <2>. QED  BY <2>3, <2>4, <2>5, <2>7, HonestAgain
<1>. QED  BY <1>3, <1>4, <1>5 DEF Consult

LEMMA HonestAuthorized ==
    ASSUME TypeInv, Safe, Honest, NEW t \in Threads, Alone(t), Authorized(t)
    PROVE  Honest'
<1>. DEFINE next == IF late THEN "report" ELSE "create"
<1>1. /\ pc[t] = "authorize" /\ pc[t] \notin AtRest /\ UNCHANGED frame
      /\ Go(t, next) /\ next \in {"report", "create"}
      /\ UNCHANGED <<intent, count, status, birth, recorder, recordingSymbols, started, shown,
                     day, boots>>
      BY DEF Authorized, AtRest, disk, sessions, memory, recording, process, world
<1>. HIDE DEF next
<1>2. recorder = 0 /\ frame[t].op = "start"  BY <1>1 DEF Honest, Knows, KnowsNoRecorder
<1>3. pc'[t] = next  BY <1>1 DEF Go, TypeInv, TypeOK
<1>4. Knows(t)'  BY <1>1, <1>2, <1>3 DEF Knows, KnowsNoRecorder, KnowsRecorder
<1>. QED  BY <1>1, <1>4, GoOnKeeps DEF Busy

\* A recovery gives up, and says why.
LEMMA HonestReport ==
    ASSUME TypeInv, Safe, Honest, NEW t \in Threads, Alone(t), Unauthorized(t) \/ ReportFailure(t)
    PROVE  Honest'
<1>1. /\ pc[t] \in {"authorize", "report"} /\ pc[t] \notin AtRest /\ Finish(t)
      /\ shown' \in {"awaiting_auth", "restart_failed"}
      /\ UNCHANGED <<intent, count, status, birth, recorder, recordingSymbols, started, day, boots>>
      BY DEF Unauthorized, ReportFailure, AtRest, disk, sessions, recording, process, world
<1>2. pc[Main] # "down"  BY <1>1, ProcessUp DEF Honest, AtRest
<1>3. recorder = 0 \/ pc[recorder] # "sleeping"
      BY <1>1 DEF Honest, Knows, KnowsNoRecorder
<1>4. Moves(t, RestOf(t)) /\ RestOf(t) \in AtRest  BY <1>1, <1>2, FinishMoves
<1>5. Newest' /\ IntentKept' /\ StopKept'  BY <1>1, <1>4, DataKept
<1>6. \A u \in Threads : pc'[u] = "sleeping" => pc[u] = "sleeping"
      BY <1>4, MovesControl DEF Honest
<1>7. Knows(t)'  BY <1>4, MovesControl, RestKnowsNext DEF Honest
<1>8. ShownKept'
  <2>1. recorder # 0 => recorder \in Threads
        BY ThreadTypes DEF TypeInv, TypeOK, Sessions
  <2>. QED  BY <1>1, <1>3, <1>6, <2>1 DEF ShownKept
<1>. QED  BY <1>4, <1>5, <1>7, <1>8, HonestAgain

LEMMA HonestStep ==
    ASSUME TypeInv, Safe, Honest, NEW t \in Threads, Alone(t), Step(t)
    PROVE  Honest'
BY HonestCreate, HonestPersist, HonestEnsure, HonestPublish, HonestEdit, HonestTake, HonestClose,
   HonestSettle, HonestClosePublish, HonestAnnounce, HonestClear, HonestWake, HonestLookup,
   HonestConsult, HonestAuthorized, HonestReport
   DEF Step

LEMMA HonestInvoke ==
    ASSUME TypeInv, Safe, Honest, NEW t \in Clients, Alone(t), Invoke(t)
    PROVE  Honest'
<1>1. PICK op \in {"start", "add", "remove", "manual"}, syms \in SUBSET Symbols,
           next \in {"create", "edit", "take"} :
         Call(t, op, syms, next) /\ (next = "create" => op = "start")
  <2>1. CASE StartCall(t)  BY <2>1 DEF StartCall
  <2>2. CASE AddCall(t)  BY <2>2 DEF AddCall
  <2>3. CASE RemoveCall(t)  BY <2>3 DEF RemoveCall
  <2>4. CASE StopCall(t)  BY <2>4 DEF StopCall
  <2>. QED  BY <2>1, <2>2, <2>3, <2>4 DEF Invoke
<1>2. /\ t \in Threads /\ t \notin Recoverers
      /\ pc[t] = "idle" /\ pc[Main] = "serving" /\ Go(t, next)
      /\ frame' = [frame EXCEPT ![t] = NewFrame(op, NoIntent, syms)]
      /\ UNCHANGED <<intent, count, status, birth, recorder, recordingSymbols, started, shown,
                     day, boots>>
      BY <1>1, ThreadTypes, ThreadsAssumption
      DEF Call, disk, sessions, memory, recording, process
<1>3. /\ frame'[t].op = op
      /\ \A u \in Threads : frame'[u].op = "shutdown" => frame[u].op = "shutdown"
      BY <1>1, <1>2 DEF NewFrame, TypeInv, TypeOK
<1>4. Moves(t, next)  BY <1>1, <1>2, <1>3 DEF Moves, Busy
<1>5. Newest' /\ IntentKept' /\ StopKept'  BY <1>2, <1>4, DataKept
<1>6. ShownKept'
  <2>1. shown # "interrupted"  BY <1>2 DEF Honest, ShownKept
  <2>. QED  BY <1>2, <1>4, <2>1, ShownSame
<1>7. pc'[t] = next  BY <1>2, <1>4, MovesControl DEF Honest
<1>8. Knows(t)'  BY <1>1, <1>2, <1>3, <1>7 DEF Knows, KnowsNoRecorder, KnowsRecorder
<1>. QED  BY <1>2, <1>4, <1>5, <1>6, <1>8, HonestAgain

LEMMA HonestTick ==
    ASSUME TypeInv, Safe, Honest, Alone(Watchdog), WatchdogTick
    PROVE  Honest'
<1>. DEFINE t == Watchdog
<1>1. /\ t \in Threads /\ pc[t] = "idle" /\ started /\ Go(t, "lookup")
      /\ UNCHANGED <<intent, count, status, birth, recorder, recordingSymbols, started, shown,
                     day, boots, frame>>
      BY ThreadTypes DEF WatchdogTick, disk, sessions, memory, recording, process, world
<1>2. pc[Main] \notin {"down", "stopped"}  BY <1>1 DEF Honest, OneAtATime
<1>3. Moves(t, "lookup")  BY <1>1, <1>2 DEF Moves, Busy
<1>4. Newest' /\ IntentKept' /\ StopKept'  BY <1>1, <1>3, DataKept
<1>5. ShownKept'
  <2>1. shown # "interrupted"  BY <1>2 DEF Honest, ShownKept
  <2>. QED  BY <1>1, <1>3, <2>1, ShownSame
<1>6. pc'[t] = "lookup"  BY <1>1, <1>3, MovesControl DEF Honest
<1>7. Knows(t)'  BY <1>6 DEF Knows, KnowsNoRecorder, KnowsRecorder
<1>. QED  BY <1>1, <1>3, <1>4, <1>5, <1>7, HonestAgain

\* Halt enters stop_recording on the lifespan thread, the only one with a
\* shutdown to do.
LEMMA HonestHalt ==
    ASSUME TypeInv, Safe, Honest, Alone(Main), Halt
    PROVE  Honest'
<1>1. /\ Main \in Threads /\ pc[Main] = "halt" /\ Go(Main, "take")
      /\ frame' = [frame EXCEPT ![Main] = NewFrame("shutdown", NoIntent, {})]
      /\ ~started
      /\ UNCHANGED <<intent, count, status, birth, recorder, recordingSymbols, started, shown,
                     day, boots>>
      BY ThreadTypes DEF Halt, disk, sessions, recording, world, Honest, OneAtATime
<1>2. /\ pc'[Main] = "take"
      /\ \A u \in Threads : u # Main => pc'[u] = pc[u] /\ pc'[u] \in AtRest /\ frame'[u] = frame[u]
      BY <1>1 DEF Alone, Go, TypeInv, TypeOK
<1>3. OneAtATime'
  <2>1. \A u \in Threads : frame'[u].op = "shutdown" => u = Main
        BY <1>2 DEF Honest, OneAtATime
  <2>. QED  BY <1>1, <1>2, <2>1 DEF OneAtATime, Working
<1>4. \A u \in Threads : Knows(u)'
  <2>1. Knows(Main)'  BY <1>2 DEF Knows, KnowsNoRecorder, KnowsRecorder
  <2>. QED  BY <1>2, <2>1, RestKnowsNext
<1>5. Newest'  BY <1>1 DEF Honest, Newest
<1>6. \A u \in Threads : pc[u] \notin {"persist", "settle", "close", "close_publish", "announce"}
      BY <1>1 DEF Alone, AtRest
<1>7. IntentKept'  BY <1>1, <1>6 DEF Honest, IntentKept
<1>8. StopKept'  BY <1>1, <1>6 DEF Honest, StopKept
<1>9. ShownKept'
  <2>1. shown # "interrupted"  BY <1>1 DEF Honest, ShownKept, AtRest
  <2>2. recorder # 0 => recorder \in Threads  BY ThreadTypes DEF TypeInv, TypeOK, Sessions
  <2>. QED  BY <1>1, <1>2, <1>6, <2>1, <2>2 DEF Honest, ShownKept
<1>. QED  BY <1>3, <1>4, <1>5, <1>7, <1>8, <1>9 DEF Honest

LEMMA HonestBoot ==
    ASSUME TypeInv, Honest, Boot
    PROVE  Honest'
<1>1. /\ pc[Main] = "down" /\ Go(Main, "lookup") /\ started' = TRUE /\ boots' = boots + 1
      /\ UNCHANGED <<intent, count, status, birth, recorder, recordingSymbols, shown, frame, day>>
      /\ pc = Rest0 /\ Main \in Threads
      BY ThreadTypes DEF Boot, disk, sessions, recording, Honest, OneAtATime
<1>2. /\ pc'[Main] = "lookup"
      /\ \A u \in Threads : u # Main => pc'[u] = pc[u] /\ pc'[u] \in AtRest
      /\ \A u \in Threads : pc[u] \in {"down", "unarmed", "idle"}
      BY <1>1, ThreadTypes DEF Go, TypeInv, TypeOK, Rest0
<1>3. OneAtATime'
  <2>1. \A u \in Threads : frame'[u].op # "shutdown"  BY <1>1 DEF Honest, OneAtATime
  <2>. QED  BY <1>1, <1>2, <2>1 DEF OneAtATime, Working
<1>4. \A u \in Threads : Knows(u)'
  <2>1. Knows(Main)'  BY <1>2 DEF Knows, KnowsNoRecorder, KnowsRecorder
  <2>. QED  BY <1>2, <2>1, RestKnowsNext
<1>5. Newest'
  <2>1. \A s \in Sessions : birth[s].boot \in Nat /\ boots \in Nat
        BY ThreadTypes DEF TypeInv, TypeOK, Births
  <2>. QED  BY <1>1, <2>1 DEF Honest, Newest
<1>6. IntentKept'  BY <1>1, <1>2 DEF Honest, IntentKept
<1>7. StopKept'
  <2>1. count > 0 => birth'[count'].boot # boots'
    <3>1. \A s \in Sessions : birth[s].boot \in Nat /\ boots \in Nat
          BY ThreadTypes DEF TypeInv, TypeOK, Births
    <3>2. count > 0 => count \in Sessions  BY ThreadTypes DEF TypeInv, TypeOK, Sessions
    <3>. QED  BY <1>1, <3>1, <3>2 DEF Honest, Newest
  <2>. QED  BY <1>1, <2>1 DEF StopKept
<1>8. ShownKept'
  <2>1. shown # "interrupted" /\ \A u \in Threads : pc[u] # "sleeping"
        BY <1>1, <1>2 DEF Honest, ShownKept
  <2>2. recorder # 0 => recorder \in Threads  BY ThreadTypes DEF TypeInv, TypeOK, Sessions
  <2>3. shown = "active" => recorder # 0  BY <1>2 DEF Honest, ShownKept
  <2>. QED  BY <1>1, <1>2, <2>1, <2>2, <2>3 DEF ShownKept
<1>. QED  BY <1>3, <1>4, <1>5, <1>6, <1>7, <1>8 DEF Honest

LEMMA HonestShutdown ==
    ASSUME TypeInv, Honest, Shutdown
    PROVE  Honest'
<1>1. /\ pc[Main] = "serving" /\ Go(Main, "halt") /\ started' = FALSE /\ Main \in Threads
      /\ UNCHANGED <<intent, count, status, birth, recorder, recordingSymbols, shown, frame, day,
                     boots>>
      BY ThreadTypes DEF Shutdown, disk, sessions, recording, world
<1>2. pc'[Main] = "halt" /\ \A u \in Threads : u # Main => pc'[u] = pc[u]
      BY <1>1 DEF Go, TypeInv, TypeOK
<1>3. OneAtATime'  BY <1>1, <1>2 DEF Honest, OneAtATime, Working
<1>4. \A u \in Threads : Knows(u)'
  <2>1. Knows(Main)'  BY <1>2 DEF Knows, KnowsNoRecorder, KnowsRecorder
  <2>2. ASSUME NEW u \in Threads, u # Main PROVE Knows(u)'
    <3>1. Knows(u) /\ pc'[u] = pc[u] /\ (KeepsIntent(u)' <=> KeepsIntent(u))
          BY <1>1, <1>2, <2>2 DEF Honest, KeepsIntent
    <3>2. recorder # 0 => recorder \in Threads  BY ThreadTypes DEF TypeInv, TypeOK, Sessions
    <3>3. recorder = 0 \/ pc[recorder] # "sleeping" => recorder = 0 \/ pc'[recorder] # "sleeping"
          BY <1>2, <3>2
    <3>. QED  BY <1>1, <3>1, <3>3 DEF Knows, KnowsNoRecorder, KnowsRecorder
  <2>. QED  BY <2>1, <2>2
<1>5. Newest'  BY <1>1 DEF Honest, Newest
<1>6. IntentKept'  BY <1>1, <1>2 DEF Honest, IntentKept
<1>7. StopKept'  BY <1>1, <1>2 DEF Honest, StopKept
<1>8. ShownKept'
  <2>1. shown # "interrupted"  BY <1>1 DEF Honest, ShownKept
  <2>2. recorder # 0 => recorder \in Threads  BY ThreadTypes DEF TypeInv, TypeOK, Sessions
  <2>3. \A u \in Threads : /\ pc'[u] = "sleeping" => pc[u] = "sleeping"
                           /\ pc[u] \in {"close", "settle", "close_publish", "announce"} => pc'[u] = pc[u]
        BY <1>1, <1>2
  <2>. QED  BY <1>1, <2>1, <2>2, <2>3 DEF Honest, ShownKept
<1>. QED  BY <1>3, <1>4, <1>5, <1>6, <1>7, <1>8 DEF Honest

LEMMA HonestForget ==
    ASSUME TypeInv, Honest, Forget
    PROVE  Honest'
<1>1. /\ pc' = Rest0 /\ frame' = [t \in Threads |-> Blank] /\ started' = FALSE
      /\ recorder' = 0 /\ shown' = "inactive"
      /\ UNCHANGED <<intent, count, birth, day, boots>>
      BY DEF Forget, world
<1>2. \A u \in Threads : pc'[u] \in AtRest /\ frame'[u].op = "none"
      BY <1>1, ThreadTypes DEF Rest0, AtRest, Blank, NewFrame
<1>3. pc'[Main] = "down"  BY <1>1, ThreadTypes DEF Rest0
<1>4. OneAtATime'  BY <1>1, <1>2 DEF OneAtATime, Working
<1>5. \A u \in Threads : Knows(u)'  BY <1>2, RestKnowsNext
<1>6. Newest'  BY <1>1 DEF Honest, Newest
<1>7. IntentKept' /\ StopKept' /\ ShownKept'
      BY <1>1, <1>3 DEF IntentKept, StopKept, ShownKept
<1>. QED  BY <1>4, <1>5, <1>6, <1>7 DEF Honest

LEMMA HonestClock ==
    ASSUME TypeInv, Honest, ReachCutoff \/ NextDay \/ UNCHANGED vars
    PROVE  Honest'
<1>1. /\ UNCHANGED <<intent, count, status, birth, recorder, recordingSymbols, started, shown,
                     pc, frame, boots>>
      /\ \/ UNCHANGED day
         \/ day' = day + 1 /\ \A t \in Threads : pc[t] \in AtRest
      BY DEF ReachCutoff, NextDay, vars, disk, sessions, memory, recording, process, world
<1>2. OneAtATime'  BY <1>1 DEF Honest, OneAtATime, Working
<1>3. \A u \in Threads : Knows(u)'
  <2>. SUFFICES ASSUME NEW u \in Threads PROVE Knows(u)'  OBVIOUS
  <2>1. Knows(u)  BY DEF Honest
  <2>. QED  BY <1>1, <2>1 DEF Knows, KnowsNoRecorder, KnowsRecorder, KeepsIntent
<1>4. \A s \in Sessions : birth[s].day \in Nat /\ day \in Nat
      BY ThreadTypes DEF TypeInv, TypeOK, Births
<1>5. Newest'
  <2>1. \A s \in Sessions : birth[s].day <= day'  BY <1>1, <1>4 DEF Honest, Newest
  <2>. QED  BY <1>1, <2>1 DEF Honest, Newest
<1>6. IntentKept'
  <2>1. CASE UNCHANGED day  BY <1>1, <2>1 DEF Honest, IntentKept
  <2>2. CASE day' = day + 1
    <3>1. recorder # 0 => recorder \in Sessions  BY DEF TypeInv, TypeOK, Sessions
    <3>2. recorder # 0 => birth[recorder].day # day'
          BY <1>4, <2>2, <3>1 DEF Honest, Newest
    <3>. QED  BY <1>1, <3>2 DEF IntentKept
  <2>. QED  BY <1>1, <2>1, <2>2
<1>7. StopKept' /\ ShownKept'  BY <1>1 DEF Honest, StopKept, ShownKept
<1>. QED  BY <1>2, <1>3, <1>5, <1>6, <1>7 DEF Honest

-----------------------------------------------------------------------------
(* What holds of calls that do not overlap.                                *)

LEMMA HonestInit == Init => Honest
<1>. SUFFICES ASSUME Init PROVE Honest  OBVIOUS
<1>1. \A t \in Threads : pc[t] \in AtRest /\ frame[t].op = "none"
      BY ThreadTypes DEF Init, Rest0, AtRest, Blank, NewFrame
<1>2. OneAtATime
  <2>1. pc[Main] = "down"  BY ThreadTypes DEF Init, Rest0
  <2>. QED  BY <1>1, <2>1 DEF Init, OneAtATime, Working
<1>3. \A t \in Threads : Knows(t)  BY <1>1, RestKnows
<1>4. Newest
      BY DEF Init, Newest, Unborn
<1>5. IntentKept /\ StopKept /\ ShownKept
      BY DEF Init, IntentKept, StopKept, ShownKept
<1>. QED  BY <1>2, <1>3, <1>4, <1>5 DEF Honest

LEMMA HonestNext == TypeInv /\ Safe /\ Honest /\ [SerialNext]_vars => Honest'
<1>. SUFFICES ASSUME TypeInv, Safe, Honest, [SerialNext]_vars PROVE Honest'  OBVIOUS
<1>1. ASSUME NEW t \in Clients, Alone(t), Invoke(t) PROVE Honest'
      BY <1>1, HonestInvoke
<1>2. ASSUME NEW t \in Threads, Alone(t), Step(t) PROVE Honest'
      BY <1>2, HonestStep
<1>3. CASE Alone(Watchdog) /\ WatchdogTick  BY <1>3, HonestTick
<1>4. CASE Alone(Main) /\ Halt  BY <1>4, HonestHalt
<1>5. CASE World
      BY <1>5, HonestBoot, HonestShutdown, HonestForget, HonestClock DEF World, Exit, Crash
<1>6. CASE UNCHANGED vars  BY <1>6, HonestClock
<1>. QED  BY <1>1, <1>2, <1>3, <1>4, <1>5, <1>6 DEF SerialNext

\* Calls that take turns are calls.
LEMMA SerialIsNext == [SerialNext]_vars => [Next]_vars
BY DEF SerialNext, Next

LEMMA HonestMeans ==
    ASSUME TypeInv, Honest PROVE IntentHonest
<1>1. IntentFollowsRecording
  <2>. SUFFICES ASSUME Quiet, recorder # 0, birth[recorder].day = day
                PROVE  intent = [day |-> day, symbols |-> recordingSymbols, previous |-> 0]
       BY DEF IntentFollowsRecording
  <2>1. \A t \in Threads : pc[t] # "persist"  BY DEF Quiet, AtRest
  <2>. QED  BY <2>1 DEF Honest, IntentKept
<1>2. StopClearsIntent
  <2>. SUFFICES ASSUME Quiet, pc[Main] = "serving", count > 0, birth[count].boot = boots,
                       status[count] \in {"manual", "cutoff"}
                PROVE  intent = NoIntent
       BY DEF StopClearsIntent
  <2>1. \A t \in Threads : pc[t] # "settle"  BY DEF Quiet, AtRest
  <2>. QED  BY <2>1 DEF Honest, StopKept
<1>3. ShownHonest
  <2>. SUFFICES ASSUME Quiet
                PROVE  /\ shown = "active" => recorder # 0
                       /\ recorder # 0 /\ pc[recorder] = "sleeping" => shown = "active"
                       /\ shown = "interrupted" => intent.symbols # {}
       BY DEF ShownHonest
  <2>1. \A t \in Threads : pc[t] \notin {"close", "settle", "close_publish", "announce"}
        BY DEF Quiet, AtRest
  <2>. QED  BY <2>1 DEF Honest, ShownKept
<1>. QED  BY <1>1, <1>2, <1>3 DEF IntentHonest

\* For all symbols, clients and bounds: with calls that do not overlap, and
\* crashes at any step, the persisted intent, the recording and what is shown
\* agree between calls.  (_persist_recording_intent, _clear_recording_intent,
\* _publish_recorder_state.)
THEOREM IntentIsHonest == SerialSpec => []IntentHonest
<1>1. TypeInv /\ Safe /\ Honest /\ [SerialNext]_vars => (TypeInv /\ Safe /\ Honest)'
      BY SerialIsNext, TypeStep, SafeStep, HonestNext
<1>2. Init => TypeInv /\ Safe /\ Honest
      BY TypeInit, SafeInit, HonestInit
<1>3. TypeInv /\ Safe /\ Honest => IntentHonest
      BY HonestMeans
<1>. QED  BY <1>1, <1>2, <1>3, PTL DEF SerialSpec
=============================================================================
