-------------------------- MODULE SchwabStream_proofs --------------------------
(***************************************************************************)
(* Proofs about SchwabStream: the types, the retry budget, and that the    *)
(* reconnect flag is never left set without a worker to clear it, in any   *)
(* interleaving; and, with one method or callback at a time, that the      *)
(* client agrees with its socket and leaves no stream stranded.  All for   *)
(* any number of callers, symbols, sockets, workers and attempts.          *)
(***************************************************************************)
EXTENDS SchwabStream, TLAPS

\* A worker about to start or to try again has an attempt left; one that has
\* not started has used none.
Budget ==
    \A w \in Workers :
        /\ pc[w] = "sleeping" => tries[w] < MaxRetries
        /\ pc[w] = "off" => tries[w] = 0

StreamInv == TypeOK /\ Budget /\ FlagHonest

-----------------------------------------------------------------------------
(* Threads.                                                                *)

\* The three kinds of thread are different threads.
LEMMA Kinds ==
    /\ Callers \cap Workers = {} /\ Sockets \cap Workers = {} /\ Callers \cap Sockets = {}
    /\ Callers \subseteq Threads /\ Sockets \subseteq Threads /\ Workers \subseteq Threads
    /\ \A t \in Threads : t \in Callers \/ t \in Sockets \/ t \in Workers
  <1>1. Sockets \cap Workers = {}
    BY StreamBounds DEF Sockets, Workers
  <1> QED  BY <1>1, StreamThreads DEF Threads

\* A thread other than a worker that has nothing to reset may go anywhere.
LEMMA FlagKept ==
    ASSUME TypeOK, FlagHonest, NEW t \in Threads, NEW p,
           reconnecting' = reconnecting, pc' = [pc EXCEPT ![t] = p],
           t \in Workers /\ Reconnects(t) => p \notin {"off", "report", "done"}
    PROVE  FlagHonest'
  <1> SUFFICES ASSUME reconnecting PROVE \E w \in Workers : Reconnects(w)'
    BY DEF FlagHonest
  <1>1. PICK w \in Workers : Reconnects(w)
    BY DEF FlagHonest
  <1>2. pc \in [Threads -> Rest \cup Working] /\ w \in Threads
    BY Kinds DEF TypeOK
  <1>3. Reconnects(w)'
    BY <1>1, <1>2 DEF Reconnects
  <1> QED  BY <1>3

\* A step that spends no attempt keeps the budget, unless it puts a worker to
\* sleep.
LEMMA BudgetKept ==
    ASSUME TypeOK, Budget, NEW t \in Threads, NEW p,
           tries' = tries, pc' = [pc EXCEPT ![t] = p],
           t \in Workers => p # "off" /\ (p = "sleeping" => tries[t] < MaxRetries)
    PROVE  Budget'
  BY Kinds DEF TypeOK, Budget

-----------------------------------------------------------------------------
(* Initial states.                                                         *)

LEMMA InitStream == Init => StreamInv
  <1> SUFFICES ASSUME Init PROVE StreamInv
    OBVIOUS
  <1>1. TypeOK
    <2>1. pc \in [Threads -> Rest \cup Working]
      BY DEF Init, Rest
    <2>2. phase \in [Sockets -> Phases] /\ served \in [Sockets -> SUBSET Symbols]
      BY DEF Init, Phases
    <2>3. syms \in [Threads -> SUBSET Symbols] /\ tries \in [Workers -> 0 .. MaxRetries]
      BY StreamBounds DEF Init
    <2>4. /\ ws \in 0 .. MaxSockets /\ created \in 0 .. MaxSockets
          /\ calls \in 0 .. MaxCalls /\ faults \in 0 .. MaxFaults
      BY StreamBounds DEF Init
    <2>5. state \in States /\ desired \in SUBSET Symbols /\ wish \in SUBSET Symbols
      BY DEF Init, States
    <2> QED  BY <2>1, <2>2, <2>3, <2>4, <2>5 DEF Init, TypeOK
  <1>2. Budget
    BY StreamBounds, Kinds DEF Init, Budget
  <1>3. FlagHonest
    BY DEF Init, FlagHonest
  <1> QED  BY <1>1, <1>2, <1>3 DEF StreamInv

-----------------------------------------------------------------------------
(* Calls of the runtime.                                                   *)

LEMMA CallerStartStep ==
    ASSUME StreamInv, NEW c \in Callers, CallerStart(c)
    PROVE  StreamInv'
  <1> USE DEF StreamInv
  <1>0. c \in Threads /\ c \notin Workers
    BY Kinds
  <1>1. CASE Open(c)
    <2>1. TypeOK'
      BY <1>0, <1>1, StreamBounds DEF TypeOK, Open, Call, Go, At, Working, net
    <2>2. Budget' /\ FlagHonest'
      BY <1>0, <1>1, BudgetKept, FlagKept DEF Open, Call, Go
    <2> QED  BY <2>1, <2>2
  <1>2. CASE Use(c)
    <2>0. PICK op \in {"subscribe", "unsubscribe", "resend", "force"}, S \in SUBSET Symbols :
            Call(c, op, S)
      BY <1>2 DEF Use
    <2>1. TypeOK'
      BY <1>0, <1>2, <2>0, StreamBounds DEF TypeOK, Use, Call, Go, At, Working, net, client
    <2>2. Budget' /\ FlagHonest'
      BY <1>0, <1>2, <2>0, BudgetKept, FlagKept DEF Use, Call, Go, client
    <2> QED  BY <2>1, <2>2
  <1>3. CASE Close(c)
    <2>1. TypeOK'
      BY <1>0, <1>3, StreamBounds DEF TypeOK, Close, Call, Go, At, Working, net, client
    <2>2. Budget' /\ FlagHonest'
      BY <1>0, <1>3, BudgetKept, FlagKept DEF Close, Call, Go, client
    <2> QED  BY <2>1, <2>2
  <1>4. CASE TokenRefreshed(c)
    <2>1. TypeOK'
      BY <1>0, <1>4, StreamBounds DEF TypeOK, TokenRefreshed, Call, Go, At, Working, net, client
    <2>2. Budget' /\ FlagHonest'
      BY <1>0, <1>4, BudgetKept, FlagKept DEF TokenRefreshed, Call, Go, client
    <2> QED  BY <2>1, <2>2
  <1> QED  BY <1>1, <1>2, <1>3, <1>4 DEF CallerStart

LEMMA TokenLostStep ==
    ASSUME StreamInv, TokenLost
    PROVE  StreamInv'
  <1> USE DEF StreamInv
  <1>1. faults' \in 0 .. MaxFaults
    BY StreamBounds DEF TypeOK, TokenLost, Fault
  <1>2. TypeOK'
    BY <1>1 DEF TypeOK, TokenLost, client, net, local
  <1>3. Budget' /\ FlagHonest'
    BY DEF TokenLost, Budget, FlagHonest, Reconnects, client, local
  <1> QED  BY <1>2, <1>3

\* What closing a socket does to the phases, whoever asks for it.
LEMMA ShutTypes ==
    ASSUME phase \in [Sockets -> Phases], NEW i, Shut(i)
    PROVE  phase' \in [Sockets -> Phases]
  BY DEF Shut, Phases, Live

LEMMA CleanupTypes ==
    ASSUME TypeOK, NEW i, Cleanup(i)
    PROVE  /\ phase' \in [Sockets -> Phases]
           /\ ws' \in 0 .. MaxSockets /\ connected' \in BOOLEAN
  <1>1. CASE ws = i /\ i # 0
    <2>1. Shut(i)
      BY <1>1 DEF Cleanup
    <2>2. phase' \in [Sockets -> Phases]
      BY <2>1, ShutTypes DEF TypeOK
    <2>3. ws' = 0 /\ connected' = FALSE
      BY <1>1 DEF Cleanup
    <2>4. 0 \in 0 .. MaxSockets
      BY StreamBounds
    <2> QED  BY <2>2, <2>3, <2>4
  <1>2. CASE ~(ws = i /\ i # 0)
    BY <1>2 DEF TypeOK, Cleanup
  <1> QED  BY <1>1, <1>2

LEMMA CloseStreamTypes ==
    ASSUME TypeOK, CloseStream
    PROVE  /\ phase' \in [Sockets -> Phases]
           /\ closing' \in BOOLEAN /\ connected' \in BOOLEAN /\ state' \in States
  BY ShutTypes DEF TypeOK, CloseStream, States

LEMMA CallerOwnStep ==
    ASSUME StreamInv, NEW c \in Callers, Disconnect(c) \/ Listen(c) \/ ForceReconnect(c)
    PROVE  StreamInv'
  <1> USE DEF StreamInv
  <1>0. c \in Threads /\ c \notin Workers
    BY Kinds
  <1>1. CASE Disconnect(c)
    <2>1. TypeOK'
      BY <1>0, <1>1, CloseStreamTypes DEF TypeOK, Disconnect, Go, Rest, world
    <2>2. Budget' /\ FlagHonest'
      BY <1>0, <1>1, BudgetKept, FlagKept DEF Disconnect, Go
    <2> QED  BY <2>1, <2>2
  <1>2. CASE Listen(c)
    <2>0. PICK p \in {"idle", "connect"} : Go(c, p)
      BY <1>2 DEF Listen
    <2>1. /\ phase' \in [Sockets -> Phases]
          /\ closing' \in BOOLEAN /\ connected' \in BOOLEAN /\ state' \in States
      BY <1>2, CloseStreamTypes DEF Listen, TypeOK
    <2>2. TypeOK'
      BY <1>0, <1>2, <2>0, <2>1 DEF TypeOK, Listen, Go, Rest, Working, world
    <2>3. Budget' /\ FlagHonest'
      BY <1>0, <1>2, <2>0, BudgetKept, FlagKept DEF Listen, Go
    <2> QED  BY <2>2, <2>3
  <1>3. CASE ForceReconnect(c)
    <2>1. /\ phase' \in [Sockets -> Phases]
          /\ ws' \in 0 .. MaxSockets /\ connected' \in BOOLEAN
      BY <1>3, CleanupTypes DEF ForceReconnect, TypeOK
    <2>2. TypeOK'
      BY <1>0, <1>3, <2>1 DEF TypeOK, ForceReconnect, Go, Working, world
    <2>3. Budget' /\ FlagHonest'
      BY <1>0, <1>3, BudgetKept, FlagKept DEF ForceReconnect, Go
    <2> QED  BY <2>2, <2>3
  <1> QED  BY <1>1, <1>2, <1>3

-----------------------------------------------------------------------------
(* Steps that several kinds of thread take.                                *)

LEMMA ConnectStep ==
    ASSUME StreamInv, NEW t \in Threads, Connect(t) \/ Dial(t)
    PROVE  StreamInv'
  <1> USE DEF StreamInv
  <1>1. CASE Connect(t)
    <2>1. TypeOK'
      BY <1>1 DEF TypeOK, Connect, Go, Working, States, net, world
    <2>2. Budget' /\ FlagHonest'
      BY <1>1, BudgetKept, FlagKept DEF Connect, Go
    <2> QED  BY <2>1, <2>2
  <1>2. CASE Dial(t)
    <2>0. PICK p \in {"idle", "resub"} : Go(t, p) /\ (t \in Workers => p = "resub")
      BY <1>2 DEF Dial
    <2>1. /\ phase' \in [Sockets -> Phases] /\ closing' \in BOOLEAN /\ state' \in States
          /\ created' \in 0 .. MaxSockets /\ ws' \in 0 .. MaxSockets /\ token' \in BOOLEAN
      <3>1. state' \in States /\ token' \in BOOLEAN /\ closing' \in BOOLEAN
        BY <1>2 DEF TypeOK, Dial, ResetClosing, States
      <3>2. \/ UNCHANGED <<ws, created, phase>>
            \/ /\ created < MaxSockets /\ created' = created + 1 /\ ws' = created'
               /\ phase' = [phase EXCEPT ![created'] = "opening"]
        BY <1>2 DEF Dial
      <3>3. created' \in 0 .. MaxSockets /\ ws' \in 0 .. MaxSockets
        BY <3>2, StreamBounds DEF TypeOK
      <3>4. phase' \in [Sockets -> Phases]
        BY <3>2 DEF TypeOK, Phases
      <3> QED  BY <3>1, <3>3, <3>4
    <2>2. TypeOK'
      BY <1>2, <2>0, <2>1 DEF TypeOK, Dial, Go, Rest, Working
    <2>3. Budget' /\ FlagHonest'
      BY <1>2, <2>0, BudgetKept, FlagKept DEF Dial, Go
    <2> QED  BY <2>2, <2>3
  <1> QED  BY <1>1, <1>2

\* Where a thread is when its call returns or raises: a place that keeps the
\* flag and the budget.
LEMMA After ==
    ASSUME TypeOK, NEW t \in Threads, NEW p, p \in {AfterReturn(t), AfterRaise(t)}
    PROVE  /\ p \in Rest \cup Working
           /\ t \in Workers => /\ p \notin {"off", "report", "done"}
                               /\ p = "sleeping" => tries[t] < MaxRetries
  BY Kinds DEF AfterReturn, AfterRaise, Rest, Working

LEMMA SubscriptionStep ==
    ASSUME StreamInv, NEW t \in Threads,
           Subscribe(t) \/ Unsubscribe(t) \/ Send(t) \/ Resend(t) \/ SkipResend(t)
    PROVE  StreamInv'
  <1> USE DEF StreamInv
  <1>1. CASE Subscribe(t)
    <2>1. TypeOK'
      BY <1>1 DEF TypeOK, Subscribe, Go, Working, net
    <2>2. Budget' /\ FlagHonest'
      BY <1>1, BudgetKept, FlagKept DEF Subscribe, Go
    <2> QED  BY <2>1, <2>2
  <1>2. CASE Unsubscribe(t)
    <2>1. TypeOK'
      BY <1>2 DEF TypeOK, Unsubscribe, Remaining, Go, Working, net
    <2>2. Budget' /\ FlagHonest'
      BY <1>2, BudgetKept, FlagKept DEF Unsubscribe, Go
    <2> QED  BY <2>1, <2>2
  <1>3. CASE Send(t)
    <2>0. PICK p \in {AfterReturn(t), AfterRaise(t)} : Go(t, p)
      BY <1>3 DEF Send
    <2>1. served' \in [Sockets -> SUBSET Symbols]
      BY <1>3, StreamBounds DEF Send, Serve, TypeOK, Sockets
    <2>2. TypeOK'
      BY <1>3, <2>0, <2>1, After DEF TypeOK, Send, Go, client, world
    <2>3. Budget' /\ FlagHonest'
      BY <1>3, <2>0, After, BudgetKept, FlagKept DEF Send, Go, client
    <2> QED  BY <2>2, <2>3
  <1>4. CASE Resend(t)
    <2>1. TypeOK'
      BY <1>4 DEF TypeOK, Resend, Go, Working, client, net, world
    <2>2. Budget' /\ FlagHonest'
      BY <1>4, BudgetKept, FlagKept DEF Resend, Go, client
    <2> QED  BY <2>1, <2>2
  <1>5. CASE SkipResend(t)
    <2>0. PICK p \in {AfterReturn(t), AfterRaise(t)} : Go(t, p)
      BY <1>5 DEF SkipResend
    <2>1. TypeOK'
      BY <1>5, <2>0, After DEF TypeOK, SkipResend, Go, client, net, world
    <2>2. Budget' /\ FlagHonest'
      BY <1>5, <2>0, After, BudgetKept, FlagKept DEF SkipResend, Go, client
    <2> QED  BY <2>1, <2>2
  <1> QED  BY <1>1, <1>2, <1>3, <1>4, <1>5

LEMMA AttemptStep ==
    ASSUME StreamInv, NEW t \in Threads, t \notin Workers, Attempt(t) \/ Spawn(t)
    PROVE  StreamInv'
  <1> USE DEF StreamInv
  <1>1. CASE Attempt(t)
    <2>0. PICK p \in {"idle", "spawn"} : Go(t, p)
      BY <1>1 DEF Attempt
    <2>1. TypeOK'
      BY <1>1, <2>0 DEF TypeOK, Attempt, Go, Rest, Working, client, net, world
    <2>2. Budget' /\ FlagHonest'
      BY <1>1, <2>0, BudgetKept, FlagKept DEF Attempt, Go, client
    <2> QED  BY <2>1, <2>2
  <1>2. CASE Spawn(t)
    <2>0. PICK w \in Workers : /\ NextWorker(w)
                               /\ pc' = [pc EXCEPT ![t] = "idle", ![w] = "sleeping"]
      BY <1>2 DEF Spawn
    <2>1. w \in Threads /\ w # t /\ pc[w] = "off" /\ tries' = tries
      BY <1>2, <2>0, Kinds DEF NextWorker, At, Spawn
    <2>2. TypeOK'
      BY <1>2, <2>0, <2>1 DEF TypeOK, Spawn, Rest, States, net, world
    <2>3. Budget'
      BY <2>0, <2>1, Kinds, StreamBounds DEF TypeOK, Budget
    <2>4. FlagHonest'
      BY <2>0, <2>1 DEF TypeOK, FlagHonest, Reconnects
    <2> QED  BY <2>2, <2>3, <2>4
  <1> QED  BY <1>1, <1>2

-----------------------------------------------------------------------------
(* Callbacks of a socket.                                                  *)

LEMMA EventStep ==
    ASSUME StreamInv, NEW i \in Sockets, NEW from, NEW to \in Phases, NEW handler \in Working,
           Event(i, from, to, handler), NoFault \/ Fault,
           loggedOut' \in BOOLEAN
    PROVE  StreamInv'
  <1> USE DEF StreamInv
  <1>0. i \in Threads /\ i \notin Workers
    BY Kinds
  <1>1. PICK p \in Rest \cup Working : Go(i, p)
    <2>1. CASE ws = i
      BY <2>1 DEF Event, Deliver
    <2>2. CASE ws # i
      <3>1. pc[i] \in Rest \cup Working
        BY <1>0 DEF TypeOK
      <3>2. Go(i, pc[i])
        BY <2>2, <1>0 DEF Event, Deliver, Go, TypeOK
      <3> QED  BY <3>1, <3>2
    <2> QED  BY <2>1, <2>2
  <1>2. TypeOK'
    BY <1>0, <1>1, StreamBounds DEF TypeOK, Event, Go, NoFault, Fault, client
  <1>3. Budget' /\ FlagHonest'
    BY <1>0, <1>1, BudgetKept, FlagKept DEF Event, Go, client
  <1> QED  BY <1>2, <1>3

LEMMA NetworkStep ==
    ASSUME StreamInv, NEW i \in Sockets, Progress(i) \/ Trouble(i)
    PROVE  StreamInv'
  <1>1. loggedOut \in BOOLEAN
    BY DEF StreamInv, TypeOK
  <1>2. {"open", "authed", "gone", "denied", "loggedout"} \subseteq Phases
    BY DEF Phases
  <1>3. {"login", "accept", "on_close", "deny", "logout", "fail"} \subseteq Working
    BY DEF Working
  <1>4. CASE Opened(i)
    BY <1>1, <1>2, <1>3, <1>4, EventStep DEF Opened
  <1>5. CASE LoginOk(i)
    BY <1>1, <1>2, <1>3, <1>5, EventStep DEF LoginOk
  <1>6. CASE ClientClosed(i)
    BY <1>1, <1>2, <1>3, <1>6, EventStep DEF ClientClosed
  <1>7. CASE LoginDenied(i)
    BY <1>1, <1>2, <1>3, <1>7, EventStep DEF LoginDenied
  <1>8. CASE Logout(i)
    BY <1>1, <1>2, <1>3, <1>8, EventStep DEF Logout
  <1>9. CASE Break(i)
    BY <1>1, <1>2, <1>3, <1>9, EventStep DEF Break
  <1>10. CASE ServerClose(i)
    BY <1>1, <1>2, <1>3, <1>10, EventStep DEF ServerClose
  <1> QED  BY <1>4, <1>5, <1>6, <1>7, <1>8, <1>9, <1>10 DEF Progress, Trouble

LEMMA CallbackStep ==
    ASSUME StreamInv, NEW i \in Sockets,
           \/ Login(i) \/ Accept(i) \/ Deny(i) \/ HandleLogout(i) \/ OnError(i) \/ Fail(i)
           \/ HandleClose(i)
    PROVE  StreamInv'
  <1> USE DEF StreamInv
  <1>0. i \in Threads /\ i \notin Workers
    BY Kinds
  <1>1. CASE Login(i)
    <2>0. PICK p \in {"idle", "fail"} : Go(i, p)
      BY <1>1 DEF Login
    <2>1. TypeOK'
      BY <1>0, <1>1, <2>0 DEF TypeOK, Login, Go, Rest, Working, Phases, client, world
    <2>2. Budget' /\ FlagHonest'
      BY <1>0, <1>1, <2>0, BudgetKept, FlagKept DEF Login, Go, client
    <2> QED  BY <2>1, <2>2
  <1>2. CASE Accept(i)
    <2>0. PICK p \in {"idle", "resubscribe"} : Go(i, p)
      BY <1>2 DEF Accept, Restore
    <2>1. TypeOK'
      BY <1>0, <1>2, <2>0 DEF TypeOK, Accept, Go, Rest, Working, States, net, world
    <2>2. Budget' /\ FlagHonest'
      BY <1>0, <1>2, <2>0, BudgetKept, FlagKept DEF Accept, Go
    <2> QED  BY <2>1, <2>2
  <1>3. CASE Deny(i)
    <2>1. TypeOK'
      BY <1>0, <1>3 DEF TypeOK, Deny, Go, Rest, States, net, world
    <2>2. Budget' /\ FlagHonest'
      BY <1>0, <1>3, BudgetKept, FlagKept DEF Deny, Go
    <2> QED  BY <2>1, <2>2
  <1>4. CASE HandleLogout(i)
    <2>1. TypeOK'
      BY <1>0, <1>4 DEF TypeOK, HandleLogout, Go, Working, States, net, world
    <2>2. Budget' /\ FlagHonest'
      BY <1>0, <1>4, BudgetKept, FlagKept DEF HandleLogout, Go
    <2> QED  BY <2>1, <2>2
  <1>5. CASE OnError(i)
    <2>0. PICK p \in {"idle", "fail"} : Go(i, p)
      BY <1>5 DEF OnError
    <2>1. TypeOK'
      BY <1>0, <1>5, <2>0 DEF TypeOK, OnError, Go, Rest, Working, client, net, world
    <2>2. Budget' /\ FlagHonest'
      BY <1>0, <1>5, <2>0, BudgetKept, FlagKept DEF OnError, Go, client
    <2> QED  BY <2>1, <2>2
  <1>6. CASE Fail(i)
    <2>1. TypeOK'
      BY <1>0, <1>6, CleanupTypes DEF TypeOK, Fail, Go, Working, States, world
    <2>2. Budget' /\ FlagHonest'
      BY <1>0, <1>6, BudgetKept, FlagKept DEF Fail, Go
    <2> QED  BY <2>1, <2>2
  <1>7. CASE HandleClose(i)
    <2>0. PICK p \in {"idle", "attempt"} : Go(i, p)
      BY <1>7 DEF HandleClose
    <2>1. phase' \in [Sockets -> Phases] /\ ws' \in 0 .. MaxSockets
      BY <1>7, ShutTypes, StreamBounds DEF TypeOK, HandleClose
    <2>2. TypeOK'
      BY <1>0, <1>7, <2>0, <2>1 DEF TypeOK, HandleClose, Go, Rest, Working, States, world
    <2>3. Budget' /\ FlagHonest'
      BY <1>0, <1>7, <2>0, BudgetKept, FlagKept DEF HandleClose, Go
    <2> QED  BY <2>2, <2>3
  <1> QED  BY <1>1, <1>2, <1>3, <1>4, <1>5, <1>6, <1>7

-----------------------------------------------------------------------------
(* Workers.                                                                *)

LEMMA WorkerOwnStep ==
    ASSUME StreamInv, NEW w \in Workers, Wake(w) \/ FinishWorker(w) \/ Down(w) \/ Report(w)
    PROVE  StreamInv'
  <1> USE DEF StreamInv
  <1>0. w \in Threads
    BY Kinds
  <1>1. CASE Wake(w)
    <2>0. PICK p \in {"connect", "down"} : Go(w, p)
      BY <1>1 DEF Wake
    <2>1. tries[w] < MaxRetries /\ tries[w] \in 0 .. MaxRetries
      BY <1>1 DEF Wake, At, Budget, TypeOK
    <2>2. tries' \in [Workers -> 0 .. MaxRetries]
      BY <1>1, <2>1, StreamBounds DEF Wake, TypeOK
    <2>3. TypeOK'
      <3>1. state' \in States /\ token' \in BOOLEAN
        BY <1>1 DEF TypeOK, Wake, States
      <3>2. pc' \in [Threads -> Rest \cup Working]
        BY <1>0, <2>0 DEF TypeOK, Go, Working
      <3> QED  BY <1>1, <2>2, <3>1, <3>2 DEF TypeOK, Wake, net
    <2>4. Budget'
      BY <1>0, <1>1, <2>0, Kinds DEF Wake, Go, Budget, TypeOK
    <2>5. FlagHonest'
      BY <1>0, <1>1, <2>0, FlagKept DEF Wake, Go
    <2> QED  BY <2>3, <2>4, <2>5
  <1>2. CASE FinishWorker(w)
    <2>1. TypeOK'
      BY <1>0, <1>2 DEF TypeOK, FinishWorker, ClearFlag, Go, Rest, net, world
    <2>2. Budget' /\ FlagHonest'
      BY <1>0, <1>2, BudgetKept DEF FinishWorker, ClearFlag, Go, FlagHonest
    <2> QED  BY <2>1, <2>2
  <1>3. CASE Down(w)
    <2>1. TypeOK'
      BY <1>0, <1>3 DEF TypeOK, Down, ClearFlag, Go, Working, States, net, world
    <2>2. Budget' /\ FlagHonest'
      BY <1>0, <1>3, BudgetKept DEF Down, ClearFlag, Go, FlagHonest
    <2> QED  BY <2>1, <2>2
  <1>4. CASE Report(w)
    <2>1. TypeOK'
      BY <1>0, <1>4 DEF TypeOK, Report, Go, Rest, States, net, world
    <2>2. Budget' /\ FlagHonest'
      BY <1>0, <1>4, BudgetKept, FlagKept DEF Report, Go, Reconnects, At
    <2> QED  BY <2>1, <2>2
  <1> QED  BY <1>1, <1>2, <1>3, <1>4

-----------------------------------------------------------------------------
(* Every step, and the theorems.                                           *)

LEMMA StreamStep == StreamInv /\ [Next]_vars => StreamInv'
  <1> SUFFICES ASSUME StreamInv, [Next]_vars PROVE StreamInv'
    OBVIOUS
  <1>1. CASE \E c \in Callers : CallerStart(c) \/ CallerStep(c)
    <2> PICK c \in Callers : CallerStart(c) \/ CallerStep(c)
      BY <1>1
    <2>0. c \in Threads /\ c \notin Workers
      BY Kinds
    <2>1. CASE CallerStart(c)
      BY <2>1, CallerStartStep
    <2>2. CASE CallerStep(c)
      BY <2>0, <2>2, CallerOwnStep, SubscriptionStep, ConnectStep, AttemptStep DEF CallerStep
    <2> QED  BY <2>1, <2>2
  <1>2. CASE \E i \in Sockets : Progress(i) \/ Trouble(i) \/ SocketStep(i)
    <2> PICK i \in Sockets : Progress(i) \/ Trouble(i) \/ SocketStep(i)
      BY <1>2
    <2>0. i \in Threads /\ i \notin Workers
      BY Kinds
    <2>1. CASE Progress(i) \/ Trouble(i)
      BY <2>1, NetworkStep
    <2>2. CASE SocketStep(i)
      BY <2>0, <2>2, CallbackStep, SubscriptionStep, AttemptStep DEF SocketStep
    <2> QED  BY <2>1, <2>2
  <1>3. CASE \E w \in Workers : WorkerStep(w)
    <2> PICK w \in Workers : WorkerStep(w)
      BY <1>3
    <2>0. w \in Threads
      BY Kinds
    <2> QED  BY <2>0, WorkerOwnStep, ConnectStep, SubscriptionStep DEF WorkerStep
  <1>4. CASE TokenLost
    BY <1>4, TokenLostStep
  <1>5. CASE UNCHANGED vars
    BY <1>5 DEF StreamInv, TypeOK, Budget, FlagHonest, Reconnects,
                vars, client, net, local, world
  <1> QED  BY <1>1, <1>2, <1>3, <1>4, <1>5 DEF Next

THEOREM StreamInvariant == Spec => []StreamInv
  <1>1. Init => StreamInv
    BY InitStream
  <1>2. StreamInv /\ [Next]_vars => StreamInv'
    BY StreamStep
  <1> QED  BY <1>1, <1>2, PTL DEF Spec

\* Types, and no worker makes more than _max_retries attempts
\* (_attempt_reconnect's loop condition).
THEOREM StreamTypeCorrect == Spec => []TypeOK
  <1>1. StreamInv => TypeOK
    BY DEF StreamInv
  <1> QED  BY <1>1, StreamInvariant, PTL

\* _reconnecting is never left set without a worker that will clear it,
\* although nothing guards the flag (_attempt_reconnect).
THEOREM FlagIsHonest == Spec => []FlagHonest
  <1>1. StreamInv => FlagHonest
    BY DEF StreamInv
  <1> QED  BY <1>1, StreamInvariant, PTL

-----------------------------------------------------------------------------
(* One method or callback at a time.  SerialSpec lets a thread move only    *)
(* while every other one rests, so what a step has left to do is known from *)
(* where its thread is: SerialInv says, for every such place, what holds of *)
(* the client's fields, its sockets and what the runtime asked for.         *)

\* Where a call is under way that will replace, drop or restore the stream.
Dialling == {"connect", "dial"}
Dropping == {"fail", "on_close"}
Starting == {"attempt", "spawn"}
Restoring == {"resubscribe", "send"}
Forcing == {"force"}
Reporting == {"report"}

Under(places) == \E t \in Threads : pc[t] \in places
NoSleeper == \A w \in Workers : pc[w] # "sleeping"

\* Each kind of thread runs the methods of its kind; in particular a socket's
\* thread never sends on a socket that is not open, and so never raises.
CallerPlaces == {"idle", "connect", "dial", "subscribe", "resubscribe", "send", "unsubscribe",
                 "send_unsub", "resend", "disconnect", "listen", "force", "attempt", "spawn"}
SocketPlaces == {"idle", "login", "accept", "deny", "logout", "fail", "on_close",
                 "resubscribe", "send", "attempt", "spawn"}
WorkerPlaces == {"off", "sleeping", "connect", "dial", "resub", "resubscribe", "send", "finish",
                 "down", "report", "done"}

Placed ==
    /\ \A c \in Callers : pc[c] \in CallerPlaces
    /\ \A i \in Sockets : pc[i] \in SocketPlaces
    /\ \A w \in Workers : pc[w] \in WorkerPlaces

OneAtWork == \A t \in Threads : ~Quietly(t) => Alone(t)

\* At most one worker is under way, and the flag says so.
OneWorker ==
    \A w \in Workers : Reconnects(w) => reconnecting /\ \A v \in Workers : Reconnects(v) => v = w

\* Before the runtime opens the stream nothing has happened.
Unopened ==
    owner = "new" =>
        /\ Still /\ NoSleeper
        /\ ws = 0 /\ ~connected /\ ~closing /\ ~loggedOut
        /\ \A i \in Sockets : phase[i] = "unused"

\* The server streams nothing on a socket that has not logged in.
Fresh ==
    /\ ws <= created
    /\ \A i \in Sockets :
          i > created \/ phase[i] \in {"opening", "open", "login"} => served[i] = {}

Asked == desired = wish

\* What a call under way carries.
Told ==
    \A t \in Threads :
        /\ pc[t] \in {"subscribe", "resubscribe", "send"} => syms[t] # {}
        /\ pc[t] \in Restoring => syms[t] = desired
        /\ pc[t] = "send_unsub" => desired \cap syms[t] = {}
        /\ pc[t] = "listen" => token
        /\ pc[t] = "disconnect" => owner = "closed"
        /\ pc[t] = "spawn" => ~reconnecting

\* A callback runs for the current socket, in the phase its event left.
Current ==
    \A i \in Sockets :
        pc[i] \notin {"idle", "attempt", "spawn"} =>
            /\ ws = i
            /\ pc[i] = "login" => phase[i] = "open"
            /\ pc[i] = "accept" => phase[i] = "authed" /\ served[i] = {}
            /\ pc[i] = "deny" => phase[i] = "denied"
            /\ pc[i] = "logout" => phase[i] = "loggedout" /\ loggedOut
            /\ pc[i] \in Dropping => phase[i] = "gone"
            /\ pc[i] \in Restoring => phase[i] = "authed" /\ connected

\* A new socket is made, and a worker waits, only when there is no connection.
Waiting ==
    ~loggedOut =>
        /\ ~NoSleeper => ws = 0 /\ ~connected /\ state # "CONNECTED"
        /\ Under(Dialling) => ~connected /\ NoSleeper /\ (ws # 0 => phase[ws] \notin Live)
        /\ Under(Forcing) => NoSleeper
        /\ Under(Starting) => ws = 0 /\ ~connected /\ NoSleeper
        /\ \A w \in Workers : ~Quietly(w) => ~connected

\* _closing is set on a stream the runtime holds only while connect() is about
\* to reset it, with a token at hand.
Shutting == closing /\ owner = "open" => token /\ Under(Dialling)

InTouch ==
    connected /\ ~loggedOut =>
        /\ ws # 0
        /\ phase[ws] = "authed" \/ Under(Dropping)
        /\ \/ served[ws] = desired
           \/ Under(Dropping) \/ Under(Restoring)
           \/ \E t \in Threads : pc[t] = "send_unsub" /\ served[ws] \ syms[t] = desired

OneLive == ~loggedOut => \A i \in Sockets : phase[i] \in Live => i = ws

Linked == ws # 0 /\ phase[ws] \in Live

Held ==
    owner = "open" =>
        /\ \/ Linked \/ reconnecting \/ state \in {"AUTH_REQUIRED", "STREAM_DOWN"}
           \/ Under(Dialling) \/ Under(Dropping) \/ Under(Starting) \/ Under(Reporting)
        /\ ws # 0 => phase[ws] \in Live \/ (closing /\ Under(Dialling)) \/ Under(Dropping)
        /\ \A w \in Workers : pc[w] \in {"resub", "resubscribe", "send", "finish"} =>
              Linked \/ state = "AUTH_REQUIRED"

Agreed ==
    /\ Placed /\ OneAtWork /\ OneWorker /\ Unopened /\ Fresh /\ Asked /\ Told
    /\ Current /\ Waiting /\ Shutting /\ InTouch /\ OneLive /\ Held

SerialInv == StreamInv /\ Agreed

\* Where a thread may be sent: a place of its kind.
Fits(t, p) ==
    /\ t \in Callers => p \in CallerPlaces
    /\ t \in Sockets => p \in SocketPlaces
    /\ t \in Workers => p \in WorkerPlaces

\* Only the thread that moves is at work, before the step and after it.
LEMMA Mover ==
    ASSUME SerialInv, NEW t \in Threads, Alone(t)
    PROVE  /\ \A u \in Threads : u # t => pc[u] \in Rest
           /\ Under(Dialling) <=> pc[t] \in Dialling
           /\ Under(Dropping) <=> pc[t] \in Dropping
           /\ Under(Starting) <=> pc[t] \in Starting
           /\ Under(Restoring) <=> pc[t] \in Restoring
           /\ Under(Forcing) <=> pc[t] \in Forcing
           /\ Under(Reporting) <=> pc[t] \in Reporting
  <1>1. \A u \in Threads : u # t => pc[u] \in Rest
    BY DEF Alone, Quietly
  <1> QED  BY <1>1 DEF Under, Rest, Dialling, Dropping, Starting, Restoring, Forcing, Reporting

LEMMA Moved ==
    ASSUME SerialInv, NEW t \in Threads, Alone(t), NEW q, Fits(t, q),
           pc' = [pc EXCEPT ![t] = q]
    PROVE  /\ Placed' /\ OneAtWork'
           /\ pc'[t] = q /\ \A u \in Threads : u # t => pc'[u] = pc[u] /\ pc[u] \in Rest
           /\ \A i \in Sockets : i # t => pc'[i] = "idle"
           /\ Under(Dialling)' <=> q \in Dialling
           /\ Under(Dropping)' <=> q \in Dropping
           /\ Under(Starting)' <=> q \in Starting
           /\ Under(Restoring)' <=> q \in Restoring
           /\ Under(Forcing)' <=> q \in Forcing
           /\ Under(Reporting)' <=> q \in Reporting
           /\ (pc[t] # "sleeping" /\ q # "sleeping") => (NoSleeper' <=> NoSleeper)
  <1>1. pc \in [Threads -> Rest \cup Working]
    BY DEF SerialInv, StreamInv, TypeOK
  <1>2. /\ pc'[t] = q
        /\ \A u \in Threads : u # t => pc'[u] = pc[u] /\ pc[u] \in Rest
    BY <1>1 DEF Alone, Quietly
  <1>3. Placed' /\ \A i \in Sockets : i # t => pc'[i] = "idle"
    <2>1. Placed'
      BY <1>2, Kinds DEF SerialInv, Agreed, Placed, Fits
    <2>2. \A i \in Sockets : i # t => pc[i] \in SocketPlaces \cap Rest /\ pc'[i] = pc[i]
      BY <1>2, Kinds DEF SerialInv, Agreed, Placed
    <2> QED  BY <2>1, <2>2 DEF SocketPlaces, Rest
  <1>4. OneAtWork'
    BY <1>2 DEF OneAtWork, Alone, Quietly
  <1>5. /\ Under(Dialling)' <=> q \in Dialling
        /\ Under(Dropping)' <=> q \in Dropping
        /\ Under(Starting)' <=> q \in Starting
        /\ Under(Restoring)' <=> q \in Restoring
        /\ Under(Forcing)' <=> q \in Forcing
        /\ Under(Reporting)' <=> q \in Reporting
    BY <1>2 DEF Under, Rest, Dialling, Dropping, Starting, Restoring, Forcing, Reporting
  <1>6. (pc[t] # "sleeping" /\ q # "sleeping") => (NoSleeper' <=> NoSleeper)
    BY <1>2, Kinds DEF NoSleeper
  <1> QED  BY <1>2, <1>3, <1>4, <1>5, <1>6

\* A step of the worker that is under way, or of no worker, leaves one worker.
LEMMA WorkersKept ==
    ASSUME SerialInv, NEW t \in Threads, Alone(t), NEW q, reconnecting' = reconnecting,
           pc' = [pc EXCEPT ![t] = q],
           t \in Workers => Reconnects(t) \/ q \in {"off", "report", "done"}
    PROVE  OneWorker'
  <1>1. pc \in [Threads -> Rest \cup Working]
    BY DEF SerialInv, StreamInv, TypeOK
  <1>2. \A w \in Workers : Reconnects(w)' => Reconnects(w)
    BY <1>1, Kinds DEF Reconnects
  <1> QED  BY <1>2 DEF SerialInv, Agreed, OneWorker

-----------------------------------------------------------------------------
(* Calls of the runtime.                                                   *)

LEMMA OpenAgrees ==
    ASSUME SerialInv, NEW c \in Callers, Alone(c), Open(c)
    PROVE  Agreed'
  <1> USE DEF SerialInv, Agreed
  <1>0. c \in Threads /\ c \notin Workers /\ c \notin Sockets
    BY Kinds
  <1>1. /\ owner = "new" /\ owner' = "open" /\ desired' = wish' /\ pc[c] = "idle"
        /\ pc' = [pc EXCEPT ![c] = "connect"]
        /\ UNCHANGED <<ws, connected, closing, connecting, reconnecting, state, created, token,
                       tries, loggedOut, phase, served>>
    BY DEF Open, Call, Go, At, net
  <1>2. Fits(c, "connect")
    BY <1>0 DEF Fits, CallerPlaces
  <1>3. /\ Placed' /\ OneAtWork'
        /\ pc'[c] = "connect" /\ \A u \in Threads : u # c => pc'[u] = pc[u] /\ pc[u] \in Rest
        /\ Under(Dialling)'
        /\ ~Under(Dropping)' /\ ~Under(Starting)' /\ ~Under(Forcing)'
        /\ NoSleeper' <=> NoSleeper
    BY <1>0, <1>1, <1>2, Moved DEF Dialling, Dropping, Starting, Forcing
  <1>4. OneWorker'
    BY <1>0, <1>1, WorkersKept
  <1>5. Unopened' /\ Asked' /\ Fresh'
    BY <1>1 DEF Unopened, Asked, Fresh
  <1>6. Told' /\ Current'
    BY <1>0, <1>1, <1>3 DEF Told, Current, Rest, Restoring, Dropping, Placed, SocketPlaces
  <1>7. Waiting' /\ Shutting'
    BY <1>0, <1>1, <1>3, Kinds DEF Waiting, Shutting, Unopened, Quietly
  <1>8. InTouch' /\ OneLive'
    BY <1>1 DEF InTouch, OneLive, Unopened
  <1>9. Held'
    BY <1>1, <1>3, Kinds DEF Held, Unopened, Rest
  <1> QED  BY <1>3, <1>4, <1>5, <1>6, <1>7, <1>8, <1>9

LEMMA UseAgrees ==
    ASSUME SerialInv, NEW c \in Callers, Alone(c), Use(c)
    PROVE  Agreed'
  <1> USE DEF SerialInv, Agreed
  <1>0. c \in Threads /\ c \notin Workers /\ c \notin Sockets
    BY Kinds
  <1>1. PICK q \in {"subscribe", "unsubscribe", "resend", "force"}, S \in SUBSET Symbols :
          /\ pc' = [pc EXCEPT ![c] = q] /\ syms' = [syms EXCEPT ![c] = S]
          /\ q = "subscribe" => S # {}
          /\ q = "force" => connected
    <2>1. PICK q \in {"subscribe", "unsubscribe", "resend", "force"}, S \in SUBSET Symbols :
            Call(c, q, S) /\ (q = "subscribe" => S # {}) /\ (q = "force" => connected)
      <3>1. CASE \E S \in (SUBSET Symbols) \ {{}} : Call(c, "subscribe", S)
        BY <3>1
      <3>2. CASE \E s \in Symbols : Call(c, "unsubscribe", {s})
        BY <3>2
      <3>3. CASE connected /\ (Call(c, "resend", {}) \/ Call(c, "force", {}))
        BY <3>3
      <3> QED  BY <3>1, <3>2, <3>3 DEF Use
    <2> QED  BY <2>1 DEF Call, Go
  <1>2. /\ pc[c] = "idle"
        /\ UNCHANGED <<ws, connected, closing, connecting, reconnecting, state, desired, created,
                       token, owner, wish, tries, loggedOut, phase, served>>
    BY DEF Use, Call, At, net, client
  <1>3. /\ Placed' /\ OneAtWork'
        /\ pc'[c] = q /\ \A u \in Threads : u # c => pc'[u] = pc[u] /\ pc[u] \in Rest
        /\ ~Under(Dialling)' /\ ~Under(Dropping)' /\ ~Under(Starting)'
        /\ Under(Forcing)' <=> q = "force"
        /\ NoSleeper' <=> NoSleeper
    <2>1. Fits(c, q)
      BY <1>0 DEF Fits, CallerPlaces
    <2> QED  BY <1>0, <1>1, <1>2, <2>1, Moved DEF Dialling, Dropping, Starting, Forcing
  <1>4. /\ ~Under(Dialling) /\ ~Under(Dropping) /\ ~Under(Starting) /\ ~Under(Restoring)
        /\ ~Under(Reporting)
    BY <1>0, <1>2, Mover DEF Dialling, Dropping, Starting, Restoring, Reporting
  <1>5. OneWorker'
    BY <1>0, <1>1, <1>2, WorkersKept
  <1>6. Unopened' /\ Asked' /\ Fresh'
    BY <1>2 DEF Unopened, Asked, Fresh, Use
  <1>7. Told' /\ Current'
    BY <1>0, <1>1, <1>2, <1>3 DEF Told, Current, Rest, Restoring, Dropping, TypeOK, StreamInv
  <1>8. Waiting' /\ Shutting'
    BY <1>0, <1>1, <1>2, <1>3, <1>4, Kinds DEF Waiting, Shutting, Quietly
  <1>9. InTouch' /\ OneLive'
    BY <1>2, <1>3, <1>4 DEF InTouch, OneLive, Rest
  <1>10. Held'
    BY <1>0, <1>2, <1>3, <1>4, Kinds DEF Held, Linked, Rest
  <1> QED  BY <1>3, <1>5, <1>6, <1>7, <1>8, <1>9, <1>10

LEMMA CloseAgrees ==
    ASSUME SerialInv, NEW c \in Callers, Alone(c), Close(c)
    PROVE  Agreed'
  <1> USE DEF SerialInv, Agreed
  <1>0. c \in Threads /\ c \notin Workers /\ c \notin Sockets
    BY Kinds
  <1>1. /\ owner' = "closed" /\ pc[c] = "idle" /\ pc' = [pc EXCEPT ![c] = "disconnect"]
        /\ UNCHANGED <<ws, connected, closing, connecting, reconnecting, state, desired, created,
                       token, wish, tries, loggedOut, phase, served>>
        /\ syms' = [syms EXCEPT ![c] = {}]
    BY DEF Close, Call, Go, At, net, client
  <1>2. /\ Placed' /\ OneAtWork'
        /\ pc'[c] = "disconnect" /\ \A u \in Threads : u # c => pc'[u] = pc[u] /\ pc[u] \in Rest
        /\ ~Under(Dialling)' /\ ~Under(Starting)' /\ ~Under(Forcing)'
        /\ NoSleeper' <=> NoSleeper
    <2>1. Fits(c, "disconnect")
      BY <1>0 DEF Fits, CallerPlaces
    <2> QED  BY <1>0, <1>1, <2>1, Moved DEF Dialling, Starting, Forcing
  <1>3. ~Under(Dropping) /\ ~Under(Restoring)
    BY <1>0, <1>1, Mover DEF Dropping, Restoring
  <1>4. OneWorker'
    BY <1>0, <1>1, WorkersKept
  <1>5. Unopened' /\ Asked' /\ Fresh' /\ Shutting' /\ OneLive' /\ Held'
    BY <1>1 DEF Unopened, Asked, Fresh, Shutting, OneLive, Held
  <1>6. Told' /\ Current'
    BY <1>0, <1>1, <1>2 DEF Told, Current, Rest, Restoring
  <1>7. Waiting'
    BY <1>0, <1>1, <1>2, Kinds DEF Waiting, Quietly
  <1>8. InTouch'
    BY <1>1, <1>2, <1>3 DEF InTouch, Rest
  <1> QED  BY <1>2, <1>4, <1>5, <1>6, <1>7, <1>8

LEMMA TokenRefreshedAgrees ==
    ASSUME SerialInv, NEW c \in Callers, Alone(c), TokenRefreshed(c)
    PROVE  Agreed'
  <1> USE DEF SerialInv, Agreed
  <1>0. c \in Threads /\ c \notin Workers /\ c \notin Sockets
    BY Kinds
  <1>1. /\ owner # "new" /\ token' /\ pc[c] = "idle" /\ pc' = [pc EXCEPT ![c] = "listen"]
        /\ UNCHANGED <<ws, connected, closing, connecting, reconnecting, state, desired, created,
                       owner, wish, tries, loggedOut, phase, served>>
        /\ syms' = [syms EXCEPT ![c] = {}]
    BY DEF TokenRefreshed, Call, Go, At, net, client
  <1>2. /\ Placed' /\ OneAtWork'
        /\ pc'[c] = "listen" /\ \A u \in Threads : u # c => pc'[u] = pc[u] /\ pc[u] \in Rest
        /\ ~Under(Dialling)' /\ ~Under(Starting)' /\ ~Under(Forcing)'
        /\ NoSleeper' <=> NoSleeper
    <2>1. Fits(c, "listen")
      BY <1>0 DEF Fits, CallerPlaces
    <2> QED  BY <1>0, <1>1, <2>1, Moved DEF Dialling, Starting, Forcing
  <1>3. /\ ~Under(Dialling) /\ ~Under(Dropping) /\ ~Under(Starting) /\ ~Under(Restoring)
        /\ ~Under(Reporting)
    BY <1>0, <1>1, Mover DEF Dialling, Dropping, Starting, Restoring, Reporting
  <1>4. OneWorker'
    BY <1>0, <1>1, WorkersKept
  <1>5. Unopened' /\ Asked' /\ Fresh' /\ OneLive'
    BY <1>1 DEF Unopened, Asked, Fresh, OneLive
  <1>6. Told' /\ Current'
    BY <1>0, <1>1, <1>2 DEF Told, Current, Rest, Restoring
  <1>7. Waiting' /\ Shutting'
    BY <1>0, <1>1, <1>2, <1>3, Kinds DEF Waiting, Shutting, Quietly
  <1>8. InTouch'
    BY <1>1, <1>2, <1>3 DEF InTouch, Rest
  <1>9. Held'
    BY <1>0, <1>1, <1>2, <1>3, Kinds DEF Held, Linked, Rest
  <1> QED  BY <1>2, <1>4, <1>5, <1>6, <1>7, <1>8, <1>9

LEMMA TokenLostAgrees ==
    ASSUME SerialInv, Still, TokenLost
    PROVE  Agreed'
  <1> USE DEF SerialInv, Agreed
  <1>1. UNCHANGED <<ws, connected, closing, connecting, reconnecting, state, desired, created,
                    phase, served, pc, syms, tries, owner, wish, loggedOut>>
    BY DEF TokenLost, client, net, local
  <1>2. ~Under(Dialling)
    BY DEF Under, Dialling, Still, Quietly, Rest
  <1>3. \A t \in Threads : pc[t] # "listen"
    BY DEF Still, Quietly, Rest
  <1>4. Placed' /\ OneAtWork' /\ OneWorker' /\ Unopened' /\ Fresh' /\ Asked' /\ Current'
    BY <1>1 DEF Placed, OneAtWork, Alone, Quietly, OneWorker, Reconnects, Unopened, Still,
                NoSleeper, Fresh, Asked, Current
  <1>5. Waiting' /\ InTouch' /\ OneLive' /\ Held'
    BY <1>1 DEF Waiting, InTouch, OneLive, Held, Under, NoSleeper, Linked, Quietly
  <1>6. Told' /\ Shutting'
    BY <1>1, <1>2, <1>3 DEF Told, Shutting, Under
  <1> QED  BY <1>4, <1>5, <1>6

LEMMA ShutSockets ==
    ASSUME SerialInv, NEW i, Shut(i)
    PROVE  \A j \in Sockets :
              phase'[j] = IF j = i /\ phase[j] \in Live THEN "closing" ELSE phase[j]
  BY DEF SerialInv, StreamInv, TypeOK, Shut

\* disconnect() closes the current socket and no other.
LEMMA CloseStreamSockets ==
    ASSUME SerialInv, CloseStream
    PROVE  /\ \A j \in Sockets : phase'[j] = phase[j] \/ (j = ws /\ phase'[j] = "closing")
           /\ ws # 0 => phase'[ws] \notin Live /\ closing'
  <1>1. ws \in 0 .. MaxSockets
    BY DEF SerialInv, StreamInv, TypeOK
  <1>2. CASE ws # 0
    <2>1. Shut(ws) /\ ws \in Sockets
      BY <1>1, <1>2, StreamBounds DEF CloseStream, Sockets
    <2> QED  BY <1>2, <2>1, ShutSockets DEF Live, CloseStream
  <1>3. CASE ws = 0
    BY <1>3 DEF CloseStream
  <1> QED  BY <1>2, <1>3

LEMMA DisconnectAgrees ==
    ASSUME SerialInv, NEW c \in Callers, Alone(c), Disconnect(c)
    PROVE  Agreed'
  <1> USE DEF SerialInv, Agreed
  <1>0. c \in Threads /\ c \notin Workers /\ c \notin Sockets
    BY Kinds
  <1>1. /\ pc[c] = "disconnect" /\ pc' = [pc EXCEPT ![c] = "idle"]
        /\ ~connected' /\ state' = "DISCONNECTED"
        /\ UNCHANGED <<ws, connecting, reconnecting, desired, created, token, owner, wish, syms,
                       tries, loggedOut, served>>
        /\ \A i \in Sockets : phase'[i] = phase[i] \/ phase'[i] = "closing"
    BY CloseStreamSockets DEF Disconnect, CloseStream, Go, At, world
  <1>2. owner = "closed"
    BY <1>0, <1>1 DEF Told
  <1>3. /\ Placed' /\ OneAtWork'
        /\ pc'[c] = "idle" /\ \A u \in Threads : u # c => pc'[u] = pc[u] /\ pc[u] \in Rest
        /\ \A i \in Sockets : pc'[i] = "idle"
        /\ ~Under(Dialling)' /\ ~Under(Starting)' /\ ~Under(Forcing)'
        /\ NoSleeper' <=> NoSleeper
    <2>1. Fits(c, "idle")
      BY <1>0 DEF Fits, CallerPlaces
    <2> QED  BY <1>0, <1>1, <2>1, Moved DEF Dialling, Starting, Forcing
  <1>4. OneWorker'
    BY <1>0, <1>1, WorkersKept
  <1>5. Unopened' /\ Asked' /\ Shutting' /\ InTouch' /\ Held'
    BY <1>1, <1>2 DEF Unopened, Asked, Shutting, InTouch, Held
  <1>6. Fresh' /\ OneLive'
    BY <1>1 DEF Fresh, OneLive, Live
  <1>7. Told' /\ Current'
    BY <1>0, <1>1, <1>3 DEF Told, Current, Rest, Restoring
  <1>8. Waiting'
    BY <1>0, <1>1, <1>3, Kinds DEF Waiting, Quietly
  <1> QED  BY <1>3, <1>4, <1>5, <1>6, <1>7, <1>8

LEMMA ListenAgrees ==
    ASSUME SerialInv, NEW c \in Callers, Alone(c), Listen(c)
    PROVE  Agreed'
  <1> USE DEF SerialInv, Agreed
  <1>0. c \in Threads /\ c \notin Workers /\ c \notin Sockets
    BY Kinds
  <1>1. /\ pc[c] = "listen"
        /\ UNCHANGED <<ws, connecting, reconnecting, desired, created, served, syms, tries,
                       token, owner, wish, loggedOut>>
    BY DEF Listen, At, world
  <1>2. token /\ owner # "new"
    BY <1>0, <1>1 DEF Told, Unopened, Still, Quietly, Rest
  <1>3. ~Under(Dialling) /\ ~Under(Dropping) /\ ~Under(Starting) /\ ~Under(Restoring)
        /\ ~Under(Reporting)
    BY <1>0, <1>1, Mover DEF Dialling, Dropping, Starting, Restoring, Reporting
  <1>4. CASE ~Restarts
    <2>1. pc' = [pc EXCEPT ![c] = "idle"] /\ UNCHANGED <<closing, phase, connected, state>>
      BY <1>4 DEF Listen, Go
    <2>2. /\ Placed' /\ OneAtWork'
          /\ pc'[c] = "idle" /\ \A u \in Threads : u # c => pc'[u] = pc[u] /\ pc[u] \in Rest
          /\ \A i \in Sockets : pc'[i] = "idle"
          /\ ~Under(Dialling)' /\ ~Under(Starting)' /\ ~Under(Forcing)'
          /\ NoSleeper' <=> NoSleeper
      <3>1. Fits(c, "idle")
        BY <1>0 DEF Fits, CallerPlaces
      <3> QED  BY <1>0, <1>1, <2>1, <3>1, Moved DEF Dialling, Starting, Forcing
    <2>3. OneWorker'
      BY <1>0, <1>1, <2>1, WorkersKept
    <2>4. Unopened' /\ Asked' /\ Fresh' /\ OneLive' /\ Shutting'
      BY <1>1, <1>2, <1>3, <2>1 DEF Unopened, Asked, Fresh, OneLive, Shutting
    <2>5. Told' /\ Current'
      BY <1>0, <1>1, <2>1, <2>2 DEF Told, Current, Rest, Restoring
    <2>6. Waiting'
      BY <1>0, <1>1, <2>1, <2>2, Kinds DEF Waiting, Quietly
    <2>7. InTouch' /\ Held'
      BY <1>0, <1>1, <1>3, <2>1, <2>2, Kinds DEF InTouch, Held, Linked, Rest
    <2> QED  BY <2>2, <2>3, <2>4, <2>5, <2>6, <2>7
  <1>5. CASE Restarts
    <2>1. /\ pc' = [pc EXCEPT ![c] = "connect"] /\ ~connected'
          /\ \A i \in Sockets : phase'[i] = phase[i] \/ (i = ws /\ phase'[i] = "closing")
          /\ ws # 0 => phase'[ws] \notin Live /\ closing'
      BY <1>5, CloseStreamSockets DEF Listen, Go, CloseStream
    <2>2. /\ Placed' /\ OneAtWork'
          /\ pc'[c] = "connect" /\ \A u \in Threads : u # c => pc'[u] = pc[u] /\ pc[u] \in Rest
          /\ \A i \in Sockets : pc'[i] = "idle"
          /\ Under(Dialling)' /\ ~Under(Starting)' /\ ~Under(Forcing)'
          /\ NoSleeper' <=> NoSleeper
      <3>1. Fits(c, "connect")
        BY <1>0 DEF Fits, CallerPlaces
      <3> QED  BY <1>0, <1>1, <2>1, <3>1, Moved DEF Dialling, Starting, Forcing
    <2>3. OneWorker'
      BY <1>0, <1>1, <2>1, WorkersKept
    <2>4. Unopened' /\ Asked' /\ InTouch' /\ Shutting'
      BY <1>1, <1>2, <2>1, <2>2 DEF Unopened, Asked, InTouch, Shutting
    <2>5. Fresh' /\ OneLive'
      BY <1>1, <2>1 DEF Fresh, OneLive, Live
    <2>6. Told' /\ Current'
      BY <1>0, <1>1, <2>2 DEF Told, Current, Rest, Restoring
    <2>7. loggedOut \/ NoSleeper
      BY <1>5 DEF Waiting, Restarts
    <2>8. Waiting'
      BY <1>0, <1>1, <2>1, <2>2, <2>7, Kinds DEF Waiting, Quietly
    <2>9. Held'
      BY <1>0, <1>1, <2>1, <2>2, Kinds DEF Held, Rest
    <2> QED  BY <2>2, <2>3, <2>4, <2>5, <2>6, <2>8, <2>9
  <1> QED  BY <1>4, <1>5

\* What dropping the current socket does.
LEMMA CleanupSockets ==
    ASSUME SerialInv, NEW i, i = ws, Cleanup(i)
    PROVE  /\ ws' = 0
           /\ ws # 0 => ~connected'
           /\ \A j \in Sockets : phase'[j] \in Live => phase[j] \in Live /\ j # ws
           /\ \A j \in Sockets :
                 phase'[j] \in {"opening", "open", "login"} => phase'[j] = phase[j]
  <1>1. CASE ws # 0
    BY <1>1, ShutSockets DEF Cleanup, Live
  <1>2. CASE ws = 0
    BY <1>2 DEF Cleanup, Sockets
  <1> QED  BY <1>1, <1>2

LEMMA ForceReconnectAgrees ==
    ASSUME SerialInv, NEW c \in Callers, Alone(c), ForceReconnect(c)
    PROVE  Agreed'
  <1> USE DEF SerialInv, Agreed
  <1>0. c \in Threads /\ c \notin Workers /\ c \notin Sockets
    BY Kinds
  <1>1. /\ pc[c] = "force" /\ pc' = [pc EXCEPT ![c] = "attempt"]
        /\ UNCHANGED <<closing, connecting, reconnecting, state, desired, created, served, syms,
                       tries, token, owner, wish, loggedOut>>
    BY DEF ForceReconnect, At, Go, world
  <1>2. /\ ws' = 0 /\ ~connected'
        /\ \A j \in Sockets : phase'[j] \in Live => phase[j] \in Live /\ j # ws
        /\ \A j \in Sockets :
              phase'[j] \in {"opening", "open", "login"} => phase'[j] = phase[j]
    BY CleanupSockets DEF ForceReconnect, Sockets
  <1>3. owner # "new"
    BY <1>0, <1>1 DEF Unopened, Still, Quietly, Rest
  <1>4. /\ ~Under(Dialling) /\ Under(Forcing)
    BY <1>0, <1>1, Mover DEF Dialling, Forcing
  <1>5. /\ Placed' /\ OneAtWork'
        /\ pc'[c] = "attempt" /\ \A u \in Threads : u # c => pc'[u] = pc[u] /\ pc[u] \in Rest
        /\ \A i \in Sockets : pc'[i] = "idle"
        /\ ~Under(Dialling)' /\ Under(Starting)' /\ ~Under(Forcing)'
        /\ NoSleeper' <=> NoSleeper
    <2>1. Fits(c, "attempt")
      BY <1>0 DEF Fits, CallerPlaces
    <2> QED  BY <1>0, <1>1, <2>1, Moved DEF Dialling, Starting, Forcing
  <1>6. OneWorker'
    BY <1>0, <1>1, WorkersKept
  <1>7. Unopened' /\ Asked' /\ InTouch' /\ Shutting'
    BY <1>1, <1>2, <1>3, <1>4 DEF Unopened, Asked, InTouch, Shutting
  <1>8. Fresh'
    BY <1>1, <1>2 DEF Fresh, StreamInv, TypeOK
  <1>9. OneLive'
    BY <1>1, <1>2 DEF OneLive
  <1>10. Told' /\ Current'
    BY <1>0, <1>1, <1>5 DEF Told, Current, Rest, Restoring
  <1>11. Waiting'
    BY <1>0, <1>1, <1>2, <1>4, <1>5, Kinds DEF Waiting, Quietly
  <1>12. Held'
    BY <1>0, <1>1, <1>2, <1>5, Kinds DEF Held, Rest
  <1> QED  BY <1>5, <1>6, <1>7, <1>8, <1>9, <1>10, <1>11, <1>12

-----------------------------------------------------------------------------
(* connect().                                                              *)

LEMMA ConnectAgrees ==
    ASSUME SerialInv, NEW t \in Threads, t \notin Sockets, Alone(t), Connect(t)
    PROVE  Agreed'
  <1> USE DEF SerialInv, Agreed
  <1>1. /\ pc[t] = "connect" /\ pc' = [pc EXCEPT ![t] = "dial"] /\ state' = "CONNECTING"
        /\ UNCHANGED <<ws, connected, closing, reconnecting, desired, created, phase, served,
                       syms, tries, token, owner, wish, loggedOut>>
    BY DEF Connect, At, Go, net, world
  <1>2. owner # "new" /\ Under(Dialling) /\ ~Under(Forcing) /\ ~Under(Starting)
    BY <1>1, Mover DEF Unopened, Still, Quietly, Rest, Dialling, Forcing, Starting
  <1>3. /\ Placed' /\ OneAtWork'
        /\ pc'[t] = "dial" /\ \A u \in Threads : u # t => pc'[u] = pc[u] /\ pc[u] \in Rest
        /\ \A i \in Sockets : pc'[i] = "idle"
        /\ Under(Dialling)' /\ ~Under(Starting)' /\ ~Under(Forcing)'
        /\ NoSleeper' <=> NoSleeper
    <2>1. Fits(t, "dial")
      BY DEF Fits, CallerPlaces, WorkerPlaces
    <2> QED  BY <1>1, <2>1, Moved DEF Dialling, Starting, Forcing
  <1>4. OneWorker'
    BY <1>1, WorkersKept DEF Reconnects
  <1>5. Unopened' /\ Asked' /\ Fresh' /\ OneLive' /\ Shutting'
    BY <1>1, <1>2, <1>3 DEF Unopened, Asked, Fresh, OneLive, Shutting
  <1>6. Told' /\ Current'
    BY <1>1, <1>3 DEF Told, Current, Rest, Restoring
  <1>7. Waiting'
    BY <1>1, <1>2, <1>3, Kinds DEF Waiting, Quietly
  <1>8. InTouch'
    BY <1>1, <1>2 DEF InTouch, Waiting
  <1>9. Held'
    BY <1>1, <1>3, Kinds, Mover DEF Held, Rest, Dropping
  <1> QED  BY <1>3, <1>4, <1>5, <1>6, <1>7, <1>8, <1>9

LEMMA DialAgrees ==
    ASSUME SerialInv, NEW t \in Threads, t \notin Sockets, Alone(t), Dial(t)
    PROVE  Agreed'
  <1> USE DEF SerialInv, Agreed
  <1>1. PICK q \in {"resub", "idle"} : /\ pc' = [pc EXCEPT ![t] = q]
                                       /\ q = "resub" <=> t \in Workers
    BY DEF Dial, Go
  <1>2. /\ pc[t] = "dial"
        /\ UNCHANGED <<connected, reconnecting, desired, served, syms, tries, owner, wish,
                       loggedOut>>
    BY DEF Dial, At
  <1>3. owner # "new" /\ Under(Dialling) /\ ~Under(Forcing) /\ ~Under(Starting)
    BY <1>2, Mover DEF Unopened, Still, Quietly, Rest, Dialling, Forcing, Starting
  <1>4. /\ Placed' /\ OneAtWork'
        /\ pc'[t] = q /\ \A u \in Threads : u # t => pc'[u] = pc[u] /\ pc[u] \in Rest
        /\ \A i \in Sockets : pc'[i] = "idle"
        /\ ~Under(Dialling)' /\ ~Under(Starting)' /\ ~Under(Forcing)'
        /\ NoSleeper' <=> NoSleeper
    <2>1. Fits(t, q)
      BY <1>1, Kinds DEF Fits, CallerPlaces, WorkerPlaces
    <2> QED  BY <1>1, <1>2, <2>1, Moved DEF Dialling, Starting, Forcing
  <1>5. OneWorker'
    BY <1>1, <1>2, WorkersKept DEF Reconnects
  <1>6. Unopened' /\ Asked'
    BY <1>2, <1>3 DEF Unopened, Asked
  <1>7. Told' /\ Current'
    BY <1>1, <1>2, <1>4 DEF Told, Current, Rest, Restoring
  <1>8. ~loggedOut => ~connected /\ NoSleeper /\ (ws # 0 => phase[ws] \notin Live)
    BY <1>3 DEF Waiting
  <1>9. Waiting'
    BY <1>2, <1>4, <1>8 DEF Waiting
  <1>10. InTouch'
    BY <1>2, <1>8 DEF InTouch
  <1>11. CASE created < MaxSockets /\ created' = created + 1
    <2>0. created \in Nat
      BY StreamBounds DEF StreamInv, TypeOK
    <2>1. /\ ws' = created' /\ phase' = [phase EXCEPT ![created'] = "opening"] /\ ~closing'
      <3>1. created' # created
        BY <1>11, <2>0
      <3> QED  BY <3>1 DEF Dial, ResetClosing
    <2>2. created' \in Sockets /\ ws' # 0 /\ phase'[ws'] = "opening"
      BY <1>11, <2>1, StreamBounds DEF StreamInv, TypeOK, Sockets
    <2>3. Fresh'
      BY <1>2, <1>11, <2>1, <2>2, StreamBounds DEF Fresh, StreamInv, TypeOK, Sockets
    <2>4. Shutting' /\ Held'
      BY <2>1, <2>2 DEF Shutting, Held, Linked, Live
    <2>5. OneLive'
      <3>1. \A i \in Sockets : i # 0
        BY DEF Sockets
      <3>2. ~loggedOut => \A i \in Sockets : phase[i] \notin Live
        BY <1>8, <3>1 DEF OneLive
      <3>3. \A i \in Sockets : phase'[i] = phase[i] \/ i = created'
        BY <2>1 DEF StreamInv, TypeOK
      <3> QED  BY <1>2, <2>1, <3>2, <3>3 DEF OneLive
    <2> QED  BY <1>4, <1>5, <1>6, <1>7, <1>9, <1>10, <2>3, <2>4, <2>5
  <1>12. CASE /\ ~token /\ state' = "AUTH_REQUIRED"
              /\ UNCHANGED <<token, ws, closing, created, phase>>
    <2>1. Fresh' /\ OneLive'
      BY <1>2, <1>12 DEF Fresh, OneLive
    <2>2. Shutting'
      BY <1>2, <1>12 DEF Shutting
    <2>3. owner = "open" /\ ws # 0 => phase[ws] \in Live
      BY <1>2, <1>12, Mover DEF Held, Shutting, Dropping
    <2>4. Held'
      BY <1>2, <1>12, <2>3 DEF Held
    <2> QED  BY <1>4, <1>5, <1>6, <1>7, <1>9, <1>10, <2>1, <2>2, <2>4
  <1> QED  BY <1>11, <1>12 DEF Dial

-----------------------------------------------------------------------------
(* Subscriptions.                                                          *)

LEMMA SubscribeAgrees ==
    ASSUME SerialInv, NEW t \in Threads, Alone(t), Subscribe(t)
    PROVE  Agreed'
  <1> USE DEF SerialInv, Agreed
  <1>1. /\ pc[t] \in {"subscribe", "resubscribe"} /\ pc' = [pc EXCEPT ![t] = "send"]
        /\ desired' = syms[t] /\ wish' = IF pc[t] = "subscribe" THEN syms[t] ELSE wish
        /\ UNCHANGED <<ws, connected, closing, connecting, reconnecting, state, created, phase,
                       served, syms, tries, token, owner, loggedOut>>
    BY DEF Subscribe, At, Go, net
  <1>2. syms[t] # {} /\ (pc[t] = "resubscribe" => syms[t] = desired)
    BY <1>1 DEF Told, Restoring
  <1>3. /\ owner # "new" /\ pc[t] \notin Rest
        /\ ~Under(Dialling) /\ ~Under(Dropping) /\ ~Under(Starting) /\ ~Under(Reporting)
    BY <1>1, Mover DEF Unopened, Still, Quietly, Rest, Dialling, Dropping, Starting, Reporting
  <1>4. /\ Placed' /\ OneAtWork'
        /\ pc'[t] = "send" /\ \A u \in Threads : u # t => pc'[u] = pc[u] /\ pc[u] \in Rest
        /\ \A i \in Sockets : i # t => pc'[i] = "idle"
        /\ ~Under(Dialling)' /\ ~Under(Starting)' /\ ~Under(Forcing)' /\ Under(Restoring)'
        /\ NoSleeper' <=> NoSleeper
    <2>1. Fits(t, "send")
      BY DEF Fits, CallerPlaces, SocketPlaces, WorkerPlaces
    <2> QED  BY <1>1, <2>1, Moved DEF Dialling, Starting, Forcing, Restoring
  <1>5. OneWorker'
    BY <1>1, WorkersKept DEF Reconnects
  <1>6. Unopened' /\ Fresh' /\ OneLive' /\ Shutting'
    BY <1>1, <1>3, <1>4 DEF Unopened, Fresh, OneLive, Shutting
  <1>7. Asked'
    BY <1>1, <1>2 DEF Asked
  <1>8. Told'
    BY <1>1, <1>2, <1>4 DEF Told, Rest, Restoring
  <1>9. t \in Sockets \/ t \in Workers => pc[t] = "resubscribe"
    BY <1>1 DEF Placed, SocketPlaces, WorkerPlaces
  <1>10. Current'
    BY <1>1, <1>4, <1>9 DEF Current, Restoring, Dropping
  <1>11. Waiting'
    BY <1>1, <1>3, <1>4, Kinds DEF Waiting, Quietly
  <1>12. InTouch'
    BY <1>1, <1>3, <1>4 DEF InTouch
  <1>13. Held'
    BY <1>1, <1>3, <1>4, <1>9, Kinds DEF Held, Linked, Rest
  <1> QED  BY <1>4, <1>5, <1>6, <1>7, <1>8, <1>10, <1>11, <1>12, <1>13

LEMMA UnsubscribeAgrees ==
    ASSUME SerialInv, NEW c \in Callers, Alone(c), Unsubscribe(c)
    PROVE  Agreed'
  <1> USE DEF SerialInv, Agreed
  <1>0. c \in Threads /\ c \notin Workers /\ c \notin Sockets
    BY Kinds
  <1>1. /\ pc[c] = "unsubscribe" /\ pc' = [pc EXCEPT ![c] = "send_unsub"]
        /\ desired' = desired \ syms[c] /\ wish' = wish \ syms[c]
        /\ UNCHANGED <<ws, connected, closing, connecting, reconnecting, state, created, phase,
                       served, syms, tries, token, owner, loggedOut>>
    BY DEF Unsubscribe, Remaining, At, Go, net
  <1>2. /\ owner # "new"
        /\ ~Under(Dialling) /\ ~Under(Dropping) /\ ~Under(Starting) /\ ~Under(Reporting)
        /\ ~Under(Restoring) /\ \A u \in Threads : pc[u] # "send_unsub"
    BY <1>0, <1>1, Mover DEF Unopened, Still, Quietly, Rest, Dialling, Dropping, Starting,
                             Reporting, Restoring
  <1>3. /\ Placed' /\ OneAtWork'
        /\ pc'[c] = "send_unsub" /\ \A u \in Threads : u # c => pc'[u] = pc[u] /\ pc[u] \in Rest
        /\ \A i \in Sockets : pc'[i] = "idle"
        /\ ~Under(Dialling)' /\ ~Under(Starting)' /\ ~Under(Forcing)'
        /\ NoSleeper' <=> NoSleeper
    <2>1. Fits(c, "send_unsub")
      BY <1>0 DEF Fits, CallerPlaces
    <2> QED  BY <1>0, <1>1, <2>1, Moved DEF Dialling, Starting, Forcing
  <1>4. OneWorker'
    BY <1>0, <1>1, WorkersKept
  <1>5. Unopened' /\ Fresh' /\ OneLive' /\ Shutting' /\ Asked'
    BY <1>1, <1>2, <1>3 DEF Unopened, Fresh, OneLive, Shutting, Asked
  <1>6. Told' /\ Current'
    <2>1. desired' \cap syms'[c] = {}
      BY <1>1
    <2> QED  BY <1>0, <1>1, <1>3, <2>1 DEF Told, Current, Rest, Restoring
  <1>7. Waiting'
    BY <1>0, <1>1, <1>3, Kinds DEF Waiting, Quietly
  <1>8. InTouch'
    BY <1>0, <1>1, <1>2, <1>3 DEF InTouch
  <1>9. Held'
    BY <1>0, <1>1, <1>2, <1>3, Kinds DEF Held, Linked, Rest
  <1> QED  BY <1>3, <1>4, <1>5, <1>6, <1>7, <1>8, <1>9

LEMMA SendAgrees ==
    ASSUME SerialInv, NEW t \in Threads, Alone(t), Send(t)
    PROVE  Agreed'
  <1> USE DEF SerialInv, Agreed
  <1>1. /\ pc[t] \in {"send", "send_unsub"}
        /\ UNCHANGED <<ws, connected, closing, connecting, reconnecting, state, desired, created,
                       phase, syms, tries, token, owner, wish, loggedOut>>
    BY DEF Send, client, world
  <1>2. /\ t \in Sockets => pc[t] = "send" /\ ws = t /\ phase[t] = "authed" /\ connected
        /\ t \in Workers => pc[t] = "send"
        /\ pc[t] = "send" => syms[t] = desired /\ syms[t] # {}
    BY <1>1 DEF Placed, SocketPlaces, WorkerPlaces, Current, Told, Restoring
  <1>3. PICK q \in {"idle", "finish", "sleeping", "down"} :
          /\ pc' = [pc EXCEPT ![t] = q]
          /\ q = "idle" => t \notin Workers
          /\ q # "idle" => t \in Workers
          /\ q = "sleeping" => connected
    <2>1. t \in Workers => AfterReturn(t) = "finish" /\ AfterRaise(t) \in {"sleeping", "down"}
      BY Kinds DEF AfterReturn, AfterRaise
    <2>2. t \in Callers => AfterReturn(t) = "idle" /\ AfterRaise(t) = "idle"
      BY Kinds DEF AfterReturn, AfterRaise
    <2>3. t \in Sockets => AfterReturn(t) = "idle" /\ phase[ws] \in Sendable /\ connected
      BY <1>2, Kinds DEF AfterReturn, Sendable, Live
    <2> QED  BY <2>1, <2>2, <2>3, Kinds DEF Send, Go
  <1>4. /\ owner # "new" /\ pc[t] \notin Rest
        /\ ~Under(Dialling) /\ ~Under(Dropping) /\ ~Under(Starting) /\ ~Under(Reporting)
    BY <1>1, Mover DEF Unopened, Still, Quietly, Rest, Dialling, Dropping, Starting, Reporting
  <1>5. /\ Placed' /\ OneAtWork'
        /\ pc'[t] = q /\ \A u \in Threads : u # t => pc'[u] = pc[u] /\ pc[u] \in Rest
        /\ \A i \in Sockets : i # t => pc'[i] = "idle"
        /\ ~Under(Dialling)' /\ ~Under(Starting)' /\ ~Under(Forcing)'
        /\ q # "sleeping" => (NoSleeper' <=> NoSleeper)
    <2>1. Fits(t, q)
      BY <1>3, Kinds DEF Fits, CallerPlaces, SocketPlaces, WorkerPlaces
    <2> QED  BY <1>1, <1>3, <2>1, Moved DEF Dialling, Starting, Forcing
  <1>6. OneWorker'
    BY <1>1, <1>3, WorkersKept DEF Reconnects
  <1>7. \/ served' = served /\ (connected /\ ~loggedOut => phase[ws] # "authed")
        \/ /\ ws # 0 /\ phase[ws] = "authed"
           /\ served' = [served EXCEPT ![ws] = IF pc[t] = "send" THEN syms[t]
                                               ELSE served[ws] \ syms[t]]
    <2>1. connected /\ ~loggedOut => ws # 0
      BY DEF InTouch
    <2> QED  BY <1>1, <1>2, <2>1 DEF Send, Serve, At, Sendable, Live
  <1>8. Unopened' /\ OneLive' /\ Shutting' /\ Asked'
    BY <1>1, <1>4, <1>5 DEF Unopened, OneLive, Shutting, Asked
  <1>9. Told'
    BY <1>3, <1>5 DEF Told, Rest, Restoring
  <1>10. Current'
    <2>1. t \in Sockets => q = "idle"
      BY <1>3, Kinds
    <2> QED  BY <1>5, <2>1 DEF Current
  <1>11. Waiting'
    <2>1. t \in Workers => (~loggedOut => ~connected)
      BY <1>4 DEF Waiting, Quietly
    <2> QED  BY <1>1, <1>3, <1>5, <2>1, Kinds DEF Waiting, Quietly
  <1>12. Fresh'
    BY <1>1, <1>7 DEF Fresh, StreamInv, TypeOK
  <1>13. InTouch'
    <2> SUFFICES ASSUME connected, ~loggedOut
                 PROVE  ws # 0 /\ phase[ws] = "authed" /\ served'[ws] = desired
      BY <1>1 DEF InTouch
    <2>1. ws # 0 /\ phase[ws] = "authed" /\ ws \in Sockets
      BY <1>4, StreamBounds DEF InTouch, StreamInv, TypeOK, Sockets
    <2>2. CASE pc[t] = "send"
      BY <1>2, <1>7, <2>1, <2>2 DEF StreamInv, TypeOK
    <2>3. CASE pc[t] = "send_unsub"
      <3>1. served[ws] = desired \/ served[ws] \ syms[t] = desired
        BY <1>4, <2>3, Mover DEF InTouch, Restoring, Rest
      <3>2. desired \cap syms[t] = {}
        BY <2>3 DEF Told
      <3>3. served[ws] \ syms[t] = desired
        BY <3>1, <3>2
      <3> QED  BY <1>7, <2>1, <2>3, <3>3 DEF StreamInv, TypeOK
    <2> QED  BY <1>1, <2>1, <2>2, <2>3
  <1>14. Held'
    BY <1>1, <1>2, <1>3, <1>4, <1>5, Kinds DEF Held, Linked, Rest
  <1> QED  BY <1>5, <1>6, <1>8, <1>9, <1>10, <1>11, <1>12, <1>13, <1>14

LEMMA ResendAgrees ==
    ASSUME SerialInv, NEW t \in Threads, Alone(t), Resend(t)
    PROVE  Agreed'
  <1> USE DEF SerialInv, Agreed
  <1>1. /\ pc[t] \in {"resend", "resub"} /\ pc' = [pc EXCEPT ![t] = "resubscribe"]
        /\ desired # {} /\ syms' = [syms EXCEPT ![t] = desired]
        /\ UNCHANGED <<ws, connected, closing, connecting, reconnecting, state, desired, created,
                       phase, served, tries, token, owner, wish, loggedOut>>
    BY DEF Resend, At, Go, client, net, world
  <1>2. t \notin Sockets /\ (t \in Workers => pc[t] = "resub")
    BY <1>1 DEF Placed, SocketPlaces, WorkerPlaces
  <1>3. /\ owner # "new" /\ pc[t] \notin Rest
        /\ ~Under(Dialling) /\ ~Under(Dropping) /\ ~Under(Starting) /\ ~Under(Reporting)
    BY <1>1, Mover DEF Unopened, Still, Quietly, Rest, Dialling, Dropping, Starting, Reporting
  <1>4. /\ Placed' /\ OneAtWork'
        /\ pc'[t] = "resubscribe" /\ \A u \in Threads : u # t => pc'[u] = pc[u] /\ pc[u] \in Rest
        /\ \A i \in Sockets : pc'[i] = "idle"
        /\ ~Under(Dialling)' /\ ~Under(Starting)' /\ ~Under(Forcing)' /\ Under(Restoring)'
        /\ NoSleeper' <=> NoSleeper
    <2>1. Fits(t, "resubscribe")
      BY <1>2 DEF Fits, CallerPlaces, WorkerPlaces
    <2> QED  BY <1>1, <1>2, <2>1, Moved DEF Dialling, Starting, Forcing, Restoring
  <1>5. OneWorker'
    BY <1>1, WorkersKept DEF Reconnects
  <1>6. Unopened' /\ Fresh' /\ OneLive' /\ Shutting' /\ Asked'
    BY <1>1, <1>3, <1>4 DEF Unopened, Fresh, OneLive, Shutting, Asked
  <1>7. Told' /\ Current'
    BY <1>1, <1>4 DEF Told, Current, Rest, Restoring, StreamInv, TypeOK
  <1>8. Waiting'
    BY <1>1, <1>3, <1>4, Kinds DEF Waiting, Quietly
  <1>9. InTouch'
    BY <1>1, <1>3, <1>4 DEF InTouch
  <1>10. Held'
    BY <1>1, <1>2, <1>3, <1>4, Kinds DEF Held, Linked, Rest
  <1> QED  BY <1>4, <1>5, <1>6, <1>7, <1>8, <1>9, <1>10

LEMMA SkipResendAgrees ==
    ASSUME SerialInv, NEW t \in Threads, Alone(t), SkipResend(t)
    PROVE  Agreed'
  <1> USE DEF SerialInv, Agreed
  <1>1. /\ pc[t] \in {"resend", "resub"}
        /\ UNCHANGED <<ws, connected, closing, connecting, reconnecting, state, desired, created,
                       phase, served, syms, tries, token, owner, wish, loggedOut>>
    BY DEF SkipResend, At, client, net, world
  <1>2. t \notin Sockets /\ (t \in Workers => pc[t] = "resub")
    BY <1>1 DEF Placed, SocketPlaces, WorkerPlaces
  <1>3. PICK q \in {"idle", "finish"} :
          /\ pc' = [pc EXCEPT ![t] = q]
          /\ q = "finish" <=> t \in Workers
    BY DEF SkipResend, Go, AfterReturn
  <1>4. /\ owner # "new" /\ pc[t] \notin Rest
        /\ ~Under(Dialling) /\ ~Under(Dropping) /\ ~Under(Starting) /\ ~Under(Reporting)
        /\ ~Under(Restoring)
    BY <1>1, Mover DEF Unopened, Still, Quietly, Rest, Dialling, Dropping, Starting, Reporting,
                       Restoring
  <1>5. /\ Placed' /\ OneAtWork'
        /\ pc'[t] = q /\ \A u \in Threads : u # t => pc'[u] = pc[u] /\ pc[u] \in Rest
        /\ \A i \in Sockets : pc'[i] = "idle"
        /\ ~Under(Dialling)' /\ ~Under(Starting)' /\ ~Under(Forcing)'
        /\ NoSleeper' <=> NoSleeper
    <2>1. Fits(t, q)
      BY <1>2, <1>3, Kinds DEF Fits, CallerPlaces, WorkerPlaces
    <2> QED  BY <1>1, <1>2, <1>3, <2>1, Moved DEF Dialling, Starting, Forcing
  <1>6. OneWorker'
    BY <1>1, <1>3, WorkersKept DEF Reconnects
  <1>7. Unopened' /\ Fresh' /\ OneLive' /\ Shutting' /\ Asked'
    BY <1>1, <1>4, <1>5 DEF Unopened, Fresh, OneLive, Shutting, Asked
  <1>8. Told' /\ Current'
    BY <1>1, <1>3, <1>5 DEF Told, Current, Rest, Restoring
  <1>9. Waiting'
    BY <1>1, <1>4, <1>5, Kinds DEF Waiting, Quietly
  <1>10. InTouch'
    BY <1>1, <1>4, <1>5 DEF InTouch, Rest
  <1>11. Held'
    BY <1>1, <1>2, <1>3, <1>4, <1>5, Kinds DEF Held, Linked, Rest
  <1> QED  BY <1>5, <1>6, <1>7, <1>8, <1>9, <1>10, <1>11

-----------------------------------------------------------------------------
(* Callbacks of a socket.                                                  *)

\* What an event makes of the phase, and the handler it starts.
Leads(from, to, handler) ==
    \/ from = {"opening"} /\ to = "open" /\ handler = "login"
    \/ from = {"login"} /\ to = "authed" /\ handler = "accept"
    \/ from = {"login"} /\ to = "denied" /\ handler = "deny"
    \/ from = {"authed"} /\ to = "loggedout" /\ handler = "logout"
    \/ from \subseteq Live \cup {"closing"} /\ to = "gone" /\ handler \in {"fail", "on_close"}

LEMMA EventAgrees ==
    ASSUME SerialInv, NEW i \in Sockets, Alone(i), NEW from, NEW to, NEW handler,
           Event(i, from, to, handler), Leads(from, to, handler),
           to = "loggedout" => loggedOut', to # "loggedout" => loggedOut' = loggedOut
    PROVE  Agreed'
  <1> USE DEF SerialInv, Agreed
  <1>0. i \in Threads /\ i \notin Workers /\ i \notin Callers /\ i # 0
    BY Kinds DEF Sockets
  <1>1. /\ pc[i] = "idle" /\ phase[i] \in from /\ phase' = [phase EXCEPT ![i] = to]
        /\ pc' = IF ws = i THEN [pc EXCEPT ![i] = handler] ELSE pc
        /\ UNCHANGED <<ws, connected, closing, connecting, reconnecting, state, desired, created,
                       served, syms, tries, token, owner, wish>>
    BY DEF Event, Deliver, Go, At, client
  <1>2. /\ phase[i] # "unused" /\ phase'[i] = to
        /\ \A j \in Sockets : j # i => phase'[j] = phase[j]
        /\ to \in Live => phase[i] \in Live
        /\ to \in {"opening", "open", "login"} => phase[i] = "opening"
        /\ to = "authed" => phase[i] = "login"
    BY <1>1 DEF Leads, Live, StreamInv, TypeOK
  <1>3. owner # "new"
    BY <1>2 DEF Unopened
  <1>5. loggedOut => loggedOut'
    OBVIOUS
  <1>6. Fresh'
    BY <1>1, <1>2 DEF Fresh
  <1>7. OneLive'
    BY <1>1, <1>2, <1>5 DEF OneLive
  <1>8. Unopened' /\ Asked'
    BY <1>1, <1>3 DEF Unopened, Asked
  <1>9. CASE ws # i
    <2>1. ws = 0 \/ ws \in Sockets
      BY StreamBounds DEF StreamInv, TypeOK, Sockets
    <2>2. pc' = pc /\ (ws # 0 => phase'[ws] = phase[ws])
      BY <1>1, <1>2, <1>9, <2>1
    <2>3. Placed' /\ OneAtWork' /\ OneWorker' /\ Told' /\ Shutting'
      BY <1>1, <2>2 DEF Placed, OneAtWork, Alone, Quietly, OneWorker, Reconnects, Told, Shutting,
                        Under
    <2>4. Current'
      BY <1>1, <1>2, <1>5, <2>2 DEF Current
    <2>5. Waiting' /\ InTouch'
      BY <1>1, <1>5, <2>2 DEF Waiting, InTouch, Under, NoSleeper, Quietly
    <2>6. Held'
      BY <1>1, <2>2 DEF Held, Linked, Under
    <2> QED  BY <1>6, <1>7, <1>8, <2>3, <2>4, <2>5, <2>6
  <1>10. CASE ws = i
    <2>1. handler \in {"login", "accept", "deny", "logout", "fail", "on_close"}
      BY DEF Leads
    <2>2. /\ Placed' /\ OneAtWork'
          /\ pc'[i] = handler /\ \A u \in Threads : u # i => pc'[u] = pc[u] /\ pc[u] \in Rest
          /\ \A j \in Sockets : j # i => pc'[j] = "idle"
          /\ ~Under(Dialling)' /\ ~Under(Starting)' /\ ~Under(Forcing)'
          /\ Under(Dropping)' <=> handler \in {"fail", "on_close"}
          /\ NoSleeper' <=> NoSleeper
      <3>1. Fits(i, handler)
        BY <1>0, <2>1 DEF Fits, SocketPlaces
      <3> QED  BY <1>0, <1>1, <1>10, <2>1, <3>1, Moved DEF Dialling, Starting, Forcing, Dropping
    <2>3. /\ ~Under(Dialling) /\ ~Under(Dropping) /\ ~Under(Starting) /\ ~Under(Restoring)
          /\ ~Under(Reporting)
      BY <1>0, <1>1, Mover DEF Dialling, Dropping, Starting, Restoring, Reporting
    <2>4. OneWorker'
      BY <1>0, <1>1, <1>10, WorkersKept
    <2>5. Told' /\ Shutting'
      BY <1>1, <2>1, <2>2, <2>3 DEF Told, Shutting, Rest, Restoring
    <2>6. Current'
      <3>1. /\ handler = "login" => to = "open"
            /\ handler = "accept" => to = "authed"
            /\ handler = "deny" => to = "denied"
            /\ handler = "logout" => to = "loggedout"
            /\ handler \in {"fail", "on_close"} => to = "gone"
        BY DEF Leads
      <3>2. to = "authed" => served[i] = {}
        BY <1>2 DEF Fresh
      <3> QED  BY <1>1, <1>2, <1>10, <2>1, <2>2, <3>1, <3>2 DEF Current, Dropping, Restoring
    <2>7. Waiting'
      BY <1>0, <1>1, <1>5, <1>10, <2>2, Kinds DEF Waiting, Quietly
    <2>8. to \in Live \/ handler \in {"fail", "on_close"}
      BY DEF Leads, Live
    <2>9. InTouch'
      <3>1. connected /\ ~loggedOut => phase[i] = "authed"
        BY <1>10, <2>3 DEF InTouch
      <3>2. phase[i] = "authed" => to = "loggedout" \/ handler \in {"fail", "on_close"}
        BY <1>1 DEF Leads
      <3> QED  BY <1>0, <1>1, <1>5, <1>10, <2>2, <3>1, <3>2 DEF InTouch
    <2>10. Held'
      BY <1>0, <1>1, <1>2, <1>3, <1>10, <2>2, <2>8, Kinds DEF Held, Linked, Rest
    <2> QED  BY <1>6, <1>7, <1>8, <2>2, <2>4, <2>5, <2>6, <2>7, <2>9, <2>10
  <1> QED  BY <1>9, <1>10

LEMMA NetworkAgrees ==
    ASSUME SerialInv, NEW i \in Sockets, Alone(i), Progress(i) \/ Trouble(i)
    PROVE  Agreed'
  <1>1. CASE Opened(i)
    BY <1>1, EventAgrees DEF Opened, Leads
  <1>2. CASE LoginOk(i)
    BY <1>2, EventAgrees DEF LoginOk, Leads
  <1>3. CASE ClientClosed(i)
    BY <1>3, EventAgrees DEF ClientClosed, Leads
  <1>4. CASE LoginDenied(i)
    BY <1>4, EventAgrees DEF LoginDenied, Leads
  <1>5. CASE Logout(i)
    BY <1>5, EventAgrees DEF Logout, Leads
  <1>6. CASE Break(i)
    BY <1>6, EventAgrees DEF Break, Leads
  <1>7. CASE ServerClose(i)
    BY <1>7, EventAgrees DEF ServerClose, Leads
  <1> QED  BY <1>1, <1>2, <1>3, <1>4, <1>5, <1>6, <1>7 DEF Progress, Trouble

LEMMA LoginAgrees ==
    ASSUME SerialInv, NEW i \in Sockets, Alone(i), Login(i)
    PROVE  Agreed'
  <1> USE DEF SerialInv, Agreed
  <1>0. i \in Threads /\ i \notin Workers /\ i \notin Callers /\ i # 0
    BY Kinds DEF Sockets
  <1>1. /\ pc[i] = "login" /\ ws = i /\ phase[i] = "open"
        /\ phase' = [phase EXCEPT ![i] = "login"] /\ pc' = [pc EXCEPT ![i] = "idle"]
        /\ UNCHANGED <<ws, connected, closing, connecting, reconnecting, state, desired, created,
                       served, syms, tries, token, owner, wish, loggedOut>>
    BY DEF Login, At, Go, Current, client, world
  <1>2. /\ phase'[i] = "login" /\ \A j \in Sockets : j # i => phase'[j] = phase[j]
    BY <1>1 DEF StreamInv, TypeOK
  <1>3. /\ owner # "new"
        /\ ~Under(Dialling) /\ ~Under(Dropping) /\ ~Under(Starting) /\ ~Under(Restoring)
        /\ ~Under(Reporting)
    BY <1>0, <1>1, Mover DEF Unopened, Still, Quietly, Rest, Dialling, Dropping, Starting,
                             Restoring, Reporting
  <1>4. /\ Placed' /\ OneAtWork'
        /\ pc'[i] = "idle" /\ \A u \in Threads : u # i => pc'[u] = pc[u] /\ pc[u] \in Rest
        /\ \A j \in Sockets : pc'[j] = "idle"
        /\ ~Under(Dialling)' /\ ~Under(Starting)' /\ ~Under(Forcing)'
        /\ NoSleeper' <=> NoSleeper
    <2>1. Fits(i, "idle")
      BY <1>0 DEF Fits, SocketPlaces
    <2> QED  BY <1>0, <1>1, <2>1, Moved DEF Dialling, Starting, Forcing
  <1>5. OneWorker'
    BY <1>0, <1>1, WorkersKept
  <1>6. Unopened' /\ Asked' /\ Shutting'
    BY <1>1, <1>3 DEF Unopened, Asked, Shutting
  <1>7. Fresh' /\ OneLive'
    BY <1>1, <1>2 DEF Fresh, OneLive
  <1>8. Told' /\ Current'
    BY <1>0, <1>1, <1>4 DEF Told, Current, Rest, Restoring
  <1>9. Waiting'
    BY <1>0, <1>1, <1>4, Kinds DEF Waiting, Quietly
  <1>10. InTouch'
    BY <1>1, <1>3 DEF InTouch
  <1>11. Held'
    BY <1>0, <1>1, <1>2, <1>4, Kinds DEF Held, Linked, Live, Rest
  <1> QED  BY <1>4, <1>5, <1>6, <1>7, <1>8, <1>9, <1>10, <1>11

LEMMA AcceptAgrees ==
    ASSUME SerialInv, NEW i \in Sockets, Alone(i), Accept(i)
    PROVE  Agreed'
  <1> USE DEF SerialInv, Agreed
  <1>0. i \in Threads /\ i \notin Workers /\ i \notin Callers /\ i # 0
    BY Kinds DEF Sockets
  <1>1. PICK q \in {"idle", "resubscribe"} :
          /\ pc' = [pc EXCEPT ![i] = q] /\ (q = "idle" <=> desired = {})
    BY DEF Accept, Restore, Go
  <1>2. /\ pc[i] = "accept" /\ ws = i /\ phase[i] = "authed" /\ served[i] = {}
        /\ connected' /\ syms' = [syms EXCEPT ![i] = desired]
        /\ UNCHANGED <<ws, closing, connecting, reconnecting, desired, created, phase, served,
                       tries, token, owner, wish, loggedOut>>
    BY DEF Accept, At, Current, net, world
  <1>3. /\ owner # "new"
        /\ ~Under(Dialling) /\ ~Under(Dropping) /\ ~Under(Starting) /\ ~Under(Restoring)
        /\ ~Under(Reporting)
    BY <1>0, <1>2, Mover DEF Unopened, Still, Quietly, Rest, Dialling, Dropping, Starting,
                             Restoring, Reporting
  <1>4. /\ Placed' /\ OneAtWork'
        /\ pc'[i] = q /\ \A u \in Threads : u # i => pc'[u] = pc[u] /\ pc[u] \in Rest
        /\ \A j \in Sockets : j # i => pc'[j] = "idle"
        /\ ~Under(Dialling)' /\ ~Under(Starting)' /\ ~Under(Forcing)'
        /\ Under(Restoring)' <=> q = "resubscribe"
        /\ NoSleeper' <=> NoSleeper
    <2>1. Fits(i, q)
      BY <1>0, <1>1 DEF Fits, SocketPlaces
    <2> QED  BY <1>0, <1>1, <1>2, <2>1, Moved DEF Dialling, Starting, Forcing, Restoring
  <1>5. OneWorker'
    BY <1>0, <1>1, <1>2, WorkersKept
  <1>6. Unopened' /\ Asked' /\ Shutting' /\ Fresh' /\ OneLive'
    BY <1>2, <1>3 DEF Unopened, Asked, Shutting, Fresh, OneLive
  <1>7. Told'
    BY <1>0, <1>1, <1>2, <1>4 DEF Told, Rest, Restoring, StreamInv, TypeOK
  <1>8. Current'
    BY <1>0, <1>1, <1>2, <1>4 DEF Current, Restoring, Dropping
  <1>9. Waiting'
    BY <1>0, <1>2, <1>4, Kinds DEF Waiting, Quietly
  <1>10. InTouch'
    BY <1>0, <1>1, <1>2, <1>4 DEF InTouch
  <1>11. Held'
    BY <1>0, <1>2, <1>4, Kinds DEF Held, Linked, Live, Rest
  <1> QED  BY <1>4, <1>5, <1>6, <1>7, <1>8, <1>9, <1>10, <1>11

\* A refused login and a logout change the state alone.
LEMMA RefusalAgrees ==
    ASSUME SerialInv, NEW i \in Sockets, Alone(i), Deny(i) \/ HandleLogout(i)
    PROVE  Agreed'
  <1> USE DEF SerialInv, Agreed
  <1>0. i \in Threads /\ i \notin Workers /\ i \notin Callers /\ i # 0
    BY Kinds DEF Sockets
  <1>1. PICK q \in {"idle", "attempt"} :
          /\ pc' = [pc EXCEPT ![i] = q] /\ (q = "attempt" => pc[i] = "logout")
          /\ pc[i] \in {"deny", "logout"} /\ state' # "CONNECTED"
    BY DEF Deny, HandleLogout, Go, At
  <1>2. /\ ws = i /\ phase[i] \in {"denied", "loggedout"} /\ (q = "attempt" => loggedOut)
    BY <1>1 DEF Current
  <1>3. UNCHANGED <<ws, connected, closing, connecting, reconnecting, desired, created, phase,
                    served, syms, tries, token, owner, wish, loggedOut>>
    BY DEF Deny, HandleLogout, net, world
  <1>4. /\ owner # "new"
        /\ ~Under(Dialling) /\ ~Under(Dropping) /\ ~Under(Starting) /\ ~Under(Restoring)
        /\ ~Under(Reporting)
    BY <1>0, <1>1, Mover DEF Unopened, Still, Quietly, Rest, Dialling, Dropping, Starting,
                             Restoring, Reporting
  <1>5. /\ Placed' /\ OneAtWork'
        /\ pc'[i] = q /\ \A u \in Threads : u # i => pc'[u] = pc[u] /\ pc[u] \in Rest
        /\ \A j \in Sockets : j # i => pc'[j] = "idle"
        /\ ~Under(Dialling)' /\ ~Under(Forcing)'
        /\ Under(Starting)' <=> q = "attempt"
        /\ NoSleeper' <=> NoSleeper
    <2>1. Fits(i, q)
      BY <1>0, <1>1 DEF Fits, SocketPlaces
    <2> QED  BY <1>0, <1>1, <2>1, Moved DEF Dialling, Starting, Forcing
  <1>6. OneWorker'
    BY <1>0, <1>1, <1>3, WorkersKept
  <1>7. Unopened' /\ Asked' /\ Shutting' /\ Fresh' /\ OneLive'
    BY <1>3, <1>4 DEF Unopened, Asked, Shutting, Fresh, OneLive
  <1>8. Told' /\ Current'
    BY <1>0, <1>1, <1>3, <1>5 DEF Told, Current, Rest, Restoring
  <1>9. Waiting'
    BY <1>0, <1>1, <1>2, <1>3, <1>5, Kinds DEF Waiting, Quietly
  <1>10. InTouch'
    BY <1>2, <1>3, <1>4 DEF InTouch
  <1>11. Held'
    BY <1>0, <1>2, <1>3, <1>5, Kinds DEF Held, Linked, Live, Rest
  <1> QED  BY <1>5, <1>6, <1>7, <1>8, <1>9, <1>10, <1>11

LEMMA FailAgrees ==
    ASSUME SerialInv, NEW i \in Sockets, Alone(i), Fail(i)
    PROVE  Agreed'
  <1> USE DEF SerialInv, Agreed
  <1>0. i \in Threads /\ i \notin Workers /\ i \notin Callers /\ i # 0
    BY Kinds DEF Sockets
  <1>1. /\ pc[i] = "fail" /\ ws = i /\ pc' = [pc EXCEPT ![i] = "attempt"]
        /\ UNCHANGED <<closing, connecting, reconnecting, desired, created, served, syms, tries,
                       token, owner, wish, loggedOut>>
    BY DEF Fail, At, Go, Current, world
  <1>2. /\ ws' = 0 /\ ~connected'
        /\ \A j \in Sockets : phase'[j] \in Live => phase[j] \in Live /\ j # ws
        /\ \A j \in Sockets :
              phase'[j] \in {"opening", "open", "login"} => phase'[j] = phase[j]
    BY <1>0, <1>1, CleanupSockets DEF Fail
  <1>3. /\ owner # "new" /\ ~Under(Dialling)
    BY <1>0, <1>1, Mover DEF Unopened, Still, Quietly, Rest, Dialling
  <1>4. loggedOut \/ NoSleeper
    BY <1>0, <1>1 DEF Waiting
  <1>5. /\ Placed' /\ OneAtWork'
        /\ pc'[i] = "attempt" /\ \A u \in Threads : u # i => pc'[u] = pc[u] /\ pc[u] \in Rest
        /\ \A j \in Sockets : j # i => pc'[j] = "idle"
        /\ ~Under(Dialling)' /\ ~Under(Forcing)' /\ Under(Starting)'
        /\ NoSleeper' <=> NoSleeper
    <2>1. Fits(i, "attempt")
      BY <1>0 DEF Fits, SocketPlaces
    <2> QED  BY <1>0, <1>1, <2>1, Moved DEF Dialling, Starting, Forcing
  <1>6. OneWorker'
    BY <1>0, <1>1, WorkersKept
  <1>7. Unopened' /\ Asked' /\ Shutting' /\ InTouch'
    BY <1>1, <1>2, <1>3 DEF Unopened, Asked, Shutting, InTouch
  <1>8. Fresh' /\ OneLive'
    BY <1>1, <1>2 DEF Fresh, OneLive, StreamInv, TypeOK
  <1>9. Told' /\ Current'
    BY <1>0, <1>1, <1>5 DEF Told, Current, Rest, Restoring
  <1>10. Waiting'
    BY <1>0, <1>1, <1>2, <1>4, <1>5, Kinds DEF Waiting, Quietly
  <1>11. Held'
    BY <1>0, <1>1, <1>2, <1>5, Kinds DEF Held, Rest
  <1> QED  BY <1>5, <1>6, <1>7, <1>8, <1>9, <1>10, <1>11

LEMMA HandleCloseAgrees ==
    ASSUME SerialInv, NEW i \in Sockets, Alone(i), HandleClose(i)
    PROVE  Agreed'
  <1> USE DEF SerialInv, Agreed
  <1>0. i \in Threads /\ i \notin Workers /\ i \notin Callers /\ i # 0
    BY Kinds DEF Sockets
  <1>1. /\ pc[i] = "on_close" /\ ws = i /\ phase[i] = "gone" /\ ~connected'
        /\ state' # "CONNECTED"
        /\ UNCHANGED <<closing, connecting, reconnecting, desired, created, served, syms, tries,
                       token, owner, wish, loggedOut>>
    BY DEF HandleClose, At, Go, Current, Dropping, world
  <1>2. \A j \in Sockets : phase'[j] = phase[j]
    BY <1>1, ShutSockets DEF HandleClose, Live
  <1>3. PICK q \in {"idle", "attempt"} :
          /\ pc' = [pc EXCEPT ![i] = q]
          /\ q = "idle" => closing /\ ws' = ws
          /\ q = "attempt" => ws' = 0
    BY <1>1 DEF HandleClose, Go
  <1>4. /\ owner # "new" /\ ~Under(Dialling)
    BY <1>0, <1>1, Mover DEF Unopened, Still, Quietly, Rest, Dialling
  <1>5. loggedOut \/ NoSleeper
    BY <1>0, <1>1 DEF Waiting
  <1>6. /\ Placed' /\ OneAtWork'
        /\ pc'[i] = q /\ \A u \in Threads : u # i => pc'[u] = pc[u] /\ pc[u] \in Rest
        /\ \A j \in Sockets : j # i => pc'[j] = "idle"
        /\ ~Under(Dialling)' /\ ~Under(Forcing)' /\ (Under(Starting)' <=> q = "attempt")
        /\ NoSleeper' <=> NoSleeper
    <2>1. Fits(i, q)
      BY <1>0, <1>3 DEF Fits, SocketPlaces
    <2> QED  BY <1>0, <1>1, <1>3, <2>1, Moved DEF Dialling, Starting, Forcing
  <1>7. OneWorker'
    BY <1>0, <1>1, <1>3, WorkersKept
  <1>8. Unopened' /\ Asked' /\ Shutting' /\ InTouch'
    BY <1>1, <1>4 DEF Unopened, Asked, Shutting, InTouch
  <1>9. Fresh' /\ OneLive'
    BY <1>1, <1>2, <1>3 DEF Fresh, OneLive, Live, StreamInv, TypeOK
  <1>10. Told' /\ Current'
    BY <1>0, <1>1, <1>3, <1>6 DEF Told, Current, Rest, Restoring
  <1>11. Waiting'
    BY <1>0, <1>1, <1>3, <1>5, <1>6, Kinds DEF Waiting, Quietly
  <1>12. Held'
    <2>1. q = "idle" => owner # "open"
      BY <1>3, <1>4 DEF Shutting
    <2> QED  BY <1>0, <1>1, <1>3, <1>6, <2>1, Kinds DEF Held, Rest
  <1> QED  BY <1>6, <1>7, <1>8, <1>9, <1>10, <1>11, <1>12

-----------------------------------------------------------------------------
(* Reconnection.                                                           *)

LEMMA AttemptAgrees ==
    ASSUME SerialInv, NEW t \in Threads, t \notin Workers, Alone(t), Attempt(t)
    PROVE  Agreed'
  <1> USE DEF SerialInv, Agreed
  <1>1. PICK q \in {"idle", "spawn"} :
          /\ pc' = [pc EXCEPT ![t] = q] /\ (q = "idle" <=> reconnecting)
    BY DEF Attempt, Go
  <1>2. /\ pc[t] = "attempt"
        /\ UNCHANGED <<ws, connected, closing, connecting, reconnecting, state, desired, created,
                       phase, served, syms, tries, token, owner, wish, loggedOut>>
    BY DEF Attempt, At, client, net, world
  <1>3. /\ owner # "new"
        /\ ~Under(Dialling) /\ ~Under(Dropping) /\ ~Under(Restoring) /\ ~Under(Reporting)
        /\ Under(Starting)
    BY <1>2, Mover DEF Unopened, Still, Quietly, Rest, Dialling, Dropping, Restoring, Reporting,
                       Starting
  <1>4. /\ Placed' /\ OneAtWork'
        /\ pc'[t] = q /\ \A u \in Threads : u # t => pc'[u] = pc[u] /\ pc[u] \in Rest
        /\ \A j \in Sockets : j # t => pc'[j] = "idle"
        /\ ~Under(Dialling)' /\ ~Under(Forcing)' /\ (Under(Starting)' <=> q = "spawn")
        /\ NoSleeper' <=> NoSleeper
    <2>1. Fits(t, q)
      BY <1>1 DEF Fits, CallerPlaces, SocketPlaces
    <2> QED  BY <1>1, <1>2, <2>1, Moved DEF Dialling, Starting, Forcing
  <1>5. OneWorker'
    BY <1>1, <1>2, WorkersKept
  <1>6. Unopened' /\ Asked' /\ Shutting' /\ Fresh' /\ OneLive'
    BY <1>2, <1>3 DEF Unopened, Asked, Shutting, Fresh, OneLive
  <1>7. Told' /\ Current'
    BY <1>1, <1>2, <1>4 DEF Told, Current, Rest, Restoring
  <1>8. Waiting'
    BY <1>2, <1>3, <1>4, Kinds DEF Waiting, Quietly
  <1>9. InTouch'
    BY <1>2, <1>3 DEF InTouch, Waiting
  <1>10. Held'
    BY <1>1, <1>2, <1>3, <1>4, Kinds DEF Held, Linked, Rest
  <1> QED  BY <1>4, <1>5, <1>6, <1>7, <1>8, <1>9, <1>10

LEMMA SpawnAgrees ==
    ASSUME SerialInv, NEW t \in Threads, t \notin Workers, Alone(t), Spawn(t)
    PROVE  Agreed'
  <1> USE DEF SerialInv, Agreed
  <1>1. PICK w \in Workers : /\ NextWorker(w)
                             /\ pc' = [pc EXCEPT ![t] = "idle", ![w] = "sleeping"]
    BY DEF Spawn
  <1>2. w \in Threads /\ w # t /\ pc[w] = "off"
    BY <1>1, Kinds DEF NextWorker, At
  <1>3. /\ pc[t] = "spawn" /\ reconnecting' /\ state' # "CONNECTED"
        /\ UNCHANGED <<ws, connected, closing, connecting, desired, created,
                       phase, served, syms, tries, token, owner, wish, loggedOut>>
    BY DEF Spawn, At, net, world
  <1>4. ~reconnecting
    BY <1>3 DEF Told
  <1>5. /\ owner # "new"
        /\ ~Under(Dialling) /\ ~Under(Dropping) /\ ~Under(Restoring) /\ ~Under(Reporting)
        /\ Under(Starting) /\ \A u \in Threads : u # t => pc[u] \in Rest
    BY <1>3, Mover DEF Unopened, Still, Quietly, Rest, Dialling, Dropping, Restoring, Reporting,
                       Starting
  <1>6. /\ pc'[t] = "idle" /\ pc'[w] = "sleeping"
        /\ \A u \in Threads : u # t /\ u # w => pc'[u] = pc[u]
        /\ \A u \in Threads : pc'[u] \in Rest
    BY <1>1, <1>2, <1>5 DEF StreamInv, TypeOK, Rest
  <1>7. Placed' /\ OneAtWork'
    BY <1>2, <1>6, Kinds DEF Placed, CallerPlaces, SocketPlaces, WorkerPlaces, OneAtWork, Quietly
  <1>8. /\ ~Under(Dialling)' /\ ~Under(Forcing)' /\ ~Under(Starting)'
    BY <1>6 DEF Under, Rest, Dialling, Forcing, Starting
  <1>9. OneWorker'
    <2>1. \A v \in Workers : ~Reconnects(v)
      BY <1>4 DEF OneWorker
    <2> QED  BY <1>2, <1>3, <1>6, <2>1, Kinds DEF OneWorker, Reconnects
  <1>10. Unopened' /\ Asked' /\ Shutting' /\ Fresh' /\ OneLive'
    BY <1>3, <1>5 DEF Unopened, Asked, Shutting, Fresh, OneLive
  <1>11. Told' /\ Current'
    <2>1. \A i \in Sockets : pc'[i] = "idle"
      BY <1>6, <1>7, Kinds DEF Placed, SocketPlaces, Rest
    <2> QED  BY <1>6, <2>1 DEF Told, Current, Rest, Restoring
  <1>12. Waiting'
    BY <1>3, <1>5, <1>6, <1>8, Kinds DEF Waiting, Quietly
  <1>13. InTouch'
    BY <1>3, <1>5 DEF InTouch, Waiting
  <1>14. Held'
    BY <1>3, <1>5, <1>6, Kinds DEF Held, Linked, Rest
  <1> QED  BY <1>7, <1>9, <1>10, <1>11, <1>12, <1>13, <1>14

LEMMA WakeAgrees ==
    ASSUME SerialInv, NEW w \in Workers, Alone(w), Wake(w)
    PROVE  Agreed'
  <1> USE DEF SerialInv, Agreed
  <1>0. w \in Threads /\ w \notin Callers /\ w \notin Sockets
    BY Kinds
  <1>1. /\ pc[w] = "sleeping"
        /\ UNCHANGED <<ws, connected, closing, connecting, reconnecting, desired, created,
                       phase, served, syms, owner, wish, loggedOut>>
    BY DEF Wake, At, net
  <1>2. PICK q \in {"connect", "down"} :
          /\ pc' = [pc EXCEPT ![w] = q]
          /\ (q = "connect" => token')
    BY DEF Wake, Go
  <1>3. /\ owner # "new" /\ ~NoSleeper
        /\ ~Under(Dialling) /\ ~Under(Dropping) /\ ~Under(Starting) /\ ~Under(Restoring)
        /\ ~Under(Reporting)
        /\ \A u \in Threads : u # w => pc[u] \in Rest
    BY <1>0, <1>1, Mover DEF Unopened, NoSleeper, Dialling, Dropping, Starting, Restoring,
                             Reporting
  <1>4. reconnecting /\ \A v \in Workers : v # w => pc[v] # "sleeping"
    BY <1>1 DEF OneWorker, Reconnects
  <1>5. /\ Placed' /\ OneAtWork'
        /\ pc'[w] = q /\ \A u \in Threads : u # w => pc'[u] = pc[u] /\ pc[u] \in Rest
        /\ \A j \in Sockets : pc'[j] = "idle"
        /\ (Under(Dialling)' <=> q = "connect") /\ ~Under(Forcing)' /\ ~Under(Starting)'
    <2>1. Fits(w, q)
      BY <1>0, <1>2 DEF Fits, WorkerPlaces
    <2> QED  BY <1>0, <1>1, <1>2, <2>1, Moved DEF Dialling, Starting, Forcing
  <1>6. NoSleeper'
    BY <1>0, <1>2, <1>4, <1>5, Kinds DEF NoSleeper
  <1>7. OneWorker'
    BY <1>0, <1>1, <1>2, WorkersKept DEF Reconnects
  <1>8. Unopened' /\ Asked' /\ Shutting' /\ Fresh' /\ OneLive'
    BY <1>1, <1>3 DEF Unopened, Asked, Shutting, Fresh, OneLive
  <1>9. Told' /\ Current'
    BY <1>0, <1>1, <1>2, <1>5 DEF Told, Current, Rest, Restoring
  <1>10. Waiting'
    BY <1>0, <1>1, <1>3, <1>5, <1>6, Kinds DEF Waiting, Quietly
  <1>11. InTouch'
    BY <1>1, <1>3 DEF InTouch, Waiting
  <1>12. Held'
    BY <1>0, <1>1, <1>2, <1>3, <1>4, <1>5, Kinds DEF Held, Linked, Rest
  <1> QED  BY <1>5, <1>7, <1>8, <1>9, <1>10, <1>11, <1>12

\* The three ways a worker's work comes to its end.
LEMMA WorkerEndAgrees ==
    ASSUME SerialInv, NEW w \in Workers, Alone(w), FinishWorker(w) \/ Down(w) \/ Report(w)
    PROVE  Agreed'
  <1> USE DEF SerialInv, Agreed
  <1>0. w \in Threads /\ w \notin Callers /\ w \notin Sockets
    BY Kinds
  <1>1. UNCHANGED <<ws, connected, closing, connecting, desired, created, phase, served, syms,
                    tries, token, owner, wish, loggedOut>>
    BY DEF FinishWorker, Down, Report, net, world
  <1>2. PICK q \in {"done", "report"} :
          /\ pc' = [pc EXCEPT ![w] = q]
          /\ \/ /\ pc[w] = "finish" /\ q = "done" /\ ~reconnecting' /\ state' = state
             \/ /\ pc[w] = "down" /\ q = "report" /\ ~reconnecting' /\ state' = "DOWN"
             \/ /\ pc[w] = "report" /\ q = "done" /\ reconnecting' = reconnecting
                /\ state' = "STREAM_DOWN"
    BY DEF FinishWorker, Down, Report, ClearFlag, At, Go
  <1>3. /\ owner # "new" /\ pc[w] \notin Rest
        /\ ~Under(Dialling) /\ ~Under(Dropping) /\ ~Under(Starting) /\ ~Under(Restoring)
    BY <1>0, <1>2, Mover DEF Unopened, Still, Quietly, Rest, Dialling, Dropping, Starting,
                             Restoring
  <1>4. /\ Placed' /\ OneAtWork'
        /\ pc'[w] = q /\ \A u \in Threads : u # w => pc'[u] = pc[u] /\ pc[u] \in Rest
        /\ \A j \in Sockets : pc'[j] = "idle"
        /\ ~Under(Dialling)' /\ ~Under(Forcing)' /\ ~Under(Starting)'
        /\ (Under(Reporting)' <=> q = "report")
        /\ NoSleeper' <=> NoSleeper
    <2>1. Fits(w, q)
      BY <1>0, <1>2 DEF Fits, WorkerPlaces
    <2> QED  BY <1>0, <1>2, <2>1, Moved DEF Dialling, Starting, Forcing, Reporting
  <1>5. OneWorker'
    <2>1. CASE pc[w] = "report"
      BY <1>0, <1>2, <2>1, WorkersKept
    <2>2. CASE pc[w] # "report"
      <3>1. \A v \in Workers : v # w => ~Reconnects(v)
        BY <1>2, <2>2 DEF OneWorker, Reconnects
      <3> QED  BY <1>0, <1>2, <1>4, <3>1, Kinds DEF OneWorker, Reconnects
    <2> QED  BY <2>1, <2>2
  <1>6. Unopened' /\ Asked' /\ Shutting' /\ Fresh' /\ OneLive'
    BY <1>1, <1>3 DEF Unopened, Asked, Shutting, Fresh, OneLive
  <1>7. Told' /\ Current'
    BY <1>0, <1>1, <1>2, <1>4 DEF Told, Current, Rest, Restoring
  <1>8. ~loggedOut => ~connected /\ (~NoSleeper => ws = 0)
    BY <1>3 DEF Waiting, Quietly
  <1>9. ~NoSleeper => state' # "CONNECTED" \/ loggedOut
    BY <1>2 DEF Waiting
  <1>10. Waiting'
    BY <1>1, <1>4, <1>8, <1>9 DEF Waiting
  <1>11. InTouch'
    BY <1>1, <1>8 DEF InTouch
  <1>12. Held'
    BY <1>0, <1>1, <1>2, <1>3, <1>4, Kinds DEF Held, Linked, Rest
  <1> QED  BY <1>4, <1>5, <1>6, <1>7, <1>10, <1>11, <1>12

-----------------------------------------------------------------------------
(* Every step, and the theorems.                                           *)

LEMMA InitAgrees == Init => SerialInv
  <1> SUFFICES ASSUME Init PROVE Agreed
    BY InitStream DEF SerialInv
  <1>1. /\ \A c \in Callers : pc[c] = "idle"
        /\ \A i \in Sockets : pc[i] = "idle"
        /\ \A w \in Workers : pc[w] = "off"
    BY Kinds DEF Init
  <1>2. \A t \in Threads : pc[t] \in {"idle", "off"}
    BY <1>1 DEF Threads
  <1>3. Placed /\ OneAtWork /\ OneWorker
    BY <1>1, <1>2 DEF Placed, CallerPlaces, SocketPlaces, WorkerPlaces, OneAtWork, Quietly, Rest,
                      OneWorker, Reconnects
  <1>4. Unopened /\ Fresh /\ Asked /\ Shutting /\ InTouch /\ Held
    BY <1>1, <1>2 DEF Init, Unopened, Still, Quietly, Rest, NoSleeper, Fresh, Asked, Shutting,
                      InTouch, Held
  <1>5. Told /\ Current /\ OneLive
    BY <1>1, <1>2 DEF Init, Told, Restoring, Current, OneLive, Live
  <1>6. Waiting
    BY <1>1, <1>2 DEF Waiting, Init, NoSleeper, Under, Dialling, Forcing, Starting, Quietly, Rest
  <1> QED  BY <1>3, <1>4, <1>5, <1>6 DEF Agreed

\* A step of a thread that has the client to itself is a step of the client.
LEMMA SerialIsNext == SerialNext => Next
  BY DEF SerialNext, Next

LEMMA SerialStep == SerialInv /\ [SerialNext]_vars => SerialInv'
  <1> SUFFICES ASSUME SerialInv, [SerialNext]_vars PROVE Agreed'
    BY StreamStep, SerialIsNext DEF SerialInv
  <1>1. ASSUME NEW c \in Callers, Alone(c), CallerStart(c) \/ CallerStep(c) PROVE Agreed'
    <2>0. c \in Threads /\ c \notin Sockets /\ c \notin Workers
      BY Kinds
    <2>1. CASE CallerStart(c)
      BY <1>1, <2>1, OpenAgrees, UseAgrees, CloseAgrees, TokenRefreshedAgrees DEF CallerStart
    <2>2. CASE CallerStep(c)
      BY <1>1, <2>0, <2>2, DisconnectAgrees, ListenAgrees, ForceReconnectAgrees, SubscribeAgrees,
         UnsubscribeAgrees, SendAgrees, ResendAgrees, SkipResendAgrees, ConnectAgrees, DialAgrees,
         AttemptAgrees, SpawnAgrees DEF CallerStep
    <2> QED  BY <1>1, <2>1, <2>2
  <1>2. ASSUME NEW i \in Sockets, Alone(i), Progress(i) \/ Trouble(i) \/ SocketStep(i)
        PROVE  Agreed'
    <2>0. i \in Threads /\ i \notin Workers
      BY Kinds
    <2>1. CASE Progress(i) \/ Trouble(i)
      BY <1>2, <2>1, NetworkAgrees
    <2>2. CASE SocketStep(i)
      <3>1. ~OnError(i)
        BY DEF OnError, At, SerialInv, Agreed, Placed, SocketPlaces
      <3> QED  BY <1>2, <2>0, <2>2, <3>1, LoginAgrees, AcceptAgrees, RefusalAgrees, FailAgrees,
                  HandleCloseAgrees, SubscribeAgrees, SendAgrees, AttemptAgrees, SpawnAgrees
                  DEF SocketStep
    <2> QED  BY <1>2, <2>1, <2>2
  <1>3. ASSUME NEW w \in Workers, Alone(w), WorkerStep(w) PROVE Agreed'
    <2>0. w \in Threads /\ w \notin Sockets
      BY Kinds
    <2> QED  BY <1>3, <2>0, WakeAgrees, ConnectAgrees, DialAgrees, ResendAgrees, SkipResendAgrees,
                SubscribeAgrees, SendAgrees, WorkerEndAgrees DEF WorkerStep
  <1>4. CASE Still /\ TokenLost
    BY <1>4, TokenLostAgrees
  <1>5. CASE UNCHANGED vars
    BY <1>5 DEF SerialInv, Agreed, vars, client, net, local, world, Placed, OneAtWork, Alone,
                Quietly, OneWorker, Reconnects, Unopened, Still, NoSleeper, Fresh, Asked, Told,
                Current, Waiting, Under, Shutting, InTouch, OneLive, Held, Linked
  <1> QED  BY <1>1, <1>2, <1>3, <1>4, <1>5 DEF SerialNext

THEOREM SerialInvariant == SerialSpec => []SerialInv
  <1>1. Init => SerialInv
    BY InitAgrees
  <1>2. SerialInv /\ [SerialNext]_vars => SerialInv'
    BY SerialStep
  <1> QED  BY <1>1, <1>2, PTL DEF SerialSpec

\* At rest no thread is at work.
LEMMA AtRest ==
    ASSUME Still
    PROVE  /\ ~Under(Dialling) /\ ~Under(Dropping) /\ ~Under(Starting) /\ ~Under(Restoring)
           /\ ~Under(Reporting) /\ \A t \in Threads : pc[t] # "send_unsub"
  BY DEF Still, Quietly, Rest, Under, Dialling, Dropping, Starting, Restoring, Reporting

\* One method or callback at a time, the client's fields agree with its socket,
\* with what the server streams and with what the runtime asked for: nothing
\* undoes a request, "connected" is a logged-in socket that streams exactly the
\* desired symbols, and no replaced socket stays open (SchwabStreamClient).
THEOREM ClientKeepsAgreement == SerialSpec => []ClientAgrees
  <1>1. SerialInv => ClientAgrees
    <2> SUFFICES ASSUME SerialInv PROVE ClientAgrees
      OBVIOUS
    <2>1. RequestKept
      BY DEF SerialInv, Agreed, Asked, RequestKept
    <2>2. ConnectedMeansServed
      BY AtRest DEF SerialInv, Agreed, InTouch, ConnectedMeansServed
    <2>3. OneSocket
      BY DEF SerialInv, Agreed, OneLive, OneSocket
    <2> QED  BY <2>1, <2>2, <2>3 DEF ClientAgrees
  <1> QED  BY <1>1, SerialInvariant, PTL

\* One method or callback at a time, a stream the runtime holds has a socket,
\* or a worker to come, or a state that says it gave up
\* (SchwabStreamClient._attempt_reconnect).
THEOREM NoneIsStranded == SerialSpec => []NoneStranded
  <1>1. SerialInv => NoneStranded
    BY AtRest DEF SerialInv, Agreed, Held, Linked, NoneStranded
  <1> QED  BY <1>1, SerialInvariant, PTL
=============================================================================
