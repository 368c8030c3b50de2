----------------------------- MODULE SchwabStream -----------------------------
(***************************************************************************)
(* The connection of SchwabStreamClient (clients/schwab_stream.py): the    *)
(* current WebSocket, the flags that describe it, the set of level-one     *)
(* symbols to restore, and the worker that reconnects.  The class takes no *)
(* lock around any of them, and its methods run on the caller's thread, on *)
(* the thread of each WebSocketApp (on_open, on_message, on_error,         *)
(* on_close) and on reconnect workers.                                     *)
(*                                                                         *)
(* Grain: a step reads the flags and leaves, or does one group of          *)
(* assignments; a callback's test "ws is not self._ws", a send on the      *)
(* socket, a token lookup and the start of a thread separate steps.        *)
(*                                                                         *)
(* Abstracted: a socket is a number, the newest the largest; the token     *)
(* lookup succeeds or fails; back-off delays are a worker that sleeps.     *)
(* Charts, quotes and _active_symbol (None in the web runtime) are left    *)
(* out.  The WebSocket library and the Schwab server are external.         *)
(***************************************************************************)
EXTENDS Naturals

CONSTANTS
    Callers,     \* threads of the runtime that call the client
    Symbols,     \* ticker symbols
    MaxSockets,  \* bound: WebSocketApps ever created
    MaxWorkers,  \* bound: reconnect workers ever started
    MaxRetries,  \* _max_retries
    MaxCalls,    \* bound: calls made by the runtime and the token listener
    MaxFaults    \* bound: breaks, closes, logouts and refusals by the server

Sockets == 1 .. MaxSockets
Workers == (MaxSockets + 1) .. (MaxSockets + MaxWorkers)
Threads == Callers \cup Sockets \cup Workers

ASSUME StreamBounds ==
    /\ MaxSockets \in Nat /\ MaxWorkers \in Nat
    /\ MaxRetries \in Nat \ {0}
    /\ MaxCalls \in Nat /\ MaxFaults \in Nat

\* The thread of a socket is named by the socket.
ASSUME StreamThreads == Callers \cap (Sockets \cup Workers) = {}

\* The life of a socket as the library and the server see it.  "opening":
\* run_forever is connecting; "login": LOGIN sent, no answer yet; "closing":
\* close() called by the client; "gone": run_forever is over.
Phases == {"unused", "opening", "open", "login", "authed", "denied", "loggedout",
           "closing", "gone"}
Live == {"opening", "open", "login", "authed", "denied", "loggedout"}
Sendable == Live \ {"opening"}

\* What _emit_state stores and publishes.
States == {"DISCONNECTED", "CONNECTING", "CONNECTED", "RECONNECTING", "ERROR",
           "LOGIN_FAILED", "AUTH_REQUIRED", "DOWN", "STREAM_DOWN"}

Rest == {"idle", "sleeping", "off", "done"}
Working == {"connect", "dial", "subscribe", "resubscribe", "send", "unsubscribe", "send_unsub",
            "resend", "disconnect", "listen", "force", "login", "accept", "deny", "logout",
            "on_error", "fail", "on_close", "attempt", "spawn", "resub", "finish", "down",
            "report"}

VARIABLES
    ws,            \* _ws, 0 for None
    connected,     \* _connected
    closing,       \* _closing
    connecting,    \* _connecting
    reconnecting,  \* _reconnecting
    state,         \* _connection_state
    desired,       \* _level_one_symbols
    created,       \* _conn_id: sockets created so far
    phase,         \* phase[i] of socket i
    served,        \* served[i]: the symbols the server streams on socket i
    pc, syms,      \* where a thread is, and the symbols its call works on
    tries,         \* tries[w]: attempts of worker w
    token,         \* whether the token provider holds an access token
    owner,         \* the runtime's reference: "new", "open", "closed"
    wish,          \* history: the symbols the runtime last asked for
    loggedOut,     \* history: the server sent LOGOUT at least once
    calls, faults  \* bound counters

client == <<ws, connected, closing, connecting, reconnecting, state, desired, created>>
net == <<phase, served>>
local == <<pc, syms, tries>>
world == <<token, owner, wish, loggedOut, calls, faults>>
vars == <<client, net, local, world>>

Init ==
    /\ ws = 0 /\ created = 0
    /\ connected = FALSE /\ closing = FALSE
    /\ connecting = FALSE /\ reconnecting = FALSE
    /\ state = "DISCONNECTED"
    /\ desired = {} /\ wish = {}
    /\ phase = [i \in Sockets |-> "unused"]
    /\ served = [i \in Sockets |-> {}]
    /\ pc = [t \in Threads |-> IF t \in Workers THEN "off" ELSE "idle"]
    /\ syms = [t \in Threads |-> {}]
    /\ tries = [w \in Workers |-> 0]
    /\ token = TRUE /\ owner = "new" /\ loggedOut = FALSE
    /\ calls = 0 /\ faults = 0

-----------------------------------------------------------------------------
(* Shared pieces.                                                          *)

At(t, where) == pc[t] = where
Go(t, next) == pc' = [pc EXCEPT ![t] = next]
Quietly(t) == pc[t] \in Rest

Shut(i) == phase' = [phase EXCEPT ![i] = IF @ \in Live THEN "closing" ELSE @]

\* Mutant: the socket is forgotten but not closed.
CleanupOpen(i) ==
    IF ws = i /\ i # 0
    THEN ws' = 0 /\ connected' = FALSE /\ UNCHANGED phase
    ELSE UNCHANGED <<ws, connected, phase>>

\* _cleanup_socket: only the current socket is closed and forgotten.
Cleanup(i) ==
    IF ws = i /\ i # 0
    THEN ws' = 0 /\ connected' = FALSE /\ Shut(i)
    ELSE UNCHANGED <<ws, connected, phase>>

\* disconnect(): _ws is kept.
CloseStream ==
    /\ IF ws # 0 THEN closing' = TRUE /\ Shut(ws) ELSE UNCHANGED <<closing, phase>>
    /\ connected' = FALSE
    /\ state' = "DISCONNECTED"

Fault == faults < MaxFaults /\ faults' = faults + 1
NoFault == UNCHANGED faults

\* Where a thread goes when the method it called returns, and when it raises.
\* An exception in a callback is handed by the library to on_error; one in
\* the worker costs an attempt.
AfterReturn(t) == IF t \in Workers THEN "finish" ELSE "idle"

\* Mutant: one attempt too many.
AfterRaiseOnceMore(t) ==
    IF t \in Sockets THEN "on_error"
    ELSE IF t \in Callers THEN "idle"
    ELSE IF tries[t] <= MaxRetries THEN "sleeping" ELSE "down"

AfterRaise(t) ==
    IF t \in Sockets THEN "on_error"
    ELSE IF t \in Callers THEN "idle"
    ELSE IF tries[t] < MaxRetries THEN "sleeping" ELSE "down"

-----------------------------------------------------------------------------
(* Calls of the runtime.                                                   *)

Call(c, op, symbols) ==
    /\ At(c, "idle")
    /\ calls < MaxCalls
    /\ calls' = calls + 1
    /\ Go(c, op)
    /\ syms' = [syms EXCEPT ![c] = symbols]
    /\ UNCHANGED <<tries, loggedOut, faults, net>>

\* _ensure_stream: the client is published, seeded with the desired symbols
\* before login, and connected.
Open(c) ==
    /\ owner = "new"
    /\ owner' = "open"
    /\ \E S \in SUBSET Symbols :
          Call(c, "connect", {}) /\ desired' = S /\ wish' = S
    /\ UNCHANGED <<ws, connected, closing, connecting, reconnecting, state, created, token>>

\* The runtime never subscribes to an empty set; the freshness watchdog acts
\* only while seconds_since_last_level_one() has an age, when connected.
Use(c) ==
    /\ owner = "open"
    /\ \/ \E S \in (SUBSET Symbols) \ {{}} : Call(c, "subscribe", S)
       \/ \E s \in Symbols : Call(c, "unsubscribe", {s})
       \/ connected /\ Call(c, "resend", {})
       \/ connected /\ faults < MaxFaults /\ Call(c, "force", {})
    /\ UNCHANGED <<client, token, owner, wish>>

\* stop() and the re-authorisation drop the reference, then disconnect.
Close(c) ==
    /\ owner = "open"
    /\ owner' = "closed"
    /\ Call(c, "disconnect", {})
    /\ UNCHANGED <<client, token, wish>>

\* The token provider keeps the listener for ever, whatever the owner did.
TokenRefreshed(c) ==
    /\ owner # "new"
    /\ Call(c, "listen", {})
    /\ token' = TRUE
    /\ UNCHANGED <<client, owner, wish>>

\* The token expires and the helper refuses another, for now.
TokenLost ==
    /\ token
    /\ Fault
    /\ token' = FALSE
    /\ UNCHANGED <<client, net, local, owner, wish, loggedOut, calls>>

Disconnect(c) ==
    /\ At(c, "disconnect")
    /\ CloseStream
    /\ Go(c, "idle")
    /\ UNCHANGED <<ws, connecting, reconnecting, desired, created, served, syms, tries, world>>

\* _on_token_refreshed: restart the stream with the new token, if there is one
\* and no connect() is under way.
Restarts == ~connecting /\ (connected \/ state = "CONNECTED")

Listen(c) ==
    /\ At(c, "listen")
    /\ \/ /\ ~Restarts
          /\ Go(c, "idle")
          /\ UNCHANGED <<closing, phase, connected, state>>
       \/ /\ Restarts
          /\ CloseStream
          /\ Go(c, "connect")
    /\ UNCHANGED <<ws, connecting, reconnecting, desired, created, served, syms, tries, world>>

\* force_reconnect: the current socket is dropped, then _attempt_reconnect.
ForceReconnect(c) ==
    /\ At(c, "force")
    /\ IF ws # 0 THEN Cleanup(ws) ELSE connected' = FALSE /\ UNCHANGED <<ws, phase>>
    /\ Go(c, "attempt")
    /\ UNCHANGED <<closing, connecting, reconnecting, state, desired, created, served,
                   syms, tries, world>>

-----------------------------------------------------------------------------
(* connect(), on the thread of a caller or of a worker.                    *)

Connect(t) ==
    /\ At(t, "connect")
    /\ state' = "CONNECTING"
    /\ connecting' = TRUE
    /\ Go(t, "dial")
    /\ UNCHANGED <<ws, connected, closing, reconnecting, desired, created, net, syms, tries, world>>

\* Mutant: the flag of an earlier disconnect() stays.
KeepClosing == UNCHANGED closing

ResetClosing == closing' = FALSE

\* With a token, held or fetched now, a new socket replaces the current one,
\* whatever its phase; without one connect() returns all the same.
Dial(t) ==
    /\ At(t, "dial")
    /\ connecting' = FALSE
    /\ \/ /\ created < MaxSockets
          /\ token' = TRUE
          /\ created' = created + 1
          /\ ws' = created'
          /\ phase' = [phase EXCEPT ![created'] = "opening"]
          /\ ResetClosing
          /\ UNCHANGED state
       \/ /\ ~token
          /\ state' = "AUTH_REQUIRED"
          /\ UNCHANGED <<token, ws, closing, created, phase>>
    /\ Go(t, IF t \in Workers THEN "resub" ELSE "idle")
    /\ UNCHANGED <<connected, reconnecting, desired, served, syms, tries,
                   owner, wish, loggedOut, calls, faults>>

-----------------------------------------------------------------------------
(* Subscriptions.                                                          *)

\* subscribe_level_one_symbols, first half: the set to restore is replaced.
\* A "resubscribe" carries the set its caller read a step earlier.
Subscribe(t) ==
    /\ pc[t] \in {"subscribe", "resubscribe"}
    /\ desired' = syms[t]
    /\ wish' = IF At(t, "subscribe") THEN syms[t] ELSE wish
    /\ Go(t, "send")
    /\ UNCHANGED <<ws, connected, closing, connecting, reconnecting, state, created, net,
                   syms, tries, token, owner, loggedOut, calls, faults>>

\* Mutant: the symbol is dropped only if UNSUBS can be sent.
RemainingIfSent(t) == IF connected /\ ws # 0 THEN desired \ syms[t] ELSE desired

Remaining(t) == desired \ syms[t]

Unsubscribe(t) ==
    /\ At(t, "unsubscribe")
    /\ desired' = Remaining(t)
    /\ wish' = wish \ syms[t]
    /\ Go(t, "send_unsub")
    /\ UNCHANGED <<ws, connected, closing, connecting, reconnecting, state, created, net,
                   syms, tries, token, owner, loggedOut, calls, faults>>

\* Second half: SUBS replaces what the server streams, UNSUBS takes away from
\* it; the server heeds neither before login.  A send on a socket that is not
\* open raises.
Serve(symbols) ==
    served' = IF phase[ws] = "authed" THEN [served EXCEPT ![ws] = symbols] ELSE served

Send(t) ==
    /\ pc[t] \in {"send", "send_unsub"}
    /\ \/ /\ ~connected \/ ws = 0 \/ (At(t, "send") /\ syms[t] = {})
          /\ Go(t, AfterReturn(t))
          /\ UNCHANGED served
       \/ /\ connected /\ ws # 0
          /\ At(t, "send") => syms[t] # {}
          /\ \/ /\ phase[ws] \in Sendable
                /\ Serve(IF At(t, "send") THEN syms[t] ELSE served[ws] \ syms[t])
                /\ Go(t, AfterReturn(t))
             \/ /\ phase[ws] \notin Sendable
                /\ Go(t, AfterRaise(t))
                /\ UNCHANGED served
    /\ UNCHANGED <<client, phase, syms, tries, world>>

\* refresh_level_one_subscription, and the worker after connect(): the set is
\* read here and written back by Subscribe.
Resend(t) ==
    /\ \/ At(t, "resend") /\ connected /\ ws # 0
       \/ At(t, "resub")
    /\ desired # {}
    /\ syms' = [syms EXCEPT ![t] = desired]
    /\ Go(t, "resubscribe")
    /\ UNCHANGED <<client, net, tries, world>>

SkipResend(t) ==
    /\ \/ At(t, "resend") /\ (~connected \/ ws = 0 \/ desired = {})
       \/ At(t, "resub") /\ desired = {}
    /\ Go(t, AfterReturn(t))
    /\ UNCHANGED <<client, net, syms, tries, world>>

-----------------------------------------------------------------------------
(* Callbacks on the thread of socket i.  The event comes with the test that *)
(* the socket is still the current one; the handler's body is a later step. *)

Deliver(i, handler) == IF ws = i THEN Go(i, handler) ELSE UNCHANGED pc

Event(i, from, to, handler) ==
    /\ At(i, "idle")
    /\ phase[i] \in from
    /\ phase' = [phase EXCEPT ![i] = to]
    /\ Deliver(i, handler)
    /\ UNCHANGED <<client, served, syms, tries, token, owner, wish, calls>>

Opened(i) == Event(i, {"opening"}, "open", "login") /\ NoFault /\ UNCHANGED loggedOut
LoginOk(i) == Event(i, {"login"}, "authed", "accept") /\ NoFault /\ UNCHANGED loggedOut
LoginDenied(i) == Event(i, {"login"}, "denied", "deny") /\ Fault /\ UNCHANGED loggedOut
Logout(i) == Event(i, {"authed"}, "loggedout", "logout") /\ Fault /\ loggedOut' = TRUE
Break(i) == Event(i, Live, "gone", "fail") /\ Fault /\ UNCHANGED loggedOut
ServerClose(i) == Event(i, Live, "gone", "on_close") /\ Fault /\ UNCHANGED loggedOut
ClientClosed(i) == Event(i, {"closing"}, "gone", "on_close") /\ NoFault /\ UNCHANGED loggedOut

\* on_open sends LOGIN; a send on a closed socket is handled like an error.
Login(i) ==
    /\ At(i, "login")
    /\ \/ /\ phase[i] = "open"
          /\ phase' = [phase EXCEPT ![i] = "login"]
          /\ Go(i, "idle")
       \/ /\ phase[i] # "open"
          /\ Go(i, "fail")
          /\ UNCHANGED phase
    /\ UNCHANGED <<client, served, syms, tries, world>>

\* Mutant: a login restores nothing.
RestoreNothing(i) == Go(i, "idle")

Restore(i) == Go(i, IF desired = {} THEN "idle" ELSE "resubscribe")

\* on_message, LOGIN with code 0: connected, then the symbols are restored.
Accept(i) ==
    /\ At(i, "accept")
    /\ connected' = TRUE
    /\ state' = "CONNECTED"
    /\ syms' = [syms EXCEPT ![i] = desired]
    /\ Restore(i)
    /\ UNCHANGED <<ws, closing, connecting, reconnecting, desired, created, net, tries, world>>

Deny(i) ==
    /\ At(i, "deny")
    /\ state' = "LOGIN_FAILED"
    /\ Go(i, "idle")
    /\ UNCHANGED <<ws, connected, closing, connecting, reconnecting, desired, created, net,
                   syms, tries, world>>

\* on_message, LOGOUT: neither _ws nor _connected changes.
HandleLogout(i) ==
    /\ At(i, "logout")
    /\ state' = "DISCONNECTED"
    /\ Go(i, "attempt")
    /\ UNCHANGED <<ws, connected, closing, connecting, reconnecting, desired, created, net,
                   syms, tries, world>>

\* An exception of on_message reaches on_error through the library.
OnError(i) ==
    /\ At(i, "on_error")
    /\ Go(i, IF ws = i THEN "fail" ELSE "idle")
    /\ UNCHANGED <<client, net, syms, tries, world>>

\* The body of on_error, and of on_open when LOGIN cannot be sent.
Fail(i) ==
    /\ At(i, "fail")
    /\ Cleanup(i)
    /\ state' = "ERROR"
    /\ Go(i, "attempt")
    /\ UNCHANGED <<closing, connecting, reconnecting, desired, created, served, syms, tries, world>>

HandleClose(i) ==
    /\ At(i, "on_close")
    /\ connected' = FALSE
    /\ state' = "DISCONNECTED"
    /\ \/ /\ closing
          /\ Go(i, "idle")
          /\ UNCHANGED <<ws, phase>>
       \/ /\ ~closing
          /\ IF ws = i THEN ws' = 0 /\ Shut(i) ELSE UNCHANGED <<ws, phase>>
          /\ Go(i, "attempt")
    /\ UNCHANGED <<closing, connecting, reconnecting, desired, created, served, syms, tries, world>>

-----------------------------------------------------------------------------
(* Reconnection.                                                           *)

\* _attempt_reconnect: one worker at a time, as far as the flag tells.
Attempt(t) ==
    /\ At(t, "attempt")
    /\ Go(t, IF reconnecting THEN "idle" ELSE "spawn")
    /\ UNCHANGED <<client, net, syms, tries, world>>

NextWorker(w) == At(w, "off") /\ \A v \in Workers : v < w => ~At(v, "off")

Spawn(t) ==
    /\ At(t, "spawn")
    /\ reconnecting' = TRUE
    /\ state' = "RECONNECTING"
    /\ \E w \in Workers :
          /\ NextWorker(w)
          /\ pc' = [pc EXCEPT ![t] = "idle", ![w] = "sleeping"]
    /\ UNCHANGED <<ws, connected, closing, connecting, desired, created, net, syms, tries, world>>

\* After the back-off: streamer info and token are looked up again.
Wake(w) ==
    /\ At(w, "sleeping")
    /\ tries' = [tries EXCEPT ![w] = @ + 1]
    /\ \/ Go(w, "connect") /\ token' = TRUE /\ UNCHANGED state
       \/ ~token /\ Go(w, "down") /\ state' = "AUTH_REQUIRED" /\ UNCHANGED token
    /\ UNCHANGED <<ws, connected, closing, connecting, reconnecting, desired, created, net,
                   syms, owner, wish, loggedOut, calls, faults>>

\* Mutant: a worker ends with its flag still up.
KeepFlag == UNCHANGED reconnecting

ClearFlag == reconnecting' = FALSE

\* connect() and the subscription returned: the flag falls, whatever became
\* of the socket meanwhile.
FinishWorker(w) ==
    /\ At(w, "finish")
    /\ ClearFlag
    /\ Go(w, "done")
    /\ UNCHANGED <<ws, connected, closing, connecting, state, desired, created, net,
                   syms, tries, world>>

Down(w) ==
    /\ At(w, "down")
    /\ ClearFlag
    /\ state' = "DOWN"
    /\ Go(w, "report")
    /\ UNCHANGED <<ws, connected, closing, connecting, desired, created, net, syms, tries, world>>

Report(w) ==
    /\ At(w, "report")
    /\ state' = "STREAM_DOWN"
    /\ Go(w, "done")
    /\ UNCHANGED <<ws, connected, closing, connecting, reconnecting, desired, created, net,
                   syms, tries, world>>

-----------------------------------------------------------------------------
(* The specification.                                                      *)

CallerStart(c) == Open(c) \/ Use(c) \/ Close(c) \/ TokenRefreshed(c)
CallerStep(c) ==
    \/ Disconnect(c) \/ Listen(c) \/ ForceReconnect(c)
    \/ Subscribe(c) \/ Unsubscribe(c) \/ Send(c) \/ Resend(c) \/ SkipResend(c)
    \/ Connect(c) \/ Dial(c) \/ Attempt(c) \/ Spawn(c)

Progress(i) == Opened(i) \/ LoginOk(i) \/ ClientClosed(i)
Trouble(i) == LoginDenied(i) \/ Logout(i) \/ Break(i) \/ ServerClose(i)
SocketStep(i) ==
    \/ Login(i) \/ Accept(i) \/ Deny(i) \/ HandleLogout(i) \/ OnError(i) \/ Fail(i)
    \/ HandleClose(i) \/ Subscribe(i) \/ Send(i) \/ Attempt(i) \/ Spawn(i)

WorkerStep(w) ==
    \/ Wake(w) \/ Connect(w) \/ Dial(w) \/ Resend(w) \/ SkipResend(w)
    \/ Subscribe(w) \/ Send(w) \/ FinishWorker(w) \/ Down(w) \/ Report(w)

\* Every thread at any time.
Next ==
    \/ \E c \in Callers : CallerStart(c) \/ CallerStep(c)
    \/ \E i \in Sockets : Progress(i) \/ Trouble(i) \/ SocketStep(i)
    \/ \E w \in Workers : WorkerStep(w)
    \/ TokenLost

Spec == Init /\ [][Next]_vars

\* One method or callback at a time, run to its end: what the unit tests
\* exercise.  A worker that sleeps does not hold the others up.
Alone(t) == \A u \in Threads \ {t} : Quietly(u)
Still == \A t \in Threads : Quietly(t)

SerialNext ==
    \/ \E c \in Callers : Alone(c) /\ (CallerStart(c) \/ CallerStep(c))
    \/ \E i \in Sockets : Alone(i) /\ (Progress(i) \/ Trouble(i) \/ SocketStep(i))
    \/ \E w \in Workers : Alone(w) /\ WorkerStep(w)
    \/ Still /\ TokenLost

SerialSpec == Init /\ [][SerialNext]_vars

\* A method that began goes on, the network answers, a worker wakes; nobody
\* has to call and nothing has to fail.
SerialFairness ==
    /\ WF_vars(\E t \in Threads :
                  /\ ~Quietly(t) /\ Alone(t)
                  /\ CallerStep(t) \/ SocketStep(t) \/ WorkerStep(t))
    /\ SF_vars(\E i \in Sockets : Alone(i) /\ Progress(i))
    /\ SF_vars(\E w \in Workers : Alone(w) /\ Wake(w))

FairSerialSpec == SerialSpec /\ SerialFairness

-----------------------------------------------------------------------------
(* Properties.                                                             *)

\* Every variable ranges over the values the code can give it; a worker makes
\* at most _max_retries attempts.
TypeOK ==
    /\ ws \in 0 .. MaxSockets /\ created \in 0 .. MaxSockets
    /\ connected \in BOOLEAN /\ closing \in BOOLEAN
    /\ connecting \in BOOLEAN /\ reconnecting \in BOOLEAN
    /\ state \in States
    /\ desired \in SUBSET Symbols /\ wish \in SUBSET Symbols
    /\ phase \in [Sockets -> Phases]
    /\ served \in [Sockets -> SUBSET Symbols]
    /\ pc \in [Threads -> Rest \cup Working]
    /\ syms \in [Threads -> SUBSET Symbols]
    /\ tries \in [Workers -> 0 .. MaxRetries]
    /\ token \in BOOLEAN /\ owner \in {"new", "open", "closed"} /\ loggedOut \in BOOLEAN
    /\ calls \in 0 .. MaxCalls /\ faults \in 0 .. MaxFaults

\* A worker that still has the flag to clear.
Reconnects(w) == pc[w] \notin {"off", "report", "done"}

\* _reconnecting never stays set with no worker left to clear it, in any
\* interleaving: such a flag would turn every later _attempt_reconnect into a
\* no-op for the rest of the process.
FlagHonest == reconnecting => \E w \in Workers : Reconnects(w)

\* What the runtime last asked for is what a reconnect restores
\* (_level_one_symbols): a login or a worker that writes the set back must
\* not undo a change.
RequestKept == owner # "new" => desired = wish

\* With no callback running, "connected" means a current socket that is
\* logged in and streams exactly the desired symbols.  (After a LOGOUT the
\* code leaves _connected set on purpose or not, see the README.)
ConnectedMeansServed ==
    Still /\ connected /\ ~loggedOut
        => ws # 0 /\ phase[ws] = "authed" /\ served[ws] = desired

\* A socket that was replaced is not left open: two open sockets would both
\* be logged in or wait for it.
OneSocket == Still /\ ~loggedOut => \A i \in Sockets : phase[i] \in Live => i = ws

\* A stream the runtime holds is open or on its way, or a worker will try
\* again, or the state says that it gave up.
NoneStranded ==
    Still /\ owner = "open"
        => \/ ws # 0 /\ phase[ws] \in Live \cup {"closing"}
           \/ reconnecting
           \/ state \in {"AUTH_REQUIRED", "STREAM_DOWN"}

\* A disconnected stream opens no new socket (the docstring of disconnect()).
DisconnectFinal == [][owner = "closed" => created' = created]_vars

\* A stream that lost its connection is connected again, or closed, or says
\* that it gave up or was refused.
Recovers ==
    owner = "open" /\ ~connected
        ~> connected \/ owner = "closed"
             \/ state \in {"AUTH_REQUIRED", "LOGIN_FAILED", "STREAM_DOWN"}

\* At rest the client's fields, its socket and what its owner asked for agree.  (SchwabStreamClient.)
ClientAgrees == RequestKept /\ ConnectedMeansServed /\ OneSocket
=============================================================================
