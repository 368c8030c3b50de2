---------------------------- MODULE Authorization ----------------------------
(***************************************************************************)
(* The authorization workflow of CompanionRuntime                          *)
(* (runtime/companion_runtime.py), its client of companion_auth            *)
(* (clients/companion_auth.py), its evidence on disk                       *)
(* (recording/auth_continuity.py) and the browser's polling.               *)
(*                                                                         *)
(* No lock protects the workflow.  API threads and the stream's callback   *)
(* thread run through it at the same time; a step here ends where the code *)
(* waits for the network or the disk.  companion_auth's transaction and    *)
(* the stream client are environment (SchwabStream models the latter).     *)
(***************************************************************************)
EXTENDS Integers, Sequences

CONSTANTS
    Callers,        \* API threads
    Streamer,       \* the thread of the stream's callbacks
    MaxTrouble      \* bound of the revocations, failures and restarts
ASSUME AuthAssumption == Streamer \notin Callers /\ MaxTrouble \in Nat

VARIABLES
    workflow,       \* self._auth_workflow_state
    flow,           \* companion_auth's transaction self._auth_flow_id names
    outageOpen,     \* self._auth_outage_open
    activeAtOutage, \* self._recording_active_at_outage
    resumeRequired, \* self._resume_recording_required
    rows,           \* authorization_continuity.jsonl
    recorder,       \* self._recorder is not None
    stream,         \* self._stream
    shownUp,        \* the session's connection state is CONNECTED
    granted,        \* companion_auth can vend an access token
    at,             \* per thread: where it is
    overtaken,      \* history: the last outage to close did so while a thread was opening one
    trouble

authMemory == <<workflow, flow, outageOpen, activeAtOutage, resumeRequired>>
authVars == <<authMemory, rows, recorder, stream, shownUp, granted, at,
              overtaken, trouble>>

AuthThreads == Callers \cup {Streamer}
Home == [pc |-> "home"]
Go(t, where) == at' = [at EXCEPT ![t] = where]
Pc(t, p) == at[t].pc = p

Sticky == {"waiting", "verifying", "authorized_reconnecting", "connected", "failed"}
Verified == {"authorized_reconnecting", "connected"}
FlowEnds == {"authorized", "failed", "expired"}

\* What the journal says a starting runtime should remember.
LastRow == IF rows = <<>> THEN [event |-> "recovered", active |-> FALSE] ELSE rows[Len(rows)]
OpenOnDisk == LastRow.event = "outage"

AuthInit ==
    /\ workflow = "checking" /\ flow = "none"
    /\ outageOpen = FALSE /\ activeAtOutage = FALSE /\ resumeRequired = FALSE
    /\ rows = <<>> /\ recorder \in BOOLEAN /\ stream = "none" /\ shownUp = FALSE
    /\ granted \in BOOLEAN
    /\ at = [t \in AuthThreads |-> Home] /\ overtaken = FALSE /\ trouble = 0

-----------------------------------------------------------------------------
(* The outage, opened and closed.  append() fsyncs the row before the      *)
(* memory changes.                                                         *)

\* _mark_authorization_outage up to the row; then on to next.
ReopenedAlways(t, next) ==
    /\ rows' = Append(rows, [event |-> "outage", active |-> recorder])
    /\ Go(t, [pc |-> "opening", active |-> recorder, next |-> next])
MarkOutage(t, next) ==
    IF outageOpen
    THEN Go(t, [pc |-> next]) /\ UNCHANGED rows
    ELSE /\ rows' = Append(rows, [event |-> "outage", active |-> recorder])
         /\ Go(t, [pc |-> "opening", active |-> recorder, next |-> next])

OpenOutage(t) ==
    /\ Pc(t, "opening")
    /\ outageOpen' = TRUE /\ activeAtOutage' = at[t].active
    /\ Go(t, [pc |-> at[t].next])
    /\ UNCHANGED <<workflow, flow, resumeRequired, rows, recorder, stream, shownUp,
                   granted, trouble, overtaken>>

\* _mark_authorization_recovered's end; its start is part of LoginOk.
OfferAlways(active) == activeAtOutage
Offer(active) == activeAtOutage /\ ~active
CloseOutage(t) ==
    /\ Pc(t, "closing")
    /\ outageOpen' = FALSE
    /\ resumeRequired' = Offer(at[t].active)
    /\ shownUp' = (stream = "up")
    /\ overtaken' = (\E u \in AuthThreads : Pc(u, "opening"))
    /\ Go(t, Home)
    /\ UNCHANGED <<workflow, flow, activeAtOutage, rows, recorder, stream, granted,
                   trouble>>

\* The end of a path through _on_auth_state (of the thread that asked for a
\* token), of auth_status and of _verify's except branch.
Settle(t) ==
    /\ at[t].pc \in {"callback", "required", "failed"}
    /\ workflow' = CASE Pc(t, "required") -> "authorization_required"
                     [] Pc(t, "failed") -> "failed"
                     [] workflow \in {"waiting", "verifying"} -> workflow
                     [] OTHER -> "authorization_required"
    /\ shownUp' = FALSE
    /\ Go(t, Home)
    /\ UNCHANGED <<flow, outageOpen, activeAtOutage, resumeRequired, rows, recorder,
                   stream, granted, trouble, overtaken>>

-----------------------------------------------------------------------------
(* _verify_authorization_and_reconnect.                                    *)

\* Up to stream.disconnect(), which reports DISCONNECTED.
BeginVerify(t) ==
    /\ workflow' = "verifying"
    /\ stream' = "none"
    /\ Go(t, [pc |-> "fetch", replaced |-> stream # "none"])

\* The disconnect, fetch_fresh_helper_token and the userPreference request.
Fetch(t, ok) ==
    /\ Pc(t, "fetch")
    /\ shownUp' = (shownUp /\ ~at[t].replaced)
    /\ CASE ~granted -> MarkOutage(t, "failed") /\ UNCHANGED <<workflow, trouble>>
         [] granted /\ ok ->
              /\ workflow' = "authorized_reconnecting"
              /\ Go(t, [pc |-> "ensure"])
              /\ UNCHANGED <<rows, trouble>>
         [] granted /\ ~ok ->
              /\ trouble < MaxTrouble /\ trouble' = trouble + 1
              /\ Go(t, [pc |-> "failed"])
              /\ UNCHANGED <<rows, workflow>>
    /\ UNCHANGED <<flow, outageOpen, activeAtOutage, resumeRequired, recorder, stream,
                   granted, overtaken>>

\* _ensure_stream: a look, the preferences, and a second look.
Ensure(t) ==
    /\ Pc(t, "ensure")
    /\ Go(t, IF stream # "none" THEN Home ELSE [pc |-> "install"])
    /\ UNCHANGED <<authMemory, rows, recorder, stream, shownUp, granted, trouble,
                   overtaken>>

Install(t) ==
    /\ Pc(t, "install")
    /\ stream' = IF stream = "none" THEN "dialing" ELSE stream
    /\ Go(t, Home)
    /\ UNCHANGED <<authMemory, rows, recorder, shownUp, granted, trouble, overtaken>>

-----------------------------------------------------------------------------
(* API threads.                                                            *)

\* auth_status() and a poll without a flow: sticky states answer at once.
AskStatus(t) ==
    /\ Pc(t, "home") /\ workflow \notin Sticky
    /\ Go(t, [pc |-> "token"])
    /\ UNCHANGED <<authMemory, rows, recorder, stream, shownUp, granted, trouble,
                   overtaken>>

\* The token provider answers; without a token it calls _on_auth_state first.
Status(t) ==
    /\ Pc(t, "token")
    /\ CASE ~granted -> MarkOutage(t, "required") /\ UNCHANGED <<workflow, stream>>
         [] granted /\ outageOpen -> BeginVerify(t) /\ UNCHANGED rows
         [] granted /\ ~outageOpen ->
              /\ workflow' = IF shownUp THEN "connected" ELSE "authorized"
              /\ Go(t, Home) /\ UNCHANGED <<rows, stream>>
    /\ UNCHANGED <<flow, outageOpen, activeAtOutage, resumeRequired, recorder, shownUp,
                   granted, trouble, overtaken>>

\* begin_schwab_reauthorization: the outage is marked before anything is asked.
Begin(t) ==
    /\ Pc(t, "home") /\ trouble < MaxTrouble /\ trouble' = trouble + 1
    /\ MarkOutage(t, "start")
    /\ UNCHANGED <<authMemory, recorder, stream, shownUp, granted, overtaken>>

Started(t) ==
    /\ Pc(t, "start")
    /\ \/ workflow' = "failed" /\ UNCHANGED flow
       \/ workflow' = "waiting" /\ flow' = "waiting"
    /\ Go(t, Home)
    /\ UNCHANGED <<outageOpen, activeAtOutage, resumeRequired, rows, recorder, stream,
                   shownUp, granted, trouble, overtaken>>

\* poll_schwab_reauthorization: asked once a second while a page is open.
Poll(t) ==
    /\ Pc(t, "home") /\ flow # "none" /\ workflow \notin Verified
    /\ Go(t, [pc |-> "poll"])
    /\ UNCHANGED <<authMemory, rows, recorder, stream, shownUp, granted, trouble,
                   overtaken>>

\* What the transaction's state says of the workflow.
UpstreamAsIs == flow
UpstreamPatient == IF flow = "expired" THEN "waiting" ELSE flow
Upstream == IF flow \in {"failed", "expired"} THEN "failed" ELSE flow
PollAnswer(t) ==
    /\ Pc(t, "poll")
    /\ IF flow = "authorized"
       THEN IF workflow \in Verified
            THEN Go(t, Home) /\ UNCHANGED <<workflow, stream>>
            ELSE BeginVerify(t)
       ELSE /\ workflow' = Upstream
            /\ Go(t, Home) /\ UNCHANGED stream
    /\ UNCHANGED <<flow, outageOpen, activeAtOutage, resumeRequired, rows, recorder,
                   shownUp, granted, trouble, overtaken>>

\* companion_auth is down.
PollFails(t) ==
    /\ Pc(t, "poll") /\ trouble < MaxTrouble /\ trouble' = trouble + 1
    /\ workflow' = "failed"
    /\ Go(t, Home)
    /\ UNCHANGED <<flow, outageOpen, activeAtOutage, resumeRequired, rows, recorder,
                   stream, shownUp, granted, overtaken>>

\* resume_recording_after_authorization; with a recording on it raises.
Resume(t) ==
    /\ Pc(t, "home") /\ resumeRequired /\ ~recorder
    /\ recorder' = TRUE /\ resumeRequired' = FALSE
    /\ Go(t, [pc |-> "ensure"])
    /\ UNCHANGED <<workflow, flow, outageOpen, activeAtOutage, rows, stream, shownUp,
                   granted, trouble, overtaken>>

\* select_symbol and the recording endpoints, as far as the workflow sees them.
UseStream(t) ==
    /\ Pc(t, "home") /\ stream = "none"
    /\ Go(t, [pc |-> "ensure"])
    /\ UNCHANGED <<authMemory, rows, recorder, stream, shownUp, granted, trouble,
                   overtaken>>

Api(t) ==
    \/ AskStatus(t) \/ Begin(t) \/ Poll(t) \/ Resume(t) \/ UseStream(t)
AuthStep(t) ==
    \/ OpenOutage(t) \/ CloseOutage(t) \/ Settle(t)
    \/ \E ok \in BOOLEAN : Fetch(t, ok)
    \/ Ensure(t) \/ Install(t) \/ Status(t) \/ Started(t) \/ PollAnswer(t) \/ PollFails(t)

-----------------------------------------------------------------------------
(* The stream's callbacks, _on_stream_state.                               *)

\* CONNECTED: the workflow first, then the row, then the session.
ReconnectingTooSoon == workflow = "verifying"
ReconnectingAnyhow == workflow # "connected"
Reconnecting == workflow = "authorized_reconnecting"
LoginOk ==
    /\ Pc(Streamer, "home") /\ stream = "dialing" /\ granted
    /\ stream' = "up"
    /\ workflow' = IF Reconnecting THEN "connected" ELSE workflow
    /\ IF Reconnecting /\ outageOpen
       THEN /\ rows' = Append(rows, [event |-> "recovered", active |-> recorder])
            /\ Go(Streamer, [pc |-> "closing", active |-> recorder])
            /\ UNCHANGED shownUp
       ELSE shownUp' = TRUE /\ UNCHANGED <<rows, at>>
    /\ UNCHANGED <<flow, outageOpen, activeAtOutage, resumeRequired, recorder, granted,
                   trouble, overtaken>>

\* LOGIN_FAILED, DOWN or STREAM_DOWN.
GaveUp == IF workflow = "authorized_reconnecting" THEN "failed" ELSE workflow
LoginFails ==
    /\ Pc(Streamer, "home") /\ stream = "dialing"
    /\ granted => trouble < MaxTrouble /\ trouble' = trouble + 1
    /\ ~granted => UNCHANGED trouble
    /\ stream' = "lost" /\ shownUp' = FALSE
    /\ workflow' = GaveUp
    /\ UNCHANGED <<flow, outageOpen, activeAtOutage, resumeRequired, rows, recorder,
                   granted, at, overtaken>>

\* A reconnect asks the token provider.
Redial ==
    /\ Pc(Streamer, "home") /\ stream = "lost"
    /\ IF granted
       THEN stream' = "dialing" /\ UNCHANGED <<rows, at>>
       ELSE MarkOutage(Streamer, "callback") /\ UNCHANGED stream
    /\ UNCHANGED <<authMemory, recorder, shownUp, granted, trouble, overtaken>>

Lose ==
    /\ Pc(Streamer, "home") /\ stream = "up"
    /\ trouble < MaxTrouble /\ trouble' = trouble + 1
    /\ stream' = "lost" /\ shownUp' = FALSE
    /\ UNCHANGED <<authMemory, rows, recorder, granted, at, overtaken>>

-----------------------------------------------------------------------------
(* Environment.                                                            *)

\* The operator in Schwab's window, and the transaction's three minutes.
FlowStep ==
    /\ \/ flow = "waiting" /\ flow' \in {"verifying", "expired"}
       \/ flow = "verifying" /\ flow' \in {"authorized", "failed"}
    /\ granted' = (granted \/ flow' = "authorized")
    /\ UNCHANGED <<workflow, outageOpen, activeAtOutage, resumeRequired, rows, recorder,
                   stream, shownUp, at, trouble, overtaken>>

Revoke ==
    /\ granted /\ trouble < MaxTrouble /\ trouble' = trouble + 1
    /\ granted' = FALSE
    /\ UNCHANGED <<authMemory, rows, recorder, stream, shownUp, at, overtaken>>

\* A recording starts or ends for reasons of its own.
Recorder ==
    /\ trouble < MaxTrouble /\ trouble' = trouble + 1
    /\ recorder' = ~recorder
    /\ UNCHANGED <<authMemory, rows, stream, shownUp, granted, at, overtaken>>

\* The service restarts; __init__ reads the journal.
Restart ==
    /\ trouble < MaxTrouble /\ trouble' = trouble + 1
    /\ workflow' = "checking" /\ flow' = "none"
    /\ outageOpen' = OpenOnDisk
    /\ activeAtOutage' = (OpenOnDisk /\ LastRow.active)
    /\ resumeRequired' = FALSE
    /\ recorder' = FALSE /\ stream' = "none" /\ shownUp' = FALSE
    /\ overtaken' = FALSE
    /\ at' = [t \in AuthThreads |-> Home]
    /\ UNCHANGED <<rows, granted>>

AuthNext ==
    \/ \E t \in Callers : Api(t)
    \/ \E t \in AuthThreads : AuthStep(t)
    \/ LoginOk \/ LoginFails \/ Redial \/ Lose
    \/ FlowStep \/ Revoke \/ Recorder \/ Restart

AuthSpec == AuthInit /\ [][AuthNext]_authVars

\* Threads run, a page polls, Schwab answers and a stream that lost its
\* connection dials again; the operator or the three minutes end a flow.
AuthFairness ==
    /\ WF_authVars(AuthStep(Streamer)) /\ WF_authVars(\E t \in Callers : AuthStep(t))
    /\ WF_authVars(\E t \in Callers : Poll(t))
    /\ WF_authVars(LoginOk \/ LoginFails \/ Redial)
    /\ WF_authVars(FlowStep)

-----------------------------------------------------------------------------
(* Properties.                                                             *)

Row == [event : {"outage", "recovered"}, active : BOOLEAN]

AuthTypeOK ==
    /\ workflow \in Sticky \cup {"checking", "authorization_required", "authorized"}
    /\ flow \in {"none", "waiting", "verifying"} \cup FlowEnds
    /\ {outageOpen, activeAtOutage, resumeRequired, recorder, shownUp, granted} \subseteq BOOLEAN
    /\ rows \in Seq(Row)
    /\ stream \in {"none", "dialing", "up", "lost"}
    /\ overtaken \in BOOLEAN
    /\ trouble \in 0 .. MaxTrouble
    /\ \A t \in AuthThreads :
         at[t].pc \in {"home", "opening", "closing", "callback", "required", "failed", "fetch",
                       "ensure", "install", "token", "start", "poll"}

\* A restart finds the outage the process knew of: unless a thread is between
\* the row and the variable, the last row and the memory agree, and what the
\* memory says of the recorder is on one of the outage's rows.  (It may have
\* two rows: the test and the append are not one step.)  Not so after an outage
\* another thread was still opening when the recovery closed it: that thread
\* then remembers an outage whose rows the journal has behind a recovery.
OutageRemembered ==
    (~overtaken /\ \A t \in AuthThreads : at[t].pc \notin {"opening", "closing"}) =>
        /\ outageOpen = OpenOnDisk
        /\ outageOpen =>
             \E i \in 1 .. Len(rows) :
                 /\ \A j \in i .. Len(rows) : rows[j].event = "outage"
                 /\ rows[i].active = activeAtOutage

\* "If an outage interrupted a recorder and no recorder remains at recovery":
\* a resume is offered on evidence only.
ResumeJustified ==
    resumeRequired =>
        \E i \in 1 .. Len(rows) :
            /\ rows[i].event = "outage" /\ rows[i].active
            /\ \E j \in i + 1 .. Len(rows) : rows[j] = [event |-> "recovered", active |-> FALSE]

\* "reports Connected only after a fresh companion_auth token, a read-only
\* userPreference request, and successful stream LOGIN": no step out of an
\* outage reaches connected but a LOGIN after the checks, and outside one the
\* stream is up, or another thread is just replacing it.
ConnectedIsEarned ==
    [][workflow # "connected" /\ workflow' = "connected" =>
        /\ stream' = "up" \/ \E t \in AuthThreads : Pc(t, "fetch") /\ at[t].replaced
        /\ outageOpen => workflow = "authorized_reconnecting" /\ stream' = "up"]_authVars

\* An authorization flow the operator abandons, declines or completes ends on
\* the page that polls it.
FlowIsFollowed == workflow \in {"waiting", "verifying"} ~> workflow \notin {"waiting", "verifying"}

\* "waits for a successful stream LOGIN; reports Connected": the wait ends.
ReconnectEnds ==
    workflow = "authorized_reconnecting" ~> workflow # "authorized_reconnecting"

\* An outage is remembered and a resume offered on evidence, through restarts and any interleaving
\* of outages and recoveries.  (_mark_authorization_outage, _mark_authorization_recovered.)
OutageTrue == AuthTypeOK /\ OutageRemembered /\ ResumeJustified

\* No state of an authorization that the page waits in is for good.  (begin_auth, auth_status,
\* _verify_authorization.)
AuthSettles == FlowIsFollowed /\ ReconnectEnds
=============================================================================
