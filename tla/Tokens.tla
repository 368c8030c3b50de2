-------------------------------- MODULE Tokens --------------------------------
(***************************************************************************)
(* Where access tokens come from: TokenProvider                            *)
(* (clients/token_provider.py) in its two deployments and the helper that  *)
(* owns the refresh token in one of them (tools/auth_helper).              *)
(*                                                                         *)
(* A token is the number of the grant it came with; 0 is no token.  Time   *)
(* is which tokens are more than a minute from their expiry.  Schwab and   *)
(* its answers are environment.                                            *)
(***************************************************************************)
EXTENDS Integers, FiniteSets

CONSTANTS
    Askers,         \* threads that use the provider
    Torn,           \* a tokens file that does not parse
    MaxIssued,      \* bound of the grants
    MaxMishaps      \* bound of the refusals, transport failures and crashes
ASSUME TokenAssumption ==
    Torn \notin Nat /\ MaxIssued \in Nat \ {0} /\ MaxMishaps \in Nat

VARIABLES
    helper,         \* AUTH_HELPER_URL is set
    issued,         \* number of the newest grant
    unexpired,      \* tokens with more than a minute to go
    owned,          \* the token in the helper's tokens.json
    cache,          \* _helper_cache, or _token_cache
    disk, tmp,      \* the local tokens.json and its .tmp; 0 is no file
    refreshing,     \* self._refreshing; the event is its negation
    lastNotified,   \* self._last_notified
    heard,          \* the token the listeners used last
    backoff,        \* now < _helper_backoff_until
    asker,          \* per thread: where it is
    overlapped,     \* two threads have saved at the same time
    mishaps

tokenVars == <<helper, issued, unexpired, owned, cache, disk, tmp, refreshing, lastNotified,
               heard, backoff, asker, overlapped, mishaps>>
grants == <<issued, unexpired, owned>>
files == <<disk, tmp, overlapped>>

Back == [pc |-> "home", solo |-> FALSE, token |-> 0]
At(t, pc) == asker[t].pc = pc
Goes(t, pc) == asker' = [asker EXCEPT ![t].pc = pc]
Usable(token) == token \in unexpired

TokensInit ==
    /\ helper \in BOOLEAN
    /\ issued = 1 /\ unexpired \in SUBSET {1} /\ owned = 1
    /\ disk \in (IF helper THEN {0} ELSE {0, 1}) /\ tmp = 0
    /\ cache = disk                                     \* _load_tokens
    /\ refreshing = FALSE /\ lastNotified = 0 /\ heard = 0 /\ backoff = FALSE
    /\ asker = [t \in Askers |-> Back]
    /\ overlapped = FALSE /\ mishaps = 0

Mishap == mishaps < MaxMishaps /\ mishaps' = mishaps + 1
\* At the bound of the grants nothing but a refusal is left.
Refusal == IF issued = MaxIssued THEN UNCHANGED mishaps ELSE Mishap
Issue == issued < MaxIssued /\ issued' = issued + 1 /\ unexpired' = unexpired \cup {issued + 1}

-----------------------------------------------------------------------------
(* The local deployment.                                                   *)

\* __call__ with a token about to expire: _refresh_singleflight takes the
\* flag, or the event of the thread that has it.
Unseen == FALSE
Seen == refreshing
Ask(t) ==
    /\ ~helper /\ At(t, "home") /\ cache # 0 /\ ~Usable(cache)
    /\ IF Seen
       THEN Goes(t, "joining") /\ UNCHANGED refreshing
       ELSE refreshing' = TRUE /\ asker' = [asker EXCEPT ![t] = [@ EXCEPT !.pc = "post", !.solo = TRUE]]
    /\ UNCHANGED <<helper, grants, files, cache, lastNotified, heard, backoff, mishaps>>

\* event.wait(), which returns for good once the event has been set.
Join(t) ==
    /\ At(t, "joining")
    /\ IF refreshing THEN Goes(t, "waiting") ELSE asker' = [asker EXCEPT ![t] = Back]
    /\ UNCHANGED <<helper, grants, files, cache, refreshing, lastNotified, heard, backoff, mishaps>>

\* refresh(), after a 401: it takes no flag.
Renew(t) ==
    /\ ~helper /\ At(t, "home") /\ cache # 0 /\ Mishap
    /\ Goes(t, "post")
    /\ UNCHANGED <<helper, grants, files, cache, refreshing, lastNotified, heard, backoff>>

\* The end of a refresh, raised or not: finally.
ReleasedIfDone(t, failed) == refreshing /\ (asker[t].solo => failed)
Released(t, failed) == refreshing /\ ~asker[t].solo
Return(t, failed) ==
    /\ refreshing' = Released(t, failed)
    /\ asker' = [u \in Askers |-> IF u = t \/ (asker[t].solo /\ ~refreshing' /\ At(u, "waiting"))
                                  THEN Back ELSE asker[u]]

\* _refresh_tokens: the new tokens are in the cache before they are saved.
Post(t) ==
    /\ At(t, "post")
    /\ \/ Issue /\ cache' = issued + 1 /\ Goes(t, "open") /\ UNCHANGED <<refreshing, mishaps>>
       \/ Refusal /\ Return(t, TRUE) /\ UNCHANGED <<issued, unexpired, cache>>
    /\ UNCHANGED <<helper, owned, files, lastNotified, heard, backoff>>

\* _save_tokens: the .tmp is truncated, written and renamed.  A writer whose
\* .tmp another one has renamed writes into tokens.json.
Saving(t) == asker[t].pc \in {"write", "replace"}
TruncatedInPlace == disk' = Torn /\ UNCHANGED tmp
Truncated == tmp' = Torn /\ UNCHANGED disk
OpenTmp(t) ==
    /\ At(t, "open")
    /\ Truncated
    /\ overlapped' = (overlapped \/ \E u \in Askers : Saving(u))
    /\ Goes(t, "write")
    /\ UNCHANGED <<helper, grants, cache, refreshing, lastNotified, heard, backoff, mishaps>>

WriteTmp(t) ==
    /\ At(t, "write")
    /\ IF tmp = 0 THEN disk' = cache /\ UNCHANGED tmp ELSE tmp' = cache /\ UNCHANGED disk
    /\ Goes(t, "replace")
    /\ UNCHANGED <<helper, grants, overlapped, cache, refreshing, lastNotified, heard, backoff,
                   mishaps>>

ReplaceTmp(t) ==
    /\ At(t, "replace")
    /\ IF tmp = 0
       THEN Return(t, TRUE) /\ UNCHANGED <<disk, tmp>>
       ELSE disk' = tmp /\ tmp' = 0 /\ Goes(t, "notify") /\ UNCHANGED refreshing
    /\ UNCHANGED <<helper, grants, overlapped, cache, lastNotified, heard, backoff, mishaps>>

-----------------------------------------------------------------------------
(* The helper deployment.                                                  *)

\* __call__ without a usable token and out of the back-off, or
\* fetch_fresh_helper_token, which forgets both first.
AskHelper(t) ==
    /\ helper /\ At(t, "home")
    /\ \/ ~Usable(cache) /\ ~backoff /\ UNCHANGED <<cache, backoff>>
       \/ cache' = 0 /\ backoff' = FALSE
    /\ Goes(t, "get")
    /\ UNCHANGED <<helper, grants, files, refreshing, lastNotified, heard, mishaps>>

\* ensure_access_token, one request at a time; a refusal is a 409.
Serve(t) ==
    /\ At(t, "get")
    /\ \/ /\ Usable(owned)
          /\ asker' = [asker EXCEPT ![t].pc = "reply", ![t].token = owned]
          /\ UNCHANGED <<grants, mishaps>>
       \/ /\ ~Usable(owned) /\ Issue /\ owned' = issued + 1
          /\ asker' = [asker EXCEPT ![t].pc = "reply", ![t].token = issued + 1]
          /\ UNCHANGED mishaps
       \/ /\ ~Usable(owned) /\ Refusal
          /\ asker' = [asker EXCEPT ![t].pc = "reply", ![t].token = 0]
          /\ UNCHANGED grants
    /\ UNCHANGED <<helper, files, cache, refreshing, lastNotified, heard, backoff>>

Receive(t) ==
    /\ At(t, "reply")
    /\ cache' = asker[t].token
    /\ asker' = [asker EXCEPT ![t] = IF @.token = 0 THEN Back ELSE [@ EXCEPT !.pc = "notify"]]
    /\ UNCHANGED <<helper, grants, files, refreshing, lastNotified, heard, backoff, mishaps>>

\* A transport failure empties the cache and is not repeated for 15 s.
FetchFails(t) ==
    /\ asker[t].pc \in {"get", "reply"} /\ Mishap
    /\ cache' = 0 /\ backoff' = TRUE
    /\ asker' = [asker EXCEPT ![t] = Back]
    /\ UNCHANGED <<helper, grants, files, refreshing, lastNotified, heard>>

-----------------------------------------------------------------------------
(* _notify_listeners: a peek, then the listeners, who use what is there.   *)

Peek(t) ==
    /\ At(t, "notify")
    /\ asker' = [asker EXCEPT ![t].pc = "tell", ![t].token = cache]
    /\ UNCHANGED <<helper, grants, files, cache, refreshing, lastNotified, heard, backoff, mishaps>>

AlreadyTold(token) == lastNotified # 0
Told(token) == lastNotified = token
\* A listener that finds the cache emptied calls the provider itself.
Used(token) == IF cache = 0 THEN token ELSE cache
Tell(t) ==
    /\ At(t, "tell")
    /\ IF Told(asker[t].token)
       THEN UNCHANGED <<lastNotified, heard>>
       ELSE lastNotified' = asker[t].token /\ heard' = Used(asker[t].token)
    /\ backoff' = (backoff /\ ~helper)
    /\ Return(t, FALSE)
    /\ UNCHANGED <<helper, grants, files, cache, mishaps>>

-----------------------------------------------------------------------------
(* Time and crashes.                                                       *)

\* Between two answers of the helper: a fetch has 10 s, a token half an hour.
Expire ==
    /\ \A t \in Askers : ~helper \/ asker[t].pc \in {"home", "get"}
    /\ \E token \in unexpired : unexpired' = unexpired \ {token}
    /\ UNCHANGED <<helper, issued, owned, files, cache, refreshing, lastNotified, heard, backoff,
                   asker, mishaps>>

BackoffEnds ==
    /\ backoff /\ backoff' = FALSE
    /\ UNCHANGED <<helper, grants, files, cache, refreshing, lastNotified, heard, asker, mishaps>>

\* The process ends and starts again: _load_tokens.
LoadedAsIs == disk
Loaded == IF disk = Torn THEN 0 ELSE disk
Crash ==
    /\ Mishap
    /\ cache' = Loaded
    /\ refreshing' = FALSE /\ lastNotified' = 0 /\ heard' = 0 /\ backoff' = FALSE
    /\ asker' = [t \in Askers |-> Back]
    /\ UNCHANGED <<helper, grants, files>>

TokenStep(t) ==
    \/ Join(t) \/ Post(t) \/ OpenTmp(t) \/ WriteTmp(t) \/ ReplaceTmp(t)
    \/ Serve(t) \/ Receive(t) \/ FetchFails(t) \/ Peek(t) \/ Tell(t)

TokensNext ==
    \/ \E t \in Askers : Ask(t) \/ Renew(t) \/ AskHelper(t) \/ TokenStep(t)
    \/ Expire \/ BackoffEnds \/ Crash

TokensSpec == TokensInit /\ [][TokensNext]_tokenVars

\* Requests have timeouts, so every thread goes on.
TokensFairness == \A t \in Askers : WF_tokenVars(TokenStep(t))

-----------------------------------------------------------------------------
(* Properties.                                                             *)

Grants == 0 .. MaxIssued

TokensTypeOK ==
    /\ {helper, refreshing, backoff, overlapped} \subseteq BOOLEAN
    /\ {issued, owned, cache, lastNotified, heard} \subseteq Grants
    /\ unexpired \subseteq 1 .. issued
    /\ {disk, tmp} \subseteq Grants \cup {Torn}
    /\ asker \in [Askers -> [pc : {"home", "joining", "waiting", "post", "open", "write",
                                   "replace", "get", "reply", "notify", "tell"},
                             solo : BOOLEAN, token : Grants]]
    /\ mishaps \in 0 .. MaxMishaps

\* The flag is one thread's at a time, and set exactly while that thread
\* refreshes: callers do not spend the same refresh token twice.
OneRefresher ==
    /\ refreshing <=> \E t \in Askers : asker[t].solo
    /\ Cardinality({t \in Askers : asker[t].solo}) <= 1

\* A crash at any moment leaves a tokens file that parses, and with every
\* thread at home it is the newest grant's, unless refresh() saved while
\* another refresh was saving.
DiskSound ==
    ~helper /\ ~overlapped =>
        /\ disk # Torn
        /\ (\A t \in Askers : At(t, "home")) => disk = cache

\* With every thread at home, the listeners (the stream) have used the token
\* that the provider vends.
ListenersCurrent ==
    (\A t \in Askers : At(t, "home")) /\ ~overlapped =>
        \/ cache \in {0, heard}
        \/ heard = 0 /\ ~helper /\ cache = disk

\* Every use of the provider ends, also for those who wait for a refresh that
\* is refused.
CallsReturn == \A t \in Askers : []<>At(t, "home")

\* Memory, the file, the listeners and the refreshing flag agree on the newest grant.
\* (TokenProvider.)
TokensSound == TokensTypeOK /\ OneRefresher /\ DiskSound /\ ListenersCurrent
=============================================================================
