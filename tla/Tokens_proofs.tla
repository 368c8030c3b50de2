---------------------------- MODULE Tokens_proofs ----------------------------
(***************************************************************************)
(* Proofs about Tokens: what the memory, the file, the refreshing flag and *)
(* the listeners of a TokenProvider agree on, for any threads and any      *)
(* number of grants, refusals, failures and crashes.                       *)
(*                                                                         *)
(* The inductive invariant says who will repair a disagreement: if the     *)
(* file or the listeners are behind the cache, a thread is on its way that *)
(* brings them the token that is in the cache now.                         *)
(***************************************************************************)
EXTENDS Tokens, FiniteSetTheorems, TLAPS

Places == {"home", "joining", "waiting", "post", "open", "write", "replace", "get", "reply",
           "notify", "tell"}
Asker == [pc : Places, solo : BOOLEAN, token : Grants]

Types ==
    /\ helper \in BOOLEAN /\ refreshing \in BOOLEAN /\ backoff \in BOOLEAN /\ overlapped \in BOOLEAN
    /\ issued \in Grants /\ owned \in Grants /\ cache \in Grants
    /\ lastNotified \in Grants /\ heard \in Grants
    /\ unexpired \subseteq 1 .. issued
    /\ disk \in Grants \cup {Torn} /\ tmp \in Grants \cup {Torn}
    /\ asker \in [Askers -> Asker]
    /\ mishaps \in 0 .. MaxMishaps

\* One thread at most refreshes alone, and the flag is set while it does.
Flag ==
    /\ refreshing <=> \E t \in Askers : asker[t].solo
    /\ \A t, u \in Askers : asker[t].solo /\ asker[u].solo => t = u
    /\ \A t \in Askers : asker[t].solo =>
            asker[t].pc \in {"post", "open", "write", "replace", "notify", "tell"}

\* The two deployments.
Modes ==
    /\ helper =>
         /\ disk = 0 /\ ~overlapped
         /\ \A t \in Askers : asker[t].pc \in {"home", "get", "reply", "notify", "tell"}
    /\ ~helper =>
         /\ cache <= issued
         /\ disk # Torn => disk <= issued
         /\ tmp # Torn => tmp <= issued
         /\ \A t \in Askers :
              /\ asker[t].pc \notin {"get", "reply"}
              /\ asker[t].pc # "home" => cache # 0

\* Saves that do not overlap: the file is behind the cache only until a thread has saved.
Saves(t) ==
    asker[t].pc \in {"open", "write"} \/ (asker[t].pc = "replace" /\ tmp = cache)
Files ==
    ~helper /\ ~overlapped =>
        /\ disk # Torn
        /\ \A t, u \in Askers : Saving(t) /\ Saving(u) => t = u
        /\ \A t \in Askers :
             /\ asker[t].pc = "write" => tmp = Torn
             /\ asker[t].pc = "replace" =>
                  /\ tmp # Torn /\ tmp # 0
                  /\ tmp = cache \/ \E u \in Askers : asker[u].pc = "open"
        /\ disk = cache \/ \E t \in Askers : Saves(t)

\* The listeners are behind the cache only until a thread has told them.
Tells(t) == asker[t].pc = "notify" \/ (asker[t].pc = "tell" /\ asker[t].token = cache)
WillTell(t) == asker[t].pc \in {"open", "write", "replace"} \/ Tells(t)
LocalHeard ==
    ~helper =>
        /\ lastNotified <= heard /\ heard <= cache
        /\ \A t \in Askers : asker[t].pc = "tell" => asker[t].token <= cache
        /\ \/ overlapped \/ cache = heard
           \/ heard = 0 /\ cache = disk
           \/ \E t \in Askers : WillTell(t)

\* With the helper only one token is on its way at a time.
HelperHeard ==
    helper =>
        /\ \A t \in Askers :
             /\ asker[t].pc = "reply" => asker[t].token \in {0, owned}
             /\ asker[t].pc \in {"notify", "tell"} \/ (asker[t].pc = "reply" /\ asker[t].token # 0)
                  => owned \in unexpired
             /\ asker[t].pc \in {"notify", "tell"} => cache \in {0, owned}
             /\ asker[t].pc = "tell" => asker[t].token \in {0, owned}
        /\ lastNotified # 0 => heard = lastNotified
        /\ cache \in {0, heard} \/ \E t \in Askers : Tells(t)

TokenInv == Types /\ Flag /\ Modes /\ Files /\ LocalHeard /\ HelperHeard

------------------------------------------------------------------------------
(* Threads.                                                                *)

LEMMA Bounds == 0 \in Grants /\ 1 \in Grants /\ Grants \subseteq Nat /\ Torn \notin Grants
                /\ Back \in Asker
  BY TokenAssumption DEF Grants, Asker, Places, Back

\* Thread t is at pc, and the others where they were.
Moved(t, pc, solo, token) ==
    /\ asker' \in [Askers -> Asker]
    /\ asker'[t].pc = pc /\ asker'[t].solo = solo /\ asker'[t].token = token
    /\ \A u \in Askers \ {t} : asker'[u] = asker[u]

LEMMA GoesMoves ==
    ASSUME Types, NEW t \in Askers, NEW pc \in Places, Goes(t, pc)
    PROVE  Moved(t, pc, asker[t].solo, asker[t].token)
  <1> DEFINE r == [asker[t] EXCEPT !.pc = pc]
  <1>1. asker[t] \in Asker
    BY DEF Types
  <1>2. r \in Asker /\ r.pc = pc /\ r.solo = asker[t].solo /\ r.token = asker[t].token
    BY <1>1 DEF Asker
  <1>3. asker' = [asker EXCEPT ![t] = r]
    BY DEF Goes
  <1> HIDE DEF r
  <1> QED
    BY <1>2, <1>3 DEF Types, Moved

LEMMA SetMoves ==
    ASSUME Types, NEW t \in Askers, NEW r \in Asker, asker' = [asker EXCEPT ![t] = r]
    PROVE  Moved(t, r.pc, r.solo, r.token)
  BY DEF Types, Moved

\* A thread that keeps its part in the refresh keeps the flag's meaning.
LEMMA FlagKept ==
    ASSUME Flag, NEW t \in Askers, NEW pc, NEW token, Moved(t, pc, asker[t].solo, token),
           asker[t].solo => pc \in {"post", "open", "write", "replace", "notify", "tell"},
           UNCHANGED refreshing
    PROVE  Flag'
  BY DEF Flag, Moved

\* The end of a call: the thread is back, and so may be those who waited for it.
LEMMA Returns ==
    ASSUME Types, Flag, NEW t \in Askers, NEW failed \in BOOLEAN, Return(t, failed)
    PROVE  /\ asker' \in [Askers -> Asker] /\ refreshing' \in BOOLEAN
           /\ asker'[t] = Back
           /\ \A u \in Askers \ {t} : asker'[u] = asker[u] \/ (At(u, "waiting") /\ asker'[u] = Back)
           /\ Flag'
  <1>1. refreshing' \in BOOLEAN /\ (refreshing' <=> refreshing /\ ~asker[t].solo)
    BY DEF Return, Released
  <1>2. asker' \in [Askers -> Asker] /\ asker'[t] = Back
        /\ \A u \in Askers \ {t} : asker'[u] = asker[u] \/ (At(u, "waiting") /\ asker'[u] = Back)
    BY Bounds DEF Return, Types
  <1>3. ~Back.solo /\ Back.pc = "home"
    BY DEF Back
  <1>4. \A u \in Askers : asker'[u].solo => u # t /\ asker'[u] = asker[u]
    BY <1>2, <1>3
  <1>5. \A u \in Askers \ {t} : asker[u].solo => asker'[u] = asker[u]
    BY <1>2 DEF Flag, At
  <1>6. Flag'
    BY <1>1, <1>4, <1>5 DEF Flag
  <1> QED
    BY <1>1, <1>2, <1>6

------------------------------------------------------------------------------
(* Actions of both deployments.                                            *)

LEMMA InitTokens == TokensInit => TokenInv
  <1> SUFFICES ASSUME TokensInit PROVE TokenInv
    OBVIOUS
  <1>1. \A t \in Askers : asker[t].pc = "home" /\ asker[t].solo = FALSE /\ asker[t].token = 0
    BY DEF TokensInit, Back
  <1>2. Types
    <2>1. 0 \in 0 .. MaxMishaps /\ 1 \in 1 .. 1
      BY TokenAssumption
    <2>2. unexpired \subseteq 1 .. issued
      BY <2>1 DEF TokensInit
    <2>3. disk \in Grants /\ cache \in Grants /\ helper \in BOOLEAN
      BY Bounds DEF TokensInit
    <2>4. asker \in [Askers -> Asker]
      BY Bounds DEF TokensInit
    <2> QED
      BY <2>1, <2>2, <2>3, <2>4, Bounds DEF TokensInit, Types
  <1>3. Flag
    BY <1>1 DEF TokensInit, Flag
  <1>4. Modes /\ Files
    BY <1>1, Bounds DEF TokensInit, Modes, Files, Saving
  <1>5. LocalHeard /\ HelperHeard
    BY <1>1, Bounds DEF TokensInit, LocalHeard, HelperHeard
  <1> QED
    BY <1>2, <1>3, <1>4, <1>5 DEF TokenInv

\* A start, or a wait, that touches nothing but its thread.
LEMMA CalmStep ==
    ASSUME TokenInv, NEW t \in Askers, NEW pc \in {"home", "joining", "waiting", "post"},
           NEW solo, NEW token, Moved(t, pc, solo, token), Flag', Types',
           asker[t].pc \in {"home", "joining", "waiting"}, ~helper, cache # 0,
           UNCHANGED <<helper, grants, files, cache, lastNotified, heard>>
    PROVE  TokenInv'
  <1> USE DEF TokenInv, Moved, grants, files
  <1>1. Modes'
    BY DEF Modes
  <1>2. Files'
    BY DEF Files, Saving, Saves
  <1>3. LocalHeard'
    BY DEF LocalHeard, WillTell, Tells
  <1>4. HelperHeard'
    BY DEF HelperHeard
  <1> QED
    BY <1>1, <1>2, <1>3, <1>4

LEMMA AskStep ==
    ASSUME TokenInv, NEW t \in Askers, Ask(t) PROVE TokenInv'
  <1>1. ~helper /\ asker[t].pc = "home" /\ cache # 0 /\ asker[t].solo = FALSE /\ asker[t] \in Asker
    BY DEF Ask, At, TokenInv, Flag, Types, Asker
  <1>2. UNCHANGED <<helper, grants, files, cache, lastNotified, heard, backoff, mishaps>>
    BY DEF Ask
  <1>3. CASE refreshing
    <2>1. Goes(t, "joining") /\ UNCHANGED refreshing
      BY <1>3 DEF Ask, Seen
    <2>2. Moved(t, "joining", asker[t].solo, asker[t].token)
      BY <2>1, GoesMoves DEF TokenInv, Places
    <2>3. Flag'
      BY <1>1, <2>1, <2>2, FlagKept DEF TokenInv
    <2>4. Types'
      BY <1>2, <2>1, <2>2 DEF TokenInv, Types, Moved, grants, files
    <2> QED
      BY <1>1, <1>2, <2>2, <2>3, <2>4, CalmStep
  <1>4. CASE ~refreshing
    <2> DEFINE r == [asker[t] EXCEPT !.pc = "post", !.solo = TRUE]
    <2>1. r \in Asker /\ r.pc = "post" /\ r.solo = TRUE
      BY <1>1 DEF Asker, Places
    <2>2. asker' = [asker EXCEPT ![t] = r] /\ refreshing' = TRUE
      BY <1>4 DEF Ask, Seen
    <2> HIDE DEF r
    <2>3. Moved(t, "post", TRUE, r.token)
      BY <2>1, <2>2, SetMoves DEF TokenInv
    <2>4. Flag'
      BY <1>4, <2>2, <2>3 DEF TokenInv, Flag, Moved
    <2>5. Types'
      BY <1>2, <2>2, <2>3 DEF TokenInv, Types, Moved, grants, files
    <2> QED
      BY <1>1, <1>2, <2>3, <2>4, <2>5, CalmStep
  <1> QED
    BY <1>3, <1>4 DEF TokenInv, Types

LEMMA JoinStep ==
    ASSUME TokenInv, NEW t \in Askers, Join(t) PROVE TokenInv'
  <1>1. asker[t].pc = "joining" /\ asker[t].solo = FALSE /\ ~helper /\ cache # 0
    BY DEF Join, At, TokenInv, Flag, Types, Asker, Modes
  <1>2. UNCHANGED <<helper, grants, files, cache, refreshing, lastNotified, heard, backoff, mishaps>>
    BY DEF Join
  <1>3. \E pc \in {"home", "waiting"}, token \in Grants : Moved(t, pc, FALSE, token)
    <2>1. CASE refreshing
      <3>1. Goes(t, "waiting")
        BY <2>1 DEF Join
      <3>2. Moved(t, "waiting", FALSE, asker[t].token)
        BY <1>1, <3>1, GoesMoves DEF TokenInv, Places
      <3>3. asker[t].token \in Grants
        BY DEF TokenInv, Types, Asker
      <3> QED
        BY <3>2, <3>3
    <2>2. CASE ~refreshing
      <3>1. asker' = [asker EXCEPT ![t] = Back]
        BY <2>2 DEF Join
      <3>2. Moved(t, Back.pc, Back.solo, Back.token)
        BY <3>1, Bounds, SetMoves DEF TokenInv
      <3> QED
        BY <3>2, Bounds DEF Back
    <2> QED
      BY <2>1, <2>2
  <1>4. PICK pc \in {"home", "waiting"}, token \in Grants : Moved(t, pc, FALSE, token)
    BY <1>3
  <1>5. Flag'
    BY <1>1, <1>2, <1>4, FlagKept DEF TokenInv
  <1>6. Types'
    BY <1>2, <1>4 DEF TokenInv, Types, Moved, grants, files
  <1> QED
    BY <1>1, <1>2, <1>4, <1>5, <1>6, CalmStep

LEMMA RenewStep ==
    ASSUME TokenInv, NEW t \in Askers, Renew(t) PROVE TokenInv'
  <1>1. ~helper /\ asker[t].pc = "home" /\ cache # 0 /\ asker[t].solo = FALSE
    BY DEF Renew, At, TokenInv, Flag, Types, Asker
  <1>2. UNCHANGED <<helper, grants, files, cache, refreshing, lastNotified, heard, backoff>>
    BY DEF Renew
  <1>3. Moved(t, "post", asker[t].solo, asker[t].token)
    BY GoesMoves DEF Renew, TokenInv, Places
  <1>4. Flag'
    BY <1>1, <1>2, <1>3, FlagKept DEF TokenInv
  <1>5. mishaps' \in 0 .. MaxMishaps
    BY TokenAssumption DEF Renew, Mishap, TokenInv, Types
  <1>6. Types'
    BY <1>2, <1>3, <1>5 DEF TokenInv, Types, Moved, grants, files
  <1> QED
    BY <1>1, <1>2, <1>3, <1>4, <1>6, CalmStep
\* A refresh that failed was neither to save nor to tell.
LEMMA ReturnKeeps ==
    ASSUME TokenInv, NEW t \in Askers, asker[t].pc = "post", ~helper, Types', Flag',
           asker'[t] = Back,
           \A u \in Askers \ {t} : asker'[u] = asker[u] \/ (At(u, "waiting") /\ asker'[u] = Back),
           UNCHANGED <<helper, grants, files, cache, lastNotified, heard>>
    PROVE  TokenInv'
  <1>1. \A u \in Askers : \/ asker'[u] = asker[u]
                          \/ asker[u].pc \in {"post", "waiting"} /\ asker'[u].pc = "home"
    BY DEF At, Back
  <1>2. Modes'
    BY <1>1 DEF TokenInv, Modes, grants, files
  <1>3. Files'
    <2>1. \A u \in Askers : Saves(u) => Saves(u)'
      BY <1>1 DEF Saves, files
    <2> QED
      BY <1>1, <2>1 DEF TokenInv, Files, Saving, files
  <1>4. LocalHeard'
    <2>1. \A u \in Askers : WillTell(u) => WillTell(u)'
      BY <1>1 DEF WillTell, Tells
    <2> QED
      BY <1>1, <2>1 DEF TokenInv, LocalHeard, files
  <1>5. HelperHeard'
    BY DEF HelperHeard
  <1> QED
    BY <1>2, <1>3, <1>4, <1>5 DEF TokenInv

\* _refresh_tokens: new tokens, which this thread will save.
LEMMA PostStep ==
    ASSUME TokenInv, NEW t \in Askers, Post(t) PROVE TokenInv'
  <1>1. asker[t].pc = "post" /\ ~helper /\ cache # 0 /\ issued \in Nat /\ MaxIssued \in Nat
    BY TokenAssumption, Bounds DEF Post, At, TokenInv, Types, Modes
  <1>2. UNCHANGED <<helper, owned, files, lastNotified, heard, backoff>>
    BY DEF Post
  <1>3. CASE Issue /\ cache' = issued + 1 /\ Goes(t, "open") /\ UNCHANGED <<refreshing, mishaps>>
    <2>1. Moved(t, "open", asker[t].solo, asker[t].token)
      BY <1>3, GoesMoves DEF TokenInv, Places
    <2>2. Flag'
      BY <1>3, <2>1, FlagKept DEF TokenInv
    <2>3. issued' = issued + 1 /\ issued' \in Grants /\ unexpired' \subseteq 1 .. issued'
      BY <1>1, <1>3 DEF Issue, Grants, TokenInv, Types
    <2>4. Types'
      BY <1>2, <1>3, <2>1, <2>3 DEF TokenInv, Types, Moved, files
    <2>5. heard \in Nat /\ cache \in Nat /\ disk \in Nat \cup {Torn} /\ tmp \in Nat \cup {Torn}
           /\ \A u \in Askers : asker[u].token \in Nat
      BY Bounds DEF TokenInv, Types, Asker
    <2>6. Modes'
      BY <1>1, <1>2, <1>3, <2>1, <2>3, <2>5 DEF TokenInv, Modes, Moved, files
    <2>7. Files'
      BY <1>1, <1>2, <2>1 DEF TokenInv, Files, Saving, Saves, Moved, files
    <2>8. LocalHeard'
      <3>1. lastNotified' <= heard' /\ heard' <= cache'
        BY <1>1, <1>2, <1>3, <2>5 DEF TokenInv, Modes, LocalHeard
      <3>2. \A u \in Askers : asker'[u].pc = "tell" => asker'[u].token <= cache'
        BY <1>1, <1>3, <2>1, <2>5 DEF TokenInv, Modes, LocalHeard, Moved
      <3>3. WillTell(t)'
        BY <2>1 DEF WillTell, Moved
      <3> QED
        BY <3>1, <3>2, <3>3 DEF LocalHeard
    <2>9. HelperHeard'
      BY <1>1, <1>2 DEF HelperHeard
    <2> QED
      BY <2>2, <2>4, <2>6, <2>7, <2>8, <2>9 DEF TokenInv
  <1>4. CASE Refusal /\ Return(t, TRUE) /\ UNCHANGED <<issued, unexpired, cache>>
    <2>1. /\ asker' \in [Askers -> Asker] /\ refreshing' \in BOOLEAN /\ asker'[t] = Back
          /\ \A u \in Askers \ {t} : asker'[u] = asker[u] \/ (At(u, "waiting") /\ asker'[u] = Back)
          /\ Flag'
      BY <1>4, Returns DEF TokenInv
    <2>2. mishaps' \in 0 .. MaxMishaps
      BY <1>4, TokenAssumption DEF Refusal, Mishap, TokenInv, Types
    <2>3. Types'
      BY <1>2, <1>4, <2>1, <2>2 DEF TokenInv, Types, files
    <2> QED
      BY <1>1, <1>2, <1>4, <2>1, <2>3, ReturnKeeps DEF grants
  <1> QED
    BY <1>3, <1>4 DEF Post

LEMMA OpenStep ==
    ASSUME TokenInv, NEW t \in Askers, OpenTmp(t) PROVE TokenInv'
  <1>1. asker[t].pc = "open" /\ ~helper
    BY DEF OpenTmp, At, TokenInv, Modes
  <1>2. UNCHANGED <<helper, grants, cache, refreshing, lastNotified, heard, backoff, mishaps>>
        /\ tmp' = Torn /\ UNCHANGED disk
    BY DEF OpenTmp, Truncated
  <1>3. Moved(t, "write", asker[t].solo, asker[t].token)
    BY GoesMoves DEF OpenTmp, TokenInv, Places
  <1>4. Flag'
    BY <1>2, <1>3, FlagKept DEF TokenInv
  <1>5. overlapped' \in BOOLEAN
        /\ (overlapped' <=> overlapped \/ \E u \in Askers : Saving(u))
    BY DEF OpenTmp, TokenInv, Types
  <1>6. Types'
    BY <1>2, <1>3, <1>5 DEF TokenInv, Types, Moved, grants
  <1>7. Modes'
    BY <1>1, <1>2, <1>3 DEF TokenInv, Modes, Moved, grants
  <1>8. Files'
    BY <1>1, <1>2, <1>3, <1>5 DEF TokenInv, Files, Saving, Saves, Moved
  <1>9. LocalHeard'
    <2>1. WillTell(t)'
      BY <1>3 DEF WillTell, Moved
    <2> QED
      BY <1>2, <1>3, <2>1 DEF TokenInv, LocalHeard, Moved
  <1>10. HelperHeard'
    BY <1>1, <1>2 DEF HelperHeard
  <1> QED
    BY <1>4, <1>6, <1>7, <1>8, <1>9, <1>10 DEF TokenInv

LEMMA WriteStep ==
    ASSUME TokenInv, NEW t \in Askers, WriteTmp(t) PROVE TokenInv'
  <1>1. asker[t].pc = "write" /\ ~helper /\ cache # 0
    BY DEF WriteTmp, At, TokenInv, Modes
  <1>2. UNCHANGED <<helper, grants, overlapped, cache, refreshing, lastNotified, heard, backoff,
                    mishaps>>
    BY DEF WriteTmp
  <1>3. Moved(t, "replace", asker[t].solo, asker[t].token)
    BY GoesMoves DEF WriteTmp, TokenInv, Places
  <1>4. Flag'
    BY <1>2, <1>3, FlagKept DEF TokenInv
  <1>5. disk' \in {disk, cache} /\ tmp' \in {tmp, cache}
    BY DEF WriteTmp
  <1>6. Types'
    BY <1>2, <1>3, <1>5 DEF TokenInv, Types, Moved, grants
  <1>7. Modes'
    BY <1>1, <1>2, <1>3, <1>5 DEF TokenInv, Modes, Moved, grants
  <1>8. Files'
    <2> SUFFICES ASSUME ~overlapped PROVE Files'
      BY <1>2 DEF Files
    <2>1. tmp = Torn /\ Torn # 0
      BY <1>1, Bounds DEF TokenInv, Files
    <2>2. tmp' = cache /\ UNCHANGED disk
      BY <2>1 DEF WriteTmp
    <2>3. cache # Torn
      BY Bounds DEF TokenInv, Types
    <2>4. \A u \in Askers \ {t} : ~Saving(u)
      BY <1>1 DEF TokenInv, Files, Saving
    <2>5. Saves(t)'
      BY <1>2, <1>3, <2>2 DEF Saves, Moved
    <2> QED
      BY <1>1, <1>2, <1>3, <2>2, <2>3, <2>4, <2>5 DEF TokenInv, Files, Saving, Moved
  <1>9. LocalHeard'
    <2>1. WillTell(t)'
      BY <1>3 DEF WillTell, Moved
    <2> QED
      BY <1>2, <1>3, <2>1 DEF TokenInv, LocalHeard, Moved
  <1>10. HelperHeard'
    BY <1>1, <1>2 DEF HelperHeard
  <1> QED
    BY <1>4, <1>6, <1>7, <1>8, <1>9, <1>10 DEF TokenInv

LEMMA ReplaceStep ==
    ASSUME TokenInv, NEW t \in Askers, ReplaceTmp(t) PROVE TokenInv'
  <1>1. asker[t].pc = "replace" /\ ~helper /\ cache # 0
    BY DEF ReplaceTmp, At, TokenInv, Modes
  <1>2. UNCHANGED <<helper, grants, overlapped, cache, lastNotified, heard, backoff, mishaps>>
    BY DEF ReplaceTmp
  <1>3. CASE tmp = 0
    <2>1. overlapped
      BY <1>1, <1>3 DEF TokenInv, Files
    <2>2. Return(t, TRUE) /\ UNCHANGED <<disk, tmp>>
      BY <1>3 DEF ReplaceTmp
    <2>3. /\ asker' \in [Askers -> Asker] /\ refreshing' \in BOOLEAN /\ asker'[t] = Back
          /\ \A u \in Askers \ {t} : asker'[u] = asker[u] \/ (At(u, "waiting") /\ asker'[u] = Back)
          /\ Flag'
      BY <2>2, Returns DEF TokenInv
    <2>4. Types'
      BY <1>2, <2>2, <2>3 DEF TokenInv, Types, grants
    <2>5. Modes'
      BY <1>1, <1>2, <2>2, <2>3 DEF TokenInv, Modes, At, Back, grants
    <2>6. Files' /\ HelperHeard'
      BY <1>1, <1>2, <2>1 DEF Files, HelperHeard
    <2>7. LocalHeard'
      BY <1>2, <2>1, <2>3 DEF TokenInv, LocalHeard, Back
    <2> QED
      BY <2>3, <2>4, <2>5, <2>6, <2>7 DEF TokenInv
  <1>4. CASE tmp # 0
    <2>1. disk' = tmp /\ tmp' = 0 /\ Goes(t, "notify") /\ UNCHANGED refreshing
      BY <1>4 DEF ReplaceTmp
    <2>2. Moved(t, "notify", asker[t].solo, asker[t].token)
      BY <2>1, GoesMoves DEF TokenInv, Places
    <2>3. Flag'
      BY <2>1, <2>2, FlagKept DEF TokenInv
    <2>4. Types'
      BY <1>2, <2>1, <2>2, Bounds DEF TokenInv, Types, Moved, grants
    <2>5. issued \in Nat
      BY Bounds DEF TokenInv, Types
    <2>6. Modes'
      BY <1>1, <1>2, <2>1, <2>2, <2>5 DEF TokenInv, Modes, Moved, grants
    <2>7. Files'
      <3> SUFFICES ASSUME ~overlapped PROVE Files'
        BY <1>2 DEF Files
      <3>1. \A u \in Askers \ {t} : ~Saving(u)
        BY <1>1 DEF TokenInv, Files, Saving
      <3>2. tmp # Torn
        BY <1>1 DEF TokenInv, Files
      <3>3. disk' = cache \/ \E u \in Askers : Saves(u)'
        <4>1. CASE tmp = cache
          BY <2>1, <4>1
        <4>2. CASE \E u \in Askers : asker[u].pc = "open"
          <5>1. PICK u \in Askers : asker[u].pc = "open"
            BY <4>2
          <5>2. asker'[u] = asker[u]
            BY <1>1, <2>2, <5>1 DEF Moved
          <5> QED
            BY <5>1, <5>2 DEF Saves
        <4> QED
          BY <1>1, <4>1, <4>2 DEF TokenInv, Files
      <3> QED
        BY <1>2, <2>1, <2>2, <3>1, <3>2, <3>3 DEF Files, Saving, Moved
    <2>8. LocalHeard'
      <3>1. WillTell(t)'
        BY <2>2 DEF WillTell, Tells, Moved
      <3> QED
        BY <1>2, <2>2, <3>1 DEF TokenInv, LocalHeard, Moved
    <2>9. HelperHeard'
      BY <1>1, <1>2 DEF HelperHeard
    <2> QED
      BY <2>3, <2>4, <2>6, <2>7, <2>8, <2>9 DEF TokenInv
  <1> QED
    BY <1>3, <1>4
------------------------------------------------------------------------------
(* Actions of the helper's deployment.                                     *)

\* Without a token of the cache nothing needs to be told.
LEMMA AskHelperStep ==
    ASSUME TokenInv, NEW t \in Askers, AskHelper(t) PROVE TokenInv'
  <1>1. asker[t].pc = "home" /\ helper /\ asker[t].solo = FALSE
    BY DEF AskHelper, At, TokenInv, Flag, Types, Asker
  <1>2. UNCHANGED <<helper, grants, files, refreshing, lastNotified, heard, mishaps>>
        /\ cache' \in {0, cache} /\ backoff' \in BOOLEAN
    BY DEF AskHelper, TokenInv, Types
  <1>3. Moved(t, "get", asker[t].solo, asker[t].token)
    BY GoesMoves DEF AskHelper, TokenInv, Places
  <1>4. Flag'
    BY <1>1, <1>2, <1>3, FlagKept DEF TokenInv
  <1>5. Types'
    BY <1>2, <1>3, Bounds DEF TokenInv, Types, Moved, grants, files
  <1>6. Modes'
    BY <1>1, <1>2, <1>3 DEF TokenInv, Modes, Moved, files
  <1>7. Files' /\ LocalHeard'
    BY <1>1, <1>2 DEF Files, LocalHeard
  <1>8. HelperHeard'
    BY <1>1, <1>2, <1>3 DEF TokenInv, HelperHeard, Tells, Moved, grants
  <1> QED
    BY <1>4, <1>5, <1>6, <1>7, <1>8 DEF TokenInv

LEMMA ServeStep ==
    ASSUME TokenInv, NEW t \in Askers, Serve(t) PROVE TokenInv'
  <1>1. asker[t].pc = "get" /\ helper /\ asker[t].solo = FALSE /\ asker[t] \in Asker
    BY DEF Serve, At, TokenInv, Flag, Types, Asker, Modes
  <1>2. UNCHANGED <<helper, files, cache, refreshing, lastNotified, heard, backoff>>
    BY DEF Serve
  <1>3. owned \in Nat /\ issued \in Nat /\ MaxIssued \in Nat
    BY Bounds, TokenAssumption DEF TokenInv, Types
  <1>4. ASSUME NEW token \in Grants, asker' = [asker EXCEPT ![t].pc = "reply", ![t].token = token]
        PROVE  Moved(t, "reply", FALSE, token)
    <2> DEFINE r == [asker[t] EXCEPT !.pc = "reply", !.token = token]
    <2>1. r \in Asker /\ r.pc = "reply" /\ r.solo = FALSE /\ r.token = token
      BY <1>1 DEF Asker, Places
    <2>2. asker' = [asker EXCEPT ![t] = r]
      BY <1>4
    <2> HIDE DEF r
    <2> QED
      BY <2>1, <2>2, SetMoves DEF TokenInv
  <1> DEFINE Fits(token) ==
          /\ Moved(t, "reply", FALSE, token)
          /\ token # 0 => owned' \in unexpired'
          /\ \/ owned' = owned /\ issued' = issued /\ unexpired' = unexpired
             \/ owned \notin unexpired /\ owned' = issued + 1 /\ issued' = issued + 1
                /\ issued < MaxIssued /\ unexpired' = unexpired \cup {issued + 1}
          /\ mishaps' \in 0 .. MaxMishaps
  <1>5. \E token \in {0, owned'} : Fits(token)
    <2>1. CASE /\ Usable(owned)
               /\ asker' = [asker EXCEPT ![t].pc = "reply", ![t].token = owned]
               /\ UNCHANGED <<grants, mishaps>>
      <3>1. owned \in Grants /\ mishaps \in 0 .. MaxMishaps
        BY DEF TokenInv, Types
      <3>2. Moved(t, "reply", FALSE, owned)
        BY <1>4, <2>1, <3>1
      <3>3. owned' = owned /\ issued' = issued /\ unexpired' = unexpired /\ mishaps' = mishaps
            /\ owned \in unexpired
        BY <2>1 DEF Usable, grants
      <3>4. owned' \in unexpired' /\ mishaps' \in 0 .. MaxMishaps
        BY <3>1, <3>3
      <3>5. Fits(owned)
        BY <3>2, <3>3, <3>4
      <3> HIDE DEF Fits
      <3> QED
        BY <3>3, <3>5
    <2>2. CASE /\ ~Usable(owned) /\ Issue /\ owned' = issued + 1
               /\ asker' = [asker EXCEPT ![t].pc = "reply", ![t].token = issued + 1]
               /\ UNCHANGED mishaps
      <3>1. issued + 1 \in Grants
        BY <1>3, <2>2 DEF Issue, Grants
      <3> QED
        BY <1>4, <2>2, <3>1 DEF Usable, Issue, TokenInv, Types
    <2>3. CASE /\ ~Usable(owned) /\ Refusal
               /\ asker' = [asker EXCEPT ![t].pc = "reply", ![t].token = 0]
               /\ UNCHANGED grants
      <3>1. mishaps' \in 0 .. MaxMishaps
        BY <2>3, TokenAssumption DEF Refusal, Mishap, TokenInv, Types
      <3>2. 0 \in Grants
        BY Bounds
      <3>3. Moved(t, "reply", FALSE, 0)
        BY <1>4, <2>3, <3>2
      <3>4. owned' = owned /\ issued' = issued /\ unexpired' = unexpired
        BY <2>3 DEF grants
      <3>5. Fits(0)
        BY <3>1, <3>3, <3>4
      <3> HIDE DEF Fits
      <3> QED
        BY <3>5
    <2> QED
      BY <2>1, <2>2, <2>3 DEF Serve
  <1>6. PICK token \in {0, owned'} : Fits(token)
    BY <1>5
  <1>7. Flag'
    BY <1>1, <1>2, <1>6, FlagKept DEF TokenInv
  <1>8. owned' \in Grants /\ issued' \in Grants /\ unexpired' \subseteq 1 .. issued'
    <2>1. unexpired \subseteq 1 .. issued /\ owned \in Grants /\ issued \in Grants
      BY DEF TokenInv, Types
    <2>2. CASE owned' = owned /\ issued' = issued /\ unexpired' = unexpired
      BY <2>1, <2>2
    <2>3. CASE /\ owned' = issued + 1 /\ issued' = issued + 1 /\ issued < MaxIssued
               /\ unexpired' = unexpired \cup {issued + 1}
      <3>1. issued + 1 \in Grants /\ 1 .. issued \subseteq 1 .. (issued + 1)
            /\ issued + 1 \in 1 .. (issued + 1)
        BY <1>3, <2>3 DEF Grants
      <3> QED
        BY <2>1, <2>3, <3>1
    <2> QED
      BY <1>6, <2>2, <2>3
  <1>9. Types'
    BY <1>2, <1>6, <1>8 DEF TokenInv, Types, Moved, files
  <1>10. Modes'
    BY <1>1, <1>2, <1>6 DEF TokenInv, Modes, Moved, files
  <1>11. Files' /\ LocalHeard'
    BY <1>1, <1>2 DEF Files, LocalHeard
  <1>12. HelperHeard'
    <2>1. \A u \in Askers : Tells(u) => Tells(u)'
      BY <1>1, <1>2, <1>6 DEF Tells, Moved
    <2>2. ASSUME NEW u \in Askers
          PROVE  /\ asker'[u].pc = "reply" => asker'[u].token \in {0, owned'}
                 /\ asker'[u].pc \in {"notify", "tell"} \/ (asker'[u].pc = "reply" /\ asker'[u].token # 0)
                      => owned' \in unexpired'
                 /\ asker'[u].pc \in {"notify", "tell"} => cache' \in {0, owned'}
                 /\ asker'[u].pc = "tell" => asker'[u].token \in {0, owned'}
      <3>1. CASE u = t
        BY <1>6, <3>1 DEF Moved
      <3>2. CASE u # t
        BY <1>1, <1>2, <1>6, <3>2 DEF TokenInv, HelperHeard, Moved
      <3> QED
        BY <3>1, <3>2
    <2> QED
      BY <1>1, <1>2, <2>1, <2>2 DEF TokenInv, HelperHeard
  <1> QED
    BY <1>7, <1>9, <1>10, <1>11, <1>12 DEF TokenInv

LEMMA ReceiveStep ==
    ASSUME TokenInv, NEW t \in Askers, Receive(t) PROVE TokenInv'
  <1>1. asker[t].pc = "reply" /\ helper /\ asker[t].solo = FALSE /\ asker[t] \in Asker
        /\ asker[t].token \in Grants
    BY DEF Receive, At, TokenInv, Flag, Types, Asker, Modes
  <1>2. UNCHANGED <<helper, grants, files, refreshing, lastNotified, heard, backoff, mishaps>>
        /\ cache' = asker[t].token
    BY DEF Receive
  <1>3. /\ asker[t].token = 0 => \E token \in Grants : Moved(t, "home", FALSE, token)
        /\ asker[t].token # 0 => Moved(t, "notify", FALSE, asker[t].token)
    <2>1. CASE asker[t].token = 0
      <3>1. asker' = [asker EXCEPT ![t] = Back]
        BY <2>1 DEF Receive
      <3>2. Moved(t, Back.pc, Back.solo, Back.token)
        BY <3>1, Bounds, SetMoves DEF TokenInv
      <3> QED
        BY <2>1, <3>2, Bounds DEF Back
    <2>2. CASE asker[t].token # 0
      <3> DEFINE r == [asker[t] EXCEPT !.pc = "notify"]
      <3>1. r \in Asker /\ r.pc = "notify" /\ r.solo = FALSE /\ r.token = asker[t].token
        BY <1>1 DEF Asker, Places
      <3>2. asker' = [asker EXCEPT ![t] = r]
        BY <2>2 DEF Receive
      <3> HIDE DEF r
      <3> QED
        BY <2>2, <3>1, <3>2, SetMoves DEF TokenInv
    <2> QED
      BY <2>1, <2>2
  <1>4. PICK pc \in {"home", "notify"}, token \in Grants :
          /\ Moved(t, pc, FALSE, token)
          /\ pc = "notify" <=> asker[t].token # 0
    BY <1>1, <1>3
  <1>5. Flag'
    BY <1>1, <1>2, <1>4, FlagKept DEF TokenInv
  <1>6. Types'
    BY <1>1, <1>2, <1>4 DEF TokenInv, Types, Moved, grants, files
  <1>7. Modes'
    BY <1>1, <1>2, <1>4 DEF TokenInv, Modes, Moved, files
  <1>8. Files' /\ LocalHeard'
    BY <1>1, <1>2 DEF Files, LocalHeard
  <1>9. HelperHeard'
    <2>1. cache' \in {0, owned} /\ (cache' # 0 => owned \in unexpired /\ asker'[t].pc = "notify")
      BY <1>1, <1>2, <1>4 DEF TokenInv, HelperHeard, Moved
    <2>2. \A u \in Askers \ {t} : asker'[u] = asker[u]
      BY <1>4 DEF Moved
    <2>3. cache' \in {0, heard'} \/ Tells(t)'
      BY <2>1 DEF Tells
    <2>4. asker'[t].pc \in {"home", "notify"} /\ (asker'[t].pc = "notify" => owned \in unexpired)
      BY <1>1, <1>4 DEF Moved, TokenInv, HelperHeard
    <2> QED
      BY <1>1, <1>2, <2>1, <2>2, <2>3, <2>4 DEF TokenInv, HelperHeard, grants
  <1> QED
    BY <1>5, <1>6, <1>7, <1>8, <1>9 DEF TokenInv

LEMMA FetchFailsStep ==
    ASSUME TokenInv, NEW t \in Askers, FetchFails(t) PROVE TokenInv'
  <1>1. asker[t].pc \in {"get", "reply"} /\ helper /\ asker[t].solo = FALSE
    BY DEF FetchFails, TokenInv, Flag, Types, Asker, Modes
  <1>2. UNCHANGED <<helper, grants, files, refreshing, lastNotified, heard>>
        /\ cache' = 0 /\ backoff' = TRUE /\ asker' = [asker EXCEPT ![t] = Back]
    BY DEF FetchFails
  <1>3. Moved(t, "home", FALSE, 0)
    <2>1. Moved(t, Back.pc, Back.solo, Back.token)
      BY <1>2, Bounds, SetMoves DEF TokenInv
    <2> QED
      BY <2>1 DEF Back
  <1>4. Flag'
    BY <1>1, <1>2, <1>3, FlagKept DEF TokenInv
  <1>5. mishaps' \in 0 .. MaxMishaps
    BY TokenAssumption DEF FetchFails, Mishap, TokenInv, Types
  <1>6. Types'
    BY <1>2, <1>3, <1>5, Bounds DEF TokenInv, Types, Moved, grants, files
  <1>7. Modes'
    BY <1>1, <1>2, <1>3 DEF TokenInv, Modes, Moved, files
  <1>8. Files' /\ LocalHeard'
    BY <1>1, <1>2 DEF Files, LocalHeard
  <1>9. HelperHeard'
    BY <1>1, <1>2, <1>3 DEF TokenInv, HelperHeard, Moved, grants
  <1> QED
    BY <1>4, <1>6, <1>7, <1>8, <1>9 DEF TokenInv

------------------------------------------------------------------------------
(* Listeners, time and crashes.                                            *)

LEMMA PeekStep ==
    ASSUME TokenInv, NEW t \in Askers, Peek(t) PROVE TokenInv'
  <1>1. asker[t].pc = "notify" /\ asker[t] \in Asker /\ cache \in Grants /\ cache \in Nat
    BY Bounds DEF Peek, At, TokenInv, Types
  <1>2. UNCHANGED <<helper, grants, files, cache, refreshing, lastNotified, heard, backoff, mishaps>>
    BY DEF Peek
  <1>3. Moved(t, "tell", asker[t].solo, cache)
    <2> DEFINE r == [asker[t] EXCEPT !.pc = "tell", !.token = cache]
    <2>1. r \in Asker /\ r.pc = "tell" /\ r.solo = asker[t].solo /\ r.token = cache
      BY <1>1 DEF Asker, Places
    <2>2. asker' = [asker EXCEPT ![t] = r]
      BY DEF Peek
    <2> HIDE DEF r
    <2> QED
      BY <2>1, <2>2, SetMoves DEF TokenInv
  <1>4. Flag'
    BY <1>2, <1>3, FlagKept DEF TokenInv
  <1>5. Types'
    BY <1>2, <1>3 DEF TokenInv, Types, Moved, grants, files
  <1>6. Modes'
    BY <1>1, <1>2, <1>3 DEF TokenInv, Modes, Moved, grants, files
  <1>7. Files'
    <2>1. \A u \in Askers : Saves(u) => Saves(u)'
      BY <1>1, <1>2, <1>3 DEF Saves, Moved, files
    <2> QED
      BY <1>1, <1>2, <1>3, <2>1 DEF TokenInv, Files, Saving, Moved, files
  <1>8. Tells(t)'
    BY <1>2, <1>3 DEF Tells, Moved
  <1>9. LocalHeard'
    BY <1>1, <1>2, <1>3, <1>8 DEF TokenInv, LocalHeard, WillTell, Moved
  <1>10. HelperHeard'
    BY <1>1, <1>2, <1>3, <1>8 DEF TokenInv, HelperHeard, Moved, grants
  <1> QED
    BY <1>4, <1>5, <1>6, <1>7, <1>9, <1>10 DEF TokenInv

LEMMA TellStep ==
    ASSUME TokenInv, NEW t \in Askers, Tell(t) PROVE TokenInv'
  <1> DEFINE T == asker[t].token
  <1>1. asker[t].pc = "tell" /\ T \in Grants /\ T \in Nat /\ cache \in Grants /\ cache \in Nat
        /\ heard \in Nat /\ lastNotified \in Nat
    BY Bounds DEF Tell, At, TokenInv, Types, Asker
  <1>2. UNCHANGED <<helper, grants, files, cache, mishaps>> /\ Return(t, FALSE)
    BY DEF Tell
  <1>3. \/ lastNotified = T /\ UNCHANGED <<lastNotified, heard>>
        \/ lastNotified # T /\ lastNotified' = T /\ heard' = IF cache = 0 THEN T ELSE cache
    BY DEF Tell, Told, Used
  <1>4. /\ asker' \in [Askers -> Asker] /\ refreshing' \in BOOLEAN /\ asker'[t] = Back
        /\ \A u \in Askers \ {t} : asker'[u] = asker[u] \/ (At(u, "waiting") /\ asker'[u] = Back)
        /\ Flag'
    BY <1>2, Returns DEF TokenInv
  <1> HIDE DEF T
  <1>5. backoff' \in BOOLEAN
    BY DEF Tell, TokenInv, Types
  <1>6. Types'
    BY <1>1, <1>2, <1>3, <1>4, <1>5 DEF TokenInv, Types, grants, files
  <1>7. \A u \in Askers : \/ asker'[u] = asker[u] /\ u # t
                          \/ /\ asker'[u].pc = "home"
                             /\ u = t \/ asker[u].pc = "waiting"
    BY <1>4 DEF At, Back
  <1>8. Modes'
    BY <1>2, <1>7 DEF TokenInv, Modes, grants, files
  <1>9. Files'
    <2>1. \A u \in Askers : Saves(u) => Saves(u)'
      BY <1>1, <1>2, <1>7 DEF Saves, files
    <2>2. \A u \in Askers : asker[u].pc = "open" => asker'[u].pc = "open"
      BY <1>1, <1>7
    <2> QED
      BY <1>2, <1>7, <2>1, <2>2 DEF TokenInv, Files, Saving, files
  <1>10. \A u \in Askers \ {t} : (WillTell(u) => WillTell(u)') /\ (Tells(u) => Tells(u)')
    BY <1>2, <1>7 DEF WillTell, Tells
  <1>11. LocalHeard'
    <2> SUFFICES ASSUME ~helper PROVE LocalHeard'
      BY <1>2 DEF LocalHeard
    <2>1. cache # 0 /\ T <= cache /\ lastNotified <= heard /\ heard <= cache
      BY <1>1 DEF TokenInv, Modes, LocalHeard, T
    <2>2. lastNotified' <= heard' /\ heard' <= cache'
      BY <1>1, <1>2, <1>3, <2>1
    <2>3. \A u \in Askers : asker'[u].pc = "tell" => asker'[u].token <= cache'
      BY <1>2, <1>7 DEF TokenInv, LocalHeard
    <2>4. CASE lastNotified # T
      BY <1>2, <1>3, <2>1, <2>2, <2>3, <2>4 DEF LocalHeard
    <2>5. CASE lastNotified = T
      <3>1. WillTell(t) => cache = heard
        BY <1>1, <2>1, <2>5 DEF WillTell, Tells, T
      <3>2. UNCHANGED <<heard, cache, disk, overlapped>>
        BY <1>2, <1>3, <2>5 DEF files
      <3> QED
        BY <1>10, <2>2, <2>3, <3>1, <3>2 DEF TokenInv, LocalHeard
    <2> QED
      BY <2>4, <2>5
  <1>12. HelperHeard'
    <2> SUFFICES ASSUME helper PROVE HelperHeard'
      BY <1>2 DEF HelperHeard
    <2>1. T \in {0, owned} /\ cache \in {0, owned} /\ (lastNotified # 0 => heard = lastNotified)
      BY <1>1 DEF TokenInv, HelperHeard, T
    <2>2. lastNotified' # 0 => heard' = lastNotified'
      BY <1>3, <2>1
    <2>3. cache' \in {0, heard'} \/ \E u \in Askers : Tells(u)'
      <3>1. CASE lastNotified # T
        BY <1>2, <1>3, <3>1
      <3>2. CASE lastNotified = T
        <4>1. Tells(t) => cache \in {0, heard}
          BY <1>1, <2>1, <3>2 DEF Tells, T
        <4> QED
          BY <1>2, <1>3, <1>10, <3>2, <4>1 DEF TokenInv, HelperHeard
      <3> QED
        BY <3>1, <3>2
    <2> QED
      BY <1>2, <1>7, <2>2, <2>3 DEF TokenInv, HelperHeard, grants
  <1> QED
    BY <1>4, <1>6, <1>8, <1>9, <1>11, <1>12 DEF TokenInv

LEMMA TimeStep ==
    ASSUME TokenInv, Expire \/ BackoffEnds PROVE TokenInv'
  <1>1. UNCHANGED <<helper, issued, owned, files, cache, refreshing, lastNotified, heard, asker,
                    mishaps>>
        /\ unexpired' \subseteq unexpired /\ backoff' \in BOOLEAN
    BY DEF Expire, BackoffEnds, grants, TokenInv, Types
  <1>2. Types'
    BY <1>1 DEF TokenInv, Types, files
  <1>3. Flag' /\ Modes' /\ Files' /\ LocalHeard'
    BY <1>1 DEF TokenInv, Flag, Modes, Files, Saving, Saves, LocalHeard, WillTell, Tells, files
  <1>4. helper => unexpired' = unexpired
                  \/ \A t \in Askers : asker[t].pc \in {"home", "get"}
    BY DEF Expire, BackoffEnds, grants
  <1>5. HelperHeard'
    BY <1>1, <1>4 DEF TokenInv, HelperHeard, Tells
  <1> QED
    BY <1>2, <1>3, <1>5 DEF TokenInv

LEMMA CrashStep ==
    ASSUME TokenInv, Crash PROVE TokenInv'
  <1>1. /\ cache' = IF disk = Torn THEN 0 ELSE disk
        /\ refreshing' = FALSE /\ lastNotified' = 0 /\ heard' = 0 /\ backoff' = FALSE
        /\ UNCHANGED <<helper, grants, files>>
    BY DEF Crash, Loaded
  <1>2. asker' = [t \in Askers |-> Back]
    BY DEF Crash
  <1>3. \A t \in Askers : asker'[t].pc = "home" /\ asker'[t].solo = FALSE
    BY <1>2 DEF Back
  <1>4. asker' \in [Askers -> Asker]
    BY <1>2, Bounds
  <1>5. mishaps' \in 0 .. MaxMishaps
    BY TokenAssumption DEF Crash, Mishap, TokenInv, Types
  <1>6. cache' \in Grants /\ cache' \in Nat
    BY <1>1, Bounds DEF TokenInv, Types
  <1>7. Types'
    BY <1>1, <1>4, <1>5, <1>6, Bounds DEF TokenInv, Types, grants, files
  <1>8. Flag'
    BY <1>1, <1>3 DEF Flag
  <1>9. issued \in Nat
    BY Bounds DEF TokenInv, Types
  <1>10. Modes'
    BY <1>1, <1>3, <1>9 DEF TokenInv, Modes, grants, files
  <1>11. Files'
    BY <1>1, <1>3 DEF TokenInv, Files, Saving, files
  <1>12. LocalHeard'
    BY <1>1, <1>3, <1>6 DEF TokenInv, LocalHeard, Files, files
  <1>13. HelperHeard'
    BY <1>1, <1>3, Bounds DEF TokenInv, HelperHeard, Modes
  <1> QED
    BY <1>7, <1>8, <1>10, <1>11, <1>12, <1>13 DEF TokenInv

------------------------------------------------------------------------------
(* The specification.                                                      *)

LEMMA TokenNextStep == TokenInv /\ [TokensNext]_tokenVars => TokenInv'
  <1> SUFFICES ASSUME TokenInv, [TokensNext]_tokenVars PROVE TokenInv'
    OBVIOUS
  <1>1. ASSUME NEW t \in Askers, Ask(t) \/ Renew(t) \/ AskHelper(t) PROVE TokenInv'
    BY <1>1, AskStep, RenewStep, AskHelperStep
  <1>2. ASSUME NEW t \in Askers, TokenStep(t) PROVE TokenInv'
    BY <1>2, JoinStep, PostStep, OpenStep, WriteStep, ReplaceStep, ServeStep, ReceiveStep,
       FetchFailsStep, PeekStep, TellStep DEF TokenStep
  <1>3. CASE Expire \/ BackoffEnds
    BY <1>3, TimeStep
  <1>4. CASE Crash
    BY <1>4, CrashStep
  <1>5. CASE UNCHANGED tokenVars
    BY <1>5 DEF tokenVars, grants, files, TokenInv, Types, Flag, Modes, Files, Saving, Saves,
                LocalHeard, WillTell, Tells, HelperHeard
  <1> QED
    BY <1>1, <1>2, <1>3, <1>4, <1>5 DEF TokensNext

\* What the invariant means when every thread is at home.
LEMMA TokensAgree == TokenInv => TokensSound
  <1> SUFFICES ASSUME TokenInv PROVE TokensSound
    OBVIOUS
  <1>1. TokensTypeOK
    BY DEF TokenInv, Types, TokensTypeOK, Asker, Places
  <1>2. OneRefresher
    <2> DEFINE S == {t \in Askers : asker[t].solo}
    <2>1. \A t, u \in S : t = u
      BY DEF TokenInv, Flag
    <2>2. Cardinality(S) <= 1
      <3> HIDE DEF S
      <3>1. CASE S = {}
        <4>1. Cardinality(S) = 0
          BY <3>1, FS_EmptySet
        <4> QED
          BY <4>1
      <3>2. CASE S # {}
        <4>1. PICK t \in S : S = {t}
          BY <2>1, <3>2
        <4>2. Cardinality({t}) = 1
          BY FS_Singleton
        <4> QED
          BY <4>1, <4>2
      <3> QED
        BY <3>1, <3>2
    <2> QED
      BY <2>2 DEF TokenInv, Flag, OneRefresher
  <1>3. DiskSound
    BY DEF TokenInv, Files, Saves, At, DiskSound
  <1>4. ListenersCurrent
    <2> SUFFICES ASSUME \A t \in Askers : At(t, "home"), ~overlapped
                 PROVE  cache \in {0, heard} \/ (heard = 0 /\ ~helper /\ cache = disk)
      BY DEF ListenersCurrent
    <2>1. \A t \in Askers : ~WillTell(t) /\ ~Tells(t)
      BY DEF WillTell, Tells, At
    <2>2. CASE helper
      BY <2>1, <2>2 DEF TokenInv, HelperHeard
    <2>3. CASE ~helper
      BY <2>1, <2>3 DEF TokenInv, LocalHeard
    <2> QED
      BY <2>2, <2>3
  <1> QED
    BY <1>1, <1>2, <1>3, <1>4 DEF TokensSound

\* Threads that refresh, save and tell at the same time, refusals, failures and crashes leave one
\* refresher at most, a tokens file that parses and is the newest, and listeners that have used
\* the token the provider vends, unless two saves overlapped.  (TokenProvider._refresh_singleflight,
\* _save_tokens, _fetch_from_helper, _notify_listeners.)
THEOREM TokensAreSound == TokensSpec => []TokensSound
  BY InitTokens, TokenNextStep, TokensAgree, PTL DEF TokensSpec
==============================================================================
