--------------------------- MODULE Recordings_proofs ---------------------------
(***************************************************************************)
(* Proofs about the recorder of a market-day and the replay of what was    *)
(* recorded.                                                               *)
(*                                                                         *)
(* MarketDay: the lifecycle, the final manifest, the cache and the         *)
(* immutability of a closed session, for any symbols, payloads and         *)
(* threads.  The inductive invariant says who holds the recorder's lock    *)
(* and what the holder is about to write: without it the moment between    *)
(* the truncation of the manifest and its text could not be told from a    *)
(* torn file that nobody will repair, nor a payload recorded after the     *)
(* close from one recorded before.                                         *)
(*                                                                         *)
(* MarketDayRunner: RunnerInv relates the runner's place to the recorder's *)
(* state and the link, for any delays and any number of rounds.            *)
(*                                                                         *)
(* ReplayEngine: the types, that an engine which says PLAYING is driven by *)
(* a player, and that it implements Replay, for any recordings, any number *)
(* of viewers and any interleaving of their calls with the player threads. *)
(***************************************************************************)
EXTENDS MarketDay, MarketDayRunner, ReplayEngine, SequenceTheorems, TLAPS

-----------------------------------------------------------------------------
(* MarketDay.                                                              *)

\* The lock is held exactly by the thread that is inside a locked section.
LockHeld ==
    \A t \in Writers : doing[t].op \in {"writing", "manifest"} <=> mutex = t

\* Every line was counted.
Counted == counts = lines

Final ==
    /\ manifest # Torn
    /\ manifest.ended # Never
    /\ manifest.active = {}
    /\ manifest.counts = lines

\* Only the closer ends a session, once; then nobody else writes a manifest.
EndedOnce ==
    /\ doing[Closer].op = "close" => ~closed
    /\ \A t \in Writers : doing[t].op = "manifest" =>
            /\ doing[t].ended # Never <=> closed
            /\ closed => t = Closer
    /\ closed => active = {}
    /\ closed /\ doing[Closer].op # "manifest" => Final

\* Whoever relied on the end of the session did so after it had ended.
EndSeen ==
    /\ manifest # Torn /\ manifest.ended # Never => closed
    /\ \A r \in Readers : reading[r] = "cached" => closed
    /\ \A s \in Symbols : cache[s] # Never => closed

MarketInv ==
    MarketTypeOK /\ LifeMatches /\ LockHeld /\ Counted /\ EndedOnce /\ EndSeen /\ CacheHonest

-----------------------------------------------------------------------------
(* Operators.                                                              *)

LEMMA ManifestTyped ==
    ASSUME MarketTypeOK, NEW e \in 0 .. MaxClock
    PROVE  /\ Manifest(e) \in Manifests /\ Manifest(e) # Torn
           /\ Manifest(e).ended = e /\ Manifest(e).active = active /\ Manifest(e).counts = counts
  BY DEF MarketTypeOK, Manifest, Manifests, Torn

\* A symbol whose only open period is the last: ending it leaves none open.
LEMMA PeriodEnded ==
    ASSUME NEW p \in Seq(Period), NEW when \in 1 .. MaxClock,
           \A i \in 1 .. Len(p) : p[i].to = Never => i = Len(p)
    PROVE  /\ EndPeriod(p, when) \in Seq(Period)
           /\ \A i \in 1 .. Len(EndPeriod(p, when)) : EndPeriod(p, when)[i].to # Never
  <1>1. CASE p # <<>> /\ p[Len(p)].to = Never
    <2> DEFINE q == [p EXCEPT ![Len(p)].to = when]
    <2>1. Len(p) \in Nat /\ Len(p) \in 1 .. Len(p) /\ EndPeriod(p, when) = q
      BY <1>1 DEF EndPeriod
    <2>2. [p[Len(p)] EXCEPT !.to = when] \in Period
      <3> DEFINE last == p[Len(p)]
      <3>1. last \in Period
        BY <2>1
      <3> HIDE DEF last
      <3>2. \A to \in 0 .. MaxClock : [last EXCEPT !.to = to] \in Period
        BY <3>1, Zenon DEF Period
      <3>3. when \in 0 .. MaxClock
        OBVIOUS
      <3> QED  BY <3>2, <3>3 DEF last
    <2>3. q = [p EXCEPT ![Len(p)] = [p[Len(p)] EXCEPT !.to = when]]
      OBVIOUS
    <2>4. q \in Seq(Period) /\ Len(q) = Len(p)
      BY <2>1, <2>2, <2>3
    <2>5. ASSUME NEW i \in 1 .. Len(q) PROVE q[i].to # Never
      BY <2>1, <2>4 DEF Never, Period
    <2> QED  BY <2>1, <2>4, <2>5
  <1>2. CASE ~(p # <<>> /\ p[Len(p)].to = Never)
    <2>1. EndPeriod(p, when) = p
      BY <1>2 DEF EndPeriod
    <2>2. ASSUME NEW i \in 1 .. Len(p) PROVE p[i].to # Never
      BY <1>2
    <2> QED  BY <2>1, <2>2
  <1> QED  BY <1>1, <1>2

LEMMA PeriodBegun ==
    ASSUME NEW p \in Seq(Period), NEW when \in 1 .. MaxClock,
           \A i \in 1 .. Len(p) : p[i].to # Never,
           NEW q, q = Append(p, [from |-> when, to |-> Never])
    PROVE  /\ q \in Seq(Period) /\ q # <<>> /\ q[Len(q)].to = Never
           /\ \A i \in 1 .. Len(q) : q[i].to = Never => i = Len(q)
  <1>1. [from |-> when, to |-> Never] \in Period
    BY MarketDayAssumption DEF Period, Never
  <1> QED  BY <1>1

LEMMA InitMarket == MarketInit => MarketInv
  <1> SUFFICES ASSUME MarketInit PROVE MarketInv
    OBVIOUS
  <1> USE MarketDayAssumption DEF MarketInit
  <1>1. [from |-> 1, to |-> Never] \in Period /\ Idle \in Jobs /\ Never = 0 /\ Idle.op = "idle"
    BY DEF Period, Jobs, Idle, Never
  <1>2. life \in Lives
    BY <1>1 DEF Lives
  <1>3. 0 \in 0 .. MaxClock /\ Free \notin Writers
    BY DEF Free, Writers
  <1>4. Manifest(Never) \in Manifests /\ Manifest(Never).ended = 0
    BY <1>1, <1>2, <1>3 DEF Manifest, Manifests, Counter
  <1>5. MarketTypeOK
    <2>1. known \in SUBSET Symbols /\ active \in SUBSET known /\ counts \in Counter /\ lines \in Counter
      BY DEF Counter
    <2>2. doing \in [Writers -> Jobs] /\ clock \in 1 .. MaxClock
      BY <1>1
    <2>3. reading \in [Readers -> {"idle", "fresh", "cached"}] /\ cache \in Counter
      BY <1>1 DEF Counter
    <2>4. manifest \in Manifests /\ mutex = Free /\ closed = FALSE /\ alive = TRUE
      BY <1>4
    <2> QED  BY <1>2, <2>1, <2>2, <2>3, <2>4 DEF MarketTypeOK
  <1>6. LifeMatches
    <2> SUFFICES ASSUME NEW s \in Symbols
                 PROVE  /\ \A i \in 1 .. Len(life[s]) : Open(s, i) => i = Len(life[s])
                        /\ s \in active <=> life[s] # <<>> /\ Open(s, Len(life[s]))
      BY DEF LifeMatches
    <2>1. CASE s \in First
      <3>1. life[s] = <<[from |-> 1, to |-> Never]>>
        BY <2>1
      <3> QED  BY <2>1, <3>1 DEF Open
    <2>2. CASE s \notin First
      BY <2>2 DEF Open
    <2> QED  BY <2>1, <2>2
  <1>7. LockHeld /\ Counted /\ EndedOnce /\ EndSeen /\ CacheHonest
    BY <1>1, <1>3, <1>4 DEF LockHeld, Counted, EndedOnce, EndSeen, CacheHonest, Writers
  <1> QED  BY <1>5, <1>6, <1>7 DEF MarketInv

-----------------------------------------------------------------------------
(* Writers.                                                                *)

OnDisk == <<lines, manifest>>
Books == <<known, active, life, counts, closed>>
Outside == <<clock, alive, reading, cache>>

\* A thread that goes from one job to another, outside the lock or within it.
LEMMA JobChanges ==
    ASSUME MarketInv, NEW t \in Writers, NEW j \in Jobs,
           doing' = [doing EXCEPT ![t] = j],
           UNCHANGED <<Books, OnDisk, Outside>>, mutex' \in Writers \cup {Free},
           j.op # "manifest", doing[t].op # "manifest",
           j.op = "close" => t = Closer /\ ~closed,
           \A u \in Writers : doing'[u].op \in {"writing", "manifest"} <=> mutex' = u
    PROVE  MarketInv'
  <1> USE DEF MarketInv, Books, OnDisk, Outside
  <1>1. doing' \in [Writers -> Jobs] /\ doing'[t] = j /\ \A u \in Writers \ {t} : doing'[u] = doing[u]
    BY DEF MarketTypeOK
  <1>2. MarketTypeOK'
    BY <1>1 DEF MarketTypeOK
  <1>3. LockHeld'
    BY DEF LockHeld
  <1>4. EndedOnce'
    <2>1. doing'[Closer].op = "close" => ~closed
      BY <1>1 DEF EndedOnce, Writers
    <2>2. \A u \in Writers : doing'[u].op = "manifest" => u # t /\ doing'[u] = doing[u]
      BY <1>1
    <2>3. closed /\ doing'[Closer].op # "manifest" => doing[Closer].op # "manifest"
      BY <1>1 DEF Writers
    <2> QED  BY <2>1, <2>2, <2>3 DEF EndedOnce, Final
  <1>5. LifeMatches' /\ Counted' /\ EndSeen' /\ CacheHonest'
    BY DEF LifeMatches, Open, Counted, EndSeen, CacheHonest
  <1> QED  BY <1>2, <1>3, <1>4, <1>5

LEMMA BeginRecordStep ==
    ASSUME MarketInv, NEW t \in Streamers, NEW payload \in Payloads, BeginRecord(t, payload),
           UNCHANGED Outside
    PROVE  MarketInv'
  <1> DEFINE j == [op |-> "record", todo |-> payload]
  <1>1. t \in Writers /\ j \in Jobs /\ j.op = "record" /\ doing[t].op = "idle"
    BY MarketDayAssumption DEF Writers, Jobs, BeginRecord, Idle
  <1>2. doing' = [doing EXCEPT ![t] = j] /\ UNCHANGED <<Books, OnDisk, Outside, mutex>>
    BY DEF BeginRecord, Books, OnDisk
  <1>3. mutex' \in Writers \cup {Free}
    BY <1>2 DEF MarketInv, MarketTypeOK
  <1>4. \A u \in Writers : doing'[u].op \in {"writing", "manifest"} <=> mutex' = u
    BY <1>1, <1>2 DEF MarketInv, MarketTypeOK, LockHeld
  <1> QED  BY <1>1, <1>2, <1>3, <1>4, JobChanges

LEMMA TakeForRecordStep ==
    ASSUME MarketInv, NEW t \in Streamers, TakeForRecord(t), UNCHANGED Outside
    PROVE  MarketInv'
  <1> DEFINE j == [op |-> "writing", todo |-> doing[t].todo]
  <1>1. t \in Writers /\ doing[t] \in Jobs /\ doing[t].op = "record" /\ mutex = Free /\ mutex' = t
    BY DEF Writers, TakeForRecord, MarketInv, MarketTypeOK
  <1>2. doing[t] \in [op : {"record", "writing"}, todo : Seq(Symbols)]
    BY <1>1 DEF Jobs, Idle
  <1>3. j \in Jobs /\ j.op = "writing" /\ j = [doing[t] EXCEPT !.op = "writing"]
    BY <1>2 DEF Jobs
  <1>4. doing' = [doing EXCEPT ![t] = j] /\ UNCHANGED <<Books, OnDisk, Outside>>
    BY <1>3 DEF TakeForRecord, Books, OnDisk
  <1>5. \A u \in Writers : doing'[u].op \in {"writing", "manifest"} <=> mutex' = u
    BY <1>1, <1>3, <1>4, MarketDayAssumption DEF MarketInv, MarketTypeOK, LockHeld, Free, Writers
  <1> QED  BY <1>1, <1>3, <1>4, <1>5, JobChanges

LEMMA EndRecordStep ==
    ASSUME MarketInv, NEW t \in Streamers, EndRecord(t), UNCHANGED Outside
    PROVE  MarketInv'
  <1>1. t \in Writers /\ Idle \in Jobs /\ Idle.op = "idle" /\ doing[t].op = "writing" /\ mutex' = Free
    BY DEF Writers, Jobs, EndRecord, Idle
  <1>2. doing' = [doing EXCEPT ![t] = Idle] /\ UNCHANGED <<Books, OnDisk, Outside>>
    BY DEF EndRecord, Books, OnDisk
  <1>3. mutex = t
    BY <1>1 DEF MarketInv, LockHeld
  <1>4. \A u \in Writers : doing'[u].op \in {"writing", "manifest"} <=> mutex' = u
    BY <1>1, <1>2, <1>3, MarketDayAssumption DEF MarketInv, MarketTypeOK, LockHeld, Free, Writers
  <1> QED  BY <1>1, <1>2, <1>4, JobChanges

LEMMA EditWaitsStep ==
    ASSUME MarketInv, NEW t \in Editors, UNCHANGED Outside,
           \/ \E s \in Symbols, op \in {"add", "remove"} : BeginEdit(t, op, s)
           \/ EditIdle(t)
    PROVE  MarketInv'
  <1>1. t \in Writers /\ clock \in 1 .. MaxClock
    BY DEF Writers, MarketInv, MarketTypeOK
  <1>2. PICK j \in Jobs : /\ doing' = [doing EXCEPT ![t] = j]
                          /\ j.op \in {"idle", "add", "remove"}
                          /\ doing[t].op \in {"idle", "add", "remove"}
    <2>1. ASSUME NEW s \in Symbols, NEW op \in {"add", "remove"}, BeginEdit(t, op, s)
          PROVE  /\ Wanting(op, s, clock) \in Jobs
                 /\ doing' = [doing EXCEPT ![t] = Wanting(op, s, clock)]
                 /\ Wanting(op, s, clock).op \in {"idle", "add", "remove"}
                 /\ doing[t].op \in {"idle", "add", "remove"}
      BY <1>1, <2>1 DEF BeginEdit, Wanting, Jobs, Idle
    <2>2. CASE EditIdle(t)
      BY <2>2 DEF EditIdle, Jobs, Idle
    <2> QED  BY <2>1, <2>2
  <1>3. UNCHANGED <<Books, OnDisk, mutex>>
    BY DEF BeginEdit, EditIdle, Books, OnDisk
  <1>4. mutex' \in Writers \cup {Free}
    BY <1>3 DEF MarketInv, MarketTypeOK
  <1>5. \A u \in Writers : doing'[u].op \in {"writing", "manifest"} <=> mutex' = u
    BY <1>1, <1>2, <1>3 DEF MarketInv, MarketTypeOK, LockHeld
  <1> QED  BY <1>1, <1>2, <1>3, <1>4, <1>5, JobChanges

LEMMA BeginCloseStep ==
    ASSUME MarketInv, BeginClose, UNCHANGED Outside
    PROVE  MarketInv'
  <1> DEFINE j == [op |-> "close"]
  <1>1. Closer \in Writers /\ j \in Jobs /\ j.op = "close" /\ doing[Closer].op = "idle" /\ ~closed
    BY DEF Writers, Jobs, BeginClose, MayClose, Idle
  <1>2. doing' = [doing EXCEPT ![Closer] = j] /\ UNCHANGED <<Books, OnDisk, Outside, mutex>>
    BY DEF BeginClose, Books, OnDisk
  <1>3. mutex' \in Writers \cup {Free}
    BY <1>2 DEF MarketInv, MarketTypeOK
  <1>4. \A u \in Writers : doing'[u].op \in {"writing", "manifest"} <=> mutex' = u
    BY <1>1, <1>2 DEF MarketInv, MarketTypeOK, LockHeld
  <1> QED  BY <1>1, <1>2, <1>3, <1>4, JobChanges

\* A line is counted as it is written, and none is written once the session is closed: nobody is active.
LEMMA RecordEntryStep ==
    ASSUME MarketInv, NEW t \in Streamers, RecordEntry(t), UNCHANGED Outside
    PROVE  MarketInv'
  <1> USE DEF MarketInv, Outside
  <1> DEFINE s == Head(doing[t].todo)
             n == IF Wanted(s) /\ lines[s] < MaxLines THEN 1 ELSE 0
             j == [op |-> "writing", todo |-> Tail(doing[t].todo)]
  <1>1. t \in Writers /\ doing[t] \in [op : {"record", "writing"}, todo : Seq(Symbols)]
        /\ doing[t].op = "writing" /\ doing[t].todo # <<>>
    BY DEF Writers, RecordEntry, MarketTypeOK, Jobs, Idle
  <1>2. s \in Symbols /\ j \in Jobs /\ j.op = "writing"
    BY <1>1 DEF Jobs
  <1>3. doing' = [doing EXCEPT ![t] = j]
    <2>1. [doing[t] EXCEPT !.todo = Tail(@)] = j
      BY <1>1, SMTT(30)
    <2> QED  BY <2>1 DEF RecordEntry
  <1>4. /\ lines' = [lines EXCEPT ![s] = lines[s] + n] /\ counts' = [counts EXCEPT ![s] = counts[s] + n]
        /\ UNCHANGED <<known, active, life, closed, mutex, manifest>>
    BY DEF RecordEntry
  <1>5. closed => n = 0
    BY DEF EndedOnce, Wanted
  <1>6. lines' \in Counter /\ counts' \in Counter /\ (closed => lines' = lines)
    <2>1. lines \in Counter /\ counts \in Counter /\ n \in {0, 1}
      BY DEF MarketTypeOK
    <2> HIDE DEF n
    <2>2. lines[s] + n \in Nat /\ counts[s] + n \in Nat
      BY <1>2, <2>1, SMTT(30) DEF Counter
    <2> QED
      BY <1>2, <1>4, <1>5, <2>1, <2>2 DEF Counter
  <1>7. doing' \in [Writers -> Jobs]
    BY <1>1, <1>2, <1>3 DEF MarketTypeOK
  <1>8. MarketTypeOK'
    BY <1>4, <1>6, <1>7 DEF MarketTypeOK
  <1>9. LockHeld' /\ Counted'
    BY <1>1, <1>2, <1>3, <1>4 DEF LockHeld, Counted, MarketTypeOK
  <1>10. EndedOnce'
    BY <1>1, <1>2, <1>3, <1>4, <1>6 DEF EndedOnce, Final, MarketTypeOK, Writers
  <1>11. LifeMatches' /\ EndSeen'
    BY <1>4 DEF LifeMatches, Open, EndSeen
  <1>12. CacheHonest'
    BY <1>6 DEF CacheHonest, EndSeen
  <1> QED  BY <1>8, <1>9, <1>10, <1>11, <1>12

\* What add_symbol, remove_symbol and close share: they take the lock, change the books and truncate
\* the manifest.
LEMMA Truncates ==
    ASSUME MarketInv, NEW t \in Writers, NEW e \in 0 .. MaxClock, mutex = Free, mutex' = t,
           doing' = [doing EXCEPT ![t] = [op |-> "manifest", ended |-> e]],
           manifest' = Torn, UNCHANGED <<counts, lines, Outside>>,
           known' \in SUBSET Symbols, active' \in SUBSET known', life' \in Lives, LifeMatches',
           closed' \in BOOLEAN, ~closed, closed' <=> e # Never, closed' => t = Closer /\ active' = {},
           doing[t].op = "close" <=> closed'
    PROVE  MarketInv'
  <1> USE DEF MarketInv, Outside
  <1> DEFINE j == [op |-> "manifest", ended |-> e]
  <1>1. j \in Jobs /\ j.op = "manifest" /\ j.ended = e
    BY DEF Jobs
  <1>2. doing' \in [Writers -> Jobs] /\ doing'[t] = j /\ \A u \in Writers \ {t} : doing'[u] = doing[u]
    BY <1>1 DEF MarketTypeOK
  <1>3. MarketTypeOK'
    BY <1>2 DEF MarketTypeOK
  <1>4. \A u \in Writers \ {t} : doing'[u].op \notin {"writing", "manifest"}
    BY <1>2, MarketDayAssumption DEF LockHeld, Free, Writers
  <1>5. LockHeld'
    BY <1>1, <1>2, <1>4 DEF LockHeld
  <1>6. EndedOnce'
    <2>1. doing'[Closer].op = "close" => ~closed'
      BY <1>1, <1>2 DEF Writers
    <2>2. \A u \in Writers : doing'[u].op = "manifest" => u = t
      BY <1>4
    <2>3. closed' => doing'[Closer].op = "manifest"
      BY <1>1, <1>2
    <2> QED  BY <1>1, <1>2, <2>1, <2>2, <2>3 DEF EndedOnce
  <1>7. Counted' /\ CacheHonest'
    BY DEF Counted, CacheHonest
  <1>8. EndSeen'
    BY DEF EndSeen
  <1> QED  BY <1>3, <1>5, <1>6, <1>7, <1>8

\* An edit is a thread's that is not about to close.
LEMMA Editing ==
    ASSUME MarketInv, NEW t \in Writers, doing[t].op \in {"add", "remove"}
    PROVE  doing[t].symbol \in Symbols /\ doing[t].when \in 1 .. MaxClock
  <1>1. doing[t] \in Jobs
    BY DEF MarketInv, MarketTypeOK
  <1> QED  BY <1>1 DEF Jobs, Idle

LEMMA AddStep ==
    ASSUME MarketInv, NEW t \in Editors, Add(t), UNCHANGED Outside
    PROVE  MarketInv'
  <1> DEFINE s == doing[t].symbol
             p == Append(life[s], [from |-> doing[t].when, to |-> Never])
  <1>1. t \in Writers /\ doing[t].op = "add" /\ mutex = Free /\ ~closed /\ s \notin active
    BY DEF Writers, Add
  <1>2. s \in Symbols /\ doing[t].when \in 1 .. MaxClock
    BY <1>1, Editing
  <1>3. /\ known' = known \cup {s} /\ active' = active \cup {s} /\ life' = [life EXCEPT ![s] = p]
        /\ mutex' = t /\ manifest' = Torn /\ UNCHANGED <<counts, closed, lines>>
        /\ doing' = [doing EXCEPT ![t] = [op |-> "manifest", ended |-> Never]]
    BY DEF Add, Registered
  <1>4. life \in [Symbols -> Seq(Period)] /\ life[s] \in Seq(Period)
    BY <1>2 DEF MarketInv, MarketTypeOK, Lives
  <1>5. \A i \in 1 .. Len(life[s]) : life[s][i].to # Never
    <2> SUFFICES ASSUME NEW i \in 1 .. Len(life[s]), life[s][i].to = Never PROVE FALSE
      OBVIOUS
    <2>1. i = Len(life[s]) /\ life[s] # <<>>
      BY <1>2, <1>4 DEF MarketInv, LifeMatches, Open
    <2> QED  BY <1>1, <1>2, <2>1 DEF MarketInv, LifeMatches, Open
  <1>6. /\ p \in Seq(Period) /\ p # <<>> /\ p[Len(p)].to = Never
        /\ \A i \in 1 .. Len(p) : p[i].to = Never => i = Len(p)
    BY <1>2, <1>4, <1>5, PeriodBegun
  <1>7. life' \in Lives /\ life'[s] = p /\ \A r \in Symbols \ {s} : life'[r] = life[r]
    BY <1>2, <1>3, <1>4, <1>6 DEF Lives
  <1>8. LifeMatches'
    <2> HIDE DEF p
    <2> SUFFICES ASSUME NEW r \in Symbols
                 PROVE  /\ \A i \in 1 .. Len(life'[r]) : life'[r][i].to = Never => i = Len(life'[r])
                        /\ r \in active' <=> life'[r] # <<>> /\ life'[r][Len(life'[r])].to = Never
      BY DEF LifeMatches, Open
    <2>1. CASE r = s
      BY <1>3, <1>6, <1>7, <2>1
    <2>2. CASE r # s
      <3>1. life'[r] = life[r] /\ (r \in active' <=> r \in active)
        BY <1>3, <1>7, <2>2
      <3> QED
        BY <3>1 DEF MarketInv, LifeMatches, Open
    <2> QED
      BY <2>1, <2>2
  <1>9. known' \in SUBSET Symbols /\ active' \in SUBSET known' /\ closed' \in BOOLEAN
    BY <1>2, <1>3 DEF MarketInv, MarketTypeOK
  <1>10. Never \in 0 .. MaxClock /\ UNCHANGED <<counts, lines, Outside>>
    BY <1>3, MarketDayAssumption DEF Never
  <1> QED  BY <1>1, <1>3, <1>7, <1>8, <1>9, <1>10, Truncates

LEMMA RemoveStep ==
    ASSUME MarketInv, NEW t \in Editors, Remove(t), UNCHANGED Outside
    PROVE  MarketInv'
  <1> DEFINE s == doing[t].symbol
             p == EndPeriod(life[s], doing[t].when)
  <1>1. t \in Writers /\ doing[t].op = "remove" /\ mutex = Free /\ ~closed
    BY DEF Writers, Remove
  <1>2. s \in Symbols /\ doing[t].when \in 1 .. MaxClock
    BY <1>1, Editing
  <1>3. /\ known' = known /\ active' = active \ {s} /\ life' = [life EXCEPT ![s] = p]
        /\ mutex' = t /\ manifest' = Torn /\ UNCHANGED <<counts, closed, lines>>
        /\ doing' = [doing EXCEPT ![t] = [op |-> "manifest", ended |-> Never]]
    BY DEF Remove
  <1>4. life \in [Symbols -> Seq(Period)] /\ life[s] \in Seq(Period)
    BY <1>2 DEF MarketInv, MarketTypeOK, Lives
  <1>5. \A i \in 1 .. Len(life[s]) : life[s][i].to = Never => i = Len(life[s])
    BY <1>2 DEF MarketInv, LifeMatches, Open
  <1>6. p \in Seq(Period) /\ \A i \in 1 .. Len(p) : p[i].to # Never
    BY <1>2, <1>4, <1>5, PeriodEnded
  <1>7. life' \in Lives /\ life'[s] = p /\ \A r \in Symbols \ {s} : life'[r] = life[r]
    BY <1>2, <1>3, <1>4, <1>6 DEF Lives
  <1>8. LifeMatches'
    <2>1. p # <<>> => p[Len(p)].to # Never
      BY <1>6
    <2> HIDE DEF p
    <2> SUFFICES ASSUME NEW r \in Symbols
                 PROVE  /\ \A i \in 1 .. Len(life'[r]) : life'[r][i].to = Never => i = Len(life'[r])
                        /\ r \in active' <=> life'[r] # <<>> /\ life'[r][Len(life'[r])].to = Never
      BY DEF LifeMatches, Open
    <2>2. CASE r = s
      BY <1>3, <1>6, <1>7, <2>1, <2>2
    <2>3. CASE r # s
      <3>1. life'[r] = life[r] /\ (r \in active' <=> r \in active)
        BY <1>3, <1>7, <2>3
      <3> QED
        BY <3>1 DEF MarketInv, LifeMatches, Open
    <2> QED
      BY <2>2, <2>3
  <1>9. known' \in SUBSET Symbols /\ active' \in SUBSET known' /\ closed' \in BOOLEAN
    BY <1>2, <1>3 DEF MarketInv, MarketTypeOK
  <1>10. Never \in 0 .. MaxClock /\ UNCHANGED <<counts, lines, Outside>>
    BY <1>3, MarketDayAssumption DEF Never
  <1> QED  BY <1>1, <1>3, <1>7, <1>8, <1>9, <1>10, Truncates

LEMMA CloseStep ==
    ASSUME MarketInv, Close, UNCHANGED Outside
    PROVE  MarketInv'
  <1>1. Closer \in Writers /\ doing[Closer].op = "close" /\ mutex = Free /\ ~closed
    BY DEF Writers, Close, MarketInv, EndedOnce
  <1>2. clock \in 1 .. MaxClock /\ clock \in 0 .. MaxClock /\ clock # Never
    BY DEF MarketInv, MarketTypeOK, Never
  <1>3. /\ life' = [s \in Symbols |-> IF s \in active THEN EndPeriod(life[s], clock) ELSE life[s]]
        /\ active' = {} /\ closed' = TRUE /\ mutex' = Closer /\ manifest' = Torn
        /\ doing' = [doing EXCEPT ![Closer] = [op |-> "manifest", ended |-> clock]]
        /\ UNCHANGED <<known, counts, lines>>
    BY DEF Close
  <1>4. ASSUME NEW s \in Symbols
        PROVE  life'[s] \in Seq(Period) /\ \A i \in 1 .. Len(life'[s]) : life'[s][i].to # Never
    <2>1. life[s] \in Seq(Period) /\ \A i \in 1 .. Len(life[s]) : life[s][i].to = Never => i = Len(life[s])
      BY DEF MarketInv, MarketTypeOK, Lives, LifeMatches, Open
    <2>2. CASE s \in active
      BY <1>2, <1>3, <2>1, <2>2, PeriodEnded
    <2>3. CASE s \notin active
      <3>1. life'[s] = life[s]
        BY <1>3, <2>3
      <3>2. ~(life[s] # <<>> /\ life[s][Len(life[s])].to = Never)
        BY <2>3 DEF MarketInv, LifeMatches, Open
      <3>3. ASSUME NEW i \in 1 .. Len(life[s]) PROVE life[s][i].to # Never
        BY <2>1, <3>2
      <3> QED  BY <2>1, <3>1, <3>3
    <2> QED  BY <2>2, <2>3
  <1>5. life' \in Lives
    BY <1>3, <1>4 DEF Lives
  <1>6. LifeMatches'
    <2> SUFFICES ASSUME NEW s \in Symbols
                 PROVE  /\ \A i \in 1 .. Len(life'[s]) : life'[s][i].to = Never => i = Len(life'[s])
                        /\ ~(life'[s] # <<>> /\ life'[s][Len(life'[s])].to = Never)
      BY <1>3 DEF LifeMatches, Open
    <2> QED  BY <1>4
  <1>7. known' \in SUBSET Symbols /\ active' \in SUBSET known' /\ UNCHANGED <<counts, lines, Outside>>
    BY <1>3 DEF MarketInv, MarketTypeOK
  <1> QED  BY <1>1, <1>2, <1>3, <1>5, <1>6, <1>7, Truncates

\* The text of the manifest is the books', and the lock is given back.
LEMMA WriteManifestStep ==
    ASSUME MarketInv, NEW t \in Writers, WriteManifest(t), UNCHANGED Outside
    PROVE  MarketInv'
  <1> USE DEF MarketInv, Outside
  <1> DEFINE e == doing[t].ended
  <1>1. doing[t] \in [op : {"manifest"}, ended : 0 .. MaxClock] /\ doing[t].op = "manifest" /\ mutex = t
    BY DEF WriteManifest, MarketTypeOK, Jobs, Idle, LockHeld
  <1>2. e \in 0 .. MaxClock /\ (e # Never <=> closed) /\ (closed => t = Closer)
    BY <1>1 DEF EndedOnce
  <1>3. /\ manifest' = Manifest(e) /\ Manifest(e) \in Manifests /\ Manifest(e) # Torn
        /\ Manifest(e).ended = e /\ Manifest(e).active = active /\ Manifest(e).counts = counts
    BY <1>2, ManifestTyped DEF WriteManifest
  <1>4. /\ doing' = [doing EXCEPT ![t] = Idle] /\ mutex' = Free /\ Idle \in Jobs /\ Idle.op = "idle"
        /\ UNCHANGED <<known, active, life, counts, closed, lines>>
    BY DEF WriteManifest, Idle, Jobs
  <1>5. doing' \in [Writers -> Jobs] /\ doing'[t] = Idle /\ \A u \in Writers \ {t} : doing'[u] = doing[u]
    BY <1>4 DEF MarketTypeOK
  <1>6. MarketTypeOK'
    BY <1>3, <1>4, <1>5 DEF MarketTypeOK
  <1>7. \A u \in Writers : doing'[u].op \notin {"writing", "manifest"}
    BY <1>1, <1>4, <1>5 DEF LockHeld
  <1>8. LockHeld'
    BY <1>4, <1>7, MarketDayAssumption DEF LockHeld, Free, Writers
  <1>9. EndedOnce'
    <2>1. doing'[Closer].op = "close" => ~closed'
      BY <1>4, <1>5 DEF EndedOnce, Writers
    <2>2. closed' => Final'
      BY <1>2, <1>3, <1>4 DEF EndedOnce, Final, Counted
    <2>3. closed' => active' = {}
      BY <1>4 DEF EndedOnce
    <2> QED  BY <1>7, <2>1, <2>2, <2>3 DEF EndedOnce
  <1>10. EndSeen'
    BY <1>2, <1>3, <1>4 DEF EndSeen
  <1>11. LifeMatches' /\ Counted' /\ CacheHonest'
    BY <1>4 DEF LifeMatches, Open, Counted, CacheHonest
  <1> QED  BY <1>6, <1>8, <1>9, <1>10, <1>11

LEMMA WritingStep ==
    ASSUME MarketInv, Writing
    PROVE  MarketInv'
  <1>1. UNCHANGED Outside
    BY DEF Writing, Outside
  <1>2. ASSUME NEW t \in Streamers, Stream(t) PROVE MarketInv'
    BY <1>1, <1>2, BeginRecordStep, TakeForRecordStep, RecordEntryStep, EndRecordStep DEF Stream
  <1>3. ASSUME NEW t \in Editors, EditSymbols(t) PROVE MarketInv'
    <2>1. ASSUME NEW s \in Symbols, BeginEdit(t, "add", s) \/ BeginEdit(t, "remove", s) PROVE MarketInv'
      BY <1>1, <2>1, EditWaitsStep
    <2> QED  BY <1>1, <1>3, <2>1, EditWaitsStep, AddStep, RemoveStep DEF EditSymbols
  <1> QED  BY <1>1, <1>2, <1>3, WriteManifestStep, BeginCloseStep, CloseStep DEF Writing

-----------------------------------------------------------------------------
(* Readers, time and the crash.                                            *)

LEMMA ReadingStep ==
    ASSUME MarketInv, Reading
    PROVE  MarketInv'
  <1> USE DEF MarketInv, recorderVars
  <1>0. UNCHANGED <<recorderVars, lines, manifest, clock, alive>>
    BY DEF Reading
  <1>1. LifeMatches' /\ LockHeld' /\ Counted' /\ EndedOnce'
    BY <1>0 DEF LifeMatches, Open, LockHeld, Counted, EndedOnce, Final
  <1>2. PICK r \in Readers : LoadManifest(r) \/ \E s \in Symbols : ReadHistory(r, s)
    BY DEF Reading
  <1>3. CASE LoadManifest(r)
    <2>1. /\ cache' = cache
          /\ reading' = [reading EXCEPT ![r] = IF manifest.ended # Never THEN "cached" ELSE "fresh"]
      BY <1>3 DEF LoadManifest, Cacheable
    <2>2. MarketTypeOK'
      BY <1>0, <2>1 DEF MarketTypeOK
    <2>3. EndSeen'
      BY <1>0, <1>3, <2>1 DEF EndSeen, LoadManifest, MarketTypeOK
    <2>4. CacheHonest'
      BY <1>0, <2>1 DEF CacheHonest
    <2> QED  BY <1>1, <2>2, <2>3, <2>4
  <1>4. CASE \E s \in Symbols : ReadHistory(r, s)
    <2> PICK s \in Symbols : ReadHistory(r, s)
      BY <1>4
    <2>1. reading' = [reading EXCEPT ![r] = "idle"]
      BY DEF ReadHistory
    <2>2. cache' = cache \/ (cache' = [cache EXCEPT ![s] = lines[s]] /\ closed)
      BY DEF ReadHistory, EndSeen
    <2>3. MarketTypeOK'
      BY <1>0, <2>1, <2>2 DEF MarketTypeOK, Counter
    <2>4. EndSeen'
      BY <1>0, <2>1, <2>2 DEF EndSeen, MarketTypeOK, Counter
    <2>5. CacheHonest'
      BY <1>0, <2>2 DEF CacheHonest, MarketTypeOK, Counter
    <2> QED  BY <1>1, <2>3, <2>4, <2>5
  <1> QED  BY <1>2, <1>3, <1>4

LEMMA WorldStep ==
    ASSUME MarketInv, Tick \/ Crash \/ UNCHANGED marketVars
    PROVE  MarketInv'
  <1> USE DEF MarketInv, recorderVars, marketVars, Tick, Crash
  <1>1. clock' \in 1 .. MaxClock /\ alive' \in BOOLEAN
    <2>1. clock \in 1 .. MaxClock /\ alive \in BOOLEAN /\ MaxClock \in Nat
      BY MarketDayAssumption DEF MarketTypeOK
    <2>2. CASE Tick
      BY <2>1, <2>2
    <2>3. CASE Crash \/ UNCHANGED marketVars
      BY <2>1, <2>3
    <2> QED  BY <2>2, <2>3
  <1>2. MarketTypeOK'
    BY <1>1 DEF MarketTypeOK
  <1>3. LifeMatches' /\ LockHeld' /\ Counted' /\ EndedOnce' /\ EndSeen' /\ CacheHonest'
    BY DEF LifeMatches, Open, LockHeld, Counted, EndedOnce, Final, EndSeen, CacheHonest
  <1> QED  BY <1>2, <1>3

-----------------------------------------------------------------------------
THEOREM MarketInvariant == MarketSpec => []MarketInv
  <1>1. MarketInv /\ [MarketNext]_marketVars => MarketInv'
    BY WritingStep, ReadingStep, WorldStep DEF MarketNext
  <1> QED  BY <1>1, InitMarket, PTL DEF MarketSpec

\* The lifecycle, the manifest of a closed session, the files and the cache of its readers agree,
\* however payloads, edits, the close, readers and a crash interleave (MarketDayRecorder).
THEOREM SessionAlwaysTrue == MarketSpec => []SessionTrue
  <1>1. MarketInv => FinalManifest
    <2> SUFFICES ASSUME MarketInv, closed, mutex = Free PROVE Final
      BY DEF FinalManifest, Final
    <2>1. doing[Closer].op # "manifest"
      BY MarketDayAssumption DEF MarketInv, LockHeld, Free, Writers
    <2> QED  BY <2>1 DEF MarketInv, EndedOnce
  <1>2. MarketInv => SessionTrue
    BY <1>1 DEF MarketInv, SessionTrue
  <1> QED  BY <1>2, MarketInvariant, PTL

\* "Completed recordings are immutable" (web/app.py): after close() nobody changes the files.
THEOREM ClosedIsImmutable == MarketSpec => Immutable
  <1> DEFINE Kept == closed /\ mutex = Free => lines' = lines /\ manifest' = manifest
  <1>1. ASSUME MarketInv, [MarketNext]_marketVars PROVE Kept
    <2> SUFFICES ASSUME closed, mutex = Free PROVE lines' = lines /\ manifest' = manifest
      OBVIOUS
    <2>1. \A t \in Writers : doing[t].op \notin {"writing", "manifest"}
      BY <1>1, MarketDayAssumption DEF MarketInv, LockHeld, Free, Writers
    <2>2. doing[Closer].op # "close"
      BY <1>1 DEF MarketInv, EndedOnce
    <2>3. CASE Writing
      BY <2>1, <2>2, <2>3 DEF Writing, Stream, EditSymbols, Writers, BeginRecord, TakeForRecord,
         RecordEntry, EndRecord, BeginEdit, EditIdle, Add, Remove, BeginClose, Close, WriteManifest
    <2>4. CASE Reading \/ Tick \/ Crash \/ UNCHANGED marketVars
      BY <2>4 DEF Reading, Tick, Crash, marketVars
    <2> QED  BY <1>1, <2>3, <2>4 DEF MarketNext
  <1> QED  BY <1>1, MarketInvariant, PTL DEF MarketSpec, Immutable

-----------------------------------------------------------------------------
(* The stand-alone runner (MarketDayRunner).  Its three threads share the   *)
(* stop event and the socket; only run()'s thread makes a socket, and only  *)
(* its finally, or a start after the cutoff, closes the recorder.           *)

\* run() never goes back behind its start, whose socket nobody has made yet.
RunnerPlaces ==
    /\ at[Runner] \in {"start", "loop", "prepare", "dial", "running", "failed", "finally", "done"}
    /\ at[Watcher] \in {"idle", "watch", "closing", "done"}
    /\ at[User] \in {"idle", "closing", "done"}
    /\ At(Runner, "start") => socket = "none"

RunnerInv == RunnerTypeOK /\ RunCloses /\ RunnerPlaces

\* The capped delay stays between 1 s and the cap.
LEMMA LongerBounded ==
    ASSUME NEW n \in 1 .. MaxBackoff
    PROVE  Longer(n) \in 1 .. MaxBackoff
  BY RunnerAssumption DEF Longer, Capped

LEMMA RunnerStep == RunnerInv /\ [RunnerNext]_runnerVars => RunnerInv'
  <1> SUFFICES ASSUME RunnerInv, [RunnerNext]_runnerVars PROVE RunnerInv'
    OBVIOUS
  <1> USE RunnerAssumption
       DEF RunnerInv, RunnerTypeOK, RunnerThreads, RunCloses, RunnerPlaces, At, Goto
  <1>1. CASE StartRun
    BY <1>1 DEF StartRun
  <1>2. CASE Loop
    BY <1>2 DEF Loop
  <1>13. CASE Prepare
    BY <1>13 DEF Prepare
  <1>3. CASE Dial
    BY <1>3 DEF Dial
  <1>14. CASE Login
    BY <1>14 DEF Login
  <1>4. CASE Backoff
    BY <1>4, LongerBounded DEF Backoff
  <1>5. CASE Finally
    BY <1>5 DEF Finally
  <1>6. CASE \E t \in {Watcher, User} : SetStop(t)
    BY <1>6 DEF SetStop
  <1>7. CASE \E t \in {Watcher, User} : CloseSocket(t)
    BY <1>7 DEF CloseSocket, ClosedSocket
  <1>8. CASE WatchOver
    BY <1>8 DEF WatchOver
  <1>12. CASE Cutoff
    BY <1>12 DEF Cutoff
  <1>9. CASE Hangup
    BY <1>9 DEF Hangup
  <1>10. CASE Interrupt
    BY <1>10 DEF Interrupt, Unwind
  <1>11. CASE UNCHANGED runnerVars
    BY <1>11 DEF runnerVars
  <1> QED  BY <1>1, <1>2, <1>3, <1>4, <1>5, <1>6, <1>7, <1>8, <1>9, <1>10, <1>11, <1>12, <1>13, <1>14
           DEF RunnerNext, RunStep, StopStep

\* run() has closed the recorder exactly when it has ended, by the clock, a
\* stop, an interrupt or a late start, with no socket left up, and its delay
\* between two attempts never leaves its bounds (SchwabMarketDayRunner.run).
THEOREM RunHolds == RunnerSpec => []RunTrue
  <1>1. ASSUME RunnerInit PROVE RunnerInv
    <2>1. /\ at \in [RunnerThreads -> {"start", "idle"}]
          /\ at[Runner] = "start" /\ at[Watcher] = "idle" /\ at[User] = "idle"
      BY <1>1, RunnerAssumption DEF RunnerInit, RunnerThreads
    <2>2. at \in [RunnerThreads ->
                     {"idle", "start", "loop", "prepare", "dial", "running", "failed",
                      "finally", "watch", "closing", "done"}]
      BY <2>1
    <2>3. /\ stopping = FALSE /\ socket = "none" /\ loggedIn = FALSE /\ late \in BOOLEAN
          /\ backoff \in 1 .. MaxBackoff /\ recorder = "open"
      BY <1>1, RunnerAssumption DEF RunnerInit
    <2> QED  BY <2>1, <2>2, <2>3 DEF RunnerInv, RunnerTypeOK, RunCloses, RunnerPlaces, At
  <1>2. RunnerInv /\ [RunnerNext]_runnerVars => RunnerInv'
    BY RunnerStep
  <1>3. RunnerInv => RunTrue
    BY DEF RunnerInv, RunTrue
  <1> QED  BY <1>1, <1>2, <1>3, PTL DEF RunnerSpec

-----------------------------------------------------------------------------
(* ReplayEngine.                                                           *)

\* The analysis has seen the recording up to the cursor, and an engine without
\* a recording has neither.
SeenToCursor ==
    /\ ingested = SubSeq(events, 1, cursor)
    /\ ~loaded => events = <<>> /\ cursor = 0

ReplayInv == ReplayTypeOK /\ PlayingIsDriven /\ SeenToCursor

-----------------------------------------------------------------------------
(* Sequences.                                                              *)

\* A prefix, and what Ingest makes of it.
LEMMA PrefixGrows ==
    ASSUME NEW s \in Seq(Nat), NEW m \in 0 .. Len(s), NEW n \in m .. Len(s)
    PROVE  /\ SubSeq(s, 1, m) \o SubSeq(s, m + 1, n) = SubSeq(s, 1, n)
           /\ SubSeq(s, 1, n) \in Seq(Nat)
  <1>1. Len(s) \in Nat /\ 1 \in 1 .. Len(s) + 1 /\ m \in 1 - 1 .. Len(s)
    BY LenProperties
  <1>2. SubSeq(s, 1, m) \o SubSeq(s, m + 1, n) = SubSeq(s, 1, n)
    BY <1>1, ConcatAdjacentSubSeq
  <1>3. \A i \in 1 .. n : s[i] \in Nat
    BY <1>1, ElementOfSeq
  <1> QED  BY <1>1, <1>2, <1>3, SubSeqProperties

LEMMA PrefixFromNothing ==
    ASSUME NEW s \in Seq(Nat), NEW n \in 0 .. Len(s)
    PROVE  /\ SubSeq(s, 1, 0) = <<>>
           /\ <<>> \o SubSeq(s, 1, n) = SubSeq(s, 1, n)
  <1>1. SubSeq(s, 1, 0) = <<>>
    BY SubSeqEmpty
  <1>2. SubSeq(s, 1, 0) \o SubSeq(s, 0 + 1, n) = SubSeq(s, 1, n)
    BY PrefixGrows, LenProperties
  <1> QED  BY <1>1, <1>2

-----------------------------------------------------------------------------
(* Initial states, and every step.                                         *)

LEMMA InitReplay == ReplayInit => ReplayInv
  <1> SUFFICES ASSUME ReplayInit PROVE ReplayInv
    OBVIOUS
  <1> USE DEF ReplayInit
  <1>1. events \in Seq(Nat) /\ ingested \in Seq(Nat) /\ Len(events) = 0
    OBVIOUS
  <1>2. SubSeq(events, 1, 0) = <<>>
    BY <1>1, PrefixFromNothing
  <1>3. Resting \in Calls /\ Resting.op # "play"
    BY DEF Calls, Resting
  <1>4. 0 \in 0 .. Len(events) /\ 0 \in 0 .. MaxPlays
    BY <1>1, ReplayAssumption
  <1>5. call \in [Viewers -> Calls] /\ \A v \in Viewers : call[v].op # "play"
    BY <1>3
  <1>6. ReplayTypeOK
    BY <1>1, <1>4, <1>5 DEF ReplayTypeOK
  <1> QED  BY <1>2, <1>6 DEF ReplayInv, PlayingIsDriven, SeenToCursor

\* A call that goes on, or ends, without a player being due.
LEMMA CallTyped ==
    ASSUME ReplayTypeOK, NEW v \in Viewers, NEW c \in Calls, c.op # "play",
           generation' \in Nat, generation <= generation',
           call' = [call EXCEPT ![v] = c]
    PROVE  /\ call' \in [Viewers -> Calls]
           /\ \A w \in Viewers : call'[w].op = "play" => call'[w].arg \in 1 .. generation'
  BY DEF ReplayTypeOK

LEMMA BeginStep ==
    ASSUME ReplayInv, NEW v \in Viewers, NEW job \in Calls, job.op # "play", Begin(v, job)
    PROVE  ReplayInv'
  <1> USE DEF ReplayInv, Begin, engineVars
  <1>1. generation' \in 0 .. MaxPlays /\ generation \in Nat /\ generation' = generation + 1
    BY ReplayAssumption DEF ReplayTypeOK
  <1>2. /\ call' \in [Viewers -> Calls]
        /\ \A w \in Viewers : call'[w].op = "play" => call'[w].arg \in 1 .. generation'
    <2>1. call' = [call EXCEPT ![v] = job] /\ generation' \in Nat /\ generation <= generation'
      BY <1>1
    <2>2. ReplayTypeOK
      OBVIOUS
    <2> QED  BY ONLY <2>1, <2>2, job.op # "play", v \in Viewers, job \in Calls, CallTyped
  <1>3. status' \in {"EMPTY", "PAUSED", "COMPLETE"} /\ (status' = "EMPTY" <=> status = "EMPTY")
    BY DEF Paused, ReplayTypeOK
  <1>4. players' \in SUBSET (1 .. generation')
    BY <1>1 DEF ReplayTypeOK
  <1>5. ReplayTypeOK'
    BY <1>1, <1>2, <1>3, <1>4 DEF ReplayTypeOK
  <1> QED  BY <1>3, <1>5 DEF PlayingIsDriven, SeenToCursor

LEMMA PauseStep ==
    ASSUME ReplayInv, NEW v \in Viewers, Pause(v)
    PROVE  ReplayInv'
  <1> USE DEF ReplayInv, Pause, engineVars
  <1>1. generation' \in 0 .. MaxPlays /\ generation \in Nat /\ generation' = generation + 1
    BY ReplayAssumption DEF ReplayTypeOK
  <1>2. status' \in {"EMPTY", "PAUSED", "COMPLETE"} /\ (status' = "EMPTY" <=> status = "EMPTY")
    BY DEF Paused, ReplayTypeOK
  <1>3. players' \in SUBSET (1 .. generation')
    BY <1>1 DEF ReplayTypeOK
  <1>4. ReplayTypeOK'
    BY <1>1, <1>2, <1>3 DEF ReplayTypeOK
  <1> QED  BY <1>2, <1>4 DEF PlayingIsDriven, SeenToCursor

\* What load, step and seek make of the position.
LEMMA Moved ==
    ASSUME ReplayInv, NEW v \in Viewers, loaded',
           events' \in Seq(Nat), cursor' \in 0 .. Len(events'),
           ingested' = SubSeq(events', 1, cursor'),
           status' \in {"PAUSED", "COMPLETE"},
           call' = [call EXCEPT ![v] = Resting], UNCHANGED <<generation, players>>
    PROVE  ReplayInv'
  <1> USE DEF ReplayInv
  <1>1. generation \in Nat /\ Resting \in Calls /\ Resting.op # "play"
    BY ReplayAssumption DEF ReplayTypeOK, Resting, Calls
  <1>2. /\ call' \in [Viewers -> Calls]
        /\ \A w \in Viewers : call'[w].op = "play" => call'[w].arg \in 1 .. generation'
    <2>1. call' = [call EXCEPT ![v] = Resting] /\ generation' \in Nat /\ generation <= generation'
      BY <1>1
    <2>2. ReplayTypeOK
      OBVIOUS
    <2> QED  BY ONLY <1>1, <2>1, <2>2, v \in Viewers, CallTyped
  <1>3. ingested' \in Seq(Nat)
    BY PrefixGrows, LenProperties
  <1>4. loaded' \in BOOLEAN /\ generation' \in 0 .. MaxPlays /\ players' \in SUBSET (1 .. generation')
    BY DEF ReplayTypeOK
  <1>5. ReplayTypeOK'
    BY <1>2, <1>3, <1>4 DEF ReplayTypeOK
  <1> QED  BY <1>5 DEF PlayingIsDriven, SeenToCursor

\* load takes a recording of the catalog.
LEMMA LoadedTape ==
    ASSUME ReplayInv, NEW v \in Viewers, Load(v)
    PROVE  /\ call[v].tape \in Tapes /\ events' = call[v].tape /\ events' \in Seq(Nat)
           /\ cursor' = 0 /\ ingested' = <<>> /\ SubSeq(events', 1, 0) = <<>>
           /\ loaded' = TRUE
           /\ status' = IF events' = <<>> THEN "COMPLETE" ELSE "PAUSED"
  <1>1. call[v] \in Calls /\ call[v].op = "load"
    BY DEF ReplayInv, ReplayTypeOK, Load
  <1>2. call[v].tape \in Tapes
    BY <1>1 DEF Calls
  <1>3. events' = call[v].tape /\ events' \in Seq(Nat)
    BY <1>2, ReplayAssumption DEF Load
  <1>4. SubSeq(events', 1, 0) = <<>>
    BY <1>3, SubSeqEmpty
  <1> QED  BY <1>2, <1>3, <1>4 DEF Load, Reset

\* A step ends at or after the cursor, on the recording.
Target(n) == IF n < End THEN n ELSE End
LEMMA SteppedTo ==
    ASSUME ReplayInv, NEW v \in Viewers, Step(v)
    PROVE  /\ cursor' = Target(cursor + call[v].arg) /\ cursor' \in cursor .. Len(events)
           /\ events' = events /\ status' = AtRest(cursor') /\ loaded /\ loaded'
           /\ ingested' = SubSeq(events, 1, cursor')
  <1> DEFINE n == Target(cursor + call[v].arg)
  <1>1. call[v] \in Calls /\ call[v].op = "step" /\ events \in Seq(Nat) /\ cursor \in 0 .. Len(events)
    BY DEF ReplayInv, ReplayTypeOK, Step
  <1>2. call[v].arg \in Nat /\ Len(events) \in Nat
    BY <1>1, LenProperties DEF Calls
  <1>3. n \in cursor .. Len(events)
    BY <1>1, <1>2 DEF Target, End
  <1>4. SubSeq(events, 1, cursor) \o SubSeq(events, cursor + 1, n) = SubSeq(events, 1, n)
    BY <1>1, <1>3, PrefixGrows
  <1>5. cursor' = n /\ ingested' = SubSeq(events, 1, cursor) \o SubSeq(events, cursor + 1, n)
    BY DEF Step, Ingest, Target, ReplayInv, SeenToCursor
  <1> QED  BY <1>3, <1>4, <1>5 DEF Step, Target

LEMMA SoughtTo ==
    ASSUME ReplayInv, NEW v \in Viewers, Seek(v)
    PROVE  /\ cursor' = Target(call[v].arg) /\ cursor' \in 0 .. Len(events)
           /\ events' = events /\ status' = AtRest(cursor') /\ loaded /\ loaded'
           /\ ingested' = SubSeq(events, 1, cursor')
  <1> DEFINE n == Target(call[v].arg)
  <1>1. call[v] \in Calls /\ call[v].op = "seek" /\ events \in Seq(Nat)
    BY DEF ReplayInv, ReplayTypeOK, Seek
  <1>2. call[v].arg \in Nat /\ Len(events) \in Nat
    BY <1>1, LenProperties DEF Calls
  <1>3. n \in 0 .. Len(events)
    BY <1>1, <1>2 DEF Target, End
  <1>4. <<>> \o SubSeq(events, 1, n) = SubSeq(events, 1, n)
    BY <1>1, <1>3, PrefixFromNothing
  <1>5. cursor' = n /\ ingested' = <<>> \o SubSeq(events, 0 + 1, n)
    BY DEF Seek, Ingest, Target, Reset
  <1> QED  BY <1>3, <1>4, <1>5 DEF Seek, Target

LEMMA RefuseStep ==
    ASSUME ReplayInv, NEW v \in Viewers, Refuse(v)
    PROVE  ReplayInv'
  <1> USE DEF ReplayInv, Refuse, engineVars
  <1>1. generation \in Nat /\ Resting \in Calls /\ Resting.op # "play"
    BY ReplayAssumption DEF ReplayTypeOK, Resting, Calls
  <1>2. /\ call' \in [Viewers -> Calls]
        /\ \A w \in Viewers : call'[w].op = "play" => call'[w].arg \in 1 .. generation'
    <2>1. call' = [call EXCEPT ![v] = Resting] /\ generation' \in Nat /\ generation <= generation'
      BY <1>1
    <2>2. ReplayTypeOK
      OBVIOUS
    <2> QED  BY ONLY <1>1, <2>1, <2>2, v \in Viewers, CallTyped
  <1>3. ReplayTypeOK' /\ status' = "EMPTY"
    BY <1>2 DEF ReplayTypeOK
  <1> QED  BY <1>3 DEF PlayingIsDriven, SeenToCursor

LEMMA PlayStep ==
    ASSUME ReplayInv, NEW v \in Viewers, Play(v)
    PROVE  ReplayInv'
  <1> USE DEF ReplayInv, Play, engineVars
  <1>0. generation \in Nat /\ cursor \in Nat /\ Len(events) \in Nat /\ loaded /\ status # "EMPTY"
    BY ReplayAssumption, LenProperties DEF ReplayTypeOK
  <1>1. CASE cursor >= End
    <2>1. ReplayTypeOK'
      BY <1>0, <1>1 DEF ReplayTypeOK
    <2> QED  BY <1>1, <2>1 DEF PlayingIsDriven, SeenToCursor
  <1>2. CASE ~(cursor >= End)
    <2> DEFINE c == [op |-> "play", arg |-> generation + 1]
    <2>1. status' = "PLAYING" /\ generation' = generation + 1 /\ call' = [call EXCEPT ![v] = c]
      BY <1>2
    <2>2. generation' \in 0 .. MaxPlays /\ c \in Calls
      BY <1>0, <2>1, ReplayAssumption DEF ReplayTypeOK, Calls
    <2>3. /\ call' \in [Viewers -> Calls]
          /\ \A w \in Viewers : call'[w].op = "play" => call'[w].arg \in 1 .. generation'
      BY <1>0, <2>1, <2>2 DEF ReplayTypeOK
    <2>4. players' \in SUBSET (1 .. generation')
      BY <1>0, <2>1 DEF ReplayTypeOK
    <2>5. ReplayTypeOK'
      BY <1>0, <2>1, <2>2, <2>3, <2>4 DEF ReplayTypeOK
    <2>6. cursor' < Len(events') /\ call'[v] = [op |-> "play", arg |-> generation']
      BY <1>0, <1>2, <2>1 DEF ReplayTypeOK, End
    <2> QED  BY <1>0, <2>5, <2>6 DEF PlayingIsDriven, SeenToCursor
  <1> QED  BY <1>1, <1>2

LEMMA StartPlayerStep ==
    ASSUME ReplayInv, NEW v \in Viewers, StartPlayer(v)
    PROVE  ReplayInv'
  <1> USE DEF ReplayInv, StartPlayer, engineVars
  <1>1. generation \in Nat /\ Resting \in Calls /\ Resting.op # "play"
    BY ReplayAssumption DEF ReplayTypeOK, Resting, Calls
  <1>2. /\ call' \in [Viewers -> Calls]
        /\ \A w \in Viewers : call'[w].op = "play" => call'[w].arg \in 1 .. generation'
    <2>1. call' = [call EXCEPT ![v] = Resting] /\ generation' \in Nat /\ generation <= generation'
      BY <1>1
    <2>2. ReplayTypeOK
      OBVIOUS
    <2> QED  BY ONLY <1>1, <2>1, <2>2, v \in Viewers, CallTyped
  <1>3. players' = players \cup {call[v].arg} /\ call[v].arg \in 1 .. generation
    BY DEF Spawned, ReplayTypeOK
  <1>4. ReplayTypeOK'
    BY <1>2, <1>3 DEF ReplayTypeOK
  <1>5. ASSUME status' = "PLAYING" PROVE
          \/ generation' \in players'
          \/ \E w \in Viewers : call'[w] = [op |-> "play", arg |-> generation']
    <2>1. CASE generation \in players
      BY <2>1, <1>3
    <2>2. CASE \E w \in Viewers : call[w] = [op |-> "play", arg |-> generation]
      <3> PICK w \in Viewers : call[w] = [op |-> "play", arg |-> generation]
        BY <2>2
      <3>1. CASE w = v
        BY <3>1, <1>3
      <3>2. CASE w # v
        BY <3>2 DEF ReplayTypeOK
      <3> QED  BY <3>1, <3>2
    <2> QED  BY <1>5, <2>1, <2>2 DEF PlayingIsDriven
  <1> QED  BY <1>4, <1>5 DEF PlayingIsDriven, SeenToCursor

LEMMA LeaveStep ==
    ASSUME ReplayInv, NEW g \in 1 .. MaxPlays, Leave(g)
    PROVE  ReplayInv'
  <1> USE DEF ReplayInv, Leave, Stale, engineVars
  <1>1. ReplayTypeOK'
    BY DEF ReplayTypeOK
  <1> QED  BY <1>1 DEF PlayingIsDriven, SeenToCursor

\* A round of the player moves the cursor by one event.
LEMMA RoundMoves ==
    ASSUME ReplayInv, NEW g \in 1 .. MaxPlays, Round(g)
    PROVE  /\ cursor' = cursor + 1 /\ cursor' \in 0 .. Len(events) /\ events' = events
           /\ ingested' = SubSeq(events, 1, cursor') /\ ingested' \in Seq(Nat)
  <1>1. events \in Seq(Nat) /\ cursor \in 0 .. Len(events) /\ Len(events) \in Nat /\ cursor < Len(events)
    BY LenProperties DEF ReplayInv, ReplayTypeOK, Round, End
  <1>2. cursor + 1 \in cursor .. Len(events) /\ cursor + 1 \in 0 .. Len(events)
    BY <1>1
  <1>3. /\ SubSeq(events, 1, cursor) \o SubSeq(events, cursor + 1, cursor + 1) = SubSeq(events, 1, cursor + 1)
        /\ SubSeq(events, 1, cursor + 1) \in Seq(Nat)
    BY <1>1, <1>2, PrefixGrows
  <1>4. ingested' = SubSeq(events, 1, cursor) \o SubSeq(events, cursor + 1, cursor + 1)
    BY DEF Round, Ingest, ReplayInv, SeenToCursor
  <1> QED  BY <1>2, <1>3, <1>4 DEF Round

LEMMA RoundStep ==
    ASSUME ReplayInv, NEW g \in 1 .. MaxPlays, Round(g)
    PROVE  ReplayInv'
  <1> USE DEF ReplayInv, Round, Stale
  <1>0. loaded /\ status = "PLAYING" /\ g \in players /\ g = generation
    BY DEF ReplayTypeOK
  <1>1. status' \in {"PLAYING", "COMPLETE"} /\ players' \subseteq players
    OBVIOUS
  <1>2. ReplayTypeOK'
    BY <1>0, <1>1, RoundMoves DEF ReplayTypeOK
  <1>3. ASSUME status' = "PLAYING" PROVE cursor' < Len(events') /\ generation' \in players'
    <2>1. cursor + 1 < Len(events) /\ players' = players
      BY <1>3, LenProperties DEF ReplayTypeOK, End
    <2> QED  BY <1>0, <2>1, RoundMoves
  <1> QED  BY <1>0, <1>2, <1>3, RoundMoves DEF PlayingIsDriven, SeenToCursor

LEMMA ReplayStep == ReplayInv /\ [ReplayNext]_replayVars => ReplayInv'
  <1> SUFFICES ASSUME ReplayInv, [ReplayNext]_replayVars PROVE ReplayInv'
    OBVIOUS
  <1>1. ASSUME NEW v \in Viewers, Request(v) PROVE ReplayInv'
    <2>1. ASSUME NEW t \in Tapes, Begin(v, [op |-> "load", tape |-> t]) PROVE ReplayInv'
      <3>1. [op |-> "load", tape |-> t] \in Calls
        BY DEF Calls
      <3> QED  BY <2>1, <3>1, BeginStep
    <2>2. ASSUME NEW n \in 1 .. MaxStep, Begin(v, [op |-> "step", arg |-> n]) PROVE ReplayInv'
      <3>1. [op |-> "step", arg |-> n] \in Calls
        BY ReplayAssumption DEF Calls
      <3> QED  BY <2>2, <3>1, BeginStep
    <2>3. ASSUME NEW n \in 0 .. MaxStep, Begin(v, [op |-> "seek", arg |-> n]) PROVE ReplayInv'
      <3>1. [op |-> "seek", arg |-> n] \in Calls
        BY ReplayAssumption DEF Calls
      <3> QED  BY <2>3, <3>1, BeginStep
    <2> QED  BY <1>1, <2>1, <2>2, <2>3, PlayStep, PauseStep DEF Request
  <1>2. ASSUME NEW v \in Viewers, Continue(v) PROVE ReplayInv'
    <2>1. CASE Load(v)
      <3>1. /\ loaded' /\ events' \in Seq(Nat) /\ cursor' \in 0 .. Len(events')
            /\ ingested' = SubSeq(events', 1, cursor') /\ status' \in {"PAUSED", "COMPLETE"}
        <4>1. /\ events' \in Seq(Nat) /\ cursor' = 0 /\ ingested' = <<>> /\ SubSeq(events', 1, 0) = <<>>
              /\ loaded' = TRUE /\ status' \in {"PAUSED", "COMPLETE"}
          BY <2>1, LoadedTape
        <4>2. Len(events') \in Nat
          BY <4>1, LenProperties
        <4>3. 0 \in 0 .. Len(events')
          BY <4>2
        <4> QED  BY <4>1, <4>3
      <3> QED  BY <2>1, <3>1, Moved DEF Load
    <2>2. CASE Step(v)
      <3>1. /\ loaded' /\ events' \in Seq(Nat) /\ cursor' \in 0 .. Len(events')
            /\ ingested' = SubSeq(events', 1, cursor') /\ status' \in {"PAUSED", "COMPLETE"}
        <4>1. events \in Seq(Nat) /\ cursor \in Nat /\ Len(events) \in Nat
          BY LenProperties DEF ReplayInv, ReplayTypeOK
        <4>2. cursor' \in 0 .. Len(events)
          BY <4>1, <2>2, SteppedTo
        <4>3. AtRest(cursor') \in {"PAUSED", "COMPLETE"}
          BY DEF AtRest
        <4> QED  BY <2>2, <4>1, <4>2, <4>3, SteppedTo
      <3> QED  BY <2>2, <3>1, Moved DEF Step, engineVars
    <2>3. CASE Seek(v)
      <3>1. /\ loaded' /\ events' \in Seq(Nat) /\ cursor' \in 0 .. Len(events')
            /\ ingested' = SubSeq(events', 1, cursor') /\ status' \in {"PAUSED", "COMPLETE"}
        BY <2>3, SoughtTo, LenProperties DEF ReplayInv, ReplayTypeOK, AtRest
      <3> QED  BY <2>3, <3>1, Moved DEF Seek
    <2> QED  BY <1>2, <2>1, <2>2, <2>3, RefuseStep, StartPlayerStep DEF Continue
  <1>3. ASSUME NEW g \in 1 .. MaxPlays, Player(g) PROVE ReplayInv'
    BY <1>3, LeaveStep, RoundStep DEF Player
  <1>4. CASE UNCHANGED replayVars
    BY <1>4 DEF ReplayInv, ReplayTypeOK, PlayingIsDriven, SeenToCursor, replayVars
  <1> QED  BY <1>1, <1>2, <1>3, <1>4 DEF ReplayNext

THEOREM ReplayInvariant == ReplaySpec => []ReplayInv
  BY InitReplay, ReplayStep, PTL DEF ReplaySpec

\* The engine's fields keep their types, and an engine that says PLAYING has a player that will move
\* it, however calls and players interleave (play, pause, _play_loop).
THEOREM PlaybackIsDriven == ReplaySpec => []PlaybackDriven
  <1>1. ReplayInv => PlaybackDriven
    BY DEF ReplayInv, PlaybackDriven
  <1> QED  BY <1>1, ReplayInvariant, PTL

-----------------------------------------------------------------------------
(* Refinement.                                                             *)

LEMMA AbstractInit == ReplayInit => Abstract!PlayerInit
  BY DEF ReplayInit, Abstract!PlayerInit

\* Pausing, in pause() itself or first thing in load, step and seek, halts the player.
LEMMA HaltsOrStutters ==
    ASSUME status' = Paused, UNCHANGED <<events, cursor, ingested>>
    PROVE  Abstract!Halt \/ UNCHANGED Abstract!playerVars
  BY DEF Paused, Abstract!Halt, Abstract!playerVars

\* A step or a seek is a jump of the player.
LEMMA JumpsTo ==
    ASSUME ReplayInv, loaded, cursor' \in 0 .. Len(events), events' = events,
           status' = AtRest(cursor'), ingested' = SubSeq(events, 1, cursor')
    PROVE  Abstract!PlayerNext
  <1>1. status # "EMPTY"
    BY DEF ReplayInv, ReplayTypeOK
  <1>2. Abstract!JumpTo(cursor')
    BY <1>1 DEF Abstract!JumpTo, Abstract!Prefix, Abstract!Rest, AtRest, End
  <1> QED  BY <1>2 DEF Abstract!PlayerNext

LEMMA AbstractStep ==
    ASSUME ReplayInv, [ReplayNext]_replayVars
    PROVE  [Abstract!PlayerNext]_(Abstract!playerVars)
  <1>1. ASSUME NEW v \in Viewers, Request(v) PROVE [Abstract!PlayerNext]_(Abstract!playerVars)
    <2>1. CASE Pause(v)
      BY <2>1, HaltsOrStutters DEF Pause, engineVars, Abstract!PlayerNext
    <2>2. CASE \E job : Begin(v, job)
      BY <2>2, HaltsOrStutters DEF Begin, engineVars, Abstract!PlayerNext
    <2>3. CASE Play(v)
      <3>1. status # "EMPTY"
        BY <2>3 DEF Play, ReplayInv, ReplayTypeOK
      <3>2. Abstract!Start
        BY <2>3, <3>1 DEF Play, engineVars, End, Abstract!Start
      <3> QED  BY <3>2 DEF Abstract!PlayerNext
    <2> QED  BY <1>1, <2>1, <2>2, <2>3 DEF Request
  <1>2. ASSUME NEW v \in Viewers, Continue(v) PROVE [Abstract!PlayerNext]_(Abstract!playerVars)
    <2>1. CASE Load(v)
      <3>1. Abstract!Insert(call[v].tape) /\ call[v].tape \in Tapes
        BY <2>1, LoadedTape DEF Abstract!Insert
      <3> QED  BY <3>1 DEF Abstract!PlayerNext
    <2>2. CASE Step(v)
      <3>1. cursor' \in 0 .. Len(events)
        BY <2>2, SteppedTo, LenProperties DEF ReplayInv, ReplayTypeOK
      <3> QED  BY <2>2, <3>1, SteppedTo, JumpsTo
    <2>3. CASE Seek(v)
      BY <2>3, SoughtTo, JumpsTo
    <2>4. CASE Refuse(v) \/ StartPlayer(v)
      BY <2>4 DEF Refuse, StartPlayer, engineVars, Abstract!playerVars
    <2> QED  BY <1>2, <2>1, <2>2, <2>3, <2>4 DEF Continue
  <1>3. ASSUME NEW g \in 1 .. MaxPlays, Player(g) PROVE [Abstract!PlayerNext]_(Abstract!playerVars)
    <2>1. CASE Leave(g)
      BY <2>1 DEF Leave, engineVars, Abstract!playerVars
    <2>2. CASE Round(g)
      <3>1. Abstract!Advance
        BY <2>2, RoundMoves DEF Round, Stale, End, Abstract!Advance, Abstract!Prefix
      <3> QED  BY <3>1 DEF Abstract!PlayerNext
    <2> QED  BY <1>3, <2>1, <2>2 DEF Player
  <1>4. CASE UNCHANGED replayVars
    BY <1>4 DEF replayVars, Abstract!playerVars
  <1> QED  BY <1>1, <1>2, <1>3, <1>4 DEF ReplayNext

\* "Deterministic [...] replay": at every position the analysis is the one of the recording up to it,
\* whichever calls and players led there (ReplayEngine implements Replay).
THEOREM ReplayIsDeterministic == ReplaySpec => Deterministic
  <1>1. ReplayInv /\ [ReplayNext]_replayVars => [Abstract!PlayerNext]_(Abstract!playerVars)
    BY AbstractStep
  <1> QED
    BY <1>1, AbstractInit, ReplayInvariant, PTL DEF ReplaySpec, Deterministic, Abstract!PlayerSpec
=============================================================================
