------------------------- MODULE Authorization_proofs -------------------------
(***************************************************************************)
(* Proofs about the authorization workflow, for any number of API threads. *)
(* What the process remembers of an outage and what its journal says are   *)
(* written by different threads at different moments; OutageInv says how   *)
(* far apart they may be while a thread is between the two.                *)
(***************************************************************************)
EXTENDS Authorization, TLAPS

-----------------------------------------------------------------------------
(* The inductive invariant.                                                *)

Place ==
    [pc : {"home", "callback", "required", "failed", "ensure", "install", "token", "start",
           "poll"}]
    \cup [pc : {"opening"}, active : BOOLEAN,
          next : {"callback", "required", "failed", "start"}]
    \cup [pc : {"closing"}, active : BOOLEAN]
    \cup [pc : {"fetch"}, replaced : BOOLEAN]

AuthPlaces ==
    /\ workflow \in Sticky \cup {"checking", "authorization_required", "authorized"}
    /\ flow \in {"none", "waiting", "verifying"} \cup FlowEnds
    /\ outageOpen \in BOOLEAN /\ activeAtOutage \in BOOLEAN /\ resumeRequired \in BOOLEAN
    /\ recorder \in BOOLEAN /\ shownUp \in BOOLEAN /\ granted \in BOOLEAN
    /\ overtaken \in BOOLEAN
    /\ rows \in Seq(Row)
    /\ stream \in {"none", "dialing", "up", "lost"}
    /\ trouble \in 0 .. MaxTrouble
    /\ at \in [AuthThreads -> Place]

\* A poll asks about a transaction.
PollsAFlow == \A t \in AuthThreads : Pc(t, "poll") => flow # "none"

\* The journal rs has an outage with the recorder as active says.
Recorded(rs, active) ==
    \E i \in 1 .. Len(rs) : rs[i].event = "outage" /\ rs[i].active = active
\* The outage the journal ends with, and not an earlier one.
RecordedLast(rs, active) ==
    \E i \in 1 .. Len(rs) :
        /\ \A j \in i .. Len(rs) : rs[j].event = "outage"
        /\ rs[i].active = active

Closing == \E t \in AuthThreads : Pc(t, "closing")
Opening == \E t \in AuthThreads : Pc(t, "opening")
Agreed == ~overtaken /\ ~Closing

\* Only the stream's thread closes an outage: its row is the last one.
ClosingRecorded ==
    \A t \in AuthThreads : Pc(t, "closing") =>
        /\ t = Streamer /\ outageOpen
        /\ rows # <<>> /\ LastRow.event = "recovered" /\ LastRow.active = at[t].active

\* A thread that opens an outage has written its row.
OpeningRecorded ==
    \A t \in AuthThreads : Pc(t, "opening") =>
        /\ Recorded(rows, at[t].active)
        /\ Agreed => RecordedLast(rows, at[t].active)

MemoryRecorded ==
    /\ activeAtOutage => Recorded(rows, TRUE)
    /\ Agreed /\ outageOpen => RecordedLast(rows, activeAtOutage)
    /\ Agreed /\ ~outageOpen /\ ~Opening => ~OpenOnDisk

\* The session says connected: the stream is up, or being replaced.
ShownIsUp ==
    shownUp => stream = "up" \/ \E t \in AuthThreads : Pc(t, "fetch") /\ at[t].replaced

OutageKnown ==
    /\ ClosingRecorded /\ OpeningRecorded /\ MemoryRecorded
    /\ ResumeJustified /\ ShownIsUp /\ PollsAFlow
OutageInv == AuthPlaces /\ OutageKnown

\* What a resume is offered on, of the journal rs.
Evidence(rs) ==
    \E i \in 1 .. Len(rs) :
        /\ rs[i].event = "outage" /\ rs[i].active
        /\ \E j \in i + 1 .. Len(rs) : rs[j] = [event |-> "recovered", active |-> FALSE]

-----------------------------------------------------------------------------
(* The journal.                                                            *)

\* append() keeps every row where it is and adds one.
LEMMA RowAppended ==
    ASSUME NEW rs \in Seq(Row), NEW r \in Row
    PROVE  /\ Append(rs, r) \in Seq(Row)
           /\ Len(rs) \in Nat /\ Len(Append(rs, r)) = Len(rs) + 1
           /\ Append(rs, r)[Len(rs) + 1] = r
           /\ \A i \in 1 .. Len(rs) : Append(rs, r)[i] = rs[i]
           /\ Append(rs, r) # <<>>
OBVIOUS

\* A recorded outage stays recorded.
LEMMA RecordedStays ==
    ASSUME NEW rs \in Seq(Row), NEW r \in Row, NEW a \in BOOLEAN, Recorded(rs, a)
    PROVE  Recorded(Append(rs, r), a)
BY RowAppended DEF Recorded

\* The evidence for a resume stays, too.
LEMMA EvidenceStays ==
    ASSUME NEW rs \in Seq(Row), NEW r \in Row, Evidence(rs)
    PROVE  Evidence(Append(rs, r))
<1>0. PICK i \in 1 .. Len(rs) :
          /\ rs[i].event = "outage" /\ rs[i].active
          /\ \E j \in i + 1 .. Len(rs) : rs[j] = [event |-> "recovered", active |-> FALSE]
      BY DEF Evidence
<1>1. PICK j \in i + 1 .. Len(rs) : rs[j] = [event |-> "recovered", active |-> FALSE]
      BY <1>0
<1>2. i \in 1 .. Len(Append(rs, r)) /\ j \in i + 1 .. Len(Append(rs, r)) /\ j \in 1 .. Len(rs)
      BY RowAppended
<1>. QED  BY <1>0, <1>1, <1>2, RowAppended DEF Evidence

\* Another row of an outage does not end it.
LEMMA RecordedLastStays ==
    ASSUME NEW rs \in Seq(Row), NEW r \in Row, NEW a \in BOOLEAN,
           r.event = "outage", RecordedLast(rs, a)
    PROVE  RecordedLast(Append(rs, r), a)
<1>1. PICK i \in 1 .. Len(rs) :
          (\A j \in i .. Len(rs) : rs[j].event = "outage") /\ rs[i].active = a
      BY DEF RecordedLast
<1>2. i \in 1 .. Len(Append(rs, r)) /\ Append(rs, r)[i].active = a
      BY <1>1, RowAppended
<1>3. ASSUME NEW j \in i .. Len(Append(rs, r)) PROVE Append(rs, r)[j].event = "outage"
  <2>1. CASE j = Len(rs) + 1  BY <2>1, RowAppended
  <2>2. CASE j # Len(rs) + 1
    <3>1. j \in i .. Len(rs) /\ j \in 1 .. Len(rs)  BY <2>2, RowAppended
    <3>. QED  BY <3>1, <1>1, RowAppended
  <2>. QED  BY <2>1, <2>2
<1>. QED  BY <1>2, <1>3 DEF RecordedLast

\* The row of an outage records it, last.
LEMMA RecordedNow ==
    ASSUME NEW rs \in Seq(Row), NEW a \in BOOLEAN
    PROVE  LET more == Append(rs, [event |-> "outage", active |-> a])
           IN  Recorded(more, a) /\ RecordedLast(more, a)
<1>. DEFINE r == [event |-> "outage", active |-> a]
            n == Len(rs) + 1
<1>1. r \in Row  BY DEF Row
<1>2. /\ n \in 1 .. Len(Append(rs, r)) /\ n .. Len(Append(rs, r)) = {n}
      /\ Append(rs, r)[n].event = "outage" /\ Append(rs, r)[n].active = a
      BY <1>1, RowAppended
<1>. HIDE DEF n
<1>. QED  BY <1>2 DEF Recorded, RecordedLast

\* An outage recorded last is the one a restart finds.
LEMMA LastIsOnDisk ==
    ASSUME rows \in Seq(Row), NEW a \in BOOLEAN, RecordedLast(rows, a)
    PROVE  OpenOnDisk /\ rows # <<>> /\ Recorded(rows, a)
<1>1. PICK i \in 1 .. Len(rows) :
          (\A j \in i .. Len(rows) : rows[j].event = "outage") /\ rows[i].active = a
      BY DEF RecordedLast
<1>2. Len(rows) \in Nat /\ i \in i .. Len(rows) /\ Len(rows) \in i .. Len(rows) /\ rows # <<>>
      BY <1>1
<1>. QED  BY <1>1, <1>2 DEF OpenOnDisk, LastRow, Recorded

-----------------------------------------------------------------------------
(* Types.                                                                  *)

LEMMA PlaceIn ==
    ASSUME AuthPlaces, NEW t \in AuthThreads
    PROVE  /\ at[t] \in Place
           /\ Pc(t, "opening") => /\ at[t].active \in BOOLEAN
                                  /\ at[t].next \in {"callback", "required", "failed", "start"}
           /\ Pc(t, "closing") => at[t].active \in BOOLEAN
           /\ Pc(t, "fetch") => at[t].replaced \in BOOLEAN
BY DEF AuthPlaces, Place, Pc

\* Going from one place to another moves one thread.
LEMMA GoIn ==
    ASSUME AuthPlaces, NEW t \in AuthThreads, NEW where \in Place, Go(t, where)
    PROVE  /\ at' \in [AuthThreads -> Place]
           /\ at'[t] = where
           /\ \A u \in AuthThreads \ {t} : at'[u] = at[u]
BY DEF AuthPlaces, Go

\* Counting one more trouble.
LEMMA TroubleIn ==
    ASSUME AuthAssumption, AuthPlaces, trouble < MaxTrouble, trouble' = trouble + 1
    PROVE  trouble' \in 0 .. MaxTrouble
BY DEF AuthAssumption, AuthPlaces

LEMMA Places ==
    /\ Home \in Place
    /\ \A p \in {"home", "callback", "required", "failed", "ensure", "install", "token",
                 "start", "poll"} : [pc |-> p] \in Place
    /\ \A a \in BOOLEAN : [pc |-> "fetch", replaced |-> a] \in Place
                          /\ [pc |-> "closing", active |-> a] \in Place
    /\ \A a \in BOOLEAN, n \in {"callback", "required", "failed", "start"} :
          [pc |-> "opening", active |-> a, next |-> n] \in Place
BY DEF Place, Home

LEMMA MarkOutageTyped ==
    ASSUME AuthPlaces, NEW t \in AuthThreads,
           NEW next \in {"callback", "required", "failed", "start"}, MarkOutage(t, next)
    PROVE  rows' \in Seq(Row) /\ at' \in [AuthThreads -> Place]
<1>1. [event |-> "outage", active |-> recorder] \in Row  BY DEF AuthPlaces, Row
<1>2. [pc |-> next] \in Place /\ [pc |-> "opening", active |-> recorder, next |-> next] \in Place
      BY Places DEF AuthPlaces
<1>3. rows' \in Seq(Row)  BY <1>1, RowAppended DEF MarkOutage, AuthPlaces
<1>4. at' \in [AuthThreads -> Place]
  <2>1. CASE outageOpen  BY <2>1, <1>2, GoIn DEF MarkOutage
  <2>2. CASE ~outageOpen  BY <2>2, <1>2, GoIn DEF MarkOutage
  <2>. QED  BY <2>1, <2>2
<1>. QED  BY <1>3, <1>4

LEMMA BeginVerifyTyped ==
    ASSUME AuthPlaces, NEW t \in AuthThreads, BeginVerify(t)
    PROVE  /\ workflow' \in Sticky /\ stream' \in {"none", "dialing", "up", "lost"}
           /\ at' \in [AuthThreads -> Place]
<1>1. [pc |-> "fetch", replaced |-> stream # "none"] \in Place  BY Places
<1>. QED  BY <1>1, GoIn DEF BeginVerify, Sticky

LEMMA AuthStepTyped ==
    ASSUME AuthAssumption, AuthPlaces, PollsAFlow, NEW t \in AuthThreads, AuthStep(t)
    PROVE  AuthPlaces'
<1>1. CASE OpenOutage(t)
  <2>1. at[t].active \in BOOLEAN /\ [pc |-> at[t].next] \in Place
        BY <1>1, PlaceIn, Places DEF OpenOutage
  <2>2. at' \in [AuthThreads -> Place]  BY <1>1, <2>1, GoIn DEF OpenOutage
  <2>. QED  BY <1>1, <2>1, <2>2 DEF OpenOutage, AuthPlaces
<1>2. CASE CloseOutage(t)
  <2>1. at[t].active \in BOOLEAN  BY <1>2, PlaceIn DEF CloseOutage
  <2>2. at' \in [AuthThreads -> Place]  BY <1>2, Places, GoIn DEF CloseOutage
  <2>3. Offer(at[t].active) \in BOOLEAN  BY <2>1 DEF Offer, AuthPlaces
  <2>4. (\E u \in AuthThreads : Pc(u, "opening")) \in BOOLEAN  OBVIOUS
  <2>. QED  BY <1>2, <2>2, <2>3, <2>4 DEF CloseOutage, AuthPlaces
<1>3. CASE Settle(t)
  <2>1. at' \in [AuthThreads -> Place]  BY <1>3, Places, GoIn DEF Settle
  <2>. QED  BY <1>3, <2>1 DEF Settle, AuthPlaces, Sticky
<1>4. ASSUME NEW ok \in BOOLEAN, Fetch(t, ok) PROVE AuthPlaces'
  <2>1. at[t].replaced \in BOOLEAN  BY <1>4, PlaceIn DEF Fetch
  <2>2. at' \in [AuthThreads -> Place] /\ rows' \in Seq(Row) /\ trouble' \in 0 .. MaxTrouble
        /\ workflow' \in Sticky \cup {"checking", "authorization_required", "authorized"}
    <3>1. CASE ~granted  BY <1>4, <3>1, MarkOutageTyped DEF Fetch, AuthPlaces
    <3>2. CASE granted /\ ok
          BY <1>4, <3>2, Places, GoIn DEF Fetch, AuthPlaces, Sticky
    <3>3. CASE granted /\ ~ok
          BY <1>4, <3>3, Places, GoIn, TroubleIn DEF Fetch, AuthPlaces
    <3>. QED  BY <3>1, <3>2, <3>3 DEF AuthPlaces
  <2>3. (shownUp /\ ~at[t].replaced) \in BOOLEAN  OBVIOUS
  <2>4. shownUp' \in BOOLEAN  BY <1>4, <2>3 DEF Fetch
  <2>. QED  BY <1>4, <2>2, <2>4 DEF Fetch, AuthPlaces
<1>5. CASE Ensure(t)
  <2>1. at' \in [AuthThreads -> Place]  BY <1>5, Places, GoIn DEF Ensure
  <2>. QED  BY <1>5, <2>1 DEF Ensure, AuthPlaces, authMemory
<1>6. CASE Install(t)
  <2>1. at' \in [AuthThreads -> Place]  BY <1>6, Places, GoIn DEF Install
  <2>. QED  BY <1>6, <2>1 DEF Install, AuthPlaces, authMemory
<1>7. CASE Status(t)
  <2>1. at' \in [AuthThreads -> Place] /\ rows' \in Seq(Row)
        /\ stream' \in {"none", "dialing", "up", "lost"}
        /\ workflow' \in Sticky \cup {"checking", "authorization_required", "authorized"}
    <3>1. CASE ~granted  BY <1>7, <3>1, MarkOutageTyped DEF Status, AuthPlaces
    <3>2. CASE granted /\ outageOpen
          BY <1>7, <3>2, BeginVerifyTyped DEF Status, AuthPlaces
    <3>3. CASE granted /\ ~outageOpen
          BY <1>7, <3>3, Places, GoIn DEF Status, AuthPlaces, Sticky
    <3>. QED  BY <3>1, <3>2, <3>3 DEF AuthPlaces
  <2>. QED  BY <1>7, <2>1 DEF Status, AuthPlaces
<1>8. CASE Started(t)
  <2>1. at' \in [AuthThreads -> Place]  BY <1>8, Places, GoIn DEF Started
  <2>. QED  BY <1>8, <2>1 DEF Started, AuthPlaces, Sticky
<1>9. CASE PollAnswer(t)
  <2>1. at' \in [AuthThreads -> Place]
        /\ stream' \in {"none", "dialing", "up", "lost"}
        /\ workflow' \in Sticky \cup {"checking", "authorization_required", "authorized"}
    <3>1. CASE flow = "authorized" /\ workflow \in Verified
          BY <1>9, <3>1, Places, GoIn DEF PollAnswer, AuthPlaces
    <3>2. CASE flow = "authorized" /\ workflow \notin Verified
          BY <1>9, <3>2, BeginVerifyTyped DEF PollAnswer
    <3>3. CASE flow # "authorized"
      <4>1. flow \in {"waiting", "verifying", "failed", "expired"}
            BY <1>9, <3>3 DEF AuthPlaces, FlowEnds, PollAnswer, PollsAFlow
      <4>. QED  BY <1>9, <3>3, <4>1, Places, GoIn DEF PollAnswer, AuthPlaces, Upstream, Sticky
    <3>. QED  BY <3>1, <3>2, <3>3
  <2>. QED  BY <1>9, <2>1 DEF PollAnswer, AuthPlaces
<1>10. CASE PollFails(t)
  <2>1. at' \in [AuthThreads -> Place]  BY <1>10, Places, GoIn DEF PollFails
  <2>2. trouble' \in 0 .. MaxTrouble  BY <1>10, TroubleIn DEF PollFails
  <2>. QED  BY <1>10, <2>1, <2>2 DEF PollFails, AuthPlaces, Sticky
<1>. QED  BY <1>1, <1>2, <1>3, <1>4, <1>5, <1>6, <1>7, <1>8, <1>9, <1>10 DEF AuthStep

-----------------------------------------------------------------------------
(* Steps that leave the outage alone.                                      *)

\* Nobody starts or ends opening or closing, and the journal and what is
\* remembered of it are as before.
Steady ==
    /\ UNCHANGED <<rows, outageOpen, activeAtOutage, overtaken>>
    /\ \A u \in AuthThreads :
         \/ at'[u] = at[u]
         \/ at[u].pc \notin {"opening", "closing"} /\ at'[u].pc \notin {"opening", "closing"}

LEMMA SteadyKeeps ==
    ASSUME ClosingRecorded, OpeningRecorded, MemoryRecorded, Steady
    PROVE  ClosingRecorded' /\ OpeningRecorded' /\ MemoryRecorded'
<1>1. /\ \A u \in AuthThreads : Pc(u, "opening")' => Pc(u, "opening") /\ at'[u] = at[u]
      /\ \A u \in AuthThreads : Pc(u, "closing")' => Pc(u, "closing") /\ at'[u] = at[u]
      /\ \A u \in AuthThreads : Pc(u, "opening") => Pc(u, "opening")'
      /\ \A u \in AuthThreads : Pc(u, "closing") => Pc(u, "closing")'
      BY DEF Steady, Pc
<1>2. (Closing' <=> Closing) /\ (Opening' <=> Opening)  BY <1>1 DEF Closing, Opening
<1>3. (Agreed' <=> Agreed) /\ LastRow' = LastRow /\ OpenOnDisk' = OpenOnDisk
      BY <1>2 DEF Agreed, Steady, LastRow, OpenOnDisk
<1>4. ClosingRecorded'  BY <1>1, <1>3 DEF ClosingRecorded, Steady
<1>5. OpeningRecorded'
  <2>. SUFFICES ASSUME NEW u \in AuthThreads, Pc(u, "opening")'
                PROVE  /\ Recorded(rows, at[u].active)
                       /\ Agreed => RecordedLast(rows, at[u].active)
       BY <1>1, <1>3 DEF OpeningRecorded, Steady
  <2>. QED  BY <1>1 DEF OpeningRecorded
<1>6. MemoryRecorded'
  <2>. USE DEF MemoryRecorded
  <2>. SUFFICES /\ activeAtOutage => Recorded(rows, TRUE)
                /\ Agreed /\ outageOpen => RecordedLast(rows, activeAtOutage)
                /\ Agreed /\ ~outageOpen /\ ~Opening => ~OpenOnDisk
       BY <1>2, <1>3 DEF Steady
  <2>. QED  OBVIOUS
<1>. QED  BY <1>4, <1>5, <1>6

\* One thread goes on, neither from nor to the writing of a row.
LEMMA PlainMove ==
    ASSUME AuthPlaces, NEW t \in AuthThreads, NEW where \in Place, Go(t, where),
           UNCHANGED <<rows, outageOpen, activeAtOutage, overtaken>>,
           at[t].pc \notin {"opening", "closing"}, where.pc \notin {"opening", "closing"}
    PROVE  Steady
BY GoIn DEF Steady

-----------------------------------------------------------------------------
(* The steps that write the journal or what is remembered of it.           *)

\* The row of an outage, by a thread that found none open.
LEMMA MarkKeeps ==
    ASSUME AuthPlaces, ClosingRecorded, OpeningRecorded, MemoryRecorded,
           NEW t \in AuthThreads, NEW next \in {"callback", "required", "failed", "start"},
           at[t].pc \notin {"opening", "closing"}, MarkOutage(t, next),
           UNCHANGED <<outageOpen, activeAtOutage, overtaken>>
    PROVE  ClosingRecorded' /\ OpeningRecorded' /\ MemoryRecorded'
<1>1. CASE outageOpen
  <2>1. Steady  BY <1>1, PlainMove, Places DEF MarkOutage
  <2>. QED  BY <2>1, SteadyKeeps
<1>2. CASE ~outageOpen
  <2>. DEFINE r == [event |-> "outage", active |-> recorder]
              where == [pc |-> "opening", active |-> recorder, next |-> next]
  <2>1. /\ r \in Row /\ r.event = "outage" /\ recorder \in BOOLEAN /\ where \in Place
        /\ rows \in Seq(Row)
        BY Places DEF AuthPlaces, Row
  <2>2. rows' = Append(rows, r) /\ Go(t, where)  BY <1>2 DEF MarkOutage
  <2>3. /\ \A u \in AuthThreads : u # t => at'[u] = at[u]
        /\ at'[t].pc = "opening" /\ at'[t].active = recorder
        BY <2>1, <2>2, GoIn
  <2>4. ~Closing /\ ~Closing' /\ Opening'
    <3>1. ~Closing  BY <1>2 DEF Closing, ClosingRecorded
    <3>2. ~Closing'  BY <3>1, <2>3 DEF Closing, Pc
    <3>3. Opening'  BY <2>3 DEF Opening, Pc
    <3>. QED  BY <3>1, <3>2, <3>3
  <2>5. Agreed' <=> Agreed  BY <2>4 DEF Agreed
  <2>6. Recorded(rows', recorder) /\ RecordedLast(rows', recorder)
        BY <2>1, <2>2, RecordedNow
  <2>. HIDE DEF r, where
  <2>7. ClosingRecorded'  BY <2>4 DEF Closing, ClosingRecorded
  <2>8. OpeningRecorded'
    <3>. SUFFICES ASSUME NEW u \in AuthThreads, Pc(u, "opening")'
                  PROVE  /\ Recorded(rows', at'[u].active)
                         /\ Agreed => RecordedLast(rows', at'[u].active)
         BY <2>5 DEF OpeningRecorded
    <3>1. CASE u = t  BY <3>1, <2>3, <2>6
    <3>2. CASE u # t
      <4>1. Pc(u, "opening") /\ at'[u] = at[u]  BY <3>2, <2>3 DEF Pc
      <4>2. at[u].active \in BOOLEAN  BY <4>1, PlaceIn
      <4>3. Recorded(rows, at[u].active) /\ (Agreed => RecordedLast(rows, at[u].active))
            BY <4>1 DEF OpeningRecorded
      <4>. QED  BY <4>1, <4>2, <4>3, <2>1, <2>2, RecordedStays, RecordedLastStays
    <3>. QED  BY <3>1, <3>2
  <2>9. MemoryRecorded'
    <3>1. activeAtOutage' => Recorded(rows', TRUE)
          BY <2>1, <2>2, RecordedStays DEF MemoryRecorded
    <3>. QED  BY <1>2, <2>4, <3>1 DEF MemoryRecorded
  <2>. QED  BY <2>7, <2>8, <2>9
<1>. QED  BY <1>1, <1>2

\* The memory follows the row.
LEMMA OpenKeeps ==
    ASSUME AuthPlaces, ClosingRecorded, OpeningRecorded, MemoryRecorded,
           NEW t \in AuthThreads, OpenOutage(t)
    PROVE  ClosingRecorded' /\ OpeningRecorded' /\ MemoryRecorded'
<1>. DEFINE where == [pc |-> at[t].next]
<1>1. /\ where \in Place /\ Go(t, where) /\ Pc(t, "opening")
      /\ where.pc \notin {"opening", "closing"} /\ at[t].active \in BOOLEAN
      /\ UNCHANGED <<rows, overtaken>> /\ outageOpen' = TRUE /\ activeAtOutage' = at[t].active
      BY PlaceIn, Places DEF OpenOutage
<1>2. /\ \A u \in AuthThreads : u # t => at'[u] = at[u]
      /\ at'[t].pc \notin {"opening", "closing"}
      BY <1>1, GoIn
<1>. HIDE DEF where
<1>3. Agreed' <=> Agreed  BY <1>1, <1>2 DEF Agreed, Closing, Pc
<1>4. LastRow' = LastRow  BY <1>1 DEF LastRow
<1>5. ClosingRecorded'
  <2>. SUFFICES ASSUME NEW u \in AuthThreads, Pc(u, "closing")'
                PROVE  /\ u = Streamer
                       /\ rows # <<>> /\ LastRow.event = "recovered" /\ LastRow.active = at[u].active
                       /\ at'[u] = at[u]
       BY <1>1, <1>4 DEF ClosingRecorded
  <2>1. Pc(u, "closing") /\ at'[u] = at[u]  BY <1>2 DEF Pc
  <2>. QED  BY <2>1 DEF ClosingRecorded
<1>6. OpeningRecorded'
  <2>. SUFFICES ASSUME NEW u \in AuthThreads, Pc(u, "opening")'
                PROVE  /\ Recorded(rows, at[u].active)
                       /\ Agreed => RecordedLast(rows, at[u].active)
                       /\ at'[u] = at[u]
       BY <1>1, <1>3 DEF OpeningRecorded
  <2>1. Pc(u, "opening") /\ at'[u] = at[u]  BY <1>2 DEF Pc
  <2>. QED  BY <2>1 DEF OpeningRecorded
<1>7. MemoryRecorded'
  <2>1. Recorded(rows, at[t].active) /\ (Agreed => RecordedLast(rows, at[t].active))
        BY <1>1 DEF OpeningRecorded
  <2>2. activeAtOutage' => Recorded(rows', TRUE)
        BY <1>1, <2>1
  <2>3. Agreed' => RecordedLast(rows', activeAtOutage')  BY <1>1, <1>3, <2>1
  <2>. QED  BY <1>1, <2>2, <2>3 DEF MemoryRecorded
<1>. QED  BY <1>5, <1>6, <1>7

\* The row of a recovery.
LEMMA RecoveryKeeps ==
    ASSUME AuthPlaces, ClosingRecorded, OpeningRecorded, MemoryRecorded,
           Pc(Streamer, "home"), outageOpen,
           rows' = Append(rows, [event |-> "recovered", active |-> recorder]),
           Go(Streamer, [pc |-> "closing", active |-> recorder]),
           UNCHANGED <<outageOpen, activeAtOutage, overtaken>>
    PROVE  ClosingRecorded' /\ OpeningRecorded' /\ MemoryRecorded'
<1>. DEFINE r == [event |-> "recovered", active |-> recorder]
            where == [pc |-> "closing", active |-> recorder]
<1>1. /\ r \in Row /\ where \in Place /\ rows \in Seq(Row)
      /\ r.event = "recovered" /\ r.active = recorder /\ Streamer \in AuthThreads
      BY Places DEF AuthPlaces, Row, AuthThreads
<1>2. /\ \A u \in AuthThreads : u # Streamer => at'[u] = at[u]
      /\ at'[Streamer].pc = "closing" /\ at'[Streamer].active = recorder
      BY <1>1, GoIn
<1>3. /\ rows' # <<>> /\ rows'[Len(rows')] = r
      BY <1>1, RowAppended
<1>4. rows' = Append(rows, r)  OBVIOUS
<1>5. LastRow' = r  BY <1>3 DEF LastRow
<1>. HIDE DEF r, where
<1>6. ~Agreed'  BY <1>1, <1>2 DEF Agreed, Closing, Pc
<1>7. ClosingRecorded'
  <2>. SUFFICES ASSUME NEW u \in AuthThreads, Pc(u, "closing")'
                PROVE  u = Streamer
       BY <1>1, <1>2, <1>3, <1>5 DEF ClosingRecorded
  <2>. QED  BY <1>2 DEF Pc, ClosingRecorded
<1>8. OpeningRecorded'
  <2>. SUFFICES ASSUME NEW u \in AuthThreads, Pc(u, "opening")'
                PROVE  Recorded(rows', at'[u].active)
       BY <1>6 DEF OpeningRecorded
  <2>1. Pc(u, "opening") /\ at'[u] = at[u]  BY <1>2 DEF Pc
  <2>2. Recorded(rows, at[u].active) /\ at[u].active \in BOOLEAN
        BY <2>1, PlaceIn DEF OpeningRecorded
  <2>. QED  BY <2>1, <2>2, <1>1, <1>4, RecordedStays
<1>9. MemoryRecorded'
  <2>1. activeAtOutage' => Recorded(rows', TRUE)
        BY <1>1, <1>4, RecordedStays DEF MemoryRecorded
  <2>. QED  BY <1>6, <2>1 DEF MemoryRecorded
<1>. QED  BY <1>7, <1>8, <1>9

\* The memory follows the recovery's row; a thread that is still opening an
\* outage is overtaken.
LEMMA CloseKeeps ==
    ASSUME AuthPlaces, ClosingRecorded, OpeningRecorded, MemoryRecorded,
           NEW t \in AuthThreads, CloseOutage(t)
    PROVE  ClosingRecorded' /\ OpeningRecorded' /\ MemoryRecorded'
<1>1. /\ Home \in Place /\ Go(t, Home) /\ Pc(t, "closing") /\ Home.pc = "home"
      /\ UNCHANGED <<rows, activeAtOutage>> /\ outageOpen' = FALSE
      /\ overtaken' = Opening
      BY Places DEF CloseOutage, Opening, Home
<1>2. /\ \A u \in AuthThreads : u # t => at'[u] = at[u]
      /\ at'[t].pc = "home"
      BY <1>1, GoIn
<1>3. ~Closing'  BY <1>1, <1>2 DEF Closing, ClosingRecorded, Pc
<1>4. Opening' <=> Opening  BY <1>1, <1>2 DEF Opening, Pc
<1>5. ~OpenOnDisk'  BY <1>1 DEF ClosingRecorded, OpenOnDisk, LastRow
<1>6. Agreed' => ~Opening'  BY <1>1, <1>4 DEF Agreed
<1>7. ClosingRecorded'  BY <1>3 DEF Closing, ClosingRecorded
<1>8. OpeningRecorded'
  <2>. SUFFICES ASSUME NEW u \in AuthThreads, Pc(u, "opening")'
                PROVE  Recorded(rows, at[u].active) /\ at'[u] = at[u]
       BY <1>1, <1>6 DEF OpeningRecorded, Opening
  <2>1. Pc(u, "opening") /\ at'[u] = at[u]  BY <1>2 DEF Pc
  <2>. QED  BY <2>1 DEF OpeningRecorded
<1>9. MemoryRecorded'  BY <1>1, <1>5 DEF MemoryRecorded
<1>. QED  BY <1>7, <1>8, <1>9

\* A starting runtime takes the outage from the journal.
LEMMA RestartKeeps ==
    ASSUME AuthPlaces, Restart
    PROVE  ClosingRecorded' /\ OpeningRecorded' /\ MemoryRecorded'
<1>1. /\ \A u \in AuthThreads : at'[u].pc = "home"
      /\ rows' = rows /\ outageOpen' = OpenOnDisk
      /\ activeAtOutage' = (OpenOnDisk /\ LastRow.active) /\ rows \in Seq(Row)
      BY DEF Restart, Home, AuthPlaces
<1>2. ClosingRecorded' /\ OpeningRecorded'
      BY <1>1 DEF ClosingRecorded, OpeningRecorded, Pc
<1>3. OpenOnDisk => RecordedLast(rows, activeAtOutage') /\ Recorded(rows, activeAtOutage')
  <2>. HAVE OpenOnDisk
  <2>1. rows # <<>> /\ rows[Len(rows)].event = "outage"
        /\ activeAtOutage' = rows[Len(rows)].active
    <3>1. rows # <<>>  BY DEF OpenOnDisk, LastRow
    <3>2. LastRow = rows[Len(rows)]  BY <3>1 DEF LastRow
    <3>3. LastRow \in Row  BY <3>1, <3>2, <1>1
    <3>. QED  BY <3>1, <3>2, <3>3, <1>1 DEF OpenOnDisk, Row
  <2>2. Len(rows) \in 1 .. Len(rows) /\ Len(rows) .. Len(rows) = {Len(rows)}
        BY <1>1, <2>1
  <2>. QED  BY <2>1, <2>2 DEF RecordedLast, Recorded
<1>4. OpenOnDisk' = OpenOnDisk  BY <1>1 DEF OpenOnDisk, LastRow
<1>5. MemoryRecorded'  BY <1>1, <1>3, <1>4 DEF MemoryRecorded
<1>. QED  BY <1>2, <1>5

-----------------------------------------------------------------------------
(* The conjuncts that any step keeps which leaves their state alone.       *)

LEMMA ResumeKeeps ==
    ASSUME AuthPlaces, ResumeJustified, resumeRequired' => resumeRequired,
           rows' = rows \/ \E r \in Row : rows' = Append(rows, r)
    PROVE  ResumeJustified'
<1>1. resumeRequired => Evidence(rows)  BY DEF ResumeJustified, Evidence
<1>2. rows \in Seq(Row)  BY DEF AuthPlaces
<1>3. Evidence(rows) => Evidence(rows')  BY <1>2, EvidenceStays
<1>4. resumeRequired' => Evidence(rows')  BY <1>1, <1>3
<1>. QED  BY <1>4 DEF ResumeJustified, Evidence

LEMMA ShownKeeps ==
    ASSUME ShownIsUp, shownUp' => shownUp, stream = "up" => stream' = "up",
           shownUp' => \A u \in AuthThreads : Pc(u, "fetch") /\ at[u].replaced => at'[u] = at[u]
    PROVE  ShownIsUp'
BY DEF ShownIsUp, Pc

LEMMA PollsKeep ==
    ASSUME PollsAFlow, flow' # "none" \/ flow' = flow,
           \A u \in AuthThreads : Pc(u, "poll")' => Pc(u, "poll") \/ flow # "none"
    PROVE  PollsAFlow'
BY DEF PollsAFlow

\* What a recovery offers is on the journal: the outage's row, then its own.
LEMMA CloseJustified ==
    ASSUME AuthPlaces, ClosingRecorded, MemoryRecorded, NEW t \in AuthThreads, CloseOutage(t)
    PROVE  ResumeJustified'
<1>. SUFFICES ASSUME resumeRequired' PROVE Evidence(rows)
     BY DEF ResumeJustified, Evidence, CloseOutage
<1>1. at[t].active \in BOOLEAN /\ rows \in Seq(Row)
      BY PlaceIn DEF CloseOutage, AuthPlaces
<1>2. activeAtOutage /\ ~at[t].active  BY <1>1 DEF CloseOutage, Offer
<1>3. /\ rows # <<>> /\ rows[Len(rows)].event = "recovered"
      /\ rows[Len(rows)].active = FALSE /\ rows[Len(rows)] \in Row
  <2>1. Pc(t, "closing")  BY DEF CloseOutage
  <2>2. /\ rows # <<>> /\ LastRow.event = "recovered" /\ LastRow.active = at[t].active
        BY <2>1 DEF ClosingRecorded
  <2>3. LastRow = rows[Len(rows)]  BY <2>2 DEF LastRow
  <2>4. rows[Len(rows)] \in Row  BY <1>1, <2>2
  <2>. QED  BY <2>2, <2>3, <2>4, <1>1, <1>2
<1>4. rows[Len(rows)] = [event |-> "recovered", active |-> FALSE]
      BY <1>3 DEF Row
<1>5. PICK i \in 1 .. Len(rows) : rows[i].event = "outage" /\ rows[i].active = TRUE
      BY <1>2 DEF MemoryRecorded, Recorded
<1>6. i # Len(rows) /\ Len(rows) \in Nat  BY <1>3, <1>5, <1>1
<1>7. Len(rows) \in i + 1 .. Len(rows)  BY <1>6
<1>. QED  BY <1>4, <1>5, <1>7 DEF Evidence

-----------------------------------------------------------------------------
(* Groups of steps that keep the invariant.                                *)

\* Nobody goes anywhere and nothing is written.
LEMMA StillKeeps ==
    ASSUME OutageInv, UNCHANGED <<rows, outageOpen, activeAtOutage, overtaken, at>>,
           resumeRequired' => resumeRequired, shownUp' => shownUp,
           shownUp' /\ stream = "up" => stream' = "up", flow' # "none" \/ flow' = flow
    PROVE  OutageKnown'
<1>1. Steady  BY DEF Steady
<1>2. ShownIsUp'  BY DEF OutageInv, OutageKnown, ShownIsUp, Pc
<1>3. PollsAFlow'  BY PollsKeep DEF OutageInv, OutageKnown, Pc
<1>. QED  BY <1>1, <1>2, <1>3, SteadyKeeps, ResumeKeeps DEF OutageInv, OutageKnown

\* A thread goes on and writes nothing.
LEMMA MoveKeeps ==
    ASSUME OutageInv, NEW t \in AuthThreads, NEW where \in Place, Go(t, where),
           UNCHANGED <<rows, outageOpen, activeAtOutage, overtaken>>,
           at[t].pc \notin {"opening", "closing"}, where.pc \notin {"opening", "closing"},
           where.pc = "poll" => flow # "none",
           resumeRequired' => resumeRequired,
           shownUp' => shownUp /\ ~(Pc(t, "fetch") /\ at[t].replaced),
           stream = "up" => stream' = "up", flow' # "none" \/ flow' = flow
    PROVE  OutageKnown'
<1>1. Steady  BY PlainMove DEF OutageInv
<1>2. at'[t] = where /\ \A u \in AuthThreads : u # t => at'[u] = at[u]
      BY GoIn DEF OutageInv
<1>3. ShownIsUp'  BY <1>2, ShownKeeps DEF OutageInv, OutageKnown
<1>4. PollsAFlow'  BY <1>2, PollsKeep DEF OutageInv, OutageKnown, Pc
<1>. QED  BY <1>1, <1>3, <1>4, SteadyKeeps, ResumeKeeps DEF OutageInv, OutageKnown

\* A thread finds the token refused.
LEMMA RefusedKeeps ==
    ASSUME OutageInv, NEW t \in AuthThreads,
           NEW next \in {"callback", "required", "failed", "start"}, MarkOutage(t, next),
           UNCHANGED <<outageOpen, activeAtOutage, overtaken, resumeRequired, flow>>,
           at[t].pc \notin {"opening", "closing"},
           shownUp' => shownUp /\ ~(Pc(t, "fetch") /\ at[t].replaced),
           stream = "up" => stream' = "up"
    PROVE  OutageKnown'
<1>1. ClosingRecorded' /\ OpeningRecorded' /\ MemoryRecorded'
      BY MarkKeeps DEF OutageInv, OutageKnown
<1>2. [event |-> "outage", active |-> recorder] \in Row  BY DEF OutageInv, AuthPlaces, Row
<1>3. ResumeJustified'  BY <1>2, ResumeKeeps DEF OutageInv, OutageKnown, MarkOutage
<1>4. /\ \A u \in AuthThreads : u # t => at'[u] = at[u]
      /\ at'[t].pc # "poll"
  <2>1. [pc |-> next] \in Place /\ [pc |-> "opening", active |-> recorder, next |-> next] \in Place
        BY Places DEF OutageInv, AuthPlaces
  <2>. QED  BY <2>1, GoIn DEF OutageInv, MarkOutage
<1>5. ShownIsUp'  BY <1>4, ShownKeeps DEF OutageInv, OutageKnown
<1>6. PollsAFlow'  BY <1>4, PollsKeep DEF OutageInv, OutageKnown, Pc
<1>. QED  BY <1>1, <1>3, <1>5, <1>6 DEF OutageKnown

\* A thread takes the stream down to replace it.
LEMMA VerifyKeeps ==
    ASSUME OutageInv, NEW t \in AuthThreads, BeginVerify(t), Pc(t, "token") \/ Pc(t, "poll"),
           UNCHANGED <<rows, outageOpen, activeAtOutage, overtaken, resumeRequired, flow, shownUp>>
    PROVE  OutageKnown'
<1>. DEFINE where == [pc |-> "fetch", replaced |-> stream # "none"]
<1>1. where \in Place /\ Go(t, where) /\ where.pc = "fetch" /\ where.replaced = (stream # "none")
      BY Places DEF BeginVerify
<1>. HIDE DEF where
<1>2. Steady  BY <1>1, PlainMove DEF OutageInv, Pc
<1>3. at'[t] = where /\ \A u \in AuthThreads : u # t => at'[u] = at[u]
      BY <1>1, GoIn DEF OutageInv
<1>4. ShownIsUp'
  <2>. SUFFICES ASSUME shownUp PROVE \E u \in AuthThreads : (Pc(u, "fetch") /\ at[u].replaced)'
       BY DEF ShownIsUp
  <2>1. CASE stream = "up"  BY <2>1, <1>1, <1>3 DEF Pc
  <2>2. CASE stream # "up"
    <3>1. PICK u \in AuthThreads : Pc(u, "fetch") /\ at[u].replaced
          BY <2>2 DEF OutageInv, OutageKnown, ShownIsUp
    <3>2. u # t  BY <3>1 DEF Pc
    <3>. QED  BY <3>1, <3>2, <1>3 DEF Pc
  <2>. QED  BY <2>1, <2>2
<1>5. PollsAFlow'  BY <1>1, <1>3, PollsKeep DEF OutageInv, OutageKnown, Pc
<1>. QED  BY <1>2, <1>4, <1>5, SteadyKeeps, ResumeKeeps DEF OutageInv, OutageKnown

-----------------------------------------------------------------------------
(* One step per action.                                                    *)

LEMMA AuthStepKeeps ==
    ASSUME OutageInv, NEW t \in AuthThreads, AuthStep(t)
    PROVE  OutageKnown'
<1>. USE DEF authMemory
<1>1. CASE OpenOutage(t)
  <2>1. ClosingRecorded' /\ OpeningRecorded' /\ MemoryRecorded'
        BY <1>1, OpenKeeps DEF OutageInv, OutageKnown
  <2>2. ResumeJustified'  BY <1>1, ResumeKeeps DEF OutageInv, OutageKnown, OpenOutage
  <2>3. /\ \A u \in AuthThreads : u # t => at'[u] = at[u]
        /\ at'[t].pc # "poll" /\ ~Pc(t, "fetch")
    <3>1. [pc |-> at[t].next] \in Place /\ at[t].next # "poll" /\ Pc(t, "opening")
          BY <1>1, PlaceIn, Places DEF OpenOutage, OutageInv
    <3>. QED  BY <1>1, <3>1, GoIn DEF OpenOutage, OutageInv, Pc
  <2>4. ShownIsUp'  BY <1>1, <2>3, ShownKeeps DEF OutageInv, OutageKnown, OpenOutage
  <2>5. PollsAFlow'  BY <1>1, <2>3, PollsKeep DEF OutageInv, OutageKnown, Pc, OpenOutage
  <2>. QED  BY <2>1, <2>2, <2>4, <2>5 DEF OutageKnown
<1>2. CASE CloseOutage(t)
  <2>1. ClosingRecorded' /\ OpeningRecorded' /\ MemoryRecorded'
        BY <1>2, CloseKeeps DEF OutageInv, OutageKnown
  <2>2. ResumeJustified'  BY <1>2, CloseJustified DEF OutageInv, OutageKnown
  <2>3. ShownIsUp'  BY <1>2 DEF ShownIsUp, CloseOutage
  <2>4. at'[t] = Home /\ \A u \in AuthThreads : u # t => at'[u] = at[u]
        BY <1>2, Places, GoIn DEF OutageInv, CloseOutage
  <2>5. PollsAFlow'
        BY <1>2, <2>4, PollsKeep DEF OutageInv, OutageKnown, Pc, CloseOutage, Home
  <2>. QED  BY <2>1, <2>2, <2>3, <2>5 DEF OutageKnown
<1>3. CASE Settle(t)
      BY <1>3, MoveKeeps, Places DEF Settle, Pc, Home
<1>4. ASSUME NEW ok \in BOOLEAN, Fetch(t, ok) PROVE OutageKnown'
  <2>1. Pc(t, "fetch") /\ at[t].replaced \in BOOLEAN
        BY <1>4, PlaceIn DEF Fetch, OutageInv
  <2>2. shownUp' => shownUp /\ ~(Pc(t, "fetch") /\ at[t].replaced)
        BY <1>4, <2>1 DEF Fetch
  <2>3. CASE ~granted  BY <1>4, <2>1, <2>2, <2>3, RefusedKeeps DEF Fetch, Pc
  <2>4. CASE granted
    <3>1. \E p \in {"ensure", "failed"} : Go(t, [pc |-> p]) /\ UNCHANGED rows
          BY <1>4, <2>4 DEF Fetch
    <3>. QED  BY <1>4, <2>1, <2>2, <3>1, MoveKeeps, Places DEF Fetch, Pc
  <2>. QED  BY <2>3, <2>4
<1>5. CASE Ensure(t)
  <2>1. \E where \in {Home, [pc |-> "install"]} : Go(t, where)  BY <1>5 DEF Ensure
  <2>. QED  BY <1>5, <2>1, MoveKeeps, Places DEF Ensure, Pc, Home
<1>6. CASE Install(t)
      BY <1>6, MoveKeeps, Places DEF Install, Pc, Home
<1>7. CASE Status(t)
  <2>1. CASE ~granted  BY <1>7, <2>1, RefusedKeeps DEF Status, Pc
  <2>2. CASE granted /\ outageOpen  BY <1>7, <2>2, VerifyKeeps DEF Status
  <2>3. CASE granted /\ ~outageOpen
        BY <1>7, <2>3, MoveKeeps, Places DEF Status, Pc, Home
  <2>. QED  BY <2>1, <2>2, <2>3
<1>8. CASE Started(t)
      BY <1>8, MoveKeeps, Places DEF Started, Pc, Home
<1>9. CASE PollAnswer(t)
  <2>1. CASE flow = "authorized" /\ workflow \notin Verified
        BY <1>9, <2>1, VerifyKeeps DEF PollAnswer
  <2>2. CASE ~(flow = "authorized" /\ workflow \notin Verified)
    <3>1. Go(t, Home) /\ UNCHANGED stream  BY <1>9, <2>2 DEF PollAnswer
    <3>. QED  BY <1>9, <3>1, MoveKeeps, Places DEF PollAnswer, Pc, Home
  <2>. QED  BY <2>1, <2>2
<1>10. CASE PollFails(t)
      BY <1>10, MoveKeeps, Places DEF PollFails, Pc, Home
<1>. QED  BY <1>1, <1>2, <1>3, <1>4, <1>5, <1>6, <1>7, <1>8, <1>9, <1>10 DEF AuthStep

LEMMA ApiTyped ==
    ASSUME AuthAssumption, AuthPlaces, NEW t \in Callers, Api(t)
    PROVE  AuthPlaces'
<1>. USE DEF authMemory
<1>0. t \in AuthThreads  BY DEF AuthThreads
<1>1. CASE AskStatus(t)
  <2>1. at' \in [AuthThreads -> Place]  BY <1>0, <1>1, Places, GoIn DEF AskStatus
  <2>. QED  BY <1>1, <2>1 DEF AskStatus, AuthPlaces
<1>2. CASE Begin(t)
  <2>1. at' \in [AuthThreads -> Place] /\ rows' \in Seq(Row)
        BY <1>0, <1>2, MarkOutageTyped DEF Begin
  <2>2. trouble' \in 0 .. MaxTrouble  BY <1>2, TroubleIn DEF Begin
  <2>. QED  BY <1>2, <2>1, <2>2 DEF Begin, AuthPlaces
<1>3. CASE Poll(t)
  <2>1. at' \in [AuthThreads -> Place]  BY <1>0, <1>3, Places, GoIn DEF Poll
  <2>. QED  BY <1>3, <2>1 DEF Poll, AuthPlaces
<1>4. CASE Resume(t)
  <2>1. at' \in [AuthThreads -> Place]  BY <1>0, <1>4, Places, GoIn DEF Resume
  <2>. QED  BY <1>4, <2>1 DEF Resume, AuthPlaces
<1>5. CASE UseStream(t)
  <2>1. at' \in [AuthThreads -> Place]  BY <1>0, <1>5, Places, GoIn DEF UseStream
  <2>. QED  BY <1>5, <2>1 DEF UseStream, AuthPlaces
<1>. QED  BY <1>1, <1>2, <1>3, <1>4, <1>5 DEF Api

LEMMA ApiKeeps ==
    ASSUME OutageInv, NEW t \in Callers, Api(t)
    PROVE  OutageKnown'
<1>. USE DEF authMemory
<1>0. t \in AuthThreads  BY DEF AuthThreads
<1>1. CASE AskStatus(t)
      BY <1>0, <1>1, MoveKeeps, Places DEF AskStatus, Pc
<1>2. CASE Begin(t)
      BY <1>0, <1>2, RefusedKeeps DEF Begin, Pc
<1>3. CASE Poll(t)
      BY <1>0, <1>3, MoveKeeps, Places DEF Poll, Pc
<1>4. CASE Resume(t)
      BY <1>0, <1>4, MoveKeeps, Places DEF Resume, Pc
<1>5. CASE UseStream(t)
      BY <1>0, <1>5, MoveKeeps, Places DEF UseStream, Pc
<1>. QED  BY <1>1, <1>2, <1>3, <1>4, <1>5 DEF Api

LEMMA StreamTyped ==
    ASSUME AuthAssumption, AuthPlaces, LoginOk \/ LoginFails \/ Redial \/ Lose
    PROVE  AuthPlaces'
<1>. USE DEF authMemory
<1>0. Streamer \in AuthThreads  BY DEF AuthThreads
<1>1. CASE LoginOk
  <2>1. [event |-> "recovered", active |-> recorder] \in Row
        /\ [pc |-> "closing", active |-> recorder] \in Place
        BY Places DEF AuthPlaces, Row
  <2>2. at' \in [AuthThreads -> Place] /\ rows' \in Seq(Row) /\ shownUp' \in BOOLEAN
    <3>1. CASE Reconnecting /\ outageOpen
          BY <1>0, <1>1, <2>1, <3>1, GoIn, RowAppended DEF LoginOk, AuthPlaces
    <3>2. CASE ~(Reconnecting /\ outageOpen)
          BY <1>1, <3>2 DEF LoginOk, AuthPlaces
    <3>. QED  BY <3>1, <3>2
  <2>. QED  BY <1>1, <2>2 DEF LoginOk, AuthPlaces, Sticky
<1>2. CASE LoginFails
  <2>1. trouble' \in 0 .. MaxTrouble
    <3>1. CASE granted  BY <1>2, <3>1, TroubleIn DEF LoginFails
    <3>2. CASE ~granted  BY <1>2, <3>2 DEF LoginFails, AuthPlaces
    <3>. QED  BY <3>1, <3>2
  <2>. QED  BY <1>2, <2>1 DEF LoginFails, AuthPlaces, GaveUp, Sticky
<1>3. CASE Redial
  <2>1. at' \in [AuthThreads -> Place] /\ rows' \in Seq(Row)
        /\ stream' \in {"none", "dialing", "up", "lost"}
    <3>1. CASE granted  BY <1>3, <3>1 DEF Redial, AuthPlaces
    <3>2. CASE ~granted  BY <1>0, <1>3, <3>2, MarkOutageTyped DEF Redial, AuthPlaces
    <3>. QED  BY <3>1, <3>2
  <2>. QED  BY <1>3, <2>1 DEF Redial, AuthPlaces
<1>4. CASE Lose
  <2>1. trouble' \in 0 .. MaxTrouble  BY <1>4, TroubleIn DEF Lose
  <2>. QED  BY <1>4, <2>1 DEF Lose, AuthPlaces
<1>. QED  BY <1>1, <1>2, <1>3, <1>4

LEMMA StreamKeeps ==
    ASSUME OutageInv, LoginOk \/ LoginFails \/ Redial \/ Lose
    PROVE  OutageKnown'
<1>. USE DEF authMemory
<1>0. Streamer \in AuthThreads  BY DEF AuthThreads
<1>1. CASE LoginOk
  <2>1. ShownIsUp'  BY <1>1 DEF LoginOk, ShownIsUp
  <2>2. CASE Reconnecting /\ outageOpen
    <3>1. /\ Pc(Streamer, "home")
          /\ rows' = Append(rows, [event |-> "recovered", active |-> recorder])
          /\ Go(Streamer, [pc |-> "closing", active |-> recorder])
          /\ UNCHANGED <<outageOpen, activeAtOutage, overtaken, resumeRequired, flow>>
          BY <1>1, <2>2 DEF LoginOk
    <3>2. ClosingRecorded' /\ OpeningRecorded' /\ MemoryRecorded'
          BY <2>2, <3>1, RecoveryKeeps DEF OutageInv, OutageKnown
    <3>3. [event |-> "recovered", active |-> recorder] \in Row
          /\ [pc |-> "closing", active |-> recorder] \in Place
          BY Places DEF OutageInv, AuthPlaces, Row
    <3>4. ResumeJustified'  BY <3>1, <3>3, ResumeKeeps DEF OutageInv, OutageKnown
    <3>5. \A u \in AuthThreads : Pc(u, "poll")' => Pc(u, "poll")
          BY <1>0, <3>1, <3>3, GoIn DEF OutageInv, Pc
    <3>6. PollsAFlow'  BY <3>1, <3>5, PollsKeep DEF OutageInv, OutageKnown
    <3>. QED  BY <2>1, <3>2, <3>4, <3>6 DEF OutageKnown
  <2>3. CASE ~(Reconnecting /\ outageOpen)
    <3>1. UNCHANGED <<rows, at, outageOpen, activeAtOutage, overtaken, resumeRequired, flow>>
          BY <1>1, <2>3 DEF LoginOk
    <3>2. Steady  BY <3>1 DEF Steady
    <3>3. ClosingRecorded' /\ OpeningRecorded' /\ MemoryRecorded'
          BY <3>2, SteadyKeeps DEF OutageInv, OutageKnown
    <3>4. ResumeJustified'  BY <3>1, ResumeKeeps DEF OutageInv, OutageKnown
    <3>5. PollsAFlow'  BY <3>1, PollsKeep DEF OutageInv, OutageKnown, Pc
    <3>. QED  BY <2>1, <3>3, <3>4, <3>5 DEF OutageKnown
  <2>. QED  BY <2>2, <2>3
<1>2. CASE LoginFails  BY <1>2, StillKeeps DEF LoginFails
<1>3. CASE Redial
  <2>1. CASE granted  BY <1>3, <2>1, StillKeeps DEF Redial
  <2>2. CASE ~granted  BY <1>0, <1>3, <2>2, RefusedKeeps DEF Redial, Pc
  <2>. QED  BY <2>1, <2>2
<1>4. CASE Lose  BY <1>4, StillKeeps DEF Lose
<1>. QED  BY <1>1, <1>2, <1>3, <1>4

LEMMA WorldTyped ==
    ASSUME AuthAssumption, AuthPlaces, FlowStep \/ Revoke \/ Recorder \/ Restart
    PROVE  AuthPlaces'
<1>. USE DEF authMemory
<1>1. CASE FlowStep  BY <1>1 DEF FlowStep, AuthPlaces, FlowEnds
<1>2. CASE Revoke
  <2>1. trouble' \in 0 .. MaxTrouble  BY <1>2, TroubleIn DEF Revoke
  <2>. QED  BY <1>2, <2>1 DEF Revoke, AuthPlaces
<1>3. CASE Recorder
  <2>1. trouble' \in 0 .. MaxTrouble  BY <1>3, TroubleIn DEF Recorder
  <2>2. recorder' \in BOOLEAN  BY <1>3 DEF Recorder
  <2>. QED  BY <1>3, <2>1, <2>2 DEF Recorder, AuthPlaces
<1>4. CASE Restart
  <2>1. at' \in [AuthThreads -> Place]  BY <1>4, Places DEF Restart
  <2>2. OpenOnDisk \in BOOLEAN /\ (OpenOnDisk /\ LastRow.active) \in BOOLEAN
        BY DEF OpenOnDisk
  <2>3. trouble' \in 0 .. MaxTrouble  BY <1>4, TroubleIn DEF Restart
  <2>. QED  BY <1>4, <2>1, <2>2, <2>3 DEF Restart, AuthPlaces
<1>. QED  BY <1>1, <1>2, <1>3, <1>4

LEMMA WorldKeeps ==
    ASSUME OutageInv, FlowStep \/ Revoke \/ Recorder \/ Restart
    PROVE  OutageKnown'
<1>. USE DEF authMemory
<1>1. CASE FlowStep  BY <1>1, StillKeeps DEF FlowStep
<1>2. CASE Revoke  BY <1>2, StillKeeps DEF Revoke
<1>3. CASE Recorder  BY <1>3, StillKeeps DEF Recorder
<1>4. CASE Restart
  <2>1. ClosingRecorded' /\ OpeningRecorded' /\ MemoryRecorded'
        BY <1>4, RestartKeeps DEF OutageInv
  <2>2. ResumeJustified'  BY <1>4 DEF Restart, ResumeJustified
  <2>3. ShownIsUp' /\ PollsAFlow'
        BY <1>4 DEF Restart, ShownIsUp, PollsAFlow, Pc, Home
  <2>. QED  BY <2>1, <2>2, <2>3 DEF OutageKnown
<1>. QED  BY <1>1, <1>2, <1>3, <1>4

-----------------------------------------------------------------------------
(* The theorems.                                                           *)

LEMMA OutageInvInit == AuthAssumption /\ AuthInit => OutageInv
<1>. SUFFICES ASSUME AuthAssumption, AuthInit PROVE OutageInv  OBVIOUS
<1>1. AuthPlaces
  <2>1. at \in [AuthThreads -> Place]  BY Places DEF AuthInit
  <2>2. trouble \in 0 .. MaxTrouble  BY DEF AuthInit, AuthAssumption
  <2>3. rows \in Seq(Row)  BY DEF AuthInit
  <2>4. overtaken \in BOOLEAN /\ workflow \in Sticky \cup {"checking"}  BY DEF AuthInit
  <2>. QED  BY <2>1, <2>2, <2>3, <2>4 DEF AuthInit, AuthPlaces
<1>2. \A t \in AuthThreads : at[t].pc = "home"  BY DEF AuthInit, Home
<1>3. ~OpenOnDisk  BY DEF AuthInit, OpenOnDisk, LastRow
<1>. QED  BY <1>1, <1>2, <1>3
          DEF OutageInv, OutageKnown, ClosingRecorded, OpeningRecorded, MemoryRecorded,
              ResumeJustified, ShownIsUp, PollsAFlow, Pc, AuthInit

LEMMA OutageInvNext == AuthAssumption /\ OutageInv /\ [AuthNext]_authVars => OutageInv'
<1>. SUFFICES ASSUME AuthAssumption, OutageInv, [AuthNext]_authVars PROVE OutageInv'  OBVIOUS
<1>0. AuthPlaces /\ PollsAFlow  BY DEF OutageInv, OutageKnown
<1>1. ASSUME NEW t \in Callers, Api(t) PROVE OutageInv'
      BY <1>0, <1>1, ApiTyped, ApiKeeps DEF OutageInv
<1>2. ASSUME NEW t \in AuthThreads, AuthStep(t) PROVE OutageInv'
      BY <1>0, <1>2, AuthStepTyped, AuthStepKeeps DEF OutageInv
<1>3. CASE LoginOk \/ LoginFails \/ Redial \/ Lose
      BY <1>0, <1>3, StreamTyped, StreamKeeps DEF OutageInv
<1>4. CASE FlowStep \/ Revoke \/ Recorder \/ Restart
      BY <1>0, <1>4, WorldTyped, WorldKeeps DEF OutageInv
<1>5. CASE UNCHANGED authVars
  <2>1. AuthPlaces'  BY <1>0, <1>5 DEF authVars, authMemory, AuthPlaces
  <2>2. OutageKnown'  BY <1>5, StillKeeps DEF authVars, authMemory
  <2>. QED  BY <2>1, <2>2 DEF OutageInv
<1>. QED  BY <1>1, <1>2, <1>3, <1>4, <1>5 DEF AuthNext

LEMMA OutageInvTrue ==
    ASSUME OutageInv PROVE OutageTrue
<1>1. AuthTypeOK
  <2>1. \A t \in AuthThreads :
         at[t].pc \in {"home", "opening", "closing", "callback", "required", "failed", "fetch",
                       "ensure", "install", "token", "start", "poll"}
    <3>. SUFFICES ASSUME NEW t \in AuthThreads
                  PROVE  at[t].pc \in {"home", "opening", "closing", "callback", "required",
                                       "failed", "fetch", "ensure", "install", "token", "start",
                                       "poll"}
         OBVIOUS
    <3>1. at[t] \in Place  BY PlaceIn DEF OutageInv
    <3>. QED  BY <3>1 DEF Place
  <2>. QED  BY <2>1 DEF OutageInv, AuthPlaces, AuthTypeOK
<1>2. OutageRemembered
  <2>. SUFFICES ASSUME ~overtaken, \A t \in AuthThreads : at[t].pc \notin {"opening", "closing"}
                PROVE  /\ outageOpen = OpenOnDisk
                       /\ outageOpen => RecordedLast(rows, activeAtOutage)
       BY DEF OutageRemembered, RecordedLast
  <2>1. Agreed /\ ~Opening  BY DEF Agreed, Opening, Closing, Pc
  <2>2. outageOpen \in BOOLEAN /\ activeAtOutage \in BOOLEAN /\ rows \in Seq(Row)
        BY DEF OutageInv, AuthPlaces
  <2>3. outageOpen => RecordedLast(rows, activeAtOutage)
        BY <2>1 DEF OutageInv, OutageKnown, MemoryRecorded
  <2>4. outageOpen => OpenOnDisk  BY <2>2, <2>3, LastIsOnDisk
  <2>5. ~outageOpen => ~OpenOnDisk
        BY <2>1 DEF OutageInv, OutageKnown, MemoryRecorded
  <2>6. OpenOnDisk \in BOOLEAN  BY DEF OpenOnDisk
  <2>. QED  BY <2>2, <2>3, <2>4, <2>5, <2>6
<1>. QED  BY <1>1, <1>2 DEF OutageTrue, OutageInv, OutageKnown

\* For every number of API threads: memory, journal and rows of an outage
\* agree whenever no thread is between the row and the memory (or was when the
\* recovery closed the outage), and a resume is offered on the evidence of two
\* rows.  (_mark_authorization_outage, _mark_authorization_recovered,
\* recover_open_outage.)
THEOREM OutageHolds == AuthSpec => []OutageTrue
<1>1. AuthInit => OutageInv  BY AuthAssumption, OutageInvInit
<1>2. OutageInv /\ [AuthNext]_authVars => OutageInv'  BY AuthAssumption, OutageInvNext
<1>3. OutageInv => OutageTrue  BY OutageInvTrue
<1>. QED  BY <1>1, <1>2, <1>3, PTL DEF AuthSpec

LEMMA ConnectedStep ==
    ASSUME OutageInv, [AuthNext]_authVars, workflow # "connected", workflow' = "connected"
    PROVE  /\ stream' = "up" \/ \E t \in AuthThreads : Pc(t, "fetch") /\ at[t].replaced
           /\ outageOpen => workflow = "authorized_reconnecting" /\ stream' = "up"
<1>. USE DEF authMemory
<1>1. ASSUME NEW t \in Callers, Api(t) PROVE FALSE
      BY <1>1 DEF Api, AskStatus, Begin, Poll, Resume, UseStream
<1>2. ASSUME NEW t \in AuthThreads, AuthStep(t)
      PROVE  ~outageOpen /\ shownUp /\ stream' = stream
  <2>1. CASE OpenOutage(t)  BY <2>1 DEF OpenOutage
  <2>2. CASE CloseOutage(t)  BY <2>2 DEF CloseOutage
  <2>3. CASE Settle(t)  BY <2>3 DEF Settle
  <2>4. ASSUME NEW ok \in BOOLEAN, Fetch(t, ok) PROVE FALSE
    <3>1. CASE ~granted  BY <2>4, <3>1 DEF Fetch
    <3>2. CASE granted /\ ok  BY <2>4, <3>2 DEF Fetch
    <3>3. CASE granted /\ ~ok  BY <2>4, <3>3 DEF Fetch
    <3>. QED  BY <3>1, <3>2, <3>3
  <2>5. CASE Ensure(t)  BY <2>5 DEF Ensure
  <2>6. CASE Install(t)  BY <2>6 DEF Install
  <2>7. CASE Status(t)
    <3>1. CASE ~granted  BY <2>7, <3>1 DEF Status
    <3>2. CASE granted /\ outageOpen  BY <2>7, <3>2 DEF Status, BeginVerify
    <3>3. CASE granted /\ ~outageOpen  BY <2>7, <3>3 DEF Status
    <3>. QED  BY <3>1, <3>2, <3>3
  <2>8. CASE Started(t)  BY <2>8 DEF Started
  <2>9. CASE PollAnswer(t)
    <3>1. flow # "connected"  BY DEF OutageInv, AuthPlaces, FlowEnds
    <3>. QED  BY <2>9, <3>1 DEF PollAnswer, BeginVerify, Upstream
  <2>10. CASE PollFails(t)  BY <2>10 DEF PollFails
  <2>. QED  BY <1>2, <2>1, <2>2, <2>3, <2>4, <2>5, <2>6, <2>7, <2>8, <2>9, <2>10 DEF AuthStep
<1>3. CASE LoginOk  BY <1>3 DEF LoginOk, Reconnecting
<1>4. CASE LoginFails \/ Redial \/ Lose
      BY <1>4 DEF LoginFails, GaveUp, Redial, Lose
<1>5. CASE FlowStep \/ Revoke \/ Recorder \/ Restart
      BY <1>5 DEF FlowStep, Revoke, Recorder, Restart
<1>6. CASE UNCHANGED authVars  BY <1>6 DEF authVars
<1>7. shownUp => stream = "up" \/ \E t \in AuthThreads : Pc(t, "fetch") /\ at[t].replaced
      BY DEF OutageInv, OutageKnown, ShownIsUp
<1>. QED  BY <1>1, <1>2, <1>3, <1>4, <1>5, <1>6, <1>7 DEF AuthNext

\* For every number of API threads: the workflow turns connected on a LOGIN
\* after the checks, or while no outage is open and the stream is up or being
\* replaced by another thread.
THEOREM ConnectedHolds == AuthSpec => ConnectedIsEarned
<1>1. AuthInit => OutageInv  BY AuthAssumption, OutageInvInit
<1>2. OutageInv /\ [AuthNext]_authVars => OutageInv'  BY AuthAssumption, OutageInvNext
<1>3. OutageInv /\ [AuthNext]_authVars =>
        [workflow # "connected" /\ workflow' = "connected" =>
          /\ stream' = "up" \/ \E t \in AuthThreads : Pc(t, "fetch") /\ at[t].replaced
          /\ outageOpen => workflow = "authorized_reconnecting" /\ stream' = "up"]_authVars
      BY ConnectedStep
<1>. QED  BY <1>1, <1>2, <1>3, PTL DEF AuthSpec, ConnectedIsEarned
=============================================================================
