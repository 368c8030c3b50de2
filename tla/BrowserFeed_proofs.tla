-------------------------- MODULE BrowserFeed_proofs --------------------------
(***************************************************************************)
(* Proofs about BrowserFeed, for any symbols, API threads, connections and *)
(* updates, and any size of the queue and the buffers.                     *)
(*                                                                         *)
(* FeedInv accounts for every value of the session.  A value of the feeder *)
(* is waiting for its number, on its way to a queue, or in the queue       *)
(* (Pending); the queue is in the order of the values (FeedOrder), and     *)
(* what is newer than the page and than what was lost is pending           *)
(* (FeedReaches).  So an event that takes a datum of the page back, which  *)
(* was queued before the snapshot the page shows, is followed by the       *)
(* newest one (FeedFollows); and what the queue loses is either on the     *)
(* page already or counted in lost (FeedPage).                             *)
(***************************************************************************)
EXTENDS BrowserFeed, FiniteSetTheorems, SequenceTheorems, TLAPS

-----------------------------------------------------------------------------
(* What is on its way to the page, and what it makes up for.               *)

Kinds == {"quote", "bar"}
FeedEvent == [kind : Kinds, symbol : Watched, value : Nat]
ActiveEvent == [kind : {"active"}, symbol : Watched]
AnswerEvent == [kind |-> "answer"]
Message == [event : FeedEvent \cup ActiveEvent, seq : Nat, to : Nat]
Shot == [state : Views, seq : Nat]

\* The newest value of a kind there is of a symbol, 0 if there is none.
Last(bars) == IF Len(bars) = 0 THEN 0 ELSE bars[Len(bars)]
Latest(state, k, s) == IF k = "quote" THEN state.quote[s] ELSE Last(state.bars[s])

FeedTyped ==
    /\ session \in Views /\ view \in Views
    /\ sequence \in Nat /\ applied \in 0 .. sequence /\ base \in 0 .. sequence /\ lost \in 0 .. sequence
    /\ socket \in [id : 0 .. MaxSockets, up : {"closed", "subscribed", "open"}]
    /\ subscriber = (IF socket.up = "closed" THEN 0 ELSE socket.id)
    /\ queue \in Seq(Message) /\ Len(queue) <= MaxQueue
    /\ response \subseteq Shot /\ \A r \in response : r.seq <= sequence
FeedWire ==
    /\ wire = <<>> \/ \E w \in Shot : wire = <<w>> /\ w.seq <= sequence
    /\ socket.up = "closed" => queue = <<>>
    /\ wire # <<>> => socket.up = "open"

\* What a thread still has to do.
FeederPlace(b) ==
    \/ b = Quiet
    \/ \E e \in FeedEvent \cup ActiveEvent : b = [todo |-> <<e>>, out |-> <<>>]
    \/ \E m \in Message : b = [todo |-> <<>>, out |-> <<m>>]
SelectorPlace(b) ==
    \/ b = Quiet
    \/ \E e \in ActiveEvent : b = [todo |-> <<e, AnswerEvent>>, out |-> <<>>]
    \/ \E m \in Message : m.event \in ActiveEvent /\ b = [todo |-> <<AnswerEvent>>, out |-> <<m>>]
    \/ b = [todo |-> <<AnswerEvent>>, out |-> <<>>]
FeedPlaces ==
    /\ busy = [t \in FeedThreads |-> busy[t]]
    /\ FeederPlace(busy[Feeder]) /\ \A t \in Selectors : SelectorPlace(busy[t])
    /\ \A t \in FeedThreads : busy[t].out # <<>> => busy[t].out[1].seq <= sequence

\* A value of the feeder is not yet numbered, numbered, or in the queue.
Says(e, k, s, v) == e.kind = k /\ e.symbol = s /\ e.value = v
Waits(k, s, v) == busy[Feeder].todo # <<>> /\ Says(busy[Feeder].todo[1], k, s, v)
Flies(k, s, v) ==
    /\ busy[Feeder].out # <<>> /\ busy[Feeder].out[1].to = socket.id
    /\ Says(busy[Feeder].out[1].event, k, s, v)
Queued(k, s, v) == \E i \in 1 .. Len(queue) : Says(queue[i].event, k, s, v)
Pending(k, s, v) == Waits(k, s, v) \/ Flies(k, s, v) \/ Queued(k, s, v)

\* Values are numbers that no event had when they were given.
Numbered(m) ==
    /\ m.seq <= sequence
    /\ m.event.kind \in Kinds =>
         /\ m.event.value # 0 /\ m.event.value <= m.seq
         /\ LET newest == Latest(session, m.event.kind, m.event.symbol)
            IN newest = m.event.value \/ newest > m.seq
FeedNumbers ==
    /\ \A k \in Kinds, s \in Watched :
         /\ Latest(session, k, s) <= sequence + 1
         /\ Latest(session, k, s) <= sequence \/ Waits(k, s, Latest(session, k, s))
    /\ busy[Feeder].todo # <<>> /\ busy[Feeder].todo[1].kind \in Kinds =>
         LET e == busy[Feeder].todo[1] IN e.value # 0 /\ e.value = Latest(session, e.kind, e.symbol)
    /\ busy[Feeder].out # <<>> /\ busy[Feeder].out[1].event.kind \in Kinds =>
         LET e == busy[Feeder].out[1].event IN e.value = Latest(session, e.kind, e.symbol)
    /\ busy[Feeder].out # <<>> => Numbered(busy[Feeder].out[1])
    /\ \A i \in 1 .. Len(queue) : Numbered(queue[i])
FeedBars ==
    \A s \in Watched :
        /\ Len(session.bars[s]) <= MaxBars
        /\ \A i \in 1 .. Len(session.bars[s]) : session.bars[s][i] # 0
        /\ \A i, j \in 1 .. Len(session.bars[s]) : i < j => session.bars[s][i] < session.bars[s][j]

\* The queue is in the order of the feeder's values, and what is not in it yet is later.
FeedOrder ==
    \A i \in 1 .. Len(queue) : queue[i].event.kind \in Kinds =>
        /\ \A j \in 1 .. Len(queue) :
             i < j /\ queue[j].event.kind \in Kinds => queue[i].event.value < queue[j].event.value
        /\ busy[Feeder].todo # <<>> /\ busy[Feeder].todo[1].kind \in Kinds
             => queue[i].event.value < busy[Feeder].todo[1].value
        /\ busy[Feeder].out # <<>> /\ busy[Feeder].out[1].event.kind \in Kinds
             => queue[i].event.value < busy[Feeder].out[1].event.value

\* If a value is in the queue, the newest one is on its way too.
FeedFollows ==
    \A i \in 1 .. Len(queue) : queue[i].event.kind \in Kinds =>
        Pending(queue[i].event.kind, queue[i].event.symbol,
                Latest(session, queue[i].event.kind, queue[i].event.symbol))

\* What is newer than the page, or than the snapshot on its way to it, is on its way.
Start == IF wire = <<>> THEN applied ELSE wire[1].seq
FeedReaches ==
    socket.up = "open" =>
        /\ \A k \in Kinds, s \in Watched :
             Latest(session, k, s) > lost /\ Latest(session, k, s) > Start
                => Pending(k, s, Latest(session, k, s))
        /\ \A s \in Watched : \A b \in Elements(session.bars[s]) :
             b > lost /\ b > Start => Pending("bar", s, b)

\* A state has what the session has up to a number.
HoldsNewest(state, n) ==
    \A k \in Kinds, s \in Watched :
        Latest(session, k, s) <= n => Latest(state, k, s) = Latest(session, k, s)
HoldsBars(state, n) ==
    \A s \in Watched : Len(state.bars[s]) < MaxBars =>
        \A b \in Elements(session.bars[s]) : b <= n => b \in Elements(state.bars[s])
\* A state has no bar but the session's, as long as the session has all of them.
Within(state) ==
    \A s \in Watched :
        /\ Len(state.bars[s]) <= MaxBars
        /\ Len(session.bars[s]) < MaxBars => Elements(state.bars[s]) \subseteq Elements(session.bars[s])
Faithful(shot) ==
    HoldsNewest(shot.state, shot.seq) /\ HoldsBars(shot.state, shot.seq) /\ Within(shot.state)
FeedShots ==
    /\ wire # <<>> => Faithful(wire[1])
    /\ \A r \in response : Faithful(r)

WithinBars(m) ==
    m.event.kind = "bar" /\ Len(session.bars[m.event.symbol]) < MaxBars
        => m.event.value \in Elements(session.bars[m.event.symbol])
FeedWithin ==
    /\ Within(view)
    /\ busy[Feeder].out # <<>> => WithinBars(busy[Feeder].out[1])
    /\ \A i \in 1 .. Len(queue) : WithinBars(queue[i])

\* A page that lost nothing has what is not on its way.
FeedPage ==
    socket.up = "open" /\ wire = <<>> /\ lost <= base =>
        /\ HoldsNewest(view, base) /\ HoldsBars(view, base)
        /\ \A k \in Kinds, s \in Watched :
             Latest(view, k, s) = Latest(session, k, s) \/ Pending(k, s, Latest(session, k, s))
        /\ \A s \in Watched : Len(view.bars[s]) < MaxBars =>
             \A b \in Elements(session.bars[s]) : b \in Elements(view.bars[s]) \/ Pending("bar", s, b)

FeedInv ==
    /\ FeedTyped /\ FeedWire /\ FeedPlaces /\ FeedNumbers /\ FeedBars /\ FeedOrder /\ FeedFollows
    /\ FeedReaches /\ FeedShots /\ FeedWithin /\ FeedPage

-----------------------------------------------------------------------------
(* Bars.                                                                   *)

LEMMA LatestTyped ==
    ASSUME NEW state \in Views, NEW s \in Watched
    PROVE  /\ state.quote[s] \in Nat /\ state.bars[s] \in Seq(Nat) /\ Len(state.bars[s]) \in Nat
           /\ Last(state.bars[s]) \in Nat /\ Elements(state.bars[s]) \subseteq Nat
           /\ \A k \in Kinds : Latest(state, k, s) \in Nat
           /\ Last(state.bars[s]) # 0 => Last(state.bars[s]) \in Elements(state.bars[s])
           /\ Len(state.bars[s]) # 0 => Last(state.bars[s]) \in Elements(state.bars[s])
  <1>1. state.quote[s] \in Nat /\ state.bars[s] \in Seq(Nat)
    BY DEF Views
  <1>2. Len(state.bars[s]) \in Nat
    BY <1>1, LenProperties
  <1>3. \A i \in 1 .. Len(state.bars[s]) : state.bars[s][i] \in Nat
    BY <1>1, ElementOfSeq
  <1>4. Len(state.bars[s]) # 0 => Len(state.bars[s]) \in 1 .. Len(state.bars[s])
    BY <1>2
  <1> QED  BY <1>1, <1>2, <1>3, <1>4 DEF Last, Latest, Elements

\* The newest bar is the greatest.
LEMMA NewestBar ==
    ASSUME FeedInv, NEW s \in Watched, NEW b \in Elements(session.bars[s])
    PROVE  /\ b \in Nat /\ b # 0 /\ b <= Latest(session, "bar", s) /\ Latest(session, "bar", s) # 0
           /\ Latest(session, "bar", s) \in Elements(session.bars[s])
  <1>1. session \in Views
    BY DEF FeedInv, FeedTyped
  <1>2. /\ Len(session.bars[s]) \in Nat /\ Elements(session.bars[s]) \subseteq Nat
        /\ Latest(session, "bar", s) = Last(session.bars[s])
    BY <1>1, LatestTyped DEF Latest
  <1>3. PICK i \in 1 .. Len(session.bars[s]) : b = session.bars[s][i]
    BY DEF Elements
  <1>4. /\ Len(session.bars[s]) # 0 /\ Len(session.bars[s]) \in 1 .. Len(session.bars[s])
        /\ i = Len(session.bars[s]) \/ i < Len(session.bars[s])
    BY <1>2, <1>3
  <1>5. /\ \A j \in 1 .. Len(session.bars[s]) : session.bars[s][j] # 0
        /\ \A j \in 1 .. Len(session.bars[s]) : i < j => session.bars[s][i] < session.bars[s][j]
    BY DEF FeedInv, FeedBars
  <1>6. Last(session.bars[s]) = session.bars[s][Len(session.bars[s])]
    BY <1>4 DEF Last
  <1>7. Last(session.bars[s]) \in Elements(session.bars[s])
    BY <1>1, <1>4, LatestTyped
  <1>8. b \in Nat /\ Last(session.bars[s]) \in Nat /\ b # 0 /\ Last(session.bars[s]) # 0
    BY <1>2, <1>3, <1>4, <1>5, <1>6, <1>7
  <1>9. b <= Last(session.bars[s])
    BY <1>3, <1>4, <1>5, <1>6, <1>8
  <1> QED  BY <1>2, <1>7, <1>8, <1>9

\* A bar more, and the oldest out when there is no room.
LEMMA BarAdded ==
    ASSUME NEW old \in Seq(Nat), NEW v \in Nat, Len(old) <= MaxBars, FeedAssumption,
           NEW new, new = LastBars(Append(old, v))
    PROVE  /\ new \in Seq(Nat) /\ Len(new) \in Nat /\ Len(new) <= MaxBars /\ Len(new) # 0
           /\ Last(new) = v /\ v \in Elements(new) /\ Elements(new) \subseteq Elements(old) \cup {v}
           /\ Len(new) < MaxBars => Len(old) < MaxBars /\ Elements(new) = Elements(old) \cup {v}
           /\ (\A i \in 1 .. Len(old) : old[i] < v) /\ (\A i, j \in 1 .. Len(old) : i < j => old[i] < old[j])
                => \A i, j \in 1 .. Len(new) : i < j => new[i] < new[j]
  <1> DEFINE n == Len(old)
             more == Append(old, v)
  <1>1. n \in Nat /\ MaxBars \in Nat /\ MaxBars # 0 /\ \A i \in 1 .. n : old[i] \in Nat
    BY LenProperties, ElementOfSeq DEF FeedAssumption
  <1>2. /\ more \in Seq(Nat) /\ Len(more) = n + 1 /\ more[n + 1] = v
        /\ \A i \in 1 .. n : more[i] = old[i]
    BY AppendProperties
  <1> HIDE DEF more
  <1>3. CASE n + 1 <= MaxBars
    <2>1. new = more
      BY <1>1, <1>2, <1>3 DEF LastBars, more
    <2>2. \A i \in 1 .. n + 1 : i = n + 1 \/ i \in 1 .. n
      BY <1>1
    <2>3. Elements(new) = Elements(old) \cup {v}
      <3>1. \A i \in 1 .. n + 1 : more[i] \in Elements(old) \cup {v}
        BY <1>2, <2>2 DEF Elements
      <3>2. \A i \in 1 .. n : i \in 1 .. n + 1
        BY <1>1
      <3>3. n + 1 \in 1 .. n + 1
        BY <1>1
      <3> QED  BY <1>2, <2>1, <3>1, <3>2, <3>3 DEF Elements
    <2>4. Last(new) = v
      BY <1>1, <1>2, <2>1 DEF Last
    <2>5. ASSUME \A i \in 1 .. Len(old) : old[i] < v, \A i, j \in 1 .. Len(old) : i < j => old[i] < old[j]
          PROVE  \A i, j \in 1 .. Len(new) : i < j => new[i] < new[j]
      <3> SUFFICES ASSUME NEW i \in 1 .. n + 1, NEW j \in 1 .. n + 1, i < j PROVE more[i] < more[j]
        BY <1>2, <2>1
      <3>1. i \in 1 .. n /\ (j = n + 1 \/ j \in 1 .. n)
        <4>1. n \in Nat
          BY <1>1
        <4> HIDE DEF n
        <4>2. i # n + 1
          BY <4>1
        <4> QED  BY <4>1, <4>2
      <3> QED  BY <1>2, <2>5, <3>1
    <2>6. new \in Seq(Nat) /\ Len(new) = n + 1 /\ n + 1 # 0
      BY <1>1, <1>2, <2>1
    <2>7. Len(new) < MaxBars => n < MaxBars
      BY <1>1, <2>6
    <2>8. v \in Elements(new) /\ Elements(new) \subseteq Elements(old) \cup {v}
      BY <2>3
    <2>9. Len(new) \in Nat /\ Len(new) <= MaxBars /\ Len(new) # 0
      BY <1>1, <1>3, <2>6
    <2>10. (\A i \in 1 .. Len(old) : old[i] < v) /\ (\A i, j \in 1 .. Len(old) : i < j => old[i] < old[j])
             => \A i, j \in 1 .. Len(new) : i < j => new[i] < new[j]
      BY <2>5
    <2> QED  BY <2>3, <2>4, <2>6, <2>7, <2>8, <2>9, <2>10
  <1>4. CASE n = MaxBars
    <2>1. new = SubSeq(more, 2, n + 1)
      <3>1. Len(more) - MaxBars + 1 = 2 /\ Len(more) > MaxBars
        BY <1>1, <1>2, <1>4
      <3> QED  BY <1>2, <3>1 DEF LastBars, more
    <2>2. /\ new \in Seq(Nat) /\ Len(new) = n
          /\ \A i \in 1 .. n : new[i] = more[i + 1]
      <3>1. n >= 1 /\ n + 1 >= 1
        BY <1>1, <1>4
      <3>2. 2 \in 1 .. Len(more) + 1 /\ n + 1 \in 1 - 1 .. Len(more)
        BY <1>1, <1>2, <3>1
      <3>3. \A i \in 1 .. n : 2 + i - 1 = i + 1
        BY <1>1
      <3>4. (n + 1) - 2 + 1 = n
        BY <1>1
      <3>5. \A i \in 2 .. n + 1 : more[i] \in Nat
        BY <1>1, <1>2, ElementOfSeq
      <3> QED  BY <1>1, <1>2, <2>1, <3>1, <3>2, <3>3, <3>4, <3>5, SubSeqProperties
    <2>3. \A i \in 1 .. n : (i = n /\ new[i] = v) \/ (i + 1 \in 1 .. n /\ new[i] = old[i + 1])
      <3> TAKE i \in 1 .. n
      <3>1. CASE i = n
        BY <1>2, <2>2, <3>1
      <3>2. CASE i # n
        <4>1. i + 1 \in 1 .. n
          BY <1>1, <3>2
        <4> QED  BY <1>2, <2>2, <4>1
      <3> QED  BY <3>1, <3>2
    <2>4. n \in 1 .. n /\ new[n] = v
      <3>1. n \in 1 .. n /\ n + 1 \notin 1 .. n
        BY <1>1, <1>4
      <3> QED  BY <2>3, <3>1
    <2>5. Last(new) = v /\ v \in Elements(new) /\ Elements(new) \subseteq Elements(old) \cup {v}
      BY <1>1, <1>4, <2>2, <2>3, <2>4 DEF Last, Elements
    <2>6. ASSUME \A i \in 1 .. Len(old) : old[i] < v, \A i, j \in 1 .. Len(old) : i < j => old[i] < old[j]
          PROVE  \A i, j \in 1 .. Len(new) : i < j => new[i] < new[j]
      <3> SUFFICES ASSUME NEW i \in 1 .. n, NEW j \in 1 .. n, i < j PROVE new[i] < new[j]
        BY <2>2
      <3>1. i + 1 \in 1 .. n /\ new[i] = old[i + 1]
        BY <1>1, <2>3
      <3>2. CASE j = n
        BY <2>4, <2>6, <3>1, <3>2
      <3>3. CASE j # n
        <4>1. j + 1 \in 1 .. n /\ new[j] = old[j + 1] /\ i + 1 < j + 1
          BY <1>1, <2>3, <3>3
        <4> QED  BY <2>6, <3>1, <4>1
      <3> QED  BY <3>2, <3>3
    <2>7. new \in Seq(Nat) /\ Len(new) \in Nat /\ Len(new) <= MaxBars /\ Len(new) # 0 /\ ~ (Len(new) < MaxBars)
      BY <1>1, <1>4, <2>2
    <2>8. (\A i \in 1 .. Len(old) : old[i] < v) /\ (\A i, j \in 1 .. Len(old) : i < j => old[i] < old[j])
            => \A i, j \in 1 .. Len(new) : i < j => new[i] < new[j]
      BY <2>6
    <2> QED  BY <2>5, <2>7, <2>8
  <1>5. n + 1 <= MaxBars \/ n = MaxBars
    BY <1>1
  <1> QED  BY <1>3, <1>4, <1>5

-----------------------------------------------------------------------------
(* The page.                                                               *)

\* What is known of the values of the session, the page and the numbers.
LEMMA FeedKnown ==
    ASSUME FeedInv, FeedAssumption
    PROVE  /\ session \in Views /\ view \in Views /\ sequence \in Nat
           /\ applied \in Nat /\ base \in Nat /\ lost \in Nat
           /\ applied <= sequence /\ base <= sequence /\ lost <= sequence
           /\ queue \in Seq(Message) /\ Len(queue) \in Nat /\ MaxBars \in Nat \ {0} /\ MaxQueue \in Nat \ {0}
           /\ Feeder \in FeedThreads /\ Selectors \subseteq FeedThreads /\ Feeder \notin Selectors
           /\ socket.id \in Nat /\ subscriber \in Nat
           /\ \A i \in 1 .. Len(queue) : queue[i] \in Message
           /\ \A k \in Kinds, s \in Watched : Latest(session, k, s) \in Nat /\ Latest(view, k, s) \in Nat
  <1>1. /\ session \in Views /\ view \in Views
        /\ sequence \in Nat /\ applied \in 0 .. sequence /\ base \in 0 .. sequence /\ lost \in 0 .. sequence
        /\ queue \in Seq(Message)
    BY DEF FeedInv, FeedTyped
  <1>2. socket.id \in Nat /\ subscriber \in Nat
    BY DEF FeedInv, FeedTyped
  <1>3. \A i \in 1 .. Len(queue) : queue[i] \in Message
    BY <1>1, ElementOfSeq
  <1>4. Len(queue) \in Nat
    BY <1>1, LenProperties
  <1>5. \A k \in Kinds, s \in Watched : Latest(session, k, s) \in Nat /\ Latest(view, k, s) \in Nat
    BY <1>1, LatestTyped
  <1>6. /\ MaxBars \in Nat \ {0} /\ MaxQueue \in Nat \ {0}
        /\ Feeder \in FeedThreads /\ Selectors \subseteq FeedThreads /\ Feeder \notin Selectors
    BY DEF FeedAssumption, FeedThreads
  <1> QED  BY <1>1, <1>2, <1>3, <1>4, <1>5, <1>6

\* The page that lost nothing shows the session once all has arrived.
LEMMA PageFollows ==
    ASSUME FeedInv, FeedAssumption
    PROVE  PageTrue
  <1>1. FeedTypeOK
    <2>1. /\ session \in Views /\ view \in Views /\ sequence \in Nat
          /\ {applied, base} \subseteq 0 .. sequence /\ lost \in 0 .. sequence /\ Len(queue) <= MaxQueue
      BY DEF FeedInv, FeedTyped
    <2>2. subscriber \in {0, socket.id} /\ socket.id \in 0 .. MaxSockets
      BY DEF FeedInv, FeedTyped
    <2>3. Len(wire) <= 1
      <3>1. wire = <<>> \/ \E w \in Shot : wire = <<w>>
        BY DEF FeedInv, FeedWire
      <3>2. CASE wire = <<>>
        BY <3>2
      <3>3. CASE wire # <<>>
        <4>1. PICK w \in Shot : wire = <<w>>
          BY <3>1, <3>3
        <4>2. Len(<<w>>) = 1
          OBVIOUS
        <4> QED  BY <4>1, <4>2
      <3> QED  BY <3>2, <3>3
    <2>4. \A s \in Watched : Len(session.bars[s]) <= MaxBars /\ Len(view.bars[s]) <= MaxBars
      BY DEF FeedInv, FeedBars, FeedWithin, Within
    <2> QED  BY <2>1, <2>2, <2>3, <2>4 DEF FeedTypeOK
  <1>2. ASSUME Settled, lost <= base, NEW s \in Watched
        PROVE  Shows(s)
    <2>1. socket.up = "open" /\ wire = <<>> /\ queue = <<>> /\ busy[Feeder].todo = <<>> /\ busy[Feeder].out = <<>>
      BY <1>2, FeedKnown DEF Settled, Nothing, Idle, Quiet
    <2>2. \A k \in Kinds, v \in Nat : ~ Pending(k, s, v)
      BY <2>1 DEF Pending, Waits, Flies, Queued
    <2>3. /\ \A k \in Kinds : Latest(view, k, s) = Latest(session, k, s) \/ Pending(k, s, Latest(session, k, s))
          /\ Len(view.bars[s]) < MaxBars =>
               \A b \in Elements(session.bars[s]) : b \in Elements(view.bars[s]) \/ Pending("bar", s, b)
      BY <1>2, <2>1 DEF FeedInv, FeedPage
    <2>4. \A k \in Kinds : Latest(view, k, s) = Latest(session, k, s)
      BY <2>2, <2>3, FeedKnown
    <2>5. view.quote[s] = session.quote[s] /\ Last(view.bars[s]) = Last(session.bars[s])
      BY <2>4 DEF Kinds, Latest
    <2>6. /\ session.bars[s] \in Seq(Nat) /\ view.bars[s] \in Seq(Nat)
          /\ Len(session.bars[s]) \in Nat /\ Len(view.bars[s]) \in Nat
          /\ Elements(session.bars[s]) \subseteq Nat /\ Elements(view.bars[s]) \subseteq Nat
      BY FeedKnown, LatestTyped
    <2>7. ASSUME session.bars[s] # <<>>
          PROVE  /\ view.bars[s] # <<>>
                 /\ view.bars[s][Len(view.bars[s])] = session.bars[s][Len(session.bars[s])]
      <3>1. Len(session.bars[s]) # 0
        BY <2>6, <2>7, EmptySeq
      <3>2. Last(session.bars[s]) # 0 /\ Last(session.bars[s]) = session.bars[s][Len(session.bars[s])]
        <4>1. Len(session.bars[s]) \in 1 .. Len(session.bars[s])
          BY <2>6, <3>1
        <4>2. session.bars[s][Len(session.bars[s])] # 0
          BY <4>1 DEF FeedInv, FeedBars
        <4> QED  BY <3>1, <4>2 DEF Last
      <3>3. Len(view.bars[s]) # 0
        BY <2>5, <3>2 DEF Last
      <3>4. Last(view.bars[s]) = view.bars[s][Len(view.bars[s])]
        BY <3>3 DEF Last
      <3> QED  BY <2>5, <3>2, <3>3, <3>4
    <2>8. ASSUME Len(view.bars[s]) < MaxBars
          PROVE  Elements(view.bars[s]) = Elements(session.bars[s])
      <3>1. Elements(session.bars[s]) \subseteq Elements(view.bars[s])
        BY <2>2, <2>3, <2>6, <2>8 DEF Kinds
      <3>2. Len(session.bars[s]) <= Len(view.bars[s])
        <4> DEFINE old == session.bars[s]
                   new == view.bars[s]
        <4>1. /\ \A i \in 1 .. Len(old) : \E j \in 1 .. Len(new) : new[j] = old[i]
              /\ \A i, j \in 1 .. Len(old) : i < j => old[i] < old[j]
          BY <3>1 DEF Elements, FeedInv, FeedBars
        <4> DEFINE at == [i \in 1 .. Len(old) |-> CHOOSE j \in 1 .. Len(new) : new[j] = old[i]]
        <4>2. \A i \in 1 .. Len(old) : at[i] \in 1 .. Len(new) /\ new[at[i]] = old[i]
          BY <4>1
        <4>3. at \in [1 .. Len(old) -> 1 .. Len(new)]
          BY <4>2
        <4> HIDE DEF at
        <4>4. \A i, j \in 1 .. Len(old) : at[i] = at[j] => i = j
          <5> SUFFICES ASSUME NEW i \in 1 .. Len(old), NEW j \in 1 .. Len(old), at[i] = at[j], i # j
                       PROVE FALSE
            OBVIOUS
          <5>1. old[i] = old[j]
            BY <4>2
          <5>2. old[i] \in Nat /\ old[j] \in Nat
            BY <2>6, ElementOfSeq
          <5>3. i < j \/ j < i
            BY <2>6
          <5> QED  BY <4>1, <5>1, <5>2, <5>3
        <4>5. at \in Injection(1 .. Len(old), 1 .. Len(new))
          BY <4>3, <4>4 DEF Injection, IsInjective
        <4>6. /\ IsFiniteSet(1 .. Len(old)) /\ Cardinality(1 .. Len(old)) = Len(old)
              /\ IsFiniteSet(1 .. Len(new)) /\ Cardinality(1 .. Len(new)) = Len(new)
          <5>1. \A n \in Nat : IsFiniteSet(1 .. n) /\ Cardinality(1 .. n) = n
            <6> TAKE n \in Nat
            <6>1. (IF 1 > n THEN 0 ELSE n - 1 + 1) = n
              OBVIOUS
            <6> QED  BY <6>1, FS_Interval
          <5> QED  BY <2>6, <5>1
        <4> QED  BY <2>6, <4>5, <4>6, FS_Injection
      <3>3. Len(session.bars[s]) < MaxBars
        <4>1. MaxBars \in Nat
          BY FeedKnown
        <4> QED  BY <2>6, <2>8, <3>2, <4>1
      <3>4. Elements(view.bars[s]) \subseteq Elements(session.bars[s])
        BY <3>3 DEF FeedInv, FeedWithin, Within
      <3> QED  BY <3>1, <3>4
    <2> QED  BY <2>5, <2>7, <2>8 DEF Shows
  <1> QED  BY <1>1, <1>2 DEF PageTrue, ViewTrue

-----------------------------------------------------------------------------
(* Steps that give no value.                                               *)

FeedRest == FeedNumbers /\ FeedBars /\ FeedOrder /\ FeedFollows /\ FeedReaches /\ FeedShots /\ FeedWithin /\ FeedPage

\* A snapshot of the session holds what the session has.
LEMMA SnapshotFaithful ==
    ASSUME FeedInv, FeedAssumption
    PROVE  Snapshot \in Shot /\ Faithful(Snapshot)
  <1>1. \A s \in Watched : Len(session.bars[s]) <= MaxBars
    BY DEF FeedInv, FeedBars
  <1> QED  BY <1>1, FeedKnown DEF Snapshot, Shot, Faithful, HoldsNewest, HoldsBars, Within

\* The session keeps its values, and the feeder has no new one to send.
LEMMA NothingNew ==
    ASSUME FeedInv, FeedAssumption,
           session'.quote = session.quote, session'.bars = session.bars,
           busy'[Feeder].out = busy[Feeder].out,
           \/ busy'[Feeder].todo = busy[Feeder].todo
           \/ busy[Feeder].todo = <<>> /\ busy'[Feeder].todo[1].kind \notin Kinds,
           \A r \in response' : r \in response \/ r = Snapshot,
           UNCHANGED <<sequence, queue, socket, wire, view, applied, base, lost>>
    PROVE  FeedRest'
  <1>1. \A k, s : Latest(session, k, s)' = Latest(session, k, s)
    BY DEF Latest
  <1>2. /\ \A k \in Kinds : \A s, v : Waits(k, s, v)' <=> Waits(k, s, v)
        /\ busy'[Feeder].todo # <<>> /\ busy'[Feeder].todo[1].kind \in Kinds
             => busy'[Feeder].todo = busy[Feeder].todo
    BY DEF Waits, Says
  <1>3. \A k \in Kinds : \A s, v : Pending(k, s, v)' <=> Pending(k, s, v)
    BY <1>2 DEF Pending, Flies, Queued
  <1>4. \A m : /\ Numbered(m)' <=> Numbered(m)
               /\ WithinBars(m)' <=> WithinBars(m)
    BY <1>1 DEF Numbered, WithinBars
  <1>5. /\ \A state : Within(state)' <=> Within(state)
        /\ \A state, n : HoldsBars(state, n)' <=> HoldsBars(state, n)
    BY DEF Within, HoldsBars
  <1>6. /\ \A state : \A n : HoldsNewest(state, n)' <=> HoldsNewest(state, n)
    BY <1>1 DEF HoldsNewest, Latest
  <1>7. \A r : Faithful(r)' <=> Faithful(r)
    BY <1>5, <1>6 DEF Faithful
  <1>8. FeedNumbers'
    BY <1>1, <1>2, <1>4 DEF FeedInv, FeedNumbers
  <1>9. FeedBars'
    BY DEF FeedInv, FeedBars
  <1>10. FeedOrder'
    BY <1>2 DEF FeedInv, FeedOrder
  <1>11. FeedFollows'
    BY <1>1, <1>3 DEF FeedInv, FeedFollows
  <1>12. FeedReaches'
    BY <1>1, <1>3 DEF FeedInv, FeedReaches, Start, Kinds
  <1>13. FeedShots'
    BY <1>7, SnapshotFaithful DEF FeedInv, FeedShots
  <1>14. FeedWithin'
    BY <1>4, <1>5 DEF FeedInv, FeedWithin
  <1>15. FeedPage'
    <2>1. HoldsNewest(view, base)' <=> HoldsNewest(view, base)
      BY <1>6
    <2>2. HoldsBars(view, base)' <=> HoldsBars(view, base)
      BY <1>5
    <2>3. \A k, s : Latest(view, k, s)' = Latest(view, k, s)
      BY DEF Latest
    <2> QED  BY <1>1, <1>3, <2>1, <2>2, <2>3 DEF FeedInv, FeedPage, Kinds
  <1> QED  BY <1>8, <1>9, <1>10, <1>11, <1>12, <1>13, <1>14, <1>15 DEF FeedRest

LEMMA SelectStep ==
    ASSUME FeedInv, FeedAssumption, NEW t \in Selectors, NEW s \in Watched, SelectSymbol(t, s),
           UNCHANGED <<subscriber, queue, socket, wire, response, view, applied, base, lost>>
    PROVE  FeedInv'
  <1>1. /\ busy[t] = Quiet /\ session' = [session EXCEPT !.active = s]
        /\ busy' = [busy EXCEPT ![t].todo = Activated(s) \o <<[kind |-> "answer"]>>]
        /\ UNCHANGED sequence
    BY DEF SelectSymbol, Say, Idle
  <1>2. session' \in Views /\ session'.quote = session.quote /\ session'.bars = session.bars
    BY <1>1, FeedKnown DEF Views
  <1>3. busy = [u \in FeedThreads |-> busy[u]]
    BY DEF FeedInv, FeedPlaces
  <1>4. /\ busy' = [u \in FeedThreads |-> busy'[u]]
        /\ \A u \in FeedThreads : u # t => busy'[u] = busy[u]
        /\ busy'[t] = [todo |-> Activated(s) \o <<AnswerEvent>>, out |-> <<>>]
        /\ busy'[Feeder] = busy[Feeder]
    <2> DEFINE said == Activated(s) \o <<AnswerEvent>>
    <2>1. busy' = [busy EXCEPT ![t].todo = said]
      BY <1>1 DEF AnswerEvent
    <2> HIDE DEF said
    <2>2. /\ busy' = [u \in FeedThreads |-> busy'[u]]
          /\ \A u \in FeedThreads : u # t => busy'[u] = busy[u]
          /\ busy'[t] = [busy[t] EXCEPT !.todo = said]
      BY <1>3, <2>1, FeedKnown
    <2>3. busy'[t] = [todo |-> said, out |-> <<>>]
      BY <1>1, <2>2 DEF Quiet
    <2> QED  BY <2>2, <2>3, FeedKnown DEF said
  <1>5. SelectorPlace(busy'[t])
    <2>1. CASE session.active = s
      <3>1. Activated(s) \o <<AnswerEvent>> = <<AnswerEvent>>
        BY <2>1 DEF Activated
      <3> QED  BY <1>4, <3>1 DEF SelectorPlace
    <2>2. CASE session.active # s
      <3> DEFINE e == [kind |-> "active", symbol |-> s]
      <3>1. e \in ActiveEvent
        BY DEF ActiveEvent
      <3>2. Activated(s) = <<e>>
        BY <2>2 DEF Activated
      <3> HIDE DEF e
      <3>3. <<e>> \o <<AnswerEvent>> = <<e, AnswerEvent>>
        <4> DEFINE both == {e, AnswerEvent}
                   said == <<e>> \o <<AnswerEvent>>
        <4>1. <<e>> \in Seq(both) /\ <<AnswerEvent>> \in Seq(both) /\ <<e, AnswerEvent>> \in Seq(both)
          OBVIOUS
        <4> HIDE DEF both
        <4>2. /\ said \in Seq(both) /\ Len(said) = 2
              /\ \A i \in 1 .. 2 : said[i] = IF i <= 1 THEN <<e>>[i] ELSE <<AnswerEvent>>[i - 1]
          <5>1. Len(<<e>>) = 1 /\ Len(<<AnswerEvent>>) = 1 /\ 1 + 1 = 2
            OBVIOUS
          <5> QED  BY <4>1, <5>1, ConcatProperties
        <4> HIDE DEF said
        <4>3. said = <<e, AnswerEvent>>
          <5>1. said[1] = e /\ said[2] = AnswerEvent
            BY <4>2
          <5>2. Len(<<e, AnswerEvent>>) = 2 /\ <<e, AnswerEvent>>[1] = e /\ <<e, AnswerEvent>>[2] = AnswerEvent
            OBVIOUS
          <5>3. \A i \in 1 .. Len(said) : i = 1 \/ i = 2
            BY <4>2
          <5>4. \A i \in 1 .. Len(said) : said[i] = <<e, AnswerEvent>>[i]
            BY <5>1, <5>2, <5>3
          <5> QED  BY <4>1, <4>2, <5>2, <5>4, SeqEqual
        <4> QED  BY <4>3 DEF said
      <3> QED  BY <1>4, <3>1, <3>2, <3>3 DEF SelectorPlace
    <2> QED  BY <2>1, <2>2
  <1>6. FeedRest'
    BY <1>1, <1>2, <1>4, NothingNew
  <1>7. FeedPlaces'
    <2>1. \A u \in FeedThreads : busy'[u].out # <<>> => u # t
      BY <1>4
    <2>2. \A u \in Selectors : u \in FeedThreads
      BY FeedKnown
    <2>3. \A u \in Selectors : SelectorPlace(busy'[u])
      BY <1>4, <1>5, <2>2 DEF FeedInv, FeedPlaces
    <2> QED  BY <1>1, <1>4, <2>1, <2>3 DEF FeedInv, FeedPlaces, FeederPlace, SelectorPlace
  <1>8. FeedTyped' /\ FeedWire'
    BY <1>1, <1>2 DEF FeedInv, FeedTyped, FeedWire
  <1> QED  BY <1>6, <1>7, <1>8 DEF FeedInv, FeedRest

\* An update before there is a symbol only activates one.
LEMMA ActivateStep ==
    ASSUME FeedInv, FeedAssumption, NEW s \in Watched, IngestQuote(s), session.active = NoSymbol,
           UNCHANGED <<subscriber, queue, socket, wire, response, view, applied, base, lost>>
    PROVE  FeedInv'
  <1> DEFINE e == [kind |-> "active", symbol |-> s]
  <1>1. /\ busy[Feeder] = Quiet /\ session' = [session EXCEPT !.active = s]
        /\ busy' = [busy EXCEPT ![Feeder].todo = FirstOnly(s)]
        /\ UNCHANGED sequence
    BY DEF IngestQuote, Say, Idle
  <1>2. session' \in Views /\ session'.quote = session.quote /\ session'.bars = session.bars
    BY <1>1, FeedKnown DEF Views
  <1>3. busy = [u \in FeedThreads |-> busy[u]]
    BY DEF FeedInv, FeedPlaces
  <1>4. FirstOnly(s) = <<e>> /\ e \in ActiveEvent
    BY DEF FirstOnly, Activated, ActiveEvent, FeedAssumption
  <1> HIDE DEF e
  <1>5. /\ busy' = [u \in FeedThreads |-> busy'[u]]
        /\ \A u \in FeedThreads : u # Feeder => busy'[u] = busy[u]
        /\ busy'[Feeder] = [todo |-> <<e>>, out |-> <<>>]
        /\ busy[Feeder].todo = <<>> /\ busy[Feeder].out = <<>>
    <2>1. busy' = [busy EXCEPT ![Feeder].todo = <<e>>] /\ Feeder \in FeedThreads
      BY <1>1, <1>4, FeedKnown
    <2>2. /\ busy' = [u \in FeedThreads |-> busy'[u]]
          /\ \A u \in FeedThreads : u # Feeder => busy'[u] = busy[u]
          /\ busy'[Feeder] = [busy[Feeder] EXCEPT !.todo = <<e>>]
      BY <1>3, <2>1
    <2>3. busy'[Feeder] = [todo |-> <<e>>, out |-> <<>>] /\ busy[Feeder].todo = <<>> /\ busy[Feeder].out = <<>>
      BY <1>1, <2>2 DEF Quiet
    <2> QED  BY <2>2, <2>3
  <1>6. busy'[Feeder].out = <<>> /\ busy'[Feeder].todo[1].kind \notin Kinds
    BY <1>4, <1>5 DEF ActiveEvent, Kinds
  <1>7. FeedRest'
    BY <1>1, <1>2, <1>5, <1>6, NothingNew
  <1>8. FeedPlaces'
    <2>1. FeederPlace(busy[Feeder])'
      BY <1>4, <1>5 DEF FeederPlace
    <2>2. \A u \in Selectors : u \in FeedThreads /\ u # Feeder
      BY FeedKnown
    <2>3. \A u \in Selectors : busy'[u] = busy[u] /\ SelectorPlace(busy[u])
      BY <1>5, <2>2 DEF FeedInv, FeedPlaces
    <2>4. (\A u \in Selectors : SelectorPlace(busy[u]))'
      BY <2>3 DEF SelectorPlace
    <2>5. \A u \in FeedThreads : busy'[u].out # <<>> => busy'[u].out[1].seq <= sequence
      BY <1>5, <1>6 DEF FeedInv, FeedPlaces
    <2> QED  BY <1>1, <1>5, <2>1, <2>4, <2>5 DEF FeedPlaces
  <1>9. FeedTyped' /\ FeedWire'
    BY <1>1, <1>2 DEF FeedInv, FeedTyped, FeedWire
  <1> QED  BY <1>7, <1>8, <1>9 DEF FeedInv, FeedRest

LEMMA AnswerStep ==
    ASSUME FeedInv, FeedAssumption, NEW t \in Selectors, Answer(t)
    PROVE  FeedInv'
  <1>1. /\ busy' = [busy EXCEPT ![t] = Quiet] /\ response' = response \cup {Snapshot}
        /\ UNCHANGED <<session, sequence, subscriber, queue, socket, wire, view, applied, base, lost>>
    BY DEF Answer
  <1>2. busy = [u \in FeedThreads |-> busy[u]]
    BY DEF FeedInv, FeedPlaces
  <1>3. /\ busy' = [u \in FeedThreads |-> busy'[u]]
        /\ \A u \in FeedThreads : u # t => busy'[u] = busy[u]
        /\ busy'[t] = Quiet
    BY <1>1, <1>2, FeedKnown
  <1>4. FeedRest'
    <2>1. busy'[Feeder] = busy[Feeder]
      BY <1>3, FeedKnown
    <2> QED  BY <1>1, <2>1, NothingNew
  <1>5. FeedPlaces'
    <2>1. SelectorPlace(busy'[t]) /\ busy'[t].out = <<>>
      BY <1>3 DEF SelectorPlace, Quiet
    <2> QED  BY <1>1, <1>3, <2>1, FeedKnown DEF FeedInv, FeedPlaces, SelectorPlace
  <1>6. FeedTyped' /\ FeedWire'
    <2>1. Snapshot \in Shot /\ Snapshot.seq <= sequence
      BY SnapshotFaithful, FeedKnown DEF Snapshot
    <2> QED  BY <1>1, <2>1 DEF FeedInv, FeedTyped, FeedWire
  <1> QED  BY <1>4, <1>5, <1>6 DEF FeedInv, FeedRest

-----------------------------------------------------------------------------
(* A new value of the session.                                             *)

\* The newest bar of the session is not newer than the numbers given, unless it waits.
LEMMA NothingNewer ==
    ASSUME FeedInv, FeedAssumption, busy[Feeder].todo = <<>>
    PROVE  /\ \A k \in Kinds, s \in Watched : Latest(session, k, s) <= sequence
           /\ \A s \in Watched : \A b \in Elements(session.bars[s]) : b \in Nat /\ b <= sequence
  <1>1. \A k \in Kinds, s \in Watched : Latest(session, k, s) <= sequence
    BY DEF FeedInv, FeedNumbers, Waits
  <1>2. \A s \in Watched : \A b \in Elements(session.bars[s]) : b \in Nat /\ b <= Latest(session, "bar", s)
    BY NewestBar
  <1>3. ASSUME NEW s \in Watched, NEW b \in Elements(session.bars[s])
        PROVE  b \in Nat /\ b <= sequence
    <2>1. b \in Nat /\ b <= Latest(session, "bar", s) /\ Latest(session, "bar", s) <= sequence
      BY <1>1, <1>2 DEF Kinds
    <2> QED  BY <2>1, FeedKnown DEF Kinds
  <1> QED  BY <1>1, <1>3

LEMMA NewValue ==
    ASSUME FeedInv, FeedAssumption, NEW k0 \in Kinds, NEW s0 \in Watched, NEW v0 \in Nat, v0 = sequence + 1,
           session' \in Views,
           busy[Feeder] = Quiet,
           busy' = [busy EXCEPT ![Feeder].todo = <<[kind |-> k0, symbol |-> s0, value |-> v0]>>],
           Latest(session', k0, s0) = v0,
           \A k \in Kinds, s \in Watched : k # k0 \/ s # s0 => Latest(session', k, s) = Latest(session, k, s),
           \A s \in Watched : k0 # "bar" \/ s # s0 => session'.bars[s] = session.bars[s],
           k0 = "bar" => session'.bars[s0] = LastBars(Append(session.bars[s0], v0)),
           UNCHANGED <<sequence, subscriber, queue, socket, wire, response, view, applied, base, lost>>
    PROVE  FeedInv'
  <1> DEFINE e == [kind |-> k0, symbol |-> s0, value |-> v0]
  <1>1. busy = [u \in FeedThreads |-> busy[u]]
    BY DEF FeedInv, FeedPlaces
  <1>2. /\ e \in FeedEvent /\ e.kind = k0 /\ e.symbol = s0 /\ e.value = v0
        /\ v0 \in Nat /\ v0 # 0 /\ v0 = sequence + 1
    BY FeedKnown DEF FeedEvent
  <1>3. busy' = [busy EXCEPT ![Feeder].todo = <<e>>]
    OBVIOUS
  <1> HIDE DEF e
  <1>4. /\ busy' = [u \in FeedThreads |-> busy'[u]]
        /\ \A u \in FeedThreads : u # Feeder => busy'[u] = busy[u]
        /\ busy'[Feeder] = [todo |-> <<e>>, out |-> <<>>]
        /\ busy[Feeder].todo = <<>> /\ busy[Feeder].out = <<>>
    <2>1. /\ busy' = [u \in FeedThreads |-> busy'[u]]
          /\ \A u \in FeedThreads : u # Feeder => busy'[u] = busy[u]
          /\ busy'[Feeder] = [busy[Feeder] EXCEPT !.todo = <<e>>]
      BY <1>1, <1>3, FeedKnown
    <2>2. busy'[Feeder] = [todo |-> <<e>>, out |-> <<>>]
      BY <2>1 DEF Quiet
    <2> QED  BY <2>1, <2>2 DEF Quiet
  <1>5. /\ busy'[Feeder].todo = <<e>> /\ busy'[Feeder].todo # <<>> /\ busy'[Feeder].todo[1] = e
        /\ busy'[Feeder].out = <<>>
    BY <1>4
  <1>6. /\ \A k \in Kinds, s \in Watched : Latest(session, k, s) <= sequence
        /\ \A s \in Watched : \A b \in Elements(session.bars[s]) : b \in Nat /\ b <= sequence
    BY <1>4, NothingNewer
  <1>7. \A k \in Kinds, s \in Watched : \/ (k = k0 /\ s = s0 /\ Latest(session, k, s)' = v0)
                                         \/ Latest(session, k, s)' = Latest(session, k, s)
    BY DEF Latest
  \* What was on its way is; so is the new value.
  <1>8. /\ \A k \in Kinds : \A s, v : Pending(k, s, v) => Pending(k, s, v)'
        /\ Pending(k0, s0, v0)'
    <2>1. \A k \in Kinds : \A s, v : ~ Waits(k, s, v) /\ ~ Flies(k, s, v) /\ (Queued(k, s, v)' <=> Queued(k, s, v))
      BY <1>4 DEF Waits, Flies, Queued
    <2>2. Waits(k0, s0, v0)'
      BY <1>2, <1>5 DEF Waits, Says
    <2> QED  BY <2>1, <2>2 DEF Pending
  \* The bars are those there were and the new one.
  <1>9. \A s \in Watched :
          /\ Len(session'.bars[s]) <= MaxBars
          /\ \A b \in Elements(session'.bars[s]) :
               b \in Elements(session.bars[s]) \/ (b = v0 /\ k0 = "bar" /\ s = s0)
          /\ Len(session'.bars[s]) < MaxBars
               => Len(session.bars[s]) < MaxBars /\ Elements(session.bars[s]) \subseteq Elements(session'.bars[s])
          /\ \A i \in 1 .. Len(session'.bars[s]) : session'.bars[s][i] # 0
          /\ \A i, j \in 1 .. Len(session'.bars[s]) : i < j => session'.bars[s][i] < session'.bars[s][j]
    <2> TAKE s \in Watched
    <2>1. CASE k0 # "bar" \/ s # s0
      <3>1. session'.bars[s] = session.bars[s]
        BY <2>1
      <3> QED  BY <2>1, <3>1 DEF FeedInv, FeedBars
    <2>2. CASE k0 = "bar" /\ s = s0
      <3> DEFINE old == session.bars[s0]
                 new == session'.bars[s0]
      <3>1. /\ old \in Seq(Nat) /\ Len(old) <= MaxBars /\ new = LastBars(Append(old, v0))
            /\ \A i, j \in 1 .. Len(old) : i < j => old[i] < old[j]
        BY <2>2, FeedKnown, LatestTyped DEF FeedInv, FeedBars
      <3>2. \A i \in 1 .. Len(old) : old[i] < v0
        <4>1. \A i \in 1 .. Len(old) : old[i] \in Elements(old)
          BY DEF Elements
        <4>2. \A b \in Elements(old) : b < v0
          <5> TAKE b \in Elements(old)
          <5>1. b \in Nat /\ b <= sequence /\ sequence \in Nat
            BY <1>6, FeedKnown
          <5> QED  BY <1>2, <5>1
        <4> QED  BY <4>1, <4>2
      <3>3. \A b \in Elements(old) : b # 0
        BY DEF Elements, FeedInv, FeedBars
      <3> HIDE DEF old, new
      <3>4. /\ Len(new) <= MaxBars /\ Elements(new) \subseteq Elements(old) \cup {v0}
            /\ Len(new) < MaxBars => Len(old) < MaxBars /\ Elements(new) = Elements(old) \cup {v0}
            /\ \A i, j \in 1 .. Len(new) : i < j => new[i] < new[j]
        <4>1. v0 \in Nat
          BY <1>2
        <4> QED  BY <3>1, <3>2, <4>1, BarAdded
      <3>5. \A i \in 1 .. Len(new) : new[i] # 0
        <4>1. \A b \in Elements(new) : b # 0
          BY <1>2, <3>3, <3>4
        <4> QED  BY <4>1 DEF Elements
      <3> QED  BY <2>2, <3>4, <3>5 DEF old, new
    <2> QED  BY <2>1, <2>2
  \* A state that is old holds what it held.
  <1>10. ASSUME NEW state, NEW n \in Nat, n <= sequence
         PROVE  /\ HoldsNewest(state, n) => HoldsNewest(state, n)'
                /\ HoldsBars(state, n) => HoldsBars(state, n)'
    <2>1. ASSUME HoldsNewest(state, n), NEW k \in Kinds, NEW s \in Watched, Latest(session, k, s)' <= n
          PROVE  Latest(state, k, s)' = Latest(session, k, s)'
      <3>1. ~ (v0 <= n)
        BY <1>2, <1>10, FeedKnown
      <3>2. Latest(session, k, s)' = Latest(session, k, s)
        BY <1>7, <2>1, <3>1
      <3> QED  BY <2>1, <3>2 DEF HoldsNewest
    <2>2. ASSUME HoldsBars(state, n), NEW s \in Watched, Len(state.bars[s]) < MaxBars,
                 NEW b \in Elements(session'.bars[s]), b <= n
          PROVE  b \in Elements(state.bars[s])
      <3>1. ~ (v0 <= n)
        BY <1>2, <1>10, FeedKnown
      <3>2. b \in Elements(session.bars[s])
        BY <1>9, <2>2, <3>1
      <3> QED  BY <2>2, <3>2 DEF HoldsBars
    <2>3. HoldsNewest(state, n) => HoldsNewest(state, n)'
      BY <2>1 DEF HoldsNewest
    <2>4. HoldsBars(state, n) => HoldsBars(state, n)'
      BY <2>2 DEF HoldsBars
    <2> QED  BY <2>3, <2>4
  <1>11. \A state : Within(state) => Within(state)'
    BY <1>9 DEF Within
  <1>12. \A m : m.event.symbol \in Watched /\ WithinBars(m) => WithinBars(m)'
    BY <1>9 DEF WithinBars
  <1>13. \A m : m.seq <= sequence /\ m.seq \in Nat /\ m.event.symbol \in Watched /\ Numbered(m) => Numbered(m)'
    <2> TAKE m
    <2> HAVE m.seq <= sequence /\ m.seq \in Nat /\ m.event.symbol \in Watched /\ Numbered(m)
    <2>1. ASSUME m.event.kind \in Kinds
          PROVE  \/ Latest(session, m.event.kind, m.event.symbol)' = m.event.value
                 \/ Latest(session, m.event.kind, m.event.symbol)' > m.seq
      <3>1. v0 > m.seq
        <4>1. sequence \in Nat
          BY FeedKnown
        <4> QED  BY <1>2, <4>1
      <3>2. \/ Latest(session, m.event.kind, m.event.symbol)' = v0
            \/ Latest(session, m.event.kind, m.event.symbol)' = Latest(session, m.event.kind, m.event.symbol)
        BY <1>7, <2>1
      <3> QED  BY <2>1, <3>1, <3>2 DEF Numbered
    <2> QED  BY <2>1 DEF Numbered
  <1>14. \A i \in 1 .. Len(queue) : queue[i] \in Message /\ queue[i].event.symbol \in Watched /\ queue[i].seq \in Nat
    BY FeedKnown DEF Message, FeedEvent, ActiveEvent
  <1>15. FeedTyped' /\ FeedWire' /\ FeedBars'
    <2>1. FeedBars'
      BY <1>9 DEF FeedBars
    <2> QED  BY <2>1 DEF FeedInv, FeedTyped, FeedWire
  <1>16. FeedPlaces'
    <2>1. FeederPlace(busy[Feeder])'
      BY <1>2, <1>4 DEF FeederPlace
    <2>2. \A u \in Selectors : u \in FeedThreads /\ u # Feeder
      BY FeedKnown
    <2>3. \A u \in Selectors : busy'[u] = busy[u] /\ SelectorPlace(busy[u])
      BY <1>4, <2>2 DEF FeedInv, FeedPlaces
    <2>4. (\A u \in Selectors : SelectorPlace(busy[u]))'
      BY <2>3 DEF SelectorPlace
    <2>5. \A u \in FeedThreads : busy'[u].out # <<>> => busy'[u].out[1].seq <= sequence
      BY <1>4, <1>5 DEF FeedInv, FeedPlaces
    <2> QED  BY <1>4, <2>1, <2>4, <2>5 DEF FeedPlaces
  <1>17. FeedNumbers'
    <2>1. \A k \in Kinds, s \in Watched :
            /\ Latest(session, k, s)' <= sequence + 1
            /\ Latest(session, k, s)' <= sequence \/ (k = k0 /\ s = s0 /\ Latest(session, k, s)' = v0)
      <3> TAKE k \in Kinds, s \in Watched
      <3>1. CASE k = k0 /\ s = s0 /\ Latest(session, k, s)' = v0
        BY <1>2, <3>1, FeedKnown
      <3>2. CASE Latest(session, k, s)' = Latest(session, k, s)
        <4>1. Latest(session, k, s) <= sequence /\ Latest(session, k, s) \in Nat
          BY <1>6, FeedKnown
        <4> QED  BY <3>2, <4>1, FeedKnown
      <3> QED  BY <1>7, <3>1, <3>2
    <2>2. \A k \in Kinds, s \in Watched : Latest(session, k, s)' <= sequence \/ Waits(k, s, Latest(session, k, s))'
      BY <1>2, <1>5, <2>1 DEF Waits, Says
    <2>3. Latest(session, k0, s0)' = v0
      BY DEF Latest
    <2>4. \A i \in 1 .. Len(queue) : Numbered(queue[i])'
      <3> TAKE i \in 1 .. Len(queue)
      <3>1. Numbered(queue[i]) /\ queue[i].seq <= sequence
        BY DEF FeedInv, FeedNumbers, Numbered
      <3> QED  BY <1>13, <1>14, <3>1
    <2>5. (busy[Feeder].todo # <<>> /\ busy[Feeder].todo[1].kind \in Kinds =>
             /\ busy[Feeder].todo[1].value # 0
             /\ busy[Feeder].todo[1].value
                  = Latest(session, busy[Feeder].todo[1].kind, busy[Feeder].todo[1].symbol))'
      <3>1. busy'[Feeder].todo[1].value = v0 /\ busy'[Feeder].todo[1].kind = k0 /\ busy'[Feeder].todo[1].symbol = s0
        BY <1>2, <1>5
      <3> QED  BY <1>2, <2>3, <3>1
    <2> QED  BY <1>5, <2>1, <2>2, <2>4, <2>5 DEF FeedNumbers
  <1>18. FeedOrder'
    <2>1. \A i \in 1 .. Len(queue) : queue[i].event.kind \in Kinds => queue[i].event.value < v0
      <3> TAKE i \in 1 .. Len(queue)
      <3> HAVE queue[i].event.kind \in Kinds
      <3>1. queue[i].event.value <= queue[i].seq /\ queue[i].seq <= sequence
        BY DEF FeedInv, FeedNumbers, Numbered
      <3>2. queue[i].event.value \in Nat
        <4>1. queue[i].event \in FeedEvent \/ queue[i].event.kind = "active"
          BY FeedKnown DEF Message, ActiveEvent
        <4> QED  BY <4>1 DEF FeedEvent, Kinds
      <3>3. sequence \in Nat /\ queue[i].seq \in Nat
        BY <1>14, FeedKnown
      <3> QED  BY <1>2, <3>1, <3>2, <3>3
    <2> QED  BY <1>2, <1>5, <2>1 DEF FeedInv, FeedOrder
  <1>19. FeedFollows'
    <2> SUFFICES ASSUME NEW i \in 1 .. Len(queue), queue[i].event.kind \in Kinds
                 PROVE  Pending(queue[i].event.kind, queue[i].event.symbol,
                                Latest(session, queue[i].event.kind, queue[i].event.symbol))'
      BY DEF FeedFollows
    <2>1. Pending(queue[i].event.kind, queue[i].event.symbol,
                  Latest(session, queue[i].event.kind, queue[i].event.symbol))
      BY DEF FeedInv, FeedFollows
    <2>2. \A k \in Kinds, s \in Watched :
             Pending(k, s, Latest(session, k, s)) => Pending(k, s, Latest(session, k, s))'
      BY <1>7, <1>8
    <2>3. queue[i].event.symbol \in Watched /\ queue' = queue
      BY <1>14
    <2> QED  BY <2>1, <2>2, <2>3
  <1>20. FeedReaches'
    <2> SUFFICES ASSUME socket.up = "open"
                 PROVE  /\ \A k \in Kinds, s \in Watched :
                             Latest(session, k, s)' > lost /\ Latest(session, k, s)' > Start
                                => Pending(k, s, Latest(session, k, s))'
                        /\ \A s \in Watched : \A b \in Elements(session'.bars[s]) :
                             b > lost /\ b > Start => Pending("bar", s, b)'
      BY DEF FeedReaches, Start
    <2>1. /\ \A k \in Kinds, s \in Watched :
               Latest(session, k, s) > lost /\ Latest(session, k, s) > Start
                  => Pending(k, s, Latest(session, k, s))
          /\ \A s \in Watched : \A b \in Elements(session.bars[s]) :
               b > lost /\ b > Start => Pending("bar", s, b)
      BY DEF FeedInv, FeedReaches
    <2>2. \A k \in Kinds, s \in Watched :
             Latest(session, k, s)' > lost /\ Latest(session, k, s)' > Start
                => Pending(k, s, Latest(session, k, s))'
      BY <1>7, <1>8, <2>1
    <2>3. \A s \in Watched : \A b \in Elements(session'.bars[s]) : b > lost /\ b > Start => Pending("bar", s, b)'
      BY <1>8, <1>9, <2>1 DEF Kinds
    <2> QED  BY <2>2, <2>3
  <1>21. FeedShots'
    <2>1. \A w \in Shot : w.seq <= sequence /\ Faithful(w) => Faithful(w)'
      BY <1>10, <1>11 DEF Faithful, Shot
    <2>2. wire # <<>> => wire[1] \in Shot /\ wire[1].seq <= sequence
      BY DEF FeedInv, FeedWire
    <2>3. \A r \in response : r \in Shot /\ r.seq <= sequence
      BY DEF FeedInv, FeedTyped
    <2> QED  BY <2>1, <2>2, <2>3 DEF FeedInv, FeedShots
  <1>22. FeedWithin'
    BY <1>5, <1>11, <1>12, <1>14 DEF FeedInv, FeedWithin
  <1>23. FeedPage'
    <2> SUFFICES ASSUME socket.up = "open", wire = <<>>, lost <= base
                 PROVE  /\ HoldsNewest(view, base)' /\ HoldsBars(view, base)'
                        /\ \A k \in Kinds, s \in Watched :
                             Latest(view, k, s)' = Latest(session, k, s)' \/ Pending(k, s, Latest(session, k, s))'
                        /\ \A s \in Watched : Len(view.bars[s]) < MaxBars =>
                             \A b \in Elements(session'.bars[s]) : b \in Elements(view.bars[s]) \/ Pending("bar", s, b)'
      BY DEF FeedPage
    <2>1. /\ HoldsNewest(view, base) /\ HoldsBars(view, base)
          /\ \A k \in Kinds, s \in Watched :
               Latest(view, k, s) = Latest(session, k, s) \/ Pending(k, s, Latest(session, k, s))
          /\ \A s \in Watched : Len(view.bars[s]) < MaxBars =>
               \A b \in Elements(session.bars[s]) : b \in Elements(view.bars[s]) \/ Pending("bar", s, b)
      BY DEF FeedInv, FeedPage
    <2>2. HoldsNewest(view, base)' /\ HoldsBars(view, base)'
      <3>1. base \in Nat /\ base <= sequence
        BY FeedKnown
      <3> QED  BY <1>10, <2>1, <3>1
    <2>3. \A k \in Kinds, s \in Watched :
             Latest(view, k, s)' = Latest(session, k, s)' \/ Pending(k, s, Latest(session, k, s))'
      BY <1>7, <1>8, <2>1
    <2>4. \A s \in Watched : Len(view.bars[s]) < MaxBars =>
             \A b \in Elements(session'.bars[s]) : b \in Elements(view.bars[s]) \/ Pending("bar", s, b)'
      BY <1>8, <1>9, <2>1 DEF Kinds
    <2> QED  BY <2>2, <2>3, <2>4
  <1> QED  BY <1>15, <1>16, <1>17, <1>18, <1>19, <1>20, <1>21, <1>22, <1>23 DEF FeedInv

LEMMA QuoteStep ==
    ASSUME FeedInv, FeedAssumption, NEW s \in Watched, IngestQuote(s), session.active # NoSymbol,
           UNCHANGED <<subscriber, queue, socket, wire, response, view, applied, base, lost>>
    PROVE  FeedInv'
  <1>0. PICK v : v = sequence + 1
    OBVIOUS
  <1>1. /\ busy[Feeder] = Quiet /\ UNCHANGED sequence
        /\ session' = [session EXCEPT !.quote[s] = v]
        /\ busy' = [busy EXCEPT ![Feeder].todo = <<[kind |-> "quote", symbol |-> s, value |-> v]>>]
    BY <1>0 DEF IngestQuote, Say, Idle, Version
  <1>2. v \in Nat
    BY <1>0, FeedKnown
  <1>3. /\ session' \in Views /\ session'.bars = session.bars /\ session'.quote[s] = v
        /\ \A u \in Watched : u # s => session'.quote[u] = session.quote[u]
    BY <1>1, <1>2, FeedKnown DEF Views
  <1>4. Latest(session', "quote", s) = v
    BY <1>3 DEF Latest
  <1>5. \A k \in Kinds, u \in Watched :
           k # "quote" \/ u # s => Latest(session', k, u) = Latest(session, k, u)
    BY <1>3 DEF Latest
  <1>6. ASSUME NEW k0, k0 = "quote"
        PROVE  FeedInv'
    <2>1. k0 \in Kinds /\ k0 # "bar"
      BY <1>6 DEF Kinds
    <2>2. /\ busy' = [busy EXCEPT ![Feeder].todo = <<[kind |-> k0, symbol |-> s, value |-> v]>>]
          /\ Latest(session', k0, s) = v
          /\ \A k \in Kinds, u \in Watched : k # k0 \/ u # s => Latest(session', k, u) = Latest(session, k, u)
      BY <1>1, <1>4, <1>5, <1>6
    <2>3. /\ \A u \in Watched : k0 # "bar" \/ u # s => session'.bars[u] = session.bars[u]
          /\ k0 = "bar" => session'.bars[s] = LastBars(Append(session.bars[s], v))
      BY <1>3, <2>1
    <2>4. /\ session' \in Views /\ busy[Feeder] = Quiet
          /\ UNCHANGED <<sequence, subscriber, queue, socket, wire, response, view, applied, base, lost>>
      BY <1>1, <1>3
    <2> QED  BY <1>0, <1>2, <2>1, <2>2, <2>3, <2>4, NewValue
  <1> QED  BY <1>6

LEMMA BarStep ==
    ASSUME FeedInv, FeedAssumption, NEW s \in Watched, IngestBar(s),
           UNCHANGED <<subscriber, queue, socket, wire, response, view, applied, base, lost>>
    PROVE  FeedInv'
  <1>0. PICK v, new : v = sequence + 1 /\ new = LastBars(Append(session.bars[s], v))
    OBVIOUS
  <1>1. /\ busy[Feeder] = Quiet /\ UNCHANGED sequence
        /\ session' = [session EXCEPT !.bars[s] = new]
        /\ busy' = [busy EXCEPT ![Feeder].todo = <<[kind |-> "bar", symbol |-> s, value |-> v]>>]
    BY <1>0 DEF IngestBar, Say, Idle, Version
  <1>2. v \in Nat
    BY <1>0, FeedKnown
  <1>3. session.bars[s] \in Seq(Nat) /\ Len(session.bars[s]) <= MaxBars
    BY FeedKnown, LatestTyped DEF FeedInv, FeedBars
  <1>4. new \in Seq(Nat) /\ Last(new) = v
    BY <1>0, <1>2, <1>3, BarAdded
  <1>5. /\ session' \in Views /\ session'.quote = session.quote /\ session'.bars[s] = new
        /\ \A u \in Watched : u # s => session'.bars[u] = session.bars[u]
    BY <1>1, <1>4, FeedKnown DEF Views
  <1>6. Latest(session', "bar", s) = v
    BY <1>4, <1>5 DEF Latest
  <1>7. \A k \in Kinds, u \in Watched :
           k # "bar" \/ u # s => Latest(session', k, u) = Latest(session, k, u)
    BY <1>5 DEF Latest, Kinds
  <1>8. "bar" \in Kinds
    BY DEF Kinds
  <1> QED  BY <1>0, <1>1, <1>2, <1>5, <1>6, <1>7, <1>8, NewValue

LEMMA UpdateStep ==
    ASSUME FeedInv, FeedAssumption, Update
    PROVE  FeedInv'
  <1>1. UNCHANGED <<subscriber, queue, socket, wire, response, view, applied, base, lost>>
    BY DEF Update
  <1>2. ASSUME NEW t \in Selectors, NEW s \in Watched, SelectSymbol(t, s)
        PROVE  FeedInv'
    BY <1>1, <1>2, SelectStep
  <1>3. ASSUME NEW s \in Watched, IngestQuote(s) \/ IngestBar(s)
        PROVE  FeedInv'
    <2>1. CASE IngestBar(s)
      BY <1>1, <2>1, BarStep
    <2>2. CASE IngestQuote(s) /\ session.active = NoSymbol
      BY <1>1, <2>2, ActivateStep
    <2>3. CASE IngestQuote(s) /\ session.active # NoSymbol
      BY <1>1, <2>3, QuoteStep
    <2> QED  BY <1>3, <2>1, <2>2, <2>3
  <1> QED  BY <1>2, <1>3 DEF Update

-----------------------------------------------------------------------------
(* Numbers and the queue.                                                  *)

\* An event takes its number and its subscriber.
LEMMA EmitStep ==
    ASSUME FeedInv, FeedAssumption, NEW t \in FeedThreads, Emit(t)
    PROVE  FeedInv'
  <1>0. PICK e, m : e = busy[t].todo[1] /\ m = [event |-> e, seq |-> sequence + 1, to |-> subscriber]
    OBVIOUS
  <1>1. /\ busy[t].todo # <<>> /\ busy[t].out = <<>> /\ e.kind # "answer"
        /\ sequence' = sequence + 1
        /\ busy' = [busy EXCEPT ![t] = [todo |-> Tail(@.todo), out |-> <<m>>]]
        /\ UNCHANGED <<session, subscriber, queue, socket, wire, response, view, applied, base, lost>>
    BY <1>0 DEF Emit
  <1>2. busy = [u \in FeedThreads |-> busy[u]]
    BY DEF FeedInv, FeedPlaces
  <1>3. /\ busy' = [u \in FeedThreads |-> busy'[u]]
        /\ \A u \in FeedThreads : u # t => busy'[u] = busy[u]
        /\ busy'[t] = [todo |-> Tail(busy[t].todo), out |-> <<m>>]
    BY <1>1, <1>2, FeedKnown
  <1>4. /\ e \in FeedEvent \cup ActiveEvent
        /\ t = Feeder => busy[t].todo = <<e>> /\ Tail(busy[t].todo) = <<>>
        /\ t \in Selectors => e \in ActiveEvent /\ Tail(busy[t].todo) = <<AnswerEvent>>
    <2>1. CASE t = Feeder
      <3>1. FeederPlace(busy[t])
        BY <2>1 DEF FeedInv, FeedPlaces
      <3>a. ~ (busy[t] = Quiet) /\ \A y : busy[t] # [todo |-> <<>>, out |-> <<y>>]
        BY <1>1 DEF Quiet
      <3>2. PICK x \in FeedEvent \cup ActiveEvent : busy[t] = [todo |-> <<x>>, out |-> <<>>]
        BY <1>1, <3>1, <3>a DEF FeederPlace
      <3>3. busy[t].todo = <<x>> /\ e = x
        BY <1>0, <3>2
      <3>4. Tail(<<x>>) = <<>>
        OBVIOUS
      <3> QED  BY <2>1, <3>2, <3>3, <3>4, FeedKnown
    <2>2. CASE t \in Selectors
      <3>1. SelectorPlace(busy[t])
        BY <2>2 DEF FeedInv, FeedPlaces
      <3>2. /\ busy[t] # [todo |-> <<AnswerEvent>>, out |-> <<>>] /\ busy[t] # Quiet
            /\ \A y, z : busy[t] # [todo |-> y, out |-> <<z>>]
        BY <1>0, <1>1 DEF AnswerEvent, Quiet
      <3>3. PICK x \in ActiveEvent : busy[t] = [todo |-> <<x, AnswerEvent>>, out |-> <<>>]
        BY <3>1, <3>2 DEF SelectorPlace
      <3>4. busy[t].todo = <<x, AnswerEvent>> /\ e = x
        BY <1>0, <3>3
      <3>5. Tail(<<x, AnswerEvent>>) = <<AnswerEvent>>
        OBVIOUS
      <3> QED  BY <2>2, <3>3, <3>4, <3>5, FeedKnown
    <2> QED  BY <2>1, <2>2 DEF FeedThreads
  <1>5. /\ m \in Message /\ m.event = e /\ m.seq = sequence + 1 /\ m.to = subscriber
        /\ sequence + 1 \in Nat
    BY <1>0, <1>4, FeedKnown DEF Message
  <1>6. /\ busy'[t].out = <<m>> /\ busy'[t].out # <<>> /\ busy'[t].out[1] = m
        /\ busy'[t].todo = Tail(busy[t].todo)
    BY <1>3
  <1>7. t = Feeder => busy'[Feeder].todo = <<>> /\ busy'[Feeder].out # <<>> /\ busy'[Feeder].out[1] = m
    BY <1>4, <1>6
  <1>8. t # Feeder => busy'[Feeder] = busy[Feeder]
    BY <1>3, FeedKnown
  <1>9. \A k, s : Latest(session, k, s)' = Latest(session, k, s)
    BY <1>1 DEF Latest
  \* What was on its way to an open socket still is.
  <1>10. ASSUME socket.up # "closed"
         PROVE  \A k \in Kinds : \A s, v : Pending(k, s, v) => Pending(k, s, v)'
    <2>1. subscriber = socket.id
      BY <1>10 DEF FeedInv, FeedTyped
    <2>2. CASE t = Feeder
      <3>1. \A k, s, v : ~ Flies(k, s, v)
        BY <1>1, <2>2 DEF Flies
      <3>2. \A k, s, v : Waits(k, s, v) => Flies(k, s, v)'
        BY <1>0, <1>1, <1>5, <1>7, <2>1, <2>2 DEF Waits, Flies, Says
      <3>3. \A k, s, v : Queued(k, s, v) => Queued(k, s, v)'
        BY <1>1 DEF Queued
      <3> QED  BY <3>1, <3>2, <3>3 DEF Pending
    <2>3. CASE t # Feeder
      BY <1>1, <1>8, <2>3 DEF Pending, Waits, Flies, Queued
    <2> QED  BY <2>2, <2>3
  <1>11. FeedTyped' /\ FeedWire' /\ FeedBars'
    <2>1. FeedTyped'
      BY <1>1, FeedKnown DEF FeedInv, FeedTyped, Shot
    <2>2. FeedWire'
      <3>1. \A w \in Shot : w.seq <= sequence => w.seq <= sequence'
        BY <1>1, FeedKnown DEF Shot
      <3> QED  BY <1>1, <3>1 DEF FeedInv, FeedWire
    <2> QED  BY <1>1, <2>1, <2>2 DEF FeedInv, FeedBars
  <1>12. FeedPlaces'
    <2>1. \A u \in FeedThreads : busy'[u].out # <<>> => busy'[u].out[1].seq <= sequence'
      <3> TAKE u \in FeedThreads
      <3>1. CASE u = t
        BY <1>1, <1>5, <1>6, <3>1
      <3>2. CASE u # t
        <4> SUFFICES ASSUME busy[u].out # <<>> PROVE busy[u].out[1].seq <= sequence'
          BY <1>3, <3>2
        <4>1. busy[u].out[1].seq <= sequence
          BY DEF FeedInv, FeedPlaces
        <4>2. \E x \in Message : busy[u].out = <<x>>
          BY FeedKnown DEF FeedInv, FeedPlaces, FeederPlace, SelectorPlace, Quiet, FeedThreads
        <4>3. busy[u].out[1].seq \in Nat
          BY <4>2 DEF Message
        <4>4. sequence \in Nat
          BY FeedKnown
        <4> QED  BY <1>1, <4>1, <4>3, <4>4
      <3> QED  BY <3>1, <3>2
    <2>2. FeederPlace(busy'[Feeder])
      <3>1. CASE t = Feeder
        <4>1. busy'[Feeder] = [todo |-> <<>>, out |-> <<m>>]
          BY <1>3, <1>4, <3>1
        <4> QED  BY <1>5, <4>1 DEF FeederPlace
      <3> QED  BY <1>8, <3>1 DEF FeedInv, FeedPlaces
    <2>3. \A u \in Selectors : SelectorPlace(busy'[u])
      <3> TAKE u \in Selectors
      <3>1. CASE u = t
        <4>1. busy'[u] = [todo |-> <<AnswerEvent>>, out |-> <<m>>] /\ m.event \in ActiveEvent
          BY <1>3, <1>4, <1>5, <3>1
        <4> QED  BY <1>5, <4>1 DEF SelectorPlace
      <3> QED  BY <1>3, <3>1, FeedKnown DEF FeedInv, FeedPlaces
    <2> QED  BY <1>3, <2>1, <2>2, <2>3 DEF FeedPlaces, FeederPlace, SelectorPlace
  <1>13. \A x : x.seq \in Nat /\ Numbered(x) => Numbered(x)'
    BY <1>1, <1>9, FeedKnown DEF Numbered
  <1>14. \A i \in 1 .. Len(queue) : queue[i].seq \in Nat
    BY FeedKnown DEF Message
  <1>15. t = Feeder /\ e.kind \in Kinds =>
           /\ e \in FeedEvent /\ e.symbol \in Watched /\ e.value \in Nat /\ e.value # 0
           /\ e.value = Latest(session, e.kind, e.symbol) /\ e.value <= sequence + 1
    <2> HAVE t = Feeder /\ e.kind \in Kinds
    <2>1. e \in FeedEvent
      BY <1>4 DEF ActiveEvent, Kinds
    <2>2. e.value # 0 /\ e.value = Latest(session, e.kind, e.symbol)
      BY <1>0, <1>1 DEF FeedInv, FeedNumbers
    <2>3. e.symbol \in Watched /\ e.value \in Nat
      BY <2>1 DEF FeedEvent
    <2>4. Latest(session, e.kind, e.symbol) <= sequence + 1
      BY <2>3 DEF FeedInv, FeedNumbers
    <2> QED  BY <2>1, <2>2, <2>3, <2>4
  <1>16. FeedNumbers'
    <2>1. \A k \in Kinds, s \in Watched : Latest(session, k, s)' <= sequence'
      BY <1>1, <1>9 DEF FeedInv, FeedNumbers
    <2>2. \A i \in 1 .. Len(queue) : Numbered(queue[i])'
      <3>1. \A i \in 1 .. Len(queue) : Numbered(queue[i])
        BY DEF FeedInv, FeedNumbers
      <3> QED  BY <1>1, <1>13, <1>14, <3>1
    <2>3. \A k \in Kinds, s \in Watched : Latest(session, k, s)' <= sequence' + 1
      BY <1>1, <1>9, <2>1, FeedKnown
    <2>4. CASE t = Feeder
      <3>1. m.event.kind \in Kinds => m.event.value = Latest(session, m.event.kind, m.event.symbol)'
        BY <1>5, <1>9, <1>15, <2>4
      <3>2. m.seq <= sequence' /\ (m.event.kind \in Kinds => m.event.value # 0 /\ m.event.value <= m.seq)
        BY <1>1, <1>5, <1>15, <2>4
      <3>3. Numbered(m)'
        BY <3>1, <3>2 DEF Numbered
      <3> QED  BY <1>1, <1>7, <2>1, <2>2, <2>3, <2>4, <3>1, <3>3 DEF FeedNumbers
    <2>5. CASE t # Feeder
      <3>1. busy[Feeder].out # <<>> => Numbered(busy[Feeder].out[1])'
        <4> SUFFICES ASSUME busy[Feeder].out # <<>> PROVE Numbered(busy[Feeder].out[1])'
          BY <1>8, <2>5
        <4>1. PICK x \in Message : busy[Feeder].out = <<x>>
          <5>1. FeederPlace(busy[Feeder])
            BY DEF FeedInv, FeedPlaces
          <5>2. busy[Feeder] # Quiet /\ \A y : busy[Feeder] # [todo |-> <<y>>, out |-> <<>>]
            BY DEF Quiet
          <5>3. PICK x \in Message : busy[Feeder] = [todo |-> <<>>, out |-> <<x>>]
            BY <5>1, <5>2 DEF FeederPlace
          <5> QED  BY <5>3
        <4>2. Numbered(x) /\ x.seq \in Nat
          BY <4>1 DEF FeedInv, FeedNumbers, Message
        <4>3. Numbered(x)'
          BY <1>13, <4>2
        <4> QED  BY <1>8, <2>5, <4>1, <4>3
      <3> QED  BY <1>1, <1>8, <1>9, <2>1, <2>2, <2>3, <2>5, <3>1 DEF FeedInv, FeedNumbers
    <2> QED  BY <2>4, <2>5
  <1>17. FeedOrder'
    <2>1. CASE t = Feeder
      <3>1. \A i \in 1 .. Len(queue) : queue[i].event.kind \in Kinds /\ e.kind \in Kinds
               => queue[i].event.value < e.value
        BY <1>0, <1>1, <2>1 DEF FeedInv, FeedOrder
      <3> QED  BY <1>1, <1>5, <1>7, <2>1, <3>1 DEF FeedInv, FeedOrder
    <2>2. CASE t # Feeder
      BY <1>1, <1>8, <2>2 DEF FeedInv, FeedOrder
    <2> QED  BY <2>1, <2>2
  <1>18. FeedFollows'
    <2>1. \A i \in 1 .. Len(queue) : socket.up # "closed"
      BY FeedKnown DEF FeedInv, FeedWire
    <2> QED  BY <1>1, <1>9, <1>10, <2>1 DEF FeedInv, FeedFollows
  <1>19. FeedReaches'
    BY <1>1, <1>9, <1>10 DEF FeedInv, FeedReaches, Start, Kinds
  <1>20. /\ \A state, n : HoldsNewest(state, n) => HoldsNewest(state, n)'
         /\ \A state, n : HoldsBars(state, n) => HoldsBars(state, n)'
         /\ \A state : Within(state) => Within(state)'
         /\ \A x : WithinBars(x) => WithinBars(x)'
    BY <1>1 DEF HoldsNewest, HoldsBars, Within, WithinBars, Latest
  <1>21. FeedShots'
    <2>1. \A w : Faithful(w) => Faithful(w)'
      BY <1>20 DEF Faithful
    <2> QED  BY <1>1, <2>1 DEF FeedInv, FeedShots
  <1>22. FeedWithin'
    <2>1. t = Feeder => WithinBars(m)'
      <3> SUFFICES ASSUME t = Feeder, e.kind = "bar" PROVE e.value \in Elements(session.bars[e.symbol])
        BY <1>1, <1>5 DEF WithinBars
      <3>1. e.symbol \in Watched /\ e.value # 0 /\ e.value = Last(session.bars[e.symbol])
        BY <1>15 DEF Latest, Kinds
      <3> QED  BY <3>1, FeedKnown, LatestTyped
    <2> QED  BY <1>1, <1>7, <1>8, <1>20, <2>1 DEF FeedInv, FeedWithin
  <1>23. FeedPage'
    <2> SUFFICES ASSUME socket.up = "open", wire = <<>>, lost <= base
                 PROVE  /\ HoldsNewest(view, base)' /\ HoldsBars(view, base)'
                        /\ \A k \in Kinds, s \in Watched :
                             Latest(view, k, s)' = Latest(session, k, s)' \/ Pending(k, s, Latest(session, k, s))'
                        /\ \A s \in Watched : Len(view.bars[s]) < MaxBars =>
                             \A b \in Elements(session.bars[s]) : b \in Elements(view.bars[s]) \/ Pending("bar", s, b)'
      BY <1>1 DEF FeedPage
    <2>1. /\ HoldsNewest(view, base) /\ HoldsBars(view, base)
          /\ \A k \in Kinds, s \in Watched :
               Latest(view, k, s) = Latest(session, k, s) \/ Pending(k, s, Latest(session, k, s))
          /\ \A s \in Watched : Len(view.bars[s]) < MaxBars =>
               \A b \in Elements(session.bars[s]) : b \in Elements(view.bars[s]) \/ Pending("bar", s, b)
      BY DEF FeedInv, FeedPage
    <2>2. \A k, s : Latest(view, k, s)' = Latest(view, k, s)
      BY <1>1 DEF Latest
    <2> QED  BY <1>1, <1>9, <1>10, <1>20, <2>1, <2>2 DEF Kinds
  <1> QED  BY <1>11, <1>12, <1>16, <1>17, <1>18, <1>19, <1>21, <1>22, <1>23 DEF FeedInv

\* What the events of the queue say.
LEMMA QueueTells ==
    ASSUME FeedInv, FeedAssumption, NEW i \in 1 .. Len(queue), queue[i].event.kind \in Kinds
    PROVE  /\ queue[i].event \in FeedEvent /\ queue[i].event.symbol \in Watched
           /\ queue[i].event.value \in Nat /\ queue[i].event.value # 0 /\ queue[i].seq \in Nat
           /\ queue[i].event.value <= queue[i].seq /\ queue[i].seq <= sequence
           /\ \/ Latest(session, queue[i].event.kind, queue[i].event.symbol) = queue[i].event.value
              \/ Latest(session, queue[i].event.kind, queue[i].event.symbol) > queue[i].seq
           /\ Pending(queue[i].event.kind, queue[i].event.symbol,
                      Latest(session, queue[i].event.kind, queue[i].event.symbol))
  <1>1. queue[i] \in Message
    BY FeedKnown
  <1>2. queue[i].event \in FeedEvent /\ queue[i].seq \in Nat
    BY <1>1 DEF Message, ActiveEvent, Kinds
  <1>3. Numbered(queue[i])
    BY DEF FeedInv, FeedNumbers
  <1>4. Pending(queue[i].event.kind, queue[i].event.symbol,
                Latest(session, queue[i].event.kind, queue[i].event.symbol))
    BY DEF FeedInv, FeedFollows
  <1> QED  BY <1>2, <1>3, <1>4 DEF Numbered, FeedEvent

\* The oldest event of the queue is not the newest value if there is another of its datum.
LEMMA HeadIsOld ==
    ASSUME FeedInv, FeedAssumption, NEW i \in 2 .. Len(queue), queue[i].event.kind \in Kinds
    PROVE  ~ Says(queue[1].event, queue[i].event.kind, queue[i].event.symbol,
                  Latest(session, queue[i].event.kind, queue[i].event.symbol))
  <1> SUFFICES ASSUME Says(queue[1].event, queue[i].event.kind, queue[i].event.symbol,
                           Latest(session, queue[i].event.kind, queue[i].event.symbol))
               PROVE  FALSE
    OBVIOUS
  <1>1. i \in 1 .. Len(queue) /\ 1 \in 1 .. Len(queue) /\ 1 < i
    BY FeedKnown
  <1>2. /\ queue[1].event.kind \in Kinds
        /\ queue[1].event.value = Latest(session, queue[i].event.kind, queue[i].event.symbol)
    BY DEF Says
  <1>3. queue[1].event.value < queue[i].event.value
    BY <1>1, <1>2 DEF FeedInv, FeedOrder
  <1>4. /\ queue[i].event.value \in Nat /\ queue[i].seq \in Nat /\ queue[i].event.value <= queue[i].seq
        /\ queue[1].event.value \in Nat
        /\ queue[1].event.value = queue[i].event.value \/ queue[1].event.value > queue[i].seq
    BY <1>1, <1>2, QueueTells
  <1> QED  BY <1>3, <1>4

\* An event comes to the queue of the connection it is for, which may lose its oldest.
LEMMA DeliverStep ==
    ASSUME FeedInv, FeedAssumption, NEW t \in FeedThreads, Deliver(t)
    PROVE  FeedInv'
  <1>0. PICK m : m = busy[t].out[1]
    OBVIOUS
  <1>1. /\ busy[t].out # <<>> /\ busy' = [busy EXCEPT ![t].out = <<>>]
        /\ UNCHANGED <<session, sequence, subscriber, socket, wire, response, view, applied, base>>
        /\ m.to = socket.id /\ socket.up # "closed" =>
             /\ queue' = DropOldest(m)
             /\ lost' = IF Len(queue) = MaxQueue THEN Newer(lost, Head(queue).seq) ELSE lost
        /\ ~ (m.to = socket.id /\ socket.up # "closed") => UNCHANGED <<queue, lost>>
    BY <1>0 DEF Deliver
  <1>2. busy = [u \in FeedThreads |-> busy[u]]
    BY DEF FeedInv, FeedPlaces
  <1>3. /\ m \in Message
        /\ t = Feeder => busy[t] = [todo |-> <<>>, out |-> <<m>>]
        /\ t # Feeder => busy[t] = [todo |-> <<AnswerEvent>>, out |-> <<m>>] /\ m.event.kind \notin Kinds
    <2>1. CASE t = Feeder
      <3>1. busy[t] # Quiet /\ \A y : busy[t] # [todo |-> <<y>>, out |-> <<>>]
        BY <1>1 DEF Quiet
      <3>2. FeederPlace(busy[t])
        BY <2>1 DEF FeedInv, FeedPlaces
      <3>3. PICK x \in Message : busy[t] = [todo |-> <<>>, out |-> <<x>>]
        BY <3>1, <3>2 DEF FeederPlace
      <3>4. x = m
        BY <1>0, <3>3
      <3> QED  BY <2>1, <3>3, <3>4
    <2>2. CASE t \in Selectors
      <3>1. /\ busy[t] # Quiet /\ \A y : busy[t] # [todo |-> y, out |-> <<>>]
        BY <1>1 DEF Quiet
      <3>2. SelectorPlace(busy[t])
        BY <2>2 DEF FeedInv, FeedPlaces
      <3>3. PICK x \in Message : x.event \in ActiveEvent /\ busy[t] = [todo |-> <<AnswerEvent>>, out |-> <<x>>]
        BY <3>1, <3>2 DEF SelectorPlace
      <3>4. x = m
        BY <1>0, <3>3
      <3> QED  BY <2>2, <3>3, <3>4, FeedKnown DEF ActiveEvent, Kinds
    <2> QED  BY <2>1, <2>2 DEF FeedThreads
  <1>4. /\ busy' = [u \in FeedThreads |-> busy'[u]]
        /\ \A u \in FeedThreads : u # t => busy'[u] = busy[u]
        /\ busy'[t] = [busy[t] EXCEPT !.out = <<>>]
    BY <1>1, <1>2, FeedKnown
  <1>5. /\ t = Feeder => busy'[t] = [todo |-> <<>>, out |-> <<>>] /\ busy[Feeder].todo = <<>> /\ busy[Feeder].out = <<m>>
        /\ t # Feeder => busy'[t] = [todo |-> <<AnswerEvent>>, out |-> <<>>] /\ busy'[Feeder] = busy[Feeder]
    BY <1>3, <1>4, FeedKnown
  \* The event itself.
  <1>6. /\ Numbered(m) /\ WithinBars(m) /\ m.seq \in Nat
        /\ m.event.kind \in Kinds =>
             /\ t = Feeder /\ m.event \in FeedEvent /\ m.event.symbol \in Watched
             /\ m.event.value = Latest(session, m.event.kind, m.event.symbol)
             /\ \A i \in 1 .. Len(queue) : queue[i].event.kind \in Kinds => queue[i].event.value < m.event.value
    <2>1. m.seq \in Nat /\ m.event \in FeedEvent \cup ActiveEvent
      BY <1>3 DEF Message
    <2>2. CASE t = Feeder
      <3>1. busy[Feeder].out # <<>> /\ busy[Feeder].out[1] = m
        BY <1>0, <1>1, <2>2
      <3>2. m.event.kind \in Kinds => m.event \in FeedEvent
        BY <2>1 DEF ActiveEvent, Kinds
      <3> QED  BY <2>1, <2>2, <3>1, <3>2 DEF FeedInv, FeedNumbers, FeedOrder, FeedWithin, FeedEvent
    <2>3. CASE t # Feeder
      <3>1. m.seq <= sequence
        BY <1>0, <1>1 DEF FeedInv, FeedPlaces
      <3>2. m.event.kind \notin Kinds /\ m.event.kind # "bar"
        BY <1>3, <2>3 DEF Kinds
      <3> QED  BY <2>1, <3>1, <3>2 DEF Numbered, WithinBars
    <2> QED  BY <2>2, <2>3
  <1>7. \A k, s : Latest(session, k, s)' = Latest(session, k, s)
    BY <1>1 DEF Latest
  \* The queue.
  <1>8. PICK d \in {0, 1} :
          /\ queue' \in Seq(Message) /\ Len(queue') <= MaxQueue /\ Len(queue') \in Nat
          /\ \A j \in 1 .. Len(queue') :
               \/ j = Len(queue') /\ queue'[j] = m
               \/ j + d \in 1 .. Len(queue) /\ queue'[j] = queue[j + d]
          /\ \A i \in 1 .. Len(queue) : (i = 1 /\ d = 1) \/ (i - d \in 1 .. Len(queue') /\ queue'[i - d] = queue[i])
          /\ m.to = socket.id /\ socket.up # "closed" => Len(queue') \in 1 .. Len(queue') /\ queue'[Len(queue')] = m
          /\ lost' \in 0 .. sequence /\ lost <= lost'
          /\ d = 1 => Len(queue) # 0 /\ queue[1].seq <= lost'
          /\ queue' = <<>> \/ queue' = queue \/ socket.up # "closed"
    <2>1. lost \in 0 .. sequence /\ Len(queue) <= MaxQueue /\ Len(queue) \in Nat
      BY FeedKnown DEF FeedInv, FeedTyped
    <2>2. CASE ~ (m.to = socket.id /\ socket.up # "closed")
      <3>1. queue' = queue /\ lost' = lost
        BY <1>1, <2>2
      <3>2. \A j \in 1 .. Len(queue) : j + 0 = j /\ j - 0 = j
        OBVIOUS
      <3> QED  BY <2>1, <2>2, <3>1, <3>2, FeedKnown
    <2>3. CASE m.to = socket.id /\ socket.up # "closed" /\ Len(queue) # MaxQueue
      <3>1. queue' = Append(queue, m) /\ lost' = lost
        BY <1>1, <2>3 DEF DropOldest
      <3>2. /\ queue' \in Seq(Message) /\ Len(queue') = Len(queue) + 1 /\ queue'[Len(queue) + 1] = m
            /\ \A j \in 1 .. Len(queue) : queue'[j] = queue[j]
        BY <1>3, <3>1, FeedKnown, AppendProperties
      <3>3. Len(queue') <= MaxQueue /\ Len(queue') \in Nat /\ Len(queue') \in 1 .. Len(queue')
        BY <2>1, <2>3, <3>2, FeedKnown
      <3>4. \A j \in 1 .. Len(queue') :
              \/ j = Len(queue') /\ queue'[j] = m
              \/ j + 0 \in 1 .. Len(queue) /\ queue'[j] = queue[j + 0]
        <4> TAKE j \in 1 .. Len(queue')
        <4>1. CASE j = Len(queue')
          BY <3>2, <4>1
        <4>2. CASE j # Len(queue')
          <5>1. j \in 1 .. Len(queue) /\ j + 0 = j
            BY <2>1, <3>2, <4>2
          <5> QED  BY <3>2, <5>1
        <4> QED  BY <4>1, <4>2
      <3>5. \A i \in 1 .. Len(queue) : i - 0 \in 1 .. Len(queue') /\ queue'[i - 0] = queue[i]
        <4> TAKE i \in 1 .. Len(queue)
        <4>1. i - 0 = i /\ i \in 1 .. Len(queue')
          BY <2>1, <3>2
        <4> QED  BY <3>2, <4>1
      <3>6. queue'[Len(queue')] = m /\ lost' \in 0 .. sequence /\ lost <= lost'
        BY <2>1, <3>1, <3>2, FeedKnown
      <3> QED  BY <2>3, <3>2, <3>3, <3>4, <3>5, <3>6
    <2>4. CASE m.to = socket.id /\ socket.up # "closed" /\ Len(queue) = MaxQueue
      <3>1. queue' = Append(Tail(queue), m) /\ lost' = Newer(lost, Head(queue).seq)
        BY <1>1, <2>4 DEF DropOldest
      <3>2. queue # <<>> /\ Len(queue) # 0 /\ 1 \in 1 .. Len(queue)
        BY <2>4, FeedKnown
      <3>3. /\ Tail(queue) \in Seq(Message) /\ Len(Tail(queue)) = Len(queue) - 1 /\ Head(queue) = queue[1]
            /\ \A j \in 1 .. Len(queue) - 1 : Tail(queue)[j] = queue[j + 1]
        BY <3>2, FeedKnown, HeadTailProperties
      <3>4. /\ queue' \in Seq(Message) /\ Len(queue') = Len(queue) /\ queue'[Len(queue)] = m
            /\ \A j \in 1 .. Len(queue) - 1 : queue'[j] = queue[j + 1]
        <4> HIDE DEF DropOldest
        <4>1. /\ queue' \in Seq(Message) /\ Len(queue') = Len(Tail(queue)) + 1 /\ queue'[Len(Tail(queue)) + 1] = m
              /\ \A j \in 1 .. Len(Tail(queue)) : queue'[j] = Tail(queue)[j]
          BY <1>3, <3>1, <3>3, AppendProperties
        <4>2. Len(Tail(queue)) + 1 = Len(queue)
          BY <2>1, <3>3
        <4> QED  BY <3>3, <4>1, <4>2
      <3>5. \A j \in 1 .. Len(queue') :
              \/ j = Len(queue') /\ queue'[j] = m
              \/ j + 1 \in 1 .. Len(queue) /\ queue'[j] = queue[j + 1]
        <4> TAKE j \in 1 .. Len(queue')
        <4>1. CASE j = Len(queue')
          BY <3>4, <4>1
        <4>2. CASE j # Len(queue')
          <5>1. j \in 1 .. Len(queue) - 1 /\ j + 1 \in 1 .. Len(queue)
            BY <2>1, <3>4, <4>2
          <5> QED  BY <3>4, <5>1
        <4> QED  BY <4>1, <4>2
      <3>6. \A i \in 1 .. Len(queue) : i = 1 \/ (i - 1 \in 1 .. Len(queue') /\ queue'[i - 1] = queue[i])
        <4> TAKE i \in 1 .. Len(queue)
        <4>1. CASE i # 1
          <5>1. i - 1 \in 1 .. Len(queue) - 1 /\ i - 1 \in 1 .. Len(queue') /\ (i - 1) + 1 = i
            BY <2>1, <3>4, <4>1
          <5> QED  BY <3>4, <5>1
        <4> QED  BY <4>1
      <3>7. lost' \in 0 .. sequence /\ lost <= lost' /\ queue[1].seq <= lost'
        <4>1. queue[1].seq <= sequence
          BY <3>2 DEF FeedInv, FeedNumbers, Numbered
        <4>2. queue[1].seq \in Nat /\ sequence \in Nat
          BY <3>2, FeedKnown DEF Message
        <4> QED  BY <2>1, <3>1, <3>3, <4>1, <4>2 DEF Newer
      <3>8. Len(queue') \in Nat /\ Len(queue') <= MaxQueue /\ Len(queue') \in 1 .. Len(queue') /\ queue'[Len(queue')] = m
        BY <2>1, <3>2, <3>4
      <3> QED  BY <2>4, <3>2, <3>4, <3>5, <3>6, <3>7, <3>8
    <2> QED  BY <2>2, <2>3, <2>4
  \* What is on its way to an open connection is still, but for what the queue loses.
  <1>9. ASSUME socket.up # "closed"
        PROVE  \A k \in Kinds : \A s, v : Pending(k, s, v) => Pending(k, s, v)' \/ (d = 1 /\ Says(queue[1].event, k, s, v))
    <2> TAKE k \in Kinds
    <2> TAKE s, v
    <2>1. CASE Waits(k, s, v)
      <3>1. t # Feeder /\ busy'[Feeder] = busy[Feeder]
        BY <1>5, <2>1 DEF Waits
      <3> QED  BY <2>1, <3>1 DEF Waits, Pending
    <2>2. CASE Flies(k, s, v)
      <3>1. CASE t = Feeder
        <4>1. m.to = socket.id /\ Says(m.event, k, s, v)
          BY <1>0, <2>2, <3>1 DEF Flies
        <4>2. Len(queue') \in 1 .. Len(queue') /\ queue'[Len(queue')] = m
          BY <1>8, <1>9, <4>1
        <4> QED  BY <4>1, <4>2 DEF Pending, Queued
      <3>2. CASE t # Feeder
        BY <1>1, <1>5, <2>2, <3>2 DEF Flies, Pending
      <3> QED  BY <3>1, <3>2
    <2>3. CASE Queued(k, s, v)
      <3>1. PICK i \in 1 .. Len(queue) : Says(queue[i].event, k, s, v)
        BY <2>3 DEF Queued
      <3>2. CASE i = 1 /\ d = 1
        BY <3>1, <3>2
      <3>3. CASE i - d \in 1 .. Len(queue') /\ queue'[i - d] = queue[i]
        <4>1. Says(queue'[i - d].event, k, s, v)
          BY <3>1, <3>3
        <4> QED  BY <3>3, <4>1 DEF Queued, Pending
      <3> QED  BY <1>8, <3>2, <3>3
    <2> QED  BY <2>1, <2>2, <2>3 DEF Pending
  \* What the queue loses is no newer than the event it is lost with.
  <1>10. ASSUME NEW k \in Kinds, NEW s \in Watched, NEW v, d = 1, Says(queue[1].event, k, s, v)
         PROVE  v \in Nat /\ v <= lost'
    <2>1. 1 \in 1 .. Len(queue) /\ queue[1].seq <= lost' /\ lost' \in Nat
      BY <1>8, <1>10, FeedKnown
    <2>2. v \in Nat /\ queue[1].seq \in Nat /\ v <= queue[1].seq
      BY <1>10, <2>1, QueueTells DEF Says
    <2> QED  BY <2>1, <2>2
  <1>11. FeedTyped' /\ FeedWire' /\ FeedBars'
    <2>1. FeedWire'
      BY <1>1, <1>8 DEF FeedInv, FeedWire
    <2> QED  BY <1>1, <1>8, <2>1 DEF FeedInv, FeedTyped, FeedBars
  <1>12. FeedPlaces'
    <2>1. FeederPlace(busy'[Feeder])
      <3>1. CASE t = Feeder
        <4>1. busy'[Feeder] = Quiet
          BY <1>5, <3>1 DEF Quiet
        <4> QED  BY <4>1 DEF FeederPlace
      <3> QED  BY <1>5, <3>1 DEF FeedInv, FeedPlaces
    <2>2. \A u \in Selectors : SelectorPlace(busy'[u])
      <3> TAKE u \in Selectors
      <3>1. CASE u = t
        <4>1. busy'[u] = [todo |-> <<AnswerEvent>>, out |-> <<>>]
          BY <1>5, <3>1, FeedKnown
        <4> QED  BY <4>1 DEF SelectorPlace
      <3> QED  BY <1>4, <3>1, FeedKnown DEF FeedInv, FeedPlaces
    <2>3. \A u \in FeedThreads : busy'[u].out # <<>> => busy'[u] = busy[u]
      BY <1>4, <1>5
    <2> QED  BY <1>1, <1>4, <2>1, <2>2, <2>3 DEF FeedInv, FeedPlaces, FeederPlace, SelectorPlace
  <1>13. /\ \A x : Numbered(x) => Numbered(x)'
         /\ \A x : WithinBars(x) => WithinBars(x)'
         /\ \A state, n : HoldsNewest(state, n) => HoldsNewest(state, n)'
         /\ \A state, n : HoldsBars(state, n) => HoldsBars(state, n)'
         /\ \A state : Within(state) => Within(state)'
    BY <1>1 DEF Numbered, WithinBars, HoldsNewest, HoldsBars, Within, Latest
  <1>14. \A j \in 1 .. Len(queue') : queue'[j] = m \/ \E i \in 1 .. Len(queue) : queue'[j] = queue[i]
    BY <1>8
  <1>15. FeedNumbers'
    <2>1. \A j \in 1 .. Len(queue') : Numbered(queue'[j])
      BY <1>6, <1>14 DEF FeedInv, FeedNumbers
    <2>2. (\A j \in 1 .. Len(queue) : Numbered(queue[j]))'
      BY <1>1, <2>1 DEF Numbered, Latest
    <2>3. \A k \in Kinds, s \in Watched :
            /\ Latest(session, k, s)' <= sequence' + 1
            /\ Latest(session, k, s)' <= sequence' \/ Waits(k, s, Latest(session, k, s))'
      <3>1. \A k, s, v : Waits(k, s, v) => Waits(k, s, v)'
        BY <1>5 DEF Waits
      <3> QED  BY <1>1, <1>7, <3>1 DEF FeedInv, FeedNumbers
    <2>4. CASE t = Feeder
      <3>1. busy'[Feeder].todo = <<>> /\ busy'[Feeder].out = <<>>
        BY <1>5, <2>4
      <3> QED  BY <2>2, <2>3, <3>1 DEF FeedNumbers
    <2>5. CASE t # Feeder
      <3>1. busy'[Feeder] = busy[Feeder]
        BY <1>5, <2>5
      <3>2. (busy[Feeder].out # <<>> => Numbered(busy[Feeder].out[1]))'
        BY <1>1, <3>1 DEF FeedInv, FeedNumbers, Numbered, Latest
      <3> QED  BY <1>1, <1>7, <2>2, <2>3, <3>1, <3>2 DEF FeedInv, FeedNumbers
    <2> QED  BY <2>4, <2>5
  <1>16. FeedOrder'
    <2> SUFFICES ASSUME NEW j \in 1 .. Len(queue'), queue'[j].event.kind \in Kinds
                 PROVE  /\ \A l \in 1 .. Len(queue') :
                             j < l /\ queue'[l].event.kind \in Kinds => queue'[j].event.value < queue'[l].event.value
                        /\ busy'[Feeder].todo # <<>> /\ busy'[Feeder].todo[1].kind \in Kinds
                             => queue'[j].event.value < busy'[Feeder].todo[1].value
                        /\ busy'[Feeder].out # <<>> /\ busy'[Feeder].out[1].event.kind \in Kinds
                             => queue'[j].event.value < busy'[Feeder].out[1].event.value
      BY DEF FeedOrder
    <2>1. \A l \in 1 .. Len(queue') :
             j < l /\ queue'[l].event.kind \in Kinds => queue'[j].event.value < queue'[l].event.value
      <3> SUFFICES ASSUME NEW l \in 1 .. Len(queue'), j < l, queue'[l].event.kind \in Kinds
                   PROVE  queue'[j].event.value < queue'[l].event.value
        OBVIOUS
      <3>1. j # Len(queue')
        BY <1>8
      <3>2. j + d \in 1 .. Len(queue) /\ queue'[j] = queue[j + d]
        BY <1>8, <3>1
      <3>3. CASE queue'[l] = m
        BY <1>6, <3>2, <3>3
      <3>4. CASE l + d \in 1 .. Len(queue) /\ queue'[l] = queue[l + d]
        <4>1. j + d < l + d
          BY <1>8
        <4> QED  BY <3>2, <3>4, <4>1 DEF FeedInv, FeedOrder
      <3> QED  BY <1>8, <3>3, <3>4
    <2>2. CASE t = Feeder
      <3>1. busy'[Feeder].todo = <<>> /\ busy'[Feeder].out = <<>>
        BY <1>5, <2>2
      <3> QED  BY <2>1, <3>1
    <2>3. CASE t # Feeder
      <3>1. queue'[j] # m
        BY <1>3, <2>3
      <3>2. j + d \in 1 .. Len(queue) /\ queue'[j] = queue[j + d]
        BY <1>8, <3>1
      <3> QED  BY <1>5, <2>1, <2>3, <3>2 DEF FeedInv, FeedOrder
    <2> QED  BY <2>2, <2>3
  <1>17. FeedFollows'
    <2> SUFFICES ASSUME NEW j \in 1 .. Len(queue'), NEW e, e = queue'[j].event, e.kind \in Kinds
                 PROVE  Pending(e.kind, e.symbol, Latest(session, e.kind, e.symbol))'
      BY DEF FeedFollows
    <2>1. CASE queue'[j] = m
      <3>1. e.value = Latest(session, e.kind, e.symbol)'
        BY <1>6, <1>7, <2>1
      <3>2. Queued(e.kind, e.symbol, Latest(session, e.kind, e.symbol))'
        BY <3>1 DEF Queued, Says
      <3> QED  BY <3>2 DEF Pending
    <2>2. CASE j + d \in 1 .. Len(queue) /\ queue'[j] = queue[j + d]
      <3>1. Pending(e.kind, e.symbol, Latest(session, e.kind, e.symbol))
        BY <2>2, QueueTells
      <3>2. socket.up # "closed"
        BY <2>2, FeedKnown DEF FeedInv, FeedWire
      <3>3. d = 1 => ~ Says(queue[1].event, e.kind, e.symbol, Latest(session, e.kind, e.symbol))
        <4> HAVE d = 1
        <4>1. j + d \in 2 .. Len(queue)
          BY <1>8, <2>2, FeedKnown
        <4> QED  BY <2>2, <4>1, HeadIsOld
      <3> QED  BY <1>7, <1>9, <3>1, <3>2, <3>3
    <2> QED  BY <1>8, <2>1, <2>2
  <1>18. FeedReaches'
    <2> SUFFICES ASSUME socket.up = "open"
                 PROVE  /\ \A k \in Kinds, s \in Watched :
                             Latest(session, k, s)' > lost' /\ Latest(session, k, s)' > Start'
                                => Pending(k, s, Latest(session, k, s))'
                        /\ \A s \in Watched : \A b \in Elements(session.bars[s]) :
                             b > lost' /\ b > Start' => Pending("bar", s, b)'
      BY <1>1 DEF FeedReaches
    <2>1. Start' = Start /\ socket.up # "closed"
      BY <1>1 DEF Start
    <2>2. /\ \A k \in Kinds, s \in Watched :
               Latest(session, k, s) > lost /\ Latest(session, k, s) > Start
                  => Pending(k, s, Latest(session, k, s))
          /\ \A s \in Watched : \A b \in Elements(session.bars[s]) :
               b > lost /\ b > Start => Pending("bar", s, b)
      BY DEF FeedInv, FeedReaches
    <2>3. lost \in Nat /\ lost' \in Nat /\ lost <= lost'
      BY <1>8, FeedKnown
    <2>4. ASSUME NEW k \in Kinds, NEW s \in Watched,
                 Latest(session, k, s)' > lost', Latest(session, k, s)' > Start'
          PROVE  Pending(k, s, Latest(session, k, s))'
      <3>1. Latest(session, k, s) > lost' /\ Latest(session, k, s) \in Nat
        BY <1>7, <2>4, FeedKnown
      <3>2. Latest(session, k, s) > lost /\ ~ (Latest(session, k, s) <= lost')
        BY <2>3, <3>1
      <3>3. Pending(k, s, Latest(session, k, s))
        BY <1>7, <2>1, <2>2, <2>4, <3>2
      <3>4. ~ (d = 1 /\ Says(queue[1].event, k, s, Latest(session, k, s)))
        BY <1>10, <3>2
      <3> QED  BY <1>7, <1>9, <2>1, <3>3, <3>4
    <2>5. ASSUME NEW s \in Watched, NEW b \in Elements(session.bars[s]), b > lost', b > Start'
          PROVE  Pending("bar", s, b)'
      <3>1. b \in Nat
        BY NewestBar
      <3>2. b > lost /\ ~ (b <= lost')
        BY <2>3, <2>5, <3>1
      <3>3. Pending("bar", s, b)
        BY <2>1, <2>2, <2>5, <3>2
      <3>4. ~ (d = 1 /\ Says(queue[1].event, "bar", s, b))
        BY <1>10, <3>2 DEF Kinds
      <3> QED  BY <1>9, <2>1, <3>3, <3>4 DEF Kinds
    <2> QED  BY <2>4, <2>5
  <1>19. FeedShots'
    <2>1. \A w : Faithful(w) => Faithful(w)'
      BY <1>13 DEF Faithful
    <2> QED  BY <1>1, <2>1 DEF FeedInv, FeedShots
  <1>20. FeedWithin'
    <2>1. \A j \in 1 .. Len(queue') : WithinBars(queue'[j])
      BY <1>6, <1>14 DEF FeedInv, FeedWithin
    <2>2. (\A j \in 1 .. Len(queue) : WithinBars(queue[j]))'
      BY <1>1, <2>1 DEF WithinBars
    <2>3. Within(view)'
      BY <1>1, <1>13 DEF FeedInv, FeedWithin
    <2>4. (busy[Feeder].out # <<>> => WithinBars(busy[Feeder].out[1]))'
      <3>1. busy'[Feeder].out = <<>> \/ busy'[Feeder] = busy[Feeder]
        BY <1>5
      <3> QED  BY <1>1, <3>1 DEF FeedInv, FeedWithin, WithinBars
    <2> QED  BY <2>2, <2>3, <2>4 DEF FeedWithin
  <1>21. FeedPage'
    <2> SUFFICES ASSUME socket.up = "open", wire = <<>>, lost' <= base
                 PROVE  /\ HoldsNewest(view, base)' /\ HoldsBars(view, base)'
                        /\ \A k \in Kinds, s \in Watched :
                             Latest(view, k, s)' = Latest(session, k, s)' \/ Pending(k, s, Latest(session, k, s))'
                        /\ \A s \in Watched : Len(view.bars[s]) < MaxBars =>
                             \A b \in Elements(session.bars[s]) : b \in Elements(view.bars[s]) \/ Pending("bar", s, b)'
      BY <1>1 DEF FeedPage
    <2>1. lost <= base /\ socket.up # "closed" /\ lost' \in Nat /\ base \in Nat
      BY <1>8, FeedKnown
    <2>2. /\ HoldsNewest(view, base) /\ HoldsBars(view, base)
          /\ \A k \in Kinds, s \in Watched :
               Latest(view, k, s) = Latest(session, k, s) \/ Pending(k, s, Latest(session, k, s))
          /\ \A s \in Watched : Len(view.bars[s]) < MaxBars =>
               \A b \in Elements(session.bars[s]) : b \in Elements(view.bars[s]) \/ Pending("bar", s, b)
      BY <2>1 DEF FeedInv, FeedPage
    <2>3. \A k, s : Latest(view, k, s)' = Latest(view, k, s)
      BY <1>1 DEF Latest
    <2>4. ASSUME NEW k \in Kinds, NEW s \in Watched
          PROVE  Latest(view, k, s) = Latest(session, k, s) \/ Pending(k, s, Latest(session, k, s))'
      <3>1. CASE d = 1 /\ Says(queue[1].event, k, s, Latest(session, k, s))
        <4>1. Latest(session, k, s) <= lost' /\ Latest(session, k, s) \in Nat
          BY <1>10, <3>1
        <4>2. Latest(session, k, s) <= base
          BY <2>1, <4>1
        <4> QED  BY <2>2, <4>2 DEF HoldsNewest
      <3>2. CASE ~ (d = 1 /\ Says(queue[1].event, k, s, Latest(session, k, s)))
        BY <1>7, <1>9, <2>1, <2>2, <3>2
      <3> QED  BY <3>1, <3>2
    <2>5. ASSUME NEW s \in Watched, Len(view.bars[s]) < MaxBars, NEW b \in Elements(session.bars[s])
          PROVE  b \in Elements(view.bars[s]) \/ Pending("bar", s, b)'
      <3>1. CASE d = 1 /\ Says(queue[1].event, "bar", s, b)
        <4>1. b <= lost' /\ b \in Nat
          BY <1>10, <3>1 DEF Kinds
        <4>2. b <= base
          BY <2>1, <4>1
        <4> QED  BY <2>2, <2>5, <4>2 DEF HoldsBars
      <3>2. CASE ~ (d = 1 /\ Says(queue[1].event, "bar", s, b))
        BY <1>9, <2>1, <2>2, <2>5, <3>2 DEF Kinds
      <3> QED  BY <3>1, <3>2
    <2>6. HoldsNewest(view, base)' /\ HoldsBars(view, base)'
      BY <1>1, <1>13, <2>2
    <2> QED  BY <1>7, <2>3, <2>4, <2>5, <2>6
  <1> QED  BY <1>11, <1>12, <1>15, <1>16, <1>17, <1>18, <1>19, <1>20, <1>21 DEF FeedInv

-----------------------------------------------------------------------------
(* The connection and the page.                                            *)

\* What a step keeps that leaves the session and the numbers alone.
LEMMA StatesKept ==
    ASSUME UNCHANGED <<session, sequence>>
    PROVE  /\ \A k, s : Latest(session, k, s)' = Latest(session, k, s)
           /\ \A x : Numbered(x) => Numbered(x)'
           /\ \A x : WithinBars(x) => WithinBars(x)'
           /\ \A state, n : HoldsNewest(state, n) => HoldsNewest(state, n)'
           /\ \A state, n : HoldsBars(state, n) => HoldsBars(state, n)'
           /\ \A state : Within(state) => Within(state)'
           /\ \A shot : Faithful(shot) => Faithful(shot)'
  BY DEF Latest, Numbered, WithinBars, HoldsNewest, HoldsBars, Within, Faithful

\* A closed connection brings nothing.
LEMMA ClosedStep ==
    ASSUME FeedInv, FeedAssumption, socket' \in [id : 0 .. MaxSockets, up : {"closed", "subscribed"}],
           subscriber' = (IF socket'.up = "closed" THEN 0 ELSE socket'.id), queue' = <<>>, wire' = <<>>,
           UNCHANGED <<session, sequence, busy, response, view, applied, base, lost>>
    PROVE  FeedInv'
  <1>1. /\ queue' \in Seq(Message) /\ Len(queue') = 0 /\ socket'.up # "open"
        /\ socket' \in [id : 0 .. MaxSockets, up : {"closed", "subscribed", "open"}]
    OBVIOUS
  <1>2. FeedTyped' /\ FeedWire' /\ FeedPlaces' /\ FeedBars'
    <2>1. FeedTyped'
      BY <1>1, FeedKnown DEF FeedInv, FeedTyped
    <2>2. FeedPlaces'
      BY DEF FeedInv, FeedPlaces, FeederPlace, SelectorPlace
    <2> QED  BY <2>1, <2>2 DEF FeedInv, FeedWire, FeedBars
  <1>3. \A i \in 1 .. Len(queue') : FALSE
    BY <1>1
  <1>4. FeedNumbers'
    <2>1. (busy[Feeder].out # <<>> => Numbered(busy[Feeder].out[1]))'
      BY DEF FeedInv, FeedNumbers, Numbered, Latest
    <2>2. \A k \in Kinds : \A s, v : Waits(k, s, v)' <=> Waits(k, s, v)
      BY DEF Waits
    <2> QED  BY <1>3, <2>1, <2>2, StatesKept DEF FeedInv, FeedNumbers
  <1>5. FeedOrder' /\ FeedFollows'
    BY <1>3 DEF FeedOrder, FeedFollows
  <1>6. FeedReaches' /\ FeedPage'
    BY <1>1 DEF FeedReaches, FeedPage
  <1>7. FeedShots'
    BY StatesKept DEF FeedInv, FeedShots
  <1>8. FeedWithin'
    <2>1. (busy[Feeder].out # <<>> => WithinBars(busy[Feeder].out[1]))'
      BY DEF FeedInv, FeedWithin, WithinBars
    <2>2. Within(view)'
      BY DEF FeedInv, FeedWithin, Within
    <2> QED  BY <1>3, <2>1, <2>2 DEF FeedWithin
  <1> QED  BY <1>2, <1>4, <1>5, <1>6, <1>7, <1>8 DEF FeedInv

LEMMA ConnectStep ==
    ASSUME FeedInv, FeedAssumption, Connect
    PROVE  FeedInv'
  <1>1. /\ socket.up = "closed" /\ socket.id < MaxSockets /\ socket' = [id |-> socket.id + 1, up |-> "subscribed"]
        /\ subscriber' = socket.id + 1 /\ queue' = <<>>
        /\ UNCHANGED <<session, sequence, busy, wire, response, view, applied, base, lost>>
    BY DEF Connect, NewSubscriber
  <1>2. wire' = <<>>
    BY <1>1 DEF FeedInv, FeedWire
  <1>3. socket.id + 1 \in 0 .. MaxSockets
    <2>1. socket.id \in 0 .. MaxSockets /\ MaxSockets \in Nat
      BY DEF FeedInv, FeedTyped, FeedAssumption
    <2> QED  BY <1>1, <2>1
  <1> QED  BY <1>1, <1>2, <1>3, ClosedStep

LEMMA DisconnectStep ==
    ASSUME FeedInv, FeedAssumption, Disconnect
    PROVE  FeedInv'
  <1>1. socket \in [id : 0 .. MaxSockets, up : {"closed", "subscribed", "open"}]
    BY DEF FeedInv, FeedTyped
  <1>2. /\ socket' = [socket EXCEPT !.up = "closed"] /\ subscriber' = 0 /\ queue' = <<>> /\ wire' = <<>>
        /\ UNCHANGED <<session, sequence, busy, response, view, applied, base, lost>>
    BY DEF Disconnect, Nothing
  <1>3. socket' \in [id : 0 .. MaxSockets, up : {"closed", "subscribed"}] /\ socket'.up = "closed"
    BY <1>1, <1>2
  <1> QED  BY <1>2, <1>3, ClosedStep

\* A snapshot brings what the session has.
LEMMA SendStep ==
    ASSUME FeedInv, FeedAssumption, SendSnapshot
    PROVE  FeedInv'
  <1>1. /\ socket.up = "subscribed" /\ socket' = [socket EXCEPT !.up = "open"] /\ wire' = <<Snapshot>>
        /\ UNCHANGED <<session, sequence, subscriber, busy, queue, response, view, applied, base, lost>>
    BY DEF SendSnapshot
  <1>2. Snapshot \in Shot /\ Snapshot.seq = sequence /\ Faithful(Snapshot)
    BY SnapshotFaithful DEF Snapshot
  <1>3. PICK w \in Shot : w = Snapshot /\ w.seq = sequence /\ Faithful(w)
    BY <1>2
  <1>4. wire' = <<w>> /\ wire' # <<>> /\ wire'[1] = w
    BY <1>1, <1>3
  <1>5. /\ socket' \in [id : 0 .. MaxSockets, up : {"closed", "subscribed", "open"}]
        /\ socket'.id = socket.id /\ socket'.up = "open"
    BY <1>1 DEF FeedInv, FeedTyped
  <1>6. \A k \in Kinds : \A s, v : /\ Pending(k, s, v)' <=> Pending(k, s, v)
                                   /\ Waits(k, s, v)' <=> Waits(k, s, v)
    BY <1>1, <1>5 DEF Pending, Waits, Flies, Queued
  <1>7. FeedTyped' /\ FeedWire' /\ FeedPlaces' /\ FeedBars'
    <2>1. FeedTyped'
      BY <1>1, <1>5 DEF FeedInv, FeedTyped
    <2>2. FeedWire'
      <3>1. w.seq <= sequence
        BY <1>3, FeedKnown
      <3> QED  BY <1>1, <1>4, <1>5, <3>1 DEF FeedWire
    <2>3. FeedPlaces'
      BY <1>1 DEF FeedInv, FeedPlaces, FeederPlace, SelectorPlace
    <2> QED  BY <1>1, <2>1, <2>2, <2>3 DEF FeedInv, FeedBars
  <1>8. FeedNumbers' /\ FeedOrder'
    <2>1. (busy[Feeder].out # <<>> => Numbered(busy[Feeder].out[1]))'
      BY <1>1 DEF FeedInv, FeedNumbers, Numbered, Latest
    <2>2. (\A i \in 1 .. Len(queue) : Numbered(queue[i]))'
      BY <1>1 DEF FeedInv, FeedNumbers, Numbered, Latest
    <2>3. FeedNumbers'
      BY <1>1, <1>6, <2>1, <2>2, StatesKept DEF FeedInv, FeedNumbers
    <2> QED  BY <1>1, <2>3 DEF FeedInv, FeedOrder
  <1>9. FeedFollows'
    BY <1>1, <1>6, StatesKept DEF FeedInv, FeedFollows
  <1>10. FeedReaches'
    <2>1. Start' = sequence
      BY <1>3, <1>4 DEF Start
    <2>2. ASSUME NEW k \in Kinds, NEW s \in Watched, Latest(session, k, s) > sequence
          PROVE  Pending(k, s, Latest(session, k, s))
      <3>1. ~ (Latest(session, k, s) <= sequence)
        BY <2>2, FeedKnown
      <3> QED  BY <3>1 DEF FeedInv, FeedNumbers, Pending
    <2>3. ASSUME NEW s \in Watched, NEW b \in Elements(session.bars[s]), b > sequence
          PROVE  Pending("bar", s, b)
      <3>1. /\ b \in Nat /\ b <= Latest(session, "bar", s)
            /\ Latest(session, "bar", s) \in Nat /\ sequence \in Nat
        BY NewestBar, FeedKnown DEF Kinds
      <3>2. Latest(session, "bar", s) > sequence /\ Latest(session, "bar", s) <= sequence + 1
        BY <2>3, <3>1 DEF FeedInv, FeedNumbers, Kinds
      <3>3. b = Latest(session, "bar", s)
        BY <2>3, <3>1, <3>2
      <3> QED  BY <2>2, <3>2, <3>3 DEF Kinds
    <2>4. \A k \in Kinds, s \in Watched :
             Latest(session, k, s)' > sequence => Pending(k, s, Latest(session, k, s))'
      BY <1>1, <1>6, <2>2, StatesKept
    <2>5. \A s \in Watched : \A b \in Elements(session.bars[s]) : b > sequence => Pending("bar", s, b)'
      BY <1>6, <2>3 DEF Kinds
    <2> QED  BY <1>1, <2>1, <2>4, <2>5 DEF FeedReaches
  <1>11. FeedShots'
    <2>1. Faithful(w)'
      BY <1>1, <1>3, StatesKept
    <2> QED  BY <1>1, <1>4, <2>1, StatesKept DEF FeedInv, FeedShots
  <1>12. FeedWithin' /\ FeedPage'
    <2>1. (busy[Feeder].out # <<>> => WithinBars(busy[Feeder].out[1]))'
      BY <1>1 DEF FeedInv, FeedWithin, WithinBars
    <2>2. (\A i \in 1 .. Len(queue) : WithinBars(queue[i]))'
      BY <1>1 DEF FeedInv, FeedWithin, WithinBars
    <2>3. Within(view)'
      BY <1>1 DEF FeedInv, FeedWithin, Within
    <2> QED  BY <1>4, <2>1, <2>2, <2>3 DEF FeedWithin, FeedPage
  <1> QED  BY <1>7, <1>8, <1>9, <1>10, <1>11, <1>12 DEF FeedInv

\* The page adopts a snapshot: of what is newer, a page that lost nothing has all on its way.
LEMMA AdoptStep ==
    ASSUME FeedInv, FeedAssumption, NEW r \in Shot, r.seq <= sequence, Faithful(r), Adopt(r),
           lost' \in 0 .. sequence, lost <= lost',
           socket.up = "open" /\ wire' = <<>> /\ lost' <= r.seq => Start <= r.seq,
           \A n \in Nat : n > lost' /\ n > Start' => n > Start,
           wire' = wire \/ wire' = <<>>, response' \subseteq response,
           UNCHANGED <<session, sequence, subscriber, busy, queue, socket>>
    PROVE  FeedInv'
  <1>1. view' = r.state /\ applied' = r.seq /\ base' = r.seq
    BY DEF Adopt
  <1>2. r.state \in Views /\ r.seq \in Nat /\ Within(r.state)
    BY DEF Shot, Faithful
  <1>3. \A k \in Kinds : \A s, v : /\ Pending(k, s, v)' <=> Pending(k, s, v)
                                   /\ Waits(k, s, v)' <=> Waits(k, s, v)
    BY DEF Pending, Waits, Flies, Queued
  <1>4. FeedTyped' /\ FeedWire' /\ FeedPlaces' /\ FeedBars'
    <2>1. FeedTyped'
      BY <1>1, <1>2, FeedKnown DEF FeedInv, FeedTyped
    <2>2. FeedPlaces'
      BY DEF FeedInv, FeedPlaces, FeederPlace, SelectorPlace
    <2>3. FeedWire'
      BY DEF FeedInv, FeedWire
    <2> QED  BY <2>1, <2>2, <2>3 DEF FeedInv, FeedBars
  <1>5. FeedNumbers' /\ FeedOrder'
    <2>1. (busy[Feeder].out # <<>> => Numbered(busy[Feeder].out[1]))'
      BY DEF FeedInv, FeedNumbers, Numbered, Latest
    <2>2. (\A i \in 1 .. Len(queue) : Numbered(queue[i]))'
      BY DEF FeedInv, FeedNumbers, Numbered, Latest
    <2>3. FeedNumbers'
      BY <1>3, <2>1, <2>2, StatesKept DEF FeedInv, FeedNumbers
    <2> QED  BY <2>3 DEF FeedInv, FeedOrder
  <1>6. FeedFollows'
    BY <1>3, StatesKept DEF FeedInv, FeedFollows
  <1>7. /\ lost \in Nat /\ lost' \in Nat
        /\ \A n \in Nat : n > lost' => n > lost
    BY FeedKnown
  <1>8. FeedReaches'
    <2> SUFFICES ASSUME socket.up = "open"
                 PROVE  /\ \A k \in Kinds, s \in Watched :
                             Latest(session, k, s)' > lost' /\ Latest(session, k, s)' > Start'
                                => Pending(k, s, Latest(session, k, s))'
                        /\ \A s \in Watched : \A b \in Elements(session.bars[s]) :
                             b > lost' /\ b > Start' => Pending("bar", s, b)'
      BY DEF FeedReaches
    <2>1. /\ \A k \in Kinds, s \in Watched :
               Latest(session, k, s) > lost /\ Latest(session, k, s) > Start
                  => Pending(k, s, Latest(session, k, s))
          /\ \A s \in Watched : \A b \in Elements(session.bars[s]) :
               b > lost /\ b > Start => Pending("bar", s, b)
      BY DEF FeedInv, FeedReaches
    <2>2. \A k \in Kinds, s \in Watched :
             Latest(session, k, s)' > lost' /\ Latest(session, k, s)' > Start'
                => Pending(k, s, Latest(session, k, s))'
      BY <1>3, <1>7, <2>1, FeedKnown, StatesKept
    <2>3. ASSUME NEW s \in Watched, NEW b \in Elements(session.bars[s]), b > lost', b > Start'
          PROVE  Pending("bar", s, b)'
      <3>1. b \in Nat
        BY NewestBar
      <3> QED  BY <1>3, <1>7, <2>1, <2>3, <3>1 DEF Kinds
    <2> QED  BY <2>2, <2>3
  <1>9. FeedShots'
    BY StatesKept DEF FeedInv, FeedShots
  <1>10. FeedWithin'
    <2>1. (busy[Feeder].out # <<>> => WithinBars(busy[Feeder].out[1]))'
      BY DEF FeedInv, FeedWithin, WithinBars
    <2>2. (\A i \in 1 .. Len(queue) : WithinBars(queue[i]))'
      BY DEF FeedInv, FeedWithin, WithinBars
    <2>3. Within(view)'
      BY <1>1, <1>2 DEF Within
    <2> QED  BY <2>1, <2>2, <2>3 DEF FeedWithin
  <1>11. FeedPage'
    <2> SUFFICES ASSUME socket.up = "open", wire' = <<>>, lost' <= r.seq
                 PROVE  /\ HoldsNewest(view, base)' /\ HoldsBars(view, base)'
                        /\ \A k \in Kinds, s \in Watched :
                             Latest(view, k, s)' = Latest(session, k, s)' \/ Pending(k, s, Latest(session, k, s))'
                        /\ \A s \in Watched : Len(view'.bars[s]) < MaxBars =>
                             \A b \in Elements(session.bars[s]) : b \in Elements(view'.bars[s]) \/ Pending("bar", s, b)'
      BY <1>1 DEF FeedPage
    <2>1. /\ \A k \in Kinds, s \in Watched :
               Latest(session, k, s) > lost /\ Latest(session, k, s) > Start
                  => Pending(k, s, Latest(session, k, s))
          /\ \A s \in Watched : \A b \in Elements(session.bars[s]) :
               b > lost /\ b > Start => Pending("bar", s, b)
      BY DEF FeedInv, FeedReaches
    <2>2. \A n \in Nat : n <= r.seq \/ (n > lost /\ n > Start)
      <3>1. Start \in Nat /\ Start <= r.seq /\ lost <= r.seq
        <4>1. Start \in Nat
          <5>1. CASE wire = <<>>
            BY <5>1, FeedKnown DEF Start
          <5>2. CASE wire # <<>>
            <6>1. PICK y \in Shot : wire = <<y>>
              BY <5>2 DEF FeedInv, FeedWire
            <6> QED  BY <5>2, <6>1 DEF Start, Shot
          <5> QED  BY <5>1, <5>2
        <4>2. lost <= r.seq
          BY <1>2, <1>7
        <4> QED  BY <4>1, <4>2
      <3> QED  BY <1>2, <1>7, <3>1
    <2>3. HoldsNewest(r.state, r.seq) /\ HoldsBars(r.state, r.seq)
      BY DEF Faithful
    <2>4. HoldsNewest(view, base)' /\ HoldsBars(view, base)'
      BY <1>1, <2>3 DEF HoldsNewest, HoldsBars, Latest
    <2>5. \A k, s : Latest(view, k, s)' = Latest(r.state, k, s)
      BY <1>1 DEF Latest
    <2>6. \A k \in Kinds, s \in Watched :
             Latest(view, k, s)' = Latest(session, k, s)' \/ Pending(k, s, Latest(session, k, s))'
      <3> TAKE k \in Kinds, s \in Watched
      <3>1. CASE Latest(session, k, s) <= r.seq
        BY <2>3, <2>5, <3>1, StatesKept DEF HoldsNewest
      <3>2. CASE ~ (Latest(session, k, s) <= r.seq)
        BY <1>3, <2>1, <2>2, <3>2, FeedKnown, StatesKept
      <3> QED  BY <3>1, <3>2
    <2>7. ASSUME NEW s \in Watched, Len(view'.bars[s]) < MaxBars, NEW b \in Elements(session.bars[s])
          PROVE  b \in Elements(view'.bars[s]) \/ Pending("bar", s, b)'
      <3>1. b \in Nat
        BY NewestBar
      <3>2. CASE b <= r.seq
        BY <1>1, <2>3, <2>7, <3>2 DEF HoldsBars
      <3>3. CASE ~ (b <= r.seq)
        BY <1>3, <2>1, <2>2, <3>1, <3>3 DEF Kinds
      <3> QED  BY <3>2, <3>3
    <2> QED  BY <2>4, <2>6, <2>7
  <1> QED  BY <1>4, <1>5, <1>6, <1>8, <1>9, <1>10, <1>11 DEF FeedInv

LEMMA ReceiveStep ==
    ASSUME FeedInv, FeedAssumption, ReceiveSnapshot
    PROVE  FeedInv'
  <1>1. /\ wire # <<>> /\ Adopt(wire[1]) /\ wire' = <<>>
        /\ UNCHANGED <<session, sequence, subscriber, busy, queue, socket, response, lost>>
    BY DEF ReceiveSnapshot, Nothing
  <1>2. PICK w \in Shot : wire = <<w>> /\ w.seq <= sequence
    BY <1>1 DEF FeedInv, FeedWire
  <1>3. wire[1] = w /\ Faithful(w) /\ Adopt(w)
    BY <1>1, <1>2 DEF FeedInv, FeedShots
  <1>4. applied' = w.seq
    BY <1>3 DEF Adopt
  <1>5. Start = w.seq /\ Start' = w.seq /\ w.seq \in Nat
    BY <1>1, <1>3, <1>4 DEF Start, Shot
  <1>6. lost' \in 0 .. sequence /\ lost <= lost'
    BY <1>1, FeedKnown
  <1>7. Start <= w.seq /\ \A n \in Nat : n > lost' /\ n > Start' => n > Start
    BY <1>5
  <1> QED  BY <1>1, <1>2, <1>3, <1>6, <1>7, AdoptStep

LEMMA ResponseStep ==
    ASSUME FeedInv, FeedAssumption, ApplyResponse
    PROVE  FeedInv'
  <1>1. UNCHANGED <<session, sequence, subscriber, busy, queue, socket, wire>>
    BY DEF ApplyResponse
  <1>2. PICK r \in response : /\ Adopt(r) /\ response' = response \ {r}
                              /\ lost' = IF r.seq < applied THEN Newer(lost, applied) ELSE lost
    BY DEF ApplyResponse
  <1>3. r \in Shot /\ r.seq \in Nat /\ r.seq <= sequence /\ Faithful(r)
    BY <1>2 DEF FeedInv, FeedTyped, FeedShots, Shot
  <1>4. applied' = r.seq
    BY <1>2 DEF Adopt
  <1>5. /\ lost' \in 0 .. sequence /\ lost <= lost' /\ lost' \in Nat
        /\ r.seq < applied => applied <= lost'
    BY <1>2, <1>3, FeedKnown DEF Newer
  <1>6. socket.up = "open" /\ wire' = <<>> /\ lost' <= r.seq => Start <= r.seq
    <2> HAVE wire' = <<>> /\ lost' <= r.seq
    <2>1. Start = applied
      BY <1>1 DEF Start
    <2>2. ~ (r.seq < applied)
      BY <1>3, <1>5, FeedKnown
    <2> QED  BY <1>3, <2>1, <2>2, FeedKnown
  <1>7. ASSUME NEW n \in Nat, n > lost', n > Start'
        PROVE  n > Start
    <2>1. CASE wire = <<>>
      <3>1. Start = applied /\ Start' = r.seq
        BY <1>1, <1>4, <2>1 DEF Start
      <3> QED  BY <1>3, <1>5, <1>7, <3>1, FeedKnown
    <2>2. CASE wire # <<>>
      BY <1>1, <1>7, <2>2 DEF Start
    <2> QED  BY <2>1, <2>2
  <1>8. response' \subseteq response
    BY <1>2
  <1> QED  BY <1>1, <1>2, <1>3, <1>5, <1>6, <1>7, <1>8, AdoptStep

\* The page takes an event from the queue.
LEMMA ApplyStep ==
    ASSUME FeedInv, FeedAssumption, ApplyEvent
    PROVE  FeedInv'
  <1>0. PICK h : h = queue[1]
    OBVIOUS
  <1>1. socket.up = "open" /\ wire = <<>> /\ queue # <<>>
    BY DEF ApplyEvent, Nothing
  <1>2. /\ Len(queue) # 0 /\ 1 \in 1 .. Len(queue) /\ Head(queue) = h
        /\ Tail(queue) \in Seq(Message) /\ Len(Tail(queue)) = Len(queue) - 1
        /\ \A j \in 1 .. Len(queue) - 1 : Tail(queue)[j] = queue[j + 1]
    <2>1. Len(queue) # 0
      BY <1>1, FeedKnown, EmptySeq
    <2> QED  BY <1>0, <1>1, <2>1, FeedKnown, HeadTailProperties
  <1>3. /\ applied' = Newer(applied, h.seq)
        /\ base' = IF h.seq < base THEN h.seq ELSE base
        /\ queue' = Tail(queue)
        /\ UNCHANGED <<session, sequence, subscriber, busy, socket, wire, response, lost>>
        /\ view' = CASE h.event.kind = "active" -> [view EXCEPT !.active = h.event.symbol]
                     [] h.event.kind = "quote" -> [view EXCEPT !.quote[h.event.symbol] = h.event.value]
                     [] h.event.kind = "bar" -> [view EXCEPT !.bars[h.event.symbol] = LastBars(Append(@, h.event.value))]
    BY <1>2 DEF ApplyEvent, BarsShown
  <1>4. /\ h \in Message /\ h.seq \in Nat /\ h.seq <= sequence
        /\ h.event \in FeedEvent \cup ActiveEvent /\ h.event.symbol \in Watched
        /\ h.event.kind \in {"active"} \cup Kinds
        /\ h.event.kind \in Kinds =>
             /\ h.event.value \in Nat /\ h.event.value # 0 /\ h.event.value <= h.seq
             /\ \/ Latest(session, h.event.kind, h.event.symbol) = h.event.value
                \/ Latest(session, h.event.kind, h.event.symbol) > h.seq
             /\ Pending(h.event.kind, h.event.symbol, Latest(session, h.event.kind, h.event.symbol))
    <2>1. h \in Message
      BY <1>0, <1>2, FeedKnown
    <2>2. h.seq \in Nat /\ h.event \in FeedEvent \cup ActiveEvent
      BY <2>1 DEF Message
    <2>3. h.event.symbol \in Watched /\ h.event.kind \in {"active"} \cup Kinds
      BY <2>2 DEF FeedEvent, ActiveEvent
    <2>4. h.seq <= sequence
      BY <1>0, <1>2 DEF FeedInv, FeedNumbers, Numbered
    <2> QED  BY <1>0, <1>2, <2>1, <2>2, <2>3, <2>4, QueueTells
  \* The page's values: the event's datum, and what it had of the others.
  <1>5. /\ view' \in Views
        /\ \A k \in Kinds, s \in Watched :
             \/ h.event.kind = k /\ h.event.symbol = s /\ Latest(view, k, s)' = h.event.value
             \/ ~ (h.event.kind = k /\ h.event.symbol = s) /\ Latest(view, k, s)' = Latest(view, k, s)
        /\ \A s \in Watched :
             /\ Len(view'.bars[s]) <= MaxBars
             /\ \A b \in Elements(view'.bars[s]) :
                  b \in Elements(view.bars[s]) \/ (h.event.kind = "bar" /\ h.event.symbol = s /\ b = h.event.value)
             /\ Len(view'.bars[s]) < MaxBars =>
                  /\ Len(view.bars[s]) < MaxBars
                  /\ Elements(view.bars[s]) \subseteq Elements(view'.bars[s])
                  /\ h.event.kind = "bar" /\ h.event.symbol = s => h.event.value \in Elements(view'.bars[s])
    <2>1. \A s \in Watched : Len(view.bars[s]) <= MaxBars
      BY DEF FeedInv, FeedWithin, Within
    <2>2. CASE h.event.kind = "active"
      <3>1. view' = [view EXCEPT !.active = h.event.symbol]
        BY <1>3, <2>2
      <3>2. view' \in Views /\ view'.quote = view.quote /\ view'.bars = view.bars
        BY <1>4, <3>1, FeedKnown DEF Views
      <3>3. \A k \in Kinds : h.event.kind # k
        BY <2>2 DEF Kinds
      <3>4. \A k, s : Latest(view, k, s)' = Latest(view, k, s)
        BY <3>2 DEF Latest
      <3> QED  BY <2>1, <2>2, <3>2, <3>3, <3>4
    <2>3. CASE h.event.kind = "quote"
      <3>1. view' = [view EXCEPT !.quote[h.event.symbol] = h.event.value]
        BY <1>3, <2>3
      <3>2. h.event.value \in Nat
        BY <1>4, <2>3 DEF Kinds
      <3>3. /\ view' \in Views /\ view'.bars = view.bars /\ view'.quote[h.event.symbol] = h.event.value
            /\ \A s \in Watched : s # h.event.symbol => view'.quote[s] = view.quote[s]
        BY <1>4, <3>1, <3>2, FeedKnown DEF Views
      <3>4. \A k \in Kinds, s \in Watched :
              \/ h.event.kind = k /\ h.event.symbol = s /\ Latest(view, k, s)' = h.event.value
              \/ ~ (h.event.kind = k /\ h.event.symbol = s) /\ Latest(view, k, s)' = Latest(view, k, s)
        BY <2>3, <3>3 DEF Latest
      <3> QED  BY <2>1, <2>3, <3>3, <3>4
    <2>4. CASE h.event.kind = "bar"
      <3>1. PICK old, new, v : /\ old = view.bars[h.event.symbol] /\ v = h.event.value
                             /\ new = LastBars(Append(old, v))
        OBVIOUS
      <3>2. view' = [view EXCEPT !.bars[h.event.symbol] = new]
        BY <1>3, <2>4, <3>1
      <3>3. h.event.value \in Nat /\ old \in Seq(Nat) /\ Len(old) <= MaxBars
        BY <1>4, <2>1, <2>4, <3>1, FeedKnown, LatestTyped DEF Kinds
      <3>4. /\ new \in Seq(Nat) /\ Len(new) <= MaxBars /\ Last(new) = v
            /\ v \in Elements(new) /\ Elements(new) \subseteq Elements(old) \cup {v}
            /\ Len(new) < MaxBars => Len(old) < MaxBars /\ Elements(new) = Elements(old) \cup {v}
        <4>1. v \in Nat /\ old \in Seq(Nat) /\ Len(old) <= MaxBars /\ new = LastBars(Append(old, v))
          BY <3>1, <3>3
        <4> QED  BY <4>1, BarAdded
      <3>5. /\ view' \in Views /\ view'.quote = view.quote /\ view'.bars[h.event.symbol] = new
            /\ \A s \in Watched : s # h.event.symbol => view'.bars[s] = view.bars[s]
        BY <1>4, <3>2, <3>4, FeedKnown DEF Views
      <3>6. \A k \in Kinds, s \in Watched :
              \/ h.event.kind = k /\ h.event.symbol = s /\ Latest(view, k, s)' = h.event.value
              \/ ~ (h.event.kind = k /\ h.event.symbol = s) /\ Latest(view, k, s)' = Latest(view, k, s)
        BY <2>4, <3>1, <3>4, <3>5 DEF Latest, Kinds
      <3>7. \A s \in Watched :
              /\ Len(view'.bars[s]) <= MaxBars
              /\ \A b \in Elements(view'.bars[s]) :
                   b \in Elements(view.bars[s]) \/ (h.event.kind = "bar" /\ h.event.symbol = s /\ b = h.event.value)
              /\ Len(view'.bars[s]) < MaxBars =>
                   /\ Len(view.bars[s]) < MaxBars
                   /\ Elements(view.bars[s]) \subseteq Elements(view'.bars[s])
                   /\ h.event.kind = "bar" /\ h.event.symbol = s => h.event.value \in Elements(view'.bars[s])
        <4> TAKE s \in Watched
        <4>1. CASE s = h.event.symbol
          BY <2>4, <3>1, <3>4, <3>5, <4>1
        <4>2. CASE s # h.event.symbol
          <5>1. view'.bars[s] = view.bars[s]
            BY <3>5, <4>2
          <5> QED  BY <2>1, <4>2, <5>1
        <4> QED  BY <4>1, <4>2
      <3> QED  BY <3>5, <3>6, <3>7
    <2> QED  BY <1>4, <2>2, <2>3, <2>4 DEF Kinds
  <1>6. \A k, s : Latest(session, k, s)' = Latest(session, k, s)
    BY <1>3, StatesKept
  <1>7. /\ queue' \in Seq(Message) /\ Len(queue') = Len(queue) - 1 /\ Len(queue') \in Nat
        /\ \A j \in 1 .. Len(queue') : j + 1 \in 2 .. Len(queue) /\ j + 1 \in 1 .. Len(queue) /\ queue'[j] = queue[j + 1]
        /\ \A i \in 1 .. Len(queue) : i = 1 \/ (i - 1 \in 1 .. Len(queue') /\ queue'[i - 1] = queue[i])
    <2>1. queue' \in Seq(Message) /\ Len(queue') = Len(queue) - 1 /\ Len(queue') \in Nat
      BY <1>2, <1>3, FeedKnown
    <2>2. \A j \in 1 .. Len(queue) - 1 : queue'[j] = queue[j + 1]
      BY <1>2, <1>3
    <2>3. ASSUME NEW j \in 1 .. Len(queue')
          PROVE  j + 1 \in 2 .. Len(queue) /\ j + 1 \in 1 .. Len(queue) /\ queue'[j] = queue[j + 1]
      <3>1. j \in 1 .. Len(queue) - 1 /\ j + 1 \in 2 .. Len(queue) /\ j + 1 \in 1 .. Len(queue)
        BY <2>1, FeedKnown
      <3> QED  BY <2>2, <3>1
    <2>4. ASSUME NEW i \in 1 .. Len(queue), i # 1
          PROVE  i - 1 \in 1 .. Len(queue') /\ queue'[i - 1] = queue[i]
      <3>1. i - 1 \in 1 .. Len(queue) - 1 /\ i - 1 \in 1 .. Len(queue') /\ (i - 1) + 1 = i
        BY <2>1, <2>4, FeedKnown
      <3> QED  BY <2>2, <3>1
    <2> QED  BY <2>1, <2>3, <2>4
  \* What was on its way is still, but for the event the page took.
  <1>8. \A k \in Kinds : \A s, v : Pending(k, s, v) => Pending(k, s, v)' \/ Says(h.event, k, s, v)
    <2> TAKE k \in Kinds
    <2> TAKE s, v
    <2>1. CASE Waits(k, s, v) \/ Flies(k, s, v)
      BY <1>3, <2>1 DEF Waits, Flies, Pending
    <2>2. CASE Queued(k, s, v)
      <3>1. PICK i \in 1 .. Len(queue) : Says(queue[i].event, k, s, v)
        BY <2>2 DEF Queued
      <3>2. CASE i = 1
        BY <1>0, <3>1, <3>2
      <3>3. CASE i - 1 \in 1 .. Len(queue') /\ queue'[i - 1] = queue[i]
        <4>1. Says(queue'[i - 1].event, k, s, v)
          BY <3>1, <3>3
        <4> QED  BY <3>3, <4>1 DEF Queued, Pending
      <3> QED  BY <1>7, <3>2, <3>3
    <2> QED  BY <2>1, <2>2 DEF Pending
  \* The page's numbers.
  <1>9. /\ applied' \in 0 .. sequence /\ base' \in 0 .. sequence
        /\ applied <= applied' /\ h.seq <= applied' /\ base' <= base /\ base' <= h.seq
        /\ applied' \in Nat /\ base' \in Nat
    BY <1>3, <1>4, FeedKnown DEF Newer
  <1>10. FeedTyped' /\ FeedWire' /\ FeedPlaces' /\ FeedBars'
    <2>1. FeedTyped'
      <3>1. Len(queue) <= MaxQueue
        BY DEF FeedInv, FeedTyped
      <3>2. Len(queue') <= MaxQueue
        BY <1>7, <3>1, FeedKnown
      <3> QED  BY <1>3, <1>5, <1>7, <1>9, <3>2, FeedKnown DEF FeedInv, FeedTyped
    <2>2. FeedPlaces'
      BY <1>3 DEF FeedInv, FeedPlaces, FeederPlace, SelectorPlace
    <2>3. FeedWire'
      BY <1>1, <1>3 DEF FeedWire
    <2> QED  BY <1>3, <2>1, <2>2, <2>3 DEF FeedInv, FeedBars
  <1>11. FeedNumbers'
    <2>1. (busy[Feeder].out # <<>> => Numbered(busy[Feeder].out[1]))'
      BY <1>3 DEF FeedInv, FeedNumbers, Numbered, Latest
    <2>2. \A j \in 1 .. Len(queue') : Numbered(queue'[j])
      BY <1>7 DEF FeedInv, FeedNumbers
    <2>3. (\A i \in 1 .. Len(queue) : Numbered(queue[i]))'
      BY <1>3, <2>2 DEF Numbered, Latest
    <2>4. \A k \in Kinds : \A s, v : Waits(k, s, v)' <=> Waits(k, s, v)
      BY <1>3 DEF Waits
    <2> QED  BY <1>3, <1>6, <2>1, <2>3, <2>4 DEF FeedInv, FeedNumbers
  <1>12. FeedOrder'
    <2> SUFFICES ASSUME NEW j \in 1 .. Len(queue'), queue'[j].event.kind \in Kinds
                 PROVE  /\ \A l \in 1 .. Len(queue') :
                             j < l /\ queue'[l].event.kind \in Kinds => queue'[j].event.value < queue'[l].event.value
                        /\ busy[Feeder].todo # <<>> /\ busy[Feeder].todo[1].kind \in Kinds
                             => queue'[j].event.value < busy[Feeder].todo[1].value
                        /\ busy[Feeder].out # <<>> /\ busy[Feeder].out[1].event.kind \in Kinds
                             => queue'[j].event.value < busy[Feeder].out[1].event.value
      BY <1>3 DEF FeedOrder
    <2>1. j + 1 \in 1 .. Len(queue) /\ queue'[j] = queue[j + 1]
      BY <1>7
    <2>2. ASSUME NEW l \in 1 .. Len(queue'), j < l, queue'[l].event.kind \in Kinds
          PROVE  queue'[j].event.value < queue'[l].event.value
      <3>1. l + 1 \in 1 .. Len(queue) /\ queue'[l] = queue[l + 1] /\ j + 1 < l + 1
        BY <1>7, <2>2
      <3> QED  BY <2>1, <2>2, <3>1 DEF FeedInv, FeedOrder
    <2> QED  BY <2>1, <2>2 DEF FeedInv, FeedOrder
  <1>13. FeedFollows'
    <2> SUFFICES ASSUME NEW j \in 1 .. Len(queue'), NEW e, e = queue'[j].event, e.kind \in Kinds
                 PROVE  Pending(e.kind, e.symbol, Latest(session, e.kind, e.symbol))'
      BY DEF FeedFollows
    <2>1. j + 1 \in 2 .. Len(queue) /\ j + 1 \in 1 .. Len(queue) /\ queue'[j] = queue[j + 1]
      BY <1>7
    <2>2. Pending(e.kind, e.symbol, Latest(session, e.kind, e.symbol))
      BY <2>1, QueueTells
    <2>3. ~ Says(h.event, e.kind, e.symbol, Latest(session, e.kind, e.symbol))
      BY <1>0, <2>1, HeadIsOld
    <2> QED  BY <1>6, <1>8, <2>2, <2>3
  <1>14. FeedReaches'
    <2>1. Start = applied /\ Start' = applied'
      BY <1>1, <1>3 DEF Start
    <2>2. /\ \A k \in Kinds, s \in Watched :
               Latest(session, k, s) > lost /\ Latest(session, k, s) > applied
                  => Pending(k, s, Latest(session, k, s))
          /\ \A s \in Watched : \A b \in Elements(session.bars[s]) :
               b > lost /\ b > applied => Pending("bar", s, b)
      BY <1>1, <2>1 DEF FeedInv, FeedReaches
    <2>3. ASSUME NEW k \in Kinds, NEW s \in Watched, NEW v \in Nat, v > applied'
          PROVE  v > applied /\ ~ Says(h.event, k, s, v)
      <3>1. v > applied /\ v > h.seq
        <4>1. applied \in Nat /\ applied' \in Nat /\ h.seq \in Nat /\ applied <= applied' /\ h.seq <= applied'
          BY <1>4, <1>9, FeedKnown
        <4> QED  BY <2>3, <4>1
      <3>2. ~ Says(h.event, k, s, v)
        BY <1>4, <3>1 DEF Says
      <3> QED  BY <3>1, <3>2
    <2>4. \A k \in Kinds, s \in Watched :
             Latest(session, k, s)' > lost /\ Latest(session, k, s)' > applied'
                => Pending(k, s, Latest(session, k, s))'
      BY <1>6, <1>8, <2>2, <2>3, FeedKnown
    <2>5. ASSUME NEW s \in Watched, NEW b \in Elements(session.bars[s]), b > lost, b > applied'
          PROVE  Pending("bar", s, b)'
      <3>1. b \in Nat
        BY NewestBar
      <3>2. b > applied /\ ~ Says(h.event, "bar", s, b)
        BY <2>3, <2>5, <3>1 DEF Kinds
      <3> QED  BY <1>8, <2>2, <2>5, <3>2 DEF Kinds
    <2> QED  BY <1>3, <2>1, <2>4, <2>5 DEF FeedReaches
  <1>15. FeedShots'
    BY <1>3, StatesKept DEF FeedInv, FeedShots
  <1>16. FeedWithin'
    <2>1. (busy[Feeder].out # <<>> => WithinBars(busy[Feeder].out[1]))'
      BY <1>3 DEF FeedInv, FeedWithin, WithinBars
    <2>2. \A j \in 1 .. Len(queue') : WithinBars(queue'[j])
      BY <1>7 DEF FeedInv, FeedWithin
    <2>3. (\A i \in 1 .. Len(queue) : WithinBars(queue[i]))'
      BY <1>3, <2>2 DEF WithinBars
    <2>4. WithinBars(h)
      BY <1>0, <1>2 DEF FeedInv, FeedWithin
    <2>5. Within(view)'
      <3>1. Within(view)
        BY DEF FeedInv, FeedWithin
      <3>2. ASSUME NEW s \in Watched
            PROVE  /\ Len(view'.bars[s]) <= MaxBars
                   /\ Len(session.bars[s]) < MaxBars => Elements(view'.bars[s]) \subseteq Elements(session.bars[s])
        BY <1>5, <2>4, <3>1 DEF Within, WithinBars
      <3> QED  BY <1>3, <3>2 DEF Within
    <2> QED  BY <2>1, <2>3, <2>5 DEF FeedWithin
  <1>17. FeedPage'
    <2> SUFFICES ASSUME lost <= base'
                 PROVE  /\ HoldsNewest(view, base)' /\ HoldsBars(view, base)'
                        /\ \A k \in Kinds, s \in Watched :
                             Latest(view, k, s)' = Latest(session, k, s)' \/ Pending(k, s, Latest(session, k, s))'
                        /\ \A s \in Watched : Len(view'.bars[s]) < MaxBars =>
                             \A b \in Elements(session.bars[s]) : b \in Elements(view'.bars[s]) \/ Pending("bar", s, b)'
      BY <1>3 DEF FeedPage
    <2>1. lost <= base
      BY <1>9, FeedKnown
    <2>2. /\ HoldsNewest(view, base) /\ HoldsBars(view, base)
          /\ \A k \in Kinds, s \in Watched :
               Latest(view, k, s) = Latest(session, k, s) \/ Pending(k, s, Latest(session, k, s))
          /\ \A s \in Watched : Len(view.bars[s]) < MaxBars =>
               \A b \in Elements(session.bars[s]) : b \in Elements(view.bars[s]) \/ Pending("bar", s, b)
      BY <1>1, <2>1 DEF FeedInv, FeedPage
    <2>3. ASSUME NEW k \in Kinds, NEW s \in Watched, Latest(session, k, s) <= base'
          PROVE  Latest(view, k, s)' = Latest(session, k, s)
      <3>1. Latest(session, k, s) \in Nat /\ Latest(session, k, s) <= base /\ ~ (Latest(session, k, s) > h.seq)
        <4>1. Latest(session, k, s) \in Nat /\ base \in Nat
          BY FeedKnown
        <4>2. base' \in Nat /\ base' <= base /\ base' <= h.seq /\ h.seq \in Nat
          BY <1>4, <1>9
        <4> QED  BY <2>3, <4>1, <4>2
      <3>2. CASE h.event.kind = k /\ h.event.symbol = s /\ Latest(view, k, s)' = h.event.value
        BY <1>4, <3>1, <3>2
      <3>3. CASE Latest(view, k, s)' = Latest(view, k, s)
        BY <2>2, <3>1, <3>3 DEF HoldsNewest
      <3> QED  BY <1>5, <3>2, <3>3
    <2>4. HoldsNewest(view, base)'
      BY <1>6, <2>3 DEF HoldsNewest
    <2>5. HoldsBars(view, base)'
      <3>1. ASSUME NEW s \in Watched, Len(view'.bars[s]) < MaxBars, NEW b \in Elements(session.bars[s]), b <= base'
            PROVE  b \in Elements(view'.bars[s])
        <4>1. b <= base
          <5>1. b \in Nat
            BY NewestBar
          <5> QED  BY <1>9, <3>1, <5>1, FeedKnown
        <4> QED  BY <1>5, <2>2, <3>1, <4>1 DEF HoldsBars
      <3> QED  BY <1>3, <3>1 DEF HoldsBars
    <2>6. ASSUME NEW k \in Kinds, NEW s \in Watched
          PROVE  Latest(view, k, s)' = Latest(session, k, s) \/ Pending(k, s, Latest(session, k, s))'
      <3>1. CASE h.event.kind = k /\ h.event.symbol = s /\ Latest(view, k, s)' = h.event.value
        <4>1. Pending(k, s, Latest(session, k, s))
          BY <1>4, <3>1
        <4> QED  BY <1>6, <1>8, <3>1, <4>1 DEF Says
      <3>2. CASE ~ (h.event.kind = k /\ h.event.symbol = s) /\ Latest(view, k, s)' = Latest(view, k, s)
        <4>1. ~ Says(h.event, k, s, Latest(session, k, s))
          BY <3>2 DEF Says
        <4> QED  BY <1>6, <1>8, <2>2, <3>2, <4>1
      <3> QED  BY <1>5, <3>1, <3>2
    <2>7. ASSUME NEW s \in Watched, Len(view'.bars[s]) < MaxBars, NEW b \in Elements(session.bars[s])
          PROVE  b \in Elements(view'.bars[s]) \/ Pending("bar", s, b)'
      <3>1. CASE Says(h.event, "bar", s, b)
        BY <1>5, <2>7, <3>1 DEF Says
      <3>2. CASE ~ Says(h.event, "bar", s, b)
        BY <1>5, <1>8, <2>2, <2>7, <3>2 DEF Kinds
      <3> QED  BY <3>1, <3>2
    <2> QED  BY <1>6, <2>4, <2>5, <2>6, <2>7
  <1> QED  BY <1>10, <1>11, <1>12, <1>13, <1>14, <1>15, <1>16, <1>17 DEF FeedInv

LEMMA FeedStart ==
    ASSUME FeedInit, FeedAssumption
    PROVE  FeedInv
  <1>1. /\ session = Blank /\ sequence = 0 /\ subscriber = 0 /\ busy = [t \in FeedThreads |-> Quiet] /\ queue = <<>>
        /\ socket = [id |-> 0, up |-> "closed"] /\ wire = <<>> /\ response = {}
        /\ view = Blank /\ applied = 0 /\ base = 0 /\ lost = 0
    BY DEF FeedInit, Nothing
  <1>2. /\ Blank \in Views
        /\ \A s \in Watched : Blank.quote[s] = 0 /\ Blank.bars[s] = <<>>
    BY DEF Blank, Views
  <1>3. /\ \A s \in Watched : Len(Blank.bars[s]) = 0 /\ Elements(Blank.bars[s]) = {}
        /\ \A k \in Kinds, s \in Watched : Latest(Blank, k, s) = 0
    <2>1. \A s \in Watched : Len(Blank.bars[s]) = 0
      BY <1>2
    <2>2. \A s \in Watched : Elements(Blank.bars[s]) = {}
      BY <2>1 DEF Elements
    <2>3. \A k \in Kinds, s \in Watched : Latest(Blank, k, s) = 0
      BY <1>2, <2>1 DEF Latest, Last
    <2> QED  BY <2>1, <2>2, <2>3
  <1>4. Feeder \in FeedThreads /\ Selectors \subseteq FeedThreads /\ MaxBars \in Nat /\ MaxQueue \in Nat /\ MaxSockets \in Nat
    BY DEF FeedThreads, FeedAssumption
  <1>5. \A t \in FeedThreads : busy[t] = Quiet /\ busy[t].todo = <<>> /\ busy[t].out = <<>>
    BY <1>1 DEF Quiet
  <1>6. FeedTyped /\ FeedWire
    <2>1. queue \in Seq(Message) /\ Len(queue) = 0
      BY <1>1
    <2> QED  BY <1>1, <1>2, <1>4, <2>1 DEF FeedTyped, FeedWire
  <1>7. FeedPlaces
    <2>1. FeederPlace(Quiet) /\ SelectorPlace(Quiet)
      BY DEF FeederPlace, SelectorPlace
    <2> QED  BY <1>1, <1>4, <1>5, <2>1 DEF FeedPlaces, FeederPlace, SelectorPlace
  <1>8. FeedNumbers
    BY <1>1, <1>3, <1>4, <1>5 DEF FeedNumbers
  <1>9. FeedBars
    BY <1>1, <1>3, <1>4 DEF FeedBars
  <1>10. FeedOrder /\ FeedFollows /\ FeedReaches /\ FeedPage
    BY <1>1 DEF FeedOrder, FeedFollows, FeedReaches, FeedPage
  <1>11. FeedShots /\ FeedWithin
    BY <1>1, <1>3, <1>4, <1>5 DEF FeedShots, FeedWithin, Within
  <1> QED  BY <1>6, <1>7, <1>8, <1>9, <1>10, <1>11 DEF FeedInv

LEMMA StillStep ==
    ASSUME FeedInv, UNCHANGED feedVars
    PROVE  FeedInv'
  <1>1. UNCHANGED <<session, sequence, subscriber, busy, queue, socket, wire, response, view, applied, base, lost>>
    BY DEF feedVars
  <1>2. \A k, s, v : /\ Waits(k, s, v)' <=> Waits(k, s, v)
                     /\ Pending(k, s, v)' <=> Pending(k, s, v)
    BY <1>1 DEF Waits, Pending, Flies, Queued
  <1>3. \A k, s : Latest(view, k, s)' = Latest(view, k, s)
    BY <1>1 DEF Latest
  <1>4. FeedTyped' /\ FeedWire' /\ FeedBars' /\ FeedOrder'
    BY <1>1 DEF FeedInv, FeedTyped, FeedWire, FeedBars, FeedOrder
  <1>5. FeedPlaces'
    BY <1>1 DEF FeedInv, FeedPlaces, FeederPlace, SelectorPlace
  <1>6. FeedNumbers'
    <2>1. (busy[Feeder].out # <<>> => Numbered(busy[Feeder].out[1]))'
      BY <1>1 DEF FeedInv, FeedNumbers, Numbered, Latest
    <2>2. (\A i \in 1 .. Len(queue) : Numbered(queue[i]))'
      BY <1>1 DEF FeedInv, FeedNumbers, Numbered, Latest
    <2> QED  BY <1>1, <1>2, <2>1, <2>2, StatesKept DEF FeedInv, FeedNumbers
  <1>7. FeedFollows' /\ FeedShots'
    BY <1>1, <1>2, StatesKept DEF FeedInv, FeedFollows, FeedShots
  <1>8. FeedReaches'
    BY <1>1, <1>2, StatesKept DEF FeedInv, FeedReaches, Start
  <1>9. FeedWithin'
    <2>1. (busy[Feeder].out # <<>> => WithinBars(busy[Feeder].out[1]))'
      BY <1>1 DEF FeedInv, FeedWithin, WithinBars
    <2>2. (\A i \in 1 .. Len(queue) : WithinBars(queue[i]))'
      BY <1>1 DEF FeedInv, FeedWithin, WithinBars
    <2>3. Within(view)'
      BY <1>1 DEF FeedInv, FeedWithin, Within
    <2> QED  BY <2>1, <2>2, <2>3 DEF FeedWithin
  <1>10. FeedPage'
    <2>1. (HoldsNewest(view, base) => HoldsNewest(view, base)') /\ (HoldsBars(view, base) => HoldsBars(view, base)')
      BY <1>1 DEF HoldsNewest, HoldsBars, Latest
    <2> QED  BY <1>1, <1>2, <1>3, <2>1, StatesKept DEF FeedInv, FeedPage
  <1> QED  BY <1>4, <1>5, <1>6, <1>7, <1>8, <1>9, <1>10 DEF FeedInv

\* The page that lost nothing shows the session once all that was on its way has come,
\* for any number of symbols, API threads, connections, updates and any size of the
\* buffers.  (CompanionSession, websocket_endpoint, app.js.)
THEOREM PageHolds == FeedSpec => []PageTrue
  <1>1. FeedInit => FeedInv
    BY FeedStart, FeedAssumption
  <1>2. FeedInv /\ [FeedNext]_feedVars => FeedInv'
    <2> SUFFICES ASSUME FeedInv, [FeedNext]_feedVars PROVE FeedInv'
      OBVIOUS
    <2> USE FeedAssumption
    <2>1. CASE Update
      BY <2>1, UpdateStep
    <2>2. CASE Announce
      BY <2>2, EmitStep, DeliverStep DEF Announce
    <2>3. CASE \E t \in Selectors : Answer(t)
      BY <2>3, AnswerStep
    <2>4. CASE Connect
      BY <2>4, ConnectStep
    <2>5. CASE SocketStep
      BY <2>5, SendStep, ReceiveStep, ApplyStep DEF SocketStep
    <2>6. CASE Disconnect
      BY <2>6, DisconnectStep
    <2>7. CASE ApplyResponse
      BY <2>7, ResponseStep
    <2>8. CASE UNCHANGED feedVars
      BY <2>8, StillStep
    <2> QED  BY <2>1, <2>2, <2>3, <2>4, <2>5, <2>6, <2>7, <2>8 DEF FeedNext
  <1>3. FeedInv => PageTrue
    BY PageFollows, FeedAssumption
  <1> QED  BY <1>1, <1>2, <1>3, PTL DEF FeedSpec
=============================================================================
