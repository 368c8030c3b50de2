----------------------------- MODULE Live_proofs -----------------------------
(***************************************************************************)
(* Proofs about what is around live symbols, for any symbols, callers,     *)
(* orders, lookups and runs, and any bounds of their numbers.              *)
(*                                                                         *)
(* Execution, whatever the broker's answers and the market do: ExecInv     *)
(* says what the call in progress knows.  As long as no answer was lost, a *)
(* call without an order number has no order of its symbol at the broker,  *)
(* and a call with one has that order among the ones it placed.            *)
(*                                                                         *)
(* LiveSymbols: LiveInv says what each call has seen done before its step, *)
(* that symbols have engines of their own, and what is subscribed while    *)
(* the link is up; WatchInv relates the watchdog to the age of the stream. *)
(*                                                                         *)
(* Fundamentals: FundInv says that what is cached, on disk, under way and  *)
(* on screen is an answer about the issue it is kept for.                  *)
(*                                                                         *)
(* DeskRuns: PaceInv relates what is posted and under way to the last run  *)
(* begun for a symbol.                                                     *)
(*                                                                         *)
(* Desktop: DeskInv says whose bars are kept and on their way, that they   *)
(* are in the order of time, and what the newest of them waits for.        *)
(***************************************************************************)
EXTENDS Execution, LiveSymbols, Fundamentals, DeskRuns, Desktop,
        FiniteSetTheorems, SequenceTheorems, TLAPS

-----------------------------------------------------------------------------
(* Execution.                                                              *)

Orders == [sym : Tradables, works : BOOLEAN]
Aborts == {"emm_timeout", "emm_stale_quote", "emm_no_quote"}
Order ==
    [at : {"idle", "check", "place", "journal", "chase", "send", "stop"},
     sym : Tradables \cup {NoTradable}, seamless : BOOLEAN, quote : Quotes, id : Nat,
     tries : 1 .. Calls, attempt : Nat, result : Aborts \cup {"none"}]

\* At most one working order of a symbol.
Single(sym) ==
    \A m, n \in Numbers : broker[m].sym = sym /\ broker[m].works
                            /\ broker[n].sym = sym /\ broker[n].works => m = n

\* What the call in progress knows of its orders.
Meant ==
    order.at # "idle" =>
        /\ \A n \in leftover : broker[n].sym = order.sym
        /\ order.at \in {"check", "place"} => order.id = 0
        /\ order.at = "journal" => order.id # 0
        /\ order.at = "stop" => order.result \in Aborts
        /\ order.id = 0 /\ order.sym \notin unclear =>
              /\ leftover = {}
              /\ order.at # "check" => \A n \in Numbers : broker[n].sym # order.sym
        /\ order.id # 0 => order.id \in leftover

\* A chase that ended by itself left an order that is not working, or several.
Aborted ==
    outcome \in Aborts =>
        \A n \in leftover : broker[n].sym \notin unclear /\ broker[n].works =>
            \E m \in leftover : m # n

ExecInv ==
    /\ ExecTypeOK /\ order \in Order
    /\ \A s \in Tradables \ unclear : Single(s)
    /\ Meant /\ Aborted

-----------------------------------------------------------------------------
(* Cardinalities and sequences.                                            *)

LEMMA AtMostOne ==
    ASSUME NEW S, \A m, n \in S : m = n
    PROVE  Cardinality(S) <= 1
  <1>1. CASE S = {}
    BY <1>1, FS_EmptySet
  <1>2. CASE S # {}
    <2>1. PICK m \in S : S = {m}
      BY <1>2
    <2>2. Cardinality({m}) = 1
      BY FS_Singleton
    <2> QED  BY <2>1, <2>2
  <1> QED  BY <1>1, <1>2

LEMMA OnlyOne ==
    ASSUME NEW S, IsFiniteSet(S), Cardinality(S) <= 1, NEW m \in S, NEW n \in S
    PROVE  m = n
  <1>1. {m} \in SUBSET S /\ IsFiniteSet({m}) /\ Cardinality({m}) = 1
    BY FS_Singleton
  <1>2. Cardinality(S) \in Nat /\ 1 <= Cardinality(S)
    BY <1>1, FS_Subset, FS_CardinalityType
  <1>3. S = {m}
    BY <1>1, <1>2, FS_Subset
  <1> QED  BY <1>3

LEMMA OrdersSequence ==
    ASSUME NEW n \in Nat, NEW b \in [1 .. n -> Orders]
    PROVE  b \in Seq(Orders) /\ Len(b) = n
  <1>1. b \in Seq(Orders)
    BY SeqDef
  <1>2. b \in [1 .. Len(b) -> Orders] /\ Len(b) \in Nat
    BY <1>1, LenProperties
  <1>3. 1 .. n = 1 .. Len(b)
    BY <1>2
  <1> QED  BY <1>1, <1>2, <1>3

LEMMA Broker ==
    ASSUME ExecInv
    PROVE  /\ broker \in Seq(Orders) /\ Len(broker) \in Nat /\ Numbers = 1 .. Len(broker)
           /\ \A n \in Numbers : broker[n] \in Orders /\ broker[n].sym \in Tradables
  <1>1. broker \in Seq(Orders)
    BY DEF ExecInv, ExecTypeOK, Orders
  <1>2. \A n \in Numbers : broker[n] \in Orders
    BY <1>1, ElementOfSeq DEF Numbers
  <1> QED  BY <1>1, <1>2, LenProperties DEF Numbers, Orders

\* The orders after a change that enters none, and after one that enters one.
Fewer(b) ==
    /\ b \in Seq(Orders) /\ Len(b) = Len(broker)
    /\ \A n \in Numbers : b[n].sym = broker[n].sym /\ (b[n].works => broker[n].works)

OneMore(b) ==
    /\ b \in Seq(Orders) /\ Len(b) = Len(broker) + 1
    /\ \A n \in Numbers : b[n].sym = broker[n].sym /\ (b[n].works => broker[n].works)
    /\ b[Len(broker) + 1].sym = order.sym

LEMMA CancelledOne ==
    ASSUME ExecInv, NEW k \in Numbers
    PROVE  Fewer(Cancelled(k)) /\ ~Cancelled(k)[k].works
  <1>1. broker \in [1 .. Len(broker) -> Orders] /\ Len(broker) \in Nat /\ k \in 1 .. Len(broker)
    BY Broker, LenProperties
  <1>2. [broker EXCEPT ![k].works = FALSE] \in [1 .. Len(broker) -> Orders]
    BY <1>1 DEF Orders
  <1>3. Cancelled(k) \in Seq(Orders) /\ Len(Cancelled(k)) = Len(broker)
    BY <1>1, <1>2, OrdersSequence DEF Cancelled
  <1>4. \A n \in Numbers : Cancelled(k)[n].sym = broker[n].sym
                             /\ (Cancelled(k)[n].works => broker[n].works)
    BY <1>1 DEF Cancelled, Numbers, Orders
  <1>5. ~Cancelled(k)[k].works
    BY <1>1 DEF Cancelled, Orders
  <1> QED  BY <1>3, <1>4, <1>5 DEF Fewer

LEMMA NewOne ==
    ASSUME ExecInv, order.sym \in Tradables
    PROVE  OneMore(New)
  <1> DEFINE o == [sym |-> order.sym, works |-> TRUE]
  <1>1. o \in Orders /\ broker \in Seq(Orders)
    BY Broker DEF Orders
  <1> QED  BY <1>1, AppendProperties DEF New, OneMore, Numbers

LEMMA ReplacedOne ==
    ASSUME ExecInv, order.sym \in Tradables, NEW k \in Numbers
    PROVE  OneMore(Replaced(k)) /\ ~Replaced(k)[k].works
  <1> DEFINE o == [sym |-> order.sym, works |-> TRUE]
             c == Cancelled(k)
  <1>1. o \in Orders /\ c \in Seq(Orders) /\ Len(c) = Len(broker) /\ ~c[k].works
        /\ \A n \in Numbers : c[n].sym = broker[n].sym /\ (c[n].works => broker[n].works)
    BY CancelledOne DEF Orders, Fewer
  <1>2. /\ Append(c, o) \in Seq(Orders) /\ Len(Append(c, o)) = Len(broker) + 1
        /\ \A i \in 1 .. Len(broker) : Append(c, o)[i] = c[i]
        /\ Append(c, o)[Len(broker) + 1] = o
    <2> HIDE DEF o, c
    <2>1. /\ Append(c, o) \in Seq(Orders) /\ Len(Append(c, o)) = Len(c) + 1
          /\ \A i \in 1 .. Len(c) : Append(c, o)[i] = c[i]
          /\ Append(c, o)[Len(c) + 1] = o
      BY <1>1
    <2> QED  BY <1>1, <2>1
  <1> QED  BY <1>1, <1>2 DEF Replaced, OneMore, Numbers

-----------------------------------------------------------------------------
(* Steps.                                                                  *)

\* What ExecTypeOK says of the call in progress.
CallTyped ==
    IF order.at = "idle" THEN order = NoOrder
    ELSE /\ order.sym \in Tradables /\ order.id \in 0 .. Len(broker) /\ order.tries \in 1 .. Calls
         /\ order.attempt \in 0 .. MaxChase /\ outcome = "none"

LEMMA Parts ==
    ExecTypeOK <=>
        /\ broker \in Seq(Orders) /\ Len(broker) <= MaxOrders
        /\ noted \subseteq Numbers /\ leftover \subseteq Numbers
        /\ armed \subseteq Tradables /\ unclear \subseteq Tradables
        /\ gate \in BOOLEAN /\ CallTyped
  BY DEF ExecTypeOK, CallTyped, Orders

LEMMA NoOrderTyped ==
    /\ NoOrder \in Order /\ NoOrder.at = "idle" /\ NoOrder.id = 0 /\ NoOrder.tries = Calls
    /\ NoOrder.attempt = 0 /\ NoOrder.result = "none"
  BY DEF NoOrder, Order, Quotes, Calls

\* A step that enters no order.
LEMMA EntersNone ==
    ASSUME ExecInv, Fewer(broker'), leftover' \subseteq leftover, noted' \subseteq Numbers,
           armed' \subseteq Tradables, unclear \subseteq unclear', unclear' \subseteq Tradables,
           gate' \in BOOLEAN, order' \in Order, CallTyped', Meant', Aborted'
    PROVE  ExecInv'
  <1>1. Numbers' = Numbers /\ Len(broker') = Len(broker)
    BY DEF Fewer, Numbers
  <1>2. ExecTypeOK'
    <2>1. broker' \in Seq(Orders)
      BY DEF Fewer
    <2>2. ExecTypeOK
      BY DEF ExecInv
    <2>3. noted' \subseteq Numbers' /\ leftover' \subseteq Numbers' /\ Len(broker') <= MaxOrders
      BY <1>1, <2>2, Parts
    <2> QED  BY <2>1, <2>3 DEF ExecTypeOK, CallTyped, Orders
  <1>3. ASSUME NEW s \in Tradables \ unclear' PROVE Single(s)'
    <2>1. Single(s)
      BY DEF ExecInv
    <2> QED  BY <1>1, <2>1 DEF Single, Fewer
  <1> QED  BY <1>2, <1>3 DEF ExecInv

LEMMA Unchanged ==
    ASSUME ExecInv, broker' = broker
    PROVE  Fewer(broker') /\ Numbers' = Numbers
  BY Broker DEF Fewer, Numbers

\* Steps of others than the call: its record stays.
LEMMA OthersStep ==
    ASSUME ExecInv, Fewer(broker'), UNCHANGED <<order, outcome, leftover, noted, unclear>>,
           armed' \subseteq Tradables, gate' \in BOOLEAN
    PROVE  ExecInv'
  <1>1. Numbers' = Numbers /\ Len(broker') = Len(broker) /\ leftover \subseteq Numbers /\ noted \subseteq Numbers
    BY DEF Fewer, Numbers, ExecInv, ExecTypeOK
  <1>2. \A n \in Numbers : broker'[n].sym = broker[n].sym /\ (broker'[n].works => broker[n].works)
    BY DEF Fewer
  <1>3. order' \in Order /\ CallTyped'
    BY <1>1, Parts DEF ExecInv, CallTyped
  <1>4. Meant'
    BY <1>1, <1>2 DEF ExecInv, Meant
  <1>5. Aborted'
    BY <1>1, <1>2 DEF ExecInv, Aborted
  <1>6. unclear' \subseteq Tradables /\ noted' \subseteq Numbers
    BY <1>1 DEF ExecInv, ExecTypeOK
  <1> QED  BY <1>3, <1>4, <1>5, <1>6, EntersNone

LEMMA GateArmStep ==
    ASSUME ExecInv,
           (\E h \in BOOLEAN : CheckGate(h)) \/ (\E s \in Tradables : Arm(s))
             \/ (\E s \in Tradables, done \in SUBSET noted : CancelAll(s, done))
             \/ (\E n \in Numbers : Fill(n))
    PROVE  ExecInv'
  <1>0. gate \in BOOLEAN /\ armed \subseteq Tradables /\ broker \in [Numbers -> Orders] /\ Numbers = 1 .. Len(broker)
        /\ Len(broker) \in Nat
    BY Broker, LenProperties DEF ExecInv, ExecTypeOK
  <1>1. ASSUME NEW h \in BOOLEAN, CheckGate(h) PROVE ExecInv'
    <2>1. gate' \in BOOLEAN /\ UNCHANGED <<broker, order, outcome, leftover, noted, armed, unclear>>
      BY <1>1 DEF CheckGate
    <2> QED  BY <1>0, <2>1, Unchanged, OthersStep
  <1>2. ASSUME NEW s \in Tradables, Arm(s) PROVE ExecInv'
    <2>1. armed' \subseteq Tradables /\ UNCHANGED <<broker, order, outcome, leftover, noted, gate, unclear>>
      BY <1>0, <1>2 DEF Arm
    <2> QED  BY <1>0, <2>1, Unchanged, OthersStep
  <1>3. ASSUME NEW s \in Tradables, NEW done \in SUBSET noted, CancelAll(s, done) PROVE ExecInv'
    <2>1. /\ broker' = [n \in Numbers |-> [broker[n] EXCEPT !.works = broker[n].works /\ n \notin done]]
          /\ armed' = armed \ {s} /\ UNCHANGED <<order, outcome, leftover, noted, gate, unclear>>
      BY <1>3 DEF CancelAll
    <2>2. \A n \in Numbers : broker'[n] \in Orders /\ broker'[n].sym = broker[n].sym
                               /\ (broker'[n].works => broker[n].works)
      BY <1>0, <2>1 DEF Orders
    <2>3. broker' \in [1 .. Len(broker) -> Orders]
      BY <1>0, <2>1, <2>2
    <2>4. Fewer(broker')
      BY <1>0, <2>2, <2>3, OrdersSequence DEF Fewer
    <2> QED  BY <1>0, <2>1, <2>4, OthersStep
  <1>4. ASSUME NEW n \in Numbers, Fill(n) PROVE ExecInv'
    <2>1. /\ broker' = [broker EXCEPT ![n].works = FALSE]
          /\ UNCHANGED <<order, outcome, leftover, noted, gate, armed, unclear>> /\ broker[n].works
      BY <1>4 DEF Fill
    <2>2. broker' = Cancelled(n)
      BY <2>1 DEF Cancelled
    <2> QED  BY <1>0, <2>1, <2>2, CancelledOne, OthersStep
  <1> QED  BY <1>1, <1>2, <1>3, <1>4

\* Steps of the call that leave the broker alone.
LEMMA CallMoves ==
    ASSUME ExecInv, UNCHANGED <<broker, gate, armed, unclear>>, leftover' \subseteq leftover,
           noted' \subseteq Numbers, order' \in Order, CallTyped', Meant', Aborted'
    PROVE  ExecInv'
  BY Unchanged, EntersNone DEF ExecInv, ExecTypeOK

LEMMA CallEnds ==
    ASSUME ExecInv, UNCHANGED <<broker, gate, armed, unclear>>, order' = NoOrder,
           leftover' \subseteq leftover, noted' \subseteq Numbers, outcome' \notin Aborts
    PROVE  ExecInv'
  <1>1. order' \in Order /\ CallTyped' /\ Meant' /\ Aborted'
    BY NoOrderTyped DEF CallTyped, Meant, Aborted
  <1> QED  BY <1>1, CallMoves

LEMMA FireStep ==
    ASSUME ExecInv, NEW s \in Tradables, Fire(s)
    PROVE  ExecInv'
  <1>1. order' = NoOrder /\ outcome' = "raised" /\ leftover' = {} /\ noted' = noted
        /\ UNCHANGED <<broker, gate, armed, unclear>>
    BY DEF Fire, ExecInv, ExecTypeOK
  <1> QED  BY <1>1, CallEnds DEF Aborts, ExecInv, ExecTypeOK

LEMMA SubmitStep ==
    ASSUME ExecInv, NEW s \in Tradables, NEW q \in Quotes, NEW seamless \in BOOLEAN,
           NEW gated \in BOOLEAN, Submit(s, seamless, q, gated)
    PROVE  ExecInv'
  <1>0. order = NoOrder /\ noted \subseteq Numbers /\ leftover' = {} /\ noted' = noted
        /\ UNCHANGED <<broker, gate, armed, unclear>>
    BY DEF Submit, ExecInv, ExecTypeOK
  <1>1. CASE gated /\ ~gate
    <2>1. outcome' = "gate_closed" /\ order' = NoOrder
      BY <1>0, <1>1 DEF Submit
    <2> QED  BY <1>0, <2>1, CallEnds DEF Aborts
  <1>2. CASE ~(gated /\ ~gate)
    <2> DEFINE o == [NoOrder EXCEPT !.at = "check", !.sym = s, !.seamless = seamless, !.quote = q]
    <2>1. outcome' = "none" /\ order' = o
      BY <1>2 DEF Submit
    <2>2. o \in Order /\ o.at = "check" /\ o.id = 0 /\ o.sym = s /\ o.tries = Calls /\ o.attempt = 0
      <3> DEFINE o1 == [NoOrder EXCEPT !.at = "check"]
                 o2 == [o1 EXCEPT !.sym = s]
                 o3 == [o2 EXCEPT !.seamless = seamless]
                 o4 == [o3 EXCEPT !.quote = q]
      <3>1. o1 \in Order /\ o1.at = "check" /\ o1.id = 0 /\ o1.tries = Calls /\ o1.attempt = 0
        BY NoOrderTyped DEF Order
      <3> HIDE DEF o1
      <3>2. o2 \in Order /\ o2.at = "check" /\ o2.id = 0 /\ o2.tries = Calls /\ o2.attempt = 0 /\ o2.sym = s
        BY <3>1 DEF Order
      <3> HIDE DEF o2
      <3>3. o3 \in Order /\ o3.at = "check" /\ o3.id = 0 /\ o3.tries = Calls /\ o3.attempt = 0 /\ o3.sym = s
        BY <3>2 DEF Order
      <3> HIDE DEF o3
      <3>4. o4 \in Order /\ o4.at = "check" /\ o4.id = 0 /\ o4.tries = Calls /\ o4.attempt = 0 /\ o4.sym = s
        BY <3>3 DEF Order
      <3>5. o = o4
        BY DEF o1, o2, o3
      <3> QED  BY <3>4, <3>5
    <2>3. CallTyped'
      BY <1>0, <2>1, <2>2, ExecutionAssumption, Broker DEF CallTyped, Calls
    <2>4. Meant' /\ Aborted'
      BY <1>0, <2>1, <2>2 DEF Meant, Aborted, Aborts
    <2> QED  BY <1>0, <2>1, <2>2, <2>3, <2>4, CallMoves
  <1> QED  BY <1>1, <1>2

LEMMA CheckStep ==
    ASSUME ExecInv, Check
    PROVE  ExecInv'
  <1>0. /\ order.at = "check" /\ order \in Order /\ order.sym \in Tradables /\ outcome = "none"
        /\ order.id = 0 /\ order.attempt \in 0 .. MaxChase /\ noted \subseteq Numbers
        /\ (order.sym \notin unclear => leftover = {}) /\ \A n \in leftover : broker[n].sym = order.sym
        /\ UNCHANGED <<broker, leftover, noted, gate, armed, unclear>>
    BY DEF Check, ExecInv, ExecTypeOK, Meant
  <1>1. CASE order' = NoOrder /\ outcome' \in {"raised", "gate_closed"}
    BY <1>0, <1>1, CallEnds DEF Aborts
  <1>2. CASE /\ ~Unknown(order.sym) /\ UNCHANGED outcome
             /\ order' = Answered(IF order.seamless THEN "chase" ELSE "place")
    <2>1. /\ order' \in Order /\ order'.at \in {"chase", "place"} /\ order'.id = 0 /\ order'.tries = Calls
          /\ order'.sym = order.sym /\ order'.attempt = order.attempt
      <3>1. PICK step \in {"chase", "place"} : order' = Answered(step)
        BY <1>2
      <3>2. order' = [at |-> step, sym |-> order.sym, seamless |-> order.seamless, quote |-> order.quote,
                      id |-> order.id, tries |-> Calls, attempt |-> order.attempt, result |-> order.result]
        BY <1>0, <3>1 DEF Order, Answered
      <3> QED  BY <1>0, <3>2 DEF Order, Calls
    <2>2. \A n \in Numbers : broker[n].sym # order.sym
      BY <1>2 DEF Unknown
    <2>3. CallTyped'
      BY <1>0, <1>2, <2>1, Broker DEF CallTyped, Calls
    <2>4. Meant' /\ Aborted'
      BY <1>0, <1>2, <2>1, <2>2 DEF Meant, Aborted, Aborts, Numbers
    <2> QED  BY <1>0, <2>1, <2>3, <2>4, CallMoves
  <1> QED  BY <1>1, <1>2 DEF Check, Raised

LEMMA JournalStep ==
    ASSUME ExecInv, Journal
    PROVE  ExecInv'
  <1>1. order.id \in leftover /\ leftover \subseteq Numbers /\ noted \subseteq Numbers
    BY DEF Journal, ExecInv, Meant, ExecTypeOK
  <1> QED  BY <1>1, CallEnds DEF Journal, Aborts

LEMMA ChaseStep ==
    ASSUME ExecInv, NEW over \in BOOLEAN, Chase(over)
    PROVE  ExecInv'
  <1>0. /\ order.at = "chase" /\ order \in Order /\ order.sym \in Tradables /\ outcome = "none"
        /\ order.id \in 0 .. Len(broker) /\ order.attempt \in 0 .. MaxChase /\ noted \subseteq Numbers
        /\ UNCHANGED <<broker, outcome, leftover, noted, gate, armed, unclear>> /\ MaxChase \in Nat
    BY ExecutionAssumption DEF Chase, ExecInv, ExecTypeOK
  <1>1. ASSUME NEW r \in Aborts, order' = Stopped(r)
        PROVE  /\ order' \in Order /\ order'.at = "stop" /\ order'.id = order.id /\ order'.tries = Calls
               /\ order'.sym = order.sym /\ order'.attempt = order.attempt /\ order'.result \in Aborts
    <2>1. order' = [at |-> "stop", sym |-> order.sym, seamless |-> order.seamless, quote |-> order.quote,
                    id |-> order.id, tries |-> Calls, attempt |-> order.attempt, result |-> r]
      BY <1>0, <1>1 DEF Order, Stopped, Answered
    <2> QED  BY <1>0, <2>1 DEF Order, Calls
  <1>2. ASSUME ~over, order' = [Answered("send") EXCEPT !.attempt = @ + 1]
        PROVE  /\ order' \in Order /\ order'.at = "send" /\ order'.id = order.id /\ order'.tries = Calls
               /\ order'.sym = order.sym /\ order'.attempt \in 0 .. MaxChase
    <2>1. order' = [at |-> "send", sym |-> order.sym, seamless |-> order.seamless, quote |-> order.quote,
                    id |-> order.id, tries |-> Calls, attempt |-> order.attempt + 1, result |-> order.result]
      BY <1>0, <1>2 DEF Order, Answered
    <2>2. order.attempt # MaxChase
      BY <1>2 DEF Chase
    <2> QED  BY <1>0, <2>1, <2>2 DEF Order, Calls
  <1>3. /\ order' \in Order /\ order'.at \in {"stop", "send"} /\ order'.id = order.id /\ order'.tries = Calls
        /\ order'.sym = order.sym /\ order'.attempt \in 0 .. MaxChase
        /\ (order'.at = "stop" => order'.result \in Aborts)
    BY <1>0, <1>1, <1>2 DEF Chase, Aborts
  <1>4. CallTyped'
    BY <1>0, <1>3 DEF CallTyped, Calls
  <1>5. Meant' /\ Aborted'
    BY <1>0, <1>3 DEF ExecInv, Meant, Aborted, Aborts, Numbers
  <1> QED  BY <1>0, <1>3, <1>4, <1>5, CallMoves

LEMMA QuoteAgesStep ==
    ASSUME ExecInv, QuoteAges
    PROVE  ExecInv'
  <1>0. /\ order.at = "chase" /\ order \in Order /\ order.sym \in Tradables /\ outcome = "none"
        /\ order.id \in 0 .. Len(broker) /\ order.attempt \in 0 .. MaxChase /\ noted \subseteq Numbers
        /\ order.tries \in 1 .. Calls
        /\ UNCHANGED <<broker, outcome, leftover, noted, gate, armed, unclear>>
    BY DEF QuoteAges, ExecInv, ExecTypeOK
  <1>1. order' = [at |-> order.at, sym |-> order.sym, seamless |-> order.seamless,
                  quote |-> [priced |-> order.quote.priced, stale |-> TRUE],
                  id |-> order.id, tries |-> order.tries, attempt |-> order.attempt, result |-> order.result]
    BY <1>0 DEF QuoteAges, Order, Quotes
  <1>2. order' \in Order
    BY <1>0, <1>1 DEF Order, Quotes
  <1>3. CallTyped'
    BY <1>0, <1>1 DEF CallTyped
  <1>4. Meant' /\ Aborted'
    BY <1>0, <1>1 DEF ExecInv, Meant, Aborted, Aborts, Numbers
  <1> QED  BY <1>0, <1>2, <1>3, <1>4, CallMoves

LEMMA RefusedStep ==
    ASSUME ExecInv, Refused
    PROVE  ExecInv'
  BY CallEnds DEF Refused, Raised, Aborts, ExecInv, ExecTypeOK

-----------------------------------------------------------------------------
(* Requests.                                                               *)

\* The number an order enters under is the next one.
LEMMA EntersOne ==
    ASSUME ExecInv, OneMore(broker'), order.sym \in Tradables, Len(broker) < MaxOrders,
           unclear \subseteq unclear', unclear' \subseteq Tradables,
           order.sym \notin unclear' =>
              \A n \in Numbers : broker[n].sym = order.sym => ~broker'[n].works
    PROVE  /\ broker' \in Seq(Orders) /\ Len(broker') = Len(broker) + 1 /\ Len(broker') <= MaxOrders
           /\ Numbers \subseteq Numbers' /\ Numbers' = Numbers \cup {Len(broker) + 1}
           /\ \A s \in Tradables \ unclear' : Single(s)'
  <1>1. Len(broker) \in Nat /\ MaxOrders \in Nat /\ Numbers = 1 .. Len(broker)
        /\ Numbers' = Numbers \cup {Len(broker) + 1} /\ Len(broker') = Len(broker) + 1
    BY Broker, ExecutionAssumption DEF OneMore, Numbers
  <1>2. ASSUME NEW s \in Tradables \ unclear' PROVE Single(s)'
    <2>1. Single(s)
      BY DEF ExecInv
    <2>2. CASE s = order.sym
      BY <1>1, <2>2 DEF Single, OneMore
    <2>3. CASE s # order.sym
      BY <1>1, <2>1, <2>3, SMTT(30) DEF Single, OneMore
    <2> QED  BY <2>2, <2>3
  <1> QED  BY <1>1, <1>2 DEF OneMore

\* How a request ends: answered, unanswered with a try left, or unanswered for good.  `k` is the
\* number of the order that the request replaces, 0 if it enters a first one.
LEMMA RequestStep ==
    ASSUME ExecInv, order.at \in {"place", "send"}, Len(broker) < MaxOrders,
           NEW after, NEW next \in Order, OneMore(after), Try(after, next, Raised),
           leftover' = leftover \cup (Len(broker) + 1 .. Len(broker')),
           UNCHANGED <<noted, gate, armed>>,
           order.sym \notin unclear =>
              \A n \in Numbers : broker[n].sym = order.sym => ~after[n].works,
           next.at \in {"journal", "chase"}, next.sym = order.sym, next.tries = Calls,
           next.attempt = order.attempt,
           next.id = (IF order.id = 0 THEN Len(broker) + 1 ELSE order.id)
    PROVE  ExecInv'
  <1>0. /\ order \in Order /\ order.sym \in Tradables /\ outcome = "none" /\ order.id \in 0 .. Len(broker)
        /\ order.attempt \in 0 .. MaxChase /\ order.tries \in 1 .. Calls
        /\ noted \subseteq Numbers /\ leftover \subseteq Numbers /\ armed \subseteq Tradables
        /\ unclear \subseteq Tradables /\ gate \in BOOLEAN
        /\ \A n \in leftover : broker[n].sym = order.sym
        /\ (order.id # 0 => order.id \in leftover)
        /\ (order.at = "place" => order.id = 0)
        /\ (order.id = 0 /\ order.sym \notin unclear => leftover = {})
    BY DEF ExecInv, ExecTypeOK, Meant
  <1>n. Len(broker) \in Nat /\ Numbers = 1 .. Len(broker)
    BY Broker
  <1>1. CASE broker' = broker
    <2>1. leftover' = leftover /\ Numbers' = Numbers
      BY <1>1, <1>n DEF Numbers
    <2>2. broker' # after
      BY <1>1, <1>n DEF OneMore
    <2>3. unclear' = unclear \cup {order.sym}
      BY <2>2 DEF Try
    <2>4. CASE order.tries > 1
      <3>1. order' = [order EXCEPT !.tries = order.tries - 1] /\ outcome' = outcome
        BY <2>2, <2>4 DEF Try
      <3>2. order' = [at |-> order.at, sym |-> order.sym, seamless |-> order.seamless, quote |-> order.quote,
                      id |-> order.id, tries |-> order.tries - 1, attempt |-> order.attempt,
                      result |-> order.result]
        BY <1>0, <3>1 DEF Order
      <3>3. order' \in Order /\ order'.tries \in 1 .. Calls
        BY <1>0, <2>4, <3>2 DEF Order, Calls
      <3>4. CallTyped'
        BY <1>0, <1>1, <3>1, <3>2, <3>3 DEF CallTyped
      <3>5. Meant' /\ Aborted'
        BY <1>0, <1>1, <2>1, <2>3, <3>1, <3>2 DEF Meant, Aborted, Aborts
      <3> QED  BY <1>0, <1>1, <2>1, <2>3, <3>3, <3>4, <3>5, Unchanged, EntersNone
    <2>5. CASE ~(order.tries > 1)
      <3>1. order' = NoOrder /\ outcome' = "raised"
        BY <2>2, <2>5 DEF Try, Raised
      <3>2. order' \in Order /\ CallTyped' /\ Meant' /\ Aborted'
        BY <3>1, NoOrderTyped DEF CallTyped, Meant, Aborted, Aborts
      <3> QED  BY <1>0, <1>1, <2>1, <2>3, <3>2, Unchanged, EntersNone
    <2> QED  BY <2>4, <2>5
  <1>2. CASE broker' = after
    <2>1. unclear' = unclear \/ unclear' = unclear \cup {order.sym}
      BY DEF Try
    <2>2. /\ broker' \in Seq(Orders) /\ Len(broker') = Len(broker) + 1 /\ Len(broker') <= MaxOrders
          /\ Numbers' = Numbers \cup {Len(broker) + 1}
          /\ \A s \in Tradables \ unclear' : Single(s)'
      BY <1>0, <1>2, <2>1, EntersOne
    <2>3. leftover' = leftover \cup {Len(broker) + 1}
      BY <1>n, <2>2
    <2>4. \A n \in leftover' : broker'[n].sym = order.sym
      BY <1>0, <1>2, <2>3 DEF OneMore
    <2>5. noted' \subseteq Numbers' /\ leftover' \subseteq Numbers' /\ unclear' \subseteq Tradables
      BY <1>0, <2>1, <2>2, <2>3
    <2>6. order' \in Order /\ CallTyped' /\ Meant' /\ Aborted'
      <3>1. CASE order' = next /\ UNCHANGED <<outcome, unclear>>
        <4>1. next.id # 0 /\ next.id \in leftover' /\ next.id \in 0 .. Len(broker')
          BY <1>0, <1>n, <2>2, <2>3
        <4>2. CallTyped'
          BY <1>0, <3>1, <4>1 DEF CallTyped, Calls
        <4>3. Meant' /\ Aborted'
          BY <1>0, <2>4, <3>1, <4>1 DEF Meant, Aborted, Aborts
        <4> QED  BY <3>1, <4>2, <4>3
      <3>2. CASE /\ unclear' = unclear \cup {order.sym} /\ order.tries > 1
                 /\ order' = [order EXCEPT !.tries = order.tries - 1] /\ outcome' = outcome
        <4>1. order' = [at |-> order.at, sym |-> order.sym, seamless |-> order.seamless, quote |-> order.quote,
                        id |-> order.id, tries |-> order.tries - 1, attempt |-> order.attempt,
                        result |-> order.result]
          BY <1>0, <3>2 DEF Order
        <4>2. order' \in Order /\ order'.tries \in 1 .. Calls
          BY <1>0, <3>2, <4>1 DEF Order, Calls
        <4>3. CallTyped'
          BY <1>0, <1>n, <2>2, <3>2, <4>1, <4>2 DEF CallTyped
        <4>4. Meant' /\ Aborted'
          BY <1>0, <2>3, <2>4, <3>2, <4>1 DEF Meant, Aborted, Aborts
        <4> QED  BY <4>2, <4>3, <4>4
      <3>3. CASE order' = NoOrder /\ outcome' = "raised"
        BY <3>3, NoOrderTyped DEF CallTyped, Meant, Aborted, Aborts
      <3> QED  BY <3>1, <3>2, <3>3 DEF Try, Raised
    <2>7. ExecTypeOK'
      BY <1>0, <2>2, <2>5, <2>6 DEF ExecTypeOK, CallTyped, Orders
    <2> QED  BY <2>2, <2>6, <2>7 DEF ExecInv
  <1> QED  BY <1>1, <1>2 DEF Try

\* The record of a request that was answered.
LEMMA AnsweredTyped ==
    ASSUME order \in Order, NEW step \in {"journal", "chase"}
    PROVE  /\ Answered(step) \in Order /\ Answered(step).at = step /\ Answered(step).sym = order.sym
           /\ Answered(step).tries = Calls /\ Answered(step).attempt = order.attempt
           /\ Answered(step).id = order.id
  <1> DEFINE a == [order EXCEPT !.at = step]
             b == [a EXCEPT !.tries = Calls]
  <1>1. a \in Order /\ a.at = step /\ a.sym = order.sym /\ a.attempt = order.attempt /\ a.id = order.id
    BY DEF Order
  <1> HIDE DEF a
  <1>2. /\ b \in Order /\ b.at = step /\ b.sym = order.sym /\ b.tries = Calls
        /\ b.attempt = order.attempt /\ b.id = order.id
    BY <1>1 DEF Order, Calls
  <1>3. Answered(step) = b
    BY DEF Answered, a
  <1> QED  BY <1>2, <1>3

LEMMA NumberedTyped ==
    ASSUME NEW a \in Order, NEW n \in Nat
    PROVE  /\ [a EXCEPT !.id = n] \in Order /\ [a EXCEPT !.id = n].id = n
           /\ [a EXCEPT !.id = n].at = a.at /\ [a EXCEPT !.id = n].sym = a.sym
           /\ [a EXCEPT !.id = n].tries = a.tries /\ [a EXCEPT !.id = n].attempt = a.attempt
  BY DEF Order

LEMMA PlaceStep ==
    ASSUME ExecInv, Place
    PROVE  ExecInv'
  <1> DEFINE next == [Answered("journal") EXCEPT !.id = Len(broker) + 1]
  <1>0. /\ order.at = "place" /\ order \in Order /\ order.sym \in Tradables /\ order.id = 0
        /\ Len(broker) \in Nat /\ Len(broker) < MaxOrders
        /\ (order.sym \notin unclear => \A n \in Numbers : broker[n].sym # order.sym)
    BY Broker DEF Place, ExecInv, ExecTypeOK, Meant
  <1>2. /\ next \in Order /\ next.at = "journal" /\ next.sym = order.sym /\ next.tries = Calls
        /\ next.attempt = order.attempt /\ next.id = Len(broker) + 1
    BY <1>0, AnsweredTyped, NumberedTyped, SMTT(30)
  <1>3. OneMore(New)
    BY <1>0, NewOne
  <1>4. Try(New, next, Raised) /\ leftover' = leftover \cup (Len(broker) + 1 .. Len(broker'))
        /\ UNCHANGED <<noted, gate, armed>>
    BY DEF Place
  <1> HIDE DEF next
  <1> QED  BY <1>0, <1>2, <1>3, <1>4, RequestStep

LEMMA SendFirstStep ==
    ASSUME ExecInv, SendFirst
    PROVE  ExecInv'
  <1> DEFINE next == [Answered("chase") EXCEPT !.id = Len(broker) + 1]
  <1>0. /\ order.at = "send" /\ order \in Order /\ order.sym \in Tradables /\ order.id = 0
        /\ Len(broker) \in Nat /\ Len(broker) < MaxOrders
        /\ (order.sym \notin unclear => \A n \in Numbers : broker[n].sym # order.sym)
    BY Broker DEF SendFirst, ExecInv, ExecTypeOK, Meant
  <1>2. /\ next \in Order /\ next.at = "chase" /\ next.sym = order.sym /\ next.tries = Calls
        /\ next.attempt = order.attempt /\ next.id = Len(broker) + 1
    BY <1>0, AnsweredTyped, NumberedTyped
  <1>3. OneMore(New)
    BY <1>0, NewOne
  <1>4. Try(New, next, Raised) /\ leftover' = leftover \cup (Len(broker) + 1 .. Len(broker'))
        /\ UNCHANGED <<noted, gate, armed>>
    BY DEF SendFirst
  <1> HIDE DEF next
  <1> QED  BY <1>0, <1>2, <1>3, <1>4, RequestStep

\* The order that is replaced works, so it is the only one that does; it is cancelled.
LEMMA SendReplacementStep ==
    ASSUME ExecInv, SendReplacement
    PROVE  ExecInv'
  <1> DEFINE next == Answered("chase")
  <1>0. /\ order.at = "send" /\ order \in Order /\ order.sym \in Tradables /\ order.id # 0
        /\ order.id \in Numbers /\ broker[order.id].sym = order.sym /\ broker[order.id].works
        /\ Len(broker) < MaxOrders
    BY DEF SendReplacement, ExecInv, ExecTypeOK, Meant
  <1>2. /\ next \in Order /\ next.at = "chase" /\ next.sym = order.sym /\ next.tries = Calls
        /\ next.attempt = order.attempt /\ next.id = order.id
    BY <1>0, AnsweredTyped
  <1>3. OneMore(Replaced(order.id)) /\ ~Replaced(order.id)[order.id].works
    BY <1>0, ReplacedOne
  <1>4. ASSUME order.sym \notin unclear, NEW n \in Numbers, broker[n].sym = order.sym
        PROVE  ~Replaced(order.id)[n].works
    <2>1. CASE n = order.id
      BY <1>3, <2>1
    <2>2. CASE n # order.id
      BY <1>0, <1>3, <1>4, <2>2 DEF ExecInv, Single, OneMore
    <2> QED  BY <2>1, <2>2
  <1>5. Try(Replaced(order.id), next, Raised) /\ UNCHANGED <<noted, gate, armed>>
        /\ leftover' = leftover \cup (Len(broker) + 1 .. Len(broker'))
    BY DEF SendReplacement
  <1> HIDE DEF next
  <1> QED  BY <1>0, <1>2, <1>3, <1>4, <1>5, RequestStep

\* A chase that gives up cancels the order it knows.
LEMMA StopStep ==
    ASSUME ExecInv, Stop
    PROVE  ExecInv'
  <1>0. /\ order.at = "stop" /\ order \in Order /\ order.sym \in Tradables /\ outcome = "none"
        /\ order.id \in 0 .. Len(broker) /\ order.attempt \in 0 .. MaxChase /\ order.tries \in 1 .. Calls
        /\ noted \subseteq Numbers /\ leftover \subseteq Numbers /\ armed \subseteq Tradables
        /\ unclear \subseteq Tradables /\ gate \in BOOLEAN /\ order.result \in Aborts
        /\ \A n \in leftover : broker[n].sym = order.sym
        /\ (order.id # 0 => order.id \in leftover)
        /\ (order.id = 0 /\ order.sym \notin unclear => leftover = {})
        /\ UNCHANGED <<leftover, noted, gate, armed>>
    BY DEF Stop, ExecInv, ExecTypeOK, Meant
  <1>n. Len(broker) \in Nat /\ Numbers = 1 .. Len(broker)
    BY Broker
  <1>1. Fewer(broker) /\ (order.id # 0 => Fewer(Cancelled(order.id)) /\ ~Cancelled(order.id)[order.id].works)
    BY <1>0, <1>n, CancelledOne, Broker DEF Fewer
  <1>2. /\ Fewer(broker') /\ unclear' \in {unclear, unclear \cup {order.sym}}
    BY <1>0, <1>1 DEF Stop
  <1>3. Numbers' = Numbers /\ Len(broker') = Len(broker) /\ \A n \in Numbers : broker'[n].sym = broker[n].sym
    BY <1>2 DEF Fewer, Numbers
  <1>4. CASE Returned(order.result)
    <2>1. order' = NoOrder /\ outcome' = order.result
      BY <1>4 DEF Returned
    <2>2. order' \in Order /\ CallTyped' /\ Meant'
      BY <2>1, NoOrderTyped DEF CallTyped, Meant
    <2>3. ASSUME NEW n \in leftover', broker'[n].sym \notin unclear', broker'[n].works
          PROVE  \E m \in leftover' : m # n
      <3>1. order.sym \notin unclear' /\ unclear' = unclear
        BY <1>0, <1>2, <1>3, <2>3
      <3>2. order.id # 0
        BY <1>0, <2>3, <3>1
      <3>3. broker' = Cancelled(order.id)
        BY <1>0, <3>1, <3>2 DEF Stop
      <3>4. n # order.id
        BY <1>1, <2>3, <3>2, <3>3
      <3> QED  BY <1>0, <3>2, <3>4
    <2>4. Aborted'
      BY <2>3 DEF Aborted
    <2> QED  BY <1>0, <1>2, <2>2, <2>4, EntersNone
  <1>5. CASE /\ unclear' = unclear \cup {order.sym} /\ order.tries > 1 /\ UNCHANGED outcome
             /\ order' = [order EXCEPT !.tries = order.tries - 1]
    <2>1. order' = [at |-> order.at, sym |-> order.sym, seamless |-> order.seamless, quote |-> order.quote,
                    id |-> order.id, tries |-> order.tries - 1, attempt |-> order.attempt,
                    result |-> order.result]
      BY <1>0, <1>5 DEF Order
    <2>2. order' \in Order /\ order'.tries \in 1 .. Calls
      BY <1>0, <1>5, <2>1 DEF Order, Calls
    <2>3. CallTyped'
      BY <1>0, <1>3, <1>5, <2>1, <2>2 DEF CallTyped
    <2>4. Meant' /\ Aborted'
      BY <1>0, <1>3, <1>5, <2>1 DEF Meant, Aborted, Aborts
    <2> QED  BY <1>0, <1>2, <2>2, <2>3, <2>4, EntersNone
  <1> QED  BY <1>4, <1>5 DEF Stop

-----------------------------------------------------------------------------
LEMMA InitExec == ExecInit => ExecInv
  <1> SUFFICES ASSUME ExecInit PROVE ExecInv
    OBVIOUS
  <1>1. broker \in Seq(Orders) /\ Len(broker) = 0 /\ Numbers = {}
    BY DEF ExecInit, Numbers
  <1>2. ExecTypeOK /\ order \in Order /\ Meant /\ Aborted
    BY <1>1, NoOrderTyped, ExecutionAssumption DEF ExecInit, ExecTypeOK, Orders, Meant, Aborted, Aborts
  <1> QED  BY <1>1, <1>2 DEF ExecInv, Single

LEMMA ExecStep == ExecInv /\ [ExecNext]_execVars => ExecInv'
  <1> SUFFICES ASSUME ExecInv, [ExecNext]_execVars PROVE ExecInv'
    OBVIOUS
  <1>1. ASSUME NEW s \in Tradables, NEW q \in Quotes, NEW seamless \in BOOLEAN, NEW gated \in BOOLEAN,
               Submit(s, seamless, q, gated)
        PROVE  ExecInv'
    BY <1>1, SubmitStep
  <1>2. CASE UNCHANGED execVars
    <2>1. gate' \in BOOLEAN /\ armed' \subseteq Tradables
      BY <1>2 DEF execVars, ExecInv, ExecTypeOK
    <2> QED  BY <1>2, <2>1, Unchanged, OthersStep DEF execVars
  <1> QED
    BY <1>1, <1>2, GateArmStep, FireStep, CheckStep, JournalStep, PlaceStep, ChaseStep, SendFirstStep,
       SendReplacementStep, RefusedStep, QuoteAgesStep, StopStep DEF ExecNext

THEOREM ExecInvariant == ExecSpec => []ExecInv
  BY InitExec, ExecStep, PTL DEF ExecSpec

\* An account never has two working orders of a symbol, and a chase that gave up leaves none, as
\* long as no answer of the broker was lost (TradeExecutor, EMMEngine).
THEOREM AccountIsKnown == ExecSpec => []OrdersKnown
  <1>1. ASSUME ExecInv PROVE OneExposure
    <2> SUFFICES ASSUME NEW s \in Tradables \ unclear
                 PROVE  Cardinality({n \in Numbers : broker[n].sym = s /\ broker[n].works}) <= 1
      BY DEF OneExposure
    <2>1. Single(s)
      BY <1>1 DEF ExecInv
    <2> QED  BY <2>1, AtMostOne DEF Single
  <1>2. ASSUME ExecInv PROVE AbortLeavesNothing
    <2> SUFFICES ASSUME outcome \in Aborts, Cardinality(leftover) <= 1, NEW n \in leftover,
                        broker[n].sym \notin unclear, broker[n].works
                 PROVE  FALSE
      BY DEF AbortLeavesNothing, Aborts
    <2>1. PICK m \in leftover : m # n
      BY <1>2 DEF ExecInv, Aborted
    <2>2. IsFiniteSet(leftover)
      <3>1. leftover \in SUBSET (1 .. Len(broker)) /\ Len(broker) \in Nat
        BY <1>2, Broker DEF ExecInv, ExecTypeOK
      <3>2. IsFiniteSet(1 .. Len(broker))
        BY <3>1, FS_Interval
      <3> QED  BY <3>1, <3>2, FS_Subset
    <2> QED  BY <2>1, <2>2, OnlyOne
  <1>3. ExecInv => OrdersKnown
    BY <1>1, <1>2 DEF OrdersKnown, ExecInv
  <1> QED  BY <1>3, ExecInvariant, PTL

-----------------------------------------------------------------------------
(* LiveSymbols: what calls, engines and the stream keep.                   *)

\* What the fields hold.
Steps ==
    {"rest", "show", "engine", "seed", "ensure", "make", "connect", "read", "send", "unsubscribe"}
Frames == [at : Steps, sym : Tickers \cup {NoTicker}, new : BOOLEAN, syms : SUBSET Tickers]
LiveTyped ==
    /\ LiveTypeOK /\ frame \in [Callers -> Frames] /\ fed \in [Engines -> SUBSET Tickers]
    /\ shownActive \in Tickers \cup {NoTicker} /\ wanted \subseteq Tickers
    /\ {recorder, made, overlapped, complete} \subseteq BOOLEAN

\* What a step of a call takes from the steps before it.
FrameKnows(c) ==
    /\ At(c, "rest") => frame[c] = Resting
    /\ frame[c].at \in {"show", "engine", "seed", "unsubscribe"} => frame[c].sym \in Tickers
    /\ At(c, "seed") => engine[frame[c].sym] # 0
    /\ frame[c].at \in {"connect", "send"} => made
FramesKnow == \A c \in Callers : FrameKnows(c)

\* Two symbols have two engines, the engine made at the start goes to the first symbol, and an engine
\* has the bars of its own symbol.
OwnEngines == \A s, t \in Tickers : engine[s] = engine[t] /\ engine[s] # 0 => s = t
FirstEngine ==
    IF \A s \in Tickers : engine[s] = 0 THEN alias = 1 ELSE \E s \in Tickers : engine[s] = 1
FedOwn == \A e \in Engines : \A s \in fed[e] : engine[s] = e
EnginesApart == OwnEngines /\ FirstEngine /\ FedOwn

\* The server has what the client wants.
ServerAgrees == link = "connected" => served = wanted

\* A call that is alone sends what is desired now and shows what is active now.
Alone ==
    ~overlapped =>
        /\ \A c, d \in Callers : ~At(c, "rest") /\ ~At(d, "rest") => c = d
        /\ \A c \in Callers : At(c, "send") => frame[c].syms = Desired
        /\ \A c \in Callers : At(c, "show") => active = frame[c].sym
        /\ (\A c \in Callers : ~At(c, "show")) => active \in {NoTicker, shownActive}
        /\ AtRest /\ complete /\ made => Desired \in {wanted, {}}

LiveInv ==
    LiveTyped /\ FramesKnow /\ EnginesApart /\ ServerAgrees /\ Alone

\* Ages: a connection is no older than the last forced reconnect, and the subscription was refreshed
\* on a connection that was silent for long.
WatchInv ==
    /\ age \in 0 .. MaxAge /\ refreshed \in -1 .. MaxAge /\ spaced \in 0 .. MaxAge
    /\ link = "connected" => age <= spaced
    /\ refreshed # None => spaced >= Stale + refreshed \/ spaced = MaxAge

-----------------------------------------------------------------------------
(* The watchdog.                                                           *)

LEMMA WatchInit == LiveInit => WatchInv
  BY DEF LiveInit, WatchInv, MaxAge, None, Stale

LEMMA WatchCalls ==
    ASSUME WatchInv, NEW c \in Callers, NewCall(c) \/ CallStep(c)
    PROVE  WatchInv'
  <1>1. UNCHANGED watchVars /\ UNCHANGED age /\ (UNCHANGED link \/ link' = "login")
    BY DEF NewCall, CallStep, Select, ShowActive, EnsureEngine, SeedEngine, StartRecording,
           AddRecorded, RemoveRecorded, StopRecording, Unsubscribe, EnsureStream, FailToMake,
           MakeStream, ConnectStream, ReadDesired, NothingToSend, SendDesired, StreamUnchanged
  <1> QED  BY <1>1 DEF WatchInv, watchVars

LEMMA WatchStream ==
    ASSUME WatchInv, LoggedIn \/ ConnectionLost \/ \E s \in Tickers : HandleQuote(s)
    PROVE  WatchInv'
  <1>1. UNCHANGED watchVars /\ age' = 0
    BY DEF LoggedIn, ConnectionLost, HandleQuote
  <1> QED  BY <1>1 DEF WatchInv, watchVars, MaxAge

LEMMA WatchTick ==
    ASSUME WatchInv, Tick
    PROVE  WatchInv'
  BY DEF WatchInv, Tick, Older, MaxAge, None, Stale

LEMMA WatchPoll ==
    ASSUME WatchInv, Poll
    PROVE  WatchInv' /\ (spaced' < spaced => spaced >= Stale + Retry - 1)
  <1>1. CASE NotSilent
    BY <1>1 DEF WatchInv, NotSilent, MaxAge, None, Stale
  <1>2. CASE Refresh
    BY <1>2 DEF WatchInv, Refresh, FirstSilent, Silent, MaxAge, None, Stale
  <1>3. CASE Reconnect
    <2>1. refreshed \in 2 .. MaxAge /\ spaced = MaxAge
      BY <1>3 DEF WatchInv, Reconnect, Stale, Retry, MaxAge, None
    <2> QED  BY <1>3, <2>1 DEF WatchInv, Reconnect, AfterReconnect, MaxAge, None, Stale, Retry
  <1> QED  BY <1>1, <1>2, <1>3 DEF Poll

LEMMA WatchStep ==
    ASSUME WatchInv, [LiveNext]_liveVars
    PROVE  WatchInv' /\ (spaced' < spaced => spaced >= Stale + Retry - 1)
  <1>1. CASE \E c \in Callers : NewCall(c) \/ CallStep(c)
    <2>1. PICK c \in Callers : NewCall(c) \/ CallStep(c)
      BY <1>1
    <2>2. UNCHANGED spaced
      BY <2>1
         DEF NewCall, CallStep, Select, ShowActive, EnsureEngine, SeedEngine, StartRecording,
             AddRecorded, RemoveRecorded, StopRecording, Unsubscribe, EnsureStream, FailToMake,
             MakeStream, ConnectStream, ReadDesired, NothingToSend, SendDesired, watchVars
    <2>3. WatchInv'
      BY <2>1, WatchCalls
    <2> QED  BY <2>2, <2>3 DEF WatchInv
  <1>2. CASE LoggedIn \/ ConnectionLost \/ \E s \in Tickers : HandleQuote(s)
    <2>1. UNCHANGED spaced
      BY <1>2 DEF LoggedIn, ConnectionLost, HandleQuote, watchVars
    <2> QED  BY <1>2, <2>1, WatchStream DEF WatchInv
  <1>3. CASE Tick
    <2>1. spaced' >= spaced
      BY <1>3 DEF Tick, Older, WatchInv, MaxAge
    <2> QED  BY <1>3, <2>1, WatchTick DEF WatchInv
  <1>4. CASE CloseMarket
    BY <1>4 DEF CloseMarket, WatchInv
  <1>5. CASE Poll
    BY <1>5, WatchPoll
  <1>6. CASE UNCHANGED liveVars
    BY <1>6 DEF WatchInv, liveVars, watchVars
  <1> QED  BY <1>1, <1>2, <1>3, <1>4, <1>5, <1>6 DEF LiveNext, LiveWork, Watch

\* Two reconnects the watchdog forces are 40 s apart, whatever the calls, the connection and the
\* quotes do and however late it polls.  (_check_stream_freshness_once.)
THEOREM ReconnectsHold == LiveSpec => ReconnectsSpaced
  <1>1. LiveInit => WatchInv
    BY WatchInit
  <1>2. WatchInv /\ [LiveNext]_liveVars => WatchInv'
    BY WatchStep
  <1>3. WatchInv /\ [LiveNext]_liveVars => [spaced' < spaced => spaced >= Stale + Retry - 1]_liveVars
    BY WatchStep
  <1> QED  BY <1>1, <1>2, <1>3, PTL DEF LiveSpec, ReconnectsSpaced

-----------------------------------------------------------------------------
(* Engines.                                                                *)

LEMMA TickersCounted ==
    Cardinality(Tickers) \in Nat /\ Cardinality(Tickers) >= 1 /\ 1 \in Engines
  <1>1. Cardinality(Tickers) \in Nat
    BY LiveAssumption, FS_CardinalityType
  <1>2. Cardinality(Tickers) # 0
    BY LiveAssumption, FS_EmptySet
  <1> QED  BY <1>1, <1>2 DEF Engines

LEMMA ManyEngines == IsFiniteSet(Engines) /\ Cardinality(Engines) = Cardinality(Tickers)
  BY TickersCounted, FS_Interval DEF Engines

\* A symbol without an engine leaves an engine that no symbol has.
LEMMA EngineLeft ==
    ASSUME engine \in [Tickers -> 0 .. Cardinality(Tickers)],
           NEW s \in Tickers, engine[s] = 0, NEW t \in Tickers, engine[t] = 1
    PROVE  \E e \in Engines : e # 1 /\ \A u \in Tickers : engine[u] # e
  <1> SUFFICES ASSUME \A e \in Engines : e = 1 \/ \E u \in Tickers : engine[u] = e
               PROVE  FALSE
    OBVIOUS
  <1> DEFINE S == Tickers \ {s}
  <1> DEFINE f == [u \in S |-> IF engine[u] = 0 THEN 1 ELSE engine[u]]
  <1>1. IsFiniteSet(S) /\ Cardinality(S) = Cardinality(Tickers) - 1
    BY LiveAssumption, FS_RemoveElement
  <1>2. f \in [S -> Engines]
    BY TickersCounted DEF Engines
  <1>3. \A e \in Engines : \E u \in S : f[u] = e
    <2> TAKE e \in Engines
    <2>1. CASE e = 1
      BY <2>1
    <2>2. CASE e # 1
      <3>1. PICK u \in Tickers : engine[u] = e
        BY <2>2
      <3>2. e # 0
        BY TickersCounted DEF Engines
      <3> QED  BY <3>1, <3>2
    <2> QED  BY <2>1, <2>2
  <1>4. f \in Surjection(S, Engines)
    BY <1>2, <1>3 DEF Surjection
  <1>5. Cardinality(Engines) <= Cardinality(S)
    <2> HIDE DEF f, S
    <2> QED  BY <1>1, <1>4, FS_Surjection
  <1> QED  BY <1>1, <1>5, ManyEngines, TickersCounted

LEMMA NewEngineFree ==
    ASSUME engine \in [Tickers -> 0 .. Cardinality(Tickers)], alias \in Engines, FirstEngine,
           NEW s \in Tickers, engine[s] = 0
    PROVE  /\ NewEngine \in Engines
           /\ \A t \in Tickers : engine[t] # NewEngine
           /\ (\A t \in Tickers : engine[t] = 0) => NewEngine = 1
  <1>1. CASE \A t \in Tickers : engine[t] = 0
    BY <1>1, TickersCounted DEF NewEngine, FirstEngine, Engines
  <1>2. CASE ~(\A t \in Tickers : engine[t] = 0)
    <2>1. PICK t \in Tickers : engine[t] = 1
      BY <1>2 DEF FirstEngine
    <2>2. \E e \in Engines : e # 1 /\ \A u \in Tickers : engine[u] # e
      BY <2>1, EngineLeft
    <2>3. NewEngine = CHOOSE e \in Engines : e # 1 /\ \A u \in Tickers : engine[u] # e
      BY <1>2 DEF NewEngine
    <2> QED  BY <1>2, <2>2, <2>3
  <1> QED  BY <1>1, <1>2

\* What a symbol's engine does to the others when it is made.
LEMMA EngineEnsured ==
    ASSUME engine \in [Tickers -> 0 .. Cardinality(Tickers)], alias \in Engines,
           OwnEngines, FirstEngine, NEW s \in Tickers, EnsureAnalysis(s)
    PROVE  /\ engine' \in [Tickers -> 0 .. Cardinality(Tickers)] /\ alias' \in Engines
           /\ OwnEngines' /\ FirstEngine'
           /\ engine'[s] \in Engines
           /\ \A t \in Tickers : engine[t] # 0 => engine'[t] = engine[t]
  <1>1. CASE engine[s] # 0
    <2>1. engine' = engine
      BY <1>1 DEF EnsureAnalysis, WithEngine
    <2>2. engine[s] \in Engines
      BY <1>1, TickersCounted DEF Engines
    <2>3. FirstEngine' /\ alias' \in Engines
      BY <1>1, <2>1, <2>2 DEF EnsureAnalysis, FirstEngine
    <2> QED  BY <2>1, <2>2, <2>3 DEF OwnEngines
  <1>2. CASE engine[s] = 0
    <2>1. engine' = [engine EXCEPT ![s] = NewEngine]
      BY <1>2 DEF EnsureAnalysis, WithEngine
    <2>2. /\ NewEngine \in Engines /\ \A t \in Tickers : engine[t] # NewEngine
          /\ (\A t \in Tickers : engine[t] = 0) => NewEngine = 1
      BY <1>2, NewEngineFree
    <2>3. NewEngine \in 0 .. Cardinality(Tickers) /\ NewEngine # 0
      BY <2>2, TickersCounted DEF Engines
    <2> HIDE DEF NewEngine
    <2>4. engine'[s] = NewEngine /\ \A t \in Tickers \ {s} : engine'[t] = engine[t]
      BY <2>1
    <2>5. alias' \in Engines
      BY <2>2, <2>4 DEF EnsureAnalysis
    <2>6. OwnEngines'
      BY <2>2, <2>4 DEF OwnEngines
    <2>7. FirstEngine'
      BY <1>2, <2>2, <2>3, <2>4 DEF FirstEngine
    <2> QED  BY <1>2, <2>1, <2>2, <2>3, <2>4, <2>5, <2>6, <2>7
  <1> QED  BY <1>1, <1>2

-----------------------------------------------------------------------------
(* Calls.                                                                  *)

LEMMA FrameSet ==
    ASSUME frame \in [Callers -> Frames], NEW c \in Callers, NEW f \in Frames,
           frame' = [frame EXCEPT ![c] = f]
    PROVE  frame' \in [Callers -> Frames] /\ frame'[c] = f /\ \A d \in Callers \ {c} : frame'[d] = frame[d]
  OBVIOUS

LEMMA CallStepped ==
    ASSUME frame \in [Callers -> Frames], NEW c \in Callers, NEW step \in Steps, Step(c, step)
    PROVE  /\ frame' \in [Callers -> Frames] /\ \A d \in Callers \ {c} : frame'[d] = frame[d]
           /\ frame'[c].at = step /\ frame'[c].sym = frame[c].sym
           /\ frame'[c].new = frame[c].new /\ frame'[c].syms = frame[c].syms
  <1> DEFINE f == [frame[c] EXCEPT !.at = step]
  <1>1. frame' = [frame EXCEPT ![c] = f]
    BY DEF Step
  <1>2. f \in Frames /\ f.at = step /\ f.sym = frame[c].sym /\ f.new = frame[c].new
        /\ f.syms = frame[c].syms
    BY DEF Frames
  <1> HIDE DEF f
  <1> QED  BY <1>1, <1>2

LEMMA CallReturned ==
    ASSUME frame \in [Callers -> Frames], NEW c \in Callers, NEW success, Return(c, success)
    PROVE  /\ frame' \in [Callers -> Frames] /\ \A d \in Callers \ {c} : frame'[d] = frame[d]
           /\ frame'[c] = Resting /\ frame'[c].at = "rest"
  BY DEF Return, Resting, Frames, Steps

LEMMA CallBegan ==
    ASSUME frame \in [Callers -> Frames], NEW c \in Callers, NEW step \in Steps,
           NEW s \in Tickers \cup {NoTicker}, NEW new \in BOOLEAN, Begin(c, step, s, new)
    PROVE  /\ frame' \in [Callers -> Frames] /\ \A d \in Callers \ {c} : frame'[d] = frame[d]
           /\ frame'[c].at = step /\ frame'[c].sym = s
           /\ overlapped' = (overlapped \/ NumberOfCalls > 0)
           /\ At(c, "rest") /\ UNCHANGED <<complete, made, engine, alias>>
  <1> DEFINE f == [at |-> step, sym |-> s, new |-> new, syms |-> {}]
  <1>1. frame' = [frame EXCEPT ![c] = f]
    BY DEF Begin
  <1>2. f \in Frames /\ f.at = step /\ f.sym = s
    BY DEF Frames
  <1> HIDE DEF f
  <1> QED  BY <1>1, <1>2 DEF Begin

\* A call that begins alone finds every other caller at rest.
LEMMA BeginsAlone ==
    ASSUME frame \in [Callers -> Frames], FramesKnow, ~(NumberOfCalls > 0)
    PROVE  AtRest
  <1> DEFINE S == {c \in Callers : frame[c] # Resting}
  <1>1. IsFiniteSet(S)
    BY LiveAssumption, FS_Subset
  <1>2. Cardinality(S) \in Nat /\ (Cardinality(S) = 0 => S = {})
    <2> HIDE DEF S
    <2> QED  BY <1>1, FS_EmptySet, FS_CardinalityType
  <1> QED  BY <1>2 DEF NumberOfCalls, AtRest

LEMMA RestsAtRest ==
    ASSUME frame \in [Callers -> Frames], FramesKnow
    PROVE  AtRest <=> \A c \in Callers : At(c, "rest")
  BY DEF AtRest, FramesKnow, FrameKnows, At, Resting

\* Calls that were not moved still know what they knew.
LEMMA KnowStill ==
    ASSUME FramesKnow, frame' \in [Callers -> Frames],
           NEW c \in Callers, \A d \in Callers \ {c} : frame'[d] = frame[d], FrameKnows(c)',
           \A s \in Tickers : engine[s] # 0 => engine'[s] # 0, made => made'
    PROVE  FramesKnow'
  <1> SUFFICES ASSUME NEW d \in Callers PROVE FrameKnows(d)'
    BY DEF FramesKnow
  <1>1. CASE d = c
    BY <1>1
  <1>2. CASE d # c
    <2>1. frame'[d] = frame[d] /\ FrameKnows(d)
      BY <1>2 DEF FramesKnow
    <2> QED  BY <2>1 DEF FrameKnows, At, Resting
  <1> QED  BY <1>1, <1>2

LEMMA AloneBegins ==
    ASSUME LiveInv, NEW c \in Callers, NEW step \in Steps \ {"rest", "send"},
           NEW s \in Tickers \cup {NoTicker}, NEW new \in BOOLEAN, Begin(c, step, s, new),
           step = "show" => active' = s,
           step # "show" => UNCHANGED <<active, shownActive>>
    PROVE  Alone'
  <1>1. /\ \A d \in Callers \ {c} : frame'[d] = frame[d]
        /\ frame'[c].at = step /\ frame'[c].sym = s
        /\ overlapped' = (overlapped \/ NumberOfCalls > 0)
    BY CallBegan DEF LiveInv, LiveTyped
  <1> SUFFICES ASSUME ~overlapped' PROVE Alone'
    BY DEF Alone
  <1>2. ~overlapped /\ AtRest
    BY <1>1, BeginsAlone DEF LiveInv, LiveTyped
  <1>3. \A d \in Callers : At(d, "rest")
    BY <1>2, RestsAtRest DEF LiveInv, LiveTyped
  <1>4. active \in {NoTicker, shownActive}
    BY <1>2, <1>3 DEF LiveInv, Alone, At
  <1>5. \A d \in Callers \ {c} : frame'[d].at = "rest"
    BY <1>1, <1>3 DEF At
  <1>6. frame'[c] # Resting
    BY <1>1 DEF Resting
  <1>7. ~AtRest'
    BY <1>6 DEF AtRest
  <1>8. step # "show" => active' \in {NoTicker, shownActive'}
    BY <1>4
  <1> QED  BY <1>1, <1>5, <1>7, <1>8 DEF Alone, At

LEMMA AloneSteps ==
    ASSUME LiveInv, NEW c \in Callers, ~At(c, "rest"), frame'[c].at \notin {"rest", "show"},
           \A d \in Callers \ {c} : frame'[d] = frame[d],
           UNCHANGED <<overlapped, active, analysis, recording>>,
           frame'[c].at = "send" => frame'[c].syms = Desired,
           IF At(c, "show") THEN shownActive' = frame[c].sym ELSE UNCHANGED shownActive
    PROVE  Alone'
  <1> SUFFICES ASSUME ~overlapped' PROVE Alone'
    BY DEF Alone
  <1>1. \A d \in Callers \ {c} : At(d, "rest")
    BY DEF LiveInv, Alone
  <1>2. \A d \in Callers \ {c} : frame'[d].at = "rest"
    BY <1>1 DEF At
  <1>3. active' \in {NoTicker, shownActive'}
    BY <1>1 DEF LiveInv, Alone, At
  <1>4. ~AtRest'
    BY DEF AtRest, Resting
  <1>5. UNCHANGED Desired
    BY DEF Desired
  <1> QED  BY <1>2, <1>3, <1>4, <1>5 DEF Alone, At

LEMMA AloneReturns ==
    ASSUME LiveInv, NEW c \in Callers, ~At(c, "rest"), ~At(c, "show"), NEW success \in BOOLEAN,
           Return(c, success),
           ~overlapped /\ success /\ made => Desired \in {wanted', {}}
    PROVE  Alone'
  <1> SUFFICES ASSUME ~overlapped' PROVE Alone'
    BY DEF Alone
  <1>1. /\ \A d \in Callers \ {c} : frame'[d] = frame[d]
        /\ frame'[c].at = "rest"
    BY CallReturned DEF LiveInv, LiveTyped
  <1>2. UNCHANGED <<overlapped, active, shownActive, Desired, made>> /\ complete' = success
    BY DEF Return, Desired
  <1>3. \A d \in Callers \ {c} : At(d, "rest")
    BY <1>2 DEF LiveInv, Alone
  <1>4. \A d \in Callers : frame'[d].at = "rest"
    BY <1>1, <1>3 DEF At
  <1>5. active' \in {NoTicker, shownActive'}
    BY <1>2, <1>3 DEF LiveInv, Alone, At
  <1> QED  BY <1>2, <1>4, <1>5 DEF Alone, At

LEMMA AloneStill ==
    ASSUME LiveInv,
           UNCHANGED <<frame, overlapped, complete, made, wanted, active, analysis, recording>>,
           shownActive # NoTicker => UNCHANGED shownActive
    PROVE  Alone'
  BY DEF LiveInv, Alone, At, AtRest, Resting, Desired

\* Steps that leave engines and the subscription as they are.
LEMMA EnginesStay ==
    ASSUME EnginesApart, UNCHANGED <<engine, alias, fed>>
    PROVE  EnginesApart'
  BY DEF EnginesApart, OwnEngines, FirstEngine, FedOwn

LEMMA ServerStays ==
    ASSUME ServerAgrees, UNCHANGED <<link, wanted, served>>
    PROVE  ServerAgrees'
  BY DEF ServerAgrees

LEMMA NewCallKeeps ==
    ASSUME LiveInv, NEW c \in Callers, NewCall(c)
    PROVE  LiveInv'
  <1>1. PICK step \in {"show", "ensure", "unsubscribe", "read"}, s \in Tickers \cup {NoTicker},
             new \in BOOLEAN :
          /\ Begin(c, step, s, new)
          /\ step \in {"show", "unsubscribe"} => s \in Tickers
          /\ step = "show" => active' = s
          /\ step # "show" => UNCHANGED <<active, shownActive>>
    <2>1. CASE StopRecording(c)
      BY <2>1 DEF StopRecording
    <2>2. CASE \E s \in Tickers : Select(c, s)
      BY <2>2 DEF Select
    <2>3. CASE \E s \in Tickers : StartRecording(c, s) \/ AddRecorded(c, s)
      BY <2>3 DEF StartRecording, AddRecorded
    <2>4. CASE \E s \in Tickers : RemoveRecorded(c, s)
      BY <2>4 DEF RemoveRecorded
    <2> QED  BY <2>1, <2>2, <2>3, <2>4 DEF NewCall
  <1>2. /\ frame' \in [Callers -> Frames] /\ \A d \in Callers \ {c} : frame'[d] = frame[d]
        /\ frame'[c].at = step /\ frame'[c].sym = s
        /\ overlapped' = (overlapped \/ NumberOfCalls > 0)
        /\ UNCHANGED <<complete, made, engine, alias>>
    <2>1. step \in Steps /\ frame \in [Callers -> Frames]
      BY DEF LiveInv, LiveTyped, Steps
    <2> QED  BY <1>1, <2>1, CallBegan
  <1>3. UNCHANGED <<fed, link, wanted, served, age, window, refreshed, spaced>>
    BY DEF NewCall, Select, StartRecording, AddRecorded, RemoveRecorded, StopRecording,
           StreamUnchanged, watchVars
  <1>4. /\ active' \in Tickers \cup {NoTicker} /\ analysis' \cup recording' \subseteq Tickers
        /\ (active' # NoTicker <=> analysis' # {}) /\ (recording' # {} => recorder')
        /\ shownActive' = shownActive /\ recorder' \in BOOLEAN
    BY LiveAssumption
       DEF NewCall, Select, StartRecording, AddRecorded, RemoveRecorded, StopRecording, LiveInv,
           LiveTyped, LiveTypeOK
  <1>5. LiveTyped'
    BY <1>2, <1>3, <1>4 DEF LiveInv, LiveTyped, LiveTypeOK, Engines
  <1>6. FrameKnows(c)'
    BY <1>1, <1>2 DEF FrameKnows, At
  <1>7. FramesKnow'
    BY <1>2, <1>6, KnowStill DEF LiveInv
  <1>8. Alone'
    BY <1>1, AloneBegins DEF Steps
  <1> QED  BY <1>2, <1>3, <1>5, <1>7, <1>8, EnginesStay, ServerStays DEF LiveInv

LEMMA ShowActiveKeeps ==
    ASSUME LiveInv, NEW c \in Callers, ShowActive(c)
    PROVE  LiveInv'
  <1>1. At(c, "show") /\ Step(c, "engine") /\ "engine" \in Steps /\ frame[c].sym \in Tickers
    BY DEF ShowActive, LiveInv, FramesKnow, FrameKnows, Steps, At
  <1>2. /\ frame' \in [Callers -> Frames] /\ \A d \in Callers \ {c} : frame'[d] = frame[d]
        /\ frame'[c].at = "engine" /\ frame'[c].sym = frame[c].sym
    BY <1>1, CallStepped DEF LiveInv, LiveTyped
  <1>3. /\ UNCHANGED <<active, analysis, recording, recorder, engine, alias, made, overlapped,
                       complete, fed, link, wanted, served, age, window, refreshed, spaced>>
        /\ shownActive' = frame[c].sym
    BY DEF ShowActive, StreamUnchanged, watchVars
  <1>4. LiveTyped'
    BY <1>1, <1>2, <1>3 DEF LiveInv, LiveTyped, LiveTypeOK, Engines
  <1>5. FrameKnows(c)'
    BY <1>1, <1>2 DEF FrameKnows, At
  <1>6. FramesKnow'
    BY <1>2, <1>3, <1>5, KnowStill DEF LiveInv
  <1>7. Alone'
    BY <1>1, <1>2, <1>3, AloneSteps DEF At
  <1> QED  BY <1>3, <1>4, <1>6, <1>7, EnginesStay, ServerStays DEF LiveInv

LEMMA EnsureEngineKeeps ==
    ASSUME LiveInv, NEW c \in Callers, EnsureEngine(c)
    PROVE  LiveInv'
  <1>1. PICK step \in {"seed", "ensure"} : Step(c, step)
    BY DEF EnsureEngine
  <1>2. At(c, "engine") /\ frame[c].sym \in Tickers /\ step \in Steps
    BY DEF EnsureEngine, LiveInv, FramesKnow, FrameKnows, Steps, At
  <1>3. /\ frame' \in [Callers -> Frames] /\ \A d \in Callers \ {c} : frame'[d] = frame[d]
        /\ frame'[c].at = step /\ frame'[c].sym = frame[c].sym
    BY <1>1, <1>2, CallStepped DEF LiveInv, LiveTyped
  <1>4. UNCHANGED <<active, shownActive, analysis, recording, recorder, made, overlapped, complete,
                    fed, link, wanted, served, age, window, refreshed, spaced>>
    BY DEF EnsureEngine, DataUnchanged, StreamUnchanged, watchVars
  <1>5. /\ engine' \in [Tickers -> 0 .. Cardinality(Tickers)] /\ alias' \in Engines
        /\ OwnEngines' /\ FirstEngine'
        /\ engine'[frame[c].sym] \in Engines
        /\ \A t \in Tickers : engine[t] # 0 => engine'[t] = engine[t]
    BY <1>2, EngineEnsured DEF EnsureEngine, LiveInv, LiveTyped, LiveTypeOK, EnginesApart
  <1>6. \A e \in Engines : e # 0
    BY TickersCounted DEF Engines
  <1>7. FedOwn'
    <2>1. \A e \in Engines : \A s \in fed[e] : s \in Tickers /\ engine[s] = e
      BY DEF LiveInv, LiveTyped, EnginesApart, FedOwn
    <2> QED  BY <1>4, <1>5, <1>6, <2>1 DEF FedOwn, Engines
  <1>8. LiveTyped'
    BY <1>3, <1>4, <1>5 DEF LiveInv, LiveTyped, LiveTypeOK, Engines
  <1>9. FrameKnows(c)'
    BY <1>2, <1>3, <1>5, <1>6 DEF FrameKnows, At
  <1>10. FramesKnow'
    BY <1>3, <1>4, <1>5, <1>9, KnowStill DEF LiveInv
  <1>11. Alone'
    BY <1>2, <1>3, <1>4, AloneSteps DEF At
  <1> QED  BY <1>4, <1>5, <1>7, <1>8, <1>10, <1>11, ServerStays DEF LiveInv, EnginesApart

LEMMA SeedEngineKeeps ==
    ASSUME LiveInv, NEW c \in Callers, SeedEngine(c)
    PROVE  LiveInv'
  <1> DEFINE s == frame[c].sym
  <1>1. At(c, "seed") /\ Step(c, "ensure") /\ s \in Tickers /\ "ensure" \in Steps
        /\ engine[s] # 0
    BY DEF SeedEngine, LiveInv, FramesKnow, FrameKnows, Steps, At
  <1>2. /\ frame' \in [Callers -> Frames] /\ \A d \in Callers \ {c} : frame'[d] = frame[d]
        /\ frame'[c].at = "ensure" /\ frame'[c].sym = s
    BY <1>1, CallStepped DEF LiveInv, LiveTyped
  <1>3. UNCHANGED <<active, shownActive, analysis, recording, recorder, made, overlapped, complete,
                    engine, alias, link, wanted, served, age, window, refreshed, spaced>>
    BY DEF SeedEngine, DataUnchanged, StreamUnchanged, watchVars
  <1>4. fed' = [fed EXCEPT ![engine[s]] = @ \cup {s}] /\ engine[s] \in Engines
    BY <1>1, TickersCounted DEF SeedEngine, LiveInv, LiveTyped, LiveTypeOK, Engines
  <1>5. fed' \in [Engines -> SUBSET Tickers] /\ FedOwn'
    <2> HIDE DEF s
    <2> QED  BY <1>1, <1>3, <1>4 DEF LiveInv, LiveTyped, EnginesApart, FedOwn, Engines
  <1>6. LiveTyped'
    BY <1>2, <1>3, <1>5 DEF LiveInv, LiveTyped, LiveTypeOK, Engines
  <1>7. FrameKnows(c)'
    BY <1>2 DEF FrameKnows, At
  <1>8. FramesKnow'
    BY <1>2, <1>3, <1>7, KnowStill DEF LiveInv
  <1>9. Alone'
    BY <1>1, <1>2, <1>3, AloneSteps DEF At
  <1>10. OwnEngines' /\ FirstEngine'
    BY <1>3 DEF LiveInv, EnginesApart, OwnEngines, FirstEngine
  <1> QED  BY <1>3, <1>5, <1>6, <1>8, <1>9, <1>10, ServerStays DEF LiveInv, EnginesApart

LEMMA UnsubscribeKeeps ==
    ASSUME LiveInv, NEW c \in Callers, Unsubscribe(c)
    PROVE  LiveInv'
  <1>1. At(c, "unsubscribe") /\ Step(c, "read") /\ "read" \in Steps
    BY DEF Unsubscribe, Steps
  <1>2. /\ frame' \in [Callers -> Frames] /\ \A d \in Callers \ {c} : frame'[d] = frame[d]
        /\ frame'[c].at = "read"
    BY <1>1, CallStepped DEF LiveInv, LiveTyped
  <1>3. UNCHANGED <<active, shownActive, analysis, recording, recorder, made, overlapped, complete,
                    fed, engine, alias, link, age, window, refreshed, spaced>>
    BY DEF Unsubscribe, DataUnchanged, watchVars
  <1>4. /\ wanted' \subseteq Tickers /\ served' \subseteq Tickers /\ ServerAgrees'
    BY <1>3 DEF Unsubscribe, LiveInv, LiveTyped, LiveTypeOK, ServerAgrees
  <1>5. LiveTyped'
    BY <1>2, <1>3, <1>4 DEF LiveInv, LiveTyped, LiveTypeOK, Engines
  <1>6. FrameKnows(c)'
    BY <1>2 DEF FrameKnows, At
  <1>7. FramesKnow'
    BY <1>2, <1>3, <1>6, KnowStill DEF LiveInv
  <1>8. Alone'
    BY <1>1, <1>2, <1>3, AloneSteps DEF At
  <1> QED  BY <1>3, <1>4, <1>5, <1>7, <1>8, EnginesStay DEF LiveInv

LEMMA EnsureStreamKeeps ==
    ASSUME LiveInv, NEW c \in Callers, EnsureStream(c)
    PROVE  LiveInv'
  <1>1. PICK step \in {"read", "make"} : Step(c, step)
    BY DEF EnsureStream
  <1>2. At(c, "ensure") /\ step \in Steps
    BY DEF EnsureStream, Steps
  <1>3. /\ frame' \in [Callers -> Frames] /\ \A d \in Callers \ {c} : frame'[d] = frame[d]
        /\ frame'[c].at = step
    BY <1>1, <1>2, CallStepped DEF LiveInv, LiveTyped
  <1>4. UNCHANGED <<active, shownActive, analysis, recording, recorder, made, overlapped, complete,
                    fed, engine, alias, link, wanted, served, age, window, refreshed, spaced>>
    BY DEF EnsureStream, StreamUnchanged, watchVars
  <1>5. LiveTyped'
    BY <1>3, <1>4 DEF LiveInv, LiveTyped, LiveTypeOK, Engines
  <1>6. FrameKnows(c)'
    BY <1>3 DEF FrameKnows, At
  <1>7. FramesKnow'
    BY <1>3, <1>4, <1>6, KnowStill DEF LiveInv
  <1>8. Alone'
    BY <1>2, <1>3, <1>4, AloneSteps DEF At
  <1> QED  BY <1>4, <1>5, <1>7, <1>8, EnginesStay, ServerStays DEF LiveInv

LEMMA MakeStreamKeeps ==
    ASSUME LiveInv, NEW c \in Callers, MakeStream(c)
    PROVE  LiveInv'
  <1>1. PICK step \in {"read", "connect"} : Step(c, step)
    BY DEF MakeStream
  <1>2. At(c, "make") /\ step \in Steps
    BY DEF MakeStream, Steps
  <1>3. /\ frame' \in [Callers -> Frames] /\ \A d \in Callers \ {c} : frame'[d] = frame[d]
        /\ frame'[c].at = step
    BY <1>1, <1>2, CallStepped DEF LiveInv, LiveTyped
  <1>4. /\ UNCHANGED <<active, shownActive, analysis, recording, recorder, overlapped, complete, fed,
                       engine, alias, link, wanted, served, age, window, refreshed, spaced>>
        /\ made' = TRUE
    BY DEF MakeStream, DataUnchanged, StreamUnchanged, watchVars
  <1>5. LiveTyped'
    BY <1>3, <1>4 DEF LiveInv, LiveTyped, LiveTypeOK, Engines
  <1>6. FrameKnows(c)'
    BY <1>3, <1>4 DEF FrameKnows, At
  <1>7. FramesKnow'
    BY <1>3, <1>4, <1>6, KnowStill DEF LiveInv
  <1>8. Alone'
    BY <1>2, <1>3, <1>4, AloneSteps DEF At
  <1> QED  BY <1>4, <1>5, <1>7, <1>8, EnginesStay, ServerStays DEF LiveInv

LEMMA ConnectStreamKeeps ==
    ASSUME LiveInv, NEW c \in Callers, ConnectStream(c)
    PROVE  LiveInv'
  <1>1. At(c, "connect") /\ Step(c, "read") /\ "read" \in Steps /\ made
    BY DEF ConnectStream, Steps, LiveInv, FramesKnow, FrameKnows, At
  <1>2. /\ frame' \in [Callers -> Frames] /\ \A d \in Callers \ {c} : frame'[d] = frame[d]
        /\ frame'[c].at = "read"
    BY <1>1, CallStepped DEF LiveInv, LiveTyped
  <1>3. /\ UNCHANGED <<active, shownActive, analysis, recording, recorder, made, overlapped, complete,
                       fed, engine, alias, served, age, window, refreshed, spaced>>
        /\ wanted' = Desired /\ link' = "login"
    BY DEF ConnectStream, DataUnchanged, watchVars
  <1>4. LiveTyped'
    BY <1>1, <1>2, <1>3 DEF LiveInv, LiveTyped, LiveTypeOK, Engines, Desired
  <1>5. FrameKnows(c)'
    BY <1>2 DEF FrameKnows, At
  <1>6. FramesKnow'
    BY <1>2, <1>3, <1>5, KnowStill DEF LiveInv
  <1>7. Alone'
    BY <1>1, <1>2, <1>3, AloneSteps DEF At
  <1>8. ServerAgrees'
    BY <1>3 DEF ServerAgrees
  <1> QED  BY <1>3, <1>4, <1>6, <1>7, <1>8, EnginesStay DEF LiveInv

LEMMA ReadDesiredKeeps ==
    ASSUME LiveInv, NEW c \in Callers, ReadDesired(c)
    PROVE  LiveInv'
  <1> DEFINE f == [frame[c] EXCEPT !.at = "send", !.syms = Desired]
  <1>1. At(c, "read") /\ made /\ frame' = [frame EXCEPT ![c] = f] /\ Desired \subseteq Tickers
    BY DEF ReadDesired, LiveInv, LiveTyped, LiveTypeOK, Desired
  <1>2. f \in Frames /\ f.at = "send" /\ f.syms = Desired
    BY <1>1 DEF LiveInv, LiveTyped, Frames, Steps
  <1>3. /\ frame' \in [Callers -> Frames] /\ \A d \in Callers \ {c} : frame'[d] = frame[d]
        /\ frame'[c].at = "send" /\ frame'[c].syms = Desired
    <2> HIDE DEF f
    <2> QED  BY <1>1, <1>2 DEF LiveInv, LiveTyped
  <1>4. UNCHANGED <<active, shownActive, analysis, recording, recorder, made, overlapped, complete,
                    fed, engine, alias, link, wanted, served, age, window, refreshed, spaced>>
    BY DEF ReadDesired, DataUnchanged, StreamUnchanged, watchVars
  <1>5. LiveTyped'
    BY <1>3, <1>4 DEF LiveInv, LiveTyped, LiveTypeOK, Engines
  <1>6. FrameKnows(c)'
    BY <1>1, <1>3, <1>4 DEF FrameKnows, At
  <1>7. FramesKnow'
    BY <1>3, <1>4, <1>6, KnowStill DEF LiveInv
  <1>8. Alone'
    BY <1>1, <1>3, <1>4, AloneSteps DEF At
  <1> QED  BY <1>4, <1>5, <1>7, <1>8, EnginesStay, ServerStays DEF LiveInv

\* The three ways a call returns.
LEMMA ReturnKeeps ==
    ASSUME LiveInv, NEW c \in Callers, FailToMake(c) \/ NothingToSend(c) \/ SendDesired(c)
    PROVE  LiveInv'
  <1>1. PICK success \in BOOLEAN : Return(c, success) /\ (FailToMake(c) => ~success)
    BY DEF FailToMake, NothingToSend, SendDesired
  <1>2. ~At(c, "rest") /\ ~At(c, "show")
    BY DEF FailToMake, NothingToSend, SendDesired, At
  <1>3. /\ frame' \in [Callers -> Frames] /\ \A d \in Callers \ {c} : frame'[d] = frame[d]
        /\ frame'[c] = Resting /\ frame'[c].at = "rest"
    BY <1>1, CallReturned DEF LiveInv, LiveTyped
  <1>4. /\ UNCHANGED <<active, shownActive, analysis, recording, recorder, made, overlapped, fed,
                       engine, alias, link, age, window, refreshed, spaced>>
        /\ complete' = success
    BY <1>1 DEF FailToMake, NothingToSend, SendDesired, Return, StreamUnchanged, watchVars
  <1>5. /\ wanted' \subseteq Tickers /\ served' \subseteq Tickers /\ ServerAgrees'
    <2>1. CASE SendDesired(c)
      BY <2>1, <1>4
         DEF SendDesired, Subscription, LiveInv, LiveTyped, LiveTypeOK, ServerAgrees, Frames
    <2>2. CASE FailToMake(c) \/ NothingToSend(c)
      BY <2>2, <1>4
         DEF FailToMake, NothingToSend, StreamUnchanged, LiveInv, LiveTyped, LiveTypeOK, ServerAgrees
    <2> QED  BY <2>1, <2>2
  <1>6. LiveTyped'
    BY <1>3, <1>4, <1>5 DEF LiveInv, LiveTyped, LiveTypeOK, Engines
  <1>7. FrameKnows(c)'
    BY <1>3 DEF FrameKnows, At, Resting
  <1>8. FramesKnow'
    BY <1>3, <1>4, <1>7, KnowStill DEF LiveInv
  <1>9. ~overlapped /\ success /\ made => Desired \in {wanted', {}}
    <2>1. CASE SendDesired(c)
      BY <2>1 DEF SendDesired, Subscription, LiveInv, Alone
    <2>2. CASE FailToMake(c) \/ NothingToSend(c)
      BY <2>2, <1>1 DEF NothingToSend
    <2> QED  BY <2>1, <2>2
  <1>10. Alone'
    BY <1>1, <1>2, <1>9, AloneReturns
  <1> QED  BY <1>4, <1>5, <1>6, <1>8, <1>10, EnginesStay DEF LiveInv

-----------------------------------------------------------------------------
(* The stream and the watchdog.                                            *)

LEMMA LinkKeeps ==
    ASSUME LiveInv, LoggedIn \/ ConnectionLost \/ Tick \/ CloseMarket \/ NotSilent \/ Refresh
                    \/ Reconnect, WatchInv'
    PROVE  LiveInv'
  <1>1. UNCHANGED <<active, shownActive, analysis, recording, recorder, made, frame, overlapped,
                    complete, engine, alias, fed, wanted>>
    BY DEF LoggedIn, ConnectionLost, Tick, CloseMarket, NotSilent, Refresh, Reconnect, liveCallVars
  <1>2. /\ link' \in {"down", "login", "connected"} /\ (link' # "down" => made')
        /\ served' \subseteq Tickers /\ ServerAgrees'
    BY <1>1 DEF LoggedIn, ConnectionLost, Tick, CloseMarket, NotSilent, Refresh, FirstSilent,
           Reconnect, Silent, LiveInv, LiveTyped, LiveTypeOK, ServerAgrees
  <1>3. LiveTyped'
    BY <1>1, <1>2 DEF WatchInv, LiveInv, LiveTyped, LiveTypeOK, Engines
  <1>4. FramesKnow'
    BY <1>1 DEF LiveInv, FramesKnow, FrameKnows, At, Resting
  <1>5. Alone'
    BY <1>1, AloneStill
  <1> QED  BY <1>1, <1>2, <1>3, <1>4, <1>5, EnginesStay DEF LiveInv

LEMMA QuoteKeeps ==
    ASSUME LiveInv, NEW s \in Tickers, HandleQuote(s)
    PROVE  LiveInv'
  <1>1. /\ UNCHANGED <<active, analysis, recording, recorder, made, frame, overlapped, complete, link,
                       wanted, served, window, refreshed, spaced>>
        /\ age' = 0 /\ shownActive' \in Tickers \cup {NoTicker}
        /\ shownActive # NoTicker => UNCHANGED shownActive
    BY DEF HandleQuote, watchVars, LiveInv, LiveTyped
  <1>2. /\ engine' \in [Tickers -> 0 .. Cardinality(Tickers)] /\ alias' \in Engines
        /\ fed' \in [Engines -> SUBSET Tickers] /\ EnginesApart'
        /\ \A t \in Tickers : engine[t] # 0 => engine'[t] # 0
    <2>1. CASE s \in analysis
      <3>1. /\ engine' \in [Tickers -> 0 .. Cardinality(Tickers)] /\ alias' \in Engines
            /\ OwnEngines' /\ FirstEngine'
            /\ engine'[s] \in Engines
            /\ \A t \in Tickers : engine[t] # 0 => engine'[t] = engine[t]
        BY <2>1, EngineEnsured DEF HandleQuote, LiveInv, LiveTyped, LiveTypeOK, EnginesApart
      <3>2. fed' = [fed EXCEPT ![engine'[s]] = @ \cup {s}]
        BY <2>1 DEF HandleQuote
      <3>3. \A e \in Engines : \A t \in fed[e] : t \in Tickers /\ engine[t] = e /\ e # 0
        BY TickersCounted DEF LiveInv, LiveTyped, EnginesApart, FedOwn, Engines
      <3>4. \A e \in Engines : \A t \in fed[e] : engine'[t] = e
        BY <3>1, <3>3
      <3>5. fed' \in [Engines -> SUBSET Tickers] /\ FedOwn'
        BY <3>1, <3>2, <3>4 DEF LiveInv, LiveTyped, FedOwn, Engines
      <3> QED  BY <3>1, <3>5 DEF EnginesApart
    <2>2. CASE s \notin analysis
      <3>1. UNCHANGED <<engine, alias, fed>>
        BY <2>2 DEF HandleQuote
      <3>2. EnginesApart'
        BY <3>1, EnginesStay DEF LiveInv
      <3> QED  BY <3>1, <3>2 DEF LiveInv, LiveTyped, LiveTypeOK, Engines
    <2> QED  BY <2>1, <2>2
  <1>3. LiveTyped'
    BY <1>1, <1>2 DEF LiveInv, LiveTyped, LiveTypeOK, Engines, MaxAge
  <1>4. FramesKnow'
    BY <1>1, <1>2 DEF LiveInv, FramesKnow, FrameKnows, At, Resting
  <1>5. Alone'
    BY <1>1, AloneStill
  <1> QED  BY <1>1, <1>2, <1>3, <1>4, <1>5, ServerStays DEF LiveInv

LEMMA InitLive == LiveInit => LiveInv
  <1> SUFFICES ASSUME LiveInit PROVE LiveInv
    OBVIOUS
  <1>1. frame \in [Callers -> Frames] /\ \A c \in Callers : frame[c] = Resting
    BY DEF LiveInit, Resting, Frames, Steps
  <1>2. /\ fed \in [Engines -> SUBSET Tickers] /\ \A e \in Engines : fed[e] = {}
        /\ engine \in [Tickers -> 0 .. Cardinality(Tickers)] /\ \A s \in Tickers : engine[s] = 0
    BY TickersCounted DEF LiveInit
  <1>3. LiveTyped
    <2>1. /\ active = NoTicker /\ shownActive = NoTicker /\ analysis = {} /\ recording = {}
          /\ recorder = FALSE /\ made = FALSE /\ overlapped = FALSE /\ complete = TRUE /\ alias = 1
          /\ link = "down" /\ wanted = {} /\ served = {} /\ age = 0 /\ refreshed = -1
      BY DEF LiveInit, None
    <2>2. LiveTypeOK
      BY <1>2, <2>1, TickersCounted DEF LiveTypeOK, MaxAge
    <2>3. {recorder, made, overlapped, complete} \subseteq BOOLEAN
      BY <2>1, Zenon
    <2> QED  BY <1>1, <1>2, <2>1, <2>2, <2>3 DEF LiveTyped
  <1>4. FramesKnow
    BY <1>1 DEF FramesKnow, FrameKnows, At, Resting
  <1>5. EnginesApart
    BY <1>2 DEF EnginesApart, OwnEngines, FirstEngine, FedOwn, LiveInit
  <1>6. ServerAgrees /\ Alone
    BY <1>1 DEF LiveInit, ServerAgrees, Alone, At, Resting
  <1> QED  BY <1>3, <1>4, <1>5, <1>6 DEF LiveInv

LEMMA LiveStep == LiveInv /\ WatchInv /\ WatchInv' /\ [LiveNext]_liveVars => LiveInv'
  <1> SUFFICES ASSUME LiveInv, WatchInv', [LiveNext]_liveVars PROVE LiveInv'
    OBVIOUS
  <1>1. CASE \E c \in Callers : NewCall(c)
    BY <1>1, NewCallKeeps
  <1>2. CASE \E c \in Callers : CallStep(c)
    BY <1>2, ShowActiveKeeps, EnsureEngineKeeps, SeedEngineKeeps, UnsubscribeKeeps,
       EnsureStreamKeeps, MakeStreamKeeps, ConnectStreamKeeps, ReadDesiredKeeps, ReturnKeeps
       DEF CallStep
  <1>3. CASE \E s \in Tickers : HandleQuote(s)
    BY <1>3, QuoteKeeps
  <1>4. CASE LoggedIn \/ ConnectionLost \/ Watch
    BY <1>4, LinkKeeps DEF Watch, Poll
  <1>5. CASE UNCHANGED liveVars
    <2>1. UNCHANGED <<active, shownActive, analysis, recording, recorder, made, frame, overlapped,
                      complete, engine, alias, fed, link, wanted, served, age, refreshed>>
      BY <1>5 DEF liveVars, liveCallVars, watchVars
    <2>2. Alone'
      BY <2>1, AloneStill
    <2>3. LiveTyped' /\ FramesKnow'
      BY <2>1 DEF LiveInv, LiveTyped, LiveTypeOK, Engines, FramesKnow, FrameKnows, At, Resting
    <2> QED  BY <2>1, <2>2, <2>3, EnginesStay, ServerStays DEF LiveInv
  <1> QED  BY <1>1, <1>2, <1>3, <1>4, <1>5 DEF LiveNext, LiveWork

LEMMA LiveServed == LiveInv => CallsServed
  <1> SUFFICES ASSUME LiveInv PROVE CallsServed
    OBVIOUS
  <1>1. OwnEngine
    <2> SUFFICES ASSUME NEW e \in Engines PROVE Cardinality(fed[e]) <= 1
      BY DEF OwnEngine
    <2>1. \A s, t \in fed[e] : s = t
      BY TickersCounted DEF LiveInv, LiveTyped, EnginesApart, OwnEngines, FedOwn, Engines
    <2> QED  BY <2>1, AtMostOne
  <1>2. SerialCallsServed
    <2> SUFFICES ASSUME AtRest, ~overlapped, complete, made
                 PROVE  /\ Desired \in {wanted, {}}
                        /\ link = "connected" => served = wanted
                        /\ active \in {NoTicker, shownActive}
      BY DEF SerialCallsServed
    <2>1. \A c \in Callers : ~At(c, "show")
      BY DEF AtRest, At, Resting
    <2> QED  BY <2>1 DEF LiveInv, Alone, ServerAgrees
  <1> QED  BY <1>1, <1>2 DEF CallsServed, LiveInv, LiveTyped

\* Every symbol has an engine of its own, and calls that do not overlap leave the stream with the
\* symbols they asked for: for any symbols and callers, any number of calls, quotes that come at any
\* time and a connection that is lost at any time.  (select_symbol, add_recording_symbol.)
THEOREM CallsAreServed == LiveSpec => []CallsServed
  <1>1. LiveInit => LiveInv /\ WatchInv
    BY InitLive, WatchInit
  <1>2. LiveInv /\ WatchInv /\ [LiveNext]_liveVars => (LiveInv /\ WatchInv)'
    BY LiveStep, WatchStep
  <1>3. LiveInv => CallsServed
    BY LiveServed
  <1> QED  BY <1>1, <1>2, <1>3, PTL DEF LiveSpec

-----------------------------------------------------------------------------
(* Fundamentals: what caches, tasks and labels hold.                       *)

Entries == [status : {"none", "OK", "NOT_AVAILABLE"}, at : Nat]
Caches == [KindSet -> [Issues -> Entries]]
Results == [status : {"none", "OK", "NOT_AVAILABLE", "FAILURE"}, at : Nat]
LookupTasks ==
    [pc : {"off", "start", "ask", "store", "write", "show"}, of : Issues \cup {NoIssue},
     client : 0 .. MaxClients, kind : 1 .. 3, try : 1 .. 2, got : Results]
FundTyped ==
    /\ asked \in Issues \cup {NoIssue} /\ client \in 0 .. MaxClients
    /\ clock \in 0 .. MaxClock /\ lookups \in 0 .. MaxLookups
    /\ cache \in [1 .. MaxClients -> Caches] /\ disk \in [torn : BOOLEAN, kept : Caches]
    /\ lookup \in [1 .. MaxLookups -> LookupTasks]
    /\ known \in [Issues -> SUBSET {1, 2}]

\* An entry is of the past, and one that denies a float is right unless a path failed.
Says(entry, k, s) ==
    /\ entry.at <= clock
    /\ entry.status = "NOT_AVAILABLE" => k = "float" /\ (s \notin failed => known[s] = {})
CachesSay ==
    \A k \in KindSet, s \in Issues :
        Says(disk.kept[k][s], k, s) /\ \A c \in 1 .. MaxClients : Says(cache[c][k][s], k, s)

\* What a task knows: the first path has no float of an issue it asks the second one for, an
\* answer to be kept was fetched just now, and an answer to be shown is within its lifetime.
TaskKnows(t) ==
    LET task == lookup[t] IN
    /\ task.pc # "off" => task.of \in Issues
    /\ task.pc \in {"ask", "store", "write"} => task.client # 0
    /\ task.try <= Paths[Current(t)] /\ (task.pc = "start" => task.try = 1)
    /\ task.pc = "ask" /\ task.try = 2 /\ Current(t) = "float" /\ task.of \notin failed =>
          1 \notin known[task.of]
    /\ task.pc \in {"store", "write"} =>
          /\ task.got.at = clock /\ task.got.status \in {"OK", "NOT_AVAILABLE"}
          /\ Says(task.got, Current(t), task.of)
    /\ task.pc = "show" /\ task.got.status = "OK" => clock - task.got.at <= Ttl[Current(t)]
TasksKnow == \A t \in 1 .. MaxLookups : TaskKnows(t)

LabelFresh(k) == panel[k] # NoFigure => panel[k].age <= Ttl[k]
LabelOwn(k) == panel[k] # NoFigure => panel[k].of = asked /\ figures[k] = asked
Labels ==
    /\ panel \in [KindSet -> [of : Issues \cup {NoIssue}, age : Int]]
    /\ figures \in [KindSet -> Issues \cup {NoIssue}]
    /\ \A k \in KindSet : LabelFresh(k) /\ (~crossed => LabelOwn(k))
    /\ ~crossed => \A t \in Running : lookup[t].of = asked

FundInv == FundTyped /\ CachesSay /\ TasksKnow /\ Labels

LEMMA KindsTyped ==
    /\ \A n \in 1 .. 3 : Kinds[n] \in KindSet
    /\ \A k \in KindSet : Ttl[k] \in Nat /\ Paths[k] \in 1 .. 2
  BY DEF Kinds, KindSet, Ttl, Paths

LEMMA EntriesTyped ==
    /\ Absent \in Entries /\ Absent \in Results /\ Failure \in Results
    /\ Absent.status = "none" /\ Absent.at = 0 /\ Failure.status = "FAILURE"
    /\ Empty \in Caches /\ (\A k \in KindSet, s \in Issues : Empty[k][s] = Absent)
    /\ \A entry \in Entries : entry \in Results
  <1>1. /\ Absent \in Entries /\ Absent \in Results /\ Failure \in Results
        /\ Absent.status = "none" /\ Absent.at = 0 /\ Failure.status = "FAILURE"
        /\ \A entry \in Entries : entry \in Results
    BY DEF Absent, Failure, Entries, Results
  <1> HIDE DEF Entries, Absent
  <1>2. Empty \in Caches /\ \A k \in KindSet, s \in Issues : Empty[k][s] = Absent
    BY <1>1 DEF Empty, Caches
  <1> QED  BY <1>1, <1>2

LEMMA TaskTyped ==
    ASSUME FundTyped, NEW t \in 1 .. MaxLookups
    PROVE  /\ lookup[t] \in LookupTasks /\ Current(t) \in KindSet
           /\ lookup[t].of \in Issues \cup {NoIssue} /\ lookup[t].client \in 0 .. MaxClients
           /\ lookup[t].kind \in 1 .. 3 /\ lookup[t].try \in 1 .. 2 /\ lookup[t].got \in Results
           /\ lookup[t].got.at \in Nat
           /\ Ttl[Current(t)] \in Nat /\ Paths[Current(t)] \in 1 .. 2
  BY KindsTyped DEF FundTyped, LookupTasks, Current, Results

LEMMA TaskSet ==
    ASSUME FundTyped, NEW t \in 1 .. MaxLookups, NEW task \in LookupTasks, Lookup(t, task)
    PROVE  /\ lookup' \in [1 .. MaxLookups -> LookupTasks] /\ lookup'[t] = task
           /\ \A u \in (1 .. MaxLookups) \ {t} : lookup'[u] = lookup[u]
  BY DEF FundTyped, Lookup

LEMMA NoLookupTyped ==
    /\ NoLookup \in LookupTasks /\ NoLookup.pc = "off" /\ NoLookup.try = 1 /\ NoLookup.kind = 1
    /\ NoLookup.client = 0 /\ NoLookup.got = Absent
  <1>1. {0} \subseteq 0 .. MaxClients
    BY FundamentalsAssumption
  <1> QED  BY <1>1, EntriesTyped DEF NoLookup, LookupTasks

\* What others know stays true as paths fail.
LEMMA OthersKnow ==
    ASSUME TasksKnow, NEW t \in 1 .. MaxLookups, TaskKnows(t)',
           \A u \in (1 .. MaxLookups) \ {t} : lookup'[u] = lookup[u],
           UNCHANGED <<clock, known>>, failed \subseteq failed'
    PROVE  TasksKnow'
  <1> SUFFICES ASSUME NEW u \in 1 .. MaxLookups, u # t PROVE TaskKnows(u)'
    BY DEF TasksKnow
  <1>1. lookup'[u] = lookup[u] /\ TaskKnows(u)
    BY DEF TasksKnow
  <1>2. Current(u)' = Current(u)
    BY <1>1 DEF Current
  <1>3. \A entry, k, s : Says(entry, k, s) => Says(entry, k, s)'
    BY DEF Says
  <1> QED  BY <1>1, <1>2, <1>3 DEF TaskKnows

LEMMA CachesStay ==
    ASSUME CachesSay, FundTyped, UNCHANGED <<cache, disk, known>>, clock' \in Nat, clock <= clock',
           failed \subseteq failed'
    PROVE  CachesSay'
  <1> SUFFICES ASSUME NEW k \in KindSet, NEW s \in Issues
               PROVE  /\ Says(disk.kept[k][s], k, s)'
                      /\ \A c \in 1 .. MaxClients : Says(cache[c][k][s], k, s)'
    BY DEF CachesSay
  <1>1. clock \in Nat /\ disk.kept[k][s].at \in Nat
    BY DEF FundTyped, Caches, Entries
  <1>2. Says(disk.kept[k][s], k, s)'
    BY <1>1 DEF CachesSay, Says
  <1>3. ASSUME NEW c \in 1 .. MaxClients PROVE Says(cache[c][k][s], k, s)'
    <2>1. cache[c] \in Caches
      BY DEF FundTyped
    <2>2. cache[c][k][s] \in Entries
      BY <2>1 DEF Caches
    <2>3. cache[c][k][s].at \in Nat /\ Says(cache[c][k][s], k, s)
      BY <2>2 DEF Entries, CachesSay
    <2> QED  BY <1>1, <2>3 DEF Says
  <1> QED  BY <1>2, <1>3

LEMMA LabelsStay ==
    ASSUME Labels, NEW t \in 1 .. MaxLookups, UNCHANGED <<panel, figures, asked, crossed>>,
           \A u \in (1 .. MaxLookups) \ {t} : lookup'[u] = lookup[u],
           lookup[t].pc # "off", lookup'[t].of = lookup[t].of
    PROVE  Labels'
  BY DEF Labels, LabelFresh, LabelOwn, Running

\* A task's step that changes its record only.
LEMMA TaskMoves ==
    ASSUME FundInv, NEW t \in 1 .. MaxLookups, NEW task \in LookupTasks, Lookup(t, task),
           lookup[t].pc # "off", task.of = lookup[t].of, TaskKnows(t)',
           UNCHANGED <<asked, client, cache, disk, lookups, panel, figures, clock, known, crossed>>,
           failed \subseteq failed'
    PROVE  FundInv'
  <1>1. /\ lookup' \in [1 .. MaxLookups -> LookupTasks] /\ lookup'[t] = task
        /\ \A u \in (1 .. MaxLookups) \ {t} : lookup'[u] = lookup[u]
    BY TaskSet DEF FundInv
  <1>2. FundTyped'
    BY <1>1 DEF FundInv, FundTyped
  <1>3. CachesSay'
    <2>1. clock' \in Nat /\ clock <= clock'
      BY DEF FundInv, FundTyped
    <2> QED  BY <2>1, CachesStay DEF FundInv
  <1>4. TasksKnow'
    BY <1>1, OthersKnow DEF FundInv
  <1>5. Labels'
    BY <1>1, LabelsStay DEF FundInv
  <1> QED  BY <1>2, <1>3, <1>4, <1>5 DEF FundInv

LEMMA StartKeeps ==
    ASSUME FundInv, NEW t \in 1 .. MaxLookups, Start(t)
    PROVE  FundInv'
  <1> DEFINE task == [lookup[t] EXCEPT !.pc = IF client = 0 THEN "show" ELSE "ask",
                                       !.client = client, !.got = Failure]
  <1>1. lookup[t] \in LookupTasks /\ Failure \in Results /\ client \in 0 .. MaxClients
        /\ lookup[t].pc = "start" /\ Failure.status = "FAILURE"
    BY TaskTyped, EntriesTyped DEF FundInv, FundTyped, Start
  <1>2. /\ task \in LookupTasks /\ task.of = lookup[t].of /\ task.client = client
        /\ task.pc = IF client = 0 THEN "show" ELSE "ask"
        /\ task.got = Failure /\ task.kind = lookup[t].kind /\ task.try = lookup[t].try
    BY <1>1 DEF LookupTasks
  <1>3. Lookup(t, task) /\ UNCHANGED <<asked, client, cache, disk, lookups, panel, figures, clock,
                                       known, failed, crossed>>
    BY DEF Start
  <1>4. TaskKnows(t)'
    <2>1. lookup'[t] = task
      BY <1>2, <1>3, TaskSet DEF FundInv
    <2> HIDE DEF task
    <2>2. TaskKnows(t)
      BY DEF FundInv, TasksKnow
    <2> QED  BY <1>1, <1>2, <1>3, <2>1, <2>2 DEF TaskKnows, Current
  <1> HIDE DEF task
  <1> QED  BY <1>1, <1>2, <1>3, <1>4, TaskMoves

LEMMA CachedKeeps ==
    ASSUME FundInv, NEW t \in 1 .. MaxLookups, Cached(t)
    PROVE  FundInv'
  <1> DEFINE entry == cache[lookup[t].client][Current(t)][lookup[t].of]
  <1> DEFINE task == [lookup[t] EXCEPT !.pc = "show", !.got = entry]
  <1>1. lookup[t].pc = "ask" /\ TaskKnows(t) /\ lookup[t].client \in 1 .. MaxClients
        /\ lookup[t].of \in Issues /\ Current(t) \in KindSet /\ lookup[t] \in LookupTasks
    <2>1. lookup[t].pc = "ask" /\ TaskKnows(t)
      BY DEF Cached, FundInv, TasksKnow
    <2>2. lookup[t].client \in 0 .. MaxClients /\ lookup[t].client # 0
      BY <2>1, TaskTyped DEF FundInv, TaskKnows
    <2>3. MaxClients \in Nat
      BY FundamentalsAssumption
    <2> QED  BY <2>1, <2>2, <2>3, TaskTyped DEF FundInv, TaskKnows
  <1>2. entry \in Results
    <2>1. cache[lookup[t].client] \in Caches
      BY <1>1 DEF FundInv, FundTyped
    <2>2. entry \in Entries
      BY <1>1, <2>1 DEF Caches
    <2> QED  BY <2>2, EntriesTyped
  <1>3. /\ Fresh(Current(t), entry) /\ Lookup(t, task)
        /\ UNCHANGED <<asked, client, cache, disk, lookups, panel, figures, clock, known, failed, crossed>>
    BY DEF Cached
  <1> HIDE DEF entry
  <1>4. /\ task \in LookupTasks /\ task.of = lookup[t].of /\ task.pc = "show" /\ task.got = entry
        /\ task.kind = lookup[t].kind /\ task.try = lookup[t].try
    BY <1>1, <1>2 DEF LookupTasks
  <1> HIDE DEF task
  <1>5. TaskKnows(t)'
    <2>1. lookup'[t] = task
      BY <1>3, <1>4, TaskSet DEF FundInv
    <2>2. Current(t)' = Current(t)
      BY <1>4, <2>1 DEF Current
    <2>3. clock - entry.at <= Ttl[Current(t)]
      BY <1>3 DEF Fresh
    <2> QED  BY <1>1, <1>3, <1>4, <2>1, <2>2, <2>3 DEF TaskKnows
  <1> QED  BY <1>1, <1>3, <1>4, <1>5, TaskMoves

LEMMA FoundKeeps ==
    ASSUME FundInv, NEW t \in 1 .. MaxLookups, Found(t)
    PROVE  FundInv'
  <1> DEFINE got == [status |-> "OK", at |-> clock]
  <1> DEFINE task == [lookup[t] EXCEPT !.pc = "store", !.got = got]
  <1>1. lookup[t].pc = "ask" /\ TaskKnows(t) /\ lookup[t] \in LookupTasks /\ clock \in Nat
    BY TaskTyped DEF Found, Uncached, FundInv, FundTyped, TasksKnow
  <1>2. got \in Results /\ got.at = clock /\ got.status = "OK"
    BY <1>1 DEF Results
  <1>3. /\ Lookup(t, task)
        /\ UNCHANGED <<asked, client, cache, disk, lookups, panel, figures, clock, known, failed, crossed>>
    BY DEF Found
  <1> HIDE DEF got
  <1>4. /\ task \in LookupTasks /\ task.of = lookup[t].of /\ task.pc = "store" /\ task.got = got
        /\ task.kind = lookup[t].kind /\ task.try = lookup[t].try /\ task.client = lookup[t].client
    BY <1>1, <1>2 DEF LookupTasks
  <1> HIDE DEF task
  <1>5. TaskKnows(t)'
    <2>1. lookup'[t] = task
      BY <1>3, <1>4, TaskSet DEF FundInv
    <2>2. Current(t)' = Current(t)
      BY <1>4, <2>1 DEF Current
    <2> QED  BY <1>1, <1>2, <1>3, <1>4, <2>1, <2>2 DEF TaskKnows, Says
  <1> QED  BY <1>1, <1>3, <1>4, <1>5, TaskMoves

\* The next path is asked: the first one has no float of the issue, or failed to tell it.
LEMMA NextPath ==
    ASSUME FundInv, NEW t \in 1 .. MaxLookups, Uncached(t), ~LastTry(t),
           Lookup(t, [lookup[t] EXCEPT !.try = @ + 1]),
           Current(t) = "float" /\ lookup[t].of \notin failed' /\ lookup[t].try = 1 =>
               1 \notin known[lookup[t].of],
           UNCHANGED <<asked, client, cache, disk, lookups, panel, figures, clock, known, crossed>>,
           failed \subseteq failed'
    PROVE  FundInv'
  <1> DEFINE task == [lookup[t] EXCEPT !.try = @ + 1]
  <1>1. lookup[t].pc = "ask" /\ TaskKnows(t) /\ lookup[t] \in LookupTasks
        /\ lookup[t].try \in 1 .. 2 /\ Paths[Current(t)] \in 1 .. 2
    BY TaskTyped DEF Uncached, FundInv, TasksKnow
  <1>2. lookup[t].try = 1 /\ Paths[Current(t)] = 2
    BY <1>1 DEF LastTry, TaskKnows
  <1>3. /\ task \in LookupTasks /\ task.of = lookup[t].of /\ task.pc = "ask" /\ task.try = 2
        /\ task.kind = lookup[t].kind /\ task.client = lookup[t].client
    BY <1>1, <1>2 DEF LookupTasks
  <1>4. Lookup(t, task)
    OBVIOUS
  <1> HIDE DEF task
  <1>5. TaskKnows(t)'
    <2>1. lookup'[t] = task
      BY <1>3, <1>4, TaskSet DEF FundInv
    <2>2. Current(t)' = Current(t)
      BY <1>3, <2>1 DEF Current
    <2> QED  BY <1>1, <1>2, <1>3, <2>1, <2>2 DEF TaskKnows
  <1> QED  BY <1>1, <1>3, <1>4, <1>5, TaskMoves

LEMMA NotFoundKeeps ==
    ASSUME FundInv, NEW t \in 1 .. MaxLookups, NotFound(t)
    PROVE  FundInv'
  <1>1. lookup[t].pc = "ask" /\ TaskKnows(t) /\ lookup[t] \in LookupTasks /\ clock \in Nat
        /\ lookup[t].try \in 1 .. 2 /\ lookup[t].of \in Issues
    BY TaskTyped DEF NotFound, Uncached, FundInv, FundTyped, TasksKnow, TaskKnows
  <1>2. Current(t) = "float" /\ lookup[t].try \notin known[lookup[t].of]
    BY DEF NotFound, Knows
  <1>3. UNCHANGED <<asked, client, cache, disk, lookups, panel, figures, clock, known, failed, crossed>>
    BY DEF NotFound
  <1>4. CASE LastTry(t)
    <2> DEFINE got == [status |-> "NOT_AVAILABLE", at |-> clock]
    <2> DEFINE task == [lookup[t] EXCEPT !.pc = "store", !.got = got]
    <2>1. got \in Results /\ got.at = clock /\ got.status = "NOT_AVAILABLE"
      BY <1>1 DEF Results
    <2>2. Lookup(t, task)
      BY <1>4 DEF NotFound
    <2> HIDE DEF got
    <2>3. /\ task \in LookupTasks /\ task.of = lookup[t].of /\ task.pc = "store" /\ task.got = got
          /\ task.kind = lookup[t].kind /\ task.try = lookup[t].try /\ task.client = lookup[t].client
      BY <1>1, <2>1 DEF LookupTasks
    <2> HIDE DEF task
    <2>4. lookup[t].of \notin failed => known[lookup[t].of] = {}
      <3>1. lookup[t].try = 2
        BY <1>2, <1>4 DEF LastTry, Paths
      <3>2. known[lookup[t].of] \subseteq {1, 2}
        BY <1>1 DEF FundInv, FundTyped
      <3> QED  BY <1>1, <1>2, <3>1, <3>2 DEF TaskKnows
    <2>5. TaskKnows(t)'
      <3>1. lookup'[t] = task
        BY <2>2, <2>3, TaskSet DEF FundInv
      <3>2. Current(t)' = Current(t)
        BY <2>3, <3>1 DEF Current
      <3> QED  BY <1>1, <1>2, <1>3, <2>1, <2>3, <2>4, <3>1, <3>2 DEF TaskKnows, Says
    <2> QED  BY <1>1, <1>3, <2>2, <2>3, <2>5, TaskMoves
  <1>5. CASE ~LastTry(t)
    <2>1. Uncached(t) /\ Lookup(t, [lookup[t] EXCEPT !.try = @ + 1])
      BY <1>5 DEF NotFound
    <2> QED  BY <1>2, <1>3, <1>5, <2>1, NextPath
  <1> QED  BY <1>4, <1>5

LEMMA FailingKeeps ==
    ASSUME FundInv, NEW t \in 1 .. MaxLookups, Failing(t)
    PROVE  FundInv'
  <1>1. lookup[t].pc = "ask" /\ TaskKnows(t) /\ lookup[t] \in LookupTasks
    BY TaskTyped DEF Failing, Uncached, FundInv, FundTyped, TasksKnow
  <1>2. /\ UNCHANGED <<asked, client, cache, disk, lookups, panel, figures, clock, known, crossed>>
        /\ failed \subseteq failed'
        /\ Current(t) = "float" /\ lookup[t].of \notin failed' =>
              lookup[t].try \notin known[lookup[t].of]
    BY DEF Failing, Knows
  <1>3. CASE Lookup(t, [lookup[t] EXCEPT !.pc = "show", !.got = Failure])
    <2> DEFINE task == [lookup[t] EXCEPT !.pc = "show", !.got = Failure]
    <2>1. /\ task \in LookupTasks /\ task.of = lookup[t].of /\ task.pc = "show"
          /\ task.got = Failure /\ task.got.status = "FAILURE"
          /\ task.kind = lookup[t].kind /\ task.try = lookup[t].try
      BY <1>1, EntriesTyped DEF LookupTasks
    <2>2. Lookup(t, task)
      BY <1>3
    <2> HIDE DEF task
    <2>3. TaskKnows(t)'
      <3>1. lookup'[t] = task
        BY <2>1, <2>2, TaskSet DEF FundInv
      <3>2. Current(t)' = Current(t)
        BY <2>1, <3>1 DEF Current
      <3> QED  BY <1>1, <2>1, <3>1, <3>2 DEF TaskKnows
    <2> QED  BY <1>1, <1>2, <2>1, <2>2, <2>3, TaskMoves
  <1>4. CASE ~LastTry(t) /\ Lookup(t, [lookup[t] EXCEPT !.try = @ + 1])
    <2>1. Uncached(t)
      BY DEF Failing
    <2> QED  BY <1>2, <1>4, <2>1, NextPath
  <1> QED  BY <1>3, <1>4 DEF Failing

LEMMA StoreKeeps ==
    ASSUME FundInv, NEW t \in 1 .. MaxLookups, Store(t)
    PROVE  FundInv'
  <1> DEFINE task == [lookup[t] EXCEPT !.pc = "write"]
  <1> DEFINE x == lookup[t].client
  <1> DEFINE y == Current(t)
  <1> DEFINE z == lookup[t].of
  <1> DEFINE got == lookup[t].got
  <1>1. lookup[t].pc = "store" /\ TaskKnows(t) /\ lookup[t] \in LookupTasks
        /\ x \in 1 .. MaxClients /\ y \in KindSet /\ z \in Issues /\ got \in Results
    <2>1. lookup[t].pc = "store" /\ TaskKnows(t)
      BY DEF Store, FundInv, TasksKnow
    <2>2. x \in 0 .. MaxClients /\ x # 0 /\ MaxClients \in Nat
      BY <2>1, TaskTyped, FundamentalsAssumption DEF FundInv, TaskKnows
    <2> QED  BY <2>1, <2>2, TaskTyped DEF FundInv, TaskKnows
  <1>2. got \in Entries /\ Says(got, y, z)
    <2>1. got.status \in {"OK", "NOT_AVAILABLE"} /\ Says(got, y, z)
      BY <1>1 DEF TaskKnows
    <2> HIDE DEF got
    <2> QED  BY <1>1, <2>1 DEF Results, Entries
  <1>3. /\ task \in LookupTasks /\ task.of = lookup[t].of /\ task.pc = "write"
        /\ task.got = lookup[t].got /\ task.client = lookup[t].client
        /\ task.kind = lookup[t].kind /\ task.try = lookup[t].try
    BY <1>1 DEF LookupTasks
  <1>4. /\ Lookup(t, task) /\ cache' = [cache EXCEPT ![x][y][z] = got]
        /\ disk' = [disk EXCEPT !.torn = TRUE]
        /\ UNCHANGED <<asked, client, lookups, panel, figures, clock, known, failed, crossed>>
    BY DEF Store
  <1> HIDE DEF task, got, x, y, z
  <1>5. /\ lookup' \in [1 .. MaxLookups -> LookupTasks] /\ lookup'[t] = task
        /\ \A u \in (1 .. MaxLookups) \ {t} : lookup'[u] = lookup[u]
    BY <1>3, <1>4, TaskSet DEF FundInv
  <1>6. cache[x] \in Caches /\ cache[x][y] \in [Issues -> Entries]
    BY <1>1 DEF FundInv, FundTyped, Caches
  <1> DEFINE row == [cache[x][y] EXCEPT ![z] = got]
  <1> DEFINE changed == [cache[x] EXCEPT ![y] = row]
  <1>7. row \in [Issues -> Entries] /\ \A s \in Issues : row[s] = IF s = z THEN got ELSE cache[x][y][s]
    BY <1>1, <1>2, <1>6
  <1>8. changed \in Caches /\ \A k \in KindSet : changed[k] = IF k = y THEN row ELSE cache[x][k]
    <2> HIDE DEF row
    <2> QED  BY <1>1, <1>6, <1>7 DEF Caches
  <1>9. cache' = [cache EXCEPT ![x] = changed]
    BY <1>4
  <1> HIDE DEF row, changed
  <1>10. /\ cache' \in [1 .. MaxClients -> Caches]
         /\ \A c \in 1 .. MaxClients : cache'[c] = IF c = x THEN changed ELSE cache[c]
    BY <1>1, <1>8, <1>9 DEF FundInv, FundTyped
  <1>11. disk' \in [torn : BOOLEAN, kept : Caches] /\ disk'.kept = disk.kept
    BY <1>4 DEF FundInv, FundTyped
  <1>12. FundTyped'
    BY <1>4, <1>5, <1>10, <1>11 DEF FundInv, FundTyped
  <1>13. CachesSay'
    <2> SUFFICES ASSUME NEW k \in KindSet, NEW s \in Issues, NEW c \in 1 .. MaxClients
                 PROVE  Says(disk.kept[k][s], k, s)' /\ Says(cache[c][k][s], k, s)'
      BY <1>1 DEF CachesSay
    <2>1. \A entry : Says(entry, k, s) => Says(entry, k, s)'
      BY <1>4 DEF Says
    <2>2. Says(disk.kept[k][s], k, s) /\ Says(cache[c][k][s], k, s)
      BY DEF FundInv, CachesSay
    <2>3. (cache'[c][k][s] = got /\ k = y /\ s = z) \/ cache'[c][k][s] = cache[c][k][s]
      BY <1>7, <1>8, <1>10
    <2> QED  BY <1>2, <1>4, <1>11, <2>1, <2>2, <2>3 DEF Says
  <1>14. TaskKnows(t)'
    <2>1. Current(t)' = Current(t)
      BY <1>3, <1>5 DEF Current
    <2> QED  BY <1>1, <1>3, <1>4, <1>5, <2>1 DEF TaskKnows, Says
  <1>15. TasksKnow'
    BY <1>4, <1>5, <1>14, OthersKnow DEF FundInv
  <1>16. Labels'
    BY <1>1, <1>3, <1>4, <1>5, LabelsStay DEF FundInv
  <1> QED  BY <1>12, <1>13, <1>15, <1>16 DEF FundInv

LEMMA WriteKeeps ==
    ASSUME FundInv, NEW t \in 1 .. MaxLookups, Write(t)
    PROVE  FundInv'
  <1> DEFINE task == [lookup[t] EXCEPT !.pc = "show"]
  <1>1. lookup[t].pc = "write" /\ TaskKnows(t) /\ lookup[t] \in LookupTasks
        /\ lookup[t].client \in 1 .. MaxClients
    <2>1. lookup[t].pc = "write" /\ TaskKnows(t)
      BY DEF Write, FundInv, TasksKnow
    <2>2. lookup[t].client \in 0 .. MaxClients /\ lookup[t].client # 0 /\ MaxClients \in Nat
      BY <2>1, TaskTyped, FundamentalsAssumption DEF FundInv, TaskKnows
    <2> QED  BY <2>1, <2>2, TaskTyped DEF FundInv
  <1>2. /\ task \in LookupTasks /\ task.of = lookup[t].of /\ task.pc = "show"
        /\ task.got = lookup[t].got
        /\ task.kind = lookup[t].kind /\ task.try = lookup[t].try
    BY <1>1 DEF LookupTasks
  <1>3. /\ Lookup(t, task)
        /\ disk' = [torn |-> FALSE, kept |-> cache[lookup[t].client]] \/ UNCHANGED disk
        /\ UNCHANGED <<asked, client, cache, lookups, panel, figures, clock, known, failed, crossed>>
    BY DEF Write
  <1> HIDE DEF task
  <1>4. /\ lookup' \in [1 .. MaxLookups -> LookupTasks] /\ lookup'[t] = task
        /\ \A u \in (1 .. MaxLookups) \ {t} : lookup'[u] = lookup[u]
    BY <1>2, <1>3, TaskSet DEF FundInv
  <1>5. cache[lookup[t].client] \in Caches
    BY <1>1 DEF FundInv, FundTyped
  <1>6. /\ disk' \in [torn : BOOLEAN, kept : Caches]
        /\ disk'.kept = cache[lookup[t].client] \/ disk'.kept = disk.kept
    <2>1. disk \in [torn : BOOLEAN, kept : Caches]
      BY DEF FundInv, FundTyped
    <2> DEFINE kept == cache[lookup[t].client]
    <2>2. kept \in Caches
      BY <1>5
    <2>3. disk' = [torn |-> FALSE, kept |-> kept] \/ disk' = disk
      BY <1>3
    <2>4. disk' \in [torn : BOOLEAN, kept : Caches] /\ (disk'.kept = kept \/ disk'.kept = disk.kept)
      <3> HIDE DEF kept
      <3>1. CASE disk' = [torn |-> FALSE, kept |-> kept]
        <4>1. disk'.kept = kept
          BY <3>1
        <4>2. disk' \in [torn : BOOLEAN, kept : Caches]
          BY <2>2, <3>1
        <4> QED  BY <4>1, <4>2
      <3>2. CASE disk' = disk
        BY <2>1, <3>2
      <3> QED  BY <2>3, <3>1, <3>2
    <2> QED  BY <2>4
  <1>7. FundTyped'
    BY <1>3, <1>4, <1>6 DEF FundInv, FundTyped
  <1>8. CachesSay'
    <2> SUFFICES ASSUME NEW k \in KindSet, NEW s \in Issues, NEW c \in 1 .. MaxClients
                 PROVE  Says(disk.kept[k][s], k, s)' /\ Says(cache[c][k][s], k, s)'
      BY <1>1 DEF CachesSay
    <2>1. \A entry : Says(entry, k, s) => Says(entry, k, s)'
      BY <1>3 DEF Says
    <2>2. Says(disk.kept[k][s], k, s) /\ Says(cache[c][k][s], k, s)
          /\ Says(cache[lookup[t].client][k][s], k, s)
      BY <1>1 DEF FundInv, CachesSay
    <2> QED  BY <1>3, <1>6, <2>1, <2>2 DEF Says
  <1>9. TaskKnows(t)'
    <2>1. Current(t)' = Current(t)
      BY <1>2, <1>4 DEF Current
    <2>2. lookup[t].got.at = clock /\ clock \in Nat /\ Ttl[Current(t)] \in Nat
      BY <1>1, TaskTyped DEF TaskKnows, FundInv, FundTyped
    <2> QED  BY <1>1, <1>2, <1>3, <1>4, <2>1, <2>2 DEF TaskKnows
  <1>10. TasksKnow'
    BY <1>3, <1>4, <1>9, OthersKnow DEF FundInv
  <1>11. Labels'
    BY <1>1, <1>2, <1>3, <1>4, LabelsStay DEF FundInv
  <1> QED  BY <1>7, <1>8, <1>10, <1>11 DEF FundInv

LEMMA TaskRestarts ==
    ASSUME NEW task \in LookupTasks, NEW got \in Results
    PROVE  [task EXCEPT !.try = 1, !.got = got] \in LookupTasks
  <1>1. [task EXCEPT !.try = 1] \in LookupTasks
    BY DEF LookupTasks
  <1> QED  BY <1>1 DEF LookupTasks

LEMMA ShowFieldKeeps ==
    ASSUME FundInv, NEW t \in 1 .. MaxLookups, ShowField(t)
    PROVE  FundInv'
  <1> DEFINE task == IF lookup[t].kind = 3 THEN NoLookup
                     ELSE [lookup[t] EXCEPT !.pc = IF lookup[t].client = 0 THEN "show" ELSE "ask",
                                            !.kind = @ + 1, !.try = 1, !.got = Failure]
  <1>1. lookup[t].pc = "show" /\ TaskKnows(t) /\ lookup[t] \in LookupTasks
        /\ lookup[t].of \in Issues /\ Current(t) \in KindSet /\ lookup[t].got.at \in Nat
        /\ lookup[t].kind \in 1 .. 3 /\ clock \in Nat /\ Ttl[Current(t)] \in Nat
        /\ lookup[t].client \in 0 .. MaxClients
    <2>1. lookup[t].pc = "show" /\ TaskKnows(t)
      BY DEF ShowField, FundInv, TasksKnow
    <2> QED  BY <2>1, TaskTyped DEF FundInv, FundTyped, TaskKnows
  <1>2. /\ Lookup(t, task)
        /\ SetField(Current(t), lookup[t].got.status, lookup[t].of, clock - lookup[t].got.at)
        /\ UNCHANGED <<asked, client, cache, disk, lookups, clock, known, failed, crossed>>
    BY DEF ShowField
  <1>3. /\ task \in LookupTasks
        /\ task.pc # "off" => /\ task.of = lookup[t].of /\ task.got.status = "FAILURE" /\ task.try = 1
                              /\ task.pc = IF task.client = 0 THEN "show" ELSE "ask"
        /\ task.try = 1
    <2>1. CASE lookup[t].kind = 3
      BY <2>1, NoLookupTyped
    <2>2. CASE lookup[t].kind # 3
      <3> DEFINE pc == IF lookup[t].client = 0 THEN "show" ELSE "ask"
      <3> DEFINE kind == lookup[t].kind + 1
      <3> DEFINE next == [lookup[t] EXCEPT !.pc = pc, !.kind = kind, !.try = 1, !.got = Failure]
      <3>1. kind \in 1 .. 3 /\ pc \in {"show", "ask"}
        BY <1>1, <2>2
      <3>2. Failure \in Results /\ Failure.status = "FAILURE"
        BY EntriesTyped
      <3>3. task = next
        BY <2>2
      <3>4. /\ next \in LookupTasks /\ next.of = lookup[t].of /\ next.got = Failure /\ next.try = 1
            /\ next.client = lookup[t].client
            /\ next.pc = pc
        <4> DEFINE half == [lookup[t] EXCEPT !.pc = pc, !.kind = kind]
        <4>1. next = [half EXCEPT !.try = 1, !.got = Failure]
          OBVIOUS
        <4> HIDE DEF pc, kind
        <4>2. half \in LookupTasks /\ half.of = lookup[t].of /\ half.client = lookup[t].client
              /\ half.pc = pc
          BY <1>1, <3>1 DEF LookupTasks
        <4> HIDE DEF half, next
        <4>3. next \in LookupTasks
          BY <3>2, <4>1, <4>2, TaskRestarts
        <4>4. next.got = Failure /\ next.try = 1
          BY <4>1, <4>2 DEF LookupTasks
        <4>5. next.of = half.of /\ next.client = half.client /\ next.pc = half.pc
          BY <4>1, <4>2 DEF LookupTasks
        <4> QED  BY <4>2, <4>3, <4>4, <4>5
      <3> QED  BY <3>2, <3>3, <3>4
    <2> QED  BY <2>1, <2>2
  <1> HIDE DEF task
  <1>4. /\ lookup' \in [1 .. MaxLookups -> LookupTasks] /\ lookup'[t] = task
        /\ \A u \in (1 .. MaxLookups) \ {t} : lookup'[u] = lookup[u]
    BY <1>2, <1>3, TaskSet DEF FundInv
  <1>5. FundTyped'
    BY <1>2, <1>4 DEF FundInv, FundTyped
  <1>6. CachesSay'
    <2>1. clock' \in Nat /\ clock <= clock'
      BY <1>1, <1>2
    <2> QED  BY <1>2, <2>1, CachesStay DEF FundInv
  <1>7. TaskKnows(t)'
    <2>1. Paths[Current(t)]' \in 1 .. 2
      BY <1>4, KindsTyped DEF Current, LookupTasks
    <2> QED  BY <1>1, <1>3, <1>4, <2>1 DEF TaskKnows
  <1>8. TasksKnow'
    BY <1>2, <1>4, <1>7, OthersKnow DEF FundInv
  <1>9. Labels'
    <2>1. /\ panel' \in [KindSet -> [of : Issues \cup {NoIssue}, age : Int]]
          /\ figures' \in [KindSet -> Issues \cup {NoIssue}]
          /\ \A k \in KindSet \ {Current(t)} : panel'[k] = panel[k] /\ figures'[k] = figures[k]
      BY <1>1, <1>2 DEF SetField, Figure, NoFigure, FundInv, Labels
    <2>2. \/ panel'[Current(t)] = NoFigure
          \/ /\ panel'[Current(t)].of = lookup[t].of /\ figures'[Current(t)] = lookup[t].of
             /\ panel'[Current(t)].age <= Ttl[Current(t)]
      <3>1. CASE lookup[t].got.status = "OK"
        BY <1>1, <1>2, <3>1 DEF SetField, Figure, FundInv, Labels, TaskKnows
      <3>2. CASE lookup[t].got.status # "OK"
        BY <1>1, <1>2, <3>2 DEF SetField, FundInv, Labels
      <3> QED  BY <3>1, <3>2
    <2>3. ~crossed => lookup[t].of = asked
      BY <1>1 DEF FundInv, Labels, Running
    <2>4. ASSUME NEW k \in KindSet PROVE LabelFresh(k)' /\ (~crossed' => LabelOwn(k)')
      <3>1. CASE k = Current(t)
        BY <1>2, <2>2, <2>3, <3>1 DEF LabelFresh, LabelOwn
      <3>2. CASE k # Current(t)
        BY <1>2, <2>1, <3>2 DEF LabelFresh, LabelOwn, FundInv, Labels
      <3> QED  BY <3>1, <3>2
    <2>5. ~crossed' => \A u \in Running' : lookup'[u].of = asked'
      BY <1>1, <1>2, <1>3, <1>4 DEF FundInv, Labels, Running
    <2> QED  BY <2>1, <2>4, <2>5 DEF Labels
  <1> QED  BY <1>5, <1>6, <1>8, <1>9 DEF FundInv

LEMMA BlankTyped ==
    /\ BlankPanel \in [KindSet -> [of : Issues \cup {NoIssue}, age : Int]]
    /\ \A k \in KindSet : BlankPanel[k] = NoFigure
  BY DEF BlankPanel, NoFigure

LEMMA AskForKeeps ==
    ASSUME FundInv, NEW s \in Issues, AskFor(s)
    PROVE  FundInv'
  <1> DEFINE t == lookups + 1
  <1> DEFINE task == [NoLookup EXCEPT !.pc = "start", !.of = s]
  <1>1. t \in 1 .. MaxLookups
    <2>1. lookups \in 0 .. MaxLookups /\ lookups < MaxLookups /\ MaxLookups \in Nat
      BY FundamentalsAssumption DEF AskFor, FundInv, FundTyped
    <2> QED  BY <2>1
  <1>2. /\ task \in LookupTasks /\ task.of = s /\ task.pc = "start" /\ task.try = 1 /\ task.kind = 1
    BY NoLookupTyped DEF LookupTasks
  <1>3. /\ asked' = s /\ lookups' = t /\ crossed' = (crossed \/ Running # {}) /\ panel' = BlankPanel
        /\ lookup' = lookup \/ lookup' = [lookup EXCEPT ![t] = task]
        /\ UNCHANGED <<client, cache, disk, figures, clock, known, failed>>
    BY DEF AskFor
  <1> HIDE DEF t, task
  <1>4. /\ lookup' \in [1 .. MaxLookups -> LookupTasks]
        /\ \A u \in 1 .. MaxLookups : lookup'[u] = lookup[u] \/ lookup'[u] = task
    BY <1>1, <1>2, <1>3 DEF FundInv, FundTyped
  <1>5. FundTyped'
    BY <1>1, <1>3, <1>4 DEF FundInv, FundTyped, t
  <1>6. CachesSay'
    <2>1. clock' \in Nat /\ clock <= clock'
      BY <1>3 DEF FundInv, FundTyped
    <2> QED  BY <1>3, <2>1, CachesStay DEF FundInv
  <1>7. TasksKnow'
    <2> SUFFICES ASSUME NEW u \in 1 .. MaxLookups PROVE TaskKnows(u)'
      BY DEF TasksKnow
    <2>1. CASE lookup'[u] = lookup[u]
      <3>1. TaskKnows(u) /\ Current(u)' = Current(u)
        BY <2>1 DEF FundInv, TasksKnow, Current
      <3> QED  BY <1>3, <2>1, <3>1 DEF TaskKnows, Says
    <2>2. CASE lookup'[u] = task
      <3>1. Paths[Current(u)]' \in 1 .. 2
        BY <1>4, KindsTyped DEF Current, LookupTasks
      <3> QED  BY <1>2, <2>2, <3>1 DEF TaskKnows
    <2> QED  BY <1>4, <2>1, <2>2
  <1>8. Labels'
    <2>1. \A k \in KindSet : LabelFresh(k)' /\ LabelOwn(k)'
      BY <1>3, BlankTyped DEF LabelFresh, LabelOwn
    <2>2. ~crossed' => \A u \in Running' : lookup'[u].of = s
      BY <1>2, <1>3, <1>4 DEF Running
    <2> QED  BY <1>3, <2>1, <2>2, BlankTyped DEF FundInv, Labels
  <1> QED  BY <1>5, <1>6, <1>7, <1>8 DEF FundInv

LEMMA OnFileTyped ==
    ASSUME FundInv
    PROVE  OnFile \in Caches /\ \A k \in KindSet, s \in Issues : Says(OnFile[k][s], k, s)
  <1>1. CASE disk.torn
    BY <1>1, EntriesTyped DEF OnFile, Says, FundInv, FundTyped
  <1>2. CASE ~disk.torn
    BY <1>2 DEF OnFile, FundInv, FundTyped, CachesSay
  <1> QED  BY <1>1, <1>2

\* A client that reads the file.
LEMMA FileRead ==
    ASSUME FundInv, NEW c \in 1 .. MaxClients, cache' = [cache EXCEPT ![c] = OnFile],
           UNCHANGED <<disk, clock, known, failed>>
    PROVE  cache' \in [1 .. MaxClients -> Caches] /\ CachesSay'
  <1>1. /\ cache' \in [1 .. MaxClients -> Caches]
        /\ \A x \in 1 .. MaxClients : cache'[x] = IF x = c THEN OnFile ELSE cache[x]
    BY OnFileTyped DEF FundInv, FundTyped
  <1>2. CachesSay'
    <2> SUFFICES ASSUME NEW k \in KindSet, NEW s \in Issues, NEW x \in 1 .. MaxClients
                 PROVE  Says(disk.kept[k][s], k, s)' /\ Says(cache[x][k][s], k, s)'
      BY DEF CachesSay
    <2>1. \A entry : Says(entry, k, s) => Says(entry, k, s)'
      BY DEF Says
    <2>2. Says(disk.kept[k][s], k, s) /\ Says(cache[x][k][s], k, s) /\ Says(OnFile[k][s], k, s)
      BY OnFileTyped DEF FundInv, CachesSay
    <2>3. cache'[x][k][s] = OnFile[k][s] \/ cache'[x][k][s] = cache[x][k][s]
      BY <1>1
    <2> QED  BY <2>1, <2>2, <2>3 DEF Says
  <1> QED  BY <1>1, <1>2

LEMMA SetKeyKeeps ==
    ASSUME FundInv, SetKey
    PROVE  FundInv'
  <1>1. UNCHANGED <<asked, disk, lookup, lookups, panel, figures, clock, known, failed, crossed>>
    BY DEF SetKey
  <1>2. client' \in 0 .. MaxClients /\ cache' \in [1 .. MaxClients -> Caches] /\ CachesSay'
    <2>1. CASE client' = 0 /\ UNCHANGED cache
      <3>1. clock' \in Nat /\ clock <= clock' /\ MaxClients \in Nat
        BY <1>1, FundamentalsAssumption DEF FundInv, FundTyped
      <3> QED  BY <1>1, <2>1, <3>1, CachesStay DEF FundInv, FundTyped
    <2>2. CASE \E c \in 1 .. MaxClients \ Clients : client' = c /\ cache' = [cache EXCEPT ![c] = OnFile]
      <3>1. PICK c \in 1 .. MaxClients : client' = c /\ cache' = [cache EXCEPT ![c] = OnFile]
        BY <2>2
      <3>2. cache' \in [1 .. MaxClients -> Caches] /\ CachesSay'
        BY <1>1, <3>1, FileRead
      <3>3. client' \in 0 .. MaxClients
        BY <3>1, FundamentalsAssumption
      <3> QED  BY <3>2, <3>3
    <2> QED  BY <2>1, <2>2 DEF SetKey
  <1>3. FundTyped'
    BY <1>1, <1>2 DEF FundInv, FundTyped
  <1>4. TasksKnow'
    BY <1>1 DEF FundInv, TasksKnow, TaskKnows, Current, Says
  <1>5. Labels'
    BY <1>1 DEF FundInv, Labels, LabelFresh, LabelOwn, Running
  <1> QED  BY <1>2, <1>3, <1>4, <1>5 DEF FundInv

LEMMA PassKeeps ==
    ASSUME FundInv, Pass
    PROVE  FundInv'
  <1>1. /\ UNCHANGED <<asked, client, cache, disk, lookup, lookups, panel, figures, known, failed, crossed>>
        /\ clock' = clock + 1 /\ clock' \in 0 .. MaxClock /\ clock \in Nat
    BY FundamentalsAssumption DEF Pass, FundInv, FundTyped
  <1>2. FundTyped'
    BY <1>1 DEF FundInv, FundTyped
  <1>3. CachesSay'
    <2>1. clock' \in Nat /\ clock <= clock'
      BY <1>1
    <2> QED  BY <1>1, <2>1, CachesStay DEF FundInv
  <1>4. TasksKnow'
    <2> SUFFICES ASSUME NEW t \in 1 .. MaxLookups PROVE TaskKnows(t)'
      BY DEF TasksKnow
    <2>1. lookup[t].pc \in {"off", "start", "ask"}
      BY DEF Pass, Running
    <2>2. TaskKnows(t) /\ Current(t)' = Current(t)
      BY <1>1 DEF FundInv, TasksKnow, Current
    <2> QED  BY <1>1, <2>1, <2>2 DEF TaskKnows
  <1>5. Labels'
    BY <1>1 DEF FundInv, Labels, LabelFresh, LabelOwn, Running
  <1> QED  BY <1>2, <1>3, <1>4, <1>5 DEF FundInv

LEMMA RestartDeskKeeps ==
    ASSUME FundInv, RestartDesk
    PROVE  FundInv'
  <1>1. /\ asked' = NoIssue /\ client' = 1 /\ cache' = [cache EXCEPT ![1] = OnFile]
        /\ lookup' = [t \in 1 .. MaxLookups |-> NoLookup]
        /\ panel' = BlankPanel /\ figures' = [k \in KindSet |-> NoIssue]
        /\ UNCHANGED <<disk, lookups, clock, known, failed>>
    BY DEF RestartDesk
  <1>2. 1 \in 1 .. MaxClients
    BY FundamentalsAssumption
  <1>3. cache' \in [1 .. MaxClients -> Caches] /\ CachesSay'
    BY <1>1, <1>2, FileRead
  <1>4. /\ lookup' \in [1 .. MaxLookups -> LookupTasks]
        /\ \A t \in 1 .. MaxLookups : lookup'[t] = NoLookup
    BY <1>1, NoLookupTyped
  <1>5. FundTyped'
    BY <1>1, <1>2, <1>3, <1>4 DEF FundInv, FundTyped
  <1>6. TasksKnow'
    <2> SUFFICES ASSUME NEW t \in 1 .. MaxLookups PROVE TaskKnows(t)'
      BY DEF TasksKnow
    <2>1. Paths[Current(t)]' \in 1 .. 2
      BY <1>4, KindsTyped DEF Current, LookupTasks
    <2> QED  BY <1>4, <2>1, NoLookupTyped DEF TaskKnows
  <1>7. Labels'
    <2>1. \A k \in KindSet : LabelFresh(k)' /\ LabelOwn(k)'
      BY <1>1, BlankTyped DEF LabelFresh, LabelOwn
    <2>2. Running' = {}
      BY <1>4, NoLookupTyped DEF Running
    <2> QED  BY <1>1, <2>1, <2>2, BlankTyped DEF Labels
  <1> QED  BY <1>3, <1>5, <1>6, <1>7 DEF FundInv

LEMMA InitFund == FundInit => FundInv
  <1> SUFFICES ASSUME FundInit PROVE FundInv
    OBVIOUS
  <1>1. /\ cache \in [1 .. MaxClients -> Caches] /\ \A c \in 1 .. MaxClients : cache[c] = Empty
    BY EntriesTyped DEF FundInit
  <1>2. disk \in [torn : BOOLEAN, kept : Caches] /\ disk.kept = Empty
    BY EntriesTyped DEF FundInit
  <1>3. lookup \in [1 .. MaxLookups -> LookupTasks] /\ \A t \in 1 .. MaxLookups : lookup[t] = NoLookup
    BY NoLookupTyped DEF FundInit
  <1>4. FundTyped
    <2>1. /\ asked = NoIssue /\ client = 1 /\ clock = 0 /\ lookups = 0
          /\ known \in [Issues -> SUBSET {1, 2}]
      BY DEF FundInit
    <2>2. 1 \in 0 .. MaxClients /\ 0 \in 0 .. MaxClock /\ 0 \in 0 .. MaxLookups
      BY FundamentalsAssumption
    <2> QED  BY <1>1, <1>2, <1>3, <2>1, <2>2 DEF FundTyped
  <1>5. CachesSay
    <2>1. clock = 0
      BY DEF FundInit
    <2> QED  BY <1>1, <1>2, <2>1, EntriesTyped DEF CachesSay, Says
  <1>6. TasksKnow
    <2> SUFFICES ASSUME NEW t \in 1 .. MaxLookups PROVE TaskKnows(t)
      BY DEF TasksKnow
    <2>1. Paths[Current(t)] \in 1 .. 2
      BY <1>4, TaskTyped
    <2> QED  BY <1>3, <2>1, NoLookupTyped DEF TaskKnows
  <1>7. Labels
    <2>1. panel = BlankPanel /\ figures = [k \in KindSet |-> NoIssue]
      BY DEF FundInit
    <2>2. Running = {}
      BY <1>3, NoLookupTyped DEF Running
    <2> QED  BY <2>1, <2>2, BlankTyped DEF Labels, LabelFresh, LabelOwn
  <1> QED  BY <1>4, <1>5, <1>6, <1>7 DEF FundInv

LEMMA FundStep == FundInv /\ [FundNext]_fundVars => FundInv'
  <1> SUFFICES ASSUME FundInv, [FundNext]_fundVars PROVE FundInv'
    OBVIOUS
  <1>1. CASE \E s \in Issues : AskFor(s)
    BY <1>1, AskForKeeps
  <1>2. CASE SetKey \/ Pass \/ RestartDesk
    BY <1>2, SetKeyKeeps, PassKeeps, RestartDeskKeeps
  <1>3. CASE \E t \in 1 .. MaxLookups : LookupStep(t)
    BY <1>3, StartKeeps, CachedKeeps, FoundKeeps, NotFoundKeeps, FailingKeeps, StoreKeeps,
       WriteKeeps, ShowFieldKeeps DEF LookupStep
  <1>4. CASE UNCHANGED fundVars
    BY <1>4 DEF fundVars, FundInv, FundTyped, CachesSay, Says, TasksKnow, TaskKnows, Current,
                Labels, LabelFresh, LabelOwn, Running
  <1> QED  BY <1>1, <1>2, <1>3, <1>4 DEF FundNext

LEMMA FundTrue == FundInv => FiguresTrue
  <1> SUFFICES ASSUME FundInv PROVE FiguresTrue
    OBVIOUS
  <1>1. FundTypeOK
    <2>1. ASSUME NEW c \in 1 .. MaxClients, NEW k \in KindSet, NEW s \in Issues
          PROVE  /\ cache[c][k][s].at <= clock
                 /\ cache[c][k][s].status \in
                      {"none", "OK"} \cup (IF k = "float" THEN {"NOT_AVAILABLE"} ELSE {})
      <3>1. cache[c] \in Caches
        BY DEF FundInv, FundTyped
      <3>2. cache[c][k][s].status \in {"none", "OK", "NOT_AVAILABLE"}
        BY <3>1 DEF Caches, Entries
      <3>3. Says(cache[c][k][s], k, s)
        BY DEF FundInv, CachesSay
      <3> QED  BY <3>2, <3>3 DEF Says
    <2>2. \A t \in Running : lookup[t].try <= Paths[Current(t)]
      BY DEF Running, FundInv, TasksKnow, TaskKnows
    <2> QED  BY <2>1, <2>2 DEF FundTypeOK, FundInv, FundTyped
  <1>2. FiguresFresh /\ FiguresOwn
    BY DEF FiguresFresh, FiguresOwn, FundInv, Labels, LabelFresh, LabelOwn
  <1>3. UnavailableTrue
    BY DEF UnavailableTrue, FundInv, CachesSay, Says, KindSet
  <1> QED  BY <1>1, <1>2, <1>3 DEF FiguresTrue

\* A figure that is shown or kept is fresh, its symbol's own, and a float is not denied unless a path
\* that knows it failed: for any symbols, tasks, clients and lifetimes that go by, restarts and torn
\* files.  (MassiveFundamentalsClient, _fetch_massive_fundamentals.)
THEOREM FiguresHold == FundSpec => []FiguresTrue
  <1>1. FundInit => FundInv
    BY InitFund
  <1>2. FundInv /\ [FundNext]_fundVars => FundInv'
    BY FundStep
  <1>3. FundInv => FiguresTrue
    BY FundTrue
  <1> QED  BY <1>1, <1>2, <1>3, PTL DEF FundSpec

-----------------------------------------------------------------------------
(* Runs: what is posted, under way and begun.                              *)

Runs == [sym : Charts, version : Nat, first : BOOLEAN, n : Nat \ {0}]
Begins == [run : Runs, after : {Never, 0, 1}]
RunsTyped ==
    /\ open \in Charts \cup {NoChart} /\ last \in [Charts -> {Never, 0, 1}]
    /\ sent \in [Charts -> Nat] /\ asks \in Nat
    /\ held = NoRun \/ held.sym \in Charts
    /\ held \in [sym : Charts \cup {NoChart}, version : Nat, first : BOOLEAN, n : Nat]
    /\ posted \in Seq(Runs) /\ auto \in Runs \cup {NoRun} /\ manual \subseteq Runs
    /\ begun \in [Charts -> Seq(Begins)]
    /\ mixed \subseteq {"switched", "queued", "manual"}

\* Runs that were asked for, and recommendations of a symbol's own runs.
Asked ==
    /\ \A run \in InFlight : run.n <= asks
    /\ \A s \in Charts : prior[s] # NoRun => prior[s].sym = s

\* Without one posted while another is on its way, a run is posted when no other is, and it was due;
\* if no manual run has ended, it still is.
OnePosted ==
    "queued" \notin mixed =>
        /\ Len(posted) <= 1
        /\ posted # <<>> => auto = NoRun
        /\ posted # <<>> /\ "manual" \notin mixed => last[posted[1].sym] # 0

\* The versions of a symbol's runs, begun and posted, go up to the one that was sent, which is no
\* newer than the snapshot there is.
Rising ==
    "switched" \notin mixed =>
        /\ \A i \in DOMAIN posted : posted[i].version <= sent[posted[i].sym]
        /\ \A i, j \in DOMAIN posted :
               i < j /\ posted[i].sym = posted[j].sym => posted[i].version < posted[j].version
        /\ \A s \in Charts : \A i \in DOMAIN begun[s] :
               /\ begun[s][i].run.version <= sent[s]
               /\ \A j \in DOMAIN begun[s] :
                      i < j => begun[s][i].run.version < begun[s][j].run.version
               /\ \A j \in DOMAIN posted :
                      posted[j].sym = s => begun[s][i].run.version < posted[j].version
SentHeld == \A s \in Charts : sent[s] <= held.version

\* The full model is for the symbol that has had no run.
FirstRuns ==
    mixed = {} =>
        /\ \A s \in Charts : last[s] = Never <=> begun[s] = <<>>
        /\ \A i \in DOMAIN posted : posted[i].first <=> last[posted[i].sym] = Never

PaceInv ==
    RunsTyped /\ Asked /\ OnePosted /\ Rising /\ SentHeld /\ FirstRuns
    /\ AutoSpaced /\ FullOnlyFirst

LEMMA Appended ==
    ASSUME NEW S, NEW q \in Seq(S), NEW e \in S
    PROVE  /\ Append(q, e) \in Seq(S) /\ Append(q, e) # <<>> /\ Len(Append(q, e)) = Len(q) + 1
           /\ DOMAIN q = 1 .. Len(q) /\ Len(q) \in Nat
           /\ DOMAIN Append(q, e) = 1 .. Len(q) + 1
           /\ \A i \in 1 .. Len(q) : Append(q, e)[i] = q[i]
           /\ Append(q, e)[Len(q) + 1] = e
  OBVIOUS

LEMMA Tailed ==
    ASSUME NEW S, NEW q \in Seq(S), q # <<>>
    PROVE  /\ Tail(q) \in Seq(S) /\ Len(Tail(q)) = Len(q) - 1 /\ Len(q) \in Nat \ {0}
           /\ DOMAIN q = 1 .. Len(q) /\ DOMAIN Tail(q) = 1 .. Len(q) - 1
           /\ \A i \in 1 .. Len(q) - 1 : Tail(q)[i] = q[i + 1]
           /\ Head(q) = q[1] /\ Head(q) \in S
  OBVIOUS

LEMMA PostedTyped ==
    ASSUME RunsTyped
    PROVE  /\ DOMAIN posted = 1 .. Len(posted) /\ Len(posted) \in Nat
           /\ \A i \in DOMAIN posted : posted[i] \in Runs
           /\ (Len(posted) = 0 <=> posted = <<>>)
           /\ \A s \in Charts : /\ DOMAIN begun[s] = 1 .. Len(begun[s]) /\ Len(begun[s]) \in Nat
                                /\ begun[s] \in Seq(Begins)
                                /\ \A i \in DOMAIN begun[s] : begun[s][i] \in Begins
  <1>1. posted \in Seq(Runs)
    BY DEF RunsTyped
  <1>2. /\ DOMAIN posted = 1 .. Len(posted) /\ Len(posted) \in Nat
        /\ \A i \in DOMAIN posted : posted[i] \in Runs
        /\ (Len(posted) = 0 <=> posted = <<>>)
    BY <1>1
  <1>3. ASSUME NEW s \in Charts
        PROVE  /\ DOMAIN begun[s] = 1 .. Len(begun[s]) /\ Len(begun[s]) \in Nat
               /\ begun[s] \in Seq(Begins)
               /\ \A i \in DOMAIN begun[s] : begun[s][i] \in Begins
    <2>1. begun[s] \in Seq(Begins)
      BY DEF RunsTyped
    <2> QED  BY <2>1
  <1> QED  BY <1>2, <1>3

LEMMA RunIsARun == \A run \in Runs : run # NoRun /\ run.sym \in Charts /\ run.version \in Nat
                                     /\ run.n \in Nat \ {0} /\ run.first \in BOOLEAN
  BY DEF Runs, NoRun

LEMMA NoneInFlight ==
    ASSUME RunsTyped, InFlight = {}
    PROVE  posted = <<>> /\ auto = NoRun
  <1>1. auto = NoRun
    BY DEF InFlight
  <1>2. \A i \in DOMAIN posted : posted[i] = NoRun
    BY DEF InFlight
  <1>3. DOMAIN posted = {}
    BY <1>2, PostedTyped, RunIsARun
  <1> QED  BY <1>1, <1>3, PostedTyped

LEMMA SwitchKeeps ==
    ASSUME PaceInv, NEW s \in Charts, Switch(s)
    PROVE  PaceInv'
  <1>1. /\ open' = s /\ last' = [last EXCEPT ![s] = Never] /\ sent' = [sent EXCEPT ![s] = 0]
        /\ begun' = [begun EXCEPT ![s] = <<>>]
        /\ mixed \subseteq mixed' /\ mixed' \subseteq mixed \cup {"switched"}
        /\ "switched" \notin mixed' => InFlight = {}
        /\ UNCHANGED <<held, posted, auto, manual, recommended, prior, asks>>
    BY DEF Switch, ForgottenHash
  <1>2. /\ last' \in [Charts -> {Never, 0, 1}] /\ last'[s] = Never
        /\ \A r \in Charts \ {s} : last'[r] = last[r]
    BY <1>1 DEF PaceInv, RunsTyped
  <1>3. /\ sent' \in [Charts -> Nat] /\ sent'[s] = 0 /\ \A r \in Charts \ {s} : sent'[r] = sent[r]
    BY <1>1 DEF PaceInv, RunsTyped
  <1>4. /\ begun' \in [Charts -> Seq(Begins)] /\ begun'[s] = <<>>
        /\ \A r \in Charts \ {s} : begun'[r] = begun[r]
    BY <1>1 DEF PaceInv, RunsTyped
  <1>5. RunsTyped'
    BY <1>1, <1>2, <1>3, <1>4 DEF PaceInv, RunsTyped
  <1>6. Asked'
    BY <1>1 DEF PaceInv, Asked, InFlight
  <1>7. OnePosted'
    <2>1. posted # <<>> => posted[1].sym \in Charts
      BY PostedTyped, RunIsARun DEF PaceInv
    <2> QED  BY <1>1, <1>2, <2>1 DEF PaceInv, OnePosted, Never
  <1>8. Rising'
    <2> SUFFICES ASSUME "switched" \notin mixed' PROVE Rising'
      BY DEF Rising
    <2>1. posted' = <<>> /\ "switched" \notin mixed
      BY <1>1, NoneInFlight DEF PaceInv
    <2>2. DOMAIN posted' = {} /\ DOMAIN begun'[s] = {}
      BY <1>4, <2>1
    <2> QED  BY <1>3, <1>4, <2>1, <2>2 DEF PaceInv, Rising
  <1>9. SentHeld'
    BY <1>1, <1>3 DEF PaceInv, SentHeld, RunsTyped
  <1>10. FirstRuns'
    <2> SUFFICES ASSUME mixed' = {} PROVE FirstRuns'
      BY DEF FirstRuns
    <2>1. posted' = <<>> /\ mixed = {}
      BY <1>1, NoneInFlight DEF PaceInv
    <2> QED  BY <1>2, <1>4, <2>1 DEF PaceInv, FirstRuns
  <1>11. AutoSpaced' /\ FullOnlyFirst'
    <2>1. Len(begun'[s]) = 0 /\ DOMAIN begun'[s] = {}
      BY <1>4
    <2>2. 2 .. Len(begun'[s]) = {}
      BY <2>1
    <2>3. AutoSpaced'
      BY <1>1, <1>4, <2>2 DEF PaceInv, AutoSpaced
    <2>4. FullOnlyFirst'
      BY <1>1, <1>4, <2>1 DEF PaceInv, FullOnlyFirst
    <2> QED  BY <2>3, <2>4
  <1> QED  BY <1>5, <1>6, <1>7, <1>8, <1>9, <1>10, <1>11 DEF PaceInv

LEMMA SnapKeeps ==
    ASSUME PaceInv, NEW v \in 1 .. MaxVersions, NEW ready \in BOOLEAN, Snap(v, ready)
    PROVE  PaceInv'
  <1>1. /\ open \in Charts /\ v >= held.version /\ v \in Nat /\ held.version \in Nat
        /\ held' = [NoRun EXCEPT !.sym = open, !.version = v]
        /\ UNCHANGED <<open, last, auto, manual, recommended, prior, begun>>
    BY DeskRunsAssumption DEF Snap, PaceInv, RunsTyped
  <1>2. /\ held' \in [sym : Charts \cup {NoChart}, version : Nat, first : BOOLEAN, n : Nat]
        /\ held'.sym = open /\ held'.version = v
    BY <1>1 DEF NoRun
  <1>3. \A s \in Charts : sent[s] \in Nat /\ sent[s] <= v
    BY <1>1 DEF PaceInv, RunsTyped, SentHeld
  <1>4. CASE UNCHANGED <<asks, sent, posted, mixed>>
    <2>1. RunsTyped'
      BY <1>1, <1>2, <1>4 DEF PaceInv, RunsTyped
    <2>2. SentHeld'
      BY <1>2, <1>3, <1>4 DEF SentHeld
    <2>3. Asked'
      BY <1>1, <1>4 DEF PaceInv, Asked, InFlight
    <2>4. OnePosted' /\ Rising' /\ FirstRuns' /\ AutoSpaced' /\ FullOnlyFirst'
      BY <1>1, <1>4 DEF PaceInv, OnePosted, Rising, FirstRuns, AutoSpaced, FullOnlyFirst
    <2> QED  BY <2>1, <2>2, <2>3, <2>4 DEF PaceInv
  <1>5. CASE ~UNCHANGED <<asks, sent, posted, mixed>>
    <2> DEFINE run == [sym |-> open, version |-> v, first |-> last[open] = Never, n |-> asks + 1]
    <2>1. /\ Gate(open, v) /\ asks' = asks + 1 /\ sent' = [sent EXCEPT ![open] = v]
          /\ posted' = Append(posted, run)
          /\ mixed' = mixed \cup (IF posted # <<>> \/ auto # NoRun THEN {"queued"} ELSE {})
      BY <1>5 DEF Snap
    <2>2. asks \in Nat /\ asks' \in Nat /\ asks <= asks' /\ asks' = asks + 1
      BY <2>1 DEF PaceInv, RunsTyped
    <2>3. /\ run \in Runs /\ run.sym = open /\ run.version = v /\ run.n = asks'
          /\ (run.first <=> last[open] = Never)
      <3> DEFINE first == last[open] = Never
      <3>1. first \in BOOLEAN /\ asks + 1 \in Nat \ {0}
        BY <2>2
      <3>2. run = [sym |-> open, version |-> v, first |-> first, n |-> asks + 1]
        OBVIOUS
      <3> HIDE DEF first, run
      <3>3. run.first = first
        BY <3>2
      <3>4. run.sym = open /\ run.version = v /\ run.n = asks + 1
        BY <3>2
      <3>5. run \in Runs
        BY <1>1, <3>1, <3>2 DEF Runs
      <3> QED  BY <2>2, <3>3, <3>4, <3>5 DEF first
    <2> HIDE DEF run
    <2>4. last[open] # 0 /\ sent[open] < v
      BY <1>1, <1>3, <2>1 DEF Gate, Due, Changed
    <2>5. /\ posted' \in Seq(Runs) /\ posted' # <<>> /\ Len(posted') = Len(posted) + 1
          /\ Len(posted) \in Nat /\ DOMAIN posted = 1 .. Len(posted)
          /\ DOMAIN posted' = 1 .. Len(posted) + 1
          /\ \A i \in 1 .. Len(posted) : posted'[i] = posted[i]
          /\ posted'[Len(posted) + 1] = run
      BY <2>1, <2>3, Appended DEF PaceInv, RunsTyped
    <2>6. /\ sent' \in [Charts -> Nat] /\ sent'[open] = v
          /\ \A r \in Charts \ {open} : sent'[r] = sent[r]
      BY <1>1, <2>1 DEF PaceInv, RunsTyped
    <2>7. mixed \subseteq mixed' /\ mixed' \subseteq mixed \cup {"queued"}
          /\ ("queued" \notin mixed' => posted = <<>> /\ auto = NoRun)
      BY <2>1
    <2>8. RunsTyped'
      BY <1>1, <1>2, <2>2, <2>5, <2>6, <2>7 DEF PaceInv, RunsTyped
    <2>9. Asked'
      <3>1. \A x \in InFlight' : x \in InFlight \/ x = run
        BY <1>1, <2>5 DEF InFlight
      <3>2. \A x \in InFlight : x.n \in Nat /\ x.n <= asks
        BY PostedTyped, RunIsARun DEF PaceInv, Asked, InFlight, RunsTyped
      <3>3. \A x \in InFlight' : x.n <= asks'
        BY <2>2, <2>3, <3>1, <3>2
      <3> QED  BY <1>1, <3>3 DEF PaceInv, Asked
    <2>10. OnePosted'
      <3> SUFFICES ASSUME "queued" \notin mixed' PROVE OnePosted'
        BY DEF OnePosted
      <3>1. posted = <<>> /\ auto = NoRun /\ Len(posted) = 0
        BY <2>7
      <3>2. Len(posted') = 1 /\ posted'[1] = run
        BY <2>5, <3>1
      <3> QED  BY <1>1, <2>3, <2>4, <3>1, <3>2 DEF OnePosted
    <2>11. Rising'
      <3> SUFFICES ASSUME "switched" \notin mixed' PROVE Rising'
        BY DEF Rising
      <3>1. "switched" \notin mixed
        BY <2>7
      <3>2. \A i \in 1 .. Len(posted) :
                 /\ posted'[i] = posted[i] /\ posted[i].sym \in Charts /\ posted[i].version \in Nat
                 /\ posted[i].version <= sent[posted[i].sym]
        BY <2>5, <3>1, PostedTyped, RunIsARun DEF PaceInv, Rising
      <3>3. \A r \in Charts : sent'[r] \in Nat /\ sent[r] <= sent'[r]
        BY <1>1, <1>3, <2>6
      <3>4. \A i \in DOMAIN posted' : posted'[i].version <= sent'[posted'[i].sym]
        BY <1>1, <1>3, <2>3, <2>5, <2>6, <3>2, <3>3
      <3>5. \A i, j \in DOMAIN posted' :
               i < j /\ posted'[i].sym = posted'[j].sym => posted'[i].version < posted'[j].version
        <4> SUFFICES ASSUME NEW i \in DOMAIN posted', NEW j \in DOMAIN posted', i < j,
                            posted'[i].sym = posted'[j].sym
                     PROVE  posted'[i].version < posted'[j].version
          OBVIOUS
        <4>1. i \in 1 .. Len(posted)
          BY <2>5
        <4>2. CASE j \in 1 .. Len(posted)
          BY <2>5, <3>1, <4>1, <4>2 DEF PaceInv, Rising
        <4>3. CASE j = Len(posted) + 1
          BY <1>1, <1>3, <2>3, <2>4, <2>5, <3>2, <4>1, <4>3
        <4> QED  BY <2>5, <4>2, <4>3
      <3>6. ASSUME NEW s \in Charts, NEW i \in DOMAIN begun[s]
            PROVE  /\ begun[s][i].run.version <= sent'[s]
                   /\ \A j \in DOMAIN begun[s] : i < j => begun[s][i].run.version < begun[s][j].run.version
                   /\ \A j \in DOMAIN posted' :
                         posted'[j].sym = s => begun[s][i].run.version < posted'[j].version
        <4>1. begun[s][i].run.version \in Nat
          BY PostedTyped, RunIsARun DEF PaceInv, Begins
        <4>2. begun[s][i].run.version <= sent[s]
          BY <3>1 DEF PaceInv, Rising
        <4>3. ASSUME NEW j \in DOMAIN posted', posted'[j].sym = s
              PROVE  begun[s][i].run.version < posted'[j].version
          <5>1. CASE j \in 1 .. Len(posted)
            BY <2>5, <3>1, <4>3, <5>1 DEF PaceInv, Rising
          <5>2. CASE j = Len(posted) + 1
            BY <1>3, <2>3, <2>4, <2>5, <4>1, <4>2, <4>3, <5>2
          <5> QED  BY <2>5, <5>1, <5>2
        <4>4. begun[s][i].run.version <= sent'[s]
          BY <1>3, <3>3, <4>1, <4>2
        <4> QED  BY <3>1, <4>3, <4>4 DEF PaceInv, Rising
      <3> QED  BY <1>1, <3>4, <3>5, <3>6 DEF Rising
    <2>12. SentHeld'
      BY <1>1, <1>2, <1>3, <2>6 DEF SentHeld
    <2>13. FirstRuns'
      <3> SUFFICES ASSUME mixed' = {} PROVE FirstRuns'
        BY DEF FirstRuns
      <3>1. mixed = {} /\ Len(posted) = 0
        BY <2>7
      <3>2. DOMAIN posted' = {1} /\ posted'[1] = run
        BY <2>5, <3>1
      <3> QED  BY <1>1, <2>3, <3>1, <3>2 DEF PaceInv, FirstRuns
    <2>14. AutoSpaced' /\ FullOnlyFirst'
      BY <1>1, <2>7 DEF PaceInv, AutoSpaced, FullOnlyFirst
    <2> QED  BY <2>8, <2>9, <2>10, <2>11, <2>12, <2>13, <2>14 DEF PaceInv
  <1> QED  BY <1>4, <1>5

\* The run at the head of the queue is lost or begins; the others move up.
LEMMA TailKeeps ==
    ASSUME RunsTyped, posted # <<>>, posted' = Tail(posted)
    PROVE  /\ posted' \in Seq(Runs) /\ Head(posted) = posted[1] /\ Head(posted) \in Runs
           /\ 1 \in DOMAIN posted /\ Len(posted) \in Nat \ {0}
           /\ (Len(posted) <= 1 => posted' = <<>> /\ DOMAIN posted' = {})
           /\ Len(posted') = Len(posted) - 1
           /\ \A i \in DOMAIN posted' : i + 1 \in DOMAIN posted /\ i \in Nat /\ i > 0
                                        /\ posted'[i] = posted[i + 1]
  <1>1. posted \in Seq(Runs)
    BY DEF RunsTyped
  <1>2. /\ posted' \in Seq(Runs) /\ Len(posted') = Len(posted) - 1 /\ Len(posted) \in Nat \ {0}
        /\ DOMAIN posted = 1 .. Len(posted) /\ DOMAIN posted' = 1 .. Len(posted) - 1
        /\ \A i \in 1 .. Len(posted) - 1 : posted'[i] = posted[i + 1]
        /\ Head(posted) = posted[1] /\ Head(posted) \in Runs
    BY <1>1, Tailed
  <1>3. ASSUME Len(posted) <= 1 PROVE posted' = <<>> /\ DOMAIN posted' = {}
    BY <1>2, <1>3
  <1> QED  BY <1>2, <1>3

\* What is posted later rises above what is gone.
LEMMA RisesStill ==
    ASSUME PaceInv, posted # <<>>, posted' = Tail(posted), "switched" \notin mixed,
           UNCHANGED <<sent, mixed>>
    PROVE  /\ \A i \in DOMAIN posted' : posted'[i].version <= sent'[posted'[i].sym]
           /\ \A i, j \in DOMAIN posted' :
                  i < j /\ posted'[i].sym = posted'[j].sym => posted'[i].version < posted'[j].version
           /\ \A i \in DOMAIN posted' :
                  posted'[i].sym = posted[1].sym => posted[1].version < posted'[i].version
           /\ \A s \in Charts : \A i \in DOMAIN begun[s] : \A j \in DOMAIN posted' :
                  posted'[j].sym = s => begun[s][i].run.version < posted'[j].version
  <1>1. \A i \in DOMAIN posted' : i + 1 \in DOMAIN posted /\ i \in Nat /\ i > 0
                                  /\ posted'[i] = posted[i + 1]
    BY TailKeeps DEF PaceInv
  <1>2. 1 \in DOMAIN posted
    BY TailKeeps DEF PaceInv
  <1>3. Rising
    BY DEF PaceInv
  <1>4. \A i \in DOMAIN posted' : posted'[i].version <= sent'[posted'[i].sym]
    BY <1>1, <1>3 DEF Rising
  <1>5. \A i, j \in DOMAIN posted' :
            i < j /\ posted'[i].sym = posted'[j].sym => posted'[i].version < posted'[j].version
    BY <1>1, <1>3 DEF Rising
  <1>6. \A i \in DOMAIN posted' :
            posted'[i].sym = posted[1].sym => posted[1].version < posted'[i].version
    BY <1>1, <1>2, <1>3 DEF Rising
  <1>7. \A s \in Charts : \A i \in DOMAIN begun[s] : \A j \in DOMAIN posted' :
            posted'[j].sym = s => begun[s][i].run.version < posted'[j].version
    BY <1>1, <1>3 DEF Rising
  <1> QED  BY <1>4, <1>5, <1>6, <1>7

LEMMA LosePostedKeeps ==
    ASSUME PaceInv, LosePosted
    PROVE  PaceInv'
  <1>1. /\ posted # <<>> /\ posted' = Tail(posted)
        /\ UNCHANGED <<open, enabled, last, sent, held, auto, manual, recommended, prior, asks,
                       switches, begun, mixed>>
    BY DEF LosePosted
  <1>2. /\ posted' \in Seq(Runs) /\ Len(posted) \in Nat \ {0}
        /\ (Len(posted) <= 1 => posted' = <<>> /\ DOMAIN posted' = {})
        /\ Len(posted') = Len(posted) - 1
        /\ \A i \in DOMAIN posted' : i + 1 \in DOMAIN posted /\ posted'[i] = posted[i + 1]
    BY <1>1, TailKeeps DEF PaceInv
  <1>3. RunsTyped'
    BY <1>1, <1>2 DEF PaceInv, RunsTyped
  <1>4. Asked'
    BY <1>1, <1>2 DEF PaceInv, Asked, InFlight
  <1>5. OnePosted'
    BY <1>1, <1>2 DEF PaceInv, OnePosted
  <1>6. Rising'
    BY <1>1, RisesStill DEF PaceInv, Rising
  <1>7. SentHeld' /\ AutoSpaced' /\ FullOnlyFirst'
    BY <1>1 DEF PaceInv, SentHeld, AutoSpaced, FullOnlyFirst
  <1>8. FirstRuns'
    BY <1>1, <1>2 DEF PaceInv, FirstRuns
  <1> QED  BY <1>3, <1>4, <1>5, <1>6, <1>7, <1>8 DEF PaceInv

LEMMA RunAutoKeeps ==
    ASSUME PaceInv, RunAuto
    PROVE  PaceInv'
  <1> DEFINE run == posted[1]
  <1> DEFINE s == run.sym
  <1> DEFINE new == [run |-> run, after |-> last[s]]
  <1>1. /\ auto = NoRun /\ posted # <<>> /\ posted' = Tail(posted)
        /\ UNCHANGED <<open, enabled, sent, held, manual, recommended, prior, asks, switches, mixed>>
    BY DEF RunAuto
  <1>2. /\ posted' \in Seq(Runs) /\ Len(posted) \in Nat \ {0} /\ Head(posted) = run /\ run \in Runs
        /\ 1 \in DOMAIN posted
        /\ (Len(posted) <= 1 => posted' = <<>> /\ DOMAIN posted' = {})
        /\ Len(posted') = Len(posted) - 1
        /\ \A i \in DOMAIN posted' : i + 1 \in DOMAIN posted /\ posted'[i] = posted[i + 1]
    BY <1>1, TailKeeps DEF PaceInv
  <1>3. /\ auto' = run /\ last' = [last EXCEPT ![s] = 0]
        /\ begun' = [begun EXCEPT ![s] = Append(begun[s], new)]
    BY <1>2 DEF RunAuto, Began
  <1>4. s \in Charts /\ run.version \in Nat /\ run # NoRun /\ run.n \in Nat
    BY <1>2, RunIsARun
  <1>5. new \in Begins /\ new.run = run /\ new.after = last[s]
    BY <1>2, <1>4 DEF Begins, PaceInv, RunsTyped
  <1> HIDE DEF new, s, run
  <1>6. /\ last' \in [Charts -> {Never, 0, 1}] /\ last'[s] = 0
        /\ \A r \in Charts \ {s} : last'[r] = last[r]
    BY <1>3, <1>4 DEF PaceInv, RunsTyped
  <1> DEFINE N == Len(begun[s])
  <1>7. /\ begun[s] \in Seq(Begins) /\ N \in Nat /\ DOMAIN begun[s] = 1 .. N
    BY <1>4, PostedTyped DEF PaceInv
  <1>8. /\ begun' \in [Charts -> Seq(Begins)] /\ \A r \in Charts \ {s} : begun'[r] = begun[r]
        /\ begun'[s] # <<>> /\ Len(begun'[s]) = N + 1 /\ DOMAIN begun'[s] = 1 .. N + 1
        /\ (\A i \in 1 .. N : begun'[s][i] = begun[s][i]) /\ begun'[s][N + 1] = new
    <2>1. begun'[s] = Append(begun[s], new) /\ Append(begun[s], new) \in Seq(Begins)
      BY <1>3, <1>4, <1>5, <1>7, Appended DEF PaceInv, RunsTyped
    <2>2. begun' \in [Charts -> Seq(Begins)] /\ \A r \in Charts \ {s} : begun'[r] = begun[r]
      BY <1>3, <2>1 DEF PaceInv, RunsTyped
    <2> QED  BY <1>5, <1>7, <2>1, <2>2, Appended
  <1>9. RunsTyped'
    BY <1>1, <1>2, <1>3, <1>6, <1>8 DEF PaceInv, RunsTyped
  <1>10. Asked'
    <2>1. run \in InFlight
      BY <1>2, <1>4 DEF InFlight, run
    <2>2. \A x \in InFlight' : x \in InFlight
      BY <1>1, <1>2, <1>3, <2>1 DEF InFlight
    <2> QED  BY <1>1, <2>2 DEF PaceInv, Asked
  <1>11. OnePosted'
    <2> SUFFICES ASSUME "queued" \notin mixed' PROVE OnePosted'
      BY DEF OnePosted
    <2>1. posted' = <<>> /\ Len(posted') = 0
      BY <1>1, <1>2 DEF PaceInv, OnePosted
    <2> QED  BY <2>1 DEF OnePosted
  <1>12. Rising'
    <2> SUFFICES ASSUME "switched" \notin mixed' PROVE Rising'
      BY DEF Rising
    <2>1. "switched" \notin mixed
      BY <1>1
    <2>2. /\ \A i \in DOMAIN posted' : posted'[i].version <= sent'[posted'[i].sym]
          /\ \A i, j \in DOMAIN posted' :
                  i < j /\ posted'[i].sym = posted'[j].sym => posted'[i].version < posted'[j].version
          /\ \A i \in DOMAIN posted' : posted'[i].sym = s => run.version < posted'[i].version
          /\ \A r \in Charts : \A i \in DOMAIN begun[r] : \A j \in DOMAIN posted' :
                  posted'[j].sym = r => begun[r][i].run.version < posted'[j].version
      BY <1>1, <2>1, RisesStill DEF run, s
    <2>3. /\ run.version <= sent[s]
          /\ \A i \in 1 .. N : begun[s][i].run.version < run.version
      BY <1>2, <1>4, <1>7, <2>1 DEF PaceInv, Rising, run, s
    <2>4. \A r \in Charts : \A i \in DOMAIN begun[r] : begun[r][i].run.version <= sent[r]
      BY <2>1 DEF PaceInv, Rising
    <2>5. \A r \in Charts : \A i, j \in DOMAIN begun[r] :
              i < j => begun[r][i].run.version < begun[r][j].run.version
      BY <2>1 DEF PaceInv, Rising
    <2>6. ASSUME NEW r \in Charts, NEW i \in DOMAIN begun'[r]
          PROVE  /\ begun'[r][i].run.version <= sent'[r]
                 /\ \A j \in DOMAIN begun'[r] :
                       i < j => begun'[r][i].run.version < begun'[r][j].run.version
                 /\ \A j \in DOMAIN posted' :
                       posted'[j].sym = r => begun'[r][i].run.version < posted'[j].version
      <3>1. CASE r # s
        <4>1. begun'[r] = begun[r] /\ i \in DOMAIN begun[r] /\ sent'[r] = sent[r]
          BY <1>1, <1>8, <2>6, <3>1
        <4> QED  BY <2>2, <2>4, <2>5, <4>1
      <3>2. CASE r = s /\ i \in 1 .. N
        <4>1. begun'[r][i] = begun[s][i] /\ i \in DOMAIN begun[s] /\ sent'[r] = sent[s]
          BY <1>1, <1>7, <1>8, <3>2
        <4>2. ASSUME NEW j \in DOMAIN begun'[r], i < j
              PROVE  begun'[r][i].run.version < begun'[r][j].run.version
          <5>1. CASE j \in 1 .. N
            BY <1>4, <1>7, <1>8, <2>5, <3>2, <4>1, <4>2, <5>1
          <5>2. CASE j = N + 1
            <6>1. begun'[r][j].run = run
              BY <1>5, <1>8, <3>2, <5>2
            <6> QED  BY <2>3, <3>2, <4>1, <6>1
          <5> QED  BY <1>7, <1>8, <3>2, <5>1, <5>2
        <4>3. begun'[r][i].run.version <= sent'[r]
          BY <1>4, <2>4, <3>2, <4>1
        <4>4. \A j \in DOMAIN posted' :
                  posted'[j].sym = r => begun'[r][i].run.version < posted'[j].version
          BY <1>4, <2>2, <3>2, <4>1
        <4> QED  BY <4>2, <4>3, <4>4
      <3>3. CASE r = s /\ i = N + 1
        <4>1. begun'[r][i].run = run
          BY <1>5, <1>8, <3>3
        <4>2. \A j \in DOMAIN begun'[r] : ~(i < j)
          BY <1>7, <1>8, <3>3
        <4> QED  BY <1>1, <2>2, <2>3, <3>3, <4>1, <4>2
      <3> QED  BY <1>7, <1>8, <2>6, <3>1, <3>2, <3>3
    <2> QED  BY <2>2, <2>6 DEF Rising
  <1>13. SentHeld'
    BY <1>1 DEF PaceInv, SentHeld
  <1>14. FirstRuns'
    <2> SUFFICES ASSUME mixed' = {} PROVE FirstRuns'
      BY DEF FirstRuns
    <2>1. mixed = {} /\ DOMAIN posted' = {}
      BY <1>1, <1>2 DEF PaceInv, OnePosted
    <2>2. \A r \in Charts : last'[r] = Never <=> begun'[r] = <<>>
      BY <1>6, <1>8, <2>1 DEF PaceInv, FirstRuns, Never
    <2> QED  BY <2>1, <2>2 DEF FirstRuns
  <1>15. AutoSpaced'
    <2> SUFFICES ASSUME mixed' \cap {"queued", "manual"} = {}, NEW r \in Charts,
                        NEW i \in 2 .. Len(begun'[r])
                 PROVE  begun'[r][i].after # 0
      BY DEF AutoSpaced
    <2>1. last[s] # 0
      BY <1>1 DEF PaceInv, OnePosted, run, s
    <2>2. \A x \in Charts : \A y \in 2 .. Len(begun[x]) : begun[x][y].after # 0
      BY <1>1 DEF PaceInv, AutoSpaced
    <2>3. CASE r # s
      BY <1>8, <2>2, <2>3
    <2>4. CASE r = s
      BY <1>4, <1>5, <1>7, <1>8, <2>1, <2>2, <2>4
    <2> QED  BY <2>3, <2>4
  <1>16. FullOnlyFirst'
    <2> SUFFICES ASSUME mixed' = {}, NEW r \in Charts, NEW i \in DOMAIN begun'[r]
                 PROVE  begun'[r][i].run.first <=> i = 1
      BY DEF FullOnlyFirst
    <2>1. mixed = {}
      BY <1>1
    <2>2. \A x \in Charts : \A y \in DOMAIN begun[x] : begun[x][y].run.first <=> y = 1
      BY <2>1 DEF PaceInv, FullOnlyFirst
    <2>3. run.first <=> N = 0
      <3>1. run.first <=> last[s] = Never
        BY <1>2, <2>1 DEF PaceInv, FirstRuns, run, s
      <3>2. last[s] = Never <=> begun[s] = <<>>
        BY <1>4, <2>1 DEF PaceInv, FirstRuns
      <3>3. begun[s] = <<>> <=> N = 0
        BY <1>7
      <3> QED  BY <3>1, <3>2, <3>3
    <2>4. CASE r # s
      BY <1>8, <2>2, <2>4
    <2>5. CASE r = s /\ i \in 1 .. N
      BY <1>4, <1>7, <1>8, <2>2, <2>5
    <2>6. CASE r = s /\ i = N + 1
      BY <1>5, <1>7, <1>8, <2>3, <2>6
    <2> QED  BY <1>7, <1>8, <2>4, <2>5, <2>6
  <1> QED  BY <1>9, <1>10, <1>11, <1>12, <1>13, <1>14, <1>15, <1>16 DEF PaceInv

\* Steps that change neither runs nor times but what is shown.
LEMMA OthersKeep ==
    ASSUME PaceInv,
           UNCHANGED <<open, last, sent, held, posted, asks, begun>>,
           auto' \in {auto, NoRun}, manual' \subseteq Runs, \A run \in manual' : run.n <= asks,
           \A s \in Charts : prior'[s] # NoRun => prior'[s].sym = s,
           mixed \subseteq mixed', mixed' \subseteq {"switched", "queued", "manual"}
    PROVE  PaceInv'
  <1>1. RunsTyped'
    BY DEF PaceInv, RunsTyped
  <1>2. Asked'
    BY DEF PaceInv, Asked, InFlight
  <1>3. OnePosted'
    BY DEF PaceInv, OnePosted
  <1>4. Rising'
    BY DEF PaceInv, Rising
  <1>5. SentHeld' /\ AutoSpaced' /\ FullOnlyFirst'
    BY DEF PaceInv, SentHeld, AutoSpaced, FullOnlyFirst
  <1>6. FirstRuns'
    BY DEF PaceInv, FirstRuns
  <1> QED  BY <1>1, <1>2, <1>3, <1>4, <1>5, <1>6 DEF PaceInv

LEMMA PriorTold ==
    ASSUME Asked, NEW run \in Runs, Emitted(run)
    PROVE  \A s \in Charts : prior'[s] # NoRun => prior'[s].sym = s
  BY DEF Asked, Emitted, ResultOf

LEMMA ManualTyped ==
    ASSUME PaceInv
    PROVE  manual \subseteq Runs /\ \A run \in manual : run.n <= asks
  BY RunIsARun DEF PaceInv, RunsTyped, Asked, InFlight

LEMMA ToggleKeeps ==
    ASSUME PaceInv, Toggle
    PROVE  PaceInv'
  <1>1. /\ UNCHANGED <<open, last, sent, held, posted, auto, manual, prior, asks, begun, mixed>>
    BY DEF Toggle
  <1> QED  BY <1>1, OthersKeep, ManualTyped DEF PaceInv, RunsTyped, Asked

LEMMA EndAutoKeeps ==
    ASSUME PaceInv, NEW success \in BOOLEAN, EndAuto(success)
    PROVE  PaceInv'
  <1>1. /\ auto # NoRun /\ auto' = NoRun
        /\ UNCHANGED <<open, last, sent, held, posted, manual, asks, begun, mixed>>
        /\ Emitted(auto) \/ UNCHANGED prior
    BY DEF EndAuto
  <1>2. auto \in Runs
    BY <1>1 DEF PaceInv, RunsTyped
  <1>3. \A s \in Charts : prior'[s] # NoRun => prior'[s].sym = s
    <2>1. CASE Emitted(auto)
      BY <1>2, <2>1, PriorTold DEF PaceInv
    <2>2. CASE UNCHANGED prior
      BY <2>2 DEF PaceInv, Asked
    <2> QED  BY <1>1, <2>1, <2>2
  <1>4. /\ manual' \subseteq Runs /\ \A run \in manual' : run.n <= asks
        /\ mixed \subseteq mixed' /\ mixed' \subseteq {"switched", "queued", "manual"}
    BY <1>1, ManualTyped DEF PaceInv, RunsTyped
  <1> QED  BY <1>1, <1>3, <1>4, OthersKeep

LEMMA RunManualKeeps ==
    ASSUME PaceInv, RunManual
    PROVE  PaceInv'
  <1> DEFINE run == [held EXCEPT !.n = asks + 1]
  <1>1. /\ held # NoRun /\ asks' = asks + 1 /\ manual' = manual \cup {run}
        /\ mixed \subseteq mixed' /\ mixed' \subseteq mixed \cup {"switched"}
        /\ UNCHANGED <<open, last, sent, held, posted, auto, prior, begun>>
    BY DEF RunManual
  <1>2. asks \in Nat /\ asks + 1 \in Nat \ {0}
    BY DEF PaceInv, RunsTyped
  <1>3. run \in Runs /\ run.n = asks + 1
    <2>1. held.sym \in Charts
      BY <1>1 DEF PaceInv, RunsTyped
    <2>2. held \in [sym : Charts \cup {NoChart}, version : Nat, first : BOOLEAN, n : Nat]
      BY DEF PaceInv, RunsTyped
    <2> QED  BY <1>2, <2>1, <2>2 DEF Runs
  <1> HIDE DEF run
  <1>4. RunsTyped'
    BY <1>1, <1>2, <1>3 DEF PaceInv, RunsTyped
  <1>5. Asked'
    <2>1. \A x \in InFlight' : x \in InFlight \/ x = run
      BY <1>1 DEF InFlight
    <2>2. \A x \in InFlight : x.n \in Nat /\ x.n <= asks
      BY PostedTyped, RunIsARun DEF PaceInv, Asked, InFlight, RunsTyped
    <2>3. \A x \in InFlight' : x.n <= asks'
      BY <1>1, <1>2, <1>3, <2>1, <2>2
    <2> QED  BY <1>1, <2>3 DEF PaceInv, Asked
  <1>6. OnePosted'
    BY <1>1 DEF PaceInv, OnePosted
  <1>7. Rising'
    BY <1>1 DEF PaceInv, Rising
  <1>8. SentHeld' /\ AutoSpaced' /\ FullOnlyFirst'
    BY <1>1 DEF PaceInv, SentHeld, AutoSpaced, FullOnlyFirst
  <1>9. FirstRuns'
    BY <1>1 DEF PaceInv, FirstRuns
  <1> QED  BY <1>4, <1>5, <1>6, <1>7, <1>8, <1>9 DEF PaceInv

LEMMA EndManualKeeps ==
    ASSUME PaceInv, NEW success \in BOOLEAN, NEW run \in manual, EndManual(run, success)
    PROVE  PaceInv'
  <1>1. manual' = manual \ {run} /\ UNCHANGED <<open, sent, held, posted, auto, asks, begun>>
    BY DEF EndManual
  <1>2. run \in Runs /\ manual' \subseteq Runs /\ \A x \in manual' : x.n <= asks
    BY <1>1, ManualTyped
  <1>3. CASE ~success
    <2>1. UNCHANGED <<prior, last, mixed>>
      BY <1>3 DEF EndManual
    <2> QED  BY <1>1, <1>2, <2>1, OthersKeep DEF PaceInv, RunsTyped, Asked
  <1>4. CASE success
    <2>1. Emitted(run) /\ last' = [last EXCEPT ![open] = 0] /\ mixed' = mixed \cup {"manual"}
      BY <1>4 DEF EndManual
    <2>2. \A s \in Charts : prior'[s] # NoRun => prior'[s].sym = s
      BY <1>2, <2>1, PriorTold DEF PaceInv
    <2>3. last' \in [Charts -> {Never, 0, 1}]
      BY <2>1 DEF PaceInv, RunsTyped
    <2>4. RunsTyped'
      BY <1>1, <1>2, <2>1, <2>3 DEF PaceInv, RunsTyped
    <2>5. Asked'
      BY <1>1, <1>2, <2>2 DEF PaceInv, Asked, InFlight
    <2>6. OnePosted'
      BY <1>1, <2>1 DEF PaceInv, OnePosted
    <2>7. Rising'
      BY <1>1, <2>1 DEF PaceInv, Rising
    <2>8. SentHeld' /\ AutoSpaced' /\ FullOnlyFirst' /\ FirstRuns'
      BY <1>1, <2>1 DEF PaceInv, SentHeld, AutoSpaced, FullOnlyFirst, FirstRuns
    <2> QED  BY <2>4, <2>5, <2>6, <2>7, <2>8 DEF PaceInv
  <1> QED  BY <1>3, <1>4

LEMMA HalfMinuteKeeps ==
    ASSUME PaceInv, HalfMinute
    PROVE  PaceInv'
  <1>1. /\ last' = [s \in Charts |-> IF last[s] = 0 THEN 1 ELSE last[s]]
        /\ UNCHANGED <<open, sent, held, posted, auto, manual, recommended, prior, asks, begun, mixed>>
    BY DEF HalfMinute
  <1>2. /\ last' \in [Charts -> {Never, 0, 1}]
        /\ \A s \in Charts : last'[s] # 0 /\ (last'[s] = Never <=> last[s] = Never)
    BY <1>1 DEF PaceInv, RunsTyped, Never
  <1>3. RunsTyped'
    BY <1>1, <1>2 DEF PaceInv, RunsTyped
  <1>4. Asked' /\ Rising' /\ SentHeld' /\ AutoSpaced' /\ FullOnlyFirst'
    BY <1>1 DEF PaceInv, Asked, InFlight, Rising, SentHeld, AutoSpaced, FullOnlyFirst
  <1>5. \A i \in DOMAIN posted : posted[i].sym \in Charts
    BY PostedTyped, RunIsARun DEF PaceInv
  <1>6. OnePosted'
    <2>1. posted # <<>> => 1 \in DOMAIN posted
      BY PostedTyped DEF PaceInv
    <2> QED  BY <1>1, <1>2, <1>5, <2>1 DEF PaceInv, OnePosted
  <1>7. FirstRuns'
    BY <1>1, <1>2, <1>5 DEF PaceInv, FirstRuns
  <1> QED  BY <1>3, <1>4, <1>6, <1>7 DEF PaceInv

LEMMA InitRuns == RunsInit => PaceInv
  <1> SUFFICES ASSUME RunsInit PROVE PaceInv
    OBVIOUS
  <1>1. /\ last \in [Charts -> {Never, 0, 1}] /\ \A s \in Charts : last[s] = Never
    BY DEF RunsInit
  <1>2. sent \in [Charts -> Nat] /\ \A s \in Charts : sent[s] = 0
    BY DEF RunsInit
  <1>3. begun \in [Charts -> Seq(Begins)] /\ \A s \in Charts : begun[s] = <<>>
    BY DEF RunsInit
  <1>4. /\ open = NoChart /\ held = NoRun /\ posted = <<>> /\ auto = NoRun /\ manual = {} /\ asks = 0
        /\ mixed = {} /\ \A s \in Charts : prior[s] = NoRun
    BY DEF RunsInit
  <1>5. held \in [sym : Charts \cup {NoChart}, version : Nat, first : BOOLEAN, n : Nat]
        /\ held.version = 0
    BY <1>4 DEF NoRun
  <1>6. posted \in Seq(Runs) /\ DOMAIN posted = {} /\ Len(posted) = 0
    BY <1>4
  <1>7. \A s \in Charts : DOMAIN begun[s] = {} /\ 2 .. Len(begun[s]) = {}
    <2>1. DOMAIN <<>> = {} /\ Len(<<>>) = 0 /\ 2 .. 0 = {}
      OBVIOUS
    <2> QED  BY <1>3, <2>1
  <1>8. RunsTyped
    BY <1>1, <1>2, <1>3, <1>4, <1>5, <1>6 DEF RunsTyped
  <1>9. Asked
    BY <1>4, <1>6 DEF Asked, InFlight
  <1>10. OnePosted /\ Rising /\ SentHeld /\ FirstRuns
    BY <1>1, <1>2, <1>3, <1>4, <1>5, <1>6, <1>7 DEF OnePosted, Rising, SentHeld, FirstRuns
  <1>11. AutoSpaced /\ FullOnlyFirst
    BY <1>7 DEF AutoSpaced, FullOnlyFirst
  <1> QED  BY <1>8, <1>9, <1>10, <1>11 DEF PaceInv

LEMMA RunsStep == PaceInv /\ [RunsNext]_runVars => PaceInv'
  <1> SUFFICES ASSUME PaceInv, [RunsNext]_runVars PROVE PaceInv'
    OBVIOUS
  <1>1. CASE \E s \in Charts : Switch(s)
    BY <1>1, SwitchKeeps
  <1>2. CASE \E v \in 1 .. MaxVersions, ready \in BOOLEAN : Snap(v, ready)
    BY <1>2, SnapKeeps
  <1>3. CASE Toggle \/ LosePosted \/ RunAuto \/ RunManual \/ HalfMinute
    BY <1>3, ToggleKeeps, LosePostedKeeps, RunAutoKeeps, RunManualKeeps, HalfMinuteKeeps
  <1>4. CASE \E success \in BOOLEAN :
                EndAuto(success) \/ \E run \in manual : EndManual(run, success)
    BY <1>4, EndAutoKeeps, EndManualKeeps
  <1>5. CASE UNCHANGED runVars
    BY <1>5, OthersKeep, ManualTyped DEF runVars, PaceInv, RunsTyped, Asked
  <1> QED  BY <1>1, <1>2, <1>3, <1>4, <1>5 DEF RunsNext

LEMMA PaceKept == PaceInv => RunsPaced
  <1> SUFFICES ASSUME PaceInv PROVE RunsPaced
    OBVIOUS
  <1>1. RunsTypeOK
    <2>1. \A run \in InFlight : run \in Runs
      BY PostedTyped DEF InFlight, PaceInv, RunsTyped
    <2>2. \A run \in InFlight : run.sym \in Charts /\ run.n \in 1 .. asks
      BY <2>1, RunIsARun DEF PaceInv, RunsTyped, Asked
    <2> QED  BY <2>2 DEF RunsTypeOK, PaceInv, RunsTyped, Asked
  <1>2. AutoChanged
    <2> SUFFICES ASSUME "switched" \notin mixed, NEW s \in Charts, NEW i \in 2 .. Len(begun[s])
                 PROVE  begun[s][i].run.version # begun[s][i - 1].run.version
      BY DEF AutoChanged
    <2>1. /\ DOMAIN begun[s] = 1 .. Len(begun[s]) /\ Len(begun[s]) \in Nat
          /\ \A j \in DOMAIN begun[s] : begun[s][j] \in Begins
      BY PostedTyped DEF PaceInv
    <2>2. i \in DOMAIN begun[s] /\ i - 1 \in DOMAIN begun[s] /\ i - 1 < i
      BY <2>1
    <2>3. begun[s][i].run.version \in Nat /\ begun[s][i - 1].run.version \in Nat
      BY <2>1, <2>2, RunIsARun DEF Begins
    <2>4. begun[s][i - 1].run.version < begun[s][i].run.version
      BY <2>2 DEF PaceInv, Rising
    <2> QED  BY <2>3, <2>4
  <1> QED  BY <1>1, <1>2 DEF RunsPaced, PaceInv

\* Automatic runs keep their distance, see something new each time and begin with the full model, but
\* for what the properties name: for any symbols, snapshots and number of runs, and whichever posted
\* ones are lost.  (_maybe_invoke_llm, _run_llm_from_snapshot.)
THEOREM RunsArePaced == RunsSpec => []RunsPaced
  <1>1. RunsInit => PaceInv
    BY InitRuns
  <1>2. PaceInv /\ [RunsNext]_runVars => PaceInv'
    BY RunsStep
  <1>3. PaceInv => RunsPaced
    BY PaceKept
  <1> QED  BY <1>1, <1>2, <1>3, PTL DEF RunsSpec

-----------------------------------------------------------------------------
(* The desktop: what is kept, what is on its way and what is shown.        *)

Named == DeskSymbols \cup {NoDesk}
DeskBars == [t : Int, of : SUBSET Named, v : Nat]
Entering == {"clear", "history", "minutes", "seed", "subscribe"}
DeskTyped ==
    /\ {entered, subscribed, snapshot} \subseteq Named
    /\ minutes \in [sym : Named, of : SUBSET Named]
    /\ forming \in DeskBars /\ (forming = NoBar \/ forming.t \in 0 .. slot)
    /\ bars \in Seq(DeskBars) /\ chart \in Seq(DeskBars)
    /\ {drawn, dirty, heard} \subseteq BOOLEAN
    /\ qt \in [pc : Entering \cup {"loop", "drawing", "drawn"}, bars : Seq(DeskBars)]
    /\ work \in [pc : {"idle", "quote", "append", "sign", "ensure"}, sym : Named, bar : DeskBars]
    /\ slot \in Nat /\ trades \in Nat /\ upsets \subseteq {"stray", "missed", "restart"}

\* What the two threads have done before where they are.
DeskPlaces ==
    /\ drawn => chart # <<>>
    /\ qt.pc = "history" => ~drawn
    /\ qt.pc \in Entering => entered # NoDesk
    /\ work # NoWork => subscribed # NoDesk
    /\ work.pc = "idle" => work = NoWork

\* Whose data there is, unless a quote of another symbol was on its way.
AllOf(s, sym) == \A i \in DOMAIN s : s[i].of \subseteq {sym}
DeskOwn ==
    "stray" \notin upsets =>
        /\ work.pc # "idle" => /\ work.sym = entered /\ subscribed = entered
                               /\ work.bar.of \subseteq {entered}
        /\ forming.of \subseteq {subscribed}
        /\ qt.pc # "clear" =>
              /\ forming.of \subseteq {entered} /\ minutes.of \subseteq {entered}
              /\ AllOf(bars, entered) /\ (drawn => AllOf(chart, entered))
              /\ qt.pc = "drawing" => AllOf(qt.bars, entered)

\* In the order of time, unless a chart bar came: the chart; before it is drawn, the bars, the bar
\* to be added to them and the bar in progress.
InTime(s) == \A i, j \in DOMAIN s : i < j => s[i].t < s[j].t
Before(s, t) == \A i \in DOMAIN s : s[i].t < t
DeskOrder ==
    "restart" \notin upsets =>
        /\ InTime(chart)
        /\ work.pc = "append" => work.bar.t < slot /\ (forming # NoBar => work.bar.t < forming.t)
        /\ ~drawn =>
              /\ InTime(bars) /\ Before(bars, slot)
              /\ forming # NoBar => Before(bars, forming.t)
              /\ work.pc = "append" => Before(bars, work.bar.t)
              /\ qt.pc = "drawing" => InTime(qt.bars)

\* What the newest bar waits for to be shown.
Ending(s) == s[Len(s)]
Shown ==
    drawn /\ (Ending(chart) = Ending(WithForming) \/ Ending(chart).t > Ending(WithForming).t)
DeskShows ==
    upsets = {} /\ WithForming # <<>> /\ work.pc \notin {"append", "sign"} =>
        \/ qt.pc = "drawing" /\ qt.bars = WithForming
        \/ qt.pc = "drawn" /\ Shown
        \/ qt.pc \notin {"drawing", "drawn"} /\ (dirty \/ Shown)

DeskInv ==
    DeskTyped /\ DeskPlaces /\ DeskOwn /\ SnapshotCurrent /\ DeskOrder /\ DeskShows

\* What set_history makes of bars: the same bars, and the same sequence if it was in order.
LEMMA RankInjective ==
    ASSUME NEW n \in Nat, NEW s, DOMAIN s = 1 .. n, \A i \in 1 .. n : s[i].t \in Int
    PROVE  /\ \A i \in 1 .. n : Rank(s, i) \in 1 .. n
           /\ \A i, j \in 1 .. n : Rank(s, i) = Rank(s, j) => i = j
  <1> DEFINE Ahead(i) == {j \in 1 .. n : Earlier(s, j, i)}
  <1>1. IsFiniteSet(1 .. n) /\ Cardinality(1 .. n) = n
    BY FS_Interval
  <1>2. \A i \in 1 .. n : Ahead(i) \in SUBSET (1 .. n) /\ i \notin Ahead(i)
    BY DEF Earlier
  <1>3. \A i \in 1 .. n : IsFiniteSet(Ahead(i)) /\ Cardinality(Ahead(i)) \in 0 .. n
    <2> TAKE i \in 1 .. n
    <2>1. IsFiniteSet(Ahead(i)) /\ Cardinality(Ahead(i)) <= n
      BY <1>1, <1>2, FS_Subset
    <2> QED  BY <2>1, FS_CardinalityType
  <1>4. \A i \in 1 .. n : Cardinality(Ahead(i)) # n
    <2> TAKE i \in 1 .. n
    <2>1. Ahead(i) # 1 .. n
      BY <1>2
    <2> QED  BY <1>1, <1>2, <2>1, FS_Subset
  <1>5. \A i, j \in 1 .. n : Earlier(s, i, j) => Cardinality(Ahead(i)) # Cardinality(Ahead(j))
    <2> SUFFICES ASSUME NEW i \in 1 .. n, NEW j \in 1 .. n, Earlier(s, i, j)
                 PROVE  Cardinality(Ahead(i)) # Cardinality(Ahead(j))
      OBVIOUS
    <2>1. \A k \in 1 .. n : Earlier(s, k, i) => Earlier(s, k, j)
      BY DEF Earlier
    <2>2. Ahead(i) \in SUBSET Ahead(j) /\ i \in Ahead(j)
      BY <2>1
    <2>3. Ahead(i) # Ahead(j)
      BY <1>2, <2>2
    <2> QED  BY <1>3, <2>2, <2>3, FS_Subset
  <1>6. \A i, j \in 1 .. n : i # j => Earlier(s, i, j) \/ Earlier(s, j, i)
    BY DEF Earlier
  <1>7. \A i \in 1 .. n : Rank(s, i) = Cardinality(Ahead(i)) + 1
    BY DEF Rank
  <1> HIDE DEF Ahead
  <1>8. \A i \in 1 .. n : Rank(s, i) \in 1 .. n
    BY <1>3, <1>4, <1>7
  <1> QED  BY <1>3, <1>5, <1>6, <1>7, <1>8

LEMMA RankOnto ==
    ASSUME NEW n \in Nat, NEW s, DOMAIN s = 1 .. n, \A i \in 1 .. n : s[i].t \in Int,
           NEW k \in 1 .. n
    PROVE  \E i \in 1 .. n : Rank(s, i) = k
  <1> DEFINE rank == [i \in 1 .. n |-> Rank(s, i)]
  <1>1. rank \in Injection(1 .. n, 1 .. n)
    BY RankInjective DEF Injection, IsInjective
  <1>2. IsFiniteSet(1 .. n)
    BY FS_Interval
  <1>3. rank \in Surjection(1 .. n, 1 .. n)
    BY <1>1, <1>2, FS_Injection
  <1> QED  BY <1>3 DEF Surjection

LEMMA HistorySet ==
    ASSUME NEW s \in Seq(DeskBars)
    PROVE  /\ SetHistory(s) \in Seq(DeskBars) /\ Len(SetHistory(s)) = Len(s)
           /\ \A k \in 1 .. Len(s) : \E i \in 1 .. Len(s) : SetHistory(s)[k] = s[i]
  <1> DEFINE n == Len(s)
             h == SetHistory(s)
  <1>1. n \in Nat /\ DOMAIN s = 1 .. n /\ \A i \in 1 .. n : s[i] \in DeskBars
    BY LenProperties, ElementOfSeq
  <1>2. \A i \in 1 .. n : s[i].t \in Int
    BY <1>1 DEF DeskBars
  <1>3. \A k \in 1 .. n : (CHOOSE i \in 1 .. n : Rank(s, i) = k) \in 1 .. n
    <2> TAKE k \in 1 .. n
    <2>1. \E i \in 1 .. n : Rank(s, i) = k
      <3> HIDE DEF n
      <3> QED  BY <1>1, <1>2, RankOnto
    <2> QED  BY <2>1
  <1>4. h = [k \in 1 .. n |-> s[CHOOSE i \in 1 .. n : Rank(s, i) = k]]
    BY <1>1 DEF SetHistory
  <1>5. \A k \in 1 .. n : \E i \in 1 .. n : h[k] = s[i]
    BY <1>3, <1>4
  <1>6. h \in [1 .. n -> DeskBars]
    BY <1>1, <1>4, <1>5
  <1> HIDE DEF h
  <1>7. h \in Seq(DeskBars) /\ Len(h) = n
    BY <1>1, <1>6, IsASeq, LenProperties
  <1> QED  BY <1>5, <1>7 DEF h

LEMMA HistoryKept ==
    ASSUME NEW s \in Seq(DeskBars), InTime(s)
    PROVE  SetHistory(s) = s
  <1> DEFINE n == Len(s)
  <1>1. n \in Nat /\ DOMAIN s = 1 .. n /\ \A i \in 1 .. n : s[i] \in DeskBars
    BY LenProperties, ElementOfSeq
  <1>2. \A i \in 1 .. n : s[i].t \in Int
    BY <1>1 DEF DeskBars
  <1>3. \A i \in 1 .. n : Rank(s, i) = i
    <2> TAKE i \in 1 .. n
    <2>1. \A j \in 1 .. n : Earlier(s, j, i) <=> j < i
      BY <1>1, <1>2 DEF Earlier, InTime
    <2>2. {j \in DOMAIN s : Earlier(s, j, i)} = 1 .. (i - 1)
      BY <1>1, <2>1
    <2>3. Cardinality(1 .. (i - 1)) = i - 1
      BY <1>1, FS_Interval
    <2>4. Cardinality({j \in DOMAIN s : Earlier(s, j, i)}) = i - 1
      BY <2>2, <2>3
    <2> QED  BY <1>1, <2>4 DEF Rank
  <1> DEFINE from(k) == CHOOSE i \in DOMAIN s : Rank(s, i) = k
  <1>4. \A k \in 1 .. n : from(k) = k
    BY <1>1, <1>3
  <1>5. SetHistory(s) = [k \in DOMAIN s |-> s[from(k)]]
    BY DEF SetHistory
  <1> HIDE DEF from
  <1>6. SetHistory(s) = [k \in 1 .. n |-> s[k]]
    BY <1>1, <1>4, <1>5
  <1> QED  BY <1>1, <1>6

LEMMA AppendedBar ==
    ASSUME NEW s \in Seq(DeskBars), NEW b \in DeskBars
    PROVE  /\ Append(s, b) \in Seq(DeskBars) /\ DOMAIN Append(s, b) = 1 .. Len(s) + 1
           /\ DOMAIN s = 1 .. Len(s) /\ Len(s) \in Nat /\ Len(Append(s, b)) = Len(s) + 1
           /\ \A i \in 1 .. Len(s) : Append(s, b)[i] = s[i]
           /\ Append(s, b)[Len(s) + 1] = b /\ Append(s, b) # <<>>
           /\ \A i \in 1 .. Len(s) : s[i] \in DeskBars /\ s[i].t \in Int
  <1>1. Len(s) \in Nat /\ DOMAIN s = 1 .. Len(s) /\ \A i \in 1 .. Len(s) : s[i] \in DeskBars
    BY LenProperties, ElementOfSeq
  <1>2. Append(s, b) \in Seq(DeskBars) /\ Len(Append(s, b)) = Len(s) + 1
        /\ \A i \in 1 .. Len(s) : Append(s, b)[i] = s[i] /\ Append(s, b)[Len(s) + 1] = b
    BY <1>1, AppendProperties
  <1>3. DOMAIN Append(s, b) = 1 .. Len(s) + 1 /\ Append(s, b) # <<>>
    BY <1>1, <1>2, LenProperties, EmptySeq
  <1>4. \A i \in 1 .. Len(s) : s[i].t \in Int
    BY <1>1 DEF DeskBars
  <1> QED  BY <1>1, <1>2, <1>3, <1>4

\* What upsert_bar makes of the chart: the newest bar is at its end unless the end is later.
LEMMA BarUpserted ==
    ASSUME NEW s \in Seq(DeskBars), s # <<>>, NEW b \in DeskBars
    PROVE  /\ Upserted(s, b) \in Seq(DeskBars) /\ Upserted(s, b) # <<>>
           /\ \A i \in DOMAIN Upserted(s, b) :
                 Upserted(s, b)[i] = b \/ \E k \in DOMAIN s : Upserted(s, b)[i] = s[k]
           /\ Ending(Upserted(s, b)) = b \/ Ending(Upserted(s, b)).t > b.t
           /\ InTime(s) => InTime(Upserted(s, b))
  <1> DEFINE n == Len(s)
             u == Upserted(s, b)
  <1>0. n \in Nat /\ DOMAIN s = 1 .. n /\ \A i \in 1 .. n : s[i] \in DeskBars /\ s[i].t \in Int
    BY AppendedBar
  <1>01. n \in 1 .. n /\ LastTime(s) = s[n].t
    BY <1>0, EmptySeq DEF LastTime
  <1>02. b.t \in Int /\ LastTime(s) \in Int
    BY <1>0, <1>01 DEF DeskBars
  <1>1. CASE b.t < LastTime(s)
    <2>1. u = s /\ s # <<>> /\ n # 0
      BY <1>01, <1>1, <1>02 DEF Upserted
    <2>2. s[n].t > b.t
      BY <1>0, <1>01, <1>02, <1>1, <2>1
    <2> QED  BY <1>0, <2>1, <2>2 DEF Ending
  <1>2. CASE b.t = LastTime(s)
    <2>1. u = [s EXCEPT ![n] = b] /\ s # <<>> /\ n \in 1 .. n
      BY <1>0, <1>01, <1>02, <1>2 DEF Upserted
    <2>2. s \in [1 .. n -> DeskBars]
      BY <1>0
    <2>3. u \in [1 .. n -> DeskBars] /\ u[n] = b /\ \A i \in 1 .. n : i # n => u[i] = s[i]
      BY <2>1, <2>2
    <2>4. u \in Seq(DeskBars) /\ Len(u) = n /\ DOMAIN u = 1 .. n
      BY <1>0, <2>3, IsASeq, LenProperties
    <2>5. \A i \in 1 .. n : u[i].t = s[i].t
      BY <1>01, <1>2, <2>1, <2>3
    <2>6. InTime(s) => InTime(u)
      BY <1>0, <2>4, <2>5 DEF InTime
    <2>7. u # <<>>
      BY <2>1, <2>4, EmptySeq
    <2>8. Ending(u) = b
      BY <2>3, <2>4 DEF Ending
    <2>9. \A i \in DOMAIN u : u[i] = b \/ \E k \in DOMAIN s : u[i] = s[k]
      BY <1>0, <2>3, <2>4
    <2> QED  BY <2>4, <2>6, <2>7, <2>8, <2>9
  <1>3. CASE b.t > LastTime(s)
    <2>0. ~(b.t < LastTime(s)) /\ b.t # LastTime(s)
      BY <1>02, <1>3
    <2>1. u = Append(s, b)
      BY <2>0, Zenon DEF Upserted
    <2>2. InTime(s) => InTime(u)
      <3> SUFFICES ASSUME InTime(s), NEW i \in 1 .. n + 1, NEW j \in 1 .. n + 1, i < j
                   PROVE  u[i].t < u[j].t
        BY <2>1, AppendedBar DEF InTime
      <3>1. u[i] = s[i] /\ i \in 1 .. n
        BY <1>0, <2>1, AppendedBar
      <3>2. CASE j = n + 1
        <4>1. u[j] = b /\ s[n].t < b.t /\ n \in 1 .. n
          BY <1>0, <1>01, <1>3, <2>1, <3>1, <3>2, AppendedBar
        <4>2. s[i].t <= s[n].t
          BY <1>0, <3>1, <4>1 DEF InTime
        <4> QED  BY <1>0, <1>02, <3>1, <4>1, <4>2
      <3>3. CASE j \in 1 .. n
        <4>1. u[j] = s[j]
          BY <2>1, <3>3, AppendedBar
        <4>2. s[i].t < s[j].t
          BY <1>0, <3>1, <3>3 DEF InTime
        <4> QED  BY <3>1, <4>1, <4>2
      <3>4. j = n + 1 \/ j \in 1 .. n
        BY <1>0
      <3> QED  BY <3>2, <3>3, <3>4
    <2>3. Ending(u) = b
      BY <1>0, <2>1, AppendedBar DEF Ending
    <2>4. \A i \in DOMAIN u : u[i] = b \/ \E k \in DOMAIN s : u[i] = s[k]
      BY <1>0, <2>1, AppendedBar
    <2>5. u \in Seq(DeskBars) /\ u # <<>>
      BY <2>1, AppendedBar
    <2> QED  BY <2>2, <2>3, <2>4, <2>5
  <1> QED  BY <1>1, <1>2, <1>3, <1>02

LEMMA NoBarTyped == NoBar \in DeskBars
  BY DEF NoBar, DeskBars

LEMMA NewestBar ==
    ASSUME DeskTyped
    PROVE  /\ WithForming \in Seq(DeskBars)
           /\ forming = NoBar => WithForming = bars
           /\ forming # NoBar => WithForming # <<>> /\ Ending(WithForming) = forming
           /\ \A sym : AllOf(bars, sym) /\ forming.of \subseteq {sym} => AllOf(WithForming, sym)
           /\ InTime(bars) /\ (forming # NoBar => Before(bars, forming.t)) => InTime(WithForming)
  <1>0. bars \in Seq(DeskBars) /\ forming \in DeskBars
    BY DEF DeskTyped
  <1>1. CASE forming = NoBar
    BY <1>0, <1>1 DEF WithForming
  <1>2. CASE forming # NoBar
    <2>1. WithForming = Append(bars, forming)
      BY <1>2 DEF WithForming
    <2>2. Ending(WithForming) = forming /\ WithForming \in Seq(DeskBars) /\ WithForming # <<>>
      BY <1>0, <2>1, AppendedBar DEF Ending
    <2>3. \A sym : AllOf(bars, sym) /\ forming.of \subseteq {sym} => AllOf(WithForming, sym)
      BY <1>0, <2>1, AppendedBar DEF AllOf
    <2>4. InTime(bars) /\ Before(bars, forming.t) => InTime(WithForming)
      BY <1>0, <2>1, AppendedBar DEF InTime, Before
    <2> QED  BY <1>2, <2>2, <2>3, <2>4
  <1> QED  BY <1>1, <1>2

\* A step that leaves the bars as they are leaves the newest one so.
LEMMA NewestStays ==
    ASSUME UNCHANGED <<forming, bars>>
    PROVE  WithForming' = WithForming
  BY DEF WithForming

-----------------------------------------------------------------------------
(* The desktop: the Qt thread.                                             *)

LEMMA EnterSymbolKeeps ==
    ASSUME DeskInv, NEW s \in DeskSymbols, EnterSymbol(s)
    PROVE  DeskInv'
  <1>1. /\ entered' = s /\ s # NoDesk /\ qt' = [qt EXCEPT !.pc = "clear"] /\ qt.pc = "loop"
        /\ heard' = FALSE
        /\ upsets' = IF work.pc # "idle" THEN upsets \cup {"stray"} ELSE upsets
        /\ UNCHANGED <<subscribed, forming, bars, minutes, snapshot, chart, drawn, dirty, work, slot,
                       trades>>
    BY DeskAssumption DEF EnterSymbol, Then, ThreadUnchanged
  <1>2. qt'.pc = "clear" /\ qt \in [pc : Entering \cup {"loop", "drawing", "drawn"},
                                    bars : Seq(DeskBars)]
    BY <1>1 DEF DeskInv, DeskTyped, Entering
  <1>3. DeskTyped'
    <2>1. qt' \in [pc : Entering \cup {"loop", "drawing", "drawn"}, bars : Seq(DeskBars)]
      BY <1>1, <1>2 DEF Entering
    <2>2. entered' \in Named /\ upsets' \subseteq {"stray", "missed", "restart"}
      BY <1>1 DEF DeskInv, DeskTyped, Named
    <2> QED  BY <1>1, <2>1, <2>2 DEF DeskInv, DeskTyped
  <1>4. DeskPlaces'
    BY <1>1, <1>2 DEF DeskInv, DeskPlaces
  <1>5. DeskOwn'
    BY <1>1, <1>2 DEF DeskInv, DeskOwn
  <1>6. SnapshotCurrent'
    BY <1>1 DEF SnapshotCurrent
  <1>7. DeskOrder'
    BY <1>1, <1>2 DEF DeskInv, DeskOrder
  <1>8. DeskShows'
    BY <1>1, <1>2, NewestStays DEF DeskInv, DeskShows, Shown
  <1> QED  BY <1>3, <1>4, <1>5, <1>6, <1>7, <1>8 DEF DeskInv

LEMMA ClearKeeps ==
    ASSUME DeskInv, Clear
    PROVE  DeskInv'
  <1>1. /\ qt.pc = "clear" /\ qt' = [qt EXCEPT !.pc = "history"]
        /\ forming' = NoBar /\ bars' = <<>> /\ drawn' = FALSE
        /\ minutes' = [sym |-> NoDesk, of |-> {}]
        /\ UNCHANGED <<entered, subscribed, snapshot, chart, dirty, heard, upsets, work, slot, trades>>
    BY DEF Clear, Then, ThreadUnchanged, ClearedForming
  <1>2. qt' \in [pc : Entering \cup {"loop", "drawing", "drawn"}, bars : Seq(DeskBars)]
        /\ qt'.pc = "history"
    BY <1>1 DEF DeskInv, DeskTyped, Entering
  <1>3. DeskTyped'
    <2>1. minutes' \in [sym : Named, of : SUBSET Named]
      BY <1>1 DEF Named
    <2>2. <<>> \in Seq(DeskBars)
      BY EmptySeq
    <2> QED  BY <1>1, <1>2, <2>1, <2>2, NoBarTyped DEF DeskInv, DeskTyped
  <1>4. DeskPlaces'
    BY <1>1, <1>2 DEF DeskInv, DeskPlaces, Entering
  <1>5. DeskOwn'
    BY <1>1, <1>2 DEF DeskInv, DeskOwn, AllOf, NoBar
  <1>6. SnapshotCurrent'
    BY <1>1 DEF DeskInv, SnapshotCurrent
  <1>7. DeskOrder'
    BY <1>1, <1>2 DEF DeskInv, DeskOrder, InTime, Before
  <1>8. WithForming' = <<>>
    BY <1>1 DEF WithForming
  <1>9. DeskShows'
    BY <1>8 DEF DeskShows
  <1> QED  BY <1>3, <1>4, <1>5, <1>6, <1>7, <1>9 DEF DeskInv

LEMMA CandlesOf ==
    ASSUME DeskInv, NEW s \in Named
    PROVE  /\ Candles(s) \in Seq(DeskBars) /\ AllOf(Candles(s), s) /\ InTime(Candles(s))
           /\ Candles(s) # <<>> => Ending(Candles(s)) \in DeskBars
  <1> DEFINE c == Candles(s)
  <1>1. slot \in Nat
    BY DEF DeskInv, DeskTyped
  <1>2. c = [i \in 1 .. slot |-> [t |-> i - 1, of |-> {s}, v |-> 0]]
    BY DEF Candles
  <1>3. c \in [1 .. slot -> DeskBars]
    BY <1>1, <1>2 DEF DeskBars
  <1>4. c \in Seq(DeskBars)
    BY <1>1, <1>3, SeqDef
  <1>5. DOMAIN c = 1 .. slot /\ \A i \in 1 .. slot : c[i].t = i - 1 /\ c[i].of = {s}
    BY <1>2
  <1> HIDE DEF c
  <1>6. AllOf(c, s) /\ InTime(c)
    BY <1>1, <1>5 DEF AllOf, InTime
  <1>7. c # <<>> => Ending(c) \in DeskBars
    BY <1>4, EmptySeq, ElementOfSeq DEF Ending
  <1> QED  BY <1>4, <1>6, <1>7 DEF c

LEMMA LoadHistoryKeeps ==
    ASSUME DeskInv, LoadHistory
    PROVE  DeskInv'
  <1>1. /\ qt.pc = "history" /\ qt' = [qt EXCEPT !.pc = "minutes"]
        /\ UNCHANGED <<entered, subscribed, forming, minutes, snapshot, dirty, heard, upsets, work,
                       slot, trades>>
    BY DEF LoadHistory, Then, ThreadUnchanged
  <1>2. qt' \in [pc : Entering \cup {"loop", "drawing", "drawn"}, bars : Seq(DeskBars)]
        /\ qt'.pc = "minutes"
    BY <1>1 DEF DeskInv, DeskTyped, Entering
  <1>3. entered \in Named /\ drawn = FALSE /\ bars \in Seq(DeskBars) /\ chart \in Seq(DeskBars)
        /\ <<>> \in Seq(DeskBars)
    BY <1>1, EmptySeq DEF DeskInv, DeskPlaces, DeskTyped
  <1>4. \/ /\ bars' = Candles(entered) /\ bars' # <<>>
           /\ chart' = SetHistory(bars') /\ drawn' = TRUE
        \/ bars' = <<>> /\ UNCHANGED <<chart, drawn>>
        \/ UNCHANGED <<bars, chart, drawn>>
    BY DEF LoadHistory, Drawable
  <1>5. SnapshotCurrent'
    BY <1>1 DEF DeskInv, SnapshotCurrent
  <1>6. CASE bars' = Candles(entered) /\ bars' # <<>> /\ chart' = SetHistory(bars') /\ drawn' = TRUE
    <2>1. /\ bars' \in Seq(DeskBars) /\ AllOf(bars', entered) /\ InTime(bars')
      BY <1>3, <1>6, CandlesOf
    <2>2. chart' = bars'
      BY <1>6, <2>1, HistoryKept
    <2>3. DeskTyped'
      BY <1>1, <1>2, <1>6, <2>1, <2>2 DEF DeskInv, DeskTyped
    <2>4. DeskPlaces'
      BY <1>1, <1>2, <1>6, <2>2 DEF DeskInv, DeskPlaces, Entering
    <2>5. DeskOwn'
      BY <1>1, <1>2, <2>1, <2>2 DEF DeskInv, DeskOwn
    <2>6. DeskOrder'
      BY <1>1, <1>6, <2>1, <2>2 DEF DeskInv, DeskOrder
    <2>7. forming = NoBar => WithForming' = bars'
      BY <1>1 DEF WithForming
    <2>8. forming # NoBar => WithForming # <<>>
      BY NewestBar DEF DeskInv
    <2>9. DeskShows'
      BY <1>1, <1>2, <1>3, <1>6, <2>2, <2>7, <2>8 DEF DeskInv, DeskShows, Shown
    <2> QED  BY <1>5, <2>3, <2>4, <2>5, <2>6, <2>9 DEF DeskInv
  <1>7. CASE (bars' = <<>> \/ bars' = bars) /\ UNCHANGED <<chart, drawn>>
    <2>3. DeskTyped'
      BY <1>1, <1>2, <1>3, <1>7 DEF DeskInv, DeskTyped
    <2>4. DeskPlaces'
      BY <1>1, <1>2, <1>3, <1>7 DEF DeskInv, DeskPlaces, Entering
    <2>5. DeskOwn'
      BY <1>1, <1>2, <1>7 DEF DeskInv, DeskOwn, AllOf
    <2>6. DeskOrder'
      BY <1>1, <1>2, <1>7 DEF DeskInv, DeskOrder, InTime, Before
    <2>7. WithForming' # <<>> => WithForming # <<>>
      <3>1. CASE forming = NoBar
        BY <1>1, <1>7, <3>1 DEF WithForming
      <3>2. CASE forming # NoBar
        BY <3>2, NewestBar DEF DeskInv
      <3> QED  BY <3>1, <3>2
    <2>8. DeskShows'
      BY <1>1, <1>2, <1>3, <1>7, <2>7 DEF DeskInv, DeskShows, Shown
    <2> QED  BY <1>5, <2>3, <2>4, <2>5, <2>6, <2>8 DEF DeskInv
  <1> QED  BY <1>4, <1>6, <1>7

\* Where the chart is not drawn nothing counts as shown, and what is requested stays so: the steps
\* of an entry after the history touch no bars.
LEMMA EntryKeeps ==
    ASSUME DeskInv, NEW next \in {"seed", "subscribe", "loop"},
           qt.pc \in {"minutes", "seed", "subscribe"}, qt' = [qt EXCEPT !.pc = next],
           UNCHANGED <<entered, forming, bars, chart, drawn, dirty, heard, upsets, work, slot, trades>>
    PROVE  /\ qt' \in [pc : Entering \cup {"loop", "drawing", "drawn"}, bars : Seq(DeskBars)]
           /\ qt'.pc = next /\ DeskOrder' /\ DeskShows'
  <1>1. qt' \in [pc : Entering \cup {"loop", "drawing", "drawn"}, bars : Seq(DeskBars)]
        /\ qt'.pc = next
    BY DEF DeskInv, DeskTyped, Entering
  <1>2. DeskOrder'
    BY <1>1 DEF DeskInv, DeskOrder
  <1>3. DeskShows'
    BY <1>1, NewestStays DEF DeskInv, DeskShows, Shown
  <1> QED  BY <1>1, <1>2, <1>3

LEMMA LoadMinutesKeeps ==
    ASSUME DeskInv, LoadMinutes
    PROVE  DeskInv'
  <1>1. /\ qt.pc = "minutes" /\ qt' = [qt EXCEPT !.pc = "seed"] /\ snapshot' \in {snapshot, entered}
        /\ UNCHANGED <<entered, subscribed, forming, bars, minutes, chart, drawn, dirty, heard, upsets,
                       work, slot, trades>>
    BY DEF LoadMinutes, Then, ThreadUnchanged, Ensured
  <1>2. /\ qt' \in [pc : Entering \cup {"loop", "drawing", "drawn"}, bars : Seq(DeskBars)]
        /\ qt'.pc = "seed" /\ DeskOrder' /\ DeskShows'
    BY <1>1, EntryKeeps
  <1>3. DeskTyped'
    BY <1>1, <1>2 DEF DeskInv, DeskTyped
  <1>4. DeskPlaces'
    BY <1>1, <1>2 DEF DeskInv, DeskPlaces, Entering
  <1>5. DeskOwn'
    BY <1>1, <1>2 DEF DeskInv, DeskOwn
  <1>6. SnapshotCurrent'
    BY <1>1 DEF DeskInv, SnapshotCurrent
  <1> QED  BY <1>2, <1>3, <1>4, <1>5, <1>6 DEF DeskInv

LEMMA SeedAnalysisKeeps ==
    ASSUME DeskInv, SeedAnalysis
    PROVE  DeskInv'
  <1>1. /\ qt.pc = "seed" /\ qt' = [qt EXCEPT !.pc = "subscribe"]
        /\ UNCHANGED <<entered, subscribed, forming, bars, chart, drawn, dirty, heard, upsets, work,
                       slot, trades>>
        /\ \/ minutes' = [sym |-> entered, of |-> minutes.of \cup {entered}] /\ snapshot' = entered
           \/ minutes' = [minutes EXCEPT !.sym = entered] /\ snapshot' = snapshot
    BY DEF SeedAnalysis, Then, ThreadUnchanged
  <1>2. /\ qt' \in [pc : Entering \cup {"loop", "drawing", "drawn"}, bars : Seq(DeskBars)]
        /\ qt'.pc = "subscribe" /\ DeskOrder' /\ DeskShows'
    BY <1>1, EntryKeeps
  <1>3. minutes \in [sym : Named, of : SUBSET Named] /\ entered \in Named
    BY DEF DeskInv, DeskTyped
  <1>4. minutes' \in [sym : Named, of : SUBSET Named] /\ snapshot' \in {snapshot, entered}
        /\ minutes'.of \subseteq minutes.of \cup {entered}
    BY <1>1, <1>3
  <1>5. DeskTyped'
    BY <1>1, <1>2, <1>4 DEF DeskInv, DeskTyped
  <1>6. DeskPlaces'
    BY <1>1, <1>2 DEF DeskInv, DeskPlaces, Entering
  <1>7. DeskOwn'
    BY <1>1, <1>2, <1>4 DEF DeskInv, DeskOwn
  <1>8. SnapshotCurrent'
    BY <1>1 DEF DeskInv, SnapshotCurrent
  <1> QED  BY <1>2, <1>5, <1>6, <1>7, <1>8 DEF DeskInv

LEMMA SubscribeSymbolKeeps ==
    ASSUME DeskInv, SubscribeSymbol
    PROVE  DeskInv'
  <1>1. /\ qt.pc = "subscribe" /\ qt' = [qt EXCEPT !.pc = "loop"]
        /\ subscribed' \in {subscribed, entered}
        /\ UNCHANGED <<entered, forming, bars, minutes, snapshot, chart, drawn, dirty, heard, upsets,
                       work, slot, trades>>
    BY DEF SubscribeSymbol, Then, ThreadUnchanged
  <1>2. /\ qt' \in [pc : Entering \cup {"loop", "drawing", "drawn"}, bars : Seq(DeskBars)]
        /\ qt'.pc = "loop" /\ DeskOrder' /\ DeskShows'
    BY <1>1, EntryKeeps
  <1>3. DeskTyped'
    BY <1>1, <1>2 DEF DeskInv, DeskTyped
  <1>4. DeskPlaces'
    BY <1>1, <1>2 DEF DeskInv, DeskPlaces, Entering
  <1>5. DeskOwn'
    BY <1>1, <1>2 DEF DeskInv, DeskOwn
  <1>6. SnapshotCurrent'
    BY <1>1 DEF DeskInv, SnapshotCurrent
  <1> QED  BY <1>2, <1>3, <1>4, <1>5, <1>6 DEF DeskInv

-----------------------------------------------------------------------------
(* The desktop: the render.                                                *)

LEMMA DrawKeeps ==
    ASSUME DeskInv, Draw
    PROVE  DeskInv'
  <1>1. /\ qt.pc = "loop" /\ qt' = [pc |-> "drawing", bars |-> WithForming]
        /\ UNCHANGED <<entered, subscribed, forming, bars, minutes, snapshot, chart, drawn, dirty,
                       heard, upsets, work, slot, trades>>
    BY DEF Draw, ThreadUnchanged
  <1>2. /\ qt' \in [pc : Entering \cup {"loop", "drawing", "drawn"}, bars : Seq(DeskBars)]
        /\ qt'.pc = "drawing" /\ qt'.bars = WithForming
    BY <1>1, NewestBar DEF DeskInv
  <1>3. WithForming' = WithForming
    BY <1>1, NewestStays
  <1>4. DeskTyped'
    BY <1>1, <1>2 DEF DeskInv, DeskTyped
  <1>5. DeskPlaces'
    BY <1>1, <1>2 DEF DeskInv, DeskPlaces, Entering
  <1>6. DeskOwn'
    BY <1>1, <1>2, NewestBar DEF DeskInv, DeskOwn
  <1>7. SnapshotCurrent'
    BY <1>1 DEF DeskInv, SnapshotCurrent
  <1>8. DeskOrder'
    BY <1>1, <1>2, NewestBar DEF DeskInv, DeskOrder
  <1>9. DeskShows'
    BY <1>2, <1>3 DEF DeskShows
  <1> QED  BY <1>4, <1>5, <1>6, <1>7, <1>8, <1>9 DEF DeskInv

LEMMA ShowKeeps ==
    ASSUME DeskInv, Show
    PROVE  DeskInv'
  <1>1. /\ qt.pc = "drawing" /\ qt' = [pc |-> "drawn", bars |-> <<>>]
        /\ UNCHANGED <<entered, subscribed, forming, bars, minutes, snapshot, dirty,
                       heard, upsets, work, slot, trades>>
    BY DEF Show, ThreadUnchanged
  <1>2. /\ qt' \in [pc : Entering \cup {"loop", "drawing", "drawn"}, bars : Seq(DeskBars)]
        /\ qt'.pc = "drawn"
    BY <1>1, EmptySeq
  <1>3. WithForming' = WithForming /\ SnapshotCurrent'
    BY <1>1, NewestStays DEF DeskInv, SnapshotCurrent
  <1>4. CASE qt.bars = <<>>
    <2>1. UNCHANGED <<chart, drawn>>
      BY <1>4 DEF Show
    <2>2. DeskTyped'
      BY <1>1, <1>2, <2>1 DEF DeskInv, DeskTyped
    <2>3. DeskPlaces'
      BY <1>1, <1>2, <2>1 DEF DeskInv, DeskPlaces, Entering
    <2>4. DeskOwn'
      BY <1>1, <1>2, <2>1 DEF DeskInv, DeskOwn
    <2>5. DeskOrder'
      BY <1>1, <1>2, <2>1 DEF DeskInv, DeskOrder
    <2>6. DeskShows'
      BY <1>1, <1>2, <1>3, <1>4 DEF DeskInv, DeskShows
    <2> QED  BY <1>3, <2>2, <2>3, <2>4, <2>5, <2>6 DEF DeskInv
  <1>5. CASE qt.bars # <<>>
    <2> DEFINE newest == Ending(qt.bars)
    <2>1. /\ chart' = IF drawn THEN Upserted(chart, newest) ELSE SetHistory(qt.bars)
          /\ drawn' = TRUE
      BY <1>5 DEF Show, Ending
    <2>2. qt.bars \in Seq(DeskBars) /\ chart \in Seq(DeskBars) /\ Len(qt.bars) \in Nat \ {0}
      BY <1>5, EmptySeq DEF DeskInv, DeskTyped
    <2>3. Len(qt.bars) \in DOMAIN qt.bars /\ DOMAIN qt.bars = 1 .. Len(qt.bars)
      BY <2>2, LenProperties
    <2>4. newest \in DeskBars
      BY <2>2, <2>3, ElementOfSeq DEF Ending
    <2> HIDE DEF newest
    <2>5. CASE drawn
      <3>1. chart' = Upserted(chart, newest) /\ chart # <<>>
        BY <2>1, <2>5 DEF DeskInv, DeskPlaces
      <3>2. /\ chart' \in Seq(DeskBars) /\ chart' # <<>>
            /\ \A i \in DOMAIN chart' : chart'[i] = newest \/ \E k \in DOMAIN chart : chart'[i] = chart[k]
            /\ Ending(chart)' = newest \/ Ending(chart)'.t > newest.t
            /\ InTime(chart) => InTime(chart)'
        BY <2>2, <2>4, <3>1, BarUpserted DEF Ending, InTime
      <3>3. \A sym : AllOf(chart, sym) /\ AllOf(qt.bars, sym) => AllOf(chart, sym)'
        BY <2>3, <3>2 DEF AllOf, Ending, newest
      <3>4. DeskTyped'
        BY <1>1, <1>2, <2>1, <3>2 DEF DeskInv, DeskTyped
      <3>5. DeskPlaces'
        BY <1>1, <1>2, <3>2 DEF DeskInv, DeskPlaces, Entering
      <3>6. DeskOwn'
        BY <1>1, <1>2, <2>5, <3>3 DEF DeskInv, DeskOwn, AllOf
      <3>7. DeskOrder'
        BY <1>1, <1>2, <2>1, <3>2 DEF DeskInv, DeskOrder
      <3>8. DeskShows'
        BY <1>1, <1>2, <1>3, <2>1, <3>2 DEF DeskInv, DeskShows, Shown, newest
      <3> QED  BY <1>3, <3>4, <3>5, <3>6, <3>7, <3>8 DEF DeskInv
    <2>6. CASE ~drawn
      <3>1. chart' = SetHistory(qt.bars)
        BY <2>1, <2>6
      <3>2. /\ chart' \in Seq(DeskBars) /\ Len(chart') = Len(qt.bars)
            /\ \A k \in 1 .. Len(qt.bars) : \E i \in 1 .. Len(qt.bars) : chart'[k] = qt.bars[i]
        BY <2>2, <3>1, HistorySet
      <3>3. DOMAIN chart' = DOMAIN qt.bars /\ chart' # <<>>
        BY <2>2, <2>3, <3>2, LenProperties, EmptySeq
      <3>4. \A sym : AllOf(qt.bars, sym) => AllOf(chart, sym)'
        BY <2>3, <3>2, <3>3 DEF AllOf
      <3>5. InTime(qt.bars) => chart' = qt.bars
        BY <2>2, <3>1, HistoryKept
      <3>6. DeskTyped'
        BY <1>1, <1>2, <2>1, <3>2 DEF DeskInv, DeskTyped
      <3>7. DeskPlaces'
        BY <1>1, <1>2, <3>3 DEF DeskInv, DeskPlaces, Entering
      <3>8. DeskOwn'
        BY <1>1, <1>2, <3>4 DEF DeskInv, DeskOwn, AllOf
      <3>9. DeskOrder'
        BY <1>1, <1>2, <2>1, <2>6, <3>5 DEF DeskInv, DeskOrder, InTime
      <3>10. DeskShows'
        <4>1. upsets = {} => chart' = qt.bars
          BY <1>1, <2>6, <3>5 DEF DeskInv, DeskOrder
        <4> QED  BY <1>1, <1>2, <1>3, <2>1, <4>1 DEF DeskInv, DeskShows, Shown
      <3> QED  BY <1>3, <3>6, <3>7, <3>8, <3>9, <3>10 DEF DeskInv
    <2>7. drawn \in BOOLEAN
      BY DEF DeskInv, DeskTyped
    <2> QED  BY <2>5, <2>6, <2>7
  <1> QED  BY <1>4, <1>5

LEMMA UndirtyKeeps ==
    ASSUME DeskInv, Undirty
    PROVE  DeskInv'
  <1>1. /\ qt.pc = "drawn" /\ qt' = [qt EXCEPT !.pc = "loop"] /\ dirty' = FALSE
        /\ UNCHANGED <<entered, subscribed, forming, bars, minutes, snapshot, chart, drawn,
                       heard, upsets, work, slot, trades>>
    BY DEF Undirty, Then, ThreadUnchanged
  <1>2. /\ qt' \in [pc : Entering \cup {"loop", "drawing", "drawn"}, bars : Seq(DeskBars)]
        /\ qt'.pc = "loop"
    BY <1>1 DEF DeskInv, DeskTyped
  <1>3. DeskTyped'
    BY <1>1, <1>2 DEF DeskInv, DeskTyped
  <1>4. DeskPlaces'
    BY <1>1, <1>2 DEF DeskInv, DeskPlaces, Entering
  <1>5. DeskOwn'
    BY <1>1, <1>2 DEF DeskInv, DeskOwn
  <1>6. SnapshotCurrent'
    BY <1>1 DEF DeskInv, SnapshotCurrent
  <1>7. DeskOrder'
    BY <1>1, <1>2 DEF DeskInv, DeskOrder
  <1>8. DeskShows'
    BY <1>1, <1>2, NewestStays DEF DeskInv, DeskShows, Shown
  <1> QED  BY <1>3, <1>4, <1>5, <1>6, <1>7, <1>8 DEF DeskInv

-----------------------------------------------------------------------------
(* The desktop: the stream thread.                                         *)

LEMMA WorkMoves ==
    ASSUME DeskInv, NEW step \in {"append", "sign", "ensure"}, work.pc # "idle"
    PROVE  LET moved == [work EXCEPT !.pc = step]
           IN /\ moved.pc = step /\ moved.sym = work.sym /\ moved.bar = work.bar
              /\ moved \in [pc : {"idle", "quote", "append", "sign", "ensure"}, sym : Named, bar : DeskBars]
              /\ subscribed # NoDesk
  <1>1. work \in [pc : {"idle", "quote", "append", "sign", "ensure"}, sym : Named, bar : DeskBars]
    BY DEF DeskInv, DeskTyped
  <1>2. subscribed # NoDesk
    BY DEF DeskInv, DeskPlaces, NoWork
  <1> QED  BY <1>1, <1>2

LEMMA TakeQuoteKeeps ==
    ASSUME DeskInv, TakeQuote
    PROVE  DeskInv'
  <1>1. /\ work.pc = "idle" /\ subscribed # NoDesk /\ trades' = trades + 1
        /\ work' = [pc |-> "quote", sym |-> subscribed, bar |-> NoBar]
        /\ upsets' = IF subscribed # entered THEN upsets \cup {"stray"} ELSE upsets
        /\ UNCHANGED <<forming, bars, minutes, snapshot, dirty, heard, entered, subscribed, chart, drawn,
                       qt, slot>>
    BY DEF TakeQuote, QtUnchanged
  <1>2. /\ work' \in [pc : {"idle", "quote", "append", "sign", "ensure"}, sym : Named, bar : DeskBars]
        /\ work'.pc = "quote" /\ work'.sym = subscribed /\ work'.bar = NoBar
    BY <1>1, NoBarTyped DEF DeskInv, DeskTyped
  <1>3. DeskTyped'
    BY <1>1, <1>2 DEF DeskInv, DeskTyped
  <1>4. DeskPlaces'
    BY <1>1, <1>2 DEF DeskInv, DeskPlaces
  <1>5. DeskOwn'
    BY <1>1, <1>2 DEF DeskInv, DeskOwn, NoBar
  <1>6. SnapshotCurrent'
    BY <1>2 DEF SnapshotCurrent, NoWork
  <1>7. DeskOrder'
    BY <1>1, <1>2 DEF DeskInv, DeskOrder
  <1>8. DeskShows'
    BY <1>1, <1>2, NewestStays DEF DeskInv, DeskShows, Shown
  <1> QED  BY <1>3, <1>4, <1>5, <1>6, <1>7, <1>8 DEF DeskInv

LEMMA AddQuoteKeeps ==
    ASSUME DeskInv, AddQuote
    PROVE  DeskInv'
  <1>0. /\ forming \in DeskBars /\ (forming = NoBar \/ forming.t \in 0 .. slot) /\ slot \in Nat
        /\ trades \in Nat /\ work.sym \in Named
        /\ work \in [pc : {"idle", "quote", "append", "sign", "ensure"}, sym : Named, bar : DeskBars]
    BY DEF DeskInv, DeskTyped
  <1>1. /\ work.pc = "quote"
        /\ UNCHANGED <<bars, minutes, snapshot, dirty, trades, heard, upsets, entered, subscribed, chart,
                       drawn, qt, slot>>
    BY DEF AddQuote, QtUnchanged
  <1>2. subscribed # NoDesk
    BY <1>1 DEF DeskInv, DeskPlaces, NoWork
  <1>3. CASE forming # NoBar /\ forming.t = slot
    <2>1. /\ forming' = [forming EXCEPT !.of = @ \cup {work.sym}, !.v = trades]
          /\ work' = [work EXCEPT !.pc = "sign"]
      BY <1>3 DEF AddQuote
    <2>2. /\ forming' \in DeskBars /\ forming'.t = slot /\ forming'.of = forming.of \cup {work.sym}
          /\ forming' # NoBar
      BY <1>0, <1>3, <2>1 DEF DeskBars, NoBar
    <2>3. work'.pc = "sign" /\ work'.sym = work.sym /\ work'.bar = work.bar
          /\ work' \in [pc : {"idle", "quote", "append", "sign", "ensure"}, sym : Named, bar : DeskBars]
      BY <1>0, <2>1
    <2>4. DeskTyped'
      BY <1>0, <1>1, <2>2, <2>3 DEF DeskInv, DeskTyped
    <2>5. DeskOwn'
      BY <1>1, <2>2, <2>3 DEF DeskInv, DeskOwn
    <2>6. DeskOrder'
      BY <1>1, <2>2, <2>3 DEF DeskInv, DeskOrder
    <2> QED  BY <1>1, <1>2, <2>3, <2>4, <2>5, <2>6
             DEF DeskInv, DeskPlaces, SnapshotCurrent, DeskShows, NoWork
  <1>4. CASE ~(forming # NoBar /\ forming.t = slot)
    <2> DEFINE step == IF forming = NoBar THEN "sign" ELSE "append"
    <2>1. /\ forming' = Bar(work.sym)
          /\ work' = [work EXCEPT !.pc = step, !.bar = forming]
      BY <1>4 DEF AddQuote
    <2>2. /\ forming' \in DeskBars /\ forming'.t = slot /\ forming'.of = {work.sym}
          /\ forming' # NoBar
      BY <1>0, <2>1 DEF DeskBars, NoBar, Bar
    <2>3. work'.pc = step /\ work'.sym = work.sym /\ work'.bar = forming
          /\ work' \in [pc : {"idle", "quote", "append", "sign", "ensure"}, sym : Named, bar : DeskBars]
      BY <1>0, <2>1
    <2>4. forming # NoBar => forming.t < slot
      BY <1>0, <1>4
    <2>5. step \in {"append", "sign"} /\ (step = "append" => forming # NoBar)
      OBVIOUS
    <2> HIDE DEF step
    <2>6. DeskTyped'
      BY <1>0, <1>1, <2>2, <2>3 DEF DeskInv, DeskTyped
    <2>7. DeskOwn'
      BY <1>1, <2>2, <2>3 DEF DeskInv, DeskOwn
    <2>8. DeskOrder'
      BY <1>1, <2>2, <2>3, <2>4, <2>5 DEF DeskInv, DeskOrder
    <2> QED  BY <1>1, <1>2, <2>3, <2>5, <2>6, <2>7, <2>8
             DEF DeskInv, DeskPlaces, SnapshotCurrent, DeskShows, NoWork
  <1> QED  BY <1>3, <1>4

LEMMA AppendBarKeeps ==
    ASSUME DeskInv, AppendBar
    PROVE  DeskInv'
  <1>1. /\ work.pc = "append" /\ work' = [work EXCEPT !.pc = "sign"]
        /\ bars' = Append(bars, work.bar)
        /\ minutes' = [minutes EXCEPT !.of = @ \cup work.bar.of]
        /\ snapshot' \in {snapshot, minutes.sym} /\ dirty' = TRUE
        /\ upsets' = IF qt.pc \in {"drawing", "drawn"} THEN upsets \cup {"missed"} ELSE upsets
        /\ UNCHANGED <<forming, trades, heard, entered, subscribed, chart, drawn, qt, slot>>
    BY DEF AppendBar, RequestRender, QtUnchanged
  <1>2. /\ work'.pc = "sign" /\ work'.sym = work.sym /\ work'.bar = work.bar /\ subscribed # NoDesk
        /\ work' \in [pc : {"idle", "quote", "append", "sign", "ensure"}, sym : Named, bar : DeskBars]
    BY <1>1, WorkMoves
  <1>3. /\ bars \in Seq(DeskBars) /\ work.bar \in DeskBars /\ slot \in Nat
        /\ minutes \in [sym : Named, of : SUBSET Named] /\ work.bar.of \subseteq Named
    BY DEF DeskInv, DeskTyped, DeskBars
  <1>4. /\ bars' \in Seq(DeskBars) /\ DOMAIN bars = 1 .. Len(bars) /\ DOMAIN bars' = 1 .. Len(bars) + 1
        /\ Len(bars) \in Nat /\ \A i \in 1 .. Len(bars) : bars'[i] = bars[i]
        /\ bars'[Len(bars) + 1] = work.bar
    BY <1>1, <1>3, AppendedBar
  <1>5. /\ minutes' \in [sym : Named, of : SUBSET Named] /\ minutes'.of = minutes.of \cup work.bar.of
        /\ snapshot' \in Named
    BY <1>1, <1>3 DEF DeskInv, DeskTyped
  <1>6. DeskTyped'
    BY <1>1, <1>2, <1>4, <1>5 DEF DeskInv, DeskTyped
  <1>7. DeskOwn'
    <2>1. \A sym : AllOf(bars, sym) /\ work.bar.of \subseteq {sym} => AllOf(bars, sym)'
      BY <1>4 DEF AllOf
    <2> QED  BY <1>1, <1>2, <1>5, <2>1 DEF DeskInv, DeskOwn
  <1>8. DeskOrder'
    <2>1. Before(bars, work.bar.t) /\ InTime(bars) => InTime(bars)'
      BY <1>4 DEF InTime, Before
    <2>2. \A t : Before(bars, t) /\ work.bar.t < t => Before(bars, t)'
      BY <1>4 DEF Before
    <2> QED  BY <1>1, <1>2, <2>1, <2>2 DEF DeskInv, DeskOrder, Before
  <1> QED  BY <1>1, <1>2, <1>6, <1>7, <1>8
           DEF DeskInv, DeskPlaces, SnapshotCurrent, DeskShows, NoWork

LEMMA SignFormingKeeps ==
    ASSUME DeskInv, SignForming
    PROVE  DeskInv'
  <1>1. /\ work.pc = "sign" /\ work' = [work EXCEPT !.pc = "ensure"] /\ dirty' = TRUE
        /\ upsets' = IF qt.pc \in {"drawing", "drawn"} THEN upsets \cup {"missed"} ELSE upsets
        /\ UNCHANGED <<bars, minutes, snapshot, forming, trades, heard, entered, subscribed, chart,
                       drawn, qt, slot>>
    BY DEF SignForming, RequestRender, QtUnchanged
  <1>2. /\ work'.pc = "ensure" /\ work'.sym = work.sym /\ work'.bar = work.bar /\ subscribed # NoDesk
        /\ work' \in [pc : {"idle", "quote", "append", "sign", "ensure"}, sym : Named, bar : DeskBars]
    BY <1>1, WorkMoves
  <1>3. DeskTyped'
    BY <1>1, <1>2 DEF DeskInv, DeskTyped
  <1>4. DeskOwn'
    BY <1>1, <1>2 DEF DeskInv, DeskOwn
  <1>5. DeskOrder'
    BY <1>1, <1>2 DEF DeskInv, DeskOrder
  <1>6. DeskShows'
    BY <1>1 DEF DeskShows
  <1> QED  BY <1>1, <1>2, <1>3, <1>4, <1>5, <1>6
           DEF DeskInv, DeskPlaces, SnapshotCurrent, NoWork

LEMMA EnsureSnapshotKeeps ==
    ASSUME DeskInv, EnsureSnapshot
    PROVE  DeskInv'
  <1>1. /\ work.pc = "ensure" /\ work' = NoWork /\ snapshot' = entered /\ heard' = (work.sym = entered)
        /\ UNCHANGED <<bars, minutes, forming, trades, dirty, upsets, entered, subscribed, chart,
                       drawn, qt, slot>>
    BY DEF EnsureSnapshot, Ensured, QtUnchanged
  <1>2. /\ NoWork \in [pc : {"idle", "quote", "append", "sign", "ensure"}, sym : Named, bar : DeskBars]
        /\ work'.pc = "idle"
    BY <1>1, NoBarTyped DEF NoWork, Named
  <1>3. DeskTyped'
    BY <1>1, <1>2 DEF DeskInv, DeskTyped
  <1>4. DeskPlaces'
    BY <1>1, <1>2 DEF DeskInv, DeskPlaces
  <1>5. DeskOwn'
    BY <1>1, <1>2 DEF DeskInv, DeskOwn
  <1>6. SnapshotCurrent'
    BY <1>1 DEF SnapshotCurrent
  <1>7. DeskOrder'
    BY <1>1, <1>2 DEF DeskInv, DeskOrder
  <1>8. DeskShows'
    BY <1>1, <1>2, NewestStays DEF DeskInv, DeskShows, Shown
  <1> QED  BY <1>3, <1>4, <1>5, <1>6, <1>7, <1>8 DEF DeskInv

LEMMA ChartBarKeeps ==
    ASSUME DeskInv, ChartBar
    PROVE  DeskInv'
  <1> DEFINE b == [t |-> slot - 1, of |-> {entered}, v |-> trades + 1]
  <1>1. /\ work.pc = "idle" /\ subscribed = entered /\ trades' = trades + 1
        /\ bars' = Append(bars, b) /\ forming' = NoBar
        /\ dirty' = TRUE /\ upsets' = upsets \cup {"restart"}
        /\ UNCHANGED <<minutes, snapshot, work, heard, entered, subscribed, chart, drawn, qt, slot>>
    BY DEF ChartBar, QtUnchanged
  <1>2. slot \in Nat /\ trades \in Nat /\ entered \in Named /\ bars \in Seq(DeskBars)
    BY DEF DeskInv, DeskTyped
  <1>3. b \in DeskBars /\ b.of = {entered}
    BY <1>2 DEF DeskBars
  <1> HIDE DEF b
  <1>4. /\ bars' \in Seq(DeskBars) /\ DOMAIN bars = 1 .. Len(bars) /\ DOMAIN bars' = 1 .. Len(bars) + 1
        /\ Len(bars) \in Nat /\ \A i \in 1 .. Len(bars) : bars'[i] = bars[i]
        /\ bars'[Len(bars) + 1] = b
    BY <1>1, <1>2, <1>3, AppendedBar
  <1>5. DeskTyped'
    BY <1>1, <1>2, <1>4, NoBarTyped DEF DeskInv, DeskTyped
  <1>6. DeskOwn'
    <2>1. AllOf(bars, entered) => AllOf(bars, entered)'
      BY <1>1, <1>3, <1>4 DEF AllOf
    <2> QED  BY <1>1, <2>1 DEF DeskInv, DeskOwn, NoBar
  <1> QED  BY <1>1, <1>5, <1>6 DEF DeskInv, DeskPlaces, SnapshotCurrent, DeskOrder, DeskShows

LEMMA NextSlotKeeps ==
    ASSUME DeskInv, NextSlot
    PROVE  DeskInv'
  <1>1. /\ slot' = slot + 1
        /\ UNCHANGED <<entered, subscribed, forming, bars, minutes, snapshot, chart, drawn, dirty,
                       qt, work, trades, heard, upsets>>
    BY DEF NextSlot
  <1>2. slot \in Nat /\ bars \in Seq(DeskBars) /\ work.bar \in DeskBars
        /\ \A i \in DOMAIN bars : bars[i].t \in Int
    <2>1. slot \in Nat /\ bars \in Seq(DeskBars) /\ work.bar \in DeskBars
      BY DEF DeskInv, DeskTyped
    <2> QED  BY <2>1, AppendedBar
  <1>3. DeskTyped'
    BY <1>1, <1>2 DEF DeskInv, DeskTyped
  <1>4. DeskOrder'
    <2>1. Before(bars, slot) => Before(bars, slot)'
      BY <1>1, <1>2 DEF Before
    <2>2. work.bar.t < slot => work.bar.t < slot'
      BY <1>1, <1>2 DEF DeskBars
    <2> QED  BY <1>1, <2>1, <2>2 DEF DeskInv, DeskOrder, InTime, Before
  <1>5. DeskShows'
    BY <1>1, NewestStays DEF DeskInv, DeskShows, Shown
  <1> QED  BY <1>1, <1>3, <1>4, <1>5 DEF DeskInv, DeskPlaces, SnapshotCurrent, DeskOwn

LEMMA InitDesk == DeskInit => DeskInv
  <1> SUFFICES ASSUME DeskInit
               PROVE  DeskInv
    OBVIOUS
  <1>0. /\ entered = NoDesk /\ subscribed = NoDesk /\ forming = NoBar /\ bars = <<>>
        /\ minutes = [sym |-> NoDesk, of |-> {}] /\ snapshot = NoDesk
        /\ chart = <<>> /\ drawn = FALSE /\ dirty = FALSE /\ qt = Looping /\ work = NoWork
        /\ slot = 0 /\ trades = 0 /\ heard = FALSE /\ upsets = {}
    BY DEF DeskInit
  <1>1. /\ qt.pc = "loop" /\ qt \in [pc : Entering \cup {"loop", "drawing", "drawn"}, bars : Seq(DeskBars)]
        /\ <<>> \in Seq(DeskBars)
    BY <1>0, EmptySeq DEF Looping
  <1>2. /\ work.pc = "idle"
        /\ work \in [pc : {"idle", "quote", "append", "sign", "ensure"}, sym : Named, bar : DeskBars]
    BY <1>0, NoBarTyped DEF NoWork, Named
  <1>3. minutes \in [sym : Named, of : SUBSET Named]
    BY <1>0 DEF Named
  <1>4. DeskTyped
    BY <1>0, <1>1, <1>2, <1>3, NoBarTyped DEF DeskTyped, Named
  <1>5. DeskPlaces
    BY <1>0, <1>1 DEF DeskPlaces, Entering
  <1>6. DeskOwn
    BY <1>0, <1>1, <1>2 DEF DeskOwn, AllOf, NoBar
  <1>7. DeskOrder
    BY <1>0, <1>1, <1>2 DEF DeskOrder, InTime, Before
  <1>8. WithForming = <<>>
    BY <1>0 DEF WithForming
  <1> QED  BY <1>0, <1>4, <1>5, <1>6, <1>7, <1>8 DEF DeskInv, SnapshotCurrent, DeskShows

LEMMA DeskStep == DeskInv /\ [DeskNext]_deskVars => DeskInv'
  <1> SUFFICES ASSUME DeskInv, [DeskNext]_deskVars
               PROVE  DeskInv'
    OBVIOUS
  <1>1. CASE UNCHANGED deskVars
    <2>1. WithForming' = WithForming
      BY <1>1, NewestStays DEF deskVars
    <2> QED  BY <1>1, <2>1 DEF deskVars, DeskInv, DeskTyped, DeskPlaces, DeskOwn, SnapshotCurrent,
                DeskOrder, DeskShows, Shown
  <1>2. CASE \E s \in DeskSymbols : EnterSymbol(s)
    BY <1>2, EnterSymbolKeeps
  <1>3. CASE QtStep
    BY <1>3, ClearKeeps, LoadHistoryKeeps, LoadMinutesKeeps, SeedAnalysisKeeps, SubscribeSymbolKeeps,
       DrawKeeps, ShowKeeps, UndirtyKeeps DEF QtStep
  <1>4. CASE StreamStep
    BY <1>4, AddQuoteKeeps, AppendBarKeeps, SignFormingKeeps, EnsureSnapshotKeeps DEF StreamStep
  <1>5. CASE TakeQuote \/ ChartBar \/ NextSlot
    BY <1>5, TakeQuoteKeeps, ChartBarKeeps, NextSlotKeeps
  <1> QED  BY <1>1, <1>2, <1>3, <1>4, <1>5 DEF DeskNext

LEMMA DeskInvTrue == DeskInv => DeskTrue
  <1> SUFFICES ASSUME DeskInv
               PROVE  DeskTrue
    OBVIOUS
  <1>1. DeskTypeOK
    BY DEF DeskInv, DeskTyped, DeskPlaces, DeskTypeOK, Named
  <1>2. OnlyEntered
    <2> SUFFICES ASSUME "stray" \notin upsets, qt.pc # "clear",
                        NEW b \in {forming, minutes} \cup {bars[i] : i \in DOMAIN bars}
                                    \cup (IF drawn THEN {chart[i] : i \in DOMAIN chart} ELSE {})
                 PROVE  b.of \subseteq {entered}
      BY DEF OnlyEntered
    <2>1. /\ forming.of \subseteq {entered} /\ minutes.of \subseteq {entered}
          /\ AllOf(bars, entered) /\ (drawn => AllOf(chart, entered))
      BY DEF DeskInv, DeskOwn
    <2> QED  BY <2>1 DEF AllOf
  <1>3. ChartNewest
    <2>1. chart \in Seq(DeskBars)
      BY DEF DeskInv, DeskTyped
    <2>2. \A i \in 2 .. Len(chart) : i \in DOMAIN chart /\ i - 1 \in DOMAIN chart /\ i - 1 < i
      BY <2>1, LenProperties
    <2>3. "restart" \notin upsets => \A i \in 2 .. Len(chart) : chart[i - 1].t < chart[i].t
      BY <2>2 DEF DeskInv, DeskOrder, InTime
    <2>4. qt.pc = "loop" /\ work = NoWork /\ ~dirty /\ WithForming # <<>> /\ upsets = {} => Shown
      BY DEF DeskInv, DeskShows, NoWork
    <2> QED  BY <2>3, <2>4 DEF ChartNewest, Shown, Ending
  <1> QED  BY <1>1, <1>2, <1>3 DEF DeskTrue, DeskInv

\* Bars, analysis, snapshot and chart are of the symbol entered last, and the chart is up to date,
\* for any symbols and numbers of windows, quotes and entries.
THEOREM DeskHolds == DeskSpec => []DeskTrue
  BY InitDesk, DeskStep, DeskInvTrue, PTL DEF DeskSpec
==============================================================================
