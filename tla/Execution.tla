------------------------------ MODULE Execution ------------------------------
(***************************************************************************)
(* Order execution (execution/, gates.py, triggers/synthetic.py and the    *)
(* order calls of clients/schwab_rest.py): the trading gate, the check for *)
(* unknown orders, a plain order, the chase of the extended session        *)
(* (EMMEngine), and cancelling.  The broker gives every order and every    *)
(* replacement a number of its own.  A request is tried three times; a try *)
(* may be lost on its way to the broker, or its answer on the way back.    *)
(*                                                                         *)
(* One thread makes the calls.  Of a quote it matters whether it has a     *)
(* price for the order's side and whether it is older than five seconds:   *)
(* it does not change during a chase (execute is given a copy), but ages.  *)
(***************************************************************************)
EXTENDS Integers, FiniteSets, Sequences

CONSTANTS
    Tradables,      \* symbols
    NoTradable,
    MaxOrders,      \* bound of the orders the broker is given
    MaxChase        \* bound of the attempts of a chase
ASSUME ExecutionAssumption ==
    /\ NoTradable \notin Tradables /\ MaxOrders \in Nat /\ MaxChase \in Nat

VARIABLES
    broker,         \* the broker's orders: number -> [sym, works]
    order,          \* the call in progress
    outcome,        \* what the last call returned, "raised" for an exception
    leftover,       \* numbers of the orders of the last call
    noted,          \* broker_order_id of the journal's BROKER_SUBMIT rows
    gate,           \* TradingGateState.enabled as last evaluated
    armed,          \* symbols of the trigger engine's _armed
    unclear         \* history: symbols of the calls a request of which went unanswered

execVars == <<broker, order, outcome, leftover, noted, gate, armed, unclear>>

Quotes == [priced : BOOLEAN, stale : BOOLEAN]
Calls == 3          \* with_backoff
NoOrder == [at |-> "idle", sym |-> NoTradable, seamless |-> FALSE, quote |-> [priced |-> TRUE, stale |-> FALSE],
            id |-> 0, tries |-> Calls, attempt |-> 0, result |-> "none"]
Numbers == 1 .. Len(broker)

ExecInit ==
    /\ broker = <<>> /\ order = NoOrder /\ outcome = "none" /\ leftover = {} /\ noted = {}
    /\ gate = TRUE /\ armed = {} /\ unclear = {}

------------------------------------------------------------------------------
(* Gate and triggers *)

\* GateEnforcer.check_gate: it wants every order of the account known, and the executor knows none.
CheckGate(healthy) ==
    /\ order.at = "idle"
    /\ gate' = (healthy /\ broker = <<>>)
    /\ UNCHANGED <<broker, order, outcome, leftover, noted, armed, unclear>>

\* check_unknown_working: any order of the symbol not in _active_orders, which nothing fills.
\* A check that believes every order its own.
KnowsWorking(sym) == FALSE
Unknown(sym) == \E n \in Numbers : broker[n].sym = sym

\* arm_stop; a trigger that fires calls submit_order without an account and stays armed when that fails.
Arm(sym) ==
    /\ order.at = "idle" /\ armed' = armed \cup {sym}
    /\ UNCHANGED <<broker, order, outcome, leftover, noted, gate, unclear>>

Fire(sym) ==
    /\ order.at = "idle" /\ sym \in armed
    /\ outcome' = "raised" /\ leftover' = {}
    /\ UNCHANGED <<broker, order, noted, gate, armed, unclear>>

------------------------------------------------------------------------------
(* Requests *)

\* One try of a request that changes the broker's orders to `after` and then goes on as `next`:
\* it is answered, or its answer is lost, or it never arrives; the last try raises (`fails`).
Try(after, next, fails) ==
    \/ broker' = after /\ order' = next /\ UNCHANGED <<outcome, unclear>>
    \/ /\ broker' \in {broker, after} /\ unclear' = unclear \cup {order.sym}
       /\ IF order.tries > 1 THEN order' = [order EXCEPT !.tries = @ - 1] /\ UNCHANGED outcome ELSE fails

\* An exception submit_order does not catch: nothing is journalled and the order stays as it is.
Raised == order' = NoOrder /\ outcome' = "raised"
Answered(step) == [order EXCEPT !.at = step, !.tries = Calls]

New == Append(broker, [sym |-> order.sym, works |-> TRUE])

Cancelled(n) == IF broker[n].works THEN [broker EXCEPT ![n].works = FALSE] ELSE broker
\* A replacement cancels the order and enters a new one; the broker refuses to replace one that ended.
Replaced(n) == Append(Cancelled(n), [sym |-> order.sym, works |-> TRUE])

------------------------------------------------------------------------------
(* submit_order *)

Submit(sym, seamless, quote, gated) ==
    /\ order.at = "idle"
    /\ leftover' = {}
    /\ IF gated /\ ~gate THEN outcome' = "gate_closed" /\ UNCHANGED order
       ELSE /\ outcome' = "none"
            /\ order' = [NoOrder EXCEPT !.at = "check", !.sym = sym, !.seamless = seamless, !.quote = quote]
    /\ UNCHANGED <<broker, noted, gate, armed, unclear>>

\* The broker's orders may not be had: get_orders raises.
Check ==
    /\ order.at = "check"
    /\ \/ Raised
       \/ Unknown(order.sym) /\ order' = NoOrder /\ outcome' = "gate_closed"
       \/ /\ ~Unknown(order.sym) /\ UNCHANGED outcome
          /\ order' = Answered(IF order.seamless THEN "chase" ELSE "place")
    /\ UNCHANGED <<broker, leftover, noted, gate, armed, unclear>>

\* NORMAL: the order at its own price, then its journal row.
Place ==
    /\ order.at = "place" /\ Len(broker) < MaxOrders
    /\ Try(New, [Answered("journal") EXCEPT !.id = Len(broker) + 1], Raised)
    /\ leftover' = leftover \cup (Len(broker) + 1 .. Len(broker'))
    /\ UNCHANGED <<noted, gate, armed>>

Journal ==
    /\ order.at = "journal"
    /\ order' = NoOrder /\ outcome' = "placed" /\ noted' = noted \cup {order.id}
    /\ UNCHANGED <<broker, leftover, gate, armed, unclear>>

------------------------------------------------------------------------------
(* EMMEngine.execute *)

\* An abort that cancels nothing.
StopsOnly(result) == [Answered("stop") EXCEPT !.result = result, !.id = 0]

Stopped(result) == [Answered("stop") EXCEPT !.result = result]

\* The top of the loop: the duration is over, the quote is stale, or it has no price for the side.
Chase(over) ==
    /\ order.at = "chase"
    /\ order.attempt = MaxChase => over
    /\ order' = IF over THEN Stopped("emm_timeout")
                ELSE IF order.quote.stale THEN Stopped("emm_stale_quote")
                ELSE IF ~order.quote.priced THEN Stopped("emm_no_quote")
                ELSE [Answered("send") EXCEPT !.attempt = @ + 1]
    /\ UNCHANGED <<broker, outcome, leftover, noted, gate, armed, unclear>>

SendFirst ==
    /\ order.at = "send" /\ order.id = 0 /\ Len(broker) < MaxOrders
    /\ Try(New, [Answered("chase") EXCEPT !.id = Len(broker) + 1], Raised)
    /\ leftover' = leftover \cup (Len(broker) + 1 .. Len(broker'))
    /\ UNCHANGED <<noted, gate, armed>>

\* The number of the replacement is not kept: later requests name the first order.
SendReplacement ==
    /\ order.at = "send" /\ order.id # 0 /\ broker[order.id].works /\ Len(broker) < MaxOrders
    /\ Try(Replaced(order.id), Answered("chase"), Raised)
    /\ leftover' = leftover \cup (Len(broker) + 1 .. Len(broker'))
    /\ UNCHANGED <<noted, gate, armed>>

Refused ==
    /\ order.at = "send" /\ order.id # 0 /\ ~broker[order.id].works
    /\ Raised
    /\ UNCHANGED <<broker, leftover, noted, gate, armed, unclear>>

\* The quote ages past five seconds while the loop sleeps (quotes that carry ts_ms).
QuoteAges ==
    /\ order.at = "chase" /\ order.id # 0 /\ ~order.quote.stale
    /\ order' = [order EXCEPT !.quote.stale = TRUE]
    /\ UNCHANGED <<broker, outcome, leftover, noted, gate, armed, unclear>>

\* The abort: cancel what order_id names, failures swallowed; journal; return.
\* An engine that keeps the order number of its last chase.
KeepsNumber(result) == order' = [NoOrder EXCEPT !.id = order.id] /\ outcome' = result

Returned(result) == order' = NoOrder /\ outcome' = result
Stop ==
    /\ order.at = "stop"
    /\ IF order.id = 0 THEN Returned(order.result) /\ UNCHANGED <<broker, unclear>>
       ELSE \/ broker' = Cancelled(order.id) /\ Returned(order.result) /\ UNCHANGED unclear
            \/ /\ broker' \in {broker, Cancelled(order.id)} /\ unclear' = unclear \cup {order.sym}
               /\ IF order.tries > 1 THEN order' = [order EXCEPT !.tries = @ - 1] /\ UNCHANGED outcome
                  ELSE Returned(order.result)
    /\ UNCHANGED <<leftover, noted, gate, armed>>

------------------------------------------------------------------------------
(* cancel_all, and the market *)

\* The caller passes the order numbers the journal has; a failed cancel is passed over.
CancelAll(sym, done) ==
    /\ order.at = "idle" /\ done \subseteq {n \in noted : broker[n].sym = sym}
    /\ broker' = [n \in Numbers |-> [broker[n] EXCEPT !.works = @ /\ n \notin done]]
    /\ armed' = armed \ {sym}
    /\ UNCHANGED <<order, outcome, leftover, noted, gate, unclear>>

Fill(n) ==
    /\ broker[n].works /\ broker' = [broker EXCEPT ![n].works = FALSE]
    /\ UNCHANGED <<order, outcome, leftover, noted, gate, armed, unclear>>

ExecNext ==
    \/ \E h \in BOOLEAN : CheckGate(h)
    \/ \E s \in Tradables : Arm(s) \/ Fire(s)
    \/ \E s \in Tradables, q \in Quotes, seamless, gated \in BOOLEAN :
        (~seamless => q.priced /\ ~q.stale) /\ Submit(s, seamless, q, gated)
    \/ Check \/ Place \/ Journal
    \/ \E over \in BOOLEAN : Chase(over)
    \/ SendFirst \/ SendReplacement \/ Refused \/ QuoteAges \/ Stop
    \/ \E s \in Tradables, done \in SUBSET noted : CancelAll(s, done)
    \/ \E n \in Numbers : Fill(n)

\* Types; a call leaves nothing behind in the engine, and its orders exist.
\* (TradeExecutor and EMMEngine keep no state of a call.)
ExecTypeOK ==
    /\ broker \in Seq([sym : Tradables, works : BOOLEAN]) /\ Len(broker) <= MaxOrders
    /\ noted \cup leftover \subseteq Numbers /\ armed \cup unclear \subseteq Tradables
    /\ gate \in BOOLEAN
    /\ IF order.at = "idle" THEN order = NoOrder
       ELSE /\ order.sym \in Tradables /\ order.id \in 0 .. Len(broker) /\ order.tries \in 1 .. Calls
            /\ order.attempt \in 0 .. MaxChase /\ outcome = "none"

\* However orders are submitted, chased, filled and cancelled, the account never has two working
\* orders of a symbol, unless an answer of the broker was lost on the way (a retried place_order
\* enters the order again).  (submit_order's check, and the replacements of execute.)
OneExposure ==
    \A s \in Tradables \ unclear : Cardinality({n \in Numbers : broker[n].sym = s /\ broker[n].works}) <= 1

\* A chase that ended by itself leaves no order working, if its first order was never replaced and
\* no answer was lost.  (After a replacement the final cancel names the first order.)
AbortLeavesNothing ==
    (outcome \in {"emm_timeout", "emm_stale_quote", "emm_no_quote"} /\ Cardinality(leftover) <= 1)
        => \A n \in leftover : broker[n].sym \notin unclear => ~broker[n].works

\* The account holds at most the order that was meant, during a chase, after it and after a cancel.
\* (submit_order, EMMEngine.execute, cancel_all.)
OrdersKnown == ExecTypeOK /\ OneExposure /\ AbortLeavesNothing

ExecSpec == ExecInit /\ [][ExecNext]_execVars
==============================================================================
