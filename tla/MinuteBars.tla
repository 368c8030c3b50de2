----------------------------- MODULE MinuteBars -----------------------------
(***************************************************************************)
(* The intraday state of one AEEngine (analysis/ae.py): the one-minute     *)
(* bars MinuteBarAggregator makes of ten-second bars, seeded once from the *)
(* day's history, with the sums behind the VWAP and the session's high.    *)
(*                                                                         *)
(* A ten-second bar is a price and a volume of its minute.  Of the levels  *)
(* (session, premarket and opening range, high and low) the session high   *)
(* stands for all: each is the same running maximum or minimum, over its   *)
(* own part of the day.                                                    *)
(***************************************************************************)
EXTENDS Integers, Sequences, FiniteSets, FiniteSetsExt, Lists

CONSTANTS
    MinutePrices, MinuteVolumes,
    MaxMinute,      \* bound of the time
    MaxTenBars      \* bound of the ten-second bars
ASSUME MinuteAssumption ==
    /\ MinutePrices \subseteq Nat \ {0} /\ MinuteVolumes \subseteq Nat
    /\ {MaxMinute, MaxTenBars} \subseteq Nat

VARIABLES
    market,         \* minute -> the bar the market has made of it so far
    minute,         \* the clock
    tens,           \* number of ten-second bars so far
    agg,            \* MinuteBarAggregator
    seeding,        \* "none", "reset" (levels cleared, history asked for), "done" or "live"
    gap             \* history: minutes from the seed's to the subscription's

minuteVars == <<market, minute, tens, agg, seeding, gap>>

NoMinute == [ts |-> -1, high |-> 0, close |-> 0, volume |-> 0]
Unseeded == -1

MinuteInit ==
    /\ market = <<>> /\ minute = 0 /\ tens = 0
    /\ agg = [current |-> NoMinute, bars |-> <<>>, seededTs |-> Unseeded,
              num |-> 0, den |-> 0, high |-> 0]
    /\ seeding = "none" /\ gap = {}

Joined(bar, price, volume) ==
    [bar EXCEPT !.high = Max({@, price}), !.close = price, !.volume = @ + volume]
MinuteOfTen(ts, price, volume) == [ts |-> ts, high |-> price, close |-> price, volume |-> volume]

-----------------------------------------------------------------------------
(* MinuteBarAggregator.                                                    *)

\* _store_completed_minute: the live bar of the last seeded minute replaces the
\* seeded one, which leaves the VWAP.  Any later minute is appended.
KeepSeeded(a, bar) == [a EXCEPT !.bars = Append(@, bar)]
KeepsVolume(a, bar) ==
    [a EXCEPT !.bars = [i \in DOMAIN @ |-> IF @[i].ts = bar.ts THEN bar ELSE @[i]] \o
                       (IF \E i \in DOMAIN @ : @[i].ts = bar.ts THEN <<>> ELSE <<bar>>)]
Stored(a, bar) ==
    LET same == {i \in DOMAIN a.bars : a.bars[i].ts = bar.ts}
        i == Max(same)
    IN IF bar.ts = a.seededTs /\ same # {}
       THEN [a EXCEPT !.bars[i] = bar, !.seededTs = Unseeded,
                      !.num = Max({0, @ - a.bars[i].close * a.bars[i].volume}),
                      !.den = Max({0, @ - a.bars[i].volume})]
       ELSE [a EXCEPT !.bars = Append(@, bar)]

\* ingest_10s: a new minute stores the last one; a bar that is late joins the
\* current minute.  Then _update_session_stats.
RollsLate(a, ts) == ts > a.current.ts + 1
Rolls(a, ts) == ts > a.current.ts
Ingested(a, ts, price, volume) ==
    LET rolled == IF a.current # NoMinute /\ Rolls(a, ts) THEN Stored(a, a.current) ELSE a
        now == IF a.current = NoMinute \/ Rolls(a, ts)
               THEN MinuteOfTen(ts, price, volume) ELSE Joined(a.current, price, volume)
    IN [rolled EXCEPT !.current = now, !.high = Max({@, price}),
                      !.num = @ + price * volume, !.den = @ + volume]

\* A ten-second bar of the present minute, which the engine is given if it is
\* this symbol's.
TenBar ==
    \E price \in MinutePrices, volume \in MinuteVolumes :
        /\ tens < MaxTenBars /\ tens' = tens + 1
        /\ market' = IF minute \in DOMAIN market
                     THEN [market EXCEPT ![minute] = Joined(@, price, volume)]
                     ELSE [t \in DOMAIN market \cup {minute} |->
                             IF t = minute THEN MinuteOfTen(minute, price, volume) ELSE market[t]]
        /\ agg' = IF seeding = "live" THEN Ingested(agg, minute, price, volume) ELSE agg
        /\ UNCHANGED <<minute, seeding, gap>>

NextMinute ==
    /\ minute < MaxMinute /\ minute' = minute + 1
    /\ gap' = IF seeding = "done" THEN gap \cup {minute'} ELSE gap
    /\ UNCHANGED <<market, tens, agg, seeding>>

-----------------------------------------------------------------------------
(* seed_intraday_from_history.                                             *)

\* The levels are cleared before the history is asked for.
ResetLevels ==
    /\ seeding = "none" /\ seeding' = "reset"
    /\ agg' = [agg EXCEPT !.high = 0, !.seededTs = Unseeded]
    /\ UNCHANGED <<market, minute, tens, gap>>

\* History: the minutes so far, with the one in progress or without it.
Histories == LET past == {t \in DOMAIN market : t < minute} IN {past, DOMAIN market}
Sorted(minutes) ==
    {at \in [1 .. Cardinality(minutes) -> minutes] : \A i, j \in DOMAIN at : i < j => at[i] < at[j]}
Volumes(bars) == Total([i \in DOMAIN bars |-> bars[i].volume])
Worth(bars) == Total([i \in DOMAIN bars |-> bars[i].close * bars[i].volume])

\* The candles follow the bars there are; VWAP and levels are computed again
\* from all of them.  No candle, or a failure, leaves what ResetLevels left.
NextToSeed(at) == at[Len(at)] + 1
SeededTs(at) == at[Len(at)]
Seed ==
    /\ seeding = "reset" /\ seeding' = "done" /\ gap' = {minute}
    /\ \/ UNCHANGED agg
       \/ \E minutes \in Histories \ {{}} : \E at \in Sorted(minutes) :
            LET bars == agg.bars \o [i \in DOMAIN at |-> market[at[i]]]
            IN agg' = [agg EXCEPT
                         !.bars = bars, !.seededTs = SeededTs(at),
                         !.num = Worth(bars),
                         !.den = Volumes(bars),
                         !.high = Max({bars[i].high : i \in DOMAIN bars})]
    /\ UNCHANGED <<market, minute, tens>>

\* select_symbol seeds before it subscribes; a replay (prepare_replay) does not
\* seed.
SubscribeLive ==
    /\ seeding \in {"none", "done"} /\ seeding' = "live" /\ gap' = gap \cup {minute}
    /\ UNCHANGED <<market, minute, tens, agg>>

MinuteNext ==
    \/ TenBar \/ NextMinute \/ ResetLevels \/ Seed \/ SubscribeLive

MinuteSpec == MinuteInit /\ [][MinuteNext]_minuteVars

-----------------------------------------------------------------------------
(* Properties.                                                             *)

Closed == agg.bars
AndCurrent(n) == n + agg.current.volume

\* Types; no bar and no seed is of a minute to come.  (MinuteBarAggregator's fields.)
MinuteTypeOK ==
    /\ agg.current = NoMinute \/ agg.current.ts \in 0 .. minute
    /\ agg.seededTs \in -1 .. minute /\ {agg.num, agg.den, agg.high} \subseteq Nat
    /\ DOMAIN market \subseteq 0 .. minute

\* The VWAP weighs what the bars hold: the sum of their volumes is its
\* denominator, also across the minute that was seeded in part and then live.
VwapIsBars == agg.den = AndCurrent(Volumes(Closed))

\* One bar per minute, in order: the analysis never sees a minute twice.
MinutesOnce ==
    /\ \A i \in 2 .. Len(Closed) : Closed[i - 1].ts < Closed[i].ts
    /\ Closed # <<>> /\ agg.current # NoMinute /\ agg.seededTs # agg.current.ts
         => Closed[Len(Closed)].ts < agg.current.ts

\* The bars are the market's minutes, but for those from the seed's to the
\* subscription's, which nobody saw whole; and no bar is above the session high.
MinutesTrue ==
    \A i \in DOMAIN Closed :
        /\ Closed[i].high <= agg.high
        /\ Closed[i].ts \notin gap => Closed[i] = market[Closed[i].ts]

\* Bars, sums and levels of a seeded and then live engine are those of the market's minutes.
\* (MinuteBarAggregator, seed_intraday_from_history.)
MinutesAddUp == MinuteTypeOK /\ VwapIsBars /\ MinutesOnce /\ MinutesTrue
=============================================================================
