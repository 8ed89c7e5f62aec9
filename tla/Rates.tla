----------------------------------- MODULE Rates ----------------------------------
(***************************************************************************)
(* Exchange rates (services/currency_rate_service.py): the family's own,   *)
(* typed or recorded from its transfers, and the instance's NBP mids.  One *)
(* rate is looked up for a date; a history is loaded for the batch lookups *)
(* of the net worth (services/net_worth_service.py).  The two must agree.  *)
(*                                                                         *)
(* A rate is a fraction, so that an inverse of an inverse is the rate; the *)
(* six decimals the inverses are stored with are left out.                 *)
(***************************************************************************)
EXTENDS Integers, Sequences, FiniteSets, FiniteSetsExt, SequencesExt

CONSTANTS
    RateDates,      \* numbers from 1 on
    Foreign,        \* currencies but the national one
    National,       \* PLN
    Fractions,      \* rates: <<n, d>>
    MaxRecorded     \* bound: family rates given out, NBP mids

ASSUME RatesAssumption ==
    /\ RateDates \subseteq Nat \ {0} /\ Fractions \subseteq Nat \X Nat
    /\ National \notin Foreign /\ MaxRecorded \in Nat

VARIABLES
    family,     \* currency_rates: [date, from, to, rate, id]
    nbp,        \* nbp_rates: [date, currency, mid]
    issued      \* ids of family rates given out

rateVars == <<family, nbp, issued>>

Flip(rate) == <<rate[2], rate[1]>>
Currencies == Foreign \cup {National}
NoRate == [date |-> 0, rate |-> <<0, 0>>]

\* NBP answers only for a pair with the national currency on one side.
NbpCurrency(from, to) ==
    IF from = to \/ National \notin {from, to} THEN {} ELSE {from, to} \ {National}
NbpMid(row, from) == IF from = National THEN Flip(row.mid) ELSE row.mid

\* The newest of a set of dated rows; of one date the last recorded, where the database may give any.
NewestRow(rows) == CHOOSE r \in rows : \A q \in rows : q.date < r.date \/ (q.date = r.date /\ q.id <= r.id)
Direct(from, to) == {r \in family : r.from = from /\ r.to = to}
FamilyRateOn(date, from, to) ==
    LET direct == {r \in Direct(from, to) : r.date <= date}
        inverse == {r \in Direct(to, from) : r.date <= date}
    IN CASE direct # {} -> [date |-> NewestRow(direct).date, rate |-> NewestRow(direct).rate]
         [] direct = {} /\ inverse # {} ->
                [date |-> NewestRow(inverse).date, rate |-> Flip(NewestRow(inverse).rate)]
         [] OTHER -> NoRate
NbpRateOn(date, from, to) ==
    LET rows == {r \in nbp : r.currency \in NbpCurrency(from, to) /\ r.date <= date}
        last == CHOOSE r \in rows : \A q \in rows : q.date <= r.date
    IN IF rows = {} THEN NoRate ELSE [date |-> last.date, rate |-> NbpMid(last, from)]
\* The newer of the two; on one date the family's.
\* Mutant of RateOn: on one date the NBP rate wins.
RateOn_NbpWins(date, from, to) ==
    LET own == FamilyRateOn(date, from, to)
        mid == NbpRateOn(date, from, to)
    IN IF mid.date # 0 /\ mid.date >= own.date THEN mid.rate ELSE own.rate
RateOn(date, from, to) ==
    LET own == FamilyRateOn(date, from, to)
        mid == NbpRateOn(date, from, to)
    IN IF from = to THEN <<1, 1>>
       ELSE IF own.date = 0 \/ mid.date > own.date THEN mid.rate ELSE own.rate

\* The history: date -> rate.  Inverses only for a currency with no direct rate at all.
LoadRates(from, to) ==
    LET rows == IF Direct(from, to) # {} THEN Direct(from, to)
                ELSE {[r EXCEPT !.rate = Flip(@)] : r \in Direct(to, from)}
        mids == {r \in nbp : r.currency \in NbpCurrency(from, to)}
        own == {r.date : r \in rows}
    IN [d \in own \cup {r.date : r \in mids} |->
          IF d \in own THEN NewestRow({r \in rows : r.date = d}).rate
          ELSE NbpMid(CHOOSE r \in mids : r.date = d, from)]
\* The batch lookup: the newest entry up to the date.
NearestIn(history, date) ==
    LET upto == {d \in DOMAIN history : d <= date}
    IN IF upto = {} THEN <<0, 0>> ELSE history[Max(upto)]

-----------------------------------------------------------------------------
(* Actions.                                                                *)

Recorded == issued < MaxRecorded
Pair(date, from, to, rate, n) ==
    {[date |-> date, from |-> from, to |-> to, rate |-> rate, id |-> n],
     [date |-> date, from |-> to, to |-> from, rate |-> Flip(rate), id |-> n + 1]}
\* A transfer between two currencies, or a rate typed with its inverse.
RecordTransferRate(date, from, to, rate) ==
    /\ Recorded /\ from # to
    /\ family' = family \cup Pair(date, from, to, rate, issued + 1)
    /\ issued' = issued + 2
    /\ UNCHANGED nbp
\* Typed without its inverse.
CreateRate(date, from, to, rate) ==
    /\ Recorded /\ from # to
    /\ family' = family \cup {[date |-> date, from |-> from, to |-> to, rate |-> rate, id |-> issued + 1]}
    /\ issued' = issued + 1
    /\ UNCHANGED nbp
DeleteRate(r) ==
    /\ family' = family \ {r}
    /\ UNCHANGED <<nbp, issued>>
\* NBP's table of a day is fetched: what is usable of it is kept where the day has no mid
\* of the currency yet.  A fetch that fails, or finds nothing usable, writes nothing.
UsableMids(table) == {r \in table : r.mid[1] > 0 /\ r.currency # National}
FetchNbp(date, table) ==
    /\ Cardinality(nbp) < MaxRecorded
    /\ UsableMids(table) # {}
    /\ nbp' = nbp \cup {[date |-> date, currency |-> r.currency, mid |-> r.mid] :
                        r \in {r \in UsableMids(table) :
                                 \A q \in nbp : ~(q.date = date /\ q.currency = r.currency)}}
    /\ UNCHANGED <<family, issued>>

RatesInit == family = {} /\ nbp = {} /\ issued = 0
RatesNext ==
    \/ \E d \in RateDates, from, to \in Currencies, rate \in Fractions :
          RecordTransferRate(d, from, to, rate) \/ CreateRate(d, from, to, rate)
    \/ \E r \in family : DeleteRate(r)
    \/ \E d \in RateDates, c \in Currencies, rate \in Fractions \cup {<<0, 1>>} :
          FetchNbp(d, {[currency |-> c, mid |-> rate]})
RatesSpec == RatesInit /\ [][RatesNext]_rateVars

-----------------------------------------------------------------------------
(* Properties.                                                             *)

RatesTypeOK ==
    /\ \A r \in family : r.date \in RateDates /\ r.from # r.to /\ {r.from, r.to} \subseteq Currencies
    /\ \A r \in nbp : r.currency \in Foreign
    /\ \A r \in family : r.id <= issued

\* A pair every rate of which was recorded both ways.
BothWays(from, to) ==
    \A r \in Direct(from, to) \cup Direct(to, from) :
        \E q \in family : q.date = r.date /\ q.from = r.to /\ q.to = r.from
                          /\ q.rate = Flip(r.rate)

\* With two rates of one date the database's order decides.
OneADay(from, to) == \A r, q \in Direct(from, to) : r.date = q.date => r = q
\* One rate and the history agree: for a pair recorded both ways, or in one direction only,
\* at most one a day, the rate looked up for a date is the newest of the history up to it, typed, recorded and
\* fetched rates mixed in any order, rates deleted among them (get_rate_on,
\* load_rates_for_currencies, _merge_nbp_history).
LookupsAgree ==
    \A from, to \in Currencies, d \in RateDates :
        from # to /\ OneADay(from, to) /\ OneADay(to, from) /\ (BothWays(from, to) \/ Direct(from, to) = {} \/ Direct(to, from) = {}) =>
            RateOn(d, from, to) = NearestIn(LoadRates(from, to), d)

\* "A lookup takes the latest rate on or before the date from either" (module docstring): one
\* direction recorded later hides the other from the history.
LookupsAlwaysAgree ==
    \A from, to \in Currencies, d \in RateDates :
        from # to /\ OneADay(from, to) /\ OneADay(to, from) => RateOn(d, from, to) = NearestIn(LoadRates(from, to), d)
=============================================================================
