--------------------------------- MODULE Projection --------------------------------
(***************************************************************************)
(* The balance forecast (services/forecast_service.py,                     *)
(* services/forecasters/naive_forecaster.py) and the what-if scenarios     *)
(* laid over it (services/scenario_service.py), of one account.            *)
(*                                                                         *)
(* The history is read, the forecaster runs in a thread when the cache has *)
(* no rows for the selection, and the planned occurrences are read when it *)
(* has answered; meanwhile the ledger, the plans and the calendar move on. *)
(* Days are numbers, amounts whole; the averages of the forecaster are a   *)
(* constant drift, its band grows by two a day, a month is MonthDays days. *)
(***************************************************************************)
EXTENDS Integers, Sequences, FiniteSets, FiniteSetsExt, SequencesExt, Tables

CONSTANTS
    LastDay,        \* bound: the calendar
    Horizons,       \* horizon_days a reader may choose
    HistoryDays,
    MinDays,        \* the days of history a forecast needs
    Drift,
    Moves,          \* what may be posted: [day, amount, counted]; not counted: transfers, loans
    Plans,          \* what may be planned: [day, amount]
    Whatifs,        \* scenario deltas: [kind, start, amount, every]
    MonthDays, TrailingIncome, FundBalance, Burn,
    Askers,
    MaxMoved        \* bound: postings, deletions and plans

ASSUME ProjectionAssumption ==
    /\ MinDays \in Nat \ {0} /\ Horizons \subseteq Nat
    /\ \A m \in Moves : m.day \in Int
    /\ \A o \in Plans : o.day \in Int
    /\ IsFiniteSet({m \in Moves : m.day = 1})

VARIABLES
    today,
    ledger,     \* the moves posted
    planned,    \* the occurrences planned
    moved,      \* postings, deletions and plans so far
    cache,      \* _forecast_cache: horizon -> rows, <<>> when there are none
    asking,     \* per asker: its request
    shown       \* per asker: the result on its screen, <<>> when there is none

projectionVars == <<today, ledger, planned, moved, cache, asking, shown>>

Total(moves) == MapThenSumSet(LAMBDA m : m.amount, moves)
Days == 1 .. LastDay

-----------------------------------------------------------------------------
(* The forecast.                                                           *)

History == {m \in ledger : m.counted /\ m.day >= today - HistoryDays}
\* The days of the moves, in order.
DaysOf(moves) ==
    LET on == {m.day : m \in moves}
    IN Arranged(on, {p \in on \X on : p[1] < p[2]})
\* The running sums of the history, moved so that the last one is the balance.
Running(moves, balance) ==
    LET days == DaysOf(moves)
    IN [i \in DOMAIN days |-> [day |-> days[i],
          value |-> balance - Total({m \in moves : m.day > days[i]})]]
Run(running, horizon) ==
    [i \in DOMAIN running |-> [day |-> running[i].day, value |-> running[i].value, band |-> 0]]
    \o [s \in 1 .. horizon |-> [day |-> Last(running).day + s,
                                value |-> Last(running).value + s * Drift, band |-> 2 * s]]

\* Where the forecast points are, and the historical ones.
Forecast(points) == {i \in DOMAIN points : points[i].forecast}
Historical(points) == {i \in DOMAIN points : ~points[i].forecast}
\* What events move the line by, at point i: those dated on a forecast point up to it.
\* Mutant of Moved: an event moves its own day only.
Moved_OnItsDay(points, events, i) ==
    Total({e \in events : e.day = points[i].day /\ points[i].forecast})
Moved(points, events, i) ==
    Total({e \in events : \E j \in 1 .. i : points[j].forecast /\ points[j].day = e.day})
ApplyScenarios(points, events) ==
    [i \in DOMAIN points |->
        IF points[i].forecast
        THEN [points[i] EXCEPT !.value = @ + Moved(points, events, i),
                               !.mid = @ + Moved(points, events, i)]
        ELSE points[i]]
\* What is on the line: the planned occurrences from tomorrow to the horizon, counted from
\* today.
Occurrences(horizon) == {o \in planned : o.day > today /\ o.day <= today + horizon}
ToPoints(rows, dates) ==
    [i \in DOMAIN rows |-> [day |-> rows[i].day, value |-> rows[i].value, mid |-> rows[i].value,
                            band |-> rows[i].band, forecast |-> rows[i].day \notin dates]]
\* value moves within the band; the band itself stays around mid.
ApplyPreset(points, preset) ==
    [i \in DOMAIN points |->
        IF points[i].forecast
        THEN [points[i] EXCEPT !.value = @ + (CASE preset = "conservative" -> - (points[i].band \div 2)
                                                [] preset = "optimistic" -> points[i].band \div 2
                                                [] preset = "baseline" -> 0)]
        ELSE points[i]]
Kpis(points) ==
    [balance |-> IF Historical(points) = {} THEN 0 ELSE points[Max(Historical(points))].value,
     predicted |-> points[Max(Forecast(points))].value, confidence |-> points[Max(Forecast(points))].band]
DefaultScenarioDate(points, day) ==
    LET days == {points[i].day : i \in Forecast(points)}
    IN IF \E d \in days : d >= day THEN Min({d \in days : d >= day}) ELSE Min(days)

-----------------------------------------------------------------------------
(* The scenarios.                                                          *)

MonthlyAmount(d) == (TrailingIncome * d.amount) \div 100
\* The days an event falls on, from the first point of the forecast on.
CompileDelta(d, start, end) ==
    LET from == IF d.start > start THEN d.start ELSE start
        step == IF d.kind = "income" THEN MonthDays ELSE d.every
        each == IF d.kind = "income" THEN MonthlyAmount(d) ELSE d.amount
        days == IF d.kind = "one_off" THEN {from}
                ELSE {from + n * step : n \in 0 .. LastDay}
    IN IF each = 0 THEN {} ELSE {[day |-> x, amount |-> each] : x \in {x \in days : x <= end}}
MonthlyCashflowDelta(d) ==
    CASE d.kind = "one_off" -> 0
      [] d.kind = "income" -> MonthlyAmount(d)
      [] d.kind = "recurring" -> d.amount * (MonthDays \div d.every)
\* Months the fund covers, in tenths, rounded half up.
Runway(balance, burn) ==
    IF burn <= 0 THEN 0
    ELSE (20 * (IF balance > 0 THEN balance ELSE 0) + burn) \div (2 * burn)
RunwayAfter(deltas) ==
    LET spent == {d \in deltas : d.amount < 0}
    IN Runway(FundBalance + Total({d \in spent : d.kind = "one_off"}),
              Burn - MapThenSumSet(LAMBDA d : MonthlyCashflowDelta(d),
                                   {d \in spent : d.kind = "recurring"}))
\* Only what reached the horizon counts.
Effective(deltas, start, end) == {d \in deltas : CompileDelta(d, start, end) # {}}
Simulate(points, deltas) ==
    LET line == Forecast(points)
        start == points[Min(line)].day
        end == points[Max(line)].day
        \* One event per delta and day: two deltas of one day both move the line.
        Add(i) == MapThenSumSet(LAMBDA d : Moved(points, CompileDelta(d, start, end), i), deltas)
        projected == [i \in DOMAIN points |->
                         IF points[i].forecast THEN [points[i] EXCEPT !.value = @ + Add(i)] ELSE points[i]]
    IN [projected |-> projected,
        shifts |-> MapThenSumSet(LAMBDA d : Total(CompileDelta(d, start, end)), deltas),
        monthly |-> MapThenSumSet(LAMBDA d : MonthlyCashflowDelta(d), Effective(deltas, start, end)),
        before |-> points[Max(line)].value, after |-> projected[Max(line)].value,
        runway |-> RunwayAfter(Effective(deltas, start, end))]

-----------------------------------------------------------------------------
(* Actions.                                                                *)

NotAsking == [state |-> "idle", horizon |-> 0, running |-> <<>>, rows |-> <<>>, balance |-> 0, hit |-> FALSE]

Moving == moved < MaxMoved /\ moved' = moved + 1
\* Rows are booked on any day, days to come included, and deleted again; nothing of it
\* reaches the cache.
PostMove(m) ==
    /\ Moving /\ m \notin ledger
    /\ ledger' = ledger \cup {m}
    /\ UNCHANGED <<today, planned, cache, asking, shown>>
DeleteMove(m) ==
    /\ Moving /\ m \in ledger
    /\ ledger' = ledger \ {m}
    /\ UNCHANGED <<today, planned, cache, asking, shown>>
Plan(o) ==
    /\ Moving /\ o \notin planned
    /\ planned' = planned \cup {o}
    /\ UNCHANGED <<today, ledger, cache, asking, shown>>
NextDay ==
    /\ today < LastDay
    /\ today' = today + 1
    /\ UNCHANGED <<ledger, planned, moved, cache, asking, shown>>

\* Too little history, or the cache has the rows, or the forecaster is to run.
ReadHistory(a, h) ==
    /\ asking[a].state = "idle"
    /\ IF Cardinality({m.day : m \in History}) < MinDays
       THEN /\ shown' = [shown EXCEPT ![a] = <<>>]
            /\ UNCHANGED asking
       ELSE /\ asking' = [asking EXCEPT ![a] =
                  [state |-> IF cache[h] = <<>> THEN "running" ELSE "drawing", horizon |-> h,
                   running |-> Running(History, Total(ledger)), rows |-> cache[h],
                   balance |-> Total(ledger), hit |-> cache[h] # <<>>]]
            /\ UNCHANGED shown
    /\ UNCHANGED <<today, ledger, planned, moved, cache>>
ForecasterAnswers(a) ==
    /\ asking[a].state = "running"
    /\ LET rows == Run(asking[a].running, asking[a].horizon)
       IN /\ asking' = [asking EXCEPT ![a].state = "drawing", ![a].rows = rows]
          /\ cache' = [cache EXCEPT ![asking[a].horizon] = rows]
    /\ UNCHANGED <<today, ledger, planned, moved, shown>>
Draw(a) ==
    /\ asking[a].state = "drawing"
    /\ LET dates == {p.day : p \in Range(asking[a].running)}
           points == ToPoints(asking[a].rows, dates)
           base == IF Forecast(points) = {} THEN 0 ELSE points[Max(Forecast(points))].value
           events == Occurrences(asking[a].horizon)
       IN shown' = [shown EXCEPT ![a] =
              <<[points |-> ApplyScenarios(points, events), base |-> base, events |-> events,
                 on |-> today, balance |-> asking[a].balance, hit |-> asking[a].hit]>>]
    /\ asking' = [asking EXCEPT ![a] = NotAsking]
    /\ UNCHANGED <<today, ledger, planned, moved, cache>>

ProjectionInit ==
    /\ today = 2
    /\ ledger = {m \in Moves : m.day = 1 /\ m.counted}
    /\ planned = {} /\ moved = 0
    /\ cache = [h \in Horizons |-> <<>>]
    /\ asking = [a \in Askers |-> NotAsking]
    /\ shown = [a \in Askers |-> <<>>]
ProjectionNext ==
    \/ \E m \in Moves : PostMove(m) \/ DeleteMove(m)
    \/ \E o \in Plans : Plan(o)
    \/ NextDay
    \/ \E a \in Askers : (\E h \in Horizons : ReadHistory(a, h)) \/ ForecasterAnswers(a) \/ Draw(a)
ProjectionSpec == ProjectionInit /\ [][ProjectionNext]_projectionVars

-----------------------------------------------------------------------------
(* Properties.                                                             *)

Shown == UNION {Range(shown[a]) : a \in Askers}
Drawn == {r \in Shown : Forecast(r.points) # {}}
Fresh == {r \in Drawn : ~r.hit}

ProjectionTypeOK ==
    /\ today \in Days /\ moved \in 0 .. MaxMoved
    /\ ledger \subseteq Moves /\ planned \subseteq Plans
    /\ DOMAIN cache = Horizons
    /\ \A a \in Askers : asking[a].state \in {"idle", "running", "drawing"} /\ Len(shown[a]) <= 1
    /\ \A r \in Shown : \A i, j \in DOMAIN r.points : i < j => r.points[i].day < r.points[j].day

\* A forecast the forecaster ran for starts where the ledger stood when it was read: its
\* last historical point is the account's balance, transfers and loans included, although
\* they are no part of the history (forecast_account).
LineStartsAtTheBalance == \A r \in Fresh : Kpis(r.points).balance = r.balance

\* Of a line: the last day it predicts, the days it knows a row of, and the last day the
\* forecaster was given a row of (its band opens on the day after).
Reaches(points) == points[Max(Forecast(points))].day
BookedDays(points) == {points[i].day : i \in Historical(points)}
GivenUpTo(points) == Max({p.day : p \in {q \in Range(points) : q.band = 0}})

\* The prediction is what the forecaster said, and every planned occurrence once that is
\* later than the rows it was given, no later than what it predicts, and not on a day with
\* a row of its own; of those before, only what is on the day of a row that has gone.  So
\* it is whatever is posted, deleted, planned or cached between the reading and the
\* drawing, with rows of another day and rows dated ahead (forecast_account).
PlansAreOnTheLine ==
    \A r \in Drawn :
        Kpis(r.points).predicted = r.base + Total({e \in r.events :
            /\ e.day <= Reaches(r.points) /\ e.day \notin BookedDays(r.points)
            /\ e.day > GivenUpTo(r.points) \/ \E p \in Range(r.points) : p.day = e.day})

\* A scenario on the day the page offers moves the prediction by its amount and leaves the
\* confidence alone, under every preset, on rows of another day too (default_scenario_date,
\* apply_scenarios, apply_preset).
OfferedDayMovesTheLine ==
    \A r \in Drawn : \A preset \in {"conservative", "baseline", "optimistic"} :
        LET day == DefaultScenarioDate(r.points, r.on)
            was == Kpis(ApplyPreset(r.points, preset))
            now == Kpis(ApplyPreset(ApplyScenarios(r.points, {[day |-> day, amount |-> 50]}), preset))
        IN now.predicted = was.predicted + 50 /\ now.confidence = was.confidence

\* The verdict and the chart are of one scenario: what was compiled is what the last point
\* moved by, a scenario that moves nothing says nothing, and none lengthens the runway
\* (compile_delta, simulate, _runway_after).
VerdictIsTheChart ==
    \A r \in Fresh : \A deltas \in {D \in SUBSET Whatifs : Cardinality(D) \in {1, 2}} :
        LET s == Simulate(r.points, deltas)
        IN /\ s.after - s.before = s.shifts
           /\ s.runway <= Runway(FundBalance, Burn)
           /\ (Cardinality(deltas) = 1 /\ s.projected = r.points)
                 => s.monthly = 0 /\ s.runway = Runway(FundBalance, Burn)

\* Every planned occurrence from tomorrow to the end of the line is on it: those up to a row
\* dated ahead are not (forecast_account).
PlansAheadAreOnTheLine ==
    \A r \in Drawn : Kpis(r.points).predicted =
        r.base + Total({e \in r.events : e.day <= Reaches(r.points)})

\* "history ends at the last transaction, so a quiet account's 'balance today' is its balance
\* as of whenever something last happened" (ForecastKpis.balance_date).
BalanceIsTheLedgers == \A r \in Drawn : Kpis(r.points).balance = r.balance
=============================================================================
