------------------------------- MODULE ReportBuilder ------------------------------
(***************************************************************************)
(* The report builder: the page's state and its drop zones (views/reports) *)
(* and the report it runs (services/saved_report_service.py,               *)
(* services/report_columns.py, services/categorised_flows.py).             *)
(*                                                                         *)
(* Every visitor of the page has a copy of the builder's defaults, but the *)
(* copy is shallow: the list of transaction types is the module's own list *)
(* until a saved report is loaded, and the type chips change it in place.  *)
(* A report is executed while its page stays usable, so several may be     *)
(* under way.  A date is a month number, 12 * year + month - 1; the        *)
(* presets that count days and the weekday grouping are left out.  Results *)
(* are functions from labels to values: the order of labels is kept only   *)
(* on a time axis.                                                         *)
(***************************************************************************)
EXTENDS Integers, Sequences, FiniteSets, FiniteSetsExt, Functions, Flows, Tables

CONSTANTS
    Visitors,
    Dimensions,     \* the groupings tried
    Metrics,
    Charts,
    ReportTypes,    \* transaction types the chips offer
    Presets,
    Tops,           \* values of the limit; 0 for no limit
    ReportLedgers,  \* the ledgers there may be
    ReportMonth,      \* the month of today
    NoAxis,         \* series is None
    MaxEdits,       \* bound: events of the pages
    MaxRuns         \* bound: runs under way at one page

VARIABLES
    recorded,   \* the ledger: a set of transactions
    shared,     \* BUILDER_STATE_DEFAULTS["transaction_types"], one list per process
    page,       \* per visitor: the builder's state
    running,    \* per visitor: runs under way, the configurations captured
    stored,     \* saved_reports: id -> configuration
    edits

reportVars == <<recorded, shared, page, running, stored, edits>>

TimeDimensions == {"month", "year", "weekday"}
TrendDimensions == {"month", "year"}
Columns == {"share", "rank", "change", "moving_avg"}
TrendColumns == {"change", "moving_avg"}
NoReport == 0
Nothing == [kind |-> "none"]

-----------------------------------------------------------------------------
(* What a report computes.                                                 *)

ResolveDates(preset) ==
    LET january == (ReportMonth \div 12) * 12
    IN CASE preset = "this_month" -> <<ReportMonth, ReportMonth>>
         [] preset = "last_month" -> <<ReportMonth - 1, ReportMonth - 1>>
         [] preset = "this_year" -> <<january, ReportMonth>>
         [] preset = "last_year" -> <<january - 12, january - 1>>
         [] OTHER -> <<0, ReportMonth + 24>>

Kept(rows, c) ==
    LET dates == ResolveDates(c.preset)
    IN {r \in rows : /\ ~r.at.internal
                     /\ r.tx \notin LoanLinked(recorded)
                     /\ r.at.month \in dates[1] .. dates[2]
                     /\ c.types = {} \/ r.at.type \in c.types
                     /\ c.accounts = {} \/ r.at.account \in c.accounts
                     /\ c.categories = {} \/ r.category \in c.categories}
LabelOf(r, dim) ==
    CASE dim = "category" -> r.category
      [] dim = "account" -> r.at.account
      [] dim = "institution" -> r.at.institution
      [] dim = "month" -> r.at.month
      [] dim = "year" -> r.at.month \div 12
      [] dim = "type" -> r.at.type
Scale == 6      \* averages are of at most three rows: six times one is exact
MetricOf(rows, metric) ==
    CASE metric = "sum" -> Scale * Amounts(rows)
      [] metric = "count" -> Scale * Cardinality(rows)
      [] metric = "avg" -> (Scale * Amounts(rows)) \div Cardinality(rows)

\* Grouping by category, or filtering by it, needs the parts of a split.
OnFlows(c) == c.dimension = "category" \/ c.series = "category" \/ c.categories # {}
RowsOf(c) == Kept(IF OnFlows(c) THEN CategorisedFlows(recorded) ELSE Transactions(recorded), c)

TrendAxis(c) == IF c.series = NoAxis THEN c.dimension ELSE c.series
ActiveColumns(c) ==
    {x \in c.columns : TrendAxis(c) \in TrendDimensions \/ x \notin TrendColumns}
HasTrend(c) == ActiveColumns(c) \cap TrendColumns # {}
Limit(c) == IF HasTrend(c) THEN 0 ELSE c.top

\* The n labels with the largest values; ties are broken by the order of the query.
Biggest(f, n) ==
    IF n = 0 \/ Cardinality(DOMAIN f) <= n THEN DOMAIN f
    ELSE CHOOSE S \in SUBSET DOMAIN f :
            Cardinality(S) = n /\ \A x \in S, y \in DOMAIN f \ S : f[x] >= f[y]

\* Every period from the first to the last, those without rows at zero.
FullAxis(labels) == IF labels = {} THEN {} ELSE Min(labels) .. Max(labels)
FillFlat(f) == [x \in FullAxis(DOMAIN f) |-> IF x \in DOMAIN f THEN f[x] ELSE 0]
FillPivot(p) ==
    LET full == FullAxis(p.series)
    IN [p EXCEPT !.series = full,
                 !.cells = [r \in DOMAIN p.cells |->
                              [s \in full |-> IF s \in p.series THEN p.cells[r][s] ELSE 0]]]

Flat(c) ==
    LET rows == RowsOf(c)
        all == [x \in {LabelOf(r, c.dimension) : r \in rows} |->
                   MetricOf({r \in rows : LabelOf(r, c.dimension) = x}, c.metric)]
    IN Restrict(all, Biggest(all, Limit(c)))

Other == <<>>       \* OTHER_ROW_LABEL; the other rows are <<label>>
\* The rows over the limit are folded into one, unless the cells are averages.
CutRows(totals, c) ==
    LET kept == Biggest(totals, c.top)
    IN [kept |-> kept,
        folded |-> IF c.metric = "avg" THEN {} ELSE DOMAIN totals \ kept]
Pivot(c) ==
    LET rows == RowsOf(c)
        labels == {LabelOf(r, c.dimension) : r \in rows}
        series == {LabelOf(r, c.series) : r \in rows}
        At(x, s) == {r \in rows : LabelOf(r, c.dimension) = x /\ LabelOf(r, c.series) = s}
        cell == [x \in labels |-> [s \in series |->
                    IF At(x, s) = {} THEN 0 ELSE MetricOf(At(x, s), c.metric)]]
        totals == [x \in labels |-> SumOf(cell[x])]
        cut == CutRows(totals, c)
    IN [series |-> series,
        cells |-> [x \in {<<k>> : k \in cut.kept} \cup (IF cut.folded = {} THEN {} ELSE {Other}) |->
                      IF x # Other THEN cell[x[1]]
                      ELSE [s \in series |-> MapThenSumSet(LAMBDA k : cell[k][s], cut.folded)]]]
RowTotals(p) == [x \in DOMAIN p.cells |-> SumOf(p.cells[x])]
SeriesTotals(p) == [s \in p.series |-> MapThenSumSet(LAMBDA x : p.cells[x][s], DOMAIN p.cells)]

\* execute(): a report grouped twice by one dimension is refused.
Execute(c) ==
    IF c.series = c.dimension THEN [kind |-> "error"]
    ELSE IF c.series # NoAxis
    THEN [kind |-> "pivot", table |-> IF HasTrend(c) THEN FillPivot(Pivot(c)) ELSE Pivot(c)]
    ELSE [kind |-> "flat", table |-> IF HasTrend(c) THEN FillFlat(Flat(c)) ELSE Flat(c)]

\* changes() and moving_averages() along a line of periods.
Line(f) == LET first == Min(DOMAIN f) IN [i \in 1 .. Cardinality(DOMAIN f) |-> f[first + i - 1]]
Changes(line) == [i \in 2 .. Len(line) |-> line[i] - line[i - 1]]

-----------------------------------------------------------------------------
(* The builder's page.                                                     *)

\* A pie has no second dimension, a line needs one that runs in time.
ChartUnavailable(chart, series) ==
    /\ series # NoAxis
    /\ chart \in {"pie", "donut"} \/ (chart = "line" /\ series \notin TimeDimensions)
KeepChartDrawable(p) == IF ChartUnavailable(p.chart, p.series) THEN [p EXCEPT !.chart = "bar"] ELSE p
\* A dimension that is the second one too takes its place.
GroupBy(p, d) ==
    KeepChartDrawable([p EXCEPT !.dimension = d,
                                !.series = IF p.series = d THEN NoAxis ELSE p.series])

Defaults ==
    [dimension |-> "category", series |-> NoAxis, metric |-> "sum", chart |-> "bar",
     own |-> FALSE, types |-> {}, preset |-> "this_year", accounts |-> {}, categories |-> {},
     top |-> 10, columns |-> {}, report |-> NoReport, dragged |-> Nothing,
     spinner |-> FALSE, error |-> FALSE, result |-> Nothing]
\* The chips work on the shared list until the page has a list of its own.
TypesOf(v) == IF page[v].own THEN page[v].types ELSE shared
ConfigOf(v) ==
    LET p == page[v]
    IN [dimension |-> p.dimension, series |-> p.series, metric |-> p.metric, chart |-> p.chart,
        types |-> TypesOf(v), preset |-> p.preset, accounts |-> p.accounts,
        categories |-> p.categories, top |-> p.top, columns |-> p.columns]

\* The sentence reads "all periods", and its limit cannot be opened.
TopNSuppressed(p) == p.series = NoAxis /\ HasTrend(p)

Edited(v, p) ==
    /\ edits < MaxEdits
    /\ edits' = edits + 1
    /\ page' = [page EXCEPT ![v] = p]
Quietly == UNCHANGED <<recorded, shared, running, stored>>

\* set_field(), from the sentence's menus and the rail.
SetField(v) ==
    /\ \/ \E d \in Dimensions : Edited(v, GroupBy(page[v], d))
       \/ \E s \in (Dimensions \ {page[v].dimension}) \cup {NoAxis} :
             Edited(v, KeepChartDrawable([page[v] EXCEPT !.series = s]))
       \/ \E m \in Metrics : Edited(v, [page[v] EXCEPT !.metric = m])
       \/ \E p \in Presets : Edited(v, [page[v] EXCEPT !.preset = p])
       \/ \E n \in Tops \ {page[v].top} :
             /\ ~TopNSuppressed(page[v])
             /\ Edited(v, [page[v] EXCEPT !.top = n])
       \/ \E a \in {t.account : t \in recorded} :
             Edited(v, [page[v] EXCEPT !.accounts = SymDiff(@, {a})])
       \/ \E k \in {t.category : t \in recorded} :
             Edited(v, [page[v] EXCEPT !.categories = SymDiff(@, {k})])
    /\ Quietly
\* The columns menu offers what the axis allows.
ToggleColumn(v) ==
    /\ \E x \in Columns :
          /\ x \in ActiveColumns([page[v] EXCEPT !.columns = {x}])
          /\ Edited(v, [page[v] EXCEPT !.columns = SymDiff(@, {x})])
    /\ Quietly
DragStart(v) ==
    /\ \/ \E d \in Dimensions :
             Edited(v, [page[v] EXCEPT !.dragged = [kind |-> "dimension", key |-> d]])
       \/ \E m \in Metrics : Edited(v, [page[v] EXCEPT !.dragged = [kind |-> "metric", key |-> m]])
    /\ Quietly
Drop(p) == [p EXCEPT !.dragged = Nothing]
DropDimension(v) ==
    /\ page[v].dragged # Nothing
    /\ Edited(v, Drop(IF page[v].dragged.kind = "dimension"
                      THEN GroupBy(page[v], page[v].dragged.key) ELSE page[v]))
    /\ Quietly
DropSeries(v) ==
    LET d == page[v].dragged
    IN /\ d # Nothing
       /\ Edited(v, Drop(IF d.kind = "dimension" /\ d.key # page[v].dimension
                         THEN KeepChartDrawable([page[v] EXCEPT !.series = d.key]) ELSE page[v]))
       /\ Quietly
DropMetric(v) ==
    LET d == page[v].dragged
    IN /\ d # Nothing
       /\ Edited(v, Drop(IF d.kind = "metric" THEN [page[v] EXCEPT !.metric = d.key] ELSE page[v]))
       /\ Quietly
SetChart(v) ==
    /\ \E c \in Charts :
          /\ ~ChartUnavailable(c, page[v].series)
          /\ Edited(v, [page[v] EXCEPT !.chart = c])
    /\ Quietly
\* The last type chosen stays chosen.
Toggled(types, t) == IF types = {t} THEN types ELSE SymDiff(types, {t})
ToggleType(v) ==
    /\ \E t \in ReportTypes :
          IF page[v].own
          THEN Edited(v, [page[v] EXCEPT !.types = Toggled(@, t)]) /\ UNCHANGED shared
          ELSE Edited(v, page[v]) /\ shared' = Toggled(shared, t)
    /\ UNCHANGED <<recorded, running, stored>>

\* run_report() captures its configuration, then waits for the service.
Started(v, c) == running' = [running EXCEPT ![v] = Append(@, c)]
RunReport(v) ==
    /\ Len(running[v]) < MaxRuns
    /\ Edited(v, [page[v] EXCEPT !.spinner = TRUE, !.error = FALSE])
    /\ Started(v, ConfigOf(v))
    /\ UNCHANGED <<recorded, shared, stored>>
\* The answers arrive in any order; each one takes the spinner away.
Landed(p, answer) ==
    IF answer.kind = "error" THEN [p EXCEPT !.error = TRUE, !.spinner = FALSE]
    ELSE [p EXCEPT !.result = answer, !.spinner = FALSE]
Lands(v) ==
    \E i \in DOMAIN running[v] :
        /\ running' = [running EXCEPT ![v] =
                          SubSeq(@, 1, i - 1) \o SubSeq(@, i + 1, Len(@))]
        /\ \/ page' = [page EXCEPT ![v] = Landed(@, Execute(running[v][i]))]
           \/ page' = [page EXCEPT ![v] = Landed(@, [kind |-> "error"])]    \* the database fails
        /\ UNCHANGED <<recorded, shared, stored, edits>>

SaveReport(v) ==
    LET id == Max(DOMAIN stored \cup {0}) + 1
    IN /\ Edited(v, [page[v] EXCEPT !.report = id])
       /\ stored' = With(stored, id, ConfigOf(v))
       /\ UNCHANGED <<recorded, shared, running>>
\* load_report() gives the page lists of its own and runs the report.
LoadReport(v) ==
    \E id \in DOMAIN stored :
        LET c == stored[id]
        IN /\ Len(running[v]) < MaxRuns
           /\ Edited(v, [dimension |-> c.dimension, series |-> c.series, metric |-> c.metric,
                         chart |-> c.chart, own |-> TRUE, types |-> c.types, preset |-> c.preset,
                         accounts |-> c.accounts, categories |-> c.categories, top |-> c.top,
                         columns |-> c.columns, report |-> id, dragged |-> page[v].dragged,
                         spinner |-> TRUE, error |-> FALSE, result |-> page[v].result])
           /\ Started(v, c)
           /\ UNCHANGED <<recorded, shared, stored>>
DeleteReport(v) ==
    \E id \in DOMAIN stored :
        /\ Edited(v, [page[v] EXCEPT !.report = IF @ = id THEN NoReport ELSE @])
        /\ stored' = Without(stored, {id})
        /\ UNCHANGED <<recorded, shared, running>>
\* The page is opened again: a fresh copy of the defaults.
Reopen(v) ==
    /\ Edited(v, Defaults)
    /\ running' = [running EXCEPT ![v] = <<>>]
    /\ UNCHANGED <<recorded, shared, stored>>

ReportInit ==
    /\ recorded \in ReportLedgers
    /\ shared = {"expense"}
    /\ page = [v \in Visitors |-> Defaults]
    /\ running = [v \in Visitors |-> <<>>]
    /\ stored = <<>>
    /\ edits = 0
ReportNext ==
    \E v \in Visitors :
        \/ SetField(v) \/ ToggleColumn(v)
        \/ DragStart(v) \/ DropDimension(v) \/ DropSeries(v) \/ DropMetric(v)
        \/ SetChart(v) \/ ToggleType(v)
        \/ RunReport(v) \/ Lands(v)
        \/ SaveReport(v) \/ LoadReport(v) \/ DeleteReport(v) \/ Reopen(v)
ReportSpec == ReportInit /\ [][ReportNext]_reportVars

-----------------------------------------------------------------------------
(* Properties.                                                             *)

ReportTypeOK ==
    /\ shared \in SUBSET ReportTypes \ {{}}
    /\ \A v \in Visitors :
          /\ page[v].dimension \in Dimensions
          /\ page[v].series \in Dimensions \cup {NoAxis}
          /\ page[v].metric \in Metrics
          /\ page[v].chart \in Charts
          /\ page[v].types \in SUBSET ReportTypes
          /\ page[v].columns \in SUBSET Columns
          /\ page[v].report \in Nat
          /\ Len(running[v]) <= MaxRuns
    /\ edits \in 0 .. MaxEdits

\* Whatever is dropped, picked or loaded, and in whichever order, the report in the sentence
\* can be run and drawn: no dimension twice, no chart its second dimension rules out
\* (set_field, drop_dimension, drop_series, load_report).
AlwaysDrawable ==
    \A v \in Visitors :
        /\ page[v].series # page[v].dimension
        /\ ~ChartUnavailable(page[v].chart, page[v].series)
        /\ \A i \in DOMAIN running[v] : running[v][i].series # running[v][i].dimension

\* The pivot's limit hides no money: its rows and its columns add up to the same figure, the
\* one the report without a second dimension and without a limit adds up to (_cut_rows).
PivotHidesNothing ==
    \A v \in Visitors :
        LET c == ConfigOf(v)
        IN c.series # NoAxis /\ c.metric # "avg" =>
             LET p == Execute(c).table
                 flat == Flat([c EXCEPT !.series = NoAxis, !.top = 0,
                                        !.dimension = IF OnFlows(c) THEN "category" ELSE @])
             IN /\ SumOf(RowTotals(p)) = SumOf(SeriesTotals(p))
                /\ SumOf(RowTotals(p)) = SumOf(flat)

\* By category, where splits are taken apart, and by account, where they are whole, the same
\* question has the same total: a split's money is counted once (categorised_flows_selectable).
SplitsCountedOnce ==
    \A v \in Visitors :
        LET c == [ConfigOf(v) EXCEPT !.series = NoAxis, !.top = 0, !.metric = "sum", !.categories = {}]
        IN SumOf(Flat([c EXCEPT !.dimension = "category"]))
             = SumOf(Flat([c EXCEPT !.dimension = "account"]))

\* A trend is drawn over every period, the empty ones too: the changes along it lead from the
\* first figure to the last and its figures add up to the whole report (fill_time_axis, _limit).
TrendsCoverEveryPeriod ==
    \A v \in Visitors :
        LET c == ConfigOf(v)
        IN c.series = NoAxis /\ HasTrend(c) /\ c.metric # "avg" /\ RowsOf(c) # {} =>
             LET line == Line(Execute(c).table)
             IN /\ SumOf(Changes(line)) = line[Len(line)] - line[1]
                /\ SumOf(line) = MetricOf(RowsOf(c), c.metric)

\* With nothing under way the page does not spin: a failed run ends it as a result does
\* (run_report's finally).
SpinnerEnds == \A v \in Visitors : page[v].spinner => running[v] # <<>>

\* A page opens on the expenses (tests/unit/views/test_reports_sentence.py).
OpensOnExpenses ==
    \A v \in Visitors : page[v] = Defaults => TypesOf(v) = {"expense"}
=============================================================================
