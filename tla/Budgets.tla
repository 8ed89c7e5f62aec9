---------------------------------- MODULE Budgets ---------------------------------
(***************************************************************************)
(* Budgets and the yearly plan (services/budget_service.py,                *)
(* services/yearly_plan_service.py, services/annual_review_service.py, the *)
(* dialogs of views/budget_plan).                                          *)
(*                                                                         *)
(* A budget row is an amount, in cents, for a year, a category and a       *)
(* month; amounts are positive, which BudgetCreate enforces before a row   *)
(* is written.  Dialogs that fill several months and the copy from the     *)
(* month before commit row by row, while other tabs work; the yearly plan  *)
(* is saved in one transaction and its budgets written in the next.        *)
(***************************************************************************)
EXTENDS Integers, Sequences, FiniteSets, FiniteSetsExt, SequencesExt, Tables

CONSTANTS
    Tabs,
    Fillers,        \* bound: the tabs that use the dialogs filling twelve months
    BudgetYears,    \* consecutive numbers
    ExpenseCats,
    OtherCats,      \* categories of another type; a budget may name one
    PlanLines,      \* the payloads tried: sequences of [cat, amount], cat 0 for none
    Cents,          \* amounts tried in the dialogs
    Opening,        \* the budgets there may be to begin with
    EditMonths,     \* months the dialogs and the copy name
    MaxOps          \* bound: operations started

ASSUME BudgetsAssumption == 0 \notin ExpenseCats \cup OtherCats /\ MaxOps \in Nat

VARIABLES
    budget,     \* budgets: <<year, category, month>> -> amount
    yearly,     \* yearly_plans: year -> its lines, <<>> when there is no row
    spent,      \* the expense flows the reports count: <<year, category, month>> -> amount
    job,        \* per tab: the operation under way
    ops         \* operations started

budgetVars == <<budget, yearly, spent, job, ops>>

Months == 1 .. 12
BudgetCats == ExpenseCats \cup OtherCats
Idle == [kind |-> "idle"]
BudgetAt(b, y, c, m) == IF <<y, c, m>> \in DOMAIN b THEN b[<<y, c, m>>] ELSE 0
CellsOf(t, y) == {k \in DOMAIN t : k[1] = y}

BudgetTypeOK ==
    /\ DOMAIN budget \subseteq BudgetYears \X BudgetCats \X Months
    /\ \A k \in DOMAIN budget : budget[k] \in Nat \ {0}
    /\ DOMAIN spent \subseteq BudgetYears \X BudgetCats \X Months
    /\ DOMAIN yearly = BudgetYears
    /\ \A t \in Tabs : job[t].kind \in {"idle", "rows", "copy", "apply"}
    /\ ops \in 0 .. MaxOps

BudgetInit ==
    /\ budget \in Opening /\ spent = <<>>
    /\ yearly = [y \in BudgetYears |-> <<>>]
    /\ job = [t \in Tabs |-> Idle]
    /\ ops = 0

------------------------------------------------------------------------------
(* Rounding.  Halves go up, away from zero for the positive amounts here;  *)
(* Decimal.quantize without a mode sends them to the even neighbour.       *)

HalfUp(n, d) == (2 * n + d) \div (2 * d)

HalfEven(n, d) ==
    LET q == n \div d  r == 2 * (n % d)
    IN  IF r > d \/ (r = d /\ q % 2 = 1) THEN q + 1 ELSE q

SplitYearlyToMonths(amount) ==
    LET base == HalfUp(amount, 12)
        cents == amount - 12 * base
        size == IF cents < 0 THEN -cents ELSE cents
        step == IF cents > 0 THEN 1 ELSE -1
        \* The i-th cent, from 0, goes to month 12, 11, 10, 12, ...
        shares(m) == Cardinality({i \in 0 .. size - 1 : 12 - (i % 3) = m})
    IN  [m \in Months |-> IF amount <= 0 THEN 0 ELSE base + step * shares(m)]

PerMonthFromYearlyTotal(total) == HalfEven(total, 12)

SumOver(f(_), S) == MapThenSumSet(f, S)
SumLines(lines, f(_)) == FoldLeft(LAMBDA acc, line : acc + f(line), 0, lines)

\* A line without a category is not budgeted; a month's zero share adds no cell.
Derive(lines) ==
    LET share(line, c, m) == IF line.cat = c THEN SplitYearlyToMonths(line.amount)[m] ELSE 0
        total(c, m) == SumLines(lines, LAMBDA line : share(line, c, m))
        named == {k \in BudgetCats \X Months : \E i \in 1 .. Len(lines) : share(lines[i], k[1], k[2]) # 0}
    IN  [k \in named |-> total(k[1], k[2])]

Diff(b, y, lines) ==
    LET d == Derive(lines)
    IN  [added |-> {k \in DOMAIN d : <<y, k[1], k[2]>> \notin DOMAIN b},
         updated |-> {k \in DOMAIN d : <<y, k[1], k[2]>> \in DOMAIN b /\ b[<<y, k[1], k[2]>>] # d[k]}]

------------------------------------------------------------------------------
(* Operations.  A tab runs one at a time; an operation that names no row   *)
(* of its own takes one step.                                              *)

Start(t, j) == job[t] = Idle /\ ops < MaxOps /\ ops' = ops + 1 /\ job' = [job EXCEPT ![t] = j]
Rows(kind, todo) == IF todo = <<>> THEN Idle
                    ELSE [kind |-> kind, todo |-> todo, found |-> "?", before |-> budget]

\* The cell dialog: a positive amount is written, anything else deletes the row.
SaveCell(t, k, amount) ==
    /\ IF amount > 0 THEN Start(t, Rows("rows", <<[cell |-> k, amount |-> amount]>>)) /\ UNCHANGED budget
       ELSE Start(t, Idle) /\ budget' = Without(budget, {k})
    /\ UNCHANGED <<yearly, spent>>

AllMonths(y, c, amount) == [m \in Months |-> [cell |-> <<y, c, m>>, amount |-> amount]]

SaveMonthly(t, y, c, amount) ==
    /\ amount > 0
    /\ Start(t, Rows("rows", AllMonths(y, c, amount)))
    /\ UNCHANGED <<budget, yearly, spent>>

\* A total whose month rounds to nothing is refused by BudgetCreate before the first row.
SaveYearly(t, y, c, total) ==
    LET monthly == PerMonthFromYearlyTotal(total)
    IN  /\ total > 0
        /\ Start(t, IF monthly > 0 THEN Rows("rows", AllMonths(y, c, monthly)) ELSE Idle)
        /\ UNCHANGED <<budget, yearly, spent>>

DeleteAllForCategoryYear(t, y, c) ==
    /\ Start(t, Idle)
    /\ budget' = Without(budget, {k \in DOMAIN budget : k[1] = y /\ k[2] = c})
    /\ UNCHANGED <<yearly, spent>>

\* Moving a row to another month or year; the month it is moved to must be free
\* (uq_budget_category_period), else the commit fails.
UpdateRow(t, k, month, amount) ==
    LET to == <<k[1], k[2], month>>
    IN  /\ k \in DOMAIN budget /\ amount > 0
        /\ Start(t, Idle)
        /\ budget' = IF to = k \/ to \notin DOMAIN budget
                     THEN With(Without(budget, {k}), to, amount) ELSE budget
        /\ UNCHANGED <<yearly, spent>>

MonthBefore(y, m) == IF m = 1 THEN <<y - 1, 12>> ELSE <<y, m - 1>>

\* The rows a copy into a month writes: the month before, less the categories already set.
CopyRows(y, m) ==
    LET from == MonthBefore(y, m)
    IN  {[cell |-> <<y, c, m>>, amount |-> BudgetAt(budget, from[1], c, from[2])] :
            c \in {c \in BudgetCats : /\ <<from[1], c, from[2]>> \in DOMAIN budget
                                      /\ <<y, c, m>> \notin DOMAIN budget}}

CopyForward(t, y, m) ==
    /\ Start(t, Rows("copy", SetToSortSeq(CopyRows(y, m), LAMBDA a, b : a.cell[2] < b.cell[2])))
    /\ UNCHANGED <<budget, yearly, spent>>

\* upsert looks for the row, then writes: it changes the row it found, or inserts one.
Look(t) ==
    /\ job[t].kind \in {"rows", "copy"} /\ job[t].found = "?"
    /\ job' = [job EXCEPT ![t].found = IF Head(job[t].todo).cell \in DOMAIN budget THEN "row" ELSE "none"]
    /\ UNCHANGED <<budget, yearly, spent, ops>>

\* A row that came or went in between fails the write and ends the operation.
Write(t) ==
    LET j == job[t]  row == Head(j.todo)
        holds == (row.cell \in DOMAIN budget) = (j.found = "row")
    IN  /\ j.kind \in {"rows", "copy"} /\ j.found # "?"
        /\ budget' = IF holds THEN With(budget, row.cell, row.amount) ELSE budget
        /\ job' = [job EXCEPT ![t] = IF holds /\ Len(j.todo) > 1
                                      THEN [j EXCEPT !.todo = Tail(j.todo), !.found = "?"] ELSE Idle]
        /\ UNCHANGED <<yearly, spent, ops>>

------------------------------------------------------------------------------
(* The yearly plan.                                                        *)

\* Applying a payload saves the plan first.
SavePlan(t, y, lines) ==
    /\ Start(t, [kind |-> "apply", year |-> y, lines |-> lines])
    /\ yearly' = [yearly EXCEPT ![y] = lines]
    /\ UNCHANGED <<budget, spent>>

\* One statement: every cell inserted or, when it is there, its amount replaced.
BulkUpsert(y, cells) ==
    LET new == [k \in {<<y, c[1], c[2]>> : c \in DOMAIN cells} |-> cells[<<k[2], k[3]>>]]
    IN  [k \in DOMAIN new \cup DOMAIN budget |-> IF k \in DOMAIN new THEN new[k] ELSE budget[k]]

\* A cell that is not positive is refused before the statement, and nothing is written.
Accepted(cells) == \A k \in DOMAIN cells : cells[k] > 0

ApplyPlan(t) ==
    LET j == job[t]  cells == Derive(j.lines)
    IN  /\ j.kind = "apply"
        /\ budget' = IF Accepted(cells) THEN BulkUpsert(j.year, cells) ELSE budget
        /\ job' = [job EXCEPT ![t] = Idle]
        /\ UNCHANGED <<yearly, spent, ops>>

PlannedOf(y, c) == SumOver(LAMBDA m : BudgetAt(budget, y, c, m), Months)
DerivedOf(lines, c) ==
    LET d == Derive(lines) IN SumOver(LAMBDA k : d[k], {k \in DOMAIN d : k[1] = c})

\* What a category has on the grid beyond what this year's lines give it.
HandSet(y, c) == PlannedOf(y, c) - DerivedOf(yearly[y], c)

\* Next year's lines: this year's, moved by each category's per cent, and a line for what
\* was set by hand.  pct gives whole per cents from -100.
Carry(y, pct) ==
    LET moved(amount, c) == IF c = 0 THEN amount ELSE HalfUp(amount * (100 + pct[c]), 100)
        line(l) == [cat |-> l.cat, amount |-> moved(l.amount, l.cat)]
        byHand == {c \in ExpenseCats : HandSet(y, c) > 0}
        extra == {[cat |-> c, amount |-> moved(HandSet(y, c), c)] : c \in byHand}
    IN  [i \in 1 .. Len(yearly[y]) |-> line(yearly[y][i])]
        \o SetToSortSeq(extra, LAMBDA a, b : a.cat < b.cat)

\* The annual review applies the payload it carried over to the next year.
ApplyCarry(t, y, pct) == y + 1 \in BudgetYears /\ SavePlan(t, y + 1, Carry(y, pct))

\* An expense of a category is recorded; transfers and loan payments are not flows.
Spend(k, amount) ==
    /\ ops < MaxOps /\ ops' = ops + 1
    /\ spent' = With(spent, k, (IF k \in DOMAIN spent THEN spent[k] ELSE 0) + amount)
    /\ UNCHANGED <<budget, yearly, job>>

BudgetNext ==
    \/ \E t \in Tabs, y \in BudgetYears, c \in BudgetCats, m \in EditMonths, a \in Cents \cup {0} :
         SaveCell(t, <<y, c, m>>, a)
    \/ \E t \in Fillers, y \in BudgetYears, c \in BudgetCats, a \in Cents :
         SaveMonthly(t, y, c, a) \/ SaveYearly(t, y, c, a)
    \/ \E t \in Tabs, y \in BudgetYears, c \in BudgetCats : DeleteAllForCategoryYear(t, y, c)
    \/ \E t \in Tabs, k \in DOMAIN budget, m \in EditMonths, a \in Cents : UpdateRow(t, k, m, a)
    \/ \E t \in Tabs, y \in BudgetYears, m \in EditMonths : CopyForward(t, y, m)
    \/ \E t \in Tabs : Look(t) \/ Write(t) \/ ApplyPlan(t)
    \/ \E t \in Tabs, y \in BudgetYears, lines \in PlanLines : SavePlan(t, y, lines)
    \/ \E t \in Tabs, y \in BudgetYears, p \in {-100, 0, 10} : ApplyCarry(t, y, [c \in BudgetCats |-> p])
    \/ \E k \in BudgetYears \X BudgetCats \X EditMonths, a \in Cents : Spend(k, a)

BudgetSpec == BudgetInit /\ [][BudgetNext]_budgetVars

------------------------------------------------------------------------------
(* What the pages show.                                                    *)

SpentIn(y, c, M) == SumOver(LAMBDA m : BudgetAt(spent, y, c, m), M)

\* range_summary: the months are compared by year * 12 + month.
MonthKey(y, m) == y * 12 + m

InRange(k, from, to) ==
    MonthKey(from[1], from[2]) <= MonthKey(k[1], k[3]) /\ MonthKey(k[1], k[3]) <= MonthKey(to[1], to[2])

\* A category is listed when it is budgeted, or spent on and an expense category.
RangeSummary(from, to) ==
    LET planned == {k \in DOMAIN budget : InRange(k, from, to)}
        actual == {k \in DOMAIN spent : InRange(k, from, to)}
        listed == {k[2] : k \in planned} \cup ({k[2] : k \in actual} \cap ExpenseCats)
    IN  {[cat |-> c,
          planned |-> SumOver(LAMBDA k : budget[k], {k \in planned : k[2] = c}),
          actual |-> SumOver(LAMBDA k : spent[k], {k \in actual : k[2] = c})] : c \in listed}

\* realization_for_month: the month's rows by category.
RealizationForMonth(y, m) ==
    LET planned == {c \in BudgetCats : <<y, c, m>> \in DOMAIN budget}
        actual == {c \in BudgetCats : <<y, c, m>> \in DOMAIN spent}
    IN  {[cat |-> c, planned |-> BudgetAt(budget, y, c, m), actual |-> BudgetAt(spent, y, c, m)] :
            c \in planned \cup (actual \cap ExpenseCats)}

\* The annual plan grid: a row per expense category, a column per month.
PlanRow(y, c) == [planned |-> PlannedOf(y, c), actual |-> SpentIn(y, c, Months)]
MonthTotals(y) ==
    [m \in Months |-> [planned |-> SumOver(LAMBDA c : BudgetAt(budget, y, c, m), ExpenseCats),
                       actual |-> SumOver(LAMBDA c : BudgetAt(spent, y, c, m), ExpenseCats)]]
GrandTotal(y) == [planned |-> SumOver(LAMBDA m : MonthTotals(y)[m].planned, Months),
                  actual |-> SumOver(LAMBDA m : MonthTotals(y)[m].actual, Months)]

\* The annual review's summary: expense categories budgeted or spent on.
AnnualSummary(y) ==
    {[cat |-> c, planned |-> PlannedOf(y, c), actual |-> SpentIn(y, c, Months)] :
        c \in {c \in ExpenseCats : \E k \in CellsOf(budget, y) \cup CellsOf(spent, y) : k[2] = c}}

------------------------------------------------------------------------------
(* Properties.                                                             *)

AtRest == ops > 0 /\ \A t \in Tabs : job[t] = Idle

\* However a yearly amount falls over the months, they add up to it again, the first nine
\* months are equal, and the grid's own split (which rounds every month alike) is off by at
\* most six cents a year (_split_yearly_to_months, per_month_from_yearly_total).
YearlySplitExact ==
    (ops = 0 /\ budget = <<>>) =>
    \A amount \in 0 .. 30 :
        LET split == SplitYearlyToMonths(amount)
        IN  /\ SumOver(LAMBDA m : split[m], Months) = amount
            /\ \A m \in 1 .. 9 : split[m] = split[1]
            /\ 12 * PerMonthFromYearlyTotal(amount) - amount \in -6 .. 6

\* The pages agree on every figure: a month's realization is the month's summary, a year's
\* summary is, for the expense categories, the annual review's, and the plan grid's rows and
\* columns add up to the same totals (range_summary, realization_for_month,
\* build_year_plan_slice, AnnualReviewService.summary).
PagesAgree ==
    AtRest =>
    \A y \in BudgetYears :
        /\ \A m \in EditMonths : RealizationForMonth(y, m) = RangeSummary(<<y, m>>, <<y, m>>)
        /\ {r \in RangeSummary(<<y, 1>>, <<y, 12>>) : r.cat \in ExpenseCats} = AnnualSummary(y)
        /\ GrandTotal(y).planned = SumOver(LAMBDA c : PlanRow(y, c).planned, ExpenseCats)
        /\ \A r \in AnnualSummary(y) : PlanRow(y, r.cat) = [planned |-> r.planned, actual |-> r.actual]

\* Carrying a year over unchanged gives every category, whether its budget came from the
\* plan's lines or was set by hand, the larger of the two: nothing is counted twice and
\* nothing is lost (AnnualReviewService.carry).
CarryKeepsTheYear ==
    \A y \in {y \in BudgetYears : AtRest /\ (CellsOf(budget, y) # {} \/ yearly[y] # <<>>)} :
        LET next == Carry(y, [c \in BudgetCats |-> 0])
        IN  \A c \in ExpenseCats :
               DerivedOf(next, c) = LET p == PlannedOf(y, c)  d == DerivedOf(yearly[y], c)
                                    IN  IF p > d THEN p ELSE d

\* When a plan has been applied, showing its differences again shows none, and only the
\* cells of the year the plan names have changed (YearlyPlanService.apply and diff).
AppliedShowsNoDiff ==
    [][\A t \in Tabs : (job[t].kind = "apply" /\ job'[t] = Idle /\ budget' # budget) =>
          LET j == job[t]
          IN  /\ Diff(budget', j.year, j.lines) = [added |-> {}, updated |-> {}]
              /\ \A k \in DOMAIN budget' :
                    (k \notin DOMAIN budget \/ budget'[k] # budget[k]) =>
                        k[1] = j.year /\ <<k[2], k[3]>> \in DOMAIN Derive(j.lines)]_budgetVars

\* Copying the month before never changes an amount that was there when it began,
\* whatever other tabs write meanwhile (copy_forward without overwrite).
CopyKeepsWhatWasSet ==
    [][\A t \in Tabs : (job[t].kind = "copy" /\ job'[t] # job[t] /\ budget' # budget) =>
          Head(job[t].todo).cell \notin DOMAIN job[t].before]_budgetVars
===============================================================================
