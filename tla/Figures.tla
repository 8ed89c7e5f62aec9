---------------------------------- MODULE Figures ---------------------------------
(***************************************************************************)
(* The figures other pages show of one ledger: the statements and KPIs     *)
(* (services/report_service.py), the money-flow diagram                    *)
(* (services/money_flow_service.py), the net worth and its history         *)
(* (services/net_worth_service.py, services/account_service.py), and the   *)
(* money already spoken for (safe to spend,                                *)
(* services/wizard_projection_service.py).  Each is computed by a query of *)
(* its own with its own filters; what must hold is that they tell the same *)
(* story whatever was posted and deleted.  Figures that divide are left    *)
(* out.                                                                    *)
(***************************************************************************)
EXTENDS Integers, Sequences, FiniteSets, FiniteSetsExt, SequencesExt, Flows

CONSTANTS
    Bundles,        \* what is posted together: sets of transactions
    FigureCats,     \* categories but 0
    CatParent,      \* category -> its parent, 0 for none
    CatName,        \* category -> its name; siblings' names differ, cousins' may not
    MonthBudgets,   \* category -> the budget of the month
    FigureAccounts,
    Liabilities,    \* the credit accounts
    Rate,           \* account -> the current rate of its currency to the default one
    OpeningOf,      \* account -> opening balance
    Now,            \* the month of today
    HistoryMonths,
    FlowTops,       \* top_n of the diagram
    Charges,        \* what may fall due in the rest of the month: [date, amount]
    MaxCommitments, \* bound: planned occurrences and subscription charges, each
    RateDays,
    MaxRates        \* bound: currency rates recorded

\* What is posted is well formed: the parts of a split add up to it (schemas/transaction.py).
ASSUME FiguresAssumption ==
    /\ Now \in Int /\ FlowTops \subseteq Nat /\ IsFiniteSet(DOMAIN MonthBudgets)
    /\ FigureCats \subseteq Nat \ {0} /\ CatParent \in [FigureCats -> FigureCats \cup {0}]
    /\ \A b \in Bundles : IsFiniteSet(b)
    /\ \A t \in UNION Bundles :
          /\ t.amount \in Nat /\ t.month \in Int /\ t.category \in FigureCats \cup {0}
          /\ t.splits \in Seq([category : FigureCats \cup {0}, amount : Nat])
          /\ t.splits # <<>> => Amounts(PartsOf(t)) = t.amount

VARIABLES
    books,          \* the ledger: a set of transactions
    occurrences,    \* planned expense occurrences of the rest of the month, unposted
    charges,        \* subscription charges of the rest of the month
    rates           \* currency_rates of one currency: days, in order

figureVars == <<books, occurrences, charges, rates>>

IncomeOrExpense == {"income", "expense"}
From(start, end) == {t \in books : t.month >= start /\ t.month < end}
FlowsFrom(start, end) ==
    {r \in CategorisedFlows(books) :
        /\ r.at.month >= start /\ r.at.month < end
        /\ ~r.at.internal
        /\ r.tx \notin LoanLinked(books)
        /\ r.at.type \in IncomeOrExpense}

-----------------------------------------------------------------------------
(* Statements and KPIs.                                                    *)

\* Loan money is neither earned nor spent.
\* Mutant of MonthSummary: loan money is counted as income and spending.
MonthSummary_WithLoans(m) ==
    [type \in IncomeOrExpense |-> Amounts({t \in From(m, m + 1) : ~t.internal /\ t.type = type})]
MonthSummary(m) ==
    [type \in IncomeOrExpense |->
        Amounts({t \in From(m, m + 1) : ~t.internal /\ t.id \notin LoanLinked(books) /\ t.type = type})]
\* The bars of the last months: one query with no upper bound, grouped by month and type, from
\* which the months and types asked for are picked.
Cashflow(n) ==
    LET start == Now - n + 1
        counted == {t \in books : t.month >= start /\ ~t.internal /\ t.id \notin LoanLinked(books)}
        groups == {<<t.month, t.type>> : t \in counted}
        total == [g \in groups |-> Amounts({t \in counted : <<t.month, t.type>> = g})]
    IN [m \in start .. Now |->
          [type \in IncomeOrExpense |-> IF <<m, type>> \in groups THEN total[<<m, type>>] ELSE 0]]
LoanFlows(start, end) ==
    [type \in IncomeOrExpense |->
        Amounts({t \in From(start, end) : ~t.internal /\ t.id \in LoanLinked(books) /\ t.type = type})]

\* Summed by category, merged by name: two categories of one name report as one.
SumByCategory(start, end, type) ==
    LET rows == {r \in FlowsFrom(start, end) : r.at.type = type}
        NameOf(r) == IF r.category = 0 THEN "none" ELSE CatName[r.category]
    IN [name \in {NameOf(r) : r \in rows} |-> Amounts({r \in rows : NameOf(r) = name})]
IncomeStatement(m) == [type \in IncomeOrExpense |-> SumByCategory(m, m + 1, type)]

\* The budgets of the month by name; of two budgets of one name the last read is kept.
PlannedByName ==
    [name \in {CatName[k] : k \in DOMAIN MonthBudgets} |->
        MonthBudgets[Max({k \in DOMAIN MonthBudgets : CatName[k] = name})]]
BudgetVariance(m) ==
    LET actual == SumByCategory(m, m + 1, "expense")
    IN [name \in DOMAIN PlannedByName \cup DOMAIN actual |->
          [planned |-> IF name \in DOMAIN PlannedByName THEN PlannedByName[name] ELSE 0,
           actual |-> IF name \in DOMAIN actual THEN actual[name] ELSE 0]]

YoYComparison(year, type) ==
    [m \in 0 .. 11 |->
        [this |-> MonthSummary(12 * year + m)[type], last |-> MonthSummary(12 * (year - 1) + m)[type]]]

\* A charge with a planned occurrence of its date and amount is that occurrence.
CommittedRestOfMonth(planned, due) ==
    LET Occurs(charge) == Cardinality({i \in DOMAIN planned : planned[i] = charge})
        Step(acc, charge) ==
          IF acc.left[charge] > 0
          THEN [acc EXCEPT !.left[charge] = @ - 1]
          ELSE [acc EXCEPT !.sum = @ + charge.amount]
        start == [left |-> [charge \in Charges |-> Occurs(charge)],
                  sum |-> FoldLeft(LAMBDA s, o : s + o.amount, 0, planned)]
    IN FoldLeft(Step, start, due).sum

-----------------------------------------------------------------------------
(* The money-flow diagram: nodes are <<side, number>>.                     *)

OtherNode(side) == <<side, -1>>
LoanNode(side) == <<side, -2>>
Pool == <<"pool", 0>>
Surplus == <<"surplus", 0>>
Deficit == <<"deficit", 0>>
Account(a) == <<"acc", a>>
Parent(k) == IF k = 0 THEN 0 ELSE CatParent[k]

CategoryNode(k, type, depth) ==
    IF type = "income" THEN <<"in", IF Parent(k) # 0 THEN Parent(k) ELSE k>>
    ELSE <<"out", IF depth = 1 /\ Parent(k) # 0 THEN Parent(k) ELSE k>>
Buckets(rows, type, depth) ==
    LET mine == {r \in rows : r.at.type = type}
    IN [n \in {CategoryNode(r.category, type, depth) : r \in mine} |->
           Amounts({r \in mine : CategoryNode(r.category, type, depth) = n})]
\* Ties are broken by the order of the query.
KeptNodes(buckets, top) ==
    IF Cardinality(DOMAIN buckets) <= top THEN DOMAIN buckets
    ELSE CHOOSE S \in SUBSET DOMAIN buckets :
            Cardinality(S) = top /\ \A x \in S, y \in DOMAIN buckets \ S : buckets[x] >= buckets[y]
Fold(buckets, top, side) ==
    LET kept == KeptNodes(buckets, top)
        rest == SumOf([n \in DOMAIN buckets \ kept |-> buckets[n]])
    IN [n \in kept \cup (IF rest > 0 THEN {OtherNode(side)} ELSE {}) |->
           IF n \in kept THEN buckets[n] ELSE rest]

Link(from, to, amount, why) == [from |-> from, to |-> to, amount |-> amount, why |-> why]
MergeLinks(links) ==
    LET live == {l \in links : l.amount > 0}
    IN [e \in {<<l.from, l.to>> : l \in live} |->
           Amounts({l \in live : l.from = e[1] /\ l.to = e[2]})]
ParentOfNode(n) == IF n[2] > 0 /\ n[1] = "out" THEN CatParent[n[2]] ELSE 0

BuildBudget(start, end, top, depth) ==
    LET rows == FlowsFrom(start, end)
        loans == LoanFlows(start, end)
        income == Fold(Buckets(rows, "income", depth), top, "in")
        expense == Fold(Buckets(rows, "expense", depth), top, "out")
        net == SumOf(income) - SumOf(expense)
        pool == net + loans["income"] - loans["expense"]
        Nested(n) == depth = 2 /\ ParentOfNode(n) # 0
        Over(n) == <<"out", ParentOfNode(n)>>
    IN [links |-> MergeLinks(
            {Link(LoanNode("in"), Pool, loans["income"], 0), Link(Pool, LoanNode("out"), loans["expense"], 0),
             Link(Deficit, Pool, - pool, 0), Link(Pool, Surplus, pool, 0)}
            \cup {Link(n, Pool, income[n], n) : n \in DOMAIN income}
            \cup {Link(Pool, IF Nested(n) THEN Over(n) ELSE n, expense[n], n) : n \in DOMAIN expense}
            \cup {Link(Over(n), n, expense[n], n) : n \in {x \in DOMAIN expense : Nested(x)}}),
        in |-> SumOf(income), out |-> SumOf(expense)]

\* Paired legs, from the one that leaves; opposite directions are netted.
NetTransfers(start, end) ==
    LET legs == {t \in From(start, end) : t.internal /\ t.type = "transfer" /\ t.dir = "out" /\ t.link # 0}
        Other(t) == CHOOSE u \in books : u.id = t.link
        Sent(a, b) == Amounts({t \in legs : t.account = a /\ Other(t).account = b})
    IN {Link(Account(p[1]), Account(p[2]), Sent(p[1], p[2]) - Sent(p[2], p[1]), 0) :
            p \in {q \in FigureAccounts \X FigureAccounts : q[1] # q[2] /\ Sent(q[1], q[2]) > Sent(q[2], q[1])}}

BuildAccounts(start, end, top, depth) ==
    LET rows == FlowsFrom(start, end)
        inKept == DOMAIN Fold(Buckets(rows, "income", depth), top, "in")
        outKept == DOMAIN Fold(Buckets(rows, "expense", depth), top, "out")
        InNode(r) == LET n == CategoryNode(r.category, "income", depth)
                     IN IF n \in inKept THEN n ELSE OtherNode("in")
        OutNode(r) == LET n == CategoryNode(r.category, "expense", depth)
                      IN IF n \in outKept THEN n ELSE OtherNode("out")
        Nested(r) == depth = 2 /\ ParentOfNode(OutNode(r)) # 0
        Over(r) == <<"out", ParentOfNode(OutNode(r))>>
        earned == {r \in rows : r.at.type = "income"}
        spent == {r \in rows : r.at.type = "expense"}
        lent == {t \in From(start, end) : ~t.internal /\ t.id \in LoanLinked(books) /\ t.type \in IncomeOrExpense}
    IN [links |-> MergeLinks(
            {Link(InNode(r), Account(r.at.account), r.amount, <<r.tx, r.part>>) : r \in earned}
            \cup {Link(Account(r.at.account), IF Nested(r) THEN Over(r) ELSE OutNode(r), r.amount,
                       <<r.tx, r.part>>) : r \in spent}
            \cup {Link(Over(r), OutNode(r), r.amount, <<r.tx, r.part>>) : r \in {x \in spent : Nested(x)}}
            \cup {IF t.type = "income" THEN Link(LoanNode("in"), Account(t.account), t.amount, <<t.id, 0>>)
                  ELSE Link(Account(t.account), LoanNode("out"), t.amount, <<t.id, 0>>) : t \in lent}
            \cup NetTransfers(start, end)),
        in |-> Amounts(earned), out |-> Amounts(spent)]

InTo(links, n) == SumOf([e \in {x \in DOMAIN links : x[2] = n} |-> links[e]])
OutOf(links, n) == SumOf([e \in {x \in DOMAIN links : x[1] = n} |-> links[e]])

-----------------------------------------------------------------------------
(* Balances, net worth and its history.                                    *)

SignedLedgerAmount(t) ==
    IF t.type = "income" \/ (t.type = "transfer" /\ t.dir = "in") THEN t.amount ELSE - t.amount
LedgerSum(rows) == SumOf([t \in rows |-> SignedLedgerAmount(t)])
\* Every row counts, whatever its date, unless the ledger is cut off.
Balances == [a \in FigureAccounts |-> OpeningOf[a] + LedgerSum({t \in books : t.account = a})]
BalancesAsOf(m) ==
    [a \in FigureAccounts |-> OpeningOf[a] + LedgerSum({t \in books : t.account = a /\ t.month <= m})]

\* Assets less liabilities, a liability being what a credit account is below zero.
Worth(balance) ==
    LET assets == SumOf([a \in FigureAccounts \ Liabilities |-> balance[a]])
        owed == SumOf([a \in FigureAccounts \cap Liabilities |-> - balance[a]])
    IN assets - owed
ApplyRates(balance) == [a \in FigureAccounts |-> balance[a] * Rate[a]]
\* The current balances, converted, walked back by each month's rows, which are not.
MonthlyHistory ==
    [m \in (Now - HistoryMonths + 1) .. Now |->
        Worth([a \in FigureAccounts |->
            ApplyRates(Balances)[a] - LedgerSum({t \in books : t.account = a /\ t.month \in (m + 1) .. Now})])]

\* The binary search for the last rate on or before a day: its position, 0 for none.
NearestRate(days, on) ==
    LET search[lo \in 1 .. Len(days) + 1, hi \in 0 .. Len(days), best \in 0 .. Len(days)] ==
          IF lo > hi THEN best
          ELSE LET mid == (lo + hi) \div 2
               IN IF days[mid] <= on THEN search[mid + 1, hi, mid] ELSE search[lo, mid - 1, best]
    IN search[1, Len(days), 0]

-----------------------------------------------------------------------------
(* What happens to the data.                                               *)

Post ==
    /\ \E b \in Bundles : b \cap books = {} /\ books' = books \cup b
    /\ UNCHANGED <<occurrences, charges, rates>>
Delete ==
    /\ \E b \in Bundles : b # {} /\ b \subseteq books /\ books' = books \ b
    /\ UNCHANGED <<occurrences, charges, rates>>
PlanOccurrence ==
    /\ Len(occurrences) < MaxCommitments
    /\ books = {} /\ rates = <<>>
    /\ \E c \in Charges : occurrences' = Append(occurrences, c)
    /\ UNCHANGED <<books, charges, rates>>
ChargeDue ==
    /\ Len(charges) < MaxCommitments
    /\ books = {} /\ rates = <<>>
    /\ \E c \in Charges : charges' = Append(charges, c)
    /\ UNCHANGED <<books, occurrences, rates>>
RecordRate ==
    /\ Len(rates) < MaxRates
    /\ books = {} /\ occurrences = <<>> /\ charges = <<>>
    /\ \E d \in RateDays : /\ \A i \in DOMAIN rates : rates[i] < d
                           /\ rates' = Append(rates, d)
    /\ UNCHANGED <<books, occurrences, charges>>

FiguresInit == books = {} /\ occurrences = <<>> /\ charges = <<>> /\ rates = <<>>
FiguresNext ==
    \/ (occurrences = <<>> /\ charges = <<>> /\ rates = <<>> /\ Post)
    \/ Delete \/ PlanOccurrence \/ ChargeDue \/ RecordRate
FiguresSpec == FiguresInit /\ [][FiguresNext]_figureVars

-----------------------------------------------------------------------------
(* Properties.                                                             *)

FiguresTypeOK ==
    /\ books \subseteq UNION Bundles
    /\ occurrences \in Seq(Charges) /\ charges \in Seq(Charges) /\ rates \in Seq(RateDays)

Periods == {<<Now, Now + 1>>, <<Now - 1, Now + 1>>}

\* The diagram loses no money: what reaches the budget leaves it, whatever is folded into
\* "Other" and however the categories nest, and a parent passes on no more than it gets
\* (_build_budget, _fold).
DiagramBalances ==
    books # {} =>
    \A p \in Periods, top \in FlowTops, depth \in {1, 2} :
        LET flow == BuildBudget(p[1], p[2], top, depth)
        IN /\ InTo(flow.links, Pool) = OutOf(flow.links, Pool)
           /\ \A e \in DOMAIN flow.links :
                 e[2][1] = "out" => OutOf(flow.links, e[2]) <= InTo(flow.links, e[2])

\* One month, one figure: the statement by category, the month's summary, the cash-flow chart,
\* both diagrams and the budget report agree on what was earned and spent, splits, loans and
\* transfers included (report_service.py, money_flow_service.py).
FiguresAgree ==
    books # {} =>
    \A top \in FlowTops :
        LET summary == MonthSummary(Now)
            statement == IncomeStatement(Now)
            pool == BuildBudget(Now, Now + 1, top, 1)
            accounts == BuildAccounts(Now, Now + 1, top, 2)
        IN /\ SumOf(statement["income"]) = summary["income"]
           /\ SumOf(statement["expense"]) = summary["expense"]
           /\ \A m \in DOMAIN Cashflow(2) : Cashflow(2)[m] = MonthSummary(m)
           /\ pool.in = summary["income"] /\ pool.out = summary["expense"]
           /\ accounts.in = summary["income"] /\ accounts.out = summary["expense"]
           /\ SumOf([n \in DOMAIN BudgetVariance(Now) |-> BudgetVariance(Now)[n].actual])
                = summary["expense"]

\* By account, what flows in less what flows out is what the period did to the account's
\* balance: no leg of a transfer is drawn backwards or twice (_build_accounts, _net_transfers).
AccountsKeepTheirMoney ==
    books # {} =>
    \A p \in Periods, top \in FlowTops, depth \in {1, 2} :
        LET links == BuildAccounts(p[1], p[2], top, depth).links
        IN \A a \in FigureAccounts :
              InTo(links, Account(a)) - OutOf(links, Account(a))
                = BalancesAsOf(p[2] - 1)[a] - BalancesAsOf(p[1] - 1)[a]

\* What is spoken for counts every charge once: of the occurrences and the charges of one date
\* and amount, the larger number (_committed_rest_of_month).
SpokenForOnce ==
    CommittedRestOfMonth(occurrences, charges)
      = MapThenSumSet(LAMBDA c : c.amount
            * Max({Cardinality({i \in DOMAIN occurrences : occurrences[i] = c}),
                   Cardinality({i \in DOMAIN charges : charges[i] = c})}), Charges)

\* Accounts in the default currency and no row after this month: every month of the history is
\* what the ledger up to that month says (_monthly_history).
HistoryIsTheLedgers ==
    (books # {} /\ \A t \in books : t.month <= Now /\ Rate[t.account] = 1) =>
        \A m \in DOMAIN MonthlyHistory :
            MonthlyHistory[m] = Worth(ApplyRates(BalancesAsOf(m)))

\* The rate used is the latest on or before the day (_nearest_rate).
LatestRateUsed ==
    \A on \in RateDays :
        LET i == NearestRate(rates, on)
        IN IF i = 0 THEN \A j \in DOMAIN rates : rates[j] > on
           ELSE rates[i] <= on /\ \A j \in i + 1 .. Len(rates) : rates[j] > on

\* "every historical month is consistent with the current balance"
\* (services/net_worth_service.py).
HistoryRollsBack ==
    \A m \in DOMAIN MonthlyHistory : MonthlyHistory[m] = Worth(ApplyRates(BalancesAsOf(m)))

-----------------------------------------------------------------------------
(***************************************************************************)
(* The salary an irregular income supports (services/salary_service.py):   *)
(* the complete months of a window, from the first that earned anything,   *)
(* reduced to a statistic, and the buffer the months would have left.      *)
(* Months are numbers; amounts are in quarters of a cent, so that the      *)
(* quartiles are whole.                                                    *)
(***************************************************************************)
CONSTANTS
    SalaryMonths,       \* the window, numbers; the last is last month
    Takings,            \* what a month may earn
    Overrides,          \* salaries a reader may type; -1 for none
    MinHistoryMonths

VARIABLES
    earned,     \* month -> income; NoHistory when no row is there
    proposal    \* the proposal on the page

salaryVars == <<earned, proposal>>
NoHistory == -1
ThisMonth == Max(SalaryMonths) + 1

\* A dry month after the first earning one is a zero; the running month is left out.
IncomeByMonth ==
    LET earning == {m \in SalaryMonths : earned[m] # NoHistory}
        first == Min(earning)
    IN IF earning = {} THEN <<>>
       ELSE [i \in 1 .. Max(SalaryMonths) - first + 1 |->
                IF earned[first + i - 1] = NoHistory THEN 0 ELSE earned[first + i - 1]]
\* Between two neighbours of the sorted sample; quarters is 1 or 2.
Percentile(values, quarters) ==
    LET sorted == SortSeq(values, <)
        at == quarters * (Len(values) - 1)
        low == at \div 4
        high == Min({low + 1, Len(values) - 1})
    IN IF values = <<>> THEN 0
       ELSE sorted[low + 1] + ((sorted[high + 1] - sorted[low + 1]) * (at % 4)) \div 4
Worst(values) == IF values = <<>> THEN 0 ELSE Min(Range(values))
Best(values) == IF values = <<>> THEN 0 ELSE Max(Range(values))
ProjectBuffer(values, salary) ==
    [i \in DOMAIN values |-> FoldLeft(LAMBDA sum, v : sum + v - salary, 0, SubSeq(values, 1, i))]

Enough(values) == Len(values) >= MinHistoryMonths
SalaryOf(values, basis, override) ==
    CASE override # NoHistory -> override
      [] override = NoHistory /\ Enough(values) ->
            (CASE basis = "worst" -> Worst(values)
               [] basis = "p25" -> Percentile(values, 1)
               [] basis = "median" -> Percentile(values, 2))
      [] OTHER -> 0
Propose(basis, override) ==
    LET values == IncomeByMonth
        salary == SalaryOf(values, basis, override)
    IN /\ proposal' = [months |-> values, basis |-> basis, override |-> override, salary |-> salary,
                       buffer |-> IF override # NoHistory \/ Enough(values) THEN ProjectBuffer(values, salary)
                                  ELSE <<>>,
                       over |-> [m \in SalaryMonths |-> earned[m]]]
       /\ UNCHANGED earned
\* Income of a month that is not a transfer nor a loan.
Earn(m, amount) ==
    /\ earned[m] = NoHistory
    /\ earned' = [earned EXCEPT ![m] = amount]
    /\ UNCHANGED proposal

SalaryInit ==
    /\ earned = [m \in SalaryMonths \cup {ThisMonth} |-> NoHistory]
    /\ proposal = <<>>
SalaryNext ==
    \/ \E m \in SalaryMonths \cup {ThisMonth}, x \in Takings : Earn(m, x)
    \/ \E basis \in {"worst", "p25", "median"}, override \in Overrides \cup {NoHistory} :
          Propose(basis, override)
SalarySpec == SalaryInit /\ [][SalaryNext]_salaryVars

-----------------------------------------------------------------------------
(* Properties.                                                             *)

Proposed == proposal # <<>>
SalaryTypeOK ==
    /\ earned \in [SalaryMonths \cup {ThisMonth} -> Takings \cup {NoHistory}]
    /\ Proposed => Len(proposal.buffer) \in {0, Len(proposal.months)}

\* The salary of the worst month is safe: paid every month of the window from the first
\* earning one, dry months included, it never overdraws the buffer, and no statistic asks
\* for more than the better half earns (income_by_month, propose, _project_buffer).
WorstIsSafe ==
    Proposed /\ proposal.override = NoHistory /\ proposal.buffer # <<>> =>
        LET paid == {m \in SalaryMonths : \E k \in SalaryMonths : k <= m /\ proposal.over[k] # NoHistory}
            In(k) == IF proposal.over[k] = NoHistory THEN 0 ELSE proposal.over[k]
            Buffer(m) == MapThenSumSet(LAMBDA k : In(k) - proposal.salary, {k \in paid : k <= m})
        IN /\ proposal.basis = "worst" => \A m \in paid : Buffer(m) >= 0
           /\ Last(proposal.buffer) = Buffer(Max(SalaryMonths))
           /\ 2 * Cardinality({m \in paid : In(m) >= proposal.salary}) >= Cardinality(paid)
=============================================================================
