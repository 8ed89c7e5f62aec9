-------------------------------- MODULE MCFigures --------------------------------
(***************************************************************************)
(* What the ledger is turned into, on small instances, one component at a  *)
(* time as `part` says: budgets, the report builder, the figures of the    *)
(* reports and of the net worth, the forecast with its scenarios, the      *)
(* exchange rates, the salary proposal, and what fills the ledger: the     *)
(* statement parsers, the pairing of transfers and the import queue.       *)
(***************************************************************************)
EXTENDS Budgets, ReportBuilder, Figures, Projection, Rates, Statements, ImportQueue, TLC

VARIABLE part

\* Budgets: a plan of one line, one whose lines share a category, and one without.
McLines == {<<[cat |-> 1, amount |-> 7]>>, <<[cat |-> 1, amount |-> 25], [cat |-> 1, amount |-> 12]>>,
            <<[cat |-> 0, amount |-> 30], [cat |-> 2, amount |-> 30]>>}
McOpening == {<<>>, (<<1, 1, 12>> :> 4), (<<1, 1, 12>> :> 4) @@ (<<1, 2, 12>> :> 4)}

Tx(i, k, a, m, x, ty, s) ==
    [id |-> i, category |-> k, account |-> a, institution |-> a, month |-> m, amount |-> x, type |-> ty,
     splits |-> s, internal |-> FALSE, loan |-> FALSE, dir |-> "none", link |-> 0]
Transfer(i, a, b, m, x) ==
    {[Tx(i, 0, a, m, x, "transfer", <<>>) EXCEPT !.internal = TRUE, !.dir = "out", !.link = i + 1],
     [Tx(i + 1, 0, b, m, x, "transfer", <<>>) EXCEPT !.internal = TRUE, !.dir = "in", !.link = i]}
Part(k, x) == [category |-> k, amount |-> x]

\* Reports: a ledger with a split, an income and a transfer's leg over three months.
McLedgers ==
    {{Tx(1, 1, 1, 24, 5, "expense", <<>>), Tx(2, 2, 1, 26, 3, "expense", <<>>),
      Tx(3, 0, 2, 26, 7, "expense", <<Part(1, 3), Part(3, 4)>>), Tx(4, 4, 2, 22, 9, "income", <<>>),
      [Tx(5, 4, 2, 24, 9, "expense", <<>>) EXCEPT !.internal = TRUE]}}

\* Figures: what is posted and deleted in any order, two transfers and a loan included.
McBundles ==
    {{Tx(1, 1, 1, 26, 5, "expense", <<>>)}, {Tx(2, 2, 1, 26, 3, "expense", <<>>)},
     {Tx(3, 0, 2, 26, 7, "expense", <<Part(3, 3), Part(2, 4)>>)},
     {Tx(4, 4, 2, 25, 9, "income", <<>>)}, {Tx(5, 0, 1, 26, 20, "income", <<>>)},
     {[Tx(6, 0, 1, 26, 6, "expense", <<>>) EXCEPT !.loan = TRUE]},
     Transfer(7, 1, 2, 26, 8), Transfer(9, 2, 1, 26, 11), {Tx(11, 1, 3, 27, 2, "expense", <<>>)}}
McParent == (1 :> 0) @@ (2 :> 1) @@ (3 :> 5) @@ (4 :> 0) @@ (5 :> 0)
McName == (1 :> "home") @@ (2 :> "rent") @@ (3 :> "rent") @@ (4 :> "pay") @@ (5 :> "car")
McBudgets == (1 :> 10) @@ (2 :> 4)
McRate == (1 :> 1) @@ (2 :> 1) @@ (3 :> 4)
McOpen == (1 :> 100) @@ (2 :> 0) @@ (3 :> -5)
McCharges == {[date |-> 1, amount |-> 2], [date |-> 1, amount |-> 5], [date |-> 2, amount |-> 2]}

\* Forecasts
Mv(d, a, c) == [day |-> d, amount |-> a, counted |-> c]
\* A row may be dated ahead, on the day of a plan or after it.
McMoves == {Mv(1, 100, TRUE), Mv(2, -30, TRUE), Mv(4, -20, TRUE)}
McPlans == {[day |-> 3, amount |-> -11], [day |-> 4, amount |-> 13]}
Delta(k, s, a, e) == [kind |-> k, start |-> s, amount |-> a, every |-> e]
McWhatifs ==
    {Delta("one_off", 1, -40, 0), Delta("one_off", 3, 25, 0), Delta("recurring", 2, -6, 1),
     Delta("recurring", 9, -6, 1), Delta("income", 1, -50, 0)}

McFractions == {<<4, 1>>, <<9, 2>>}

\* Nothing to report on.
NoReports ==
    /\ recorded = {} /\ shared = {"expense"} /\ stored = <<>> /\ edits = 0
    /\ page = [v \in Visitors |-> Defaults] /\ running = [v \in Visitors |-> <<>>]

\* Imports: a file with a row twice in it, and another bank's with its account's number.
McFiles == [a |-> [rows |-> <<1, 1>>, profile |-> "generic", number |-> 0],
            b |-> [rows |-> <<1>>, profile |-> "mbank", number |-> 7]]
McRules == [a |-> 1, b |-> 0]

\* One statement file that is not looked at, and one row with rules nobody uses.
NoStatement == sheet = <<>> /\ lines = <<>> /\ columns = [amount |-> TRUE, split |-> FALSE, negative |-> TRUE]
NoPairing ==
    /\ booked = [r \in PairRows |-> [acct |-> 1, amount |-> 1, type |-> "expense", day |-> 1, mate |-> 0]]
    /\ dismissed = {}
    /\ patterns = <<[fixed |-> 0, used |-> "never", active |-> FALSE, matches |-> FALSE]>>

McInit ==
    /\ part \in {"budgets", "reports", "figures", "forecast", "rates", "salary", "statements", "matching", "queue"}
    /\ BudgetInit /\ (part # "budgets" => Cardinality(DOMAIN budget) = 1)
    /\ IF part = "reports" THEN ReportInit ELSE NoReports
    /\ FiguresInit /\ ProjectionInit /\ RatesInit /\ SalaryInit
    /\ IF part = "statements" THEN StatementInit ELSE NoStatement
    /\ IF part = "matching" THEN MatchingInit ELSE NoPairing
    /\ ImportInit

Others(moving) ==
    /\ part = moving /\ part' = part
    /\ moving # "budgets" => UNCHANGED budgetVars
    /\ moving # "reports" => UNCHANGED reportVars
    /\ moving # "figures" => UNCHANGED figureVars
    /\ moving # "forecast" => UNCHANGED projectionVars
    /\ moving # "rates" => UNCHANGED rateVars
    /\ moving # "salary" => UNCHANGED salaryVars
    /\ moving # "matching" => UNCHANGED matchingVars
    /\ moving # "queue" => UNCHANGED importVars
    /\ UNCHANGED statementVars

\* A parser has no state of its own: its files are the initial states.
McNext ==
    \/ Others("budgets") /\ BudgetNext
    \/ Others("reports") /\ ReportNext
    \/ Others("figures") /\ FiguresNext
    \/ Others("forecast") /\ ProjectionNext
    \/ Others("rates") /\ RatesNext
    \/ Others("salary") /\ SalaryNext
    \/ Others("matching") /\ MatchingNext
    \/ Others("queue") /\ ImportNext

mcVars == <<part, budgetVars, reportVars, figureVars, projectionVars, rateVars, salaryVars,
            statementVars, matchingVars, importVars>>
McSpec == McInit /\ [][McNext]_mcVars

TypeOK ==
    /\ BudgetTypeOK /\ ReportTypeOK /\ FiguresTypeOK /\ ProjectionTypeOK /\ RatesTypeOK /\ SalaryTypeOK
    /\ MatchingTypeOK /\ ImportTypeOK
=============================================================================
