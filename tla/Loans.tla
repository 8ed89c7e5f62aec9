----------------------------------- MODULE Loans ----------------------------------
(***************************************************************************)
(* Loans between people and bank credit                                    *)
(* (services/personal_loan_service.py, services/loan_links.py,             *)
(* services/credit_service.py).                                            *)
(*                                                                         *)
(* A personal loan keeps its principal, its status and the transaction     *)
(* that moved the principal; a repayment may be linked to a transaction    *)
(* too, found in the ledger or written with it.  Each request reads what   *)
(* it needs, checks, and commits; requests of two tabs overlap.  A card's  *)
(* or a bank loan's figures are functions of its profile.                  *)
(***************************************************************************)
EXTENDS Integers, Sequences, FiniteSets, FiniteSetsExt, SequencesExt, TLC, Tables

CONSTANTS
    Clerks,         \* requests that may be under way at once
    LoanIds,
    LedgerRows,     \* transactions a link may name
    Principals,
    MaxRepayments,  \* bound: repayments ever recorded
    MaxRequests     \* bound: requests

ASSUME LoansAssumption == MaxRepayments \in Nat /\ MaxRequests \in Nat

VARIABLES
    loan,       \* personal_loans: id -> [principal, settled, stamped, link]
    repayment,  \* personal_loan_repayments: id -> [loan, amount, link]
    clerk,      \* per request: what it is about to commit, and what it read
    requests,   \* requests so far
    crossed,    \* a request checked a link or read a loan while another was under way
    edited      \* loans whose principal or status was edited since their last repayment

loanVars == <<loan, repayment, clerk, requests, crossed, edited>>

NoLink == 0
Absent == [does |-> "nothing"]

PersonalLoanTypeOK ==
    /\ \A l \in DOMAIN loan : loan[l].principal \in Principals /\ loan[l].link \in LedgerRows \cup {NoLink}
    /\ \A r \in DOMAIN repayment : repayment[r].loan \in DOMAIN loan /\ repayment[r].amount > 0
    /\ requests \in 0 .. MaxRequests

LoanInit ==
    /\ loan = <<>> /\ repayment = <<>>
    /\ clerk = [c \in Clerks |-> Absent]
    /\ requests = 0 /\ crossed = FALSE /\ edited = {}

RepaymentsOf(l) == {r \in DOMAIN repayment : repayment[r].loan = l}
Repaid(l) == MapThenSumSet(LAMBDA r : repayment[r].amount, RepaymentsOf(l))
ComputeRemaining(principal, repaid) == principal - repaid

LoanLinkedTransactionIds ==
    ({loan[l].link : l \in DOMAIN loan} \cup {repayment[r].link : r \in DOMAIN repayment}) \ {NoLink}

\* Mutant of CheckLinkable: only the principals are looked at.
CheckLinkable_PrincipalsOnly(tx) == tx \notin {loan[l].link : l \in DOMAIN loan} \ {NoLink}

\* A transaction already linked to a loan or a repayment is refused.
CheckLinkable(tx) == tx \notin LoanLinkedTransactionIds

Call(c, what) ==
    /\ clerk[c] = Absent /\ requests < MaxRequests
    /\ clerk' = [clerk EXCEPT ![c] = what]
    /\ requests' = requests + 1
    /\ crossed' = (crossed \/ \E o \in Clerks : clerk[o] # Absent)
    /\ UNCHANGED <<loan, repayment, edited>>

\* The checks before the write; the repayments are read with the loan.
CreateLoan(c, l, principal, tx) ==
    /\ l \notin DOMAIN loan /\ (tx # NoLink => CheckLinkable(tx))
    /\ Call(c, [does |-> "create", loan |-> l, principal |-> principal, link |-> tx])

UpdateLoan(c, l, principal, tx) ==
    /\ l \in DOMAIN loan /\ (tx \notin {NoLink, loan[l].link} => CheckLinkable(tx))
    /\ Call(c, [does |-> "update", loan |-> l, principal |-> principal, link |-> tx])

\* The status can be set from the page too.
SetStatus(c, l, settled) ==
    /\ l \in DOMAIN loan
    /\ Call(c, [does |-> "status", loan |-> l, settled |-> settled])

RecordRepayment(c, l, amount, tx) ==
    /\ l \in DOMAIN loan /\ Cardinality(DOMAIN repayment) < MaxRepayments
    /\ tx # NoLink => CheckLinkable(tx)
    /\ Call(c, [does |-> "repay", loan |-> l, amount |-> amount, link |-> tx, repaid |-> Repaid(l),
                was |-> loan[l]])

DeleteRepayment(c, r) == r \in DOMAIN repayment /\ Call(c, [does |-> "undo", loan |-> repayment[r].loan, row |-> r])
DeleteLoan(c, l) == l \in DOMAIN loan /\ Call(c, [does |-> "delete", loan |-> l])

\* The unique constraint of each table refuses a link the other request has taken meanwhile.
TakenByALoan(tx, l) == tx # NoLink /\ \E o \in DOMAIN loan \ {l} : loan[o].link = tx
TakenByARepayment(tx) == tx # NoLink /\ \E r \in DOMAIN repayment : repayment[r].link = tx

Leave(c) == clerk' = [clerk EXCEPT ![c] = Absent]

CommitLoan(c) ==
    LET p == clerk[c]
    IN  /\ p.does \in {"create", "update"} /\ Leave(c) /\ UNCHANGED <<repayment, requests, crossed>>
        /\ IF TakenByALoan(p.link, p.loan) \/ (p.does = "create" /\ p.loan \in DOMAIN loan)
                \/ (p.does = "update" /\ p.loan \notin DOMAIN loan)
           THEN UNCHANGED <<loan, edited>>
           ELSE /\ loan' = With(loan, p.loan,
                     IF p.does = "create"
                     THEN [principal |-> p.principal, settled |-> FALSE, stamped |-> FALSE, link |-> p.link]
                     ELSE [loan[p.loan] EXCEPT !.principal = p.principal, !.link = p.link])
                /\ edited' = IF p.does = "update" THEN edited \cup {p.loan} ELSE edited \ {p.loan}

CommitStatus(c) ==
    LET p == clerk[c]
    IN  /\ p.does = "status" /\ Leave(c) /\ UNCHANGED <<repayment, requests, crossed>>
        /\ IF p.loan \in DOMAIN loan
           THEN loan' = [loan EXCEPT ![p.loan].settled = p.settled] /\ edited' = edited \cup {p.loan}
           ELSE UNCHANGED <<loan, edited>>

Settles(principal, repaid, amount) == ComputeRemaining(principal, repaid + amount) <= 0

\* The repayment, its mirrored or found transaction and the status are one commit; the
\* columns of the loan are written when they differ from what was read.
CommitRepayment(c) ==
    LET p == clerk[c]
        settled == Settles(p.was.principal, p.repaid, p.amount)
        new == Cardinality(DOMAIN repayment) + 1
    IN  /\ p.does = "repay" /\ Leave(c) /\ UNCHANGED <<requests, crossed>>
        /\ IF p.loan \notin DOMAIN loan \/ TakenByARepayment(p.link)
           THEN UNCHANGED <<loan, repayment, edited>>
           ELSE /\ repayment' = With(repayment, CHOOSE i \in 1 .. new : i \notin DOMAIN repayment,
                                     [loan |-> p.loan, amount |-> p.amount, link |-> p.link])
                /\ loan' = [loan EXCEPT ![p.loan].settled = IF settled = p.was.settled THEN @ ELSE settled,
                                        ![p.loan].stamped = settled \/ (@ /\ ~p.was.stamped)]
                /\ edited' = edited \ {p.loan}

\* Deleting commits first; the status is worked out again in a second transaction.
CommitUndo(c) ==
    LET p == clerk[c]
    IN  /\ p.does = "undo"
        /\ repayment' = Without(repayment, {p.row})
        /\ clerk' = [clerk EXCEPT ![c] = IF p.row \in DOMAIN repayment
                                         THEN [does |-> "recount", loan |-> p.loan] ELSE Absent]
        /\ UNCHANGED <<loan, requests, crossed, edited>>

Recount(c) ==
    LET p == clerk[c]
        settled == RepaymentsOf(p.loan) # {} /\ ComputeRemaining(loan[p.loan].principal, Repaid(p.loan)) <= 0
    IN  /\ p.does = "recount" /\ Leave(c) /\ UNCHANGED <<repayment, requests, crossed>>
        /\ IF p.loan \in DOMAIN loan
           THEN /\ loan' = [loan EXCEPT ![p.loan].settled = settled, ![p.loan].stamped = @ /\ settled]
                /\ edited' = edited \ {p.loan}
           ELSE UNCHANGED <<loan, edited>>

\* The repayments go with the loan; the transactions stay.
CommitDelete(c) ==
    LET p == clerk[c]
    IN  /\ p.does = "delete" /\ Leave(c) /\ UNCHANGED <<requests, crossed>>
        /\ loan' = Without(loan, {p.loan})
        /\ repayment' = Without(repayment, RepaymentsOf(p.loan))
        /\ edited' = edited \ {p.loan}

\* Deleting a ledger row clears the links to it.
DeleteLedgerRow(tx) ==
    /\ tx \in LoanLinkedTransactionIds /\ requests < MaxRequests /\ requests' = requests + 1
    /\ loan' = [l \in DOMAIN loan |-> IF loan[l].link = tx THEN [loan[l] EXCEPT !.link = NoLink] ELSE loan[l]]
    /\ repayment' = [r \in DOMAIN repayment |->
          IF repayment[r].link = tx THEN [repayment[r] EXCEPT !.link = NoLink] ELSE repayment[r]]
    /\ UNCHANGED <<clerk, crossed, edited>>

LoanNext ==
    \/ \E c \in Clerks, l \in LoanIds, p \in Principals, tx \in LedgerRows \cup {NoLink} :
         CreateLoan(c, l, p, tx) \/ UpdateLoan(c, l, p, tx) \/ RecordRepayment(c, l, 1, tx)
    \/ \E c \in Clerks, l \in LoanIds : DeleteLoan(c, l) \/ \E s \in BOOLEAN : SetStatus(c, l, s)
    \/ \E c \in Clerks, r \in DOMAIN repayment : DeleteRepayment(c, r)
    \/ \E c \in Clerks : CommitLoan(c) \/ CommitStatus(c) \/ CommitRepayment(c) \/ CommitUndo(c)
                         \/ Recount(c) \/ CommitDelete(c)
    \/ \E tx \in LedgerRows : DeleteLedgerRow(tx)

LoanSpec == LoanInit /\ [][LoanNext]_loanVars

\* What the page adds up: what is left of the loans that are not settled.
TotalOwed ==
    MapThenSumSet(LAMBDA l : LET left == ComputeRemaining(loan[l].principal, Repaid(l))
                             IN  IF loan[l].settled \/ left <= 0 THEN 0 ELSE left, DOMAIN loan)

------------------------------------------------------------------------------
(* Bank credit, as functions.  A rate is a fraction of 1 a month.          *)

CeilHalf(n, d) == (2 * n + d) \div (2 * d)

ComputeMonthlyPayment(principal, rate, term) ==
    LET p == rate[1]  q == rate[2]
    IN  IF p = 0 THEN CeilHalf(principal, term)
        ELSE CeilHalf(principal * p * (q + p)^term, q * ((q + p)^term - q^term))

\* The last payment takes whatever is left.
PrincipalPart(month, term, payment, interest, left) == IF month = term THEN left ELSE payment - interest

AmortisationSchedule(principal, rate, term) ==
    LET payment == ComputeMonthlyPayment(principal, rate, term)
        row(left, month) ==
            LET due == CeilHalf(left * rate[1], rate[2])
                part == PrincipalPart(month, term, payment, due, left)
            IN  [paid |-> part, interest |-> IF month = term THEN payment - part ELSE due,
                 left |-> left - part]
    IN  FoldLeft(LAMBDA acc, month : Append(acc, row(IF acc = <<>> THEN principal ELSE Last(acc).left, month)),
                 <<>>, [i \in 1 .. term |-> i])

ComputeMinPayment(balance, pct, floor) ==
    LET share == CeilHalf(balance * pct, 100)
        atLeast == IF share > floor THEN share ELSE floor
    IN  IF balance <= 0 THEN 0 ELSE IF balance < atLeast THEN balance ELSE atLeast

\* Dates as <<month, day>> of years that follow each other; February has 28 days.
MonthLength(m) == IF m = 2 THEN 28 ELSE IF m \in {4, 6, 9, 11} THEN 30 ELSE 31
ClampToMonthDay(m, d) == <<m, IF d > MonthLength(((m - 1) % 12) + 1) THEN MonthLength(((m - 1) % 12) + 1) ELSE d>>
NextDueDate(dueDay, m, d) == ClampToMonthDay(IF d <= dueDay THEN m ELSE m + 1, dueDay)

------------------------------------------------------------------------------
\* However many requests overlap, a transaction is the principal of one loan and one
\* repayment at most, and never both a principal and a repayment unless two requests
\* crossed (_check_linkable, the unique constraints; the exception is the one the comment
\* of _commit_link names).
LinkedOnce ==
    /\ \A l, o \in DOMAIN loan : (loan[l].link = loan[o].link /\ loan[l].link # NoLink) => l = o
    /\ \A r, s \in DOMAIN repayment :
          (repayment[r].link = repayment[s].link /\ repayment[r].link # NoLink) => r = s
    /\ ~crossed => \A l \in DOMAIN loan, r \in DOMAIN repayment :
          loan[l].link # NoLink => loan[l].link # repayment[r].link

\* A loan whose terms were not edited since its last repayment, with no requests crossing,
\* is settled exactly when it has been repaid, and the totals leave out no money still owed
\* (record_repayment, delete_repayment, totals).
SettledIsRepaid ==
    (~crossed /\ \A c \in Clerks : clerk[c] = Absent) =>
        \A l \in DOMAIN loan \ edited :
            /\ loan[l].settled = (ComputeRemaining(loan[l].principal, Repaid(l)) <= 0)
            /\ loan[l].stamped => loan[l].settled

\* Whatever was edited, what the page says is owed is what the loans leave to pay (totals).
\* Not so once the principal of a settled loan is raised: update_loan keeps the status.
NothingOwedIsHidden ==
    (~crossed /\ \A c \in Clerks : clerk[c] = Absent) =>
        TotalOwed = MapThenSumSet(LAMBDA l : LET left == ComputeRemaining(loan[l].principal, Repaid(l))
                                             IN IF left <= 0 THEN 0 ELSE left, DOMAIN loan)

\* A schedule pays back exactly the principal, and every row's parts make the payment
\* (amortisation_schedule).
ScheduleAddsUp ==
    requests = 0 =>
    \A principal \in {1, 99, 100}, rate \in {<<0, 1>>, <<1, 10>>, <<1, 50>>}, term \in 1 .. 4 :
        LET rows == AmortisationSchedule(principal, rate, term)
        IN  /\ FoldLeft(LAMBDA acc, r : acc + r.paid, 0, rows) = principal
            /\ Last(rows).left = 0
            /\ \A i \in 1 .. term : rows[i].paid + rows[i].interest
                                      = ComputeMonthlyPayment(principal, rate, term)

\* The next due date is the first day from today on that is a due day, the last of a month
\* too short for it; so no card with a balance is ever overdue (next_due_date, _card_status).
DueDateIsNext ==
    requests = 0 =>
    \A dueDay \in {1, 15, 28, 29, 30, 31}, m \in 1 .. 12 : \A d \in 1 .. MonthLength(m) :
        LET due == NextDueDate(dueDay, m, d)
        IN  /\ due[1] > m \/ (due[1] = m /\ due[2] >= d)
            /\ due[1] > m => ClampToMonthDay(m, dueDay)[2] < d
===============================================================================
