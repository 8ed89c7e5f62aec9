---------------------------------- MODULE MCPlans ---------------------------------
(***************************************************************************)
(* Plans, and what a household keeps over the years, on small instances,   *)
(* one component at a time: `focus` says which one moves, so that the      *)
(* states of the others do not multiply.                                   *)
(***************************************************************************)
EXTENDS Calendar, Planned, Detector, Store, Loans, Funds, Readiness, Audit

VARIABLE focus

McStarts == {<<2023, 12, 31>>, <<2024, 1, 31>>, <<2024, 2, 29>>}
McTodays == {<<2024, 1, 1>>, <<2024, 2, 28>>, <<2024, 2, 29>>, <<2024, 3, 31>>}

Charge(p, k, d, a) == [payee |-> p, key |-> k, day |-> d, amount |-> a, cat |-> "-", plan |-> 0]
McKeys == [acme |-> "ACME"]
\* Two monthly charges of a payee and two of a merchant without one, of amounts
\* around the edge of a bucket; rare charges of both; and a merchant both ways.
McLedgers ==
    {<<Charge("acme", "", 700, 1050), Charge("acme", "", 730, 1049),
       Charge("-", "BETA", 705, 949), Charge("-", "BETA", 735, 950)>>,
     <<Charge("acme", "", 0, 3000), Charge("acme", "", 365, 3350), Charge("-", "BETA", 100, 3000),
       Charge("-", "BETA", 400, 3000)>>,
     <<Charge("acme", "", 400, 1050), Charge("acme", "", 430, 1050), Charge("-", "ACME", 730, 1050),
       Charge("-", "ACME", 761, 1050)>>}
McArrivals == {Charge("acme", "", 760, 1050), Charge("-", "BETA", 765, 950), Charge("-", "GAMMA", 765, 950)}

McGoals == (10 :> "g")
McIrregulars == (1 :> "i") @@ (2 :> "j")

Foci == {"calendar", "posting", "history", "detector", "store", "loans", "funds", "readiness", "audit"}

\* No requests about loans are left to be made.
NoLoans ==
    /\ loan = <<>> /\ repayment = <<>> /\ clerk = [c \in Clerks |-> Absent]
    /\ requests = MaxRequests /\ crossed = FALSE /\ edited = {}

McInit ==
    /\ focus \in Foci
    /\ PlannedInit
    /\ IF focus = "calendar" THEN CalendarInit ELSE today = Never
         /\ rule = [start |-> <<2024, 1, 31>>, freq |-> "once", interval |-> 1, end |-> Never]
    /\ IF focus = "detector" THEN DetectorInit
       ELSE charge = <<>> /\ subs = <<>> /\ expected = <<>> /\ waved = {} /\ refused = {} /\ page = NoCandidate
    /\ StoreInit /\ (focus # "store" => db = NewHousehold.rows)
    /\ IF focus = "loans" THEN LoanInit ELSE NoLoans
    /\ FundsInit /\ ReadinessInit
    /\ AuditInit /\ (focus # "audit" => \A r \in Records : rows[r] = Gone)

\* Two sessions post while the plan is rewritten, ended or deleted.
PostingNext ==
    \/ \E p \in PlanIds, gap \in {0, 1}, on, two \in BOOLEAN :
         WritePlan(p, [OnePlan EXCEPT !.gap = gap, !.active = on, !.transfer = two])
    \/ \E p \in PlanIds : DeletePlan(p)
    \/ \E s \in Posters : PostDueRead(s) \/ BatchRead(s) \/ PostNext(s) \/ PostBatch(s)
    \/ \E r \in DOMAIN row, d \in DayRange : MovePosted(r, d)
    \/ \E r \in DOMAIN row : DeleteRow(r)

\* Payments arrive and become a plan's history; one session posts.
HistoryNext ==
    \/ \E p \in PlanIds, start \in DayRange, a \in {1, 2} :
         WritePlan(p, [OnePlan EXCEPT !.gap = 1, !.start = start, !.amount = a])
    \/ \E s \in {CHOOSE s \in Posters : TRUE} : PostDueRead(s) \/ PostNext(s)
    \/ \E d \in DayRange, a \in {1, 2} : Pay(d, a)
    \/ \E p \in PlanIds, S \in SUBSET (DOMAIN row) : LinkHistory(p, S)
    \/ \E r \in DOMAIN row, d \in DayRange : MovePosted(r, d)
    \/ \E p \in PlanIds, a \in {1, 2} : AcceptDrift(p, a)

PlansVars == <<calendarVars, plannedVars, detectorVars>>
KeptVars == <<storeVars, loanVars, fundVars, readinessVars, auditVars>>

McNext ==
    \/ focus = "calendar" /\ CalendarNext /\ UNCHANGED <<focus, plannedVars, detectorVars, KeptVars>>
    \/ focus = "posting" /\ PostingNext /\ UNCHANGED <<focus, calendarVars, detectorVars, KeptVars>>
    \/ focus = "history" /\ HistoryNext /\ UNCHANGED <<focus, calendarVars, detectorVars, KeptVars>>
    \/ focus = "detector" /\ DetectorNext /\ UNCHANGED <<focus, calendarVars, plannedVars, KeptVars>>
    \/ focus = "store" /\ StoreNext
         /\ UNCHANGED <<focus, PlansVars, loanVars, fundVars, readinessVars, auditVars>>
    \/ focus = "loans" /\ LoanNext
         /\ UNCHANGED <<focus, PlansVars, storeVars, fundVars, readinessVars, auditVars>>
    \/ focus = "funds" /\ FundsNext
         /\ UNCHANGED <<focus, PlansVars, storeVars, loanVars, readinessVars, auditVars>>
    \/ focus = "readiness" /\ ReadinessNext
         /\ UNCHANGED <<focus, PlansVars, storeVars, loanVars, fundVars, auditVars>>
    \/ focus = "audit" /\ AuditNext
         /\ UNCHANGED <<focus, PlansVars, storeVars, loanVars, fundVars, readinessVars>>

mcVars == <<focus, PlansVars, KeptVars>>
McSpec == McInit /\ [][McNext]_mcVars

TypeOK ==
    /\ CalendarTypeOK /\ PlannedTypeOK /\ DetectorTypeOK
    /\ StoreTypeOK /\ PersonalLoanTypeOK /\ FundsTypeOK /\ ReadinessTypeOK /\ AuditTypeOK
===============================================================================
