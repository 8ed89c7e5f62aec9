------------------------------- MODULE MoneyProofs --------------------------------
(***************************************************************************)
(* Proofs about the money's tables, for any number of rows and sessions:   *)
(* a transaction is linked to one loan or repayment, transfers are linked  *)
(* both ways, an undone merge is not made again, an occurrence is posted   *)
(* once, a merge of categories loses no money, the newest change told of a *)
(* row is what the row says, both lookups of a rate agree, and the nets    *)
(* shown in the ledger add up to its rows.                                 *)
(***************************************************************************)
EXTENDS Loans, Ledger, Payees, Planned, Housekeeping, Audit, Rates, SumProofs, FiniteSetTheorems, WellFoundedInduction, TLAPS

-----------------------------------------------------------------------------
(* Loans.  The unique constraint of each table keeps a link single within  *)
(* the table, whatever overlaps; between the two tables it rests on the    *)
(* check before the write, which a request that runs alone can still trust *)
(* when it commits.                                                        *)

\* Both kinds of rows have a link, and the flag is one.
RowsHaveLinks ==
  /\ \A l \in DOMAIN loan : "link" \in DOMAIN loan[l]
  /\ \A r \in DOMAIN repayment : "link" \in DOMAIN repayment[r]
  /\ DOMAIN clerk = Clerks /\ crossed \in BOOLEAN

LoansApart ==
  \A l, o \in DOMAIN loan : (loan[l].link = loan[o].link /\ loan[l].link # NoLink) => l = o
RepaymentsApart ==
  \A r, s \in DOMAIN repayment : (repayment[r].link = repayment[s].link /\ repayment[r].link # NoLink) => r = s
KindsApart ==
  ~crossed => \A l \in DOMAIN loan, r \in DOMAIN repayment :
    loan[l].link # NoLink => loan[l].link # repayment[r].link

\* While no two requests crossed, one at most is under way.
OneClerk == ~crossed => \A c, d \in Clerks : clerk[c] # Absent /\ clerk[d] # Absent => c = d

\* What it checked is still so: its link is on no row of the other kind.
StillFree ==
  ~crossed => \A c \in Clerks :
    /\ (clerk[c].does \in {"create", "update"} /\ clerk[c].link # NoLink)
         => \A r \in DOMAIN repayment : repayment[r].link # clerk[c].link
    /\ (clerk[c].does = "repay" /\ clerk[c].link # NoLink)
         => \A l \in DOMAIN loan : loan[l].link # clerk[c].link

LinkInv == RowsHaveLinks /\ LoansApart /\ RepaymentsApart /\ KindsApart /\ OneClerk /\ StillFree

LEMMA AbsentDoesNothing == Absent.does = "nothing"
BY DEF Absent

LEMMA LinkStart == LoanInit => LinkInv
<1> SUFFICES ASSUME LoanInit PROVE LinkInv
  OBVIOUS
<1>1. DOMAIN loan = {} /\ DOMAIN repayment = {} /\ crossed = FALSE
      /\ clerk = [c \in Clerks |-> Absent]
  BY DEF LoanInit
<1>2. RowsHaveLinks /\ LoansApart /\ RepaymentsApart /\ KindsApart
  BY <1>1 DEF RowsHaveLinks, LoansApart, RepaymentsApart, KindsApart
<1>3. OneClerk /\ StillFree
  BY <1>1, AbsentDoesNothing DEF OneClerk, StillFree
<1> QED BY <1>2, <1>3 DEF LinkInv

\* A call writes nothing but the request, whose link was looked at just now.
LEMMA CallKeeps ==
  ASSUME LinkInv, NEW c \in Clerks, NEW what, Call(c, what),
         (what.does \in {"create", "update"} /\ what.link # NoLink)
           => \/ CheckLinkable(what.link)
              \/ \E l \in DOMAIN loan : loan[l].link = what.link,
         (what.does = "repay" /\ what.link # NoLink) => CheckLinkable(what.link)
  PROVE  LinkInv'
<1>1. /\ clerk[c] = Absent /\ clerk' = [clerk EXCEPT ![c] = what]
      /\ crossed' = (crossed \/ \E o \in Clerks : clerk[o] # Absent)
      /\ UNCHANGED <<loan, repayment>>
  BY DEF Call
<1>2. DOMAIN clerk = Clerks /\ crossed \in BOOLEAN
  BY DEF LinkInv, RowsHaveLinks
<1>3. RowsHaveLinks' /\ LoansApart' /\ RepaymentsApart' /\ KindsApart'
  BY <1>1, <1>2 DEF LinkInv, RowsHaveLinks, LoansApart, RepaymentsApart, KindsApart
<1>4. OneClerk'
  BY <1>1, <1>2 DEF OneClerk
<1>5. ASSUME ~crossed', NEW d \in Clerks
      PROVE  /\ (clerk'[d].does \in {"create", "update"} /\ clerk'[d].link # NoLink)
                  => \A r \in DOMAIN repayment : repayment[r].link # clerk'[d].link
             /\ (clerk'[d].does = "repay" /\ clerk'[d].link # NoLink)
                  => \A l \in DOMAIN loan : loan[l].link # clerk'[d].link
  <2>1. CASE d = c
    <3>1. clerk'[d] = what
      BY <1>1, <1>2, <2>1
    <3>2. ~crossed
      BY <1>1, <1>2, <1>5
    <3> QED BY <3>1, <3>2 DEF LinkInv, KindsApart, CheckLinkable, LoanLinkedTransactionIds
  <2>2. CASE d # c
    <3>1. clerk'[d] = Absent
      BY <1>1, <1>2, <1>5, <2>2
    <3> QED BY <3>1, AbsentDoesNothing
  <2> QED BY <2>1, <2>2
<1>6. StillFree'
  BY <1>1, <1>5 DEF StillFree
<1> QED BY <1>3, <1>4, <1>6 DEF LinkInv

LEMMA CallsKeep ==
  ASSUME LinkInv, NEW c \in Clerks, NEW l, NEW p, NEW t, NEW s, NEW r,
         \/ CreateLoan(c, l, p, t) \/ UpdateLoan(c, l, p, t) \/ RecordRepayment(c, l, 1, t)
         \/ SetStatus(c, l, s) \/ DeleteRepayment(c, r) \/ DeleteLoan(c, l)
  PROVE  LinkInv'
<1>1. CASE CreateLoan(c, l, p, t)
  BY <1>1, CallKeeps DEF CreateLoan
<1>2. CASE UpdateLoan(c, l, p, t)
  BY <1>2, CallKeeps DEF UpdateLoan
<1>3. CASE RecordRepayment(c, l, 1, t)
  BY <1>3, CallKeeps DEF RecordRepayment
<1>4. CASE SetStatus(c, l, s) \/ DeleteRepayment(c, r) \/ DeleteLoan(c, l)
  BY <1>4, CallKeeps DEF SetStatus, DeleteRepayment, DeleteLoan
<1> QED BY <1>1, <1>2, <1>3, <1>4

\* A request that ends, or goes on with a recount, claims nothing any more.
Spent(c, q) == clerk' = [clerk EXCEPT ![c] = q] /\ clerk[c] # Absent /\ q.does \in {"nothing", "recount"}

\* Rows that only go, or lose their links, leave everything as it was.
LEMMA LossKeeps ==
  ASSUME LinkInv, UNCHANGED crossed,
         clerk' = clerk \/ \E c \in Clerks : \E q : Spent(c, q),
         DOMAIN loan' \subseteq DOMAIN loan, DOMAIN repayment' \subseteq DOMAIN repayment,
         \A l \in DOMAIN loan' : "link" \in DOMAIN loan'[l] /\ loan'[l].link \in {loan[l].link, NoLink},
         \A r \in DOMAIN repayment' :
            "link" \in DOMAIN repayment'[r] /\ repayment'[r].link \in {repayment[r].link, NoLink}
  PROVE  LinkInv'
<1>1. RowsHaveLinks'
  BY DEF LinkInv, RowsHaveLinks, Spent
<1>2. LoansApart' /\ RepaymentsApart'
  BY DEF LinkInv, LoansApart, RepaymentsApart
<1>3. KindsApart'
  BY DEF LinkInv, KindsApart
<1>4. \A d \in Clerks : clerk'[d] = clerk[d] \/ (clerk[d] # Absent /\ clerk'[d].does \in {"nothing", "recount"})
  BY DEF LinkInv, RowsHaveLinks, Spent
<1>5. OneClerk'
  BY <1>4 DEF LinkInv, OneClerk
<1>6. StillFree'
  BY <1>4 DEF LinkInv, StillFree
<1> QED BY <1>1, <1>2, <1>3, <1>5, <1>6 DEF LinkInv

\* A loan whose other columns change keeps its link.
LEMMA ColumnKeeps ==
  ASSUME LinkInv, UNCHANGED <<crossed, repayment>>, NEW c \in Clerks, NEW q, Spent(c, q),
         DOMAIN loan' = DOMAIN loan,
         \A l \in DOMAIN loan : "link" \in DOMAIN loan'[l] /\ loan'[l].link = loan[l].link
  PROVE  LinkInv'
BY LossKeeps DEF LinkInv, RowsHaveLinks

LEMMA LeaveSpends ==
  ASSUME LinkInv, NEW c \in Clerks, clerk[c].does # "nothing", Leave(c)
  PROVE  Spent(c, Absent)
BY AbsentDoesNothing DEF Leave, Spent

\* A principal is written when no other loan has the link, and its check still holds.
LEMMA CommitLoanKeeps ==
  ASSUME LinkInv, NEW c \in Clerks, CommitLoan(c)
  PROVE  LinkInv'
<1> DEFINE p == clerk[c]
<1>1. p.does \in {"create", "update"} /\ Leave(c) /\ UNCHANGED <<repayment, crossed>>
  BY DEF CommitLoan
<1>2. Spent(c, Absent)
  BY <1>1, LeaveSpends
<1>3. CASE UNCHANGED loan
  BY <1>1, <1>2, <1>3, ColumnKeeps DEF LinkInv, RowsHaveLinks
<1>4. ASSUME NEW new, "link" \in DOMAIN new, new.link = p.link, ~ TakenByALoan(p.link, p.loan),
             loan' = With(loan, p.loan, new)
      PROVE  LinkInv'
  <2>1. /\ DOMAIN loan' = DOMAIN loan \cup {p.loan} /\ loan'[p.loan] = new
        /\ \A l \in DOMAIN loan : l # p.loan => loan'[l] = loan[l]
    BY <1>4 DEF With
  <2> HIDE DEF p
  <2>2. RowsHaveLinks'
    BY <1>1, <1>2, <1>4, <2>1 DEF LinkInv, RowsHaveLinks, Spent
  <2>3. LoansApart' /\ RepaymentsApart'
    BY <1>1, <1>4, <2>1 DEF LinkInv, LoansApart, RepaymentsApart, TakenByALoan
  <2>4. (~ crossed /\ p.link # NoLink) => \A r \in DOMAIN repayment : repayment[r].link # p.link
    BY <1>1 DEF LinkInv, StillFree, p
  <2>5. KindsApart'
    BY <1>1, <1>4, <2>1, <2>4 DEF LinkInv, KindsApart
  <2>6. \A d \in Clerks : clerk'[d] = IF d = c THEN Absent ELSE clerk[d]
    BY <1>2 DEF Spent, LinkInv, RowsHaveLinks
  <2>7. OneClerk'
    BY <1>1, <2>6 DEF LinkInv, OneClerk
  <2>8. ~ crossed => \A d \in Clerks : clerk'[d] = Absent
    BY <1>2, <2>6 DEF LinkInv, OneClerk, Spent
  <2>9. StillFree'
    BY <1>1, <2>8, AbsentDoesNothing DEF StillFree
  <2> QED BY <2>2, <2>3, <2>5, <2>7, <2>9 DEF LinkInv
<1>5. CASE ~ UNCHANGED loan
  <2> DEFINE new == IF p.does = "create"
                    THEN [principal |-> p.principal, settled |-> FALSE, stamped |-> FALSE, link |-> p.link]
                    ELSE [loan[p.loan] EXCEPT !.principal = p.principal, !.link = p.link]
  <2>1. /\ loan' = With(loan, p.loan, new) /\ ~ TakenByALoan(p.link, p.loan)
        /\ p.does = "update" => p.loan \in DOMAIN loan
    BY <1>5 DEF CommitLoan
  <2>2. "link" \in DOMAIN new /\ new.link = p.link
    <3>1. CASE p.does = "create"
      BY <3>1
    <3>2. CASE p.does # "create"
      <4>1. "link" \in DOMAIN loan[p.loan]
        BY <1>1, <2>1, <3>2 DEF LinkInv, RowsHaveLinks
      <4> QED BY <3>2, <4>1
    <3> QED BY <3>1, <3>2
  <2> HIDE DEF new, p
  <2> QED BY <1>4, <2>1, <2>2
<1> QED BY <1>3, <1>5

\* So with a repayment.
LEMMA CommitRepaymentKeeps ==
  ASSUME LinkInv, NEW c \in Clerks, CommitRepayment(c)
  PROVE  LinkInv'
<1> DEFINE p == clerk[c]
<1>1. p.does = "repay" /\ Leave(c) /\ UNCHANGED crossed
  BY DEF CommitRepayment
<1>2. Spent(c, Absent)
  BY <1>1, LeaveSpends
<1>3. CASE UNCHANGED <<loan, repayment>>
  BY <1>1, <1>2, <1>3, ColumnKeeps DEF LinkInv, RowsHaveLinks
<1>4. ASSUME NEW new, ~ TakenByARepayment(p.link),
             repayment' = With(repayment, new, [loan |-> p.loan, amount |-> p.amount, link |-> p.link]),
             DOMAIN loan' = DOMAIN loan,
             \A l \in DOMAIN loan : "link" \in DOMAIN loan'[l] /\ loan'[l].link = loan[l].link
      PROVE  LinkInv'
  <2>1. /\ DOMAIN repayment' = DOMAIN repayment \cup {new}
        /\ repayment'[new].link = p.link /\ "link" \in DOMAIN repayment'[new]
        /\ \A r \in DOMAIN repayment : r # new => repayment'[r] = repayment[r]
    BY <1>4 DEF With
  <2> HIDE DEF p
  <2>2. RowsHaveLinks'
    BY <1>1, <1>2, <1>4, <2>1 DEF LinkInv, RowsHaveLinks, Spent
  <2>3. LoansApart' /\ RepaymentsApart'
    BY <1>1, <1>4, <2>1 DEF LinkInv, LoansApart, RepaymentsApart, TakenByARepayment
  <2>4. (~ crossed /\ p.link # NoLink) => \A l \in DOMAIN loan : loan[l].link # p.link
    BY <1>1 DEF LinkInv, StillFree, p
  <2>5. KindsApart'
    BY <1>1, <1>4, <2>1, <2>4 DEF LinkInv, KindsApart
  <2>6. \A d \in Clerks : clerk'[d] = IF d = c THEN Absent ELSE clerk[d]
    BY <1>2 DEF Spent, LinkInv, RowsHaveLinks
  <2>7. OneClerk'
    BY <1>1, <2>6 DEF LinkInv, OneClerk
  <2>8. ~ crossed => \A d \in Clerks : clerk'[d] = Absent
    BY <1>2, <2>6 DEF LinkInv, OneClerk, Spent
  <2>9. StillFree'
    BY <1>1, <2>8, AbsentDoesNothing DEF StillFree
  <2> QED BY <2>2, <2>3, <2>5, <2>7, <2>9 DEF LinkInv
<1>5. CASE ~ UNCHANGED <<loan, repayment>>
  <2> DEFINE settled == Settles(p.was.principal, p.repaid, p.amount)
             new == CHOOSE i \in 1 .. (Cardinality(DOMAIN repayment) + 1) : i \notin DOMAIN repayment
  <2>1. /\ ~ TakenByARepayment(p.link)
        /\ repayment' = With(repayment, new, [loan |-> p.loan, amount |-> p.amount, link |-> p.link])
        /\ loan' = [loan EXCEPT ![p.loan].settled = IF settled = p.was.settled THEN @ ELSE settled,
                                ![p.loan].stamped = settled \/ (@ /\ ~p.was.stamped)]
    BY <1>5 DEF CommitRepayment
  <2> HIDE DEF settled, new, p
  <2>2. /\ DOMAIN loan' = DOMAIN loan
        /\ \A l \in DOMAIN loan : "link" \in DOMAIN loan'[l] /\ loan'[l].link = loan[l].link
    BY <2>1 DEF LinkInv, RowsHaveLinks
  <2> QED BY <1>4, <2>1, <2>2
<1> QED BY <1>3, <1>5

\* The other commits change no link, or take some away.
LEMMA OtherCommitsKeep ==
  ASSUME LinkInv, NEW c \in Clerks, CommitStatus(c) \/ CommitUndo(c) \/ Recount(c) \/ CommitDelete(c)
  PROVE  LinkInv'
<1>1. CASE CommitStatus(c)
  <2>1. Spent(c, Absent)
    BY <1>1, LeaveSpends DEF CommitStatus
  <2>2. /\ DOMAIN loan' = DOMAIN loan
        /\ \A l \in DOMAIN loan : "link" \in DOMAIN loan'[l] /\ loan'[l].link = loan[l].link
    BY <1>1 DEF CommitStatus, LinkInv, RowsHaveLinks
  <2> QED BY <1>1, <2>1, <2>2, ColumnKeeps DEF CommitStatus
<1>2. CASE Recount(c)
  <2>1. Spent(c, Absent)
    BY <1>2, LeaveSpends DEF Recount
  <2>2. /\ DOMAIN loan' = DOMAIN loan
        /\ \A l \in DOMAIN loan : "link" \in DOMAIN loan'[l] /\ loan'[l].link = loan[l].link
    BY <1>2 DEF Recount, LinkInv, RowsHaveLinks
  <2> QED BY <1>2, <2>1, <2>2, ColumnKeeps DEF Recount
<1>3. CASE CommitUndo(c)
  <2> DEFINE q == IF clerk[c].row \in DOMAIN repayment
                  THEN [does |-> "recount", loan |-> clerk[c].loan] ELSE Absent
  <2>1. Spent(c, q)
    BY <1>3, AbsentDoesNothing DEF CommitUndo, Spent
  <2>2. /\ repayment' = Without(repayment, {clerk[c].row}) /\ UNCHANGED <<loan, crossed>>
    BY <1>3 DEF CommitUndo
  <2> HIDE DEF q
  <2> QED BY <2>1, <2>2, LossKeeps DEF LinkInv, RowsHaveLinks, Without
<1>4. CASE CommitDelete(c)
  <2>1. Spent(c, Absent)
    BY <1>4, LeaveSpends DEF CommitDelete
  <2>2. /\ loan' = Without(loan, {clerk[c].loan})
        /\ repayment' = Without(repayment, RepaymentsOf(clerk[c].loan)) /\ UNCHANGED crossed
    BY <1>4 DEF CommitDelete
  <2> QED BY <2>1, <2>2, LossKeeps DEF LinkInv, RowsHaveLinks, Without
<1> QED BY <1>1, <1>2, <1>3, <1>4

LEMMA LedgerRowKeeps ==
  ASSUME LinkInv, NEW t, DeleteLedgerRow(t)
  PROVE  LinkInv'
<1>1. /\ DOMAIN loan' = DOMAIN loan /\ DOMAIN repayment' = DOMAIN repayment
      /\ \A l \in DOMAIN loan : "link" \in DOMAIN loan'[l] /\ loan'[l].link \in {loan[l].link, NoLink}
      /\ \A r \in DOMAIN repayment :
            "link" \in DOMAIN repayment'[r] /\ repayment'[r].link \in {repayment[r].link, NoLink}
  BY DEF DeleteLedgerRow, LinkInv, RowsHaveLinks
<1> QED BY <1>1, LossKeeps DEF DeleteLedgerRow

LEMMA LoanStepKeeps == LinkInv /\ [LoanNext]_loanVars => LinkInv'
<1> SUFFICES ASSUME LinkInv, [LoanNext]_loanVars PROVE LinkInv'
  OBVIOUS
<1>1. ASSUME NEW c \in Clerks, NEW l \in LoanIds, NEW p \in Principals, NEW t \in LedgerRows \cup {NoLink},
             CreateLoan(c, l, p, t) \/ UpdateLoan(c, l, p, t) \/ RecordRepayment(c, l, 1, t)
      PROVE  LinkInv'
  BY <1>1, CallsKeep
<1>2. ASSUME NEW c \in Clerks, NEW l \in LoanIds, NEW s \in BOOLEAN, DeleteLoan(c, l) \/ SetStatus(c, l, s)
      PROVE  LinkInv'
  BY <1>2, CallsKeep
<1>3. ASSUME NEW c \in Clerks, NEW r \in DOMAIN repayment, DeleteRepayment(c, r) PROVE LinkInv'
  BY <1>3, CallsKeep
<1>4. ASSUME NEW c \in Clerks,
             CommitLoan(c) \/ CommitStatus(c) \/ CommitRepayment(c) \/ CommitUndo(c) \/ Recount(c) \/ CommitDelete(c)
      PROVE  LinkInv'
  BY <1>4, CommitLoanKeeps, CommitRepaymentKeeps, OtherCommitsKeep
<1>5. ASSUME NEW t \in LedgerRows, DeleteLedgerRow(t) PROVE LinkInv'
  BY <1>5, LedgerRowKeeps
<1>6. CASE UNCHANGED loanVars
  BY <1>6 DEF loanVars, LinkInv, RowsHaveLinks, LoansApart, RepaymentsApart, KindsApart, OneClerk, StillFree
<1> QED BY <1>1, <1>2, <1>3, <1>4, <1>5, <1>6 DEF LoanNext

\* Whatever requests overlap, a transaction is the principal of one loan at most and one
\* repayment at most; and never both, unless two requests crossed (_check_linkable and the
\* unique constraints of the two tables).
THEOREM LoansLinkedOnce == LoanSpec => []LinkedOnce
<1>1. LinkInv => LinkedOnce
  BY DEF LinkInv, LinkedOnce, LoansApart, RepaymentsApart, KindsApart
<1> QED BY <1>1, LinkStart, LoanStepKeeps, PTL DEF LoanSpec

-----------------------------------------------------------------------------
(* The ledger's transfers.                                                 *)

\* Rows have a link, and ids are given once.
RowsNumbered ==
  /\ nextTx \in Nat \ {0} /\ DOMAIN tx \subseteq 1 .. (nextTx - 1)
  /\ \A i \in DOMAIN tx : "linked" \in DOMAIN tx[i]
  /\ DOMAIN pending = Pairers

\* What a pairing under way read is still so: its legs are two rows and, as long as both
\* are there, neither is linked.
LegsStillFree ==
  \A p \in Pairers : pending[p] # Idle =>
    /\ pending[p].out # pending[p].in
    /\ {pending[p].out, pending[p].in} \subseteq 1 .. (nextTx - 1)
    /\ {pending[p].out, pending[p].in} \subseteq DOMAIN tx
         => tx[pending[p].out].linked = 0 /\ tx[pending[p].in].linked = 0

PairInv == RowsNumbered /\ LegsStillFree /\ LinksMutual

\* One tab marks rows as a transfer at a time.
OnePairing == \A p, q \in Pairers : p = q

\* Writing other columns of rows leaves the links as they were.
LEMMA LinksUntouched ==
  ASSUME PairInv, DOMAIN tx' = DOMAIN tx, UNCHANGED <<nextTx, pending>>,
         \A i \in DOMAIN tx : "linked" \in DOMAIN tx'[i] /\ tx'[i].linked = tx[i].linked
  PROVE  PairInv'
<1>1. RowsNumbered' BY DEF PairInv, RowsNumbered
<1>2. LegsStillFree' BY DEF PairInv, RowsNumbered, LegsStillFree
<1>3. LinksMutual' BY DEF PairInv, RowsNumbered, LinksMutual
<1> QED BY <1>1, <1>2, <1>3 DEF PairInv

\* Rows nobody links to can go.
LEMMA LinksDropped ==
  ASSUME PairInv, NEW S, \A i \in S, j \in DOMAIN tx : tx[j].linked # i,
         tx' = Without(tx, S), UNCHANGED <<nextTx, pending>>
  PROVE  PairInv'
<1>0. DOMAIN tx' = DOMAIN tx \ S /\ \A i \in DOMAIN tx' : tx'[i] = tx[i]
  BY DEF Without
<1>1. RowsNumbered' BY <1>0 DEF PairInv, RowsNumbered
<1>2. LegsStillFree' BY <1>0 DEF PairInv, RowsNumbered, LegsStillFree
<1>3. LinksMutual' BY <1>0 DEF PairInv, RowsNumbered, LinksMutual
<1> QED BY <1>1, <1>2, <1>3 DEF PairInv

\* A row entered by itself is linked to nothing.
LEMMA CreateLinks ==
  ASSUME PairInv, NEW r \in NewRows, Create(r)
  PROVE  PairInv'
<1>0. "linked" \in DOMAIN r /\ r.linked = 0
  BY DEF NewRows, NewRow
<1>1. /\ DOMAIN tx' = DOMAIN tx \cup {nextTx} /\ tx'[nextTx] = r
      /\ nextTx \notin DOMAIN tx /\ nextTx' = nextTx + 1 /\ pending' = pending
      /\ \A i \in DOMAIN tx : tx'[i] = tx[i]
  BY DEF Create, With, PairInv, RowsNumbered
<1>2. RowsNumbered' BY <1>0, <1>1 DEF PairInv, RowsNumbered
<1>3. LegsStillFree' BY <1>1 DEF PairInv, RowsNumbered, LegsStillFree
<1>4. LinksMutual' BY <1>0, <1>1 DEF PairInv, RowsNumbered, LinksMutual
<1> QED BY <1>2, <1>3, <1>4 DEF PairInv

\* A transfer is entered with both links.
LEMMA CreateTransferLinks ==
  ASSUME PairInv, NEW a, NEW b, NEW sent, NEW received, CreateTransfer(a, b, sent, received)
  PROVE  PairInv'
<1> DEFINE n == nextTx
           out == [NewRow(a, "transfer", "out", sent, NoCat, <<>>) EXCEPT !.linked = n + 1]
           in == [NewRow(b, "transfer", "in", received, NoCat, <<>>) EXCEPT !.linked = n]
<1>0. "linked" \in DOMAIN out /\ out.linked = n + 1 /\ "linked" \in DOMAIN in /\ in.linked = n
  BY DEF NewRow
<1>1. tx' = With(With(tx, n, out), n + 1, in) /\ nextTx' = n + 2 /\ pending' = pending
  BY DEF CreateTransfer
<1> HIDE DEF out, in
<1>2. /\ DOMAIN tx' = DOMAIN tx \cup {n, n + 1} /\ tx'[n] = out /\ tx'[n + 1] = in
      /\ n \notin DOMAIN tx /\ n + 1 \notin DOMAIN tx /\ n \in Nat \ {0}
      /\ \A i \in DOMAIN tx : tx'[i] = tx[i]
  BY <1>1 DEF With, PairInv, RowsNumbered
<1>3. RowsNumbered' BY <1>0, <1>1, <1>2 DEF PairInv, RowsNumbered
<1>4. LegsStillFree' BY <1>1, <1>2 DEF PairInv, RowsNumbered, LegsStillFree
<1>5. LinksMutual' BY <1>0, <1>2 DEF PairInv, RowsNumbered, LinksMutual
<1> QED BY <1>3, <1>4, <1>5 DEF PairInv

\* A pairing reads two different rows that are linked to nothing.
LEMMA PairReadLinks ==
  ASSUME PairInv, NEW p \in Pairers, NEW i, NEW j, PairRead(p, i, j)
  PROVE  PairInv'
<1> DEFINE o == Orient(i, j)[1]
           n == Orient(i, j)[2]
           legs == [out |-> o, in |-> n, outRow |-> tx[o], inRow |-> tx[n]]
<1>0. {o, n} = {i, j} /\ o # n
  BY DEF PairRead, Orient
<1>1. /\ {o, n} \subseteq DOMAIN tx /\ tx[o].linked = 0 /\ tx[n].linked = 0
      /\ pending' = [pending EXCEPT ![p] = legs]
      /\ UNCHANGED <<tx, nextTx>>
  BY <1>0 DEF PairRead, TransferPairValid
<1>2. legs.out = o /\ legs.in = n OBVIOUS
<1> HIDE DEF legs, o, n
<1>3. RowsNumbered' BY <1>1 DEF PairInv, RowsNumbered
<1>4. LegsStillFree' BY <1>0, <1>1, <1>2 DEF PairInv, RowsNumbered, LegsStillFree
<1>5. LinksMutual' BY <1>1 DEF PairInv, LinksMutual
<1> QED BY <1>3, <1>4, <1>5 DEF PairInv

\* The commit links the two, and nobody else was linked to either.
LEMMA PairCommitLinks ==
  ASSUME OnePairing, PairInv, NEW p \in Pairers, PairCommit(p)
  PROVE  PairInv'
<1> DEFINE q == pending[p]
           out == Leg(tx[q.out], q.outRow, "out", q.in)
           in == Leg(tx[q.in], q.inRow, "in", q.out)
<1>0. /\ q # Idle /\ {q.out, q.in} \subseteq DOMAIN tx /\ q.out # q.in
      /\ tx[q.out].linked = 0 /\ tx[q.in].linked = 0
  BY DEF PairCommit, PairInv, LegsStillFree
<1>1. /\ "linked" \in DOMAIN out /\ out.linked = q.in
      /\ "linked" \in DOMAIN in /\ in.linked = q.out
  BY <1>0 DEF Leg, PairInv, RowsNumbered
<1>2. /\ tx' = [tx EXCEPT ![q.out] = out, ![q.in] = in]
      /\ pending' = [pending EXCEPT ![p] = Idle] /\ nextTx' = nextTx
  BY DEF PairCommit
<1> HIDE DEF out, in, q
<1>3. /\ DOMAIN tx' = DOMAIN tx /\ tx'[q.out] = out /\ tx'[q.in] = in
      /\ \A i \in DOMAIN tx : i # q.out /\ i # q.in => tx'[i] = tx[i]
  BY <1>0, <1>2
<1>4. \A r \in Pairers : pending'[r] = Idle
  BY <1>2 DEF OnePairing, PairInv, RowsNumbered
<1>5. RowsNumbered' BY <1>1, <1>2, <1>3 DEF PairInv, RowsNumbered
<1>6. LegsStillFree' BY <1>4 DEF LegsStillFree
<1>7. 0 \notin DOMAIN tx BY DEF PairInv, RowsNumbered
<1>8. LinksMutual'
  <2> SUFFICES ASSUME NEW i \in DOMAIN tx, tx'[i].linked # 0
               PROVE  tx'[i].linked \in DOMAIN tx \ {i} /\ tx'[tx'[i].linked].linked = i
    BY <1>3 DEF LinksMutual
  <2>1. CASE i = q.out BY <2>1, <1>0, <1>1, <1>3
  <2>2. CASE i = q.in BY <2>2, <1>0, <1>1, <1>3
  <2>3. CASE i # q.out /\ i # q.in
    <3>1. tx'[i].linked = tx[i].linked BY <2>3, <1>3
    <3>2. tx[i].linked \in DOMAIN tx \ {i} /\ tx[tx[i].linked].linked = i
      BY <3>1 DEF PairInv, LinksMutual
    <3>3. i # 0 BY <1>7
    <3>4. tx[i].linked # q.out /\ tx[i].linked # q.in BY <3>2, <3>3, <1>0
    <3> QED BY <3>1, <3>2, <3>4, <1>3
  <2> QED BY <2>1, <2>2, <2>3
<1> QED BY <1>5, <1>6, <1>8 DEF PairInv

\* The rest writes no link.
LEMMA OtherStepsLinks ==
  ASSUME PairInv
  PROVE  /\ \A p \in Pairers : PairFail(p) => PairInv'
         /\ \A ids \in SUBSET TxIds, c \in Categories : SetCategoryBulk(ids, c) => PairInv'
         /\ \A m \in Members, i \in TxIds : OpenForm(m, i) => PairInv'
         /\ \A m \in Members : CloseForm(m) => PairInv'
         /\ \A m \in Members, e \in Payload : Save(m, e) => PairInv'
         /\ \A i \in TxIds : Delete(i) => PairInv'
         /\ \A a \in Accounts : DeleteAccount(a) => PairInv'
         /\ \A a \in Accounts, b \in {0} : CreateAccount(a, b) \/ UpdateAccount(a, b) => PairInv'
<1>0. ASSUME UNCHANGED <<tx, nextTx, pending>> PROVE PairInv'
  BY <1>0, LinksUntouched DEF PairInv, RowsNumbered
<1>1. ASSUME NEW p \in Pairers, PairFail(p) PROVE PairInv'
  <2>1. UNCHANGED <<tx, nextTx>> /\ pending' = [pending EXCEPT ![p] = Idle] BY <1>1 DEF PairFail
  <2>2. RowsNumbered' BY <2>1 DEF PairInv, RowsNumbered
  <2>3. LegsStillFree' BY <2>1 DEF PairInv, RowsNumbered, LegsStillFree
  <2>4. LinksMutual' BY <2>1 DEF PairInv, LinksMutual
  <2> QED BY <2>2, <2>3, <2>4 DEF PairInv
<1>2. ASSUME NEW ids \in SUBSET TxIds, NEW c \in Categories, SetCategoryBulk(ids, c) PROVE PairInv'
  <2>1. /\ tx' = [i \in DOMAIN tx |-> IF i \in ids THEN [tx[i] EXCEPT !.cat = c] ELSE tx[i]]
        /\ UNCHANGED <<nextTx, pending>>
    BY <1>2 DEF SetCategoryBulk
  <2>2. DOMAIN tx' = DOMAIN tx BY <2>1
  <2>3. \A i \in DOMAIN tx : "linked" \in DOMAIN tx'[i] /\ tx'[i].linked = tx[i].linked
    BY <2>1 DEF PairInv, RowsNumbered
  <2> QED BY <2>1, <2>2, <2>3, LinksUntouched
<1>3. ASSUME NEW m \in Members, NEW i \in TxIds, OpenForm(m, i) PROVE PairInv'
  BY <1>0, <1>3 DEF OpenForm
<1>4. ASSUME NEW m \in Members, CloseForm(m) PROVE PairInv'
  BY <1>0, <1>4 DEF CloseForm
<1>5. ASSUME NEW m \in Members, NEW e \in Payload, Save(m, e) PROVE PairInv'
  <2> DEFINE i == form[m].id
             r == Edited(tx[i], e)
  <2>1. i \in DOMAIN tx /\ tx' = [tx EXCEPT ![i] = r] /\ UNCHANGED <<nextTx, pending>>
    BY <1>5 DEF Save
  <2>2. "linked" \in DOMAIN r /\ r.linked = tx[i].linked
    BY <2>1 DEF Edited, PairInv, RowsNumbered
  <2> HIDE DEF r, i
  <2>3. DOMAIN tx' = DOMAIN tx BY <2>1
  <2>4. \A j \in DOMAIN tx : "linked" \in DOMAIN tx'[j] /\ tx'[j].linked = tx[j].linked
    BY <2>1, <2>2 DEF PairInv, RowsNumbered
  <2> QED BY <2>1, <2>3, <2>4, LinksUntouched
<1>6. ASSUME NEW i \in TxIds, Delete(i) PROVE PairInv'
  <2>1. \A k \in {i}, j \in DOMAIN tx : tx[j].linked # k BY <1>6 DEF Delete
  <2> QED BY <1>6, <2>1, LinksDropped DEF Delete
<1>7. ASSUME NEW a \in Accounts, DeleteAccount(a) PROVE PairInv'
  <2> DEFINE S == {i \in DOMAIN tx : tx[i].account = a}
  <2>1. \A k \in S, j \in DOMAIN tx : tx[j].linked # k BY <1>7 DEF DeleteAccount
  <2>2. tx' = Without(tx, S) /\ UNCHANGED <<nextTx, pending>> BY <1>7 DEF DeleteAccount
  <2> HIDE DEF S
  <2> QED BY <2>1, <2>2, LinksDropped
<1>8. ASSUME NEW a \in Accounts, NEW b \in {0}, CreateAccount(a, b) \/ UpdateAccount(a, b) PROVE PairInv'
  BY <1>0, <1>8 DEF CreateAccount, UpdateAccount
<1> QED BY <1>1, <1>2, <1>3, <1>4, <1>5, <1>6, <1>7, <1>8

\* As long as one tab marks rows as a transfer at a time, the links of the ledger's
\* transfers are mutual and none dangles, whatever is entered, edited and deleted by anybody
\* while the pairing is between its check and its commit (pair_as_transfer, create_transfer,
\* delete, update).
THEOREM TransfersLinkedBothWays ==
  ASSUME OnePairing
  PROVE  LedgerSpec => []LinksMutual
<1>1. LedgerInit => PairInv
  BY DEF LedgerInit, PairInv, RowsNumbered, LegsStillFree, LinksMutual
<1>2. PairInv /\ [LedgerNext]_ledgerVars => PairInv'
  <2> SUFFICES ASSUME PairInv, [LedgerNext]_ledgerVars PROVE PairInv' OBVIOUS
  <2>1. CASE UNCHANGED ledgerVars
    BY <2>1, LinksUntouched DEF ledgerVars, PairInv, RowsNumbered
  <2>2. CASE \E r \in NewRows : Create(r) BY <2>2, CreateLinks
  <2>3. CASE \E a, b \in Accounts, s, r \in Amounts : CreateTransfer(a, b, s, r)
    BY <2>3, CreateTransferLinks
  <2>4. CASE \E p \in Pairers, i, j \in TxIds : PairRead(p, i, j) BY <2>4, PairReadLinks
  <2>5. CASE \E p \in Pairers : PairCommit(p) BY <2>5, PairCommitLinks
  <2>6. CASE \/ \E p \in Pairers : PairFail(p)
             \/ \E ids \in SUBSET TxIds, c \in Categories : SetCategoryBulk(ids, c)
             \/ \E m \in Members, i \in TxIds : OpenForm(m, i)
             \/ \E m \in Members : CloseForm(m)
             \/ \E m \in Members, e \in Payload : Save(m, e)
             \/ \E i \in TxIds : Delete(i)
             \/ \E a \in Accounts : DeleteAccount(a)
             \/ \E a \in Accounts, b \in {0} : CreateAccount(a, b) \/ UpdateAccount(a, b)
    BY <2>6, OtherStepsLinks
  <2> QED BY <2>1, <2>2, <2>3, <2>4, <2>5, <2>6 DEF LedgerNext
<1>3. PairInv => LinksMutual BY DEF PairInv
<1> QED BY <1>1, <1>2, <1>3, PTL DEF LedgerSpec

-----------------------------------------------------------------------------
(* Payees: what an undo put apart.                                         *)

PayeesNumbered == nextPayee \in Nat \ {0} /\ DOMAIN payee \subseteq 1 .. (nextPayee - 1)

\* An undo dismisses the pair it puts apart, and a dismissal outlives the pair's records.
UndoneDismissed == undone \subseteq dismissed

\* A scan under way holds pairs there were when it began, none of them undone since: an
\* undo brings a payee back under a new id.
ScanOlder ==
  \A o \in scan : {o[1], o[2]} \subseteq 1 .. (nextPayee - 1) /\ {o[1], o[2]} \notin undone

ApartInv == PayeesNumbered /\ UndoneDismissed /\ ScanOlder

\* Nothing is undone, the payees there are stay numbered: the rest follows.
LEMMA ApartKept ==
  ASSUME ApartInv, nextPayee' \in Nat, nextPayee' >= nextPayee,
         DOMAIN payee' \subseteq 1 .. (nextPayee' - 1),
         undone' \subseteq undone, undone' \subseteq dismissed', scan' \subseteq scan
  PROVE  ApartInv'
BY DEF ApartInv, PayeesNumbered, UndoneDismissed, ScanOlder

LEMMA BornNumbers ==
  ASSUME ApartInv, NEW name, Born(name)
  PROVE  nextPayee' = nextPayee + 1 /\ DOMAIN payee' \subseteq 1 .. (nextPayee' - 1)
BY DEF Born, With, ApartInv, PayeesNumbered

LEMMA MergeNumbers ==
  ASSUME ApartInv, NEW k, NEW S, NEW name, MergedInto(k, S, name)
  PROVE  DOMAIN payee' \subseteq DOMAIN payee
BY DEF MergedInto, Without

\* What the foreign keys drop, they drop from both.
LEMMA DropsAgree ==
  ASSUME ApartInv, NEW S, Dropped(S)
  PROVE  undone' \subseteq undone /\ undone' \subseteq dismissed'
BY DEF Dropped, ApartInv, UndoneDismissed

\* An undo's pair has a new id, which no scan under way can name.
LEMMA UndoApart ==
  ASSUME ApartInv, NEW r, Undo(r)
  PROVE  ApartInv'
<1>1. /\ nextPayee' = nextPayee + 1 /\ payee' = With(payee, nextPayee, r.name) /\ scan' = scan
      /\ dismissed' = dismissed \cup {{r.keeper, nextPayee}}
      /\ undone' = undone \cup {{r.keeper, nextPayee}}
  BY DEF Undo
<1>2. PayeesNumbered' BY <1>1 DEF ApartInv, PayeesNumbered, With
<1>3. UndoneDismissed' BY <1>1 DEF ApartInv, UndoneDismissed
<1>4. ScanOlder'
  <2> SUFFICES ASSUME NEW o \in scan
               PROVE  {o[1], o[2]} \subseteq 1 .. nextPayee /\ {o[1], o[2]} \notin undone'
    BY <1>1 DEF ScanOlder, ApartInv, PayeesNumbered
  <2>1. {o[1], o[2]} \subseteq 1 .. (nextPayee - 1) /\ {o[1], o[2]} \notin undone
    BY DEF ApartInv, ScanOlder
  <2>2. nextPayee \notin {o[1], o[2]} BY <2>1 DEF ApartInv, PayeesNumbered
  <2>3. {o[1], o[2]} # {r.keeper, nextPayee} BY <2>2
  <2>4. {o[1], o[2]} \subseteq 1 .. nextPayee BY <2>1 DEF ApartInv, PayeesNumbered
  <2> QED BY <1>1, <2>1, <2>3, <2>4
<1> QED BY <1>2, <1>3, <1>4 DEF ApartInv

LEMMA ScanStartApart ==
  ASSUME ApartInv, ScanStart
  PROVE  ApartInv'
<1>1. scan' = Proposals /\ UNCHANGED <<payee, nextPayee, dismissed, undone>>
  BY DEF ScanStart
<1>2. \A o \in Proposals : {o[1], o[2]} \subseteq DOMAIN payee /\ {o[1], o[2]} \notin dismissed
  BY DEF Proposals
<1>3. ScanOlder' BY <1>1, <1>2 DEF ApartInv, ScanOlder, UndoneDismissed, PayeesNumbered
<1> QED BY <1>1, <1>3 DEF ApartInv, UndoneDismissed, PayeesNumbered

LEMMA PayeeStepApart ==
  ASSUME ApartInv, [PayeeNext]_payeeVars
  PROVE  ApartInv'
<1>0. ASSUME UNCHANGED <<payee, nextPayee, dismissed, undone, scan>> PROVE ApartInv'
  BY <1>0 DEF ApartInv, PayeesNumbered, UndoneDismissed, ScanOlder
<1>n. nextPayee \in Nat /\ DOMAIN payee \subseteq 1 .. (nextPayee - 1) /\ undone \subseteq dismissed
  BY DEF ApartInv, PayeesNumbered, UndoneDismissed
<1>1. ASSUME NEW s \in Names, CreatePayee(s) PROVE ApartInv'
  <2>1. Born(s) /\ UNCHANGED <<dismissed, undone, scan>> BY <1>1 DEF CreatePayee
  <2> QED BY <1>n, <2>1, BornNumbers, ApartKept
<1>2. ASSUME NEW r \in RowIds, NEW s \in Names, MatchOrCreate(r, s) PROVE ApartInv'
  <2>1. UNCHANGED <<dismissed, undone, scan>> BY <1>2 DEF MatchOrCreate
  <2>2. Born(s) \/ UNCHANGED <<payee, nextPayee>> BY <1>2 DEF MatchOrCreate
  <2>3. CASE Born(s) BY <1>n, <2>1, <2>3, BornNumbers, ApartKept
  <2> QED BY <1>0, <2>1, <2>2, <2>3
<1>3. ASSUME NEW p \in Ids, NEW s \in Names, RenamePayee(p, s) PROVE ApartInv'
  <2>1. DOMAIN payee' = DOMAIN payee /\ UNCHANGED <<nextPayee, dismissed, undone, scan>>
    BY <1>3 DEF RenamePayee
  <2> QED BY <1>n, <2>1, ApartKept
<1>4. ASSUME NEW p \in Ids, NEW s \in Names, AddIdentity(p, s) PROVE ApartInv'
  BY <1>0, <1>4 DEF AddIdentity
<1>5. ASSUME NEW p \in Ids, DeletePayee(p) PROVE ApartInv'
  <2>1. payee' = Without(payee, {p}) /\ Dropped({p}) /\ UNCHANGED <<nextPayee, scan>>
    BY <1>5 DEF DeletePayee
  <2>2. DOMAIN payee' \subseteq DOMAIN payee BY <2>1 DEF Without
  <2>3. undone' \subseteq undone /\ undone' \subseteq dismissed' BY <2>1, DropsAgree
  <2>4. nextPayee' = nextPayee /\ scan' = scan /\ DOMAIN payee' \subseteq 1 .. (nextPayee' - 1)
    BY <1>n, <2>1, <2>2
  <2> QED BY <1>n, <2>3, <2>4, ApartKept
<1>6. ASSUME NEW r \in RowIds, NEW p \in Ids, MoveRow(r, p) PROVE ApartInv'
  BY <1>0, <1>6 DEF MoveRow
<1>7. ASSUME NEW i \in IdentIds, DeleteIdentity(i) \/ \E s \in Names : UpdateIdentity(i, s) PROVE ApartInv'
  BY <1>0, <1>7 DEF UpdateIdentity, DeleteIdentity
<1>8. ASSUME NEW k \in Ids, NEW S \in SUBSET Ids, NEW s \in Names, MergeByHand(k, S, s) PROVE ApartInv'
  <2>1. MergedInto(k, S, s) /\ Dropped(S) /\ UNCHANGED <<nextPayee, scan>> BY <1>8 DEF MergeByHand
  <2> QED BY <1>n, <2>1, MergeNumbers, DropsAgree, ApartKept
<1>9. ASSUME NEW p \in Ids, NEW q \in Ids, Dismiss(p, q) PROVE ApartInv'
  <2>1. dismissed \subseteq dismissed' /\ UNCHANGED <<payee, nextPayee, undone, scan>> BY <1>9 DEF Dismiss
  <2> QED BY <1>n, <2>1, ApartKept
<1>10. ASSUME NEW pq \in scan, ScanMerge(pq) PROVE ApartInv'
  <2>1. CASE {pq[1], pq[2]} \subseteq DOMAIN payee
    <3>1. /\ MergedInto(pq[1], {pq[2]}, payee[pq[1]]) /\ nextPayee' = nextPayee
          /\ dismissed' = {d \in dismissed : pq[2] \notin d}
          /\ undone' = {d \in undone : pq[2] \notin d}
          /\ scan' \subseteq scan
      BY <1>10, <2>1 DEF ScanMerge
    <3>2. undone' \subseteq undone /\ undone' \subseteq dismissed' BY <1>n, <3>1
    <3> QED BY <1>n, <3>1, <3>2, MergeNumbers, ApartKept
  <2>2. CASE ~ {pq[1], pq[2]} \subseteq DOMAIN payee
    <3>1. scan' = {} /\ UNCHANGED <<payee, nextPayee, dismissed, undone>> BY <1>10, <2>2 DEF ScanMerge
    <3> QED BY <1>n, <3>1, ApartKept
  <2> QED BY <2>1, <2>2
<1>11. ASSUME NEW r \in record, Expire(r) PROVE ApartInv'
  BY <1>0, <1>11 DEF Expire
<1>12. CASE UNCHANGED payeeVars BY <1>0, <1>12 DEF payeeVars
<1> QED BY <1>1, <1>2, <1>3, <1>4, <1>5, <1>6, <1>7, <1>8, <1>9, <1>10, <1>11, <1>12,
       UndoApart, ScanStartApart DEF PayeeNext

\* However many scans run, and whatever is undone, dismissed, deleted or merged by hand
\* while one is between two of its merges, no scan merges a pair an undo put apart
\* (scan, _auto_merge, undo).
THEOREM UndoneMergesStayUndone == PayeeSpec => UndoneStayApart
<1>1. PayeeInit => ApartInv
  BY DEF PayeeInit, ApartInv, PayeesNumbered, UndoneDismissed, ScanOlder
<1>2. ApartInv /\ [PayeeNext]_payeeVars => ApartInv'
  BY PayeeStepApart
<1>3. ApartInv /\ [PayeeNext]_payeeVars =>
        [\A pq \in scan : ScanMerge(pq) /\ payee' # payee => {pq[1], pq[2]} \notin undone]_payeeVars
  BY DEF ApartInv, ScanOlder
<1> QED BY <1>1, <1>2, <1>3, PTL DEF PayeeSpec, UndoneStayApart

-----------------------------------------------------------------------------
(* Planned transactions: an occurrence is posted once.                     *)

Occurrences == PlanIds \X DayRange

RowsPlaced ==
  /\ nextRow \in Nat \ {0} /\ DOMAIN row \subseteq 1 .. (nextRow - 1)
  /\ \A r \in DOMAIN row : {"plan", "day"} \subseteq DOMAIN row[r]

Counted == posted \in [Occurrences -> Nat] /\ freed \in [Occurrences -> Nat]

\* What was posted and not let go is in the ledger, under its plan and its day.
Standing ==
  \A o \in Occurrences :
    posted[o] <= freed[o] \/ (posted[o] = freed[o] + 1 /\ FindPosted(o[1], o[2]) # {})

PostInv == RowsPlaced /\ Counted /\ Standing

\* The three things a step may do to an occurrence: leave its count and its row, let its
\* row go, or post it where it was not found.
LEMMA StandingKept ==
  ASSUME PostInv, RowsPlaced', Counted',
         \A o \in Occurrences :
           \/ /\ posted'[o] = posted[o] /\ freed'[o] = freed[o]
              /\ FindPosted(o[1], o[2]) # {} => FindPosted(o[1], o[2])' # {}
           \/ freed'[o] = posted'[o]
           \/ /\ posted'[o] = posted[o] + 1 /\ freed'[o] = freed[o]
              /\ FindPosted(o[1], o[2]) = {} /\ FindPosted(o[1], o[2])' # {}
  PROVE  PostInv'
<1>1. ASSUME NEW o \in Occurrences
      PROVE  posted'[o] <= freed'[o] \/ (posted'[o] = freed'[o] + 1 /\ FindPosted(o[1], o[2])' # {})
  <2>1. posted[o] \in Nat /\ freed[o] \in Nat /\ posted'[o] \in Nat /\ freed'[o] \in Nat
    BY DEF PostInv, Counted
  <2>2. posted[o] <= freed[o] \/ (posted[o] = freed[o] + 1 /\ FindPosted(o[1], o[2]) # {})
    BY DEF PostInv, Standing
  <2> QED BY <2>1, <2>2
<1> QED BY <1>1 DEF PostInv, Standing

\* A step that touches no plan's row and no count.
LEMMA RowsStand ==
  ASSUME PostInv, RowsPlaced', UNCHANGED <<posted, freed>>,
         \A r \in DOMAIN row : row[r].plan # 0 =>
           r \in DOMAIN row' /\ row'[r].plan = row[r].plan /\ row'[r].day = row[r].day
  PROVE  PostInv'
<1>1. Counted' BY DEF PostInv, Counted
<1>2. ASSUME NEW o \in Occurrences, FindPosted(o[1], o[2]) # {} PROVE FindPosted(o[1], o[2])' # {}
  <2>1. o[1] # 0 BY PlannedAssumption DEF Occurrences
  <2> QED BY <1>2, <2>1 DEF FindPosted
<1> QED BY <1>1, <1>2, StandingKept

\* The first leg of what is posted carries the plan and the day.
LEMMA LegRowsShape ==
  ASSUME NEW p, NEW d, NEW n \in Nat \ {0}
  PROVE  /\ n \in DOMAIN LegRows(p, d, n) /\ Legs(p) \in {1, 2}
         /\ DOMAIN LegRows(p, d, n) = n .. (n + Legs(p) - 1)
         /\ LegRows(p, d, n)[n].plan = p /\ LegRows(p, d, n)[n].day = d
         /\ \A r \in DOMAIN LegRows(p, d, n) : {"plan", "day"} \subseteq DOMAIN LegRows(p, d, n)[r]
<1>1. Legs(p) \in {1, 2} BY DEF Legs
<1> QED BY <1>1 DEF LegRows

\* New rows join the old ones, which stay as they are.
LEMMA JoinedRows ==
  ASSUME NEW more
  PROVE  /\ DOMAIN WithAll(row, more) = DOMAIN row \cup DOMAIN more
         /\ \A r \in DOMAIN row : WithAll(row, more)[r] = row[r]
         /\ \A r \in DOMAIN more \ DOMAIN row : WithAll(row, more)[r] = more[r]
BY DEF WithAll

\* post_due posts what it does not find.
LEMMA PostNextStands ==
  ASSUME PostInv, NEW s, PostNext(s)
  PROVE  PostInv'
<1>0. PICK o : o = Head(poster[s].todo) OBVIOUS
<1> DEFINE more == LegRows(o[1], o[2], nextRow)
<1>1. CASE UNCHANGED <<row, nextRow, posted, freed>>
  <2>1. RowsPlaced' BY <1>1 DEF PostInv, RowsPlaced
  <2> QED BY <1>1, <2>1, RowsStand
<1>2. CASE ~ UNCHANGED <<row, nextRow, posted, freed>>
  <2>1. /\ FindPosted(o[1], o[2]) = {}
        /\ row' = WithAll(row, more) /\ nextRow' = nextRow + Legs(o[1])
        /\ posted' = [posted EXCEPT ![o] = @ + 1] /\ freed' = freed
    BY <1>0, <1>2 DEF PostNext, Inserted
  <2>2. nextRow \in Nat \ {0} /\ nextRow \notin DOMAIN row /\ DOMAIN row \subseteq 1 .. (nextRow - 1)
    BY DEF PostInv, RowsPlaced
  <2>3. /\ nextRow \in DOMAIN more /\ Legs(o[1]) \in {1, 2}
        /\ DOMAIN more = nextRow .. (nextRow + Legs(o[1]) - 1)
        /\ more[nextRow].plan = o[1] /\ more[nextRow].day = o[2]
        /\ \A r \in DOMAIN more : {"plan", "day"} \subseteq DOMAIN more[r]
    BY <2>2, LegRowsShape
  <2> HIDE DEF more
  <2>4. /\ DOMAIN row' = DOMAIN row \cup DOMAIN more
        /\ \A r \in DOMAIN row : row'[r] = row[r]
        /\ \A r \in DOMAIN more \ DOMAIN row : row'[r] = more[r]
    BY <2>1, JoinedRows
  <2>5. RowsPlaced'
    <3>1. nextRow' \in Nat \ {0} /\ DOMAIN row' \subseteq 1 .. (nextRow' - 1)
      BY <2>1, <2>2, <2>3, <2>4
    <3>2. \A r \in DOMAIN row' : {"plan", "day"} \subseteq DOMAIN row'[r]
      BY <2>3, <2>4 DEF PostInv, RowsPlaced
    <3> QED BY <3>1, <3>2 DEF RowsPlaced
  <2>6. Counted'
    <3>1. DOMAIN posted' = Occurrences BY <2>1 DEF PostInv, Counted
    <3>2. ASSUME NEW q \in Occurrences PROVE posted'[q] \in Nat
      <4>1. CASE q = o BY <2>1, <4>1 DEF PostInv, Counted
      <4>2. CASE q # o BY <2>1, <4>2 DEF PostInv, Counted
      <4> QED BY <4>1, <4>2
    <3>3. posted' = [q \in Occurrences |-> posted'[q]] BY <2>1, <3>1 DEF PostInv, Counted
    <3> QED BY <2>1, <3>2, <3>3 DEF PostInv, Counted
  <2>7. nextRow \in FindPosted(o[1], o[2])' BY <2>2, <2>3, <2>4 DEF FindPosted
  <2>8. ASSUME NEW q \in Occurrences
        PROVE  \/ /\ posted'[q] = posted[q] /\ freed'[q] = freed[q]
                  /\ FindPosted(q[1], q[2]) # {} => FindPosted(q[1], q[2])' # {}
               \/ /\ posted'[q] = posted[q] + 1 /\ freed'[q] = freed[q]
                  /\ FindPosted(q[1], q[2]) = {} /\ FindPosted(q[1], q[2])' # {}
    <3>1. CASE q = o BY <2>1, <2>7, <3>1 DEF PostInv, Counted
    <3>2. CASE q # o
      <4>1. posted'[q] = posted[q] BY <2>1, <3>2 DEF PostInv, Counted
      <4>2. FindPosted(q[1], q[2]) \subseteq FindPosted(q[1], q[2])' BY <2>4 DEF FindPosted
      <4> QED BY <2>1, <4>1, <4>2
    <3> QED BY <3>1, <3>2
  <2> QED BY <2>5, <2>6, <2>8, StandingKept
<1> QED BY <1>1, <1>2

\* The rows of a batch do not overlap, so each occurrence has its own.
LEMMA BatchRowsShape ==
  ASSUME nextRow \in Nat \ {0}, NEW new, NEW last \in Nat, nextRow + SizeOf(new) = last,
         NEW first \in IdsGiven(new)
  PROVE  /\ DOMAIN BatchRows(new, first) \subseteq nextRow .. (last - 1)
         /\ \A o \in new : /\ first[o] \in DOMAIN BatchRows(new, first)
                           /\ BatchRows(new, first)[first[o]].plan = o[1]
                           /\ BatchRows(new, first)[first[o]].day = o[2]
         /\ \A r \in DOMAIN BatchRows(new, first) :
              {"plan", "day"} \subseteq DOMAIN BatchRows(new, first)[r]
<1> DEFINE IdsOf(o) == first[o] .. (first[o] + Legs(o[1]) - 1)
<1>1. \A p : Legs(p) \in {1, 2} BY DEF Legs
<1>2. \A o \in new : first[o] \in Int /\ nextRow <= first[o] /\ first[o] + Legs(o[1]) <= last
  <2>1. first \in [new -> nextRow .. (nextRow + SizeOf(new) - 1)] BY DEF IdsGiven
  <2>2. \A o \in new : first[o] + Legs(o[1]) <= nextRow + SizeOf(new) BY DEF IdsGiven
  <2>3. \A o \in new : first[o] \in Int /\ nextRow <= first[o] BY <2>1
  <2> QED BY <2>2, <2>3
<1>3. \A o, q \in new : o # q => \/ first[o] + Legs(o[1]) <= first[q]
                                 \/ first[q] + Legs(q[1]) <= first[o]
  BY DEF IdsGiven
<1>5. \A o \in new : first[o] \in Nat \ {0} /\ first[o] \in IdsOf(o)
                     /\ IdsOf(o) \subseteq nextRow .. (last - 1)
  <2> SUFFICES ASSUME NEW o \in new
               PROVE  first[o] \in Nat \ {0} /\ first[o] \in IdsOf(o)
                      /\ IdsOf(o) \subseteq nextRow .. (last - 1)
    OBVIOUS
  <2>1. Legs(o[1]) \in {1, 2} BY <1>1
  <2>2. first[o] \in Int /\ nextRow <= first[o] /\ first[o] + Legs(o[1]) <= last
    BY <1>2
  <2> QED BY <2>1, <2>2
<1>6. \A o, q \in new : \A r \in IdsOf(o) : r \in IdsOf(q) => o = q
  <2> SUFFICES ASSUME NEW o \in new, NEW q \in new, NEW r \in IdsOf(o), r \in IdsOf(q), o # q PROVE FALSE
    OBVIOUS
  <2>1. first[o] \in Nat /\ first[q] \in Nat BY <1>5
  <2> QED BY <1>1, <1>3, <2>1
<1>7. /\ DOMAIN BatchRows(new, first) = UNION {IdsOf(o) : o \in new}
      /\ \A r \in DOMAIN BatchRows(new, first) :
           BatchRows(new, first)[r] =
             LegRows((CHOOSE o \in new : r \in IdsOf(o))[1], (CHOOSE o \in new : r \in IdsOf(o))[2],
                     first[CHOOSE o \in new : r \in IdsOf(o)])[r]
  BY DEF BatchRows
<1> HIDE DEF IdsOf
<1>8. ASSUME NEW o \in new, NEW r \in IdsOf(o)
      PROVE  r \in DOMAIN BatchRows(new, first)
             /\ BatchRows(new, first)[r] = LegRows(o[1], o[2], first[o])[r]
  <2>1. (CHOOSE q \in new : r \in IdsOf(q)) = o BY <1>6
  <2>2. r \in DOMAIN BatchRows(new, first) BY <1>7
  <2> QED BY <1>7, <2>1, <2>2
<1>9. ASSUME NEW o \in new
      PROVE  /\ first[o] \in DOMAIN BatchRows(new, first)
             /\ BatchRows(new, first)[first[o]].plan = o[1]
             /\ BatchRows(new, first)[first[o]].day = o[2]
  BY <1>5, <1>8, LegRowsShape
<1>10. ASSUME NEW r \in DOMAIN BatchRows(new, first)
       PROVE  {"plan", "day"} \subseteq DOMAIN BatchRows(new, first)[r]
  <2>1. PICK o \in new : r \in IdsOf(o) BY <1>7
  <2>2. r \in DOMAIN LegRows(o[1], o[2], first[o])
    BY <2>1, <1>5, LegRowsShape DEF IdsOf
  <2> QED BY <2>1, <2>2, <1>5, <1>8, LegRowsShape
<1> QED BY <1>5, <1>7, <1>9, <1>10

\* post_occurrences posts what it does not find, all of it or nothing.
LEMMA PostBatchStands ==
  ASSUME PostInv, NEW s, PostBatch(s)
  PROVE  PostInv'
<1> DEFINE new == {o \in ToSet(poster[s].todo) : FindPosted(o[1], o[2]) = {}}
<1>0. \A o \in new : FindPosted(o[1], o[2]) = {} OBVIOUS
<1>1. CASE UNCHANGED <<row, nextRow, posted, freed>>
  <2>1. RowsPlaced' BY <1>1 DEF PostInv, RowsPlaced
  <2> QED BY <1>1, <2>1, RowsStand
<1>2. CASE ~ UNCHANGED <<row, nextRow, posted, freed>>
  <2>1. /\ nextRow' = nextRow + SizeOf(new) /\ nextRow' \in nextRow .. (MaxPosted + 1)
        /\ \E first \in IdsGiven(new) : row' = WithAll(row, BatchRows(new, first))
        /\ posted' = [o \in DOMAIN posted |-> IF o \in new THEN posted[o] + 1 ELSE posted[o]]
        /\ freed' = freed
    BY <1>2 DEF PostBatch
  <2> HIDE DEF new
  <2>2. PICK first \in IdsGiven(new) : row' = WithAll(row, BatchRows(new, first)) BY <2>1
  <2> DEFINE more == BatchRows(new, first)
  <2>3. /\ nextRow \in Nat \ {0} /\ DOMAIN row \subseteq 1 .. (nextRow - 1)
        /\ nextRow + SizeOf(new) \in Nat /\ nextRow' \in Nat \ {0} /\ nextRow <= nextRow'
    BY <2>1 DEF PostInv, RowsPlaced
  <2>4. /\ DOMAIN more \subseteq nextRow .. (nextRow' - 1)
        /\ \A o \in new : first[o] \in DOMAIN more /\ more[first[o]].plan = o[1] /\ more[first[o]].day = o[2]
        /\ \A r \in DOMAIN more : {"plan", "day"} \subseteq DOMAIN more[r]
    BY <2>1, <2>3, BatchRowsShape
  <2>5. /\ DOMAIN row' = DOMAIN row \cup DOMAIN more
        /\ \A r \in DOMAIN row : row'[r] = row[r]
        /\ \A r \in DOMAIN more \ DOMAIN row : row'[r] = more[r]
    BY <2>2, JoinedRows
  <2> HIDE DEF more
  <2>6. DOMAIN more \cap DOMAIN row = {} BY <2>3, <2>4
  <2>7. RowsPlaced'
    <3>1. DOMAIN row' \subseteq 1 .. (nextRow' - 1) BY <2>3, <2>4, <2>5
    <3>2. \A r \in DOMAIN row' : {"plan", "day"} \subseteq DOMAIN row'[r]
      BY <2>4, <2>5, <2>6 DEF PostInv, RowsPlaced
    <3> QED BY <2>3, <3>1, <3>2 DEF RowsPlaced
  <2>8. Counted' BY <2>1 DEF PostInv, Counted
  <2>9. ASSUME NEW q \in Occurrences
        PROVE  \/ /\ posted'[q] = posted[q] /\ freed'[q] = freed[q]
                  /\ FindPosted(q[1], q[2]) # {} => FindPosted(q[1], q[2])' # {}
               \/ /\ posted'[q] = posted[q] + 1 /\ freed'[q] = freed[q]
                  /\ FindPosted(q[1], q[2]) = {} /\ FindPosted(q[1], q[2])' # {}
    <3>1. CASE q \in new
      <4>1. first[q] \in FindPosted(q[1], q[2])' BY <2>4, <2>5, <2>6, <3>1 DEF FindPosted
      <4> QED BY <1>0, <2>1, <3>1, <4>1 DEF PostInv, Counted, new
    <3>2. CASE q \notin new
      <4>1. posted'[q] = posted[q] BY <2>1, <3>2 DEF PostInv, Counted
      <4>2. FindPosted(q[1], q[2]) \subseteq FindPosted(q[1], q[2])' BY <2>5 DEF FindPosted
      <4> QED BY <2>1, <4>1, <4>2
    <3> QED BY <3>1, <3>2
  <2> QED BY <2>7, <2>8, <2>9, StandingKept
<1> QED BY <1>1, <1>2

\* A row that is moved, deleted or left without its plan lets its occurrence go.
LEMMA LetGoStands ==
  ASSUME PostInv
  PROVE  /\ \A p \in PlanIds : DeletePlan(p) => PostInv'
         /\ \A r \in DOMAIN row, d \in DayRange : MovePosted(r, d) => PostInv'
         /\ \A r \in DOMAIN row : DeleteRow(r) => PostInv'
<1>0. ASSUME NEW o \in Occurrences PROVE o[1] # 0 /\ o = <<o[1], o[2]>> /\ o[1] \in PlanIds
  BY PlannedAssumption DEF Occurrences
<1>t. Counted BY DEF PostInv
<1>1. ASSUME NEW p \in PlanIds, DeletePlan(p) PROVE PostInv'
  <2>1. /\ row' = [r \in DOMAIN row |-> IF row[r].plan = p THEN [row[r] EXCEPT !.plan = 0] ELSE row[r]]
        /\ freed' = [o \in DOMAIN freed |-> IF o[1] = p THEN posted[o] ELSE freed[o]]
        /\ UNCHANGED <<nextRow, posted>>
    BY <1>1 DEF DeletePlan
  <2>2. RowsPlaced' BY <2>1 DEF PostInv, RowsPlaced
  <2>3. Counted' BY <1>t, <2>1 DEF Counted
  <2>4. ASSUME NEW o \in Occurrences
        PROVE  \/ /\ posted'[o] = posted[o] /\ freed'[o] = freed[o]
                  /\ FindPosted(o[1], o[2]) # {} => FindPosted(o[1], o[2])' # {}
               \/ freed'[o] = posted'[o]
    <3>1. CASE o[1] = p BY <1>t, <2>1, <3>1 DEF Counted
    <3>2. CASE o[1] # p
      <4>1. freed'[o] = freed[o] /\ posted'[o] = posted[o] BY <1>t, <2>1, <3>2 DEF Counted
      <4>2. FindPosted(o[1], o[2]) \subseteq FindPosted(o[1], o[2])' BY <2>1, <3>2 DEF FindPosted
      <4> QED BY <4>1, <4>2
    <3> QED BY <3>1, <3>2
  <2> QED BY <2>2, <2>3, <2>4, StandingKept
<1>2. ASSUME NEW r \in DOMAIN row,
             freed' = [o \in DOMAIN freed |-> IF row[r].plan # 0 /\ o = <<row[r].plan, row[r].day>>
                                              THEN posted[o] ELSE freed[o]],
             RowsPlaced', UNCHANGED posted,
             \A x \in DOMAIN row : x # r => x \in DOMAIN row' /\ row'[x] = row[x]
      PROVE  PostInv'
  <2>1. Counted' BY <1>t, <1>2 DEF Counted
  <2>2. ASSUME NEW o \in Occurrences
        PROVE  \/ /\ posted'[o] = posted[o] /\ freed'[o] = freed[o]
                  /\ FindPosted(o[1], o[2]) # {} => FindPosted(o[1], o[2])' # {}
               \/ freed'[o] = posted'[o]
    <3>1. CASE row[r].plan # 0 /\ o = <<row[r].plan, row[r].day>>
      BY <1>t, <1>2, <3>1 DEF Counted
    <3>2. CASE ~ (row[r].plan # 0 /\ o = <<row[r].plan, row[r].day>>)
      <4>1. freed'[o] = freed[o] /\ posted'[o] = posted[o] BY <1>t, <1>2, <3>2 DEF Counted
      <4>2. r \notin FindPosted(o[1], o[2]) BY <1>0, <3>2 DEF FindPosted
      <4>3. FindPosted(o[1], o[2]) \subseteq FindPosted(o[1], o[2])' BY <1>2, <4>2 DEF FindPosted
      <4> QED BY <4>1, <4>3
    <3> QED BY <3>1, <3>2
  <2> QED BY <1>2, <2>1, <2>2, StandingKept
<1>3. ASSUME NEW r \in DOMAIN row, NEW d \in DayRange, MovePosted(r, d) PROVE PostInv'
  <2>1. row' = [row EXCEPT ![r].day = d] /\ UNCHANGED <<nextRow, posted>> BY <1>3 DEF MovePosted
  <2>2. RowsPlaced' BY <2>1 DEF PostInv, RowsPlaced
  <2>3. \A x \in DOMAIN row : x # r => x \in DOMAIN row' /\ row'[x] = row[x] BY <2>1
  <2> QED BY <1>2, <1>3, <2>1, <2>2, <2>3 DEF MovePosted
<1>4. ASSUME NEW r \in DOMAIN row, DeleteRow(r) PROVE PostInv'
  <2>1. row' = Without(row, {r}) /\ UNCHANGED <<nextRow, posted>> BY <1>4 DEF DeleteRow
  <2>2. RowsPlaced' BY <2>1 DEF PostInv, RowsPlaced, Without
  <2>3. \A x \in DOMAIN row : x # r => x \in DOMAIN row' /\ row'[x] = row[x] BY <2>1 DEF Without
  <2> QED BY <1>2, <1>4, <2>1, <2>2, <2>3 DEF DeleteRow
<1> QED BY <1>1, <1>3, <1>4

\* The rest touches no row that has a plan.
LEMMA OthersStand ==
  ASSUME PostInv
  PROVE  /\ UNCHANGED <<row, nextRow, posted, freed>> => PostInv'
         /\ \A d \in DayRange, a \in {1, 2} : Pay(d, a) => PostInv'
         /\ \A p \in PlanIds, S \in SUBSET (DOMAIN row) : LinkHistory(p, S) => PostInv'
<1>1. ASSUME UNCHANGED <<row, nextRow, posted, freed>> PROVE PostInv'
  <2>1. RowsPlaced' BY <1>1 DEF PostInv, RowsPlaced
  <2> QED BY <1>1, <2>1, RowsStand
<1>2. ASSUME NEW d \in DayRange, NEW a \in {1, 2}, Pay(d, a) PROVE PostInv'
  <2>1. /\ row' = With(row, nextRow, [plan |-> 0, day |-> d, mate |-> 0, amount |-> a])
        /\ nextRow' = nextRow + 1 /\ UNCHANGED <<posted, freed>>
    BY <1>2 DEF Pay
  <2>2. /\ DOMAIN row' = DOMAIN row \cup {nextRow} /\ {"plan", "day"} \subseteq DOMAIN row'[nextRow]
        /\ \A r \in DOMAIN row : row'[r] = row[r]
    BY <2>1 DEF With, PostInv, RowsPlaced
  <2>3. RowsPlaced' BY <2>1, <2>2 DEF PostInv, RowsPlaced
  <2> QED BY <2>1, <2>2, <2>3, RowsStand
<1>3. ASSUME NEW p \in PlanIds, NEW S \in SUBSET (DOMAIN row), LinkHistory(p, S) PROVE PostInv'
  <2> DEFINE free == {r \in S : row[r].plan = 0 /\ row[r].mate = 0 /\ row[r].day < plan[p].start}
             head == {r \in free : \A q \in free : row[q].day = row[r].day => r <= q}
  <2>1. /\ row' = [r \in DOMAIN row |-> IF r \in head THEN [row[r] EXCEPT !.plan = p] ELSE row[r]]
        /\ UNCHANGED <<nextRow, posted, freed>>
    BY <1>3 DEF LinkHistory
  <2>2. \A r \in head : row[r].plan = 0 OBVIOUS
  <2> HIDE DEF head
  <2>3. RowsPlaced' BY <2>1 DEF PostInv, RowsPlaced
  <2>4. \A r \in DOMAIN row : row[r].plan # 0 =>
          r \in DOMAIN row' /\ row'[r].plan = row[r].plan /\ row'[r].day = row[r].day
    BY <2>1, <2>2
  <2> QED BY <2>1, <2>3, <2>4, RowsStand
<1> QED BY <1>1, <1>2, <1>3

\* However many sessions post, one by one or in batches, and whatever is edited, paused,
\* moved, linked or deleted between what they read and what they write, a second row is
\* inserted for an occurrence only after the first was deleted, moved away or let go with
\* its plan (_ensure_posted, post_due, post_occurrences).
THEOREM OccurrencesPostedOnce == PlannedSpec => []PostedOnce
<1>1. PlannedInit => PostInv
  BY DEF PlannedInit, PostInv, RowsPlaced, Counted, Standing, Occurrences
<1>2. PostInv /\ [PlannedNext]_plannedVars => PostInv'
  <2> SUFFICES ASSUME PostInv, [PlannedNext]_plannedVars PROVE PostInv' OBVIOUS
  <2>1. CASE UNCHANGED plannedVars BY <2>1, OthersStand DEF plannedVars
  <2>2. CASE \E p \in PlanIds, new \in Plan : WritePlan(p, new) BY <2>2, OthersStand DEF WritePlan
  <2>3. CASE \E s \in Posters : PostDueRead(s) \/ BatchRead(s)
    BY <2>3, OthersStand DEF PostDueRead, BatchRead
  <2>4. CASE \E s \in Posters : PostNext(s) \/ PostBatch(s) BY <2>4, PostNextStands, PostBatchStands
  <2>5. CASE \E p \in PlanIds, a \in {1, 2} : AcceptDrift(p, a) BY <2>5, OthersStand DEF AcceptDrift
  <2>6. CASE \/ \E p \in PlanIds : DeletePlan(p)
             \/ \E r \in DOMAIN row, d \in DayRange : MovePosted(r, d)
             \/ \E r \in DOMAIN row : DeleteRow(r)
    BY <2>6, LetGoStands
  <2>7. CASE \/ \E d \in DayRange, a \in {1, 2} : Pay(d, a)
             \/ \E p \in PlanIds, S \in SUBSET (DOMAIN row) : LinkHistory(p, S)
    BY <2>7, OthersStand
  <2> QED BY <2>1, <2>2, <2>3, <2>4, <2>5, <2>6, <2>7 DEF PlannedNext
<1>3. PostInv => PostedOnce
  BY DEF PostInv, Counted, Standing, PostedOnce
<1> QED BY <1>1, <1>2, <1>3, PTL DEF PlannedSpec

-----------------------------------------------------------------------------
(* Categories: what a merge keeps.                                         *)

EntriesHaveCategory == \A e \in DOMAIN entry : "cat" \in DOMAIN entry[e]

\* Rows are only ever rewritten in a field.
LEMMA EntriesStayShaped ==
  ASSUME EntriesHaveCategory, [HouseNext]_houseVars
  PROVE  EntriesHaveCategory'
<1>0. ASSUME entry' = entry PROVE EntriesHaveCategory' BY <1>0 DEF EntriesHaveCategory
<1>1. CASE \E n \in CatNames, t \in {"income", "expense"}, p \in CatIds \cup {0} :
             CreateCategory(n, t, p) \/ \E c \in CatIds : UpdateCategory(c, n, t, p)
  BY <1>0, <1>1 DEF CreateCategory, UpdateCategory
<1>2. ASSUME NEW c \in CatIds, DeleteCategory(c) PROVE EntriesHaveCategory'
  <2>1. entry' = [e \in DOMAIN entry |-> IF entry[e].cat \in Below(c)
                                         THEN [entry[e] EXCEPT !.cat = 0] ELSE entry[e]]
    BY <1>2 DEF DeleteCategory, Deleted
  <2> QED BY <2>1 DEF EntriesHaveCategory
<1>3. CASE EnsureRoot BY <1>0, <1>3 DEF EnsureRoot
<1>4. ASSUME NEW d \in Entries, NEW c \in CatIds, Categorise(d, c) PROVE EntriesHaveCategory'
  BY <1>4 DEF Categorise, EntriesHaveCategory
<1>5. CASE \E r \in Rules, c \in CatIds : AddRule(r, c) BY <1>0, <1>5 DEF AddRule
<1>6. CASE \E c \in CatIds, m \in Months : SetBudget(c, m) BY <1>0, <1>6 DEF SetBudget
<1>7. ASSUME NEW k \in CatIds, NEW S \in SUBSET CatIds, MergeCategories(k, S) PROVE EntriesHaveCategory'
  <2>1. entry' = [e \in DOMAIN entry |->
                    IF entry[e].cat \in S THEN [entry[e] EXCEPT !.cat = k] ELSE entry[e]]
    BY <1>7 DEF MergeCategories
  <2> QED BY <2>1 DEF EntriesHaveCategory
<1>8. ASSUME NEW k \in Entries, NEW S \in SUBSET Entries, MergeTransactions(k, S) PROVE EntriesHaveCategory'
  <2>1. /\ DOMAIN entry' \subseteq DOMAIN entry
        /\ \A e \in DOMAIN entry' : DOMAIN entry'[e] = DOMAIN entry[e]
    BY <1>8 DEF MergeTransactions
  <2> QED BY <2>1 DEF EntriesHaveCategory
<1>9. CASE UNCHANGED houseVars BY <1>0, <1>9 DEF houseVars
<1> QED BY <1>1, <1>2, <1>3, <1>4, <1>5, <1>6, <1>7, <1>8, <1>9 DEF HouseNext

\* What one merge of categories does to rows and budgets.
LEMMA MergeKeeps ==
  ASSUME EntriesHaveCategory, NEW k \in CatIds, NEW S \in SUBSET CatIds, MergeCategories(k, S)
  PROVE  /\ \A e \in DOMAIN entry : entry[e].cat # 0 => entry'[e].cat # 0
         /\ \A c \in S \cup {k}, m \in Months :
               <<c, m>> \in DOMAIN budget => <<k, m>> \in DOMAIN budget'
         /\ \A m \in Months : <<k, m>> \in DOMAIN budget =>
               budget'[<<k, m>>] = budget[<<k, m>>]
<1> DEFINE first(m) == Min({c \in S : <<c, m>> \in DOMAIN budget})
           gains == {m \in Months : /\ <<k, m>> \notin DOMAIN budget
                                    /\ \E c \in S : <<c, m>> \in DOMAIN budget}
           kept == {b \in DOMAIN budget : b[1] \notin S}
           lent(b) == IF b \in kept THEN budget[b] ELSE budget[<<first(b[2]), b[2]>>]
<1>1. /\ budget' = [b \in kept \cup ({k} \X gains) |-> lent(b)] /\ k \notin S
      /\ entry' = [e \in DOMAIN entry |->
                     IF entry[e].cat \in S THEN [entry[e] EXCEPT !.cat = k] ELSE entry[e]]
  BY DEF MergeCategories
<1>2. \A e \in DOMAIN entry : entry[e].cat # 0 => entry'[e].cat # 0
  BY <1>1 DEF EntriesHaveCategory, CatIds
<1>3. \A b \in kept : lent(b) = budget[b] OBVIOUS
<1>4. \A m \in Months : <<k, m>> \in DOMAIN budget => <<k, m>> \in kept BY <1>1
<1>5. \A c \in S, m \in Months : <<c, m>> \in DOMAIN budget => <<k, m>> \in DOMAIN budget \/ m \in gains
  OBVIOUS
<1> HIDE DEF gains, kept, lent
<1>6. DOMAIN budget' = kept \cup ({k} \X gains) /\ \A b \in kept : budget'[b] = lent(b) BY <1>1
<1>7. ASSUME NEW c \in S \cup {k}, NEW m \in Months, <<c, m>> \in DOMAIN budget
      PROVE  <<k, m>> \in DOMAIN budget'
  <2>1. <<k, m>> \in kept \/ m \in gains BY <1>4, <1>5, <1>7
  <2> QED BY <1>6, <2>1
<1>8. ASSUME NEW m \in Months, <<k, m>> \in DOMAIN budget PROVE budget'[<<k, m>>] = budget[<<k, m>>]
  BY <1>3, <1>4, <1>6, <1>8
<1> QED BY <1>2, <1>7, <1>8

\* Whatever categories there are and however they nest, merging some of them leaves every
\* row categorised, every month budgeted that was budgeted under one of them, and the
\* keeper's own budgets as they were (merge_categories).
THEOREM CategoryMergesKeepMoney == HouseSpec => CategoryMergeLosesNothing
<1>1. HouseInit => EntriesHaveCategory
  BY DEF HouseInit, EntriesHaveCategory
<1>2. EntriesHaveCategory /\ [HouseNext]_houseVars => EntriesHaveCategory'
  BY EntriesStayShaped
<1>3. EntriesHaveCategory /\ [HouseNext]_houseVars =>
        [DOMAIN cat' # DOMAIN cat => \A k \in CatIds, S \in SUBSET CatIds : MergeCategories(k, S) =>
          /\ \A e \in DOMAIN entry : entry[e].cat # 0 => entry'[e].cat # 0
          /\ \A c \in S \cup {k}, m \in Months :
                <<c, m>> \in DOMAIN budget => <<k, m>> \in DOMAIN budget'
          /\ \A m \in Months : <<k, m>> \in DOMAIN budget =>
                budget'[<<k, m>>] = budget[<<k, m>>]]_houseVars
  BY MergeKeeps
<1> QED BY <1>1, <1>2, <1>3, PTL DEF HouseSpec, CategoryMergeLosesNothing

-----------------------------------------------------------------------------
(* Least and greatest of a set of numbers.                                 *)

\* A nonempty set of numbers has a least one.
LEMMA LeastNumber ==
  ASSUME NEW T \in SUBSET Nat, T # {}
  PROVE  \E x \in T : \A y \in T : x <= y
<1> DEFINE R == StrictSubsetOrdering(Nat)
           F == FiniteSubsetsOf(Nat)
           Upto(x) == 0 .. x
           U == {Upto(x) : x \in T}
<1>1. IsWellFoundedOn(R, F)
  BY FS_StrictSubsetOrderingWellFounded
<1>2. U \subseteq F /\ U # {}
  <2>1. \A x \in T : IsFiniteSet(Upto(x)) /\ Upto(x) \in SUBSET Nat
    BY FS_Interval
  <2> QED BY <2>1 DEF FiniteSubsetsOf
<1> HIDE DEF U, R, F
<1>3. \E u \in U : \A v \in U : ~ (<<v, u>> \in R)
  BY <1>1, <1>2, WFMin
<1>4. PICK x \in T : \A y \in T : ~ (<<Upto(y), Upto(x)>> \in R)
  BY <1>3 DEF U
<1>5. ASSUME NEW y \in T, ~ (x <= y) PROVE FALSE
  <2>1. Upto(y) \subseteq Upto(x) /\ x \in Upto(x) /\ x \notin Upto(y)
        /\ Upto(y) \in SUBSET Nat /\ Upto(x) \in SUBSET Nat
    BY <1>5
  <2>2. <<Upto(y), Upto(x)>> \in R
    BY <2>1 DEF R, StrictSubsetOrdering
  <2> QED BY <1>4, <2>2
<1> QED BY <1>5

\* A set of numbers below a bound has a greatest one.
LEMMA GreatestNumber ==
  ASSUME NEW T \in SUBSET Nat, T # {}, NEW n \in Nat, \A x \in T : x <= n
  PROVE  \E x \in T : \A y \in T : x >= y
<1> DEFINE Gap(x) == n - x
           gaps == {Gap(x) : x \in T}
<1>1. gaps \in SUBSET Nat /\ gaps # {}
  <2>1. \A x \in T : x \in Nat /\ x <= n
    OBVIOUS
  <2>2. \A x \in T : Gap(x) \in Nat
    BY <2>1
  <2> QED BY <2>2
<1>2. PICK g \in gaps : \A h \in gaps : g <= h
  BY <1>1, LeastNumber
<1>3. PICK x \in T : g = Gap(x)
  BY <1>2
<1>4. ASSUME NEW y \in T PROVE x >= y
  <2>1. Gap(y) \in gaps
    OBVIOUS
  <2>2. n - x <= n - y
    BY <1>2, <1>3, <2>1
  <2>3. x \in Nat /\ y \in Nat
    OBVIOUS
  <2> QED BY <2>2, <2>3
<1> QED BY <1>3, <1>4

-----------------------------------------------------------------------------
(* The change history.  What a session notes of a row is what it will      *)
(* write of it: of the rows it has flushed, its newest entry is what it    *)
(* last wrote.  So the commit that moves a row also moves what is newest   *)
(* about it, whatever other sessions do.                                   *)

Val == Values \cup {Gone}
EntryRec == [id : Nat, op : {"INSERT", "DELETE", "UPDATE"}, record : Records, old : Val, new : Val, reverted : BOOLEAN]
Memory == [Records -> Val] \cup {<<>>}
Session ==
  [state : {"idle", "open", "flushing", "reverting"}, seen : Memory, now : Memory, dirty : SUBSET Records,
   held : SUBSET Records, silent : SUBSET Records, pending : Seq(EntryRec), entries : Seq(EntryRec), target : Nat]

\* Some entry of a log is about a row; the last one that is says what value it has.
Tells(log, r) == \E i \in DOMAIN log : log[i].record = r
LastSays(log, r, v) ==
  \A i \in DOMAIN log :
    (log[i].record = r /\ \A j \in DOMAIN log : log[j].record = r => j <= i) => log[i].new = v

AuditShape ==
  /\ rows \in [Records -> Val] /\ journal \in Seq(EntryRec) /\ work \in [AuditSessions -> Session]
  /\ given \in Nat /\ untold \subseteq Records

\* A transaction under way: what is not dirty is as it was flushed or read, of a row it did
\* not last write past the listeners the newest entry is what was flushed of it, and a flush
\* has noted what it writes.
UnderWay(w) ==
  w.state \in {"open", "flushing"} =>
    /\ w.seen \in [Records -> Val] /\ w.now \in [Records -> Val]
    /\ \A r, q \in w.dirty : r = q
    /\ \A r \in Records : r \notin w.dirty => w.now[r] = w.seen[r]
    /\ \A r \in Records : r \notin w.silent => LastSays(w.entries, r, w.seen[r])
    /\ \A r \in Records : Tells(w.entries, r) => r \in w.held
    /\ w.silent \subseteq w.held
    /\ w.state = "open" => w.pending = <<>> /\ \A r \in w.held \ w.silent : Tells(w.entries, r)
    /\ w.state = "flushing" =>
         \E r \in w.dirty : /\ r \in w.held /\ w.pending = <<Noted(w, r)>>
                            /\ \A q \in w.held \ w.silent : q # r => Tells(w.entries, q)
JournalTells == \A r \in Records : r \notin untold => LastSays(journal, r, rows[r])
AuditInv == AuditShape /\ (\A s \in AuditSessions : UnderWay(work[s])) /\ JournalTells

LEMMA LaterLog ==
  ASSUME NEW a \in Seq(EntryRec), NEW b \in Seq(EntryRec), NEW r, NEW v
  PROVE  /\ Tells(b, r) /\ LastSays(b, r, v) => LastSays(a \o b, r, v)
         /\ ~ Tells(b, r) /\ LastSays(a, r, v) => LastSays(a \o b, r, v)
         /\ Tells(a \o b, r) <=> Tells(a, r) \/ Tells(b, r)
<1> DEFINE c == a \o b
<1>1. /\ c \in Seq(EntryRec) /\ Len(c) = Len(a) + Len(b) /\ Len(a) \in Nat /\ Len(b) \in Nat
      /\ DOMAIN a = 1 .. Len(a) /\ DOMAIN b = 1 .. Len(b) /\ DOMAIN c = 1 .. Len(c)
  OBVIOUS
<1>2. \A i \in 1 .. Len(c) : c[i] = IF i <= Len(a) THEN a[i] ELSE b[i - Len(a)]
  OBVIOUS
<1> HIDE DEF c
<1>3. \A i \in DOMAIN a : i \in DOMAIN c /\ c[i] = a[i] /\ i <= Len(a)
  BY <1>1, <1>2
<1>4. \A j \in DOMAIN b : j + Len(a) \in DOMAIN c /\ c[j + Len(a)] = b[j]
  BY <1>1, <1>2
<1>5. \A i \in DOMAIN c : i \in DOMAIN a \/ (i - Len(a) \in DOMAIN b /\ c[i] = b[i - Len(a)] /\ i \in Nat)
  BY <1>1, <1>2
<1>6. Tells(c, r) <=> Tells(a, r) \/ Tells(b, r)
  BY <1>3, <1>4, <1>5 DEF Tells
<1>7. ASSUME Tells(b, r), LastSays(b, r, v), NEW i \in DOMAIN c, c[i].record = r,
             \A j \in DOMAIN c : c[j].record = r => j <= i
      PROVE  c[i].new = v
  <2>1. PICK k \in DOMAIN b : b[k].record = r
    BY <1>7 DEF Tells
  <2>2. k + Len(a) <= i
    BY <1>4, <1>7, <2>1
  <2>3. i \notin DOMAIN a
    BY <1>1, <2>1, <2>2
  <2>4. i - Len(a) \in DOMAIN b /\ c[i] = b[i - Len(a)] /\ i \in Nat
    BY <1>5, <2>3
  <2>5. ASSUME NEW j \in DOMAIN b, b[j].record = r PROVE j <= i - Len(a)
    <3>1. j + Len(a) <= i
      BY <1>4, <1>7, <2>5
    <3> QED BY <1>1, <2>4, <3>1
  <2> QED BY <1>7, <2>4, <2>5 DEF LastSays
<1>8. ASSUME ~ Tells(b, r), LastSays(a, r, v), NEW i \in DOMAIN c, c[i].record = r,
             \A j \in DOMAIN c : c[j].record = r => j <= i
      PROVE  c[i].new = v
  <2>1. i \in DOMAIN a
    BY <1>5, <1>8 DEF Tells
  <2>2. a[i].record = r /\ \A j \in DOMAIN a : a[j].record = r => j <= i
    BY <1>3, <1>8, <2>1
  <2> QED BY <1>3, <1>8, <2>1, <2>2 DEF LastSays
<1> QED BY <1>6, <1>7, <1>8 DEF LastSays, c

LEMMA SameLog ==
  ASSUME NEW a, NEW b, DOMAIN a = DOMAIN b, NEW r, NEW v,
         \A i \in DOMAIN a : a[i].record = b[i].record /\ a[i].new = b[i].new
  PROVE  (LastSays(a, r, v) => LastSays(b, r, v)) /\ (Tells(b, r) <=> Tells(a, r))
BY DEF LastSays, Tells

\* Dropping the oldest entries leaves the newest as it is.
LEMMA TrimmedLog ==
  ASSUME NEW a \in Seq(EntryRec), NEW m \in 1 .. Len(a) + 1, NEW r, NEW v, LastSays(a, r, v)
  PROVE  SubSeq(a, m, Len(a)) \in Seq(EntryRec) /\ LastSays(SubSeq(a, m, Len(a)), r, v)
<1> DEFINE b == SubSeq(a, m, Len(a))
<1>1. /\ b \in Seq(EntryRec) /\ Len(b) = Len(a) - m + 1 /\ Len(a) \in Nat /\ m \in Nat
      /\ DOMAIN a = 1 .. Len(a) /\ DOMAIN b = 1 .. Len(b)
  OBVIOUS
<1>2. \A i \in 1 .. Len(b) : b[i] = a[m + i - 1]
  OBVIOUS
<1> HIDE DEF b
<1>3. ASSUME NEW i \in DOMAIN b, b[i].record = r, \A j \in DOMAIN b : b[j].record = r => j <= i
      PROVE  b[i].new = v
  <2> DEFINE k == m + i - 1
  <2>1. k \in DOMAIN a /\ b[i] = a[k] /\ i \in Nat /\ k \in Nat
    BY <1>1, <1>2, <1>3
  <2>2. ASSUME NEW j \in DOMAIN a, a[j].record = r PROVE j <= k
    <3>1. CASE j < m
      BY <1>1, <2>1, <3>1
    <3>2. CASE j >= m
      <4> DEFINE l == j - m + 1
      <4>1. l \in DOMAIN b /\ j = m + l - 1
        BY <1>1, <3>2
      <4>2. b[l] = a[j]
        BY <1>1, <1>2, <4>1
      <4>3. l <= i
        BY <1>3, <2>2, <4>1, <4>2
      <4> QED BY <1>1, <2>1, <4>3
    <3> QED BY <1>1, <3>1, <3>2
  <2> HIDE DEF k
  <2> QED BY <1>3, <2>1, <2>2 DEF LastSays
<1> QED BY <1>1, <1>3 DEF LastSays, b

\* One session moves, and the tables stay.
LEMMA OneWorks ==
  ASSUME AuditInv, NEW s \in AuditSessions, NEW w \in Session, UnderWay(w),
         work' = [work EXCEPT ![s] = w], UNCHANGED <<rows, journal, given, untold>>
  PROVE  AuditInv'
<1>1. AuditShape'
  BY DEF AuditInv, AuditShape
<1>2. ASSUME NEW t \in AuditSessions PROVE UnderWay(work[t])'
  <2>1. work'[t] = IF t = s THEN w ELSE work[t]
    BY DEF AuditInv, AuditShape
  <2>2. UnderWay(work'[t])
    BY <2>1 DEF AuditInv
  <2> QED BY <2>2 DEF UnderWay, LastSays, Tells, Noted, Entry
<1>3. JournalTells'
  BY DEF AuditInv, JournalTells, LastSays
<1> QED BY <1>1, <1>2, <1>3 DEF AuditInv

LEMMA NoWorkFits == NoWork \in Session /\ UnderWay(NoWork)
<1>1. <<>> \in Seq(EntryRec) /\ <<>> \in Memory
  BY DEF Memory
<1> QED BY <1>1 DEF NoWork, Session, UnderWay

\* Beginning and starting again with what the table holds now.
LEMMA FreshFits ==
  ASSUME AuditInv
  PROVE  /\ [NoWork EXCEPT !.state = "open", !.seen = rows, !.now = rows] \in Session
         /\ UnderWay([NoWork EXCEPT !.state = "open", !.seen = rows, !.now = rows])
<1> DEFINE w == [NoWork EXCEPT !.state = "open", !.seen = rows, !.now = rows]
<1>1. rows \in [Records -> Val] /\ NoWork \in Session
  BY NoWorkFits DEF AuditInv, AuditShape
<1>2. w \in Session
  BY <1>1 DEF Session, Memory
<1>3. /\ w.state = "open" /\ w.seen = rows /\ w.now = rows /\ w.dirty = {} /\ w.held = {} /\ w.pending = <<>>
      /\ w.silent = {} /\ w.entries = <<>>
  BY DEF NoWork
<1>4. \A r \in Records : LastSays(<<>>, r, rows[r]) /\ ~ Tells(<<>>, r)
  BY DEF LastSays, Tells
<1> HIDE DEF w
<1>5. UnderWay(w)
  BY <1>1, <1>3, <1>4 DEF UnderWay
<1> QED BY <1>2, <1>5 DEF w

LEMMA ModifySafe ==
  ASSUME AuditInv, NEW s \in AuditSessions, Modify(s)
  PROVE  AuditInv'
<1> DEFINE v0 == work[s]
<1>1. v0 \in Session /\ UnderWay(v0) /\ v0.state = "open" /\ v0.dirty = {}
  BY DEF AuditInv, AuditShape, Modify
<1>2. PICK r \in Records, v \in Val : work' = [work EXCEPT ![s].now[r] = v, ![s].dirty = {r}]
  BY DEF Modify, Val
<1> DEFINE w == [v0 EXCEPT !.now = [v0.now EXCEPT ![r] = v], !.dirty = {r}]
<1>3. work' = [work EXCEPT ![s] = w]
  BY <1>2 DEF AuditInv, AuditShape
<1>4. v0.now \in [Records -> Val] /\ v0.seen \in [Records -> Val]
  BY <1>1 DEF UnderWay
<1>5. w \in Session
  BY <1>1, <1>4 DEF Session, Memory
<1>6. /\ w.state = "open" /\ w.seen = v0.seen /\ w.now = [v0.now EXCEPT ![r] = v] /\ w.dirty = {r}
      /\ w.held = v0.held /\ w.silent = v0.silent /\ w.pending = v0.pending /\ w.entries = v0.entries
  BY <1>1 DEF Session
<1> HIDE DEF w, v0
<1>7. UnderWay(w)
  BY <1>1, <1>4, <1>6 DEF UnderWay
<1> QED BY <1>3, <1>5, <1>7, OneWorks DEF Modify

LEMMA BeforeFlushSafe ==
  ASSUME AuditInv, NEW s \in AuditSessions, BeforeFlush(s)
  PROVE  AuditInv'
<1> DEFINE v0 == work[s]
<1>1. v0 \in Session /\ UnderWay(v0) /\ v0.state = "open"
  BY DEF AuditInv, AuditShape, BeforeFlush
<1>2. PICK r \in v0.dirty : work' = [work EXCEPT ![s].state = "flushing", ![s].held = @ \cup {r},
                                               ![s].pending = Append(@, Noted(v0, r))]
  BY DEF BeforeFlush
<1> DEFINE n == Noted(v0, r)
           w == [v0 EXCEPT !.state = "flushing", !.held = v0.held \cup {r}, !.pending = Append(v0.pending, n)]
<1>3. work' = [work EXCEPT ![s] = w]
  BY <1>2 DEF AuditInv, AuditShape
<1>4. /\ v0.now \in [Records -> Val] /\ v0.seen \in [Records -> Val] /\ r \in Records /\ v0.pending = <<>>
      /\ v0.dirty \subseteq Records /\ v0.held \subseteq Records
  BY <1>1 DEF UnderWay, Session
<1>5. n \in EntryRec
  <2>1. v0.seen[r] \in Val /\ v0.now[r] \in Val
    BY <1>4
  <2> DEFINE op == IF v0.seen[r] = Gone THEN "INSERT" ELSE IF v0.now[r] = Gone THEN "DELETE" ELSE "UPDATE"
  <2>2. op \in {"INSERT", "DELETE", "UPDATE"}
    OBVIOUS
  <2>3. n = [id |-> 0, op |-> op, record |-> r, old |-> v0.seen[r], new |-> v0.now[r], reverted |-> FALSE]
    BY DEF Noted, Entry
  <2> HIDE DEF op, n
  <2> QED BY <1>4, <2>1, <2>2, <2>3 DEF EntryRec
<1>6. /\ w.state = "flushing" /\ w.seen = v0.seen /\ w.now = v0.now /\ w.dirty = v0.dirty
      /\ w.held = v0.held \cup {r} /\ w.silent = v0.silent /\ w.pending = Append(v0.pending, n)
      /\ w.entries = v0.entries
  BY <1>1 DEF Session
<1>7. Noted(w, r) = n
  BY <1>6 DEF Noted
<1> HIDE DEF n
<1>8. Append(v0.pending, n) \in Seq(EntryRec) /\ Append(v0.pending, n) = <<n>>
  BY <1>4, <1>5
<1>9. w \in Session
  BY <1>1, <1>4, <1>8 DEF Session
<1> HIDE DEF w, v0
<1>10. UnderWay(w)
  BY <1>1, <1>4, <1>6, <1>7, <1>8 DEF UnderWay
<1> QED BY <1>3, <1>9, <1>10, OneWorks DEF BeforeFlush

LEMMA AfterFlushSafe ==
  ASSUME AuditInv, NEW s \in AuditSessions, AfterFlush(s)
  PROVE  AuditInv'
<1> DEFINE v0 == work[s]
           w == [v0 EXCEPT !.state = "open", !.entries = v0.entries \o v0.pending, !.pending = <<>>,
                           !.dirty = {}, !.silent = v0.silent \ v0.dirty, !.seen = v0.now]
<1>1. v0 \in Session /\ UnderWay(v0) /\ v0.state = "flushing"
  BY DEF AuditInv, AuditShape, AfterFlush
<1>2. work' = [work EXCEPT ![s] = w]
  BY DEF AuditInv, AuditShape, AfterFlush
<1>3. PICK r \in v0.dirty : /\ r \in v0.held /\ v0.pending = <<Noted(v0, r)>>
                            /\ \A q \in v0.held \ v0.silent : q # r => Tells(v0.entries, q)
  BY <1>1 DEF UnderWay
<1>4. /\ v0.now \in [Records -> Val] /\ v0.seen \in [Records -> Val] /\ r \in Records
      /\ v0.dirty \subseteq Records /\ v0.held \subseteq Records /\ v0.silent \subseteq v0.held
      /\ v0.entries \in Seq(EntryRec) /\ v0.pending \in Seq(EntryRec) /\ \A q \in v0.dirty : q = r
  BY <1>1 DEF UnderWay, Session
<1> DEFINE n == Noted(v0, r)
<1>5. n.record = r /\ n.new = v0.now[r]
  BY DEF Noted, Entry
<1> HIDE DEF n
<1>6. v0.entries \o v0.pending \in Seq(EntryRec) /\ <<>> \in Seq(EntryRec)
  BY <1>4
<1>7. w \in Session
  BY <1>1, <1>4, <1>6 DEF Session, Memory
<1>8. /\ w.state = "open" /\ w.seen = v0.now /\ w.now = v0.now /\ w.dirty = {}
      /\ w.held = v0.held /\ w.silent = v0.silent \ v0.dirty /\ w.pending = <<>>
      /\ w.entries = v0.entries \o v0.pending
  BY <1>1 DEF Session
<1>9. /\ \A q \in Records : Tells(v0.pending, q) <=> q = r
      /\ LastSays(v0.pending, r, v0.now[r])
  <2>1. DOMAIN v0.pending = {1} /\ v0.pending[1] = n
    BY <1>3 DEF n
  <2> QED BY <1>4, <1>5, <2>1 DEF Tells, LastSays
<1> HIDE DEF w, v0
<1>10. ASSUME NEW q \in Records
       PROVE  /\ q \notin w.silent => LastSays(w.entries, q, w.seen[q])
              /\ Tells(w.entries, q) <=> Tells(v0.entries, q) \/ q = r
  <2>1. CASE q = r
    BY <1>4, <1>8, <1>9, <2>1, LaterLog
  <2>2. CASE q # r
    <3>1. v0.seen[q] = v0.now[q] /\ (q \notin w.silent => LastSays(v0.entries, q, v0.seen[q]))
      BY <1>1, <1>4, <1>8, <2>2 DEF UnderWay
    <3>2. ~ Tells(v0.pending, q)
      BY <1>9, <2>2
    <3>3. /\ Tells(v0.entries \o v0.pending, q) <=> Tells(v0.entries, q)
          /\ q \notin w.silent => LastSays(v0.entries \o v0.pending, q, v0.now[q])
      BY <1>4, <3>1, <3>2, LaterLog
    <3> QED BY <1>8, <2>2, <3>3
  <2> QED BY <2>1, <2>2
<1>11. \A q \in Records : Tells(v0.entries, q) => q \in v0.held
  BY <1>1 DEF UnderWay
<1>12. UnderWay(w)
  BY <1>3, <1>4, <1>8, <1>10, <1>11 DEF UnderWay
<1> QED BY <1>2, <1>7, <1>12, OneWorks DEF AfterFlush

LEMMA PastListenersSafe ==
  ASSUME AuditInv, NEW s \in AuditSessions, WritePastListeners(s)
  PROVE  AuditInv'
<1> DEFINE v0 == work[s]
<1>1. v0 \in Session /\ UnderWay(v0) /\ v0.state = "open" /\ v0.dirty = {}
  BY DEF AuditInv, AuditShape, WritePastListeners
<1>2. PICK r \in Records, v \in Val :
        work' = [work EXCEPT ![s].now[r] = v, ![s].seen[r] = v, ![s].held = @ \cup {r},
                             ![s].silent = @ \cup {r}]
  BY DEF WritePastListeners, Val
<1> DEFINE w == [v0 EXCEPT !.now = [v0.now EXCEPT ![r] = v], !.seen = [v0.seen EXCEPT ![r] = v],
                           !.held = v0.held \cup {r}, !.silent = v0.silent \cup {r}]
<1>3. work' = [work EXCEPT ![s] = w]
  BY <1>2 DEF AuditInv, AuditShape
<1>4. v0.now \in [Records -> Val] /\ v0.seen \in [Records -> Val]
  BY <1>1 DEF UnderWay
<1>5. w \in Session
  BY <1>1, <1>4 DEF Session, Memory
<1>6. /\ w.state = "open" /\ w.dirty = {} /\ w.pending = v0.pending /\ w.entries = v0.entries
      /\ w.seen = [v0.seen EXCEPT ![r] = v] /\ w.now = [v0.now EXCEPT ![r] = v]
      /\ w.held = v0.held \cup {r} /\ w.silent = v0.silent \cup {r}
  BY <1>1 DEF Session
<1> HIDE DEF w, v0
<1>7. UnderWay(w)
  BY <1>1, <1>4, <1>6 DEF UnderWay
<1> QED BY <1>3, <1>5, <1>7, OneWorks DEF WritePastListeners

LEMMA CommitSafe ==
  ASSUME AuditInv, NEW s \in AuditSessions, CommitWrites(s)
  PROVE  AuditInv'
<1> DEFINE w == work[s]
           added == [i \in DOMAIN w.entries |-> [w.entries[i] EXCEPT !.id = given + i]]
<1>1. w \in Session /\ UnderWay(w) /\ w.state = "open" /\ w.dirty = {}
  BY DEF AuditInv, AuditShape, CommitWrites
<1>2. /\ w.now \in [Records -> Val] /\ w.held \subseteq Records /\ w.entries \in Seq(EntryRec)
      /\ w.silent \subseteq w.held
      /\ \A r \in Records : w.now[r] = w.seen[r] /\ (Tells(w.entries, r) => r \in w.held)
      /\ \A r \in Records : r \notin w.silent => LastSays(w.entries, r, w.seen[r])
                                               /\ (r \in w.held => Tells(w.entries, r))
  BY <1>1 DEF UnderWay, Session
<1>3. given \in Nat /\ journal \in Seq(EntryRec) /\ rows \in [Records -> Val] /\ work \in [AuditSessions -> Session]
  BY DEF AuditInv, AuditShape
<1>4. /\ rows' = [r \in Records |-> IF r \in w.held THEN w.now[r] ELSE rows[r]]
      /\ journal' = journal \o added /\ given' = given + Len(w.entries)
      /\ untold' = (untold \ w.held) \cup w.silent
      /\ work' = [work EXCEPT ![s] = NoWork]
  BY DEF CommitWrites
<1> HIDE DEF w
<1>5. /\ added \in Seq(EntryRec) /\ DOMAIN added = DOMAIN w.entries
      /\ \A i \in DOMAIN added : added[i].record = w.entries[i].record /\ added[i].new = w.entries[i].new
  <2>1. DOMAIN w.entries = 1 .. Len(w.entries) /\ Len(w.entries) \in Nat /\ \A i \in DOMAIN w.entries : w.entries[i] \in EntryRec
    BY <1>2
  <2>2. \A i \in DOMAIN w.entries : /\ [w.entries[i] EXCEPT !.id = given + i] \in EntryRec
                                    /\ [w.entries[i] EXCEPT !.id = given + i].record = w.entries[i].record
                                    /\ [w.entries[i] EXCEPT !.id = given + i].new = w.entries[i].new
    <3> SUFFICES ASSUME NEW i \in DOMAIN w.entries, NEW e \in EntryRec, e = w.entries[i]
                 PROVE  [e EXCEPT !.id = given + i] \in EntryRec /\ [e EXCEPT !.id = given + i].record = e.record
                        /\ [e EXCEPT !.id = given + i].new = e.new
      BY <2>1
    <3>1. given + i \in Nat
      BY <1>3, <2>1
    <3> QED BY <3>1 DEF EntryRec
  <2> QED BY <2>1, <2>2
<1> HIDE DEF added
<1>6. AuditShape'
  BY <1>2, <1>3, <1>4, <1>5, NoWorkFits DEF AuditInv, AuditShape
<1>7. ASSUME NEW t \in AuditSessions PROVE UnderWay(work[t])'
  <2>1. work'[t] = IF t = s THEN NoWork ELSE work[t]
    BY <1>3, <1>4
  <2>2. UnderWay(work'[t])
    BY <2>1, NoWorkFits DEF AuditInv
  <2> QED BY <2>2 DEF UnderWay, LastSays, Tells, Noted, Entry
<1>8. ASSUME NEW r \in Records, r \notin untold' PROVE LastSays(journal', r, rows'[r])
  <2>1. CASE r \in w.held
    <3>1. Tells(added, r) /\ LastSays(added, r, w.seen[r])
      BY <1>2, <1>4, <1>5, <1>8, <2>1, SameLog
    <3> QED BY <1>2, <1>3, <1>4, <1>5, <2>1, <3>1, LaterLog
  <2>2. CASE r \notin w.held
    <3>1. ~ Tells(added, r) /\ LastSays(journal, r, rows[r])
      BY <1>2, <1>4, <1>5, <1>8, <2>2, SameLog DEF AuditInv, JournalTells
    <3> QED BY <1>3, <1>4, <1>5, <2>2, <3>1, LaterLog
  <2> QED BY <2>1, <2>2
<1>9. JournalTells'
  BY <1>4, <1>8 DEF JournalTells, LastSays
<1> QED BY <1>6, <1>7, <1>9 DEF AuditInv

LEMMA RevertSafe ==
  ASSUME AuditInv, NEW s \in AuditSessions, RevertEntry(s)
  PROVE  AuditInv'
<1>1. PICK i \in DOMAIN journal :
        /\ rows' = [rows EXCEPT ![journal[i].record] = RevertTo(journal[i], @)]
        /\ journal' = [journal EXCEPT ![i].reverted = TRUE]
        /\ untold' = untold \cup {journal[i].record}
  BY DEF RevertEntry, IndexOf
<1> DEFINE e == journal[i]
           f == [e EXCEPT !.reverted = TRUE]
<1>2. work' = [work EXCEPT ![s] = NoWork] /\ given' = given
  BY DEF RevertEntry
<1>3. /\ given \in Nat /\ journal \in Seq(EntryRec) /\ rows \in [Records -> Val]
      /\ work \in [AuditSessions -> Session] /\ untold \subseteq Records
  BY DEF AuditInv, AuditShape
<1>4. e \in EntryRec
  BY <1>3
<1>5. e.record \in Records /\ e.old \in Val /\ e.op \in {"INSERT", "DELETE", "UPDATE"}
  BY <1>4 DEF EntryRec
<1>6. f \in EntryRec /\ f.record = e.record /\ f.new = e.new
  BY <1>4 DEF EntryRec
<1>7. journal' = [journal EXCEPT ![i] = f]
  BY <1>1
<1>8. rows' = [rows EXCEPT ![e.record] = RevertTo(e, rows[e.record])]
  BY <1>1
<1>9. RevertTo(e, rows[e.record]) \in Val
  BY <1>5 DEF RevertTo, Val
<1>10. untold' = untold \cup {e.record} /\ e = journal[i]
  BY <1>1
<1> HIDE DEF e, f
<1>11. \A k \in DOMAIN journal : journal'[k] = IF k = i THEN f ELSE journal[k]
  BY <1>3, <1>7
<1>12. /\ journal' \in Seq(EntryRec) /\ DOMAIN journal' = DOMAIN journal
       /\ \A k \in DOMAIN journal : journal[k].record = journal'[k].record /\ journal[k].new = journal'[k].new
  <2>1. journal' \in Seq(EntryRec) /\ DOMAIN journal' = DOMAIN journal
    BY <1>3, <1>6, <1>7
  <2> QED BY <1>6, <1>10, <1>11, <2>1
<1>13. rows' \in [Records -> Val] /\ \A r \in Records : r # e.record => rows'[r] = rows[r]
  BY <1>3, <1>5, <1>8, <1>9
<1>14. AuditShape'
  BY <1>2, <1>3, <1>5, <1>10, <1>12, <1>13, NoWorkFits DEF AuditShape
<1>15. ASSUME NEW t \in AuditSessions PROVE UnderWay(work[t])'
  <2>1. work'[t] = IF t = s THEN NoWork ELSE work[t]
    BY <1>2, <1>3
  <2>2. UnderWay(work'[t])
    BY <2>1, NoWorkFits DEF AuditInv
  <2> QED BY <2>2 DEF UnderWay, LastSays, Tells, Noted, Entry
<1>16. ASSUME NEW r \in Records, r \notin untold' PROVE LastSays(journal', r, rows'[r])
  <2>1. r # e.record /\ r \notin untold
    BY <1>10, <1>16
  <2>2. LastSays(journal, r, rows[r]) /\ rows'[r] = rows[r]
    BY <1>13, <2>1 DEF AuditInv, JournalTells
  <2> QED BY <1>12, <2>2, SameLog
<1>17. JournalTells'
  BY <1>16 DEF JournalTells, LastSays
<1> QED BY <1>14, <1>15, <1>17 DEF AuditInv

LEMMA TrimSafe ==
  ASSUME AuditInv, ListEntries \/ Clear
  PROVE  AuditInv'
<1>1. journal \in Seq(EntryRec) /\ Len(journal) \in Nat
  BY DEF AuditInv, AuditShape
<1>2. /\ journal' \in Seq(EntryRec) /\ UNCHANGED <<rows, work, given, untold>>
      /\ \A r \in Records, v \in Val : LastSays(journal, r, v) => LastSays(journal', r, v)
  <2>1. CASE ListEntries
    <3> DEFINE m == Len(journal) - MaxAudited + 1
    <3>1. m \in 1 .. Len(journal) + 1 /\ journal' = SubSeq(journal, m, Len(journal))
      BY <1>1, <2>1, AuditAssumption DEF ListEntries
    <3> HIDE DEF m
    <3>2. SubSeq(journal, m, Len(journal)) \in Seq(EntryRec)
      BY <1>1, <3>1
    <3>3. UNCHANGED <<rows, work, given, untold>>
      BY <2>1 DEF ListEntries
    <3> QED BY <1>1, <3>1, <3>2, <3>3, TrimmedLog
  <2>2. CASE Clear
    BY <2>2 DEF Clear, LastSays
  <2> QED BY <2>1, <2>2
<1>3. AuditShape' /\ JournalTells'
  <2>1. \A r \in Records : rows[r] \in Val
    BY DEF AuditInv, AuditShape
  <2>2. \A r \in Records : r \notin untold' => LastSays(journal', r, rows'[r])
    BY <1>2, <2>1 DEF AuditInv, JournalTells
  <2>3. AuditShape'
    BY <1>2 DEF AuditInv, AuditShape
  <2> QED BY <2>2, <2>3 DEF JournalTells, LastSays
<1>4. ASSUME NEW t \in AuditSessions PROVE UnderWay(work[t])'
  <2>1. UnderWay(work'[t])
    BY <1>2 DEF AuditInv
  <2> QED BY <2>1 DEF UnderWay, LastSays, Tells, Noted, Entry
<1> QED BY <1>3, <1>4 DEF AuditInv

LEMMA AuditStepSafe == AuditInv /\ [AuditNext]_auditVars => AuditInv'
<1> SUFFICES ASSUME AuditInv, [AuditNext]_auditVars PROVE AuditInv' OBVIOUS
<1>1. ASSUME NEW s \in AuditSessions, BeginWork(s) PROVE AuditInv'
  BY <1>1, FreshFits, OneWorks DEF BeginWork
<1>2. ASSUME NEW s \in AuditSessions, FlushFails(s) PROVE AuditInv'
  BY <1>2, FreshFits, OneWorks DEF FlushFails, RolledBack
<1>3. ASSUME NEW s \in AuditSessions, Rollback(s) \/ RevertRefused(s) PROVE AuditInv'
  BY <1>3, NoWorkFits, OneWorks DEF Rollback, RevertRefused, RolledBack
<1>4. ASSUME NEW s \in AuditSessions, ReadEntry(s) PROVE AuditInv'
  <2>1. PICK i \in DOMAIN journal :
          work' = [work EXCEPT ![s] = [NoWork EXCEPT !.state = "reverting", !.target = journal[i].id]]
    BY <1>4 DEF ReadEntry
  <2> DEFINE w == [NoWork EXCEPT !.state = "reverting", !.target = journal[i].id]
  <2>2. journal[i] \in EntryRec
    BY DEF AuditInv, AuditShape
  <2>3. journal[i].id \in Nat
    BY <2>2 DEF EntryRec
  <2>4. w \in Session
    BY <2>3, NoWorkFits DEF Session
  <2>5. w.state = "reverting"
    BY DEF NoWork
  <2>6. UnderWay(w)
    BY <2>5 DEF UnderWay
  <2> HIDE DEF w
  <2>7. work' = [work EXCEPT ![s] = w]
    BY <2>1 DEF w
  <2> QED BY <1>4, <2>4, <2>6, <2>7, OneWorks DEF ReadEntry
<1>5. CASE UNCHANGED auditVars
  <2>1. AuditShape' /\ JournalTells'
    BY <1>5 DEF auditVars, AuditInv, AuditShape, JournalTells, LastSays
  <2>2. ASSUME NEW t \in AuditSessions PROVE UnderWay(work[t])'
    <3>1. UnderWay(work'[t])
      BY <1>5 DEF auditVars, AuditInv
    <3> QED BY <3>1 DEF UnderWay, LastSays, Tells, Noted, Entry
  <2> QED BY <2>1, <2>2 DEF AuditInv
<1> QED BY <1>1, <1>2, <1>3, <1>4, <1>5, ModifySafe, BeforeFlushSafe, AfterFlushSafe, PastListenersSafe, CommitSafe, RevertSafe,
           TrimSafe DEF AuditNext

\* Whatever sessions overlap, are refused, roll back or try again, and whatever is trimmed
\* and cleared, and whatever updates, cascades and reverts write past the listeners, the newest
\* entry about a row whose last write the listeners saw names the value the row has (_before_flush, _after_flush_postexec, _after_rollback).
THEOREM HistoryTellsTheRows == AuditSpec => []NewestEntryTells
<1>1. AuditInit => AuditInv
  <2> SUFFICES ASSUME AuditInit PROVE AuditInv OBVIOUS
  <2>1. rows \in [Records -> Val]
    BY AuditAssumption DEF AuditInit, Val, Gone
  <2>2. AuditShape
    BY <2>1, NoWorkFits DEF AuditInit, AuditShape
  <2>3. \A s \in AuditSessions : UnderWay(work[s])
    BY NoWorkFits DEF AuditInit
  <2>4. JournalTells
    BY DEF AuditInit, JournalTells, LastSays
  <2> QED BY <2>2, <2>3, <2>4 DEF AuditInv
<1>2. AuditInv => NewestEntryTells
  <2> SUFFICES ASSUME AuditInv, NEW r \in Records, About(r) # {}, r \notin untold
               PROVE  journal[Max(About(r))].new = rows[r]
    BY DEF NewestEntryTells
  <2>1. journal \in Seq(EntryRec) /\ Len(journal) \in Nat /\ DOMAIN journal = 1 .. Len(journal)
    BY DEF AuditInv, AuditShape
  <2>2. About(r) \in SUBSET Nat /\ \A x \in About(r) : x <= Len(journal)
    BY <2>1 DEF About
  <2>3. \E x \in About(r) : \A y \in About(r) : x >= y
    BY <2>1, <2>2, GreatestNumber
  <2> DEFINE m == Max(About(r))
  <2>4. m \in About(r) /\ \A y \in About(r) : m >= y
    BY <2>3 DEF Max
  <2> HIDE DEF m
  <2>5. m \in DOMAIN journal /\ journal[m].record = r /\ m \in Nat
    BY <2>2, <2>4 DEF About
  <2>6. ASSUME NEW j \in DOMAIN journal, journal[j].record = r PROVE j <= m
    <3>1. j \in About(r) /\ j \in Nat
      BY <2>1, <2>6 DEF About
    <3> QED BY <2>4, <2>5, <3>1
  <2>7. LastSays(journal, r, rows[r])
    BY DEF AuditInv, JournalTells
  <2>8. journal[m].new = rows[r]
    BY <2>5, <2>6, <2>7 DEF LastSays
  <2> QED BY <2>8 DEF m
<1> QED BY <1>1, <1>2, AuditStepSafe, PTL DEF AuditSpec

-----------------------------------------------------------------------------
(* Exchange rates.  Both lookups come down to the newest family row and    *)
(* the newest mid up to the date, the family's when they are of one day.   *)

FamilyRow == [date : RateDates, from : Currencies, to : Currencies, rate : Nat \X Nat, id : Nat]
MidRow == [date : RateDates, currency : Foreign, mid : Nat \X Nat]
RatesInv ==
  /\ family \subseteq FamilyRow /\ nbp \subseteq MidRow /\ issued \in Nat
  /\ \A r, q \in nbp : r.date = q.date /\ r.currency = q.currency => r = q

\* Rows of different days, each dated.
Dated(S) == (\A r \in S : r.date \in Nat \ {0}) /\ \A r, q \in S : r.date = q.date => r = q
LastOf(S, x) == x \in S /\ \A q \in S : q.date <= x.date
UpTo(S, d) == {r \in S : r.date <= d}

LEMMA LastExists ==
  ASSUME NEW S, Dated(S), NEW d \in Nat, UpTo(S, d) # {}
  PROVE  \E x \in UpTo(S, d) : LastOf(UpTo(S, d), x)
<1> DEFINE R == UpTo(S, d)
           days == {r.date : r \in R}
<1>1. R # {} /\ \A r \in R : r.date \in Nat /\ r.date <= d
  BY DEF UpTo, Dated
<1> HIDE DEF R
<1>2. days \in SUBSET Nat /\ days # {} /\ \A e \in days : e <= d
  BY <1>1
<1>3. PICK e \in days : \A f \in days : e >= f
  BY <1>2, GreatestNumber
<1>4. PICK x \in R : x.date = e
  BY <1>3
<1>5. \A q \in R : q.date <= x.date
  <2> TAKE q \in R
  <2>1. q.date \in days /\ q.date \in Nat /\ x.date \in Nat
    BY <1>1
  <2> QED BY <1>3, <1>4, <2>1
<1> QED BY <1>4, <1>5 DEF LastOf, R

LEMMA LastIsNewest ==
  ASSUME NEW S, Dated(S), \A r \in S : r.id \in Nat, NEW x, LastOf(S, x)
  PROVE  NewestRow(S) = x
<1> DEFINE Beats(y) == \A q \in S : q.date < y.date \/ (q.date = y.date /\ q.id <= y.id)
<1>1. x \in S /\ Beats(x)
  BY DEF Dated, LastOf
<1>2. ASSUME NEW y \in S, Beats(y) PROVE y = x
  <2>1. x.date < y.date \/ x.date = y.date
    BY <1>1, <1>2
  <2>2. y.date <= x.date /\ x.date \in Nat /\ y.date \in Nat
    BY <1>1 DEF Dated, LastOf
  <2>3. x.date = y.date
    BY <2>1, <2>2
  <2> QED BY <1>1, <2>3 DEF Dated
<1> QED BY <1>1, <1>2 DEF NewestRow

LEMMA LastIsUnique ==
  ASSUME NEW S, Dated(S), NEW x, LastOf(S, x)
  PROVE  (CHOOSE r \in S : \A q \in S : q.date <= r.date) = x
<1>1. x \in S /\ \A q \in S : q.date <= x.date
  BY DEF LastOf
<1>2. ASSUME NEW y \in S, \A q \in S : q.date <= y.date PROVE y = x
  <2>1. y.date <= x.date /\ x.date <= y.date /\ x.date \in Nat /\ y.date \in Nat
    BY <1>1, <1>2 DEF Dated
  <2> QED BY <1>1, <2>1 DEF Dated
<1> QED BY <1>1, <1>2

\* The family's rows for a pair as the history takes them, and the mids for it.
HistoryRows(from, to) ==
  IF Direct(from, to) # {} THEN Direct(from, to) ELSE {[r EXCEPT !.rate = Flip(@)] : r \in Direct(to, from)}
MidRows(from, to) == {r \in nbp : r.currency \in NbpCurrency(from, to)}
Agreeable(from, to) ==
  /\ OneADay(from, to) /\ OneADay(to, from)
  /\ BothWays(from, to) \/ Direct(from, to) = {} \/ Direct(to, from) = {}

LEMMA RowsDated ==
  ASSUME RatesInv, NEW from \in Currencies, NEW to \in Currencies, from # to, Agreeable(from, to)
  PROVE  /\ Dated(HistoryRows(from, to)) /\ \A r \in HistoryRows(from, to) : r.id \in Nat
         /\ Dated(MidRows(from, to))
<1>1. \A r \in family : r.date \in Nat \ {0} /\ r.id \in Nat /\ r \in FamilyRow
  BY RatesAssumption DEF RatesInv, FamilyRow
<1>2. \A r \in nbp : r.date \in Nat \ {0} /\ r.currency \in Foreign
  BY RatesAssumption DEF RatesInv, MidRow
<1>3. \A r, q \in MidRows(from, to) : r.currency = q.currency /\ r \in nbp /\ q \in nbp
  BY RatesAssumption DEF MidRows, NbpCurrency
<1>4. Dated(MidRows(from, to))
  BY <1>2, <1>3 DEF Dated, RatesInv
<1>5. CASE Direct(from, to) # {}
  BY <1>1, <1>4, <1>5 DEF Agreeable, OneADay, HistoryRows, Direct, Dated
<1>6. CASE Direct(from, to) = {}
  <2> DEFINE G(r) == [r EXCEPT !.rate = Flip(@)]
  <2>1. HistoryRows(from, to) = {G(r) : r \in Direct(to, from)}
    BY <1>6 DEF HistoryRows
  <2>2. \A r \in Direct(to, from) : G(r).date = r.date /\ G(r).id = r.id /\ r \in family
    BY <1>1 DEF Direct, FamilyRow
  <2> HIDE DEF G
  <2>3. \A g \in HistoryRows(from, to) : \E r \in Direct(to, from) : g = G(r)
    BY <2>1
  <2>4. Dated(HistoryRows(from, to))
    BY <1>1, <2>2, <2>3 DEF Agreeable, OneADay, Dated
  <2> QED BY <1>1, <1>4, <2>2, <2>3, <2>4
<1> QED BY <1>5, <1>6

\* The family's single lookup is the last of those rows up to the date.
LEMMA FamilyLookup ==
  ASSUME RatesInv, NEW from \in Currencies, NEW to \in Currencies, from # to, Agreeable(from, to),
         NEW d \in Nat
  PROVE  /\ UpTo(HistoryRows(from, to), d) = {} => FamilyRateOn(d, from, to) = NoRate
         /\ \A x : LastOf(UpTo(HistoryRows(from, to), d), x) =>
              FamilyRateOn(d, from, to) = [date |-> x.date, rate |-> x.rate]
<1> DEFINE direct == UpTo(Direct(from, to), d)
           inverse == UpTo(Direct(to, from), d)
<1>1. \A r \in family : r.date \in Nat \ {0} /\ r.id \in Nat /\ r \in FamilyRow
  BY RatesAssumption DEF RatesInv, FamilyRow
<1>2. FamilyRateOn(d, from, to) =
        CASE direct # {} -> [date |-> NewestRow(direct).date, rate |-> NewestRow(direct).rate]
          [] direct = {} /\ inverse # {} -> [date |-> NewestRow(inverse).date, rate |-> Flip(NewestRow(inverse).rate)]
          [] OTHER -> NoRate
  BY DEF FamilyRateOn, UpTo
<1>3. /\ Dated(direct) /\ \A r \in direct : r.id \in Nat
      /\ Dated(inverse) /\ \A r \in inverse : r.id \in Nat
  BY <1>1 DEF Agreeable, OneADay, Direct, Dated, UpTo
<1>4. CASE Direct(from, to) # {}
  <2>1. UpTo(HistoryRows(from, to), d) = direct
    BY <1>4 DEF HistoryRows
  <2>2. direct = {} => inverse = {}
    <3> SUFFICES ASSUME NEW r \in inverse PROVE direct # {}
      OBVIOUS
    <3>1. r \in Direct(to, from) /\ r.date <= d /\ r.from = to /\ r.to = from
      BY DEF UpTo, Direct
    <3>2. BothWays(from, to)
      BY <1>4, <3>1 DEF Agreeable
    <3>3. PICK q \in family : q.date = r.date /\ q.from = r.to /\ q.to = r.from
      BY <3>1, <3>2 DEF BothWays
    <3>4. q \in direct
      BY <3>1, <3>3 DEF Direct, UpTo
    <3> QED BY <3>4
  <2>3. ASSUME NEW x, LastOf(direct, x) PROVE direct # {} /\ NewestRow(direct) = x
    BY <1>3, <2>3, LastIsNewest DEF LastOf
  <2> HIDE DEF direct, inverse
  <2> QED BY <1>2, <2>1, <2>2, <2>3
<1>5. CASE Direct(from, to) = {}
  <2> DEFINE G(r) == [r EXCEPT !.rate = Flip(@)]
             turned == UpTo(HistoryRows(from, to), d)
  <2>1. direct = {}
    BY <1>5 DEF UpTo
  <2>2. \A r \in Direct(to, from) : G(r).date = r.date /\ G(r).rate = Flip(r.rate)
    BY <1>1 DEF Direct, FamilyRow
  <2>3. HistoryRows(from, to) = {G(r) : r \in Direct(to, from)}
    BY <1>5 DEF HistoryRows
  <2> HIDE DEF G
  <2>4. (\A r \in inverse : G(r) \in turned) /\ \A g \in turned : \E r \in inverse : g = G(r)
    BY <2>2, <2>3 DEF UpTo
  <2>5. ASSUME NEW x, LastOf(turned, x)
        PROVE  inverse # {} /\ NewestRow(inverse).date = x.date /\ Flip(NewestRow(inverse).rate) = x.rate
    <3>1. PICK r \in inverse : x = G(r)
      BY <2>4, <2>5 DEF LastOf
    <3>2. r.date = x.date /\ Flip(r.rate) = x.rate
      BY <2>2, <3>1 DEF UpTo
    <3>3. LastOf(inverse, r)
      <4> SUFFICES ASSUME NEW q \in inverse PROVE q.date <= r.date
        BY DEF LastOf
      <4>1. G(q) \in turned /\ G(q).date = q.date
        BY <2>2, <2>4 DEF UpTo
      <4> QED BY <2>5, <3>2, <4>1 DEF LastOf
    <3> QED BY <1>3, <3>1, <3>2, <3>3, LastIsNewest
  <2>6. turned = {} => inverse = {}
    BY <2>4
  <2> HIDE DEF direct, inverse, turned
  <2>7. turned = {} => FamilyRateOn(d, from, to) = NoRate
    BY <1>2, <2>1, <2>6
  <2>8. \A x : LastOf(turned, x) => FamilyRateOn(d, from, to) = [date |-> x.date, rate |-> x.rate]
    BY <1>2, <2>1, <2>5
  <2> QED BY <2>7, <2>8 DEF turned
<1> QED BY <1>4, <1>5

LEMMA MidLookup ==
  ASSUME NEW from, NEW to, NEW d \in Nat, Dated(MidRows(from, to))
  PROVE  /\ UpTo(MidRows(from, to), d) = {} => NbpRateOn(d, from, to) = NoRate
         /\ \A y : LastOf(UpTo(MidRows(from, to), d), y) =>
              NbpRateOn(d, from, to) = [date |-> y.date, rate |-> NbpMid(y, from)]
<1> DEFINE M == UpTo(MidRows(from, to), d)
           last == CHOOSE r \in M : \A q \in M : q.date <= r.date
<1>1. NbpRateOn(d, from, to) = IF M = {} THEN NoRate ELSE [date |-> last.date, rate |-> NbpMid(last, from)]
  <2>1. M = {r \in nbp : r.currency \in NbpCurrency(from, to) /\ r.date <= d}
    BY DEF UpTo, MidRows
  <2> QED BY <2>1 DEF NbpRateOn
<1>2. Dated(M)
  BY DEF UpTo, Dated
<1> HIDE DEF M
<1>3. ASSUME NEW y, LastOf(M, y) PROVE M # {} /\ last = y
  BY <1>2, <1>3, LastIsUnique DEF LastOf
<1> QED BY <1>1, <1>3 DEF M

\* The history's entry of a day: the family's row of the day, else the mid of it.
LEMMA HistoryEntry ==
  ASSUME RatesInv, NEW from \in Currencies, NEW to \in Currencies, from # to, Agreeable(from, to)
  PROVE  /\ DOMAIN LoadRates(from, to)
              = {r.date : r \in HistoryRows(from, to)} \cup {r.date : r \in MidRows(from, to)}
         /\ \A x \in HistoryRows(from, to) : LoadRates(from, to)[x.date] = x.rate
         /\ \A y \in MidRows(from, to) : y.date \notin {r.date : r \in HistoryRows(from, to)} =>
              LoadRates(from, to)[y.date] = NbpMid(y, from)
<1> DEFINE cands == HistoryRows(from, to)
           mids == MidRows(from, to)
           own == {r.date : r \in cands}
           days == own \cup {r.date : r \in mids}
<1>1. LoadRates(from, to) =
        [e \in days |-> IF e \in own THEN NewestRow({r \in cands : r.date = e}).rate
                        ELSE NbpMid(CHOOSE r \in mids : r.date = e, from)]
  BY DEF LoadRates, HistoryRows, MidRows
<1>2. Dated(cands) /\ (\A r \in cands : r.id \in Nat) /\ Dated(mids)
  BY RowsDated
<1> HIDE DEF cands, mids
<1>3. ASSUME NEW x \in cands PROVE LoadRates(from, to)[x.date] = x.rate
  <2> DEFINE day == {r \in cands : r.date = x.date}
  <2>1. Dated(day) /\ (\A r \in day : r.id \in Nat) /\ LastOf(day, x)
    BY <1>2 DEF Dated, LastOf
  <2>2. NewestRow(day) = x
    BY <2>1, LastIsNewest
  <2>3. x.date \in own /\ x.date \in days
    OBVIOUS
  <2> HIDE DEF own, days
  <2> QED BY <1>1, <2>2, <2>3
<1>4. ASSUME NEW y \in mids, y.date \notin own PROVE LoadRates(from, to)[y.date] = NbpMid(y, from)
  <2>1. (CHOOSE r \in mids : r.date = y.date) = y
    BY <1>2 DEF Dated
  <2>2. y.date \in days
    OBVIOUS
  <2> HIDE DEF own, days
  <2> QED BY <1>1, <1>4, <2>1, <2>2
<1> QED BY <1>1, <1>3, <1>4 DEF cands, mids

LEMMA Agreement ==
  ASSUME RatesInv, NEW from \in Currencies, NEW to \in Currencies, from # to, Agreeable(from, to),
         NEW d \in Nat \ {0}
  PROVE  RateOn(d, from, to) = NearestIn(LoadRates(from, to), d)
<1> DEFINE cands == HistoryRows(from, to)
           mids == MidRows(from, to)
           R == UpTo(cands, d)
           M == UpTo(mids, d)
           H == LoadRates(from, to)
           own == FamilyRateOn(d, from, to)
           mid == NbpRateOn(d, from, to)
           upto == {e \in DOMAIN H : e <= d}
<1> SUFFICES RateOn(d, from, to) = NearestIn(H, d) OBVIOUS
<1>1. Dated(cands) /\ Dated(mids)
  BY RowsDated
<1>2. /\ RateOn(d, from, to) = IF own.date = 0 \/ mid.date > own.date THEN mid.rate ELSE own.rate
      /\ NearestIn(H, d) = IF upto = {} THEN <<0, 0>> ELSE H[Max(upto)]
  BY DEF RateOn, NearestIn
<1>3. /\ R = {} => own = NoRate
      /\ \A x : LastOf(R, x) => own = [date |-> x.date, rate |-> x.rate]
  BY FamilyLookup
<1>4. /\ M = {} => mid = NoRate
      /\ \A y : LastOf(M, y) => mid = [date |-> y.date, rate |-> NbpMid(y, from)]
  BY <1>1, MidLookup
<1>5. /\ DOMAIN H = {r.date : r \in cands} \cup {r.date : r \in mids}
      /\ \A x \in cands : H[x.date] = x.rate
      /\ \A y \in mids : y.date \notin {r.date : r \in cands} => H[y.date] = NbpMid(y, from)
  BY HistoryEntry
<1>6. NoRate.date = 0 /\ NoRate.rate = <<0, 0>>
  BY DEF NoRate
<1> HIDE DEF H, own, mid, cands, mids
<1>7. upto = {r.date : r \in R} \cup {r.date : r \in M}
  BY <1>5 DEF UpTo
<1>8. (\A x \in R : x \in cands /\ x.date \in Nat \ {0}) /\ \A y \in M : y \in mids /\ y.date \in Nat \ {0}
  BY <1>1 DEF UpTo, Dated
<1>9. (R # {} => \E x \in R : LastOf(R, x)) /\ (M # {} => \E y \in M : LastOf(M, y))
  BY <1>1, LastExists
<1>10. ASSUME NEW e \in upto, \A f \in upto : f <= e PROVE Max(upto) = e
  <2>1. \A f \in upto : f \in Nat
    BY <1>7, <1>8
  <2> HIDE DEF upto
  <2>2. \A f \in upto : e >= f
    BY <1>10, <2>1
  <2>3. ASSUME NEW g \in upto, \A f \in upto : g >= f PROVE g = e
    <3>1. g >= e /\ e >= g /\ g \in Nat /\ e \in Nat
      BY <2>1, <2>2, <2>3
    <3> QED BY <3>1
  <2> QED BY <2>2, <2>3 DEF Max
<1>11. ASSUME NEW y \in M, \A r \in R : r.date # y.date PROVE H[y.date] = NbpMid(y, from)
  <2>1. y.date \notin {r.date : r \in cands}
    BY <1>11 DEF UpTo
  <2> QED BY <1>5, <1>8, <2>1
<1>12. CASE R = {} /\ M = {}
  BY <1>2, <1>3, <1>4, <1>6, <1>7, <1>12
<1>13. CASE R = {} /\ M # {}
  <2>1. PICK y \in M : LastOf(M, y)
    BY <1>9, <1>13
  <2>2. y.date \in upto /\ (\A f \in upto : f <= y.date) /\ upto # {}
    BY <1>7, <1>13, <2>1 DEF LastOf
  <2>3. Max(upto) = y.date /\ H[y.date] = NbpMid(y, from)
    BY <1>10, <1>11, <1>13, <2>2
  <2>4. own.date = 0 /\ mid.rate = NbpMid(y, from)
    BY <1>3, <1>4, <1>6, <1>13, <2>1
  <2> HIDE DEF upto
  <2> QED BY <1>2, <2>2, <2>3, <2>4
<1>14. CASE R # {}
  <2>1. PICK x \in R : LastOf(R, x)
    BY <1>9, <1>14
  <2>2. own.date = x.date /\ own.rate = x.rate /\ own.date # 0 /\ x.date \in Nat /\ H[x.date] = x.rate
    BY <1>3, <1>5, <1>8, <2>1
  <2>3. CASE M = {}
    <3>1. mid.date = 0
      BY <1>4, <1>6, <2>3
    <3>2. x.date \in upto /\ (\A f \in upto : f <= x.date) /\ upto # {}
      BY <1>7, <2>1, <2>3 DEF LastOf
    <3>3. Max(upto) = x.date
      BY <1>10, <3>2
    <3> HIDE DEF upto
    <3> QED BY <1>2, <2>2, <3>1, <3>2, <3>3
  <2>4. CASE M # {}
    <3>1. PICK y \in M : LastOf(M, y)
      BY <1>9, <2>4
    <3>2. mid.date = y.date /\ mid.rate = NbpMid(y, from) /\ y.date \in Nat
      BY <1>4, <1>8, <3>1
    <3>3. (\A r \in R : r.date <= x.date /\ r.date \in Nat) /\ (\A r \in M : r.date <= y.date /\ r.date \in Nat)
      BY <1>8, <2>1, <3>1 DEF LastOf
    <3>4. x.date \in upto /\ y.date \in upto /\ upto # {}
          /\ \A f \in upto : (\E r \in R : f = r.date) \/ (\E r \in M : f = r.date)
      BY <1>7
    <3> HIDE DEF upto
    <3>5. CASE y.date > x.date
      <4>1. \A f \in upto : f <= y.date
        BY <2>2, <3>2, <3>3, <3>4, <3>5
      <4>2. Max(upto) = y.date
        BY <1>10, <3>4, <4>1
      <4>3. \A r \in R : r.date # y.date
        BY <2>2, <3>2, <3>3, <3>5
      <4>4. H[y.date] = NbpMid(y, from)
        BY <1>11, <4>3
      <4> QED BY <1>2, <2>2, <3>2, <3>4, <3>5, <4>2, <4>4
    <3>6. CASE ~ (y.date > x.date)
      <4>1. \A f \in upto : f <= x.date
        BY <2>2, <3>2, <3>3, <3>4, <3>6
      <4>2. Max(upto) = x.date
        BY <1>10, <3>4, <4>1
      <4> QED BY <1>2, <2>2, <3>2, <3>4, <3>6, <4>2
    <3> QED BY <3>5, <3>6
  <2> QED BY <2>3, <2>4
<1> QED BY <1>12, <1>13, <1>14

LEMMA RatesStep == RatesInv /\ [RatesNext]_rateVars => RatesInv'
<1> SUFFICES ASSUME RatesInv, [RatesNext]_rateVars PROVE RatesInv' OBVIOUS
<1>1. \A f \in Nat \X Nat : Flip(f) \in Nat \X Nat
  BY DEF Flip
<1>2. ASSUME NEW d \in RateDates, NEW from \in Currencies, NEW to \in Currencies, NEW rate \in Fractions,
             RecordTransferRate(d, from, to, rate) \/ CreateRate(d, from, to, rate)
      PROVE  RatesInv'
  <2>1. rate \in Nat \X Nat /\ Flip(rate) \in Nat \X Nat /\ issued \in Nat
    BY <1>1, RatesAssumption DEF RatesInv
  <2>2. Pair(d, from, to, rate, issued + 1) \subseteq FamilyRow
    BY <2>1 DEF Pair, FamilyRow
  <2>3. [date |-> d, from |-> from, to |-> to, rate |-> rate, id |-> issued + 1] \in FamilyRow
    BY <2>1 DEF FamilyRow
  <2>4. family' \subseteq FamilyRow /\ issued' \in Nat /\ nbp' = nbp
    BY <1>2, <2>1, <2>2, <2>3 DEF RecordTransferRate, CreateRate, RatesInv
  <2> QED BY <2>4 DEF RatesInv
<1>3. ASSUME NEW r \in family, DeleteRate(r) PROVE RatesInv'
  BY <1>3 DEF DeleteRate, RatesInv
<1>4. ASSUME NEW d \in RateDates, NEW c \in Currencies, NEW rate \in Fractions \cup {<<0, 1>>},
             FetchNbp(d, {[currency |-> c, mid |-> rate]})
      PROVE  RatesInv'
  <2> DEFINE t == [currency |-> c, mid |-> rate]
             n == [date |-> d, currency |-> c, mid |-> rate]
             fits == {r \in UsableMids({t}) : \A q \in nbp : ~ (q.date = d /\ q.currency = r.currency)}
  <2>1. /\ nbp' = nbp \cup {[date |-> d, currency |-> r.currency, mid |-> r.mid] : r \in fits}
        /\ family' = family /\ issued' = issued
    BY <1>4 DEF FetchNbp
  <2>2. \A r \in fits : r = t /\ c # National /\ \A q \in nbp : ~ (q.date = d /\ q.currency = c)
    BY DEF UsableMids
  <2>3. nbp' = nbp \/ (nbp' = nbp \cup {n} /\ c # National /\ \A q \in nbp : ~ (q.date = d /\ q.currency = c))
    <3>1. CASE fits = {}
      BY <2>1, <3>1
    <3>2. CASE fits # {}
      <4>1. fits = {t} /\ t.currency = c /\ t.mid = rate
        BY <2>2, <3>2
      <4> HIDE DEF fits, t
      <4>2. {[date |-> d, currency |-> r.currency, mid |-> r.mid] : r \in fits} = {n}
        BY <4>1
      <4> QED BY <2>1, <2>2, <3>2, <4>2
    <3> QED BY <3>1, <3>2
  <2>4. rate \in Nat \X Nat
    BY RatesAssumption
  <2>5. c # National => n \in MidRow
    BY <2>4 DEF MidRow, Currencies
  <2>6. n.date = d /\ n.currency = c
    OBVIOUS
  <2> HIDE DEF n
  <2>7. nbp' \subseteq MidRow
    BY <2>3, <2>5 DEF RatesInv
  <2>8. \A r, q \in nbp' : r.date = q.date /\ r.currency = q.currency => r = q
    BY <2>3, <2>6 DEF RatesInv
  <2> QED BY <2>1, <2>7, <2>8 DEF RatesInv
<1>5. CASE UNCHANGED rateVars
  BY <1>5 DEF rateVars, RatesInv
<1> QED BY <1>2, <1>3, <1>4, <1>5 DEF RatesNext

\* Whatever rates were typed, recorded from transfers, fetched and deleted, in whichever
\* order, the single lookup of a date and the batch lookup over the history give the same
\* rate, for every pair recorded both ways or one way only (get_rate_on,
\* load_rates_for_currencies, _merge_nbp_history).
THEOREM BothLookupsAgree == RatesSpec => []LookupsAgree
<1>1. RatesInit => RatesInv
  BY DEF RatesInit, RatesInv
<1>2. RatesInv => LookupsAgree
  <2>1. \A d \in RateDates : d \in Nat \ {0}
    BY RatesAssumption
  <2> QED BY <2>1, Agreement DEF LookupsAgree, Agreeable
<1> QED BY <1>1, <1>2, RatesStep, PTL DEF RatesSpec

-----------------------------------------------------------------------------
(* The ledger as it is read.  Rows in the order of their days fall into    *)
(* one group per bucket; each row is under exactly one separator, so the   *)
(* nets of the groups add up to the net of the rows.                       *)

\* The rows of a list, newest day first.
Falling(s, n) ==
  /\ n \in Nat /\ DOMAIN s = 1 .. n /\ Len(s) = n
  /\ \A i \in 1 .. n : s[i].day \in Nat
  /\ \A i, j \in 1 .. n : i < j => s[i].day >= s[j].day

LEMMA NetRowInt ==
  ASSUME NEW r
  PROVE  NetRow(r) \in Int /\ (r.planned => NetRow(r) = 0)
BY DEF NetRow, ViewSigned

LEMMA HalvesFall ==
  ASSUME NEW a \in Nat, NEW b \in Nat, a >= b
  PROVE  a \div 2 \in Nat /\ b \div 2 \in Nat /\ a \div 2 >= b \div 2
OBVIOUS

\* No bucket is split in two groups.
LEMMA StartsApart ==
  ASSUME NEW s, NEW n, Falling(s, n), NEW j \in Starts(s), NEW k \in Starts(s), j < k
  PROVE  Bucket(s[j]) # Bucket(s[k])
<1>1. n \in Nat /\ j \in 1 .. n /\ k \in 1 .. n /\ (k = 1 \/ Bucket(s[k]) # Bucket(s[k - 1]))
  BY DEF Falling, Starts, Separated
<1>2. k - 1 \in 1 .. n /\ k # 1 /\ j <= k - 1 /\ k - 1 < k
  BY <1>1
<1>3. s[j].day \in Nat /\ s[k].day \in Nat /\ s[k - 1].day \in Nat /\ s[k - 1].day >= s[k].day
  BY <1>1, <1>2 DEF Falling
<1>4. s[j].day >= s[k - 1].day
  <2>1. CASE j = k - 1
    BY <1>3, <2>1
  <2>2. CASE j # k - 1
    <3>1. j < k - 1
      BY <1>1, <1>2, <2>2
    <3> QED BY <1>1, <1>2, <3>1 DEF Falling
  <2> QED BY <2>1, <2>2
<1>5. /\ Bucket(s[j]) \in Nat /\ Bucket(s[k - 1]) \in Nat /\ Bucket(s[k]) \in Nat
      /\ Bucket(s[j]) >= Bucket(s[k - 1]) /\ Bucket(s[k - 1]) >= Bucket(s[k])
  BY <1>3, <1>4, HalvesFall DEF Bucket
<1> QED BY <1>1, <1>2, <1>5

\* A group ends before the next one, or with the list.
LEMMA GroupEndIs ==
  ASSUME NEW s, NEW n, Falling(s, n), NEW k \in Starts(s)
  PROVE  /\ GroupEnd(s, k) \in k .. n
         /\ \A j \in Starts(s) : j > k => GroupEnd(s, k) < j
         /\ GroupEnd(s, k) = n \/ GroupEnd(s, k) + 1 \in Starts(s)
<1> DEFINE later == {j \in Starts(s) : j > k} \cup {Len(s) + 1}
<1>1. n \in Nat /\ Len(s) = n /\ Starts(s) \subseteq 1 .. n /\ k \in 1 .. n
  BY DEF Falling, Starts
<1>2. IsFiniteSet(later) /\ later # {} /\ later \subseteq Int /\ n + 1 \in later
      /\ \A j \in later : j = n + 1 \/ (j \in Starts(s) /\ j > k)
  <2>1. later \subseteq 1 .. n + 1 /\ n + 1 \in later
    BY <1>1
  <2>2. IsFiniteSet(1 .. n + 1) /\ (1 .. n + 1) \subseteq Int
    BY <1>1, FS_Interval
  <2>3. IsFiniteSet(later)
    BY <2>1, <2>2, FS_Subset
  <2> QED BY <1>1, <2>1, <2>2, <2>3
<1>3. \A j \in Starts(s) : j > k => j \in later
  OBVIOUS
<1>4. GroupEnd(s, k) = Min(later) - 1
  BY DEF GroupEnd
<1> HIDE DEF later
<1> DEFINE e == Min(later)
<1>5. e \in later /\ \A j \in later : e <= j
  BY <1>2, MinIs
<1> HIDE DEF e
<1>6. e \in Int /\ e <= n + 1 /\ k < e
  BY <1>1, <1>2, <1>5
<1>7. GroupEnd(s, k) = e - 1
  BY <1>4 DEF e
<1>8. \A j \in Starts(s) : j > k => e <= j /\ j \in Int
  BY <1>1, <1>3, <1>5
<1>9. e = n + 1 \/ e \in Starts(s)
  BY <1>2, <1>5
<1> QED BY <1>1, <1>6, <1>7, <1>8, <1>9

\* The separator a row is under.
Heading(s, i) == Max({j \in Starts(s) : j <= i})

LEMMA HeadIs ==
  ASSUME NEW s, NEW n, Falling(s, n), NEW i \in 1 .. n
  PROVE  /\ Heading(s, i) \in Starts(s) /\ Heading(s, i) \in 1 .. i
         /\ \A j \in Starts(s) : j <= i => j <= Heading(s, i)
<1> DEFINE above == {j \in Starts(s) : j <= i}
<1>1. n \in Nat /\ Starts(s) \subseteq 1 .. n /\ 1 \in Starts(s) /\ i \in 1 .. n
  BY DEF Falling, Starts, Separated
<1>2. above \subseteq 1 .. n /\ 1 \in above /\ (1 .. n) \subseteq Int
  BY <1>1
<1>3. IsFiniteSet(1 .. n)
  BY <1>1, FS_Interval
<1>4. IsFiniteSet(above) /\ above # {} /\ above \subseteq Int
  BY <1>2, <1>3, FS_Subset
<1>5. Max(above) \in above /\ \A y \in above : y <= Max(above)
  BY <1>4, MaxIs
<1>6. Heading(s, i) = Max(above)
  BY DEF Heading
<1>7. Heading(s, i) \in Starts(s) /\ Heading(s, i) <= i /\ \A j \in Starts(s) : j <= i => j <= Heading(s, i)
  BY <1>5, <1>6
<1> QED BY <1>1, <1>7

\* The rows under a separator are the rows of its group.
LEMMA GroupIs ==
  ASSUME NEW s, NEW n, Falling(s, n), NEW k \in Starts(s), NEW i \in 1 .. n
  PROVE  Heading(s, i) = k <=> i \in k .. GroupEnd(s, k)
<1> DEFINE e == GroupEnd(s, k)
           h == Heading(s, i)
<1>1. n \in Nat /\ k \in 1 .. n /\ Starts(s) \subseteq 1 .. n
  BY DEF Falling, Starts
<1>2. e \in k .. n /\ (\A j \in Starts(s) : j > k => e < j) /\ (e = n \/ e + 1 \in Starts(s))
  BY GroupEndIs
<1>3. h \in Starts(s) /\ h \in 1 .. i /\ \A j \in Starts(s) : j <= i => j <= h
  BY HeadIs
<1> HIDE DEF e, h
<1>4. h \in Int /\ e \in Int /\ k \in Int /\ i \in Int /\ n \in Int /\ i <= n /\ h <= i
  BY <1>1, <1>2, <1>3
<1>5. ASSUME h = k PROVE i \in k .. e
  <2>1. CASE e = n
    BY <1>4, <1>5, <2>1
  <2>2. CASE e + 1 \in Starts(s)
    <3>1. ~ (e + 1 <= i)
      BY <1>2, <1>3, <1>4, <1>5, <2>2
    <3> QED BY <1>4, <1>5, <3>1
  <2> QED BY <1>2, <2>1, <2>2
<1>6. ASSUME i \in k .. e PROVE h = k
  <2>1. k <= h
    BY <1>3, <1>4, <1>6
  <2>2. ~ (h > k)
    BY <1>2, <1>3, <1>4, <1>6
  <2> QED BY <1>4, <2>1, <2>2
<1> QED BY <1>5, <1>6 DEF e, h

LEMMA GroupNetIs ==
  ASSUME NEW s, NEW n, Falling(s, n), NEW k \in Starts(s), NEW f, f = [i \in 1 .. n |-> NetRow(s[i])],
         NEW head, head = [i \in 1 .. n |-> Heading(s, i)]
  PROVE  NetOf(s, k, GroupEnd(s, k)) = Group(f, head, 1 .. n, k)
<1> DEFINE U == k .. GroupEnd(s, k)
<1>1. {i \in 1 .. n : head[i] = k} = U
  <2>1. \A i \in 1 .. n : head[i] = k <=> i \in U
    BY GroupIs
  <2>2. U \subseteq 1 .. n
    <3>1. n \in Nat /\ k \in 1 .. n
      BY DEF Falling, Starts
    <3>2. GroupEnd(s, k) \in k .. n
      BY GroupEndIs
    <3> QED BY <3>1, <3>2
  <2> HIDE DEF U
  <2> QED BY <2>1, <2>2
<1>2. \A i \in U : i \in 1 .. n
  BY <1>1
<1>3. NetOf(s, k, GroupEnd(s, k)) = SumOf([i \in U |-> NetRow(s[i])])
  BY DEF NetOf
<1> HIDE DEF U
<1>4. [i \in U |-> NetRow(s[i])] = [i \in U |-> f[i]]
  BY <1>2
<1> QED BY <1>1, <1>3, <1>4 DEF Group, SumOn

\* The nets shown add up to the nets of the rows listed.
LEMMA NetsShown ==
  ASSUME NEW s, NEW n, Falling(s, n)
  PROVE  SumOf(GroupNets(s)) = SumOn([i \in 1 .. n |-> NetRow(s[i])], 1 .. n)
<1> DEFINE f == [i \in 1 .. n |-> NetRow(s[i])]
           head == [i \in 1 .. n |-> Heading(s, i)]
           h == [k \in Starts(s) |-> NetOf(s, k, GroupEnd(s, k))]
           shown == {j \in Starts(s) : \E i \in j .. GroupEnd(s, j) : ~ s[i].planned}
<1>1. n \in Nat /\ Starts(s) \subseteq 1 .. n /\ IsFiniteSet(1 .. n) /\ IsFiniteSet(Starts(s))
  <2>1. n \in Nat /\ Starts(s) \subseteq 1 .. n
    BY DEF Falling, Starts
  <2>2. IsFiniteSet(1 .. n)
    BY <2>1, FS_Interval
  <2> QED BY <2>1, <2>2, FS_Subset
<1>2. \A i \in 1 .. n : f[i] \in Int /\ head[i] \in Starts(s)
  BY NetRowInt, HeadIs
<1>3. \A k \in Starts(s) : h[k] = Group(f, head, 1 .. n, k)
  BY GroupNetIs
<1>4. SumOf(GroupNets(s)) = SumOf([k \in shown |-> NetOf(s, k, GroupEnd(s, k))])
  BY DEF GroupNets
<1>5. [k \in shown |-> NetOf(s, k, GroupEnd(s, k))] = [k \in shown |-> h[k]]
  OBVIOUS
<1>6. shown \subseteq Starts(s)
  OBVIOUS
<1>7. ASSUME NEW k \in Starts(s) \ shown PROVE h[k] = 0
  <2> DEFINE U == k .. GroupEnd(s, k)
             g == [i \in U |-> NetRow(s[i])]
  <2>1. \A i \in U : s[i].planned
    BY <1>7
  <2>2. \A i \in U : g[i] = 0
    BY <2>1, NetRowInt
  <2>3. h[k] = SumOf(g)
    BY DEF NetOf
  <2>4. IsFiniteSet(U)
    <3>1. k \in Int /\ GroupEnd(s, k) \in Int
      BY <1>1, GroupEndIs
    <3> QED BY <3>1, FS_Interval
  <2>5. SumOf(g) = SumOn(g, U)
    BY DEF SumOn
  <2> HIDE DEF f, g, U, h, shown
  <2>6. SumOn(g, U) = 0
    BY <2>2, <2>4, SumOfZeros
  <2> QED BY <2>3, <2>5, <2>6
<1> HIDE DEF f, head, h, shown
<1>8. SumOn(h, Starts(s)) = SumOn(f, 1 .. n)
  <2>1. IsFiniteSet(Starts(s)) /\ IsFiniteSet(1 .. n)
    BY <1>1
  <2> DEFINE K == Starts(s)
             T == 1 .. n
  <2>2. IsFiniteSet(K)
    BY <2>1
  <2>3. IsFiniteSet(T)
    BY <2>1
  <2>4. \A i \in T : f[i] \in Int /\ head[i] \in K
    BY <1>2
  <2>5. \A k \in K : h[k] = Group(f, head, T, k)
    BY <1>3
  <2> HIDE DEF K, T
  <2>6. SumOn(h, K) = SumOn(f, T)
    BY <2>2, <2>3, <2>4, <2>5, SumByKey
  <2> QED BY <2>6 DEF K, T
<1>9. \A k \in Starts(s) : h[k] \in Int
  <2> SUFFICES ASSUME NEW k \in Starts(s) PROVE h[k] \in Int
    OBVIOUS
  <2> DEFINE V == {i \in 1 .. n : head[i] = k}
  <2>1. IsFiniteSet(V) /\ \A i \in V : f[i] \in Int
    BY <1>1, <1>2, FS_Subset
  <2>2. h[k] = SumOn(f, V)
    BY <1>3 DEF Group
  <2> HIDE DEF V
  <2> QED BY <2>1, <2>2, SumInt
<1>10. SumOn(h, Starts(s)) = SumOn(h, shown)
  BY <1>1, <1>6, <1>7, <1>9, SumWithoutZeros
<1> QED BY <1>4, <1>5, <1>8, <1>10 DEF SumOn, f

\* Rows have ids of their own, and the next id is above them all.
ViewInv ==
  /\ book \subseteq ViewRow
  /\ IsFiniteSet(book)
  /\ newRow \in Nat
  /\ \A r \in book : r.id < newRow
  /\ \A r, q \in book : r.id = q.id => r = q

LEMMA ViewRowIs ==
  ASSUME NEW r \in ViewRow
  PROVE  r.id \in Nat /\ r.day \in Nat /\ r.planned \in BOOLEAN
<1>1. r.id \in 1 .. MaxRow /\ r.day \in Days /\ r.planned \in BOOLEAN
  BY DEF ViewRow
<1>2. MaxRow \in Nat /\ Days \subseteq Nat
  BY LedgerViewAssumption
<1>3. r.id \in Nat
  BY <1>1, <1>2
<1>4. r.day \in Nat
  BY <1>1, <1>2
<1> QED BY <1>1, <1>3, <1>4

LEMMA Unrolled ==
  ASSUME NEW n \in Nat, NEW S, NEW s \in [1 .. n -> S]
  PROVE  Len(s) = n
OBVIOUS

\* Rows arranged by an order that follows the days are listed newest day first,
\* and add up to what they are the list of.
LEMMA ArrangedAddUp ==
  ASSUME NEW S, IsFiniteSet(S), NEW R, \A r \in S : r.day \in Nat,
         \A r, q \in S : <<r, q>> \in R => r.day >= q.day /\ r # q,
         NEW s, Arranges(s, S, R)
  PROVE  /\ SumOf(GroupNets(s)) = SumOf([r \in S |-> NetRow(r)])
         /\ \A j, k \in Starts(s) : j # k => Bucket(s[j]) # Bucket(s[k])
<1> DEFINE n == Cardinality(S)
<1>1. Arranges(s, S, R)
  OBVIOUS
<1>2. n \in Nat /\ IsFiniteSet(1 .. n)
  BY FS_CardinalityType, FS_Interval
<1>3. s \in [1 .. n -> S] /\ DOMAIN s = 1 .. n
  BY <1>1 DEF Arranges
<1>4. (\A x \in S : \E i \in 1 .. n : s[i] = x) /\ \A i, j \in 1 .. n : i < j => <<s[i], s[j]>> \in R
  BY <1>1, <1>3 DEF Arranges
<1> HIDE DEF n
<1>5. Len(s) = n
  BY <1>2, <1>3, Unrolled
<1>6. \A i \in 1 .. n : s[i] \in S /\ s[i].day \in Nat
  BY <1>3
<1>7. \A i, j \in 1 .. n : i < j => s[i].day >= s[j].day /\ s[i] # s[j]
  BY <1>4, <1>6
<1>8. Falling(s, n)
  BY <1>2, <1>3, <1>5, <1>6, <1>7 DEF Falling
<1>9. \A i, j \in 1 .. n : s[i] = s[j] => i = j
  <2> SUFFICES ASSUME NEW i \in 1 .. n, NEW j \in 1 .. n, i # j PROVE s[i] # s[j]
    OBVIOUS
  <2>1. i < j \/ j < i
    BY <1>2
  <2> QED BY <1>7, <2>1
<1> DEFINE f == [i \in 1 .. n |-> NetRow(s[i])]
           g == [r \in S |-> NetRow(r)]
<1>10. \A i \in 1 .. n : s[i] \in S /\ f[i] \in Int /\ f[i] = g[s[i]]
  BY <1>6, NetRowInt
<1>11. SumOf(GroupNets(s)) = SumOn(f, 1 .. n)
  BY <1>8, NetsShown
<1>12. SumOf([r \in S |-> NetRow(r)]) = SumOn(g, S)
  <2>1. [r \in S |-> NetRow(r)] = [r \in S |-> g[r]]
    OBVIOUS
  <2> QED BY <2>1 DEF SumOn
<1> HIDE DEF f, g
<1>13. SumOn(f, 1 .. n) = SumOn(g, S)
  <2> DEFINE I == 1 .. n
  <2>1. IsFiniteSet(I)
    BY <1>2
  <2>2. Numbers(s, I, S)
    BY <1>4, <1>6, <1>9 DEF Numbers
  <2>3. \A i \in I : f[i] \in Int /\ f[i] = g[s[i]]
    BY <1>10
  <2> HIDE DEF I
  <2>4. SumOn(f, I) = SumOn(g, S)
    BY <2>1, <2>2, <2>3, SumNumbered
  <2> QED BY <2>4 DEF I
<1>14. ASSUME NEW j \in Starts(s), NEW k \in Starts(s), j # k PROVE Bucket(s[j]) # Bucket(s[k])
  <2>1. j \in Int /\ k \in Int
    BY <1>3 DEF Starts
  <2>2. j < k \/ k < j
    BY <1>14, <2>1
  <2> QED BY <1>8, <2>2, StartsApart
<1> QED BY <1>11, <1>12, <1>13, <1>14

LEMMA NewestInOrder ==
  ASSUME ViewInv, NEW S \in SUBSET book, NEW R, R = {p \in S \X S : Newer(p[1], p[2])}
  PROVE  /\ Connected(S, R) /\ Transitive(S, R)
         /\ \A r, q \in S : <<r, q>> \in R => r.day >= q.day /\ r # q
<1>1. \A r, q \in S : <<r, q>> \in R <=> Newer(r, q)
  OBVIOUS
<1>2. \A r \in S : r.id \in Nat /\ r.day \in Nat
  BY ViewRowIs DEF ViewInv
<1>3. \A r, q \in S : r # q => r.id # q.id
  BY DEF ViewInv
<1>4. Connected(S, R)
  BY <1>1, <1>2, <1>3 DEF Connected, Newer
<1>5. Transitive(S, R)
  BY <1>1, <1>2 DEF Transitive, Newer
<1>6. \A r, q \in S : <<r, q>> \in R => r.day >= q.day /\ r # q
  BY <1>1, <1>2 DEF Newer
<1> QED BY <1>4, <1>5, <1>6

LEMMA MergedInOrder ==
  ASSUME ViewInv, NEW R, R = {p \in book \X book : Above(p[1], p[2])}
  PROVE  /\ Connected(book, R) /\ Transitive(book, R)
         /\ \A r, q \in book : <<r, q>> \in R => r.day >= q.day /\ r # q
<1>1. \A r, q \in book : <<r, q>> \in R <=> Above(r, q)
  OBVIOUS
<1>2. \A r \in book : r.id \in Nat /\ r.day \in Nat /\ r.planned \in BOOLEAN
  BY ViewRowIs DEF ViewInv
<1>3. \A r, q \in book : r # q => r.id # q.id
  BY DEF ViewInv
<1>4. Connected(book, R)
  BY <1>1, <1>2, <1>3 DEF Connected, Above
<1>5. Transitive(book, R)
  BY <1>1, <1>2 DEF Transitive, Above
<1>6. \A r, q \in book : <<r, q>> \in R => r.day >= q.day /\ r # q
  BY <1>1, <1>2 DEF Above
<1> QED BY <1>4, <1>5, <1>6

\* Upcoming rows count for nothing.
LEMMA StoredAddUp ==
  ASSUME ViewInv
  PROVE  SumOf([r \in book |-> NetRow(r)]) = SumOf([r \in Stored |-> NetRow(r)])
<1> DEFINE g == [r \in book |-> NetRow(r)]
<1>1. Stored \subseteq book /\ IsFiniteSet(book)
  BY DEF ViewInv, Stored
<1>2. \A r \in book : g[r] \in Int
  BY NetRowInt
<1>3. \A r \in book \ Stored : g[r] = 0
  BY NetRowInt DEF Stored
<1>4. [r \in book |-> NetRow(r)] = [r \in book |-> g[r]] /\ [r \in Stored |-> NetRow(r)] = [r \in Stored |-> g[r]]
  BY <1>1
<1> HIDE DEF g
<1>5. SumOn(g, book) = SumOn(g, Stored)
  BY <1>1, <1>2, <1>3, SumWithoutZeros
<1> QED BY <1>4, <1>5 DEF SumOn

LEMMA ViewAddsUp == ViewInv => GroupNetsAddUp
<1> SUFFICES ASSUME ViewInv PROVE GroupNetsAddUp
  OBVIOUS
<1> DEFINE Good(s) ==
       /\ SumOf(GroupNets(s)) = SumOf([r \in Stored |-> NetRow(r)])
       /\ \A j, k \in Starts(s) : j # k => Bucket(s[j]) # Bucket(s[k])
<1>1. IsFiniteSet(book) /\ Stored \subseteq book /\ IsFiniteSet(Stored) /\ \A r \in book : r.day \in Nat
  BY FS_Subset, ViewRowIs DEF ViewInv, Stored
<1>2. Good(MergedRows)
  <2> DEFINE R == {p \in book \X book : Above(p[1], p[2])}
             s == MergedRows
  <2>1. Connected(book, R) /\ Transitive(book, R)
        /\ \A r, q \in book : <<r, q>> \in R => r.day >= q.day /\ r # q
    BY MergedInOrder
  <2>2. Arranges(s, book, R)
    BY <1>1, <2>1, ArrangedIs DEF MergedRows
  <2> HIDE DEF R, s
  <2>3. /\ SumOf(GroupNets(s)) = SumOf([r \in book |-> NetRow(r)])
        /\ \A j, k \in Starts(s) : j # k => Bucket(s[j]) # Bucket(s[k])
    BY <1>1, <2>1, <2>2, ArrangedAddUp
  <2> QED BY <2>3, StoredAddUp DEF s
<1>3. Good(Newest(Stored))
  <2> DEFINE R == {p \in Stored \X Stored : Newer(p[1], p[2])}
             s == Newest(Stored)
  <2>1. Connected(Stored, R) /\ Transitive(Stored, R)
        /\ \A r, q \in Stored : <<r, q>> \in R => r.day >= q.day /\ r # q
    BY <1>1, NewestInOrder
  <2>2. Arranges(s, Stored, R)
    BY <1>1, <2>1, ArrangedIs DEF Newest
  <2>3. \A r \in Stored : r.day \in Nat
    BY <1>1
  <2> HIDE DEF R, s
  <2>4. /\ SumOf(GroupNets(s)) = SumOf([r \in Stored |-> NetRow(r)])
        /\ \A j, k \in Starts(s) : j # k => Bucket(s[j]) # Bucket(s[k])
    BY <1>1, <2>1, <2>2, <2>3, ArrangedAddUp
  <2> QED BY <2>4 DEF s
<1> QED BY <1>2, <1>3 DEF GroupNetsAddUp

LEMMA ViewStart == ViewInit => ViewInv
<1> SUFFICES ASSUME ViewInit PROVE ViewInv
  OBVIOUS
<1>1. book = {} /\ newRow = 1 /\ IsFiniteSet({})
  BY FS_EmptySet DEF ViewInit
<1> QED BY <1>1 DEF ViewInv

LEMMA ViewStep == ViewInv /\ [ViewNext]_viewVars => ViewInv'
<1> SUFFICES ASSUME ViewInv, [ViewNext]_viewVars PROVE ViewInv'
  OBVIOUS
<1>1. /\ book \subseteq ViewRow /\ IsFiniteSet(book) /\ newRow \in Nat
      /\ \A r \in book : r.id < newRow /\ r.id \in Nat
      /\ \A r, q \in book : r.id = q.id => r = q
  BY ViewRowIs DEF ViewInv
<1>2. ASSUME NEW r \in ViewRow, InsertRow(r) PROVE ViewInv'
  <2>1. book' = book \cup {r} /\ newRow' = newRow + 1 /\ r.id = newRow
    BY <1>2 DEF InsertRow
  <2>2. IsFiniteSet(book')
    BY <1>1, <2>1, FS_AddElement
  <2>3. \A q \in book' : q.id < newRow'
    BY <1>1, <2>1
  <2>4. \A q, t \in book' : q.id = t.id => q = t
    BY <1>1, <2>1
  <2> QED BY <1>1, <2>1, <2>2, <2>3, <2>4 DEF ViewInv
<1>3. ASSUME book' \subseteq book, newRow' = newRow PROVE ViewInv'
  <2>1. IsFiniteSet(book')
    BY <1>1, <1>3, FS_Subset
  <2> QED BY <1>1, <1>3, <2>1 DEF ViewInv
<1>4. ASSUME NEW r \in book, Reword(r) PROVE ViewInv'
  <2> DEFINE q == [r EXCEPT !.hit = ~ @]
  <2>1. q \in ViewRow /\ q.id = r.id
    <3>1. r \in ViewRow /\ ~ r.planned
      BY <1>1, <1>4 DEF Reword, Stored
    <3> QED BY <3>1 DEF ViewRow
  <2>2. book' = (book \ {r}) \cup {q} /\ newRow' = newRow
    BY <1>4 DEF Reword
  <2> HIDE DEF q
  <2>3. IsFiniteSet(book')
    BY <1>1, <2>2, FS_Subset, FS_AddElement
  <2>4. \A t \in book' : t.id < newRow'
    BY <1>1, <2>1, <2>2
  <2>5. \A t, u \in book' : t.id = u.id => t = u
    BY <1>1, <2>1, <2>2
  <2> QED BY <1>1, <2>1, <2>2, <2>3, <2>4, <2>5 DEF ViewInv
<1>5. ASSUME NEW r \in book, RemoveRow(r) \/ RollbackInsert(r) PROVE ViewInv'
  BY <1>3, <1>5 DEF RemoveRow, RollbackInsert
<1>6. CASE SearchRows \/ UNCHANGED viewVars
  BY <1>3, <1>6 DEF SearchRows, viewVars
<1> QED BY <1>2, <1>4, <1>5, <1>6 DEF ViewNext

\* The nets at the separators add up to the net of the rows stored, and no
\* bucket is split in two groups, with the upcoming rows merged in or not
\* (attach_group_nets, merge_upcoming_rows), for a ledger of any length.
THEOREM NetsAddUp == ViewSpec => []GroupNetsAddUp
<1>1. ViewSpec => []ViewInv
  BY ViewStart, ViewStep, PTL DEF ViewSpec
<1> QED BY <1>1, ViewAddsUp, PTL
=============================================================================
