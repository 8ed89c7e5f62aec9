----------------------------------- MODULE Flows ----------------------------------
(***************************************************************************)
(* The ledger as the reports read it (services/categorised_flows.py,       *)
(* services/loan_links.py).  A transaction is a record [id, category,      *)
(* account, institution, month, amount, type, dir, splits, internal, link, *)
(* loan]: category 0 is none, month is 12 * year + month - 1, dir is the   *)
(* direction of a transfer's leg, link the id of the other leg, loan       *)
(* whether a personal loan or a repayment points at it.                    *)
(***************************************************************************)
EXTENDS Integers, Sequences, FiniteSets, FiniteSetsExt, Tables

Amounts(rows) == SumOf([r \in rows |-> r.amount])

Whole(t) == [tx |-> t.id, part |-> 0, category |-> t.category, amount |-> t.amount, at |-> t]
PartsOf(t) ==
    {[tx |-> t.id, part |-> i, category |-> t.splits[i].category, amount |-> t.splits[i].amount,
      at |-> t] : i \in DOMAIN t.splits}
Transactions(ledger) == {Whole(t) : t \in ledger}
\* One row per transaction that is not split, one per part of a split.
CategorisedFlows(ledger) ==
    {Whole(t) : t \in {u \in ledger : u.splits = <<>>}} \cup UNION {PartsOf(t) : t \in ledger}

LoanLinked(ledger) == {t.id : t \in {u \in ledger : u.loan}}
=============================================================================
