------------------------------- MODULE Store -------------------------------
(***************************************************************************)
(* The tables of one household's schema, their foreign keys, and the       *)
(* operations that write many tables at once: deleting a row from a page,  *)
(* clearing everything, filling in the example data, exporting a backup    *)
(* and restoring it.                                                       *)
(*                                                                         *)
(* A row keeps its table, its id, a name (what the seeders and the UNIQUE  *)
(* constraints tell apart) and its foreign keys; every other column, and   *)
(* the user_id that nearly every table carries, has no effect here.  A     *)
(* foreign key has two fates for its row when the row it points at goes:   *)
(* `db', the ON DELETE clause, for a DELETE statement, and `orm', what the *)
(* relationship of the parent does when the parent is deleted through a    *)
(* session ("-" when there is no relationship: the clause decides).        *)
(*                                                                         *)
(* Ids come from each table's sequence, which a rollback does not turn     *)
(* back and an insert that names its id, as a restore's do, does not move. *)
(***************************************************************************)
EXTENDS Naturals, FiniteSets, Sequences, SequencesExt

CONSTANTS
    UserTables,     \* the tables the members write rows of, in this instance
    MaxSteps,       \* bound: operations of one behaviour
    MaxId,          \* bound: rows one table ever holds
    RaceRows        \* bound: operations race an export of at most this many rows

VARIABLES
    db,         \* the rows
    sequences,  \* the last id each table's sequence gave
    file,       \* the backup on disk: the rows it holds, or NoFile
    export,     \* an export under way: [at, rows], or NoExport
    last,       \* the last operation: its name, its keys, whether it was refused
    steps       \* how many operations were done

storeVars == <<db, sequences, file, export, last, steps>>

Fk(to, db_, orm, must) == [to |-> to, db |-> db_, orm |-> orm, must |-> must]
NoKeys == [c \in {} |-> Fk("", "", "", FALSE)]

----------------------------------------------------------------------------
(* The models: for every table, its foreign keys. *)

Account == [institution_id |-> Fk("institutions", "null", "null", FALSE)]

Category == [parent_id |-> Fk("categories", "null", "delete", FALSE)]

Budget == [category_id |-> Fk("categories", "restrict", "delete", TRUE)]

Transaction ==
    [account_id |-> Fk("accounts", "restrict", "delete", TRUE),
     category_id |-> Fk("categories", "restrict", "null", FALSE),
     payee_id |-> Fk("payees", "null", "null", FALSE),
     linked_transaction_id |-> Fk("transactions", "restrict", "-", FALSE),
     planned_transaction_id |-> Fk("planned_transactions", "null", "-", FALSE),
     irregular_item_id |-> Fk("irregular_items", "null", "-", FALSE),
     gift_id |-> Fk("gifts", "null", "-", FALSE)]

TransactionSplit ==
    [transaction_id |-> Fk("transactions", "cascade", "delete", TRUE),
     category_id |-> Fk("categories", "null", "-", FALSE)]

TransactionTags ==
    [transaction_id |-> Fk("transactions", "cascade", "delete", TRUE),
     tag_id |-> Fk("tags", "cascade", "delete", TRUE)]

PlannedTransaction ==
    [account_id |-> Fk("accounts", "cascade", "-", TRUE),
     transfer_to_account_id |-> Fk("accounts", "null", "-", FALSE),
     category_id |-> Fk("categories", "null", "-", FALSE),
     payee_id |-> Fk("payees", "null", "-", FALSE)]

Subscription ==
    [payee_id |-> Fk("payees", "null", "-", FALSE),
     category_id |-> Fk("categories", "null", "-", FALSE)]

DismissedCandidate == [payee_id |-> Fk("payees", "cascade", "-", FALSE)]

DismissedTransferPair ==
    [first_id |-> Fk("transactions", "cascade", "-", TRUE),
     second_id |-> Fk("transactions", "cascade", "-", TRUE)]

PayeeIdentity == [payee_id |-> Fk("payees", "cascade", "delete", TRUE)]

DismissedPayeeMerge ==
    [first_payee_id |-> Fk("payees", "cascade", "-", TRUE),
     second_payee_id |-> Fk("payees", "cascade", "-", TRUE)]

PayeeAutoMerge == [target_payee_id |-> Fk("payees", "cascade", "-", TRUE)]

ReserveFund ==
    [backing_account_id |-> Fk("accounts", "null", "-", FALSE),
     backing_category_id |-> Fk("categories", "null", "-", FALSE)]

IrregularItem ==
    [fund_id |-> Fk("reserve_funds", "cascade", "-", TRUE),
     category_id |-> Fk("categories", "null", "-", FALSE)]

PersonalLoan ==
    [counterparty_id |-> Fk("counterparties", "cascade", "delete", TRUE),
     transaction_id |-> Fk("transactions", "null", "-", FALSE)]

PersonalLoanRepayment ==
    [loan_id |-> Fk("personal_loans", "cascade", "delete", TRUE),
     linked_transaction_id |-> Fk("transactions", "null", "-", FALSE)]

CreditCardProfile == [account_id |-> Fk("accounts", "cascade", "-", TRUE)]

LoanProfile == [account_id |-> Fk("accounts", "cascade", "-", TRUE)]

CategorisationRule == [category_id |-> Fk("categories", "cascade", "-", TRUE)]

ImportRule == [account_id |-> Fk("accounts", "cascade", "-", TRUE)]

ImportRun == [account_id |-> Fk("accounts", "cascade", "-", TRUE)]

\* Tables that hang off users alone, or off nothing.
FreeTables ==
    <<"users", "api_tokens", "user_mfa", "app_events", "bug_reports", "audit_log",
      "institutions", "payees", "tags", "gifts", "counterparties", "assets",
      "saved_reports", "currency_rates", "yearly_plans", "monthly_readiness">>
Free == Range(FreeTables)

Keyed == [accounts |-> Account, categories |-> Category, budgets |-> Budget,
          planned_transactions |-> PlannedTransaction, subscriptions |-> Subscription,
          reserve_funds |-> ReserveFund, irregular_items |-> IrregularItem,
          transactions |-> Transaction, transaction_splits |-> TransactionSplit,
          transaction_tags |-> TransactionTags,
          dismissed_candidate_patterns |-> DismissedCandidate,
          dismissed_transfer_pairs |-> DismissedTransferPair,
          payee_identities |-> PayeeIdentity, dismissed_payee_merges |-> DismissedPayeeMerge,
          payee_auto_merges |-> PayeeAutoMerge, personal_loans |-> PersonalLoan,
          personal_loan_repayments |-> PersonalLoanRepayment,
          credit_card_profiles |-> CreditCardProfile, loan_profiles |-> LoanProfile,
          categorisation_rules |-> CategorisationRule, import_rules |-> ImportRule,
          import_runs |-> ImportRun]

AllTables == Free \cup DOMAIN Keyed
Keys(t) == IF t \in Free THEN NoKeys ELSE Keyed[t]

\* The columns whose UNIQUE constraint the name stands for.
UniqueName == {"institutions", "payees", "tags", "counterparties"}

----------------------------------------------------------------------------
(* Rows and the database's foreign-key rules. *)

NoRow == 0
Mark(word) == {[t |-> word, id |-> 0, name |-> "", refs |-> NoKeys]}
Refused == Mark("refused")
NoFile == Mark("no file")
NoExport == [at |-> 0, rows |-> {}]

In(t, rows) == {r \in rows : r.t = t}
At(t, i, rows) == {r \in rows : r.t = t /\ r.id = i}
\* An INSERT that leaves the id to the sequence, on a store [rows, sequences]: an id
\* that a restored row already has is refused, and spent all the same.  The tags
\* of a transaction have no id of their own and no sequence.
InsertNext(t, name, refs, st) ==
    LET tags == t = "transaction_tags"
        id == IF tags THEN CHOOSE i \in 1 .. Cardinality(In(t, st.rows)) + 1 : At(t, i, st.rows) = {}
              ELSE st.sequences[t] + 1
    IN [rows |-> IF At(t, id, st.rows) # {} THEN Refused
                 ELSE st.rows \cup {[t |-> t, id |-> id, name |-> name, refs |-> refs]},
        sequences |-> IF tags THEN st.sequences ELSE [st.sequences EXCEPT ![t] = id]]

PointsAt(r, c, gone) ==
    \E v \in gone : v.t = Keys(r.t)[c].to /\ v.id = r.refs[c]

\* A key's fate: the ON DELETE clause, or what the relationship does
Fate(r, c, fate) == Keys(r.t)[c][fate[1]] = fate[2]

\* The rows that go with `gone', by the fate of the keys that point there
RECURSIVE Swept(_, _, _)
Swept(gone, rows, fate) ==
    LET more == {r \in rows \ gone :
            \E c \in DOMAIN r.refs : Fate(r, c, fate) /\ PointsAt(r, c, gone)}
    IN IF more = {} THEN gone ELSE Swept(gone \cup more, rows, fate)

\* The rows left, with the keys of that fate that pointed at `gone' emptied
Emptied(rows, gone, fate) ==
    {[r EXCEPT !.refs = [c \in DOMAIN r.refs |->
         IF Fate(r, c, fate) /\ PointsAt(r, c, gone) THEN NoRow ELSE r.refs[c]]] : r \in rows}

\* DELETE of the rows `victims' in one statement: the ON DELETE clauses run,
\* and a key without one refuses the statement.
DeleteStatement(victims, rows) ==
    LET gone == Swept(victims, rows, <<"db", "cascade">>)
        left == Emptied(rows \ gone, gone, <<"db", "null">>)
    IN IF \E r \in left : \E c \in DOMAIN r.refs : PointsAt(r, c, gone)
       THEN Refused ELSE left

\* session.delete(row); commit(): the relationships first, then the clauses
SessionDelete(r, rows) ==
    LET gone == Swept({r}, rows, <<"orm", "delete">>)
        left == Emptied(rows \ gone, gone, <<"orm", "null">>)
    IN DeleteStatement(gone, left \cup gone)

\* A list of tables emptied one after the other, in one transaction
RECURSIVE EmptyTables(_, _)
EmptyTables(tables, rows) ==
    IF tables = <<>> \/ rows = Refused THEN rows
    ELSE EmptyTables(Tail(tables), DeleteStatement(In(Head(tables), rows), rows))

----------------------------------------------------------------------------
(* The example data.  Every seeder writes one row (or two, where two       *)
(* matter) of each of its tables; a key names the row it is looked up by.  *)

Seeders == <<"taxonomy", "accounts", "assets", "transactions", "budgets", "planned",
             "subscriptions", "reserve_funds", "personal_loans", "credit_cards", "gifts">>

DependsOn(k) ==
    CASE k \in {"transactions", "planned"} -> {"taxonomy", "accounts"}
      [] k \in {"budgets", "subscriptions"} -> {"taxonomy"}
      [] k \in {"reserve_funds", "credit_cards"} -> {"accounts"}
      [] OTHER -> {}

\* The subscriptions root, and what hangs off it.
IsRoot(r) == r.t = "categories" /\ r.name = "root"
UnderRoot(r, rows) ==
    r.t = "categories" /\ \E q \in rows : IsRoot(q) /\ r.refs.parent_id = q.id

\* count: the rows a feature already holds
Counted(k, rows) ==
    CASE k = "taxonomy" ->
            {r \in In("categories", rows) : ~IsRoot(r) /\ ~UnderRoot(r, rows)}
      [] k = "planned" -> In("planned_transactions", rows)
      [] k = "credit_cards" -> In("credit_card_profiles", rows)
      [] OTHER -> In(k, rows)

Tpl(t, name, look) == [t |-> t, name |-> name, look |-> look]
NoLook == [c \in {} |-> <<"", "">>]

TaxonomySeeder(rows) ==
    <<Tpl("categories", "seed", NoLook)>>
    \o (IF \E r \in rows : IsRoot(r) THEN <<>> ELSE <<Tpl("categories", "root", NoLook)>>)
    \o (IF \E r \in rows : UnderRoot(r, rows) /\ r.name = "child" THEN <<>>
        ELSE <<Tpl("categories", "child", [parent_id |-> <<"categories", "root">>])>>)
    \o (IF \E r \in In("tags", rows) : r.name = "seed" THEN <<>>
        ELSE <<Tpl("tags", "seed", NoLook)>>)
    \o <<Tpl("payees", "seed", NoLook),
         Tpl("categorisation_rules", "seed", [category_id |-> <<"categories", "seed">>])>>

AccountsSeeder ==
    <<Tpl("institutions", "seed", NoLook),
      Tpl("accounts", "checking", [institution_id |-> <<"institutions", "seed">>]),
      Tpl("accounts", "savings", NoLook)>>

AssetsSeeder == <<Tpl("assets", "seed", NoLook)>>

TransactionsSeeder ==
    <<Tpl("transactions", "seed", [account_id |-> <<"accounts", "checking">>,
          category_id |-> <<"categories", "seed">>, payee_id |-> <<"payees", "seed">>]),
      Tpl("transactions", "out", [account_id |-> <<"accounts", "checking">>]),
      Tpl("transactions", "in", [account_id |-> <<"accounts", "savings">>]),
      Tpl("transaction_tags", "seed", [transaction_id |-> <<"transactions", "seed">>,
          tag_id |-> <<"tags", "seed">>])>>

BudgetsSeeder == <<Tpl("budgets", "seed", [category_id |-> <<"categories", "seed">>])>>

PlannedTransactionsSeeder ==
    <<Tpl("planned_transactions", "seed", [account_id |-> <<"accounts", "checking">>,
          category_id |-> <<"categories", "seed">>]),
      Tpl("planned_transactions", "phone", [account_id |-> <<"accounts", "savings">>,
          category_id |-> <<"categories", "child">>])>>

SubscriptionsSeeder ==
    <<Tpl("subscriptions", "seed", [category_id |-> <<"categories", "child">>])>>

ReserveFundsSeeder ==
    <<Tpl("reserve_funds", "seed", [backing_account_id |-> <<"accounts", "savings">>]),
      Tpl("irregular_items", "seed", [fund_id |-> <<"reserve_funds", "seed">>])>>

PersonalLoansSeeder ==
    <<Tpl("counterparties", "seed", NoLook),
      Tpl("personal_loans", "seed", [counterparty_id |-> <<"counterparties", "seed">>]),
      Tpl("personal_loan_repayments", "seed", [loan_id |-> <<"personal_loans", "seed">>])>>

CreditCardsSeeder ==
    <<Tpl("credit_card_profiles", "seed", [account_id |-> <<"accounts", "checking">>])>>

GiftsSeeder == <<Tpl("gifts", "seed", NoLook)>>

Templates(k, rows) ==
    CASE k = "taxonomy" -> TaxonomySeeder(rows)
      [] k = "accounts" -> AccountsSeeder
      [] k = "assets" -> AssetsSeeder
      [] k = "transactions" -> TransactionsSeeder
      [] k = "budgets" -> BudgetsSeeder
      [] k = "planned" -> PlannedTransactionsSeeder
      [] k = "subscriptions" -> SubscriptionsSeeder
      [] k = "reserve_funds" -> ReserveFundsSeeder
      [] k = "personal_loans" -> PersonalLoansSeeder
      [] k = "credit_cards" -> CreditCardsSeeder
      [] k = "gifts" -> GiftsSeeder

\* The row a lookup by name or by kind finds: top-level categories by name,
\* the children under the subscriptions root, everything else by its name.
Found(where, rows) ==
    {r \in In(where[1], rows) :
        /\ r.name = where[2]
        /\ where = <<"categories", "seed">> => r.refs.parent_id = NoRow
        /\ where = <<"categories", "child">> => UnderRoot(r, rows)}

\* One row written: a lookup that finds nothing raises, and so does a
\* duplicate of a unique name.
Written(tpl, st) ==
    IF \/ \E c \in DOMAIN tpl.look : Found(tpl.look[c], st.rows) = {}
       \/ tpl.t \in UniqueName /\ \E r \in In(tpl.t, st.rows) : r.name = tpl.name
    THEN [st EXCEPT !.rows = Refused]
    ELSE InsertNext(tpl.t, tpl.name,
            [c \in DOMAIN Keys(tpl.t) |->
                IF c \notin DOMAIN tpl.look THEN NoRow
                ELSE (CHOOSE r \in Found(tpl.look[c], st.rows) :
                        \A q \in Found(tpl.look[c], st.rows) : q.id <= r.id).id], st)

\* The two legs of the seeded transfer point at each other.
Paired(rows) ==
    {IF r.t = "transactions" /\ r.name \in {"out", "in"}
     THEN [r EXCEPT !.refs.linked_transaction_id =
              (CHOOSE q \in In("transactions", rows) : {q.name, r.name} = {"out", "in"}).id]
     ELSE r : r \in rows}

Create(k, st) ==
    LET done == FoldLeft(LAMBDA acc, tpl : IF acc.rows = Refused THEN acc ELSE Written(tpl, acc),
                         st, Templates(k, st.rows))
    IN IF k = "transactions" /\ done.rows # Refused
       THEN [done EXCEPT !.rows = Paired(@)] ELSE done

\* Seeder.seed without replace: a feature that holds rows is left alone
SeedOne(k, st) ==
    IF st.rows = Refused \/ Counted(k, st.rows) # {} THEN st ELSE Create(k, st)

\* remove: the tables a seeder empties, in its order
Removes(k) ==
    CASE k = "taxonomy" -> <<"categorisation_rules", "tags", "payee_auto_merges",
                             "dismissed_payee_merges", "payee_identities", "payees",
                             "categories">>
      [] k = "accounts" -> <<"accounts", "institutions">>
      [] k = "transactions" -> <<"transaction_tags", "transaction_splits", "transactions">>
      [] k = "planned" -> <<"planned_transactions">>
      [] k = "personal_loans" -> <<"personal_loan_repayments", "personal_loans",
                                   "counterparties">>
      [] k = "credit_cards" -> <<"credit_card_profiles">>
      [] OTHER -> <<k>>

RECURSIVE WithDependencies(_)
WithDependencies(keys) ==
    LET more == UNION {DependsOn(k) : k \in keys} \ keys
    IN IF more = {} THEN keys ELSE WithDependencies(keys \cup more)

RECURSIVE WithDependents(_)
WithDependents(keys) ==
    LET more == {k \in Range(Seeders) : DependsOn(k) \cap keys # {}} \ keys
    IN IF more = {} THEN keys ELSE WithDependents(keys \cup more)

InOrder(keys) == SelectSeq(Seeders, LAMBDA k : k \in keys)

\* seed_features: the named features and what they stand on, one commit
SeedFeatures(keys, st) ==
    FoldLeft(LAMBDA acc, k : SeedOne(k, acc), st, InOrder(WithDependencies(keys)))

\* seed_features(replace=True): the features and their dependants are emptied,
\* in reverse order, and what they need is seeded again
WithoutFeatures(keys, rows) ==
    FoldLeft(LAMBDA acc, k : EmptyTables(Removes(k), acc),
             rows, Reverse(InOrder(WithDependents(keys))))

ReplaceFeatures(keys, st) ==
    SeedFeatures(WithDependents(keys), [st EXCEPT !.rows = WithoutFeatures(keys, @)])

----------------------------------------------------------------------------
(* Operations.  Each one records its outcome; a refused one is rolled back, *)
(* the ids it took are not.                                                 *)

Stored == [rows |-> db, sequences |-> sequences]

Outcome(op, keys, st, wiped) ==
    /\ steps < MaxSteps
    /\ export # NoExport => Cardinality(db) <= RaceRows
    /\ steps' = steps + 1
    /\ last' = [op |-> op, keys |-> keys, ok |-> st.rows # Refused, wiped |-> wiped # Refused]
    /\ db' = IF st.rows = Refused THEN db ELSE st.rows
    /\ sequences' = st.sequences

\* A row a member adds: its nullable keys are all empty, or all filled with
\* the newest row there is; links between transactions are the Ledger's.
OwnRow(t, full, st) ==
    LET pick(c) ==
            LET there == In(Keys(t)[c].to, st.rows)
            IN IF c = "linked_transaction_id" \/ ~(Keys(t)[c].must \/ full) \/ there = {}
               THEN NoRow ELSE (CHOOSE r \in there : \A q \in there : q.id <= r.id).id
    IN InsertNext(t, IF t = "accounts" THEN "checking" ELSE "own",
              [c \in DOMAIN Keys(t) |-> pick(c)], st)

AddRow(t, full) ==
    /\ Cardinality(In(t, db)) < MaxId
    /\ \A c \in DOMAIN Keys(t) : Keys(t)[c].must => In(Keys(t)[c].to, db) # {}
    /\ t \in UniqueName => \A r \in In(t, db) : r.name # "own"
    /\ Outcome("add", {}, OwnRow(t, full, Stored), db)
    /\ UNCHANGED <<file, export>>

\* A page deletes one row; the subscriptions root is protected.
DeleteStoredRow(r) ==
    /\ ~IsRoot(r)
    /\ Outcome("delete " \o r.t, {}, [Stored EXCEPT !.rows = SessionDelete(r, @)], db)
    /\ UNCHANGED <<file, export>>

ClearedModels ==
    <<"transaction_splits", "transactions", "budgets", "planned_transactions",
      "subscriptions", "dismissed_candidate_patterns", "payee_auto_merges",
      "dismissed_payee_merges", "payee_identities", "irregular_items", "reserve_funds",
      "gifts", "personal_loan_repayments", "personal_loans", "counterparties",
      "credit_card_profiles", "loan_profiles", "categorisation_rules", "currency_rates",
      "audit_log", "assets", "saved_reports", "tags", "accounts", "categories",
      "institutions", "payees", "transaction_tags">>

ClearAll ==
    /\ LET rows == EmptyTables(ClearedModels, db)
       IN Outcome("clear", {}, [Stored EXCEPT !.rows = rows], rows)
    /\ UNCHANGED <<file, export>>

Seed(keys) ==
    /\ Outcome("seed", keys, SeedFeatures(keys, Stored), db)
    /\ UNCHANGED <<file, export>>

Replace(keys) ==
    /\ Outcome("replace", keys, ReplaceFeatures(keys, Stored), WithoutFeatures(keys, db))
    /\ UNCHANGED <<file, export>>

\* The demo reset: everything cleared and committed, then every feature seeded
Reset ==
    /\ LET empty == EmptyTables(ClearedModels, db)
           full == SeedFeatures(Range(Seeders), [Stored EXCEPT !.rows = empty])
       IN Outcome("reset", {}, IF empty # Refused /\ full.rows = Refused
                               THEN [full EXCEPT !.rows = empty] ELSE full, empty)
    /\ UNCHANGED <<file, export>>

----------------------------------------------------------------------------
(* Backup and restore. *)

\* Base.metadata.sorted_tables: an order the foreign keys allow
BackupTables ==
    FreeTables
    \o <<"accounts", "categories", "planned_transactions", "subscriptions",
         "reserve_funds", "irregular_items", "budgets", "transactions",
         "transaction_splits", "transaction_tags", "dismissed_candidate_patterns",
         "dismissed_transfer_pairs", "payee_identities", "dismissed_payee_merges",
         "payee_auto_merges", "personal_loans", "personal_loan_repayments",
         "credit_card_profiles", "loan_profiles", "categorisation_rules",
         "import_rules", "import_runs">>

\* The export reads one table after the other, each with a statement of its
\* own; a table that is empty is read with the one before it.  Bound: one
\* export per behaviour, begun on one of the initial databases.
ReadTable ==
    /\ file = NoFile
    /\ export = NoExport => steps = 0
    /\ LET rest == {i \in DOMAIN BackupTables : i > export.at}
           full == {i \in rest : In(BackupTables[i], db) # {}}
           at == IF full = {} THEN Len(BackupTables)
                 ELSE CHOOSE i \in full : \A j \in full : i <= j
           rows == export.rows \cup In(BackupTables[at], db)
       IN IF {i \in full : i > at} = {}
          THEN file' = rows /\ export' = NoExport
          ELSE file' = file /\ export' = [at |-> at, rows |-> rows]
    /\ UNCHANGED <<db, sequences, last, steps>>

\* A new household: the migrations plant the subscriptions root.
NewHousehold ==
    InsertNext("categories", "root", [parent_id |-> NoRow],
           [rows |-> {}, sequences |-> [t \in AllTables |-> 0]])

\* One that has used every page: a row of every table, all keys filled.
BusyHousehold ==
    FoldLeft(LAMBDA st, t : OwnRow(t, TRUE, st), NewHousehold, BackupTables)

\* The backup is carried to an installation of its own, that holds a new
\* household with sequences of its own.  Bound: before any other operation.
NewInstallation ==
    /\ file # NoFile /\ steps = 0
    /\ db' = NewHousehold.rows /\ sequences' = NewHousehold.sequences
    /\ UNCHANGED <<file, export, last, steps>>

\* One row of the file inserted under its own id: the id must be free, and
\* each key must find a row that is there, or the row itself.
InsertRow(r, rows) ==
    IF \/ rows = Refused \/ At(r.t, r.id, rows) # {}
       \/ \E c \in DOMAIN r.refs :
             r.refs[c] # NoRow /\ At(Keys(r.t)[c].to, r.refs[c], rows \cup {r}) = {}
    THEN Refused ELSE rows \cup {r}

\* The rows of a table are in the order the export's SELECT gave, which is
\* any order.  Bound: by their ids, up or down.
FileOrder(t, f, down) ==
    SetToSortSeq(In(t, f), LAMBDA r, q : IF down THEN q.id < r.id ELSE r.id < q.id)

InsertTables(f, down, rows) ==
    FoldLeft(LAMBDA acc, t : FoldLeft(LAMBDA a, r : InsertRow(r, a), acc, FileOrder(t, f, down)),
             rows, BackupTables)

\* Mutant of RestoredRows: the tables are emptied in the order of the inserts.
RestoredRows_ParentsFirst(f, down) ==
    InsertTables(f, down, EmptyTables(BackupTables, db))

\* Everything is deleted, children first, then every table is inserted, a row
\* at a time.
RestoredRows(f, down) ==
    InsertTables(f, down, EmptyTables(Reverse(BackupTables), db))

Restore(down) ==
    /\ file # NoFile
    /\ Outcome("restore", {}, [Stored EXCEPT !.rows = RestoredRows(file, down)],
               EmptyTables(Reverse(BackupTables), db))
    /\ UNCHANGED <<file, export>>

----------------------------------------------------------------------------
StoreInit ==
    /\ \E st \in {NewHousehold, BusyHousehold, SeedFeatures(Range(Seeders), NewHousehold)} :
         db = st.rows /\ sequences = st.sequences
    /\ file = NoFile
    /\ export = NoExport
    /\ last = [op |-> "none", keys |-> {}, ok |-> TRUE, wiped |-> TRUE]
    /\ steps = 0

StoreNext ==
    \/ \E t \in UserTables, full \in BOOLEAN : AddRow(t, full)
    \/ \E r \in db : DeleteStoredRow(r)
    \/ ClearAll
    \/ \E k \in Range(Seeders) : Seed({k}) \/ Replace({k})
    \/ Seed(Range(Seeders))
    \/ Reset
    \/ ReadTable
    \/ NewInstallation
    \/ \E down \in BOOLEAN : Restore(down)

StoreSpec == StoreInit /\ [][StoreNext]_storeVars

----------------------------------------------------------------------------
\* A row that the foreign keys would not take.
Dangling(f) == \E r \in f : \E c \in DOMAIN r.refs :
    r.refs[c] # NoRow /\ At(Keys(r.t)[c].to, r.refs[c], f) = {}

\* Every row is of a known table, with that table's keys, and each key finds a row.
StoreTypeOK ==
    /\ \A r \in db : r.t \in AllTables /\ DOMAIN r.refs = DOMAIN Keys(r.t) /\ r.id \in Nat \ {0}
    /\ ~ Dangling(db)
    /\ sequences \in [AllTables -> Nat]
    /\ steps \in 0 .. MaxSteps

\* Clearing everything, replacing a feature and making room for a restore
\* empty tables in an order the foreign keys allow, whatever rows the members
\* have added or deleted: none is refused half-way (clear_all,
\* seed_features(replace=True), BackupService.restore).
WipesAreNeverRefused == last.wiped

\* Filling in example data adds what is missing and touches nothing else
\* (seed_features without replace).
SeedingTouchesNothing == [][last'.op = "seed" /\ steps' > steps => db \subseteq db']_storeVars

\* It is safe to press twice: the second press of a button writes nothing
\* (Seeder.seed, count).
PressedTwice ==
    [][last'.op = "seed" /\ last.op = "seed" /\ last.ok /\ last.keys = last'.keys
         /\ steps' > steps => db' = db /\ last'.ok]_storeVars

\* After the demo reset every feature holds its example data (DataService.seed).
ResetFillsEverything ==
    last.op = "reset" => \A k \in Range(Seeders) : Counted(k, db) # {}

PointsAtItsOwn(r) == \E c \in DOMAIN r.refs : r.refs[c] # NoRow /\ Keys(r.t)[c].to = r.t

\* A restore empties and fills the tables in an order the foreign keys allow,
\* over whatever was there: accepted, it leaves exactly the rows of the file,
\* also of the tables that were written since.  It is refused, and leaves what
\* was there, only for a row whose key finds nothing in the file, or points
\* into its own table (BackupService.restore).
RestoredIsExported ==
    [][last'.op = "restore" /\ steps' > steps =>
         IF last'.ok THEN db' = file
         ELSE db' = db /\ (Dangling(file) \/ \E r \in file : PointsAtItsOwn(r))]_storeVars

\* Deleting a label (a payee, a category, a plan, a tag, a gift ...) takes no
\* booked transaction with it: only deleting a transaction or its account does
\* (the ON DELETE clauses of models/transaction.py).
LedgerOutlivesItsLabels ==
    [][steps' > steps
         /\ last'.op \in {"delete " \o t : t \in AllTables \ {"transactions", "accounts"}}
         => {r.id : r \in In("transactions", db)} = {r.id : r \in In("transactions", db')}]_storeVars

\* What was exported can be restored (BackupService.export and restore).
AnExportRestores == last.op = "restore" => last.ok

\* What a restore brought back can be added to (AddRow after Restore): it cannot
\* on a new installation, whose sequences give ids the restored rows have.
RestoredTakesRows == last.op = "add" => last.ok

\* Pressing an example-data button fills the feature in.
SeedingNeverFails == last.op = "seed" => last.ok
=============================================================================
