---------------------------------- MODULE Ledger ----------------------------------
(***************************************************************************)
(* The transactions table and the accounts it moves money on: entering,    *)
(* editing, recategorising, pairing and deleting rows                      *)
(* (services/transaction_service.py, services/account_service.py,          *)
(* views/transactions/edit_dialog.py).                                     *)
(*                                                                         *)
(* A row keeps what its rules tell apart: account, type, direction of a    *)
(* transfer leg, amount, category, the amounts of its split lines, its     *)
(* tags and the row it is linked to.  Dates, texts, payees and rates have  *)
(* no rule here.  An edit dialog holds the version it loaded; versions     *)
(* (updated_at) matter only through "is it still the current one", which   *)
(* is what a form's `current` says.  updated_at moves when a column of the *)
(* row is written; split lines and tags live in tables of their own.       *)
(***************************************************************************)
EXTENDS Integers, FiniteSets, Sequences, FiniteSetsExt, SequencesExt, Tables

CONSTANTS
    Accounts,   \* account ids
    Abroad,     \* the accounts kept in another currency
    MaxTx,      \* bound: rows ever inserted
    Amounts,    \* amounts a row may have
    Members,    \* members with an edit dialog
    Pairers     \* sessions that mark rows as a transfer

ASSUME LedgerAssumption ==
    /\ MaxTx \in Nat
    /\ Amounts \subseteq Nat \ {0}
    /\ Abroad \subseteq Accounts

VARIABLES
    tx,         \* transactions: id -> row
    nextTx,     \* the id sequence
    opening,    \* accounts.opening_balance of the accounts there are
    form,       \* per member: the open edit dialog
    pending     \* per pairing session: the two legs it read and checked

ledgerVars == <<tx, nextTx, opening, form, pending>>

TxIds == 1 .. MaxTx
NoCat == "-"
CategoryType == [food |-> "expense", pay |-> "income"]
Categories == DOMAIN CategoryType
Types == {"income", "expense", "transfer"}
Lines == {<<>>} \cup {<<a>> : a \in Amounts} \cup {<<a, b>> : a \in Amounts, b \in Amounts}
LineSum(parts) == FoldSeq(LAMBDA a, b : a + b, 0, parts)

\* ck_transactions_transfer_direction: a direction exactly on transfer legs.
DirectionFits(r) == (r.type = "transfer") = (r.dir # "-")

Row ==
    {r \in [account : Accounts, type : Types, dir : {"-", "out", "in"}, amount : Amounts,
            cat : Categories \cup {NoCat}, parts : Lines, tags : {0, 1},
            linked : TxIds \cup {0}] : DirectionFits(r)}

NoForm == [id |-> 0, current |-> FALSE, overtaken |-> FALSE]
Forms == [id : TxIds \cup {0}, current : BOOLEAN, overtaken : BOOLEAN]
Idle == [out |-> 0, in |-> 0]

LedgerTypeOK ==
    /\ nextTx \in 1 .. (MaxTx + 1)
    /\ DOMAIN tx \subseteq 1 .. (nextTx - 1)
    /\ \A i \in DOMAIN tx : tx[i] \in Row
    /\ DOMAIN opening \subseteq Accounts
    /\ \A a \in DOMAIN opening : opening[a] \in Int
    /\ form \in [Members -> Forms]
    /\ DOMAIN pending = Pairers

LedgerInit ==
    /\ tx = <<>>
    /\ nextTx = 1
    /\ opening = [a \in Accounts |-> 0]
    /\ form = [m \in Members |-> NoForm]
    /\ pending = [p \in Pairers |-> Idle]

-----------------------------------------------------------------------------
(* Balances *)

\* AccountService.signed_ledger_amount
Signed(r) ==
    IF r.type = "income" \/ r.dir = "in" THEN r.amount ELSE - r.amount

\* AccountService.ledger_sums, .balances
LedgerSum(t, a) ==
    MapThenSumSet(LAMBDA i : Signed(t[i]), {i \in DOMAIN t : t[i].account = a})
Balance(a) == opening[a] + LedgerSum(tx, a)

-----------------------------------------------------------------------------
(* Entering rows *)

\* TransactionCreate.validate_rules
CreateValid(r) ==
    /\ r.type = "transfer" => r.dir # "-"
    /\ r.type # "transfer" => r.dir = "-"
    /\ r.type # "transfer" /\ r.parts # <<>> =>
         r.cat = NoCat /\ LineSum(r.parts) = r.amount
    /\ r.type # "transfer" /\ r.parts = <<>> => r.cat # NoCat

NewRow(a, type, dir, amount, cat, parts) ==
    [account |-> a, type |-> type, dir |-> dir, amount |-> amount, cat |-> cat,
     parts |-> parts, tags |-> 0, linked |-> 0]

\* TransactionService.create
Create(r) ==
    /\ nextTx <= MaxTx
    /\ r.account \in DOMAIN opening
    /\ CreateValid(r)
    /\ tx' = With(tx, nextTx, r)
    /\ nextTx' = nextTx + 1
    /\ UNCHANGED <<opening, form, pending>>

\* TransactionService.create_transfer: both legs and both links in one commit
CreateTransfer(a, b, sent, received) ==
    /\ nextTx < MaxTx
    /\ a # b
    /\ {a, b} \subseteq DOMAIN opening
    /\ (a \in Abroad) = (b \in Abroad) => sent = received
    /\ LET out == NewRow(a, "transfer", "out", sent, NoCat, <<>>)
           in == NewRow(b, "transfer", "in", received, NoCat, <<>>)
       IN tx' = With(With(tx, nextTx, [out EXCEPT !.linked = nextTx + 1]),
                    nextTx + 1, [in EXCEPT !.linked = nextTx])
    /\ nextTx' = nextTx + 2
    /\ UNCHANGED <<opening, form, pending>>

-----------------------------------------------------------------------------
(* Marking two rows as a transfer *)

\* TransactionService.orient_transfer_legs: <<outgoing, incoming>>, or <<>>
Orient(i, j) ==
    LET a == tx[i].type
        b == tx[j].type
    IN  IF a = b /\ a # "transfer" THEN <<>>
        ELSE IF a = "income" \/ b = "expense" THEN <<j, i>>
        ELSE IF a = "expense" \/ b = "income" THEN <<i, j>>
        ELSE IF i < j THEN <<i, j>> ELSE <<j, i>>

\* TransactionService._validate_transfer_pair, amount_tolerance = 0
TransferPairValid(out, in) ==
    /\ out.type # "income"
    /\ in.type # "expense"
    /\ out.account # in.account
    /\ (out.account \in Abroad) = (in.account \in Abroad)
    /\ out.amount = in.amount
    /\ \A leg \in {out, in} : leg.linked = 0 /\ leg.parts = <<>>

\* pair_selected_as_transfer up to the commit: both legs are read, oriented and
\* checked without a lock.
PairRead(p, i, j) ==
    /\ pending[p] = Idle
    /\ {i, j} \subseteq DOMAIN tx
    /\ i # j
    /\ Orient(i, j) # <<>>
    /\ LET o == Orient(i, j)[1]
           n == Orient(i, j)[2]
       IN /\ TransferPairValid(tx[o], tx[n])
          /\ pending' = [pending EXCEPT ![p] =
                 [out |-> o, in |-> n, outRow |-> tx[o], inRow |-> tx[n]]]
    /\ UNCHANGED <<tx, nextTx, opening, form>>

\* A leg written back: the attributes that differ from what was read.
Leg(now, read, dir, mate) ==
    [now EXCEPT !.type = IF read.type = "transfer" THEN @ ELSE "transfer",
                !.dir = IF read.dir = dir THEN @ ELSE dir,
                !.cat = IF read.cat = NoCat THEN @ ELSE NoCat,
                !.linked = mate]

\* Every dialog open on a row whose columns were written is out of date.
Outdated(f, ids) ==
    [m \in Members |-> IF f[m].id \in ids
                       THEN [f[m] EXCEPT !.current = FALSE, !.overtaken = TRUE]
                       ELSE f[m]]

\* pair_as_transfer's commit
PairCommit(p) ==
    /\ pending[p] # Idle
    /\ {pending[p].out, pending[p].in} \subseteq DOMAIN tx
    /\ LET q == pending[p]
           out == Leg(tx[q.out], q.outRow, "out", q.in)
           in == Leg(tx[q.in], q.inRow, "in", q.out)
       IN /\ DirectionFits(out) /\ DirectionFits(in)
          /\ tx' = [tx EXCEPT ![q.out] = out, ![q.in] = in]
          /\ form' = Outdated(form, {q.out, q.in})
    /\ pending' = [pending EXCEPT ![p] = Idle]
    /\ UNCHANGED <<nextTx, opening>>

\* The commit fails: a leg is gone, or the row no longer satisfies its check.
PairFail(p) ==
    /\ pending[p] # Idle
    /\ LET q == pending[p]
       IN \/ ~ {q.out, q.in} \subseteq DOMAIN tx
          \/ /\ {q.out, q.in} \subseteq DOMAIN tx
             /\ ~ /\ DirectionFits(Leg(tx[q.out], q.outRow, "out", q.in))
                  /\ DirectionFits(Leg(tx[q.in], q.inRow, "in", q.out))
    /\ pending' = [pending EXCEPT ![p] = Idle]
    /\ UNCHANGED <<tx, nextTx, opening, form>>

-----------------------------------------------------------------------------
(* Editing *)

\* TransactionService.set_category_bulk: the whole batch or nothing
SetCategoryBulk(ids, c) ==
    /\ ids # {}
    /\ ids \subseteq DOMAIN tx
    /\ \A i \in ids : tx[i].parts = <<>> /\ tx[i].type = CategoryType[c]
    /\ tx' = [i \in DOMAIN tx |-> IF i \in ids THEN [tx[i] EXCEPT !.cat = c] ELSE tx[i]]
    /\ form' = Outdated(form, {i \in ids : tx[i].cat # c})
    /\ UNCHANGED <<nextTx, opening, pending>>

\* The edit dialog loads the row and remembers its updated_at.
OpenForm(m, i) ==
    /\ form[m].id = 0
    /\ i \in DOMAIN tx
    /\ form' = [form EXCEPT ![m] = [id |-> i, current |-> TRUE, overtaken |-> FALSE]]
    /\ UNCHANGED <<tx, nextTx, opening, pending>>

CloseForm(m) ==
    /\ form[m].id # 0
    /\ form' = [form EXCEPT ![m] = NoForm]
    /\ UNCHANGED <<tx, nextTx, opening, pending>>

\* What edit_submit lets through: a category for an income or an expense, none
\* on a transfer; split lines that add up, and then no category.
PayloadValid(e) ==
    /\ e.parts # <<>> =>
         e.type # "transfer" /\ e.cat = NoCat /\ LineSum(e.parts) = e.amount
    /\ e.parts = <<>> /\ e.type # "transfer" => e.cat # NoCat
    /\ e.type = "transfer" => e.cat = NoCat
    /\ e.cat # NoCat => CategoryType[e.cat] = e.type

\* TransactionService.update's refusals once the version is current
UpdateRefused(r, e) ==
    \/ /\ r.parts # <<>>
       /\ e.amount # r.amount
       /\ e.parts = <<>>
    \/ /\ r.parts # <<>>
       /\ e.parts = <<>>
       /\ e.type # "transfer"
       /\ e.cat = NoCat

\* _settle_transfer_direction
SettledDirection(r, type) ==
    CASE type # "transfer" -> "-"
      [] r.dir # "-" -> r.dir
      [] r.type = "income" -> "in"
      [] OTHER -> "out"

\* TransactionService.update's assignments
Edited(r, e) ==
    [r EXCEPT !.account = e.account, !.amount = e.amount, !.type = e.type,
              !.dir = SettledDirection(r, e.type), !.cat = e.cat,
              !.parts = e.parts, !.tags = e.tags]

\* The columns of the row itself: splits and tags are other tables.
Columns(r) == [r EXCEPT !.parts = <<>>, !.tags = 0]

\* edit_submit -> TransactionService.update.  _refuse_stale_write holds the row
\* lock from the comparison to the commit, so the two are one step; a refused
\* save leaves the dialog open.
Save(m, e) ==
    /\ form[m].id \in DOMAIN tx
    /\ PayloadValid(e)
    /\ e.account \in DOMAIN opening
    /\ form[m].current
    /\ LET i == form[m].id
           r == Edited(tx[i], e)
           closed == [form EXCEPT ![m] = NoForm]
       IN /\ ~ UpdateRefused(tx[i], e)
          /\ tx' = [tx EXCEPT ![i] = r]
          /\ form' = IF Columns(r) # Columns(tx[i]) THEN Outdated(closed, {i})
                     ELSE IF r # tx[i]
                     THEN [n \in Members |-> IF closed[n].id = i
                                             THEN [closed[n] EXCEPT !.overtaken = TRUE]
                                             ELSE closed[n]]
                     ELSE closed
    /\ UNCHANGED <<nextTx, opening, pending>>

\* Mutant of Delete: the foreign key of the link is not checked.
Delete_Linked(i) ==
    /\ i \in DOMAIN tx
    /\ tx' = Without(tx, {i})
    /\ UNCHANGED <<nextTx, opening, form, pending>>

\* TransactionService.delete: a row another row links to is kept by the foreign
\* key of linked_transaction_id.
Delete(i) ==
    /\ i \in DOMAIN tx
    /\ \A j \in DOMAIN tx : tx[j].linked # i
    /\ tx' = Without(tx, {i})
    /\ UNCHANGED <<nextTx, opening, form, pending>>

-----------------------------------------------------------------------------
(* Accounts *)

\* AccountService.create
CreateAccount(a, b) ==
    /\ a \in Accounts \ DOMAIN opening
    /\ opening' = With(opening, a, b)
    /\ UNCHANGED <<tx, nextTx, form, pending>>

\* AccountService.update: a balance typed in moves the opening balance
UpdateAccount(a, b) ==
    /\ a \in DOMAIN opening
    /\ opening' = [opening EXCEPT ![a] = b - LedgerSum(tx, a)]
    /\ UNCHANGED <<tx, nextTx, form, pending>>

\* AccountService.delete: its rows go with it (cascade), unless one of them is
\* linked to
DeleteAccount(a) ==
    /\ a \in DOMAIN opening
    /\ \A i, j \in DOMAIN tx : tx[i].account = a => tx[j].linked # i
    /\ opening' = Without(opening, {a})
    /\ tx' = Without(tx, {i \in DOMAIN tx : tx[i].account = a})
    /\ UNCHANGED <<nextTx, form, pending>>

-----------------------------------------------------------------------------
Payload ==
    [account : Accounts, type : Types, amount : Amounts, cat : Categories \cup {NoCat},
     parts : Lines, tags : {0, 1}]

\* What the add dialog sends, and the unpaired transfer legs an import leaves.
NewRows ==
    {NewRow(a, CategoryType[c], "-", n, c, <<>>) :
        a \in Accounts, n \in Amounts, c \in Categories}
    \cup {NewRow(a, "expense", "-", n, NoCat, ps) :
        a \in Accounts, n \in Amounts, ps \in Lines \ {<<>>}}
    \cup {NewRow(a, "transfer", d, n, NoCat, <<>>) :
        a \in Accounts, n \in Amounts, d \in {"out", "in"}}

LedgerNext ==
    \/ \E r \in NewRows : Create(r)
    \/ \E a, b \in Accounts, s, r \in Amounts : CreateTransfer(a, b, s, r)
    \/ \E p \in Pairers, i, j \in TxIds : PairRead(p, i, j)
    \/ \E p \in Pairers : PairCommit(p) \/ PairFail(p)
    \/ \E ids \in SUBSET TxIds, c \in Categories : SetCategoryBulk(ids, c)
    \/ \E m \in Members, i \in TxIds : OpenForm(m, i)
    \/ \E m \in Members : CloseForm(m)
    \/ \E m \in Members, e \in Payload : Save(m, e)
    \/ \E i \in TxIds : Delete(i)
    \/ \E a \in Accounts : DeleteAccount(a)
    \/ \E a \in Accounts, b \in {0} : CreateAccount(a, b) \/ UpdateAccount(a, b)

LedgerSpec == LedgerInit /\ [][LedgerNext]_ledgerVars

-----------------------------------------------------------------------------
(* Properties *)

\* The link of a transfer is mutual and never dangles, whatever is edited or
\* deleted on either side while a pairing is in flight: the foreign key and the
\* "already linked" check hold it together.  One pairing at a time: two that
\* overlap both pass the check, and pair_as_transfer does not repeat it when
\* it writes the links.
LinksMutual ==
    \A i \in DOMAIN tx :
        tx[i].linked # 0 => tx[i].linked \in DOMAIN tx \ {i} /\ tx[tx[i].linked].linked = i

\* The lines of a split row add up to the row, through every sequence of edits
\* that split it, change its amount or its type, and take the split back.
SplitsAddUp ==
    \A i \in DOMAIN tx : tx[i].parts # <<>> =>
        LineSum(tx[i].parts) = tx[i].amount /\ tx[i].cat = NoCat

\* Marking rows as a transfer only says what they were: no balance moves
\* (pair_as_transfer: "The rows stay where they are").
PairingKeepsBalances ==
    [][\A p \in Pairers : PairCommit(p) =>
          \A a \in DOMAIN opening : LedgerSum(tx', a) = LedgerSum(tx, a)]_ledgerVars

\* A save made from a dialog opened before another member's save does not undo
\* it (_refuse_stale_write: "the second save would silently undo the first").
NoSilentUndo ==
    [][\A m \in Members :
          form[m].id # 0 /\ form'[m].id = 0 /\ tx' # tx => ~ form[m].overtaken]_ledgerVars

-----------------------------------------------------------------------------
(***************************************************************************)
(* How the ledger is read: pages of rows, the description search with its  *)
(* per-session memo, the upcoming planned rows merged in, and the group    *)
(* separators with their nets (TransactionService.list, _search_ids,       *)
(* count, build_table_rows, merge_upcoming_rows, attach_group_nets).       *)
(*                                                                         *)
(* A row keeps its id, day, type, signed amount and whether its            *)
(* description contains the needle.  Two days make a group (the month or   *)
(* week bucket of the source).                                             *)
(***************************************************************************)
CONSTANTS
    MaxRow,     \* bound: rows ever inserted
    Days,       \* 0 .. n, the days rows fall on
    PageSize,   \* rows of a page
    ScanLimit   \* SEARCH_SCAN_LIMIT

ASSUME LedgerViewAssumption ==
    /\ MaxRow \in Nat /\ PageSize \in Nat \ {0} /\ ScanLimit \in Nat
    /\ Days \subseteq Nat

VARIABLES
    book,       \* the rows there are
    newRow,     \* the id sequence
    memo        \* session.info[_SEARCH_MEMO]: <<needle on?, ids>> or <<>>

viewVars == <<book, newRow, memo>>

\* Upcoming rows are not searched.
ViewRow ==
    {r \in [id : 1 .. MaxRow, day : Days, kind : {"income", "expense", "transfer"},
            hit : BOOLEAN, planned : BOOLEAN] : r.planned => ~ r.hit}

ViewTypeOK ==
    /\ book \subseteq ViewRow
    /\ newRow \in 1 .. (MaxRow + 1)
    /\ memo = <<>> \/ (Len(memo) = 1 /\ memo[1] \in Seq(1 .. MaxRow))

ViewInit == book = {} /\ newRow = 1 /\ memo = <<>>

-----------------------------------------------------------------------------
(* Pages *)

Stored == {r \in book : ~ r.planned}

\* ORDER BY date DESC, id DESC
Newer(r, s) == r.day > s.day \/ (r.day = s.day /\ r.id > s.id)
Newest(S) == Arranged(S, {p \in S \X S : Newer(p[1], p[2])})

Slice(s, offset, limit) ==
    SubSeq(s, offset + 1, IF offset + limit < Len(s) THEN offset + limit ELSE Len(s))

\* _search_ids' scan: the newest ScanLimit rows, those that contain the needle
Scan ==
    LET read == Slice(Newest(Stored), 0, ScanLimit)
    IN  [k \in DOMAIN SelectSeq(read, LAMBDA r : r.hit) |->
            SelectSeq(read, LAMBDA r : r.hit)[k].id]

\* _search_ids: the memo of this session answers if there is one
Found == IF memo # <<>> THEN memo[1] ELSE Scan

\* TransactionService.list: one page, with and without a search
ListPage(n) == Slice(Newest(Stored), n * PageSize, PageSize)
SearchPage(n) ==
    LET ids == Slice(Found, n * PageSize, PageSize)
    IN  Newest({r \in Stored : r.id \in {ids[k] : k \in DOMAIN ids}})

\* TransactionService.count
CountAll == Cardinality(Stored)
CountFound == Len(Found)

-----------------------------------------------------------------------------
(* Separators *)

Bucket(r) == r.day \div 2

\* TransactionService.signed_amount with every amount 1
ViewSigned(r) == IF r.kind = "income" THEN 1 ELSE -1

\* net_of_rows over rows from .. to: transfers and planned rows left out
NetRow(r) == IF r.kind = "transfer" \/ r.planned THEN 0 ELSE ViewSigned(r)
NetOf(s, from, to) == SumOf([i \in from .. to |-> NetRow(s[i])])

\* Mutant of Above: the upcoming rows come first, whatever their day.
Above_UpcomingFirst(r, s) ==
    \/ r.planned /\ ~ s.planned
    \/ r.planned = s.planned /\ Newer(r, s)

\* build_table_rows and merge_upcoming_rows: newest day first, and on one day
\* the stored rows before the upcoming ones
Above(r, s) ==
    \/ r.day > s.day
    \/ r.day = s.day /\ ~ r.planned /\ s.planned
    \/ r.day = s.day /\ r.planned = s.planned /\ r.id > s.id
MergedRows == Arranged(book, {p \in book \X book : Above(p[1], p[2])})

\* group_separator_label: a label where the bucket changes
Separated(s, k) == k = 1 \/ Bucket(s[k]) # Bucket(s[k - 1])

Starts(s) == {k \in DOMAIN s : Separated(s, k)}
GroupEnd(s, k) == Min({j \in Starts(s) : j > k} \cup {Len(s) + 1}) - 1

\* attach_group_nets, group_net_label: the net shown at each separator; a group
\* of upcoming rows only shows none
GroupNets(s) ==
    [k \in {j \in Starts(s) :
              \E i \in j .. GroupEnd(s, j) : ~ s[i].planned} |->
        NetOf(s, k, GroupEnd(s, k))]

-----------------------------------------------------------------------------
(* Steps of one session *)

\* A row is written: the flush drops the memo (_forget_search).
InsertRow(r) ==
    /\ newRow <= MaxRow
    /\ r.id = newRow
    /\ book' = book \cup {r}
    /\ newRow' = newRow + 1
    /\ memo' = <<>>

RemoveRow(r) ==
    /\ r \in book
    /\ book' = book \ {r}
    /\ memo' = <<>>
    /\ UNCHANGED newRow

\* An edit of the description
Reword(r) ==
    /\ r \in Stored
    /\ book' = (book \ {r}) \cup {[r EXCEPT !.hit = ~ @]}
    /\ memo' = <<>>
    /\ UNCHANGED newRow

\* A search runs, and leaves its answer on the session
SearchRows ==
    /\ memo' = <<Found>>
    /\ UNCHANGED <<book, newRow>>

\* A rollback: what was flushed since the last commit is gone with it
RollbackInsert(r) ==
    /\ r \in book
    /\ r.id = newRow - 1
    /\ book' = book \ {r}
    /\ memo' = <<>>
    /\ UNCHANGED newRow

ViewNext ==
    \/ \E r \in ViewRow : InsertRow(r)
    \/ \E r \in book : RemoveRow(r) \/ Reword(r) \/ RollbackInsert(r)
    \/ SearchRows

ViewSpec == ViewInit /\ [][ViewNext]_viewVars

-----------------------------------------------------------------------------
(* Properties *)

\* The pages of the ledger, put one after the other, are its rows, each once,
\* and as many as the count says; the same for a search within the scan limit,
\* answered from the memo or not.
PagesCoverLedger ==
    LET pages == 0 .. MaxRow
    IN  /\ \A r \in Stored : \E n \in pages : r \in ToSet(ListPage(n))
        /\ MapThenSumSet(LAMBDA n : Len(ListPage(n)), pages) = CountAll
        /\ MapThenSumSet(LAMBDA n : Len(SearchPage(n)), pages) = CountFound

\* A search answered from the session's memo is the answer the rows would give
\* now (_search_ids: "a write in between can never be answered from it").
MemoNeverStale == memo # <<>> => memo[1] = Scan

\* The nets shown at the separators are the net of the rows under them: they
\* add up to the net of the rows stored, and no bucket is split in two groups,
\* with upcoming rows merged in or not.
GroupNetsAddUp ==
    \A s \in {MergedRows, Newest(Stored)} :
        /\ SumOf(GroupNets(s)) = SumOf([r \in Stored |-> NetRow(r)])
        /\ \A j, k \in Starts(s) : j # k => Bucket(s[j]) # Bucket(s[k])

=============================================================================
