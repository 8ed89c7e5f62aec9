------------------------------ MODULE Statements ------------------------------
(***************************************************************************)
(* Reading a bank's file.  Five formats (and the plain CSV with a column   *)
(* mapping) are turned into the same list of dated, signed rows; what is   *)
(* not a row is counted as an error or as skipped.  A file is abstracted   *)
(* to its records, a record to which of its fields are there and readable. *)
(* A behaviour picks one file and stops: the invariants are statements     *)
(* about every small file.                                                 *)
(***************************************************************************)
EXTENDS Integers, Sequences, SequencesExt, FiniteSets

CONSTANTS MaxRecords,   \* bound: records of a file
          MaxLines      \* bound: lines of a QIF or MT940 file
ASSUME StatementBounds == {MaxRecords, MaxLines} \subseteq Nat \ {0}

VARIABLES sheet,     \* the records of a tabular file
          columns,   \* how its columns are mapped
          lines      \* the lines of a file of tagged lines

statementVars == <<sheet, columns, lines>>

SeqsUpTo(S, n) == UNION {[1..k -> S] : k \in 0..n}

\* A field of a record: absent, there but unreadable, or a number.
Cell == {"none", "bad", "1", "-1"}
Value(cell) == CASE cell = "1" -> 1 [] cell = "-1" -> -1 [] OTHER -> 0

Record == [date : {"none", "bad", "ok"}, amount : Cell, debit : {"none", "1"}, credit : {"none", "1"}]

\* Which columns the user, the bank's profile or the headers name, and the sign convention.
Mapping == [amount : BOOLEAN, split : BOOLEAN, negative : BOOLEAN]

ValidationErrors(m) == ~m.amount /\ ~m.split

Taken(i, v) == [at |-> i, value |-> v]
LineIs(kind, i, v) == [kind |-> kind, row |-> Taken(i, v)]

\* One line of a CSV.
CsvLine(m, i, r) ==
    IF r.date # "ok" THEN LineIs("error", i, 0)
    ELSE IF m.amount THEN
        CASE r.amount = "none" -> LineIs("skipped", i, 0)
          [] r.amount = "bad" -> LineIs("error", i, 0)
          [] OTHER -> LineIs("row", i, IF m.negative THEN Value(r.amount) ELSE -Value(r.amount))
    ELSE LineIs("row", i, Value(r.credit) - Value(r.debit))

\* One row of a workbook: what has no date or no amount is passed over first.
XlsxLine(m, i, r) ==
    CASE r.date = "none" \/ r.amount = "none" -> LineIs("skipped", i, 0)
      [] r.date # "none" /\ r.amount # "none" /\ (r.date = "bad" \/ r.amount = "bad") -> LineIs("error", i, 0)
      [] OTHER -> LineIs("row", i, Value(r.amount))

KeptRows(outcomes, kind) == SelectSeq(outcomes, LAMBDA o : o.kind = kind)
Parsed(outcomes) ==
    [rows |-> KeptRows(outcomes, "row"), errors |-> KeptRows(outcomes, "error"), skipped |-> KeptRows(outcomes, "skipped")]

ParseCsv(m, records) == Parsed([i \in 1..Len(records) |-> CsvLine(m, i, records[i])])
ParseRecords(records) == Parsed([i \in 1..Len(records) |-> XlsxLine(columns, i, records[i])])

\* What the page makes of a parse that found something, or nothing.
ParseGeneric(m, records) ==
    IF ValidationErrors(m) \/ ParseCsv(m, records).rows = <<>> THEN "needs_mapping" ELSE "ready"
ParseXlsx(available, records) ==
    IF available /\ ParseRecords(records).rows # <<>> THEN "ready" ELSE "failed"

-----------------------------------------------------------------------------
(* Files of tagged lines.  A QIF record is the fields up to a "^" or to    *)
(* the end of the file; an MT940 entry is a ":61:" line with the ":86:"    *)
(* line that follows it, and any other field ends it.                      *)

QifRecords(text) ==
    LET step(acc, l) == IF l = "^" THEN [done |-> IF acc.open = <<>> THEN acc.done ELSE Append(acc.done, acc.open),
                                         open |-> <<>>]
                        ELSE [acc EXCEPT !.open = Append(@, l)]
        end == FoldLeft(step, [done |-> <<>>, open |-> <<>>], text)
    IN  IF end.open = <<>> THEN end.done ELSE Append(end.done, end.open)

QifLine(fields) ==
    LET has(l) == \E i \in DOMAIN fields : fields[i] = l
    IN  IF has("D") /\ has("T") THEN "row" ELSE "skipped"

ParseQif(text) == [i \in 1..Len(QifRecords(text)) |-> QifLine(QifRecords(text)[i])]

Mt940Entries(text) ==
    LET step(acc, l) ==
            CASE text[l] = "61" -> [done |-> acc.done \o acc.open, open |-> <<[at |-> l, told |-> 0]>>]
              [] text[l] = "86" -> IF acc.open = <<>> THEN acc
                                   ELSE [acc EXCEPT !.open = <<[acc.open[1] EXCEPT !.told = l]>>]
              [] OTHER -> [done |-> acc.done \o acc.open, open |-> <<>>]
        end == FoldLeft(step, [done |-> <<>>, open |-> <<>>], [l \in 1..Len(text) |-> l])
    IN  end.done \o end.open

\* The sections of an mBank file: from the header of the table to the first empty line.
DataSection(records) ==
    LET cut == {i \in 1..Len(records) : records[i].date = "none" /\ records[i].amount = "none"}
    IN  SubSeq(records, 1, IF cut = {} THEN Len(records) ELSE Min(cut) - 1)

ParseMbank(records) ==
    LET m == [amount |-> TRUE, split |-> FALSE, negative |-> TRUE]
    IN  IF ParseCsv(m, DataSection(records)).rows = <<>> THEN ParseGeneric(m, records) ELSE "ready"

-----------------------------------------------------------------------------
StatementInit ==
    \/ /\ columns \in Mapping
       /\ sheet \in SeqsUpTo(Record, MaxRecords)
       /\ lines = <<>>
    \/ /\ columns = [amount |-> TRUE, split |-> FALSE, negative |-> TRUE] /\ sheet = <<>>
       /\ lines \in SeqsUpTo({"D", "T", "^"}, MaxLines) \cup SeqsUpTo({"61", "86", "62F"}, MaxLines)

StatementNext == UNCHANGED statementVars
StatementSpec == StatementInit /\ [][StatementNext]_statementVars

Readable(r) == r.date = "ok" /\ (columns.amount => r.amount \in {"1", "-1"})

\* No record of a file is lost or doubled: each is a row, an error or a skipped one, in the
\* order of the file, and a file none of whose records is a row is never taken as ready.
EveryRecordAccountedFor ==
    LET accounted(p, n) == /\ Len(p.rows) + Len(p.errors) + Len(p.skipped) = n
                           /\ \A i, j \in DOMAIN p.rows : i < j => p.rows[i].row.at < p.rows[j].row.at
    IN  /\ accounted(ParseCsv(columns, sheet), Len(sheet))
        /\ accounted(ParseRecords(sheet), Len(sheet))
        /\ Len(ParseCsv(columns, sheet).rows) = Cardinality({i \in DOMAIN sheet : Readable(sheet[i])})
        /\ (\A i \in DOMAIN sheet : ~Readable(sheet[i])) =>
               ParseGeneric(columns, sheet) = "needs_mapping" /\ ParseXlsx(TRUE, sheet) = "failed"

\* Files of tagged lines: every statement line of an MT940 file is one entry, and the
\* narrative shown beside it stands between it and the next field of another kind; every
\* run of fields of a QIF file is one record, the last one too when the file does not end it.
EntriesKeepTheirLines ==
    LET es == Mt940Entries(lines)
        qs == QifRecords(lines)
    IN  /\ {es[i].at : i \in DOMAIN es} = {l \in DOMAIN lines : lines[l] = "61"}
        /\ \A i \in DOMAIN es : es[i].told # 0 =>
               /\ es[i].told > es[i].at
               /\ \A l \in es[i].at + 1..es[i].told : lines[l] = "86"
        /\ (\A l \in DOMAIN lines : lines[l] \in {"D", "T", "^"}) =>
               FlattenSeq(qs) = SelectSeq(lines, LAMBDA l : l # "^")

-----------------------------------------------------------------------------
(***************************************************************************)
(* What an import suggests.  Two rows that look like one transfer between  *)
(* own accounts are offered as a pair; a rule remembered for a file name   *)
(* is found again by its pattern; a categorisation rule claims a row.      *)
(* These are choices over small tables: a behaviour picks a table, and the *)
(* user then accepts or dismisses what is offered.                         *)
(***************************************************************************)
CONSTANTS PairRows,     \* transactions
          PairDays,     \* days they may carry
          MaxDaysApart, \* the window of the pairing
          Tolerance,    \* how far the two amounts may differ
          MaxPatterns   \* bound: rules remembered for file names
ASSUME MatchingBounds == MaxDaysApart \in Nat /\ Tolerance \in Nat /\ MaxPatterns \in Nat

VARIABLES booked,     \* the ledger: row -> [acct, amount, type, day, mate]
          dismissed,  \* pairs the user does not want to see again
          patterns    \* import rules: sequence of [fixed, used]

matchingVars == <<booked, dismissed, patterns>>

PairRow == [acct : {1, 2}, amount : 1..3, type : {"expense", "income", "transfer"},
            day : PairDays, mate : {0}]

Gap(a, b) == IF a < b THEN b - a ELSE a - b
PairKey(a, b) == {a, b}

\* Which leg the money left, if the two can be one transfer at all: different accounts of
\* one currency, opposite directions; a row typed as transfer goes with anything.
CanPair(a, b) ==
    /\ booked[a].acct # booked[b].acct
    /\ booked[a].type = booked[b].type => booked[a].type = "transfer"

\* The leg the money left comes first; two rows typed as transfer go by their ids.
OrientLegs(a, b) ==
    IF booked[a].type = "income" \/ booked[b].type = "expense" THEN <<b, a>>
    ELSE IF booked[a].type = "expense" \/ booked[b].type = "income" \/ a < b THEN <<a, b>>
    ELSE <<b, a>>

\* The order the query returns: by amount, day and id.
Before(a, b) ==
    LET x == <<booked[a].amount, booked[a].day, a>>
        y == <<booked[b].amount, booked[b].day, b>>
    IN  \E k \in 1..3 : x[k] < y[k] /\ \A l \in 1..(k - 1) : x[l] = y[l]

Open == {r \in PairRows : booked[r].mate = 0}
InOrder == SetToSortSeq(Open, Before)

\* The rows a scan from row i looks at: it stops at the first amount that is too far.
ScanFrom(i) ==
    LET rows == InOrder
        near(j) == Gap(booked[rows[i]].amount, booked[rows[j]].amount) <= Tolerance
    IN  {j \in i + 1..Len(rows) : /\ \A k \in i + 1..j : near(k)
                                  /\ Gap(booked[rows[i]].day, booked[rows[j]].day) <= MaxDaysApart}

Candidates ==
    LET rows == InOrder
    IN  {OrientLegs(rows[i], rows[j]) : <<i, j>> \in
            {<<i, j>> \in (1..Len(rows)) \X (1..Len(rows)) :
                /\ j \in ScanFrom(i)
                /\ CanPair(rows[i], rows[j])
                /\ PairKey(rows[i], rows[j]) \notin dismissed}}

\* Closest days first, then closest amounts, then the ids.
Better(p, q) ==
    LET key(x) == <<Gap(booked[x[1]].day, booked[x[2]].day), Gap(booked[x[1]].amount, booked[x[2]].amount), x[1], x[2]>>
    IN  \E k \in 1..4 : key(p)[k] < key(q)[k] /\ \A l \in 1..(k - 1) : key(p)[l] = key(q)[l]

\* Each row at most once: a candidate is offered when neither of its rows is taken.
SuggestPairs ==
    FoldLeft(LAMBDA taken, c : IF \E t \in taken : {t[1], t[2]} \cap {c[1], c[2]} # {}
                               THEN taken ELSE taken \cup {c},
             {}, SetToSortSeq(Candidates, Better))

AcceptPair(c) ==
    /\ c \in SuggestPairs
    /\ booked' = [booked EXCEPT ![c[1]].mate = c[2], ![c[2]].mate = c[1],
                                ![c[1]].type = "transfer", ![c[2]].type = "transfer"]
    /\ UNCHANGED <<dismissed, patterns>>

DismissPair(c) ==
    /\ c \in SuggestPairs
    /\ dismissed' = dismissed \cup {PairKey(c[1], c[2])}
    /\ UNCHANGED <<booked, patterns>>

\* "Link all": every pair offered is linked, one commit after another.
DetectAndLink ==
    /\ SuggestPairs # {}
    /\ booked' = [r \in PairRows |->
          LET c == {p \in SuggestPairs : r \in {p[1], p[2]}}
          IN  IF c = {} THEN booked[r]
              ELSE [booked[r] EXCEPT !.type = "transfer",
                                     !.mate = CHOOSE m \in UNION {{p[1], p[2]} : p \in c} : m # r]]
    /\ UNCHANGED <<dismissed, patterns>>

-----------------------------------------------------------------------------
(* Rules for file names.  Of a pattern what matters is how many letters    *)
(* stand before its first wildcard and when it was used.                   *)

\* A rule that was never used is older than any other.
LastUsed(r) == IF r.used = "never" THEN 0 ELSE IF r.used = "before" THEN 1 ELSE 2

Prefer(i, j) ==
    LET x == <<patterns[i].fixed, LastUsed(patterns[i]), i>>
        y == <<patterns[j].fixed, LastUsed(patterns[j]), j>>
    IN  \E k \in 1..3 : x[k] > y[k] /\ \A l \in 1..(k - 1) : x[l] = y[l]

\* The rule a file gets, of the active ones whose pattern matches its name.
MatchRule ==
    LET hits == {i \in DOMAIN patterns : patterns[i].active /\ patterns[i].matches}
    IN  IF hits = {} THEN 0 ELSE Head(SetToSortSeq(hits, Prefer))

\* A finished import remembers its account under its pattern, once.
UpsertRule(i) ==
    /\ i \in DOMAIN patterns
    /\ patterns' = [patterns EXCEPT ![i].used = "now", ![i].active = TRUE]
    /\ UNCHANGED <<booked, dismissed>>

MatchingInit ==
    /\ dismissed = {}
    /\ \/ /\ booked \in [PairRows -> PairRow] /\ patterns = <<>>
          /\ \A r \in PairRows : (\A q \in PairRows : r <= q) => booked[r].acct = 1  \* the accounts' order is arbitrary
       \/ /\ booked = [r \in PairRows |-> [acct |-> 1, amount |-> 1, type |-> "expense", day |-> 1, mate |-> 0]]
          /\ patterns \in [1..MaxPatterns -> [fixed : 0..1, used : {"never", "before"},
                                              active : BOOLEAN, matches : BOOLEAN]]

MatchingNext ==
    \/ \E c \in Candidates : AcceptPair(c) \/ DismissPair(c)
    \/ DetectAndLink
    \/ \E i \in 1..MaxPatterns : UpsertRule(i)

MatchingSpec == MatchingInit /\ [][MatchingNext]_matchingVars

-----------------------------------------------------------------------------
MatchingTypeOK ==
    /\ \A r \in PairRows : booked[r].mate \in PairRows \cup {0} /\ booked[r].acct \in {1, 2}
    /\ \A d \in dismissed : d \subseteq PairRows /\ Cardinality(d) = 2
    /\ MatchRule \in 0..Len(patterns)

Pairable(a, b) ==
    /\ a # b /\ {a, b} \subseteq Open /\ CanPair(a, b) /\ {a, b} \notin dismissed
    /\ Gap(booked[a].amount, booked[b].amount) <= Tolerance
    /\ Gap(booked[a].day, booked[b].day) <= MaxDaysApart

\* The scan that stops at the first amount out of reach still offers everything there is to
\* offer: no two rows that could be one transfer are left over, no row is offered twice,
\* nothing dismissed comes back, and a row that was offered a pair could not have had a
\* closer one that is left free.
PairsLeaveNothing ==
    patterns = <<>> =>
        LET offered == SuggestPairs
            taken == UNION {{c[1], c[2]} : c \in offered}
        IN  /\ \A a, b \in PairRows : Pairable(a, b) => {a, b} \cap taken # {}
            /\ \A c \in offered : Pairable(c[1], c[2])
            /\ \A c, d \in offered : c # d => {c[1], c[2]} \cap {d[1], d[2]} = {}
            /\ \A c \in offered, b \in PairRows \ taken :
                   Pairable(c[1], b) => Gap(booked[c[1]].day, booked[c[2]].day) <= Gap(booked[c[1]].day, booked[b].day)

\* A rule that was just remembered or used is the one its file finds next time, unless a
\* more specific pattern matches too.
RememberedRuleFound ==
    \A i \in DOMAIN patterns :
        (patterns[i].used = "now" /\ patterns[i].active /\ patterns[i].matches) =>
            \/ MatchRule = i
            \/ patterns[MatchRule].fixed > patterns[i].fixed
            \/ patterns[MatchRule].fixed = patterns[i].fixed /\ patterns[MatchRule].used = "now"
=============================================================================
