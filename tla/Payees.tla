---------------------------------- MODULE Payees ----------------------------------
(***************************************************************************)
(* Payees, the spellings bank data uses for them (identities), and merging *)
(* them: by hand, by the automatic scan, and taken back                    *)
(* (services/payee_service.py, services/payee_merge_service.py,            *)
(* services/dedupe_service.py: merge_payees).                              *)
(*                                                                         *)
(* A payee is its name; the other fields travel with it.  Rows stand for   *)
(* transactions, planned transactions and subscriptions alike: each points *)
(* at a payee or at none.  A spelling is compared after folding, so equal  *)
(* spellings are equal elements.  The seven-day undo window passes by a    *)
(* step of its own.                                                        *)
(***************************************************************************)
EXTENDS Integers, FiniteSets, Sequences, FiniteSetsExt, SequencesExt, Tables

CONSTANTS
    MaxPayee,   \* bound: payees ever created
    MaxIdent,   \* bound: identities ever created
    Names,      \* names and spellings
    Alike,      \* the pairs {s, t} of spellings the scan scores above the threshold
    RowIds      \* the rows that name a payee

VARIABLES
    payee,      \* payees: id -> name
    ident,      \* payee_identities: id -> [payee, pattern]
    rowPayee,   \* row -> payee id, 0 for none
    nextPayee, nextIdent,
    record,     \* payee_auto_merges that are neither undone nor expired
    dismissed,  \* dismissed_payee_merges: sets of two payee ids
    undone,     \* the pairs put apart by an undo
    scan        \* a running scan: the proposals still to merge

payeeVars == <<payee, ident, rowPayee, nextPayee, nextIdent, record, dismissed, undone, scan>>

Ids == 1 .. MaxPayee
IdentIds == 1 .. MaxIdent

PayeeTypeOK ==
    /\ DOMAIN payee \subseteq 1 .. (nextPayee - 1) /\ \A p \in DOMAIN payee : payee[p] \in Names
    /\ DOMAIN ident \subseteq 1 .. (nextIdent - 1)
    /\ \A i \in DOMAIN ident : ident[i] \in [payee : DOMAIN payee, pattern : Names]
    /\ rowPayee \in [RowIds -> DOMAIN payee \cup {0}]
    /\ \A r \in record : r.keeper \in DOMAIN payee
    /\ \A d \in dismissed : d \subseteq DOMAIN payee
    /\ scan \subseteq Ids \X Ids

PayeeInit ==
    /\ payee = <<>> /\ ident = <<>>
    /\ rowPayee = [r \in RowIds |-> 0]
    /\ nextPayee = 1 /\ nextIdent = 1
    /\ record = {} /\ dismissed = {} /\ undone = {}
    /\ scan = {}

-----------------------------------------------------------------------------
SpellingsOf(p) == {ident[i].pattern : i \in {j \in DOMAIN ident : ident[j].payee = p}}
Taken(s) == \E i \in DOMAIN ident : ident[i].pattern = s
Named(s) == {p \in DOMAIN payee : payee[p] = s}
RowsOf(p) == {r \in RowIds : rowPayee[r] = p}

\* A new payee is given its name as its first identity
\* (_give_new_payees_their_name), whoever else has that spelling.
Born(name) ==
    /\ nextPayee <= MaxPayee /\ nextIdent <= MaxIdent
    /\ Named(name) = {}
    /\ payee' = With(payee, nextPayee, name)
    /\ ident' = With(ident, nextIdent, [payee |-> nextPayee, pattern |-> name])
    /\ nextPayee' = nextPayee + 1
    /\ nextIdent' = nextIdent + 1

\* PayeeService.create
CreatePayee(name) ==
    /\ Born(name)
    /\ UNCHANGED <<rowPayee, record, dismissed, undone, scan>>

\* PayeeService.match_or_create_from_name for a new row: the identity with the
\* lowest id, then the name, then a new payee
MatchOrCreate(r, s) ==
    /\ rowPayee[r] = 0
    /\ IF Taken(s)
       THEN LET hit == Min({i \in DOMAIN ident : ident[i].pattern = s})
            IN /\ rowPayee' = [rowPayee EXCEPT ![r] = ident[hit].payee]
               /\ UNCHANGED <<payee, ident, nextPayee, nextIdent>>
       ELSE IF Named(s) # {}
       THEN /\ rowPayee' = [rowPayee EXCEPT ![r] = CHOOSE p \in Named(s) : TRUE]
            /\ UNCHANGED <<payee, ident, nextPayee, nextIdent>>
       ELSE /\ Born(s)
            /\ rowPayee' = [rowPayee EXCEPT ![r] = nextPayee]
    /\ UNCHANGED <<record, dismissed, undone, scan>>

\* PayeeService.update, add_name_identity: the new name becomes a spelling too,
\* unless somebody has it
RenamePayee(p, name) ==
    /\ p \in DOMAIN payee
    /\ payee[p] # name
    /\ Named(name) = {}
    /\ payee' = [payee EXCEPT ![p] = name]
    /\ IF Taken(name) THEN UNCHANGED <<ident, nextIdent>>
       ELSE /\ nextIdent <= MaxIdent
            /\ ident' = With(ident, nextIdent, [payee |-> p, pattern |-> name])
            /\ nextIdent' = nextIdent + 1
    /\ UNCHANGED <<rowPayee, nextPayee, record, dismissed, undone, scan>>

\* What the foreign keys drop with a payee: its records and dismissals
Dropped(S) ==
    /\ record' = {r \in record : r.keeper \notin S}
    /\ dismissed' = {d \in dismissed : d \cap S = {}}
    /\ undone' = {d \in undone : d \cap S = {}}

\* PayeeService.delete: identities go with it, rows are left without a payee
DeletePayee(p) ==
    /\ p \in DOMAIN payee
    /\ payee' = Without(payee, {p})
    /\ ident' = Without(ident, {i \in DOMAIN ident : ident[i].payee = p})
    /\ rowPayee' = [r \in RowIds |-> IF rowPayee[r] = p THEN 0 ELSE rowPayee[r]]
    /\ Dropped({p})
    /\ UNCHANGED <<nextPayee, nextIdent, scan>>

\* A row's payee is changed in the ledger (TransactionService.update)
MoveRow(r, p) ==
    /\ rowPayee[r] # 0 /\ p \in DOMAIN payee
    /\ rowPayee' = [rowPayee EXCEPT ![r] = p]
    /\ UNCHANGED <<payee, ident, nextPayee, nextIdent, record, dismissed, undone, scan>>

\* PayeeService.add_identity, _check_spelling_free
AddIdentity(p, s) ==
    /\ p \in DOMAIN payee
    /\ nextIdent <= MaxIdent
    /\ ~ Taken(s)
    /\ ident' = With(ident, nextIdent, [payee |-> p, pattern |-> s])
    /\ nextIdent' = nextIdent + 1
    /\ UNCHANGED <<payee, rowPayee, nextPayee, record, dismissed, undone, scan>>

\* PayeeService.update_identity
UpdateIdentity(i, s) ==
    /\ i \in DOMAIN ident
    /\ ident[i].pattern # s
    /\ \A j \in DOMAIN ident \ {i} : ident[j].pattern # s
    /\ ident' = [ident EXCEPT ![i].pattern = s]
    /\ UNCHANGED <<payee, rowPayee, nextPayee, nextIdent, record, dismissed, undone, scan>>

\* PayeeService.delete_identity: never the last one
DeleteIdentity(i) ==
    /\ i \in DOMAIN ident
    /\ Cardinality({j \in DOMAIN ident : ident[j].payee = ident[i].payee}) > 1
    /\ ident' = Without(ident, {i})
    /\ UNCHANGED <<payee, rowPayee, nextPayee, nextIdent, record, dismissed, undone, scan>>

-----------------------------------------------------------------------------
(* Merging *)

\* absorb_identities, lowest id first: the spellings the keeper lacks move to
\* it, the others are deleted
Handed(k, S) ==
    {i \in DOMAIN ident :
        /\ ident[i].payee \in S
        /\ ident[i].pattern \notin SpellingsOf(k)
        /\ \A j \in DOMAIN ident :
             ident[j].payee \in S /\ ident[j].pattern = ident[i].pattern => i <= j}

\* The rows and spellings of S go to k, S is deleted (PayeeService.merge,
\* DedupeService.merge_payees); name is the keeper's new name, or its old one
MergedInto(k, S, name) ==
    LET kept == [i \in {j \in DOMAIN ident : ident[j].payee \notin S} \cup Handed(k, S) |->
                    [ident[i] EXCEPT !.payee = IF @ \in S THEN k ELSE @]]
    IN  /\ payee' = [Without(payee, S) EXCEPT ![k] = name]
        /\ IF name = payee[k] \/ \E i \in DOMAIN kept : kept[i].pattern = name
           THEN ident' = kept /\ UNCHANGED nextIdent
           ELSE /\ nextIdent <= MaxIdent
                /\ ident' = With(kept, nextIdent, [payee |-> k, pattern |-> name])
                /\ nextIdent' = nextIdent + 1
        /\ rowPayee' = [r \in RowIds |-> IF rowPayee[r] \in S THEN k ELSE rowPayee[r]]

\* check_merge_name: the new name may be one of the merged, nobody else's
MergeByHand(k, S, name) ==
    /\ k \in DOMAIN payee
    /\ S # {} /\ S \subseteq DOMAIN payee \ {k}
    /\ Named(name) \subseteq {k} \cup S
    /\ MergedInto(k, S, name)
    /\ Dropped(S)
    /\ UNCHANGED <<nextPayee, scan>>

\* keeper_rank: more rows, then older
Ranks(p, q) ==
    \/ Cardinality(RowsOf(p)) > Cardinality(RowsOf(q))
    \/ Cardinality(RowsOf(p)) = Cardinality(RowsOf(q)) /\ p < q

Similar(p, q) ==
    \E s \in SpellingsOf(p) \cup {payee[p]}, t \in SpellingsOf(q) \cup {payee[q]} :
        s = t \/ {s, t} \in Alike

\* Mutant of Proposals: dismissed pairs are proposed again.
Proposals_Again ==
    {pq \in (DOMAIN payee) \X (DOMAIN payee) :
        Ranks(pq[1], pq[2]) /\ pq[1] # pq[2] /\ Similar(pq[1], pq[2])}

\* propose_merges: the similar pairs nobody dismissed, keeper first
Proposals ==
    {pq \in (DOMAIN payee) \X (DOMAIN payee) :
        /\ Ranks(pq[1], pq[2])
        /\ pq[1] # pq[2]
        /\ {pq[1], pq[2]} \notin dismissed
        /\ Similar(pq[1], pq[2])}

Dismiss(p, q) ==
    /\ {p, q} \subseteq DOMAIN payee
    /\ p # q
    /\ dismissed' = dismissed \cup {{p, q}}
    /\ UNCHANGED <<payee, ident, rowPayee, nextPayee, nextIdent, record, undone, scan>>

\* scan: the proposals are read once
ScanStart ==
    /\ scan = {}
    /\ Proposals # {}
    /\ scan' = Proposals
    /\ UNCHANGED <<payee, ident, rowPayee, nextPayee, nextIdent, record, dismissed, undone>>

\* _auto_merge of the next proposal, whichever scores best, and its commit;
\* proposals of a payee merged away in this scan are skipped
ScanMerge(pq) ==
    LET k == pq[1]
        v == pq[2]
    IN  /\ pq \in scan
        /\ IF {k, v} \subseteq DOMAIN payee
           THEN /\ MergedInto(k, {v}, payee[k])
                /\ record' = {r \in record : r.keeper # v}
                      \cup {[keeper |-> k, name |-> payee[v], idents |-> Handed(k, {v}),
                             rows |-> RowsOf(v)]}
                /\ dismissed' = {d \in dismissed : v \notin d}
                /\ undone' = {d \in undone : v \notin d}
                /\ scan' = {o \in scan \ {pq} : v \notin {o[1], o[2]}}
                /\ UNCHANGED nextPayee
           ELSE /\ scan' = {}
                /\ UNCHANGED <<payee, ident, rowPayee, nextPayee, nextIdent, record,
                               dismissed, undone>>

\* undo: the payee comes back under a new id with what it handed over and the
\* keeper still has, and the pair is dismissed
Undo(r) ==
    /\ r \in record
    /\ Named(r.name) = {}
    /\ nextPayee <= MaxPayee
    /\ LET back == {i \in r.idents \cap DOMAIN ident : ident[i].payee = r.keeper}
           moved == [i \in DOMAIN ident |->
                        IF i \in back THEN [ident[i] EXCEPT !.payee = nextPayee] ELSE ident[i]]
       IN IF back # {} THEN ident' = moved /\ UNCHANGED nextIdent
          ELSE /\ nextIdent <= MaxIdent
               /\ ident' = With(ident, nextIdent, [payee |-> nextPayee, pattern |-> r.name])
               /\ nextIdent' = nextIdent + 1
    /\ payee' = With(payee, nextPayee, r.name)
    /\ rowPayee' = [x \in RowIds |-> IF x \in r.rows /\ rowPayee[x] = r.keeper
                                     THEN nextPayee ELSE rowPayee[x]]
    /\ nextPayee' = nextPayee + 1
    /\ dismissed' = dismissed \cup {{r.keeper, nextPayee}}
    /\ undone' = undone \cup {{r.keeper, nextPayee}}
    /\ record' = record \ {r}
    /\ UNCHANGED scan

\* UNDO_WINDOW passes
Expire(r) ==
    /\ r \in record
    /\ record' = record \ {r}
    /\ UNCHANGED <<payee, ident, rowPayee, nextPayee, nextIdent, dismissed, undone, scan>>

PayeeNext ==
    \/ \E s \in Names : CreatePayee(s)
    \/ \E r \in RowIds, s \in Names : MatchOrCreate(r, s)
    \/ \E p \in Ids, s \in Names : RenamePayee(p, s) \/ AddIdentity(p, s)
    \/ \E p \in Ids : DeletePayee(p)
    \/ \E r \in RowIds, p \in Ids : MoveRow(r, p)
    \/ \E i \in IdentIds, s \in Names : UpdateIdentity(i, s)
    \/ \E i \in IdentIds : DeleteIdentity(i)
    \/ \E k \in Ids, S \in SUBSET Ids, s \in Names : MergeByHand(k, S, s)
    \/ \E p, q \in Ids : Dismiss(p, q)
    \/ ScanStart
    \/ \E pq \in scan : ScanMerge(pq)
    \/ \E r \in record : Undo(r) \/ Expire(r)

PayeeSpec == PayeeInit /\ [][PayeeNext]_payeeVars

-----------------------------------------------------------------------------
(* Properties *)

\* Only deleting a payee leaves a row without one: merges, chains of automatic
\* merges and undos always hand it on.
RowsKeepAPayee ==
    [][\A r \in RowIds : rowPayee[r] # 0 /\ rowPayee'[r] = 0 =>
          DOMAIN payee' = DOMAIN payee \ {rowPayee[r]} /\ scan' = scan]_payeeVars

\* A pair that an undo put apart is not merged again by a scan, not even by one
\* that was already running ("the next scan must not merge it again").
UndoneStayApart ==
    [][\A pq \in scan : ScanMerge(pq) /\ payee' # payee =>
          {pq[1], pq[2]} \notin undone]_payeeVars

\* Bank data that resolved to a payee by one of its spellings resolves to the
\* keeper after a merge, by hand or by a scan, unless a third payee shares the
\* spelling.
SpellingsFollowMerge ==
    [][\A s \in Names, v \in DOMAIN payee \ DOMAIN payee' :
          /\ s \in SpellingsOf(v)
          /\ \E r \in RowIds : rowPayee[r] = v /\ rowPayee'[r] \in DOMAIN payee
          => \E i \in DOMAIN ident' :
                /\ ident'[i].pattern = s
                /\ \A r \in RowIds : rowPayee[r] = v => ident'[i].payee = rowPayee'[r]]_payeeVars

\* A payee always has at least one identity (delete_identity: "A payee needs at
\* least one identity").
EveryPayeeHasIdentity == \A p \in DOMAIN payee : SpellingsOf(p) # {}

-----------------------------------------------------------------------------
(***************************************************************************)
(* How the merge scan scores two payees, and how it spares itself the edit *)
(* distance of pairs that cannot reach the threshold                       *)
(* (payee_merge_service.py: similarity, _similarity_ceiling,               *)
(* _best_similarity, _score; dedupe_service.py: levenshtein).              *)
(*                                                                         *)
(* A spelling is a sequence of letters whose first letter stands for its   *)
(* merchant key (its first word).  Similarities are in twelfths, so they   *)
(* are exact for words of up to four letters; scores are in 120ths, with   *)
(* the weights 0.5, 0.3 and 0.2 as 5, 3 and 2.                             *)
(***************************************************************************)
CONSTANTS
    Letters,    \* the alphabet of the words tried
    MaxWord     \* their longest length, at most 4

ASSUME ScoreAssumption == MaxWord \in 1 .. 4

VARIABLES left, right    \* the two candidates: [name, also], also a set of identities

scoreVars == <<left, right>>

Word == UNION {[1 .. n -> Letters] : n \in 1 .. MaxWord}
Candidate == [name : Word, also : {{}} \cup {{w} : w \in Word}]
PROPOSAL_THRESHOLD == 90

ScoreTypeOK == left \in Candidate /\ right \in Candidate

\* Two payees with a name each, and then an identity for either.
ScoreInit == left \in [name : Word, also : {{}}] /\ right \in [name : Word, also : {{}}]

LeftIdentity(w) == left.also = {} /\ left' = [left EXCEPT !.also = {w}] /\ UNCHANGED right
RightIdentity(w) == right.also = {} /\ right' = [right EXCEPT !.also = {w}] /\ UNCHANGED left

-----------------------------------------------------------------------------
Spellings(c) == {c.name} \cup c.also
MerchantKeys(c) == {w[1] : w \in Spellings(c)}
Longest(a, b) == IF Len(a) > Len(b) THEN Len(a) ELSE Len(b)

\* levenshtein: row by row, each cell the cheapest of a deletion, an insertion
\* and a substitution
Levenshtein(a, b) ==
    LET d[ij \in (0 .. Len(a)) \X (0 .. Len(b))] ==
            IF ij[1] = 0 THEN ij[2]
            ELSE IF ij[2] = 0 THEN ij[1]
            ELSE Min({d[<<ij[1] - 1, ij[2]>>] + 1, d[<<ij[1], ij[2] - 1>>] + 1,
                      d[<<ij[1] - 1, ij[2] - 1>>] + IF a[ij[1]] = b[ij[2]] THEN 0 ELSE 1})
    IN  d[<<Len(a), Len(b)>>]

Similarity(a, b) == 12 - (12 * Levenshtein(a, b)) \div Longest(a, b)

\* _similarity_ceiling: the letters one has and the other lacks, whatever order
Surplus(a, b) ==
    MapThenSumSet(LAMBDA l : Max({0, Cardinality({k \in DOMAIN a : a[k] = l})
                                     - Cardinality({k \in DOMAIN b : b[k] = l})}), Letters)
\* Mutant of Ceiling: both surpluses are counted.
Ceiling_Both(a, b) == 12 - (12 * (Surplus(a, b) + Surplus(b, a))) \div Longest(a, b)

Ceiling(a, b) == 12 - (12 * Max({Surplus(a, b), Surplus(b, a)})) \div Longest(a, b)

\* The overlap of the merchant keys, in twelfths
Merchant(a, b) ==
    (12 * Cardinality(MerchantKeys(a) \cap MerchantKeys(b)))
        \div Cardinality(MerchantKeys(a) \cup MerchantKeys(b))

Weighted(name, identity, merchant) == 5 * name + 3 * identity + 2 * merchant

\* _best_similarity: pairs whose ceiling is not above the floor (or the best so
\* far) are skipped.  What is skipped never beats what is kept, so the order of
\* the loop does not show.  floor3 is three times the floor.
BestSimilarity(a, b, floor3) ==
    Max({0} \cup {Similarity(st[1], st[2]) :
            st \in {xy \in Spellings(a) \X Spellings(b) : 3 * Ceiling(xy[1], xy[2]) > floor3}})

\* _score: <<>> below min
Score(a, b, min) ==
    LET merchant == Merchant(a, b)
        ceilings == {Ceiling(x, y) : x \in Spellings(a), y \in Spellings(b)}
        name == Similarity(a.name, b.name)
        identity == Max({name, BestSimilarity(a, b, min - 5 * name - 2 * merchant)})
    IN  IF \/ Weighted(Ceiling(a.name, b.name), Max(ceilings), merchant) < min
           \/ Weighted(name, identity, merchant) < min
        THEN <<>> ELSE <<Weighted(name, identity, merchant)>>

ScoreNext == \E w \in Word : LeftIdentity(w) \/ RightIdentity(w)
ScoreSpec == ScoreInit /\ [][ScoreNext]_scoreVars

-----------------------------------------------------------------------------
(* Properties *)

\* The score of the docstring, with no shortcut.
FullScore(a, b) ==
    Weighted(Similarity(a.name, b.name),
             Max({Similarity(x, y) : x \in Spellings(a), y \in Spellings(b)}),
             Merchant(a, b))

\* The shortcuts never change a score, never propose a pair that is below the
\* threshold and never lose one that is above it; the order of the pair does
\* not matter.
PruningSound ==
    /\ Score(left, right, PROPOSAL_THRESHOLD) # <<>> =>
         Score(left, right, PROPOSAL_THRESHOLD)[1] = FullScore(left, right)
    /\ FullScore(left, right) > PROPOSAL_THRESHOLD =>
         Score(left, right, PROPOSAL_THRESHOLD) # <<>>
    /\ Score(left, right, PROPOSAL_THRESHOLD) = Score(right, left, PROPOSAL_THRESHOLD)

\* "Pairs at or above PROPOSAL_THRESHOLD are proposed" (payee_merge_service.py).
ProposedAtThreshold ==
    FullScore(left, right) >= PROPOSAL_THRESHOLD =>
        Score(left, right, PROPOSAL_THRESHOLD) # <<>>

=============================================================================
