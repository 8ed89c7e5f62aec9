------------------------------- MODULE Housekeeping -------------------------------
(***************************************************************************)
(* Categories and what refers to them, the housekeeping merges of          *)
(* categories and of duplicate transactions                                *)
(* (services/category_service.py, services/dedupe_service.py).             *)
(*                                                                         *)
(* A category keeps its name, type, parent and whether it is the           *)
(* subscriptions root.  What points at one: ledger rows (standing for      *)
(* splits, planned transactions, funds and subscriptions, re-pointed by    *)
(* the same statement each), categorisation rules, and budgets, one per    *)
(* category and month.  A ledger row also has the day, the text and the    *)
(* planned occurrence duplicates are judged by; account and amount are     *)
(* equal on all of them, since rows that differ there are never grouped.   *)
(***************************************************************************)
EXTENDS Integers, FiniteSets, Sequences, FiniteSetsExt, SequencesExt, Tables

CONSTANTS
    MaxCat,     \* bound: categories ever created
    Entries,    \* ledger rows there are to begin with
    Rules,      \* categorisation rules
    Months,     \* budget periods
    Plans,      \* planned transactions a row may post
    DupWindow   \* DUPLICATE_TX_DATE_WINDOW, in days

VARIABLES
    cat,        \* categories: id -> [name, type, parent, root]
    nextCat,
    entry,      \* rows: id -> [cat, day, text, plan]
    rule,       \* rules: id -> category
    budget      \* <<category, month>> -> who set it

houseVars == <<cat, nextCat, entry, rule, budget>>

CatIds == 1 .. MaxCat
CatNames == {"food", "Food"}
Norm == [food |-> "food", Food |-> "food"]   \* normalise_name
Texts == {"", "shop", "fee"}
EntryRow == [cat : CatIds \cup {0}, day : 0 .. 2, text : Texts, plan : Plans \cup {0}]

HouseTypeOK ==
    /\ nextCat \in 1 .. (MaxCat + 1)
    /\ DOMAIN cat \subseteq 1 .. (nextCat - 1)
    /\ \A c \in DOMAIN cat : cat[c] \in
         [name : CatNames \cup {"Subscriptions"}, type : {"income", "expense"},
          parent : (DOMAIN cat) \cup {0}, root : BOOLEAN]
    /\ DOMAIN entry \subseteq Entries /\ \A e \in DOMAIN entry : entry[e] \in EntryRow
    /\ \A e \in DOMAIN entry : entry[e].cat \in (DOMAIN cat) \cup {0}
    /\ DOMAIN rule \subseteq Rules /\ \A r \in DOMAIN rule : rule[r] \in DOMAIN cat
    /\ DOMAIN budget \subseteq (DOMAIN cat) \X Months

HouseInit ==
    /\ cat = <<>> /\ nextCat = 1
    /\ \E there \in SUBSET Entries :
         entry \in [there -> [cat : {0}, day : {0, 2}, text : Texts, plan : Plans \cup {0}]]
    /\ \A d, e \in DOMAIN entry : d # e /\ entry[d].plan = entry[e].plan =>
          entry[d].plan = 0 \/ entry[d].day # entry[e].day
    /\ rule = <<>> /\ budget = <<>>

-----------------------------------------------------------------------------
(* Categories *)

\* _assert_type_matches_parent, _assert_unique_name
FitsParent(type, p) == p = 0 \/ (p \in DOMAIN cat /\ cat[p].type = type)
NameFree(name, type, p, except) ==
    \A c \in DOMAIN cat \ except : ~ (cat[c].name = name /\ cat[c].type = type /\ cat[c].parent = p)

Added(row) ==
    /\ nextCat <= MaxCat
    /\ cat' = With(cat, nextCat, row)
    /\ nextCat' = nextCat + 1

\* CategoryService.create
CreateCategory(name, type, p) ==
    /\ FitsParent(type, p)
    /\ NameFree(name, type, p, {})
    /\ Added([name |-> name, type |-> type, parent |-> p, root |-> FALSE])
    /\ UNCHANGED <<entry, rule, budget>>

\* CategoryService.update
UpdateCategory(c, name, type, p) ==
    /\ c \in DOMAIN cat
    /\ FitsParent(type, p)
    /\ NameFree(name, type, p, {c})
    /\ cat' = [cat EXCEPT ![c].name = name, ![c].type = type, ![c].parent = p]
    /\ UNCHANGED <<nextCat, entry, rule, budget>>

\* Children go with their parent (cascade), all the way down.
Below(c) ==
    LET grow[n \in 0 .. MaxCat] ==
            IF n = 0 THEN {c}
            ELSE grow[n - 1] \cup {d \in DOMAIN cat : cat[d].parent \in grow[n - 1]}
    IN  grow[MaxCat]

\* A category is deleted: budgets and rules go with it, rows lose it
Deleted(S, rowOf(_)) ==
    /\ cat' = Without(cat, S)
    /\ entry' = [e \in DOMAIN entry |-> rowOf(e)]
    /\ rule' = Without(rule, {r \in DOMAIN rule : rule[r] \in S})

\* CategoryService.delete: never the subscriptions root itself
DeleteCategory(c) ==
    /\ c \in DOMAIN cat
    /\ ~ cat[c].root
    /\ Deleted(Below(c), LAMBDA e : IF entry[e].cat \in Below(c)
                                    THEN [entry[e] EXCEPT !.cat = 0] ELSE entry[e])
    /\ budget' = [b \in {x \in DOMAIN budget : x[1] \notin Below(c)} |-> budget[b]]
    /\ UNCHANGED nextCat

\* ensure_subscriptions_root_and_children: the root, if there is none
EnsureRoot ==
    /\ \A c \in DOMAIN cat : ~ cat[c].root
    /\ Added([name |-> "Subscriptions", type |-> "expense", parent |-> 0, root |-> TRUE])
    /\ UNCHANGED <<entry, rule, budget>>

\* A row, a rule or a budget is pointed at a category
Categorise(e, c) ==
    /\ e \in DOMAIN entry /\ c \in DOMAIN cat
    /\ entry' = [entry EXCEPT ![e].cat = c]
    /\ UNCHANGED <<cat, nextCat, rule, budget>>

AddRule(r, c) ==
    /\ r \in Rules \ DOMAIN rule /\ c \in DOMAIN cat
    /\ rule' = With(rule, r, c)
    /\ UNCHANGED <<cat, nextCat, entry, budget>>

SetBudget(c, m) ==
    /\ c \in DOMAIN cat
    /\ budget' = With(budget, <<c, m>>, c)
    /\ UNCHANGED <<cat, nextCat, entry, rule>>

\* redundant_categories: same normalised name, same type
NormOf(c) == IF cat[c].root THEN "subscriptions" ELSE Norm[cat[c].name]
Redundant(S) ==
    /\ Cardinality(S) > 1
    /\ \A c, d \in S : NormOf(c) = NormOf(d) /\ cat[c].type = cat[d].type

\* Mutant of MergeCategories: the budgets of the victims go with them.
MergeCategories_DropsBudgets(k, S) ==
    /\ S # {} /\ S \cup {k} \subseteq DOMAIN cat /\ k \notin S
    /\ Redundant(S \cup {k})
    /\ budget' = [b \in {x \in DOMAIN budget : x[1] \notin S} |-> budget[b]]
    /\ cat' = [c \in DOMAIN cat \ S |->
                  IF cat[c].parent \in S THEN [cat[c] EXCEPT !.parent = k] ELSE cat[c]]
    /\ entry' = [e \in DOMAIN entry |->
                    IF entry[e].cat \in S THEN [entry[e] EXCEPT !.cat = k] ELSE entry[e]]
    /\ rule' = Without(rule, {r \in DOMAIN rule : rule[r] \in S})
    /\ UNCHANGED nextCat

\* merge_categories: the keeper's budget wins, then of the victims the lowest;
\* every reference and every child moves to the keeper, the victims go
MergeCategories(k, S) ==
    /\ S # {} /\ S \cup {k} \subseteq DOMAIN cat /\ k \notin S
    /\ Redundant(S \cup {k})
    /\ LET first(m) == Min({c \in S : <<c, m>> \in DOMAIN budget})
           gains == {m \in Months : /\ <<k, m>> \notin DOMAIN budget
                                    /\ \E c \in S : <<c, m>> \in DOMAIN budget}
           kept == {b \in DOMAIN budget : b[1] \notin S}
       IN budget' = [b \in kept \cup ({k} \X gains) |->
                        IF b \in kept THEN budget[b] ELSE budget[<<first(b[2]), b[2]>>]]
    /\ cat' = [c \in DOMAIN cat \ S |->
                  IF cat[c].parent \in S THEN [cat[c] EXCEPT !.parent = k] ELSE cat[c]]
    /\ entry' = [e \in DOMAIN entry |->
                    IF entry[e].cat \in S THEN [entry[e] EXCEPT !.cat = k] ELSE entry[e]]
    /\ rule' = Without(rule, {r \in DOMAIN rule : rule[r] \in S})
    /\ UNCHANGED nextCat

-----------------------------------------------------------------------------
(* Duplicate transactions *)

\* _descriptions_look_alike: an empty text looks like any other
LookAlike(s, t) == s = "" \/ t = "" \/ s = t

\* The rows an anchor takes with it: later in date order, near enough, alike
Near(a, e) ==
    /\ entry[a].day <= entry[e].day
    /\ entry[e].day - entry[a].day <= DupWindow
    /\ LookAlike(entry[a].text, entry[e].text)

\* duplicate_transactions over a date-ordered bucket: an anchor takes what
\* nobody took before
Clusters(bucket) ==
    LET groups[n \in 0 .. Len(bucket)] ==
            IF n = 0 THEN {}
            ELSE LET used == UNION groups[n - 1]
                     mine == {bucket[n]} \cup
                             {bucket[m] : m \in {x \in (n + 1) .. Len(bucket) :
                                 bucket[x] \notin used /\ Near(bucket[n], bucket[x])}}
                 IN  IF bucket[n] \in used \/ Cardinality(mine) < 2 THEN groups[n - 1]
                     ELSE groups[n - 1] \cup {mine}
    IN  groups[Len(bucket)]

DuplicateGroups ==
    Clusters(SetToSortSeq(DOMAIN entry, LAMBDA d, e :
        entry[d].day < entry[e].day \/ (entry[d].day = entry[e].day /\ d < e)))

\* merge_transactions: the duplicates go; the first of their planned links goes
\* to a keeper that has none
MergeTransactions(k, S) ==
    /\ S # {} /\ S \cup {k} \subseteq DOMAIN entry /\ k \notin S
    /\ \E g \in DuplicateGroups : S \cup {k} \subseteq g
    /\ LET offers == {e \in S : entry[e].plan # 0}
           plan == IF entry[k].plan # 0 \/ offers = {} THEN entry[k].plan
                   ELSE entry[Min(offers)].plan
       IN /\ \A e \in DOMAIN entry \ (S \cup {k}) :
                plan # 0 => <<entry[e].plan, entry[e].day>> # <<plan, entry[k].day>>
          /\ entry' = [e \in DOMAIN entry \ S |->
                          IF e = k THEN [entry[k] EXCEPT !.plan = plan] ELSE entry[e]]
    /\ UNCHANGED <<cat, nextCat, rule, budget>>

-----------------------------------------------------------------------------
HouseNext ==
    \/ \E n \in CatNames, t \in {"income", "expense"}, p \in CatIds \cup {0} :
          CreateCategory(n, t, p) \/ \E c \in CatIds : UpdateCategory(c, n, t, p)
    \/ \E c \in CatIds : DeleteCategory(c)
    \/ EnsureRoot
    \/ \E e \in Entries, c \in CatIds : Categorise(e, c)
    \/ \E r \in Rules, c \in CatIds : AddRule(r, c)
    \/ \E c \in CatIds, m \in Months : SetBudget(c, m)
    \/ \E k \in CatIds, S \in SUBSET CatIds : MergeCategories(k, S)
    \/ \E k \in Entries, S \in SUBSET Entries : MergeTransactions(k, S)

HouseSpec == HouseInit /\ [][HouseNext]_houseVars

-----------------------------------------------------------------------------
(* Properties *)

\* Merging categories moves references and loses none but what it says: rows
\* stay categorised, a month budgeted under any of them stays budgeted, and the
\* keeper's own budgets are untouched.
CategoryMergeLosesNothing ==
    [][DOMAIN cat' # DOMAIN cat => \A k \in CatIds, S \in SUBSET CatIds : MergeCategories(k, S) =>
          /\ \A e \in DOMAIN entry : entry[e].cat # 0 => entry'[e].cat # 0
          /\ \A c \in S \cup {k}, m \in Months :
                <<c, m>> \in DOMAIN budget => <<k, m>> \in DOMAIN budget'
          /\ \A m \in Months : <<k, m>> \in DOMAIN budget =>
                budget'[<<k, m>>] = budget[<<k, m>>]]_houseVars

\* No row is offered in two groups of duplicates, and each member is within the
\* window of the group's first row.
GroupsDisjoint ==
    /\ \A g, h \in DuplicateGroups : g # h => g \cap h = {}
    /\ \A g \in DuplicateGroups : \E a \in g : \A e \in g : Near(a, e)

\* A merge of duplicates of which one was posted from a plan leaves a row posted
\* from a plan: the occurrence is not offered for posting again because its row
\* was the one deleted, and it is not linked twice on one day.
PlannedLinkKept ==
    [][DOMAIN entry' # DOMAIN entry => \A k \in Entries, S \in SUBSET Entries : MergeTransactions(k, S) =>
          /\ (\E e \in S \cup {k} : entry[e].plan # 0) => entry'[k].plan # 0
          /\ \A d, e \in DOMAIN entry' : d # e /\ entry'[d].plan # 0 =>
                <<entry'[d].plan, entry'[d].day>> # <<entry'[e].plan, entry'[e].day>>]_houseVars

\* Categories are a forest: following parents ends at a root.
CategoryForest == \A c \in DOMAIN cat : cat[c].parent = 0 \/ cat[c].parent \notin Below(c)

\* "Reassign every FK reference to keeper" (merge_categories): a rule of a
\* merged category still has a category.
RulesSurviveMerge ==
    [][DOMAIN cat' # DOMAIN cat => \A k \in CatIds, S \in SUBSET CatIds : MergeCategories(k, S) =>
          DOMAIN rule' = DOMAIN rule]_houseVars

=============================================================================
