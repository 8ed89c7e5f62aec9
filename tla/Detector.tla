---------------------------------- MODULE Detector --------------------------------
(***************************************************************************)
(* Recurring charges found in the ledger: the subscription detector        *)
(* (services/subscription_service.py, detect_candidates and what is done   *)
(* with a candidate) and the radar for rare charges                        *)
(* (services/unplanned_radar_service.py).                                  *)
(*                                                                         *)
(* A page shows candidates, and accepts or dismisses them later, when the  *)
(* ledger may have moved on.  Amounts are cents; a merchant key is what    *)
(* merchant_key_from_description makes of a description or of a name, ""    *)
(* when nothing is left.                                                   *)
(***************************************************************************)
EXTENDS Integers, FiniteSets, Sequences, SequencesExt, FiniteSetsExt, Tables

CONSTANTS
    Ledgers,        \* the ledgers a behaviour may begin with: sequences of charges
    Arrivals,       \* charges that may still arrive
    KeyOfPayee,     \* payee -> the key of its name
    NowDay,
    MaxCharges      \* bound: rows of the ledger

ASSUME DetectorAssumption == NowDay \in Nat /\ MaxCharges \in Nat

VARIABLES
    charge,     \* transactions (expenses): id -> [payee, key, day, amount, cat, plan]
    subs,       \* subscriptions: id -> [payee, key, amount, status]
    expected,   \* active planned expenses: id -> [payee, key]
    waved,      \* dismissed_candidate_patterns
    page,       \* the candidate a page shows
    refused     \* groups whose candidate was dismissed and not offered again since

detectorVars == <<charge, subs, expected, waved, page, refused>>

Nobody == "-"
Payers == (DOMAIN KeyOfPayee) \cup {Nobody}
SubsCategory == "subscriptions"
DetectorWindow == 730
RadarWindow == 1095
NoCandidate == [kind |-> "-"]

DetectorTypeOK ==
    /\ \A i \in DOMAIN charge : charge[i].payee \in Payers /\ charge[i].plan \in (DOMAIN expected) \cup {0}
    /\ \A s \in DOMAIN subs : subs[s].status \in {"active", "cancelled"}
    /\ \A w \in waved : w.payee = Nobody <=> w.key # Nobody

DetectorInit ==
    /\ charge \in Ledgers
    /\ subs = <<>> /\ expected = <<>>
    /\ waved = {} /\ refused = {}
    /\ page = NoCandidate

-----------------------------------------------------------------------------
(* Arithmetic of the two services *)

HalfEven(n, d) ==
    LET q == n \div d
        r == 2 * (n % d)
    IN  IF r < d \/ (r = d /\ q % 2 = 0) THEN q ELSE q + 1
HalfUp(n, d) == (2 * n + d) \div (2 * d)

\* _amount_bucket of the detector: round() of a float; of the radar: half up
AmountBucket(a) == HalfEven(a, 100)
RadarBucket(a) == HalfUp(a, 100)

SortedBy(S, f(_)) == SetToSortSeq(S, LAMBDA i, j : f(i) < f(j) \/ (f(i) = f(j) /\ i < j))

Median(S) ==
    LET s == SortedBy(S, LAMBDA i : charge[i].amount)
        mid == Len(s) \div 2
    IN  IF Len(s) % 2 = 1 THEN charge[s[mid + 1]].amount
        ELSE HalfEven(charge[s[mid]].amount + charge[s[mid + 1]].amount, 2)

\* _infer_cadence: the gaps add up to the span
InferCadence(S) ==
    LET days == {charge[i].day : i \in S}
        span == Max(days) - Min(days)
        gaps == Cardinality(S) - 1
        Within(c, tol) == span <= (c + tol) * gaps /\ span >= (c - tol) * gaps
    IN  IF Within(30, 5) THEN 30 ELSE IF Within(365, 21) THEN 365 ELSE 0

-----------------------------------------------------------------------------
(* What is offered *)

\* _subscription_category_ids, and the window of the two queries
InWindow(i, days) ==
    /\ charge[i].cat # SubsCategory
    /\ charge[i].day >= NowDay - days /\ charge[i].day <= NowDay

Running == {s \in DOMAIN subs : subs[s].status # "cancelled"}
\* What detect_candidates takes for tracked: a plan with a payee only by payee
TrackedPayees == {subs[s].payee : s \in Running} \cup {expected[p].payee : p \in DOMAIN expected}
TrackedKeys == {subs[s].key : s \in Running}
               \cup {expected[p].key : p \in {q \in DOMAIN expected : expected[q].payee = Nobody}}

Wave(kind, payee, key, bucket) == [kind |-> kind, payee |-> payee, key |-> key, bucket |-> bucket]

\* pass1_groups and pass2_groups
Groups ==
    LET ofPayee(i) == Wave("subscription", charge[i].payee, Nobody, AmountBucket(charge[i].amount))
        ofKey(i) == Wave("subscription", Nobody, charge[i].key, AmountBucket(charge[i].amount))
        pass1 == {i \in DOMAIN charge : InWindow(i, DetectorWindow) /\ charge[i].payee # Nobody
                    /\ charge[i].payee \notin TrackedPayees /\ ofPayee(i) \notin waved}
        pass2 == {i \in DOMAIN charge : InWindow(i, DetectorWindow) /\ charge[i].payee = Nobody
                    /\ charge[i].key # "" /\ charge[i].key \notin TrackedKeys /\ ofKey(i) \notin waved}
    IN  [g \in {ofPayee(i) : i \in pass1} |-> {i \in pass1 : ofPayee(i) = g}]
        @@ [g \in {ofKey(i) : i \in pass2} |-> {i \in pass2 : ofKey(i) = g}]

\* _candidate_from_group
CandidateFromGroup(g, S) ==
    [kind |-> "subscription", group |-> g, payee |-> g.payee, amount |-> Median(S), rows |-> S,
     name |-> IF g.payee = Nobody THEN g.key ELSE KeyOfPayee[g.payee],
     cadence |-> InferCadence(S), next |-> Max({charge[i].day : i \in S}) + InferCadence(S)]
DetectCandidates ==
    {CandidateFromGroup(g, Groups[g]) :
        g \in {h \in DOMAIN Groups : Cardinality(Groups[h]) >= 2 /\ InferCadence(Groups[h]) # 0}}

\* UnplannedRadarService._tracked_sources: plans by name only
RadarKeys == {subs[s].key : s \in Running} \cup {expected[p].key : p \in DOMAIN expected}
RadarPayees == {subs[s].payee : s \in Running}

\* UnplannedRadarService.detect up to the candidates, which _dismissed_sources
\* leaves out whatever the amount
RadarGroups ==
    LET gone == {<<w.payee, w.key>> : w \in {v \in waved : v.kind = "unplanned"}}
        rows == {i \in DOMAIN charge : InWindow(i, RadarWindow) /\ charge[i].plan = 0}
        ofPayee == {i \in rows : charge[i].payee # Nobody /\ charge[i].payee \notin RadarPayees
                      /\ <<charge[i].payee, Nobody>> \notin gone /\ KeyOfPayee[charge[i].payee] \notin RadarKeys}
        ofKey == {i \in rows : charge[i].payee = Nobody /\ charge[i].key # "" /\ charge[i].key \notin RadarKeys
                    /\ <<Nobody, charge[i].key>> \notin gone}
    IN  {<<p, Nobody, {i \in ofPayee : charge[i].payee = p}>> : p \in {charge[i].payee : i \in ofPayee}}
        \cup {<<Nobody, k, {i \in ofKey : charge[i].key = k}>> : k \in {charge[i].key : i \in ofKey}}

\* _candidate_from_occurrences: two or more, evenly spread, of like amounts
Recurs(S) ==
    LET order == SortedBy(S, LAMBDA i : charge[i].day)
        typical == Median(S)
    IN  /\ Cardinality(S) >= 2
        /\ \A k \in 2 .. Len(order) : charge[order[k]].day - charge[order[k - 1]].day \in 60 .. 450
        /\ \A i \in S : 10 * charge[i].amount \in 7 * typical .. 13 * typical
\* _cadence: yearly, or every so many months
AverageGap(S) == LET days == {charge[i].day : i \in S}
                 IN  HalfEven(Max(days) - Min(days), Cardinality(S) - 1)
RadarCandidates ==
    {[kind |-> "unplanned", group |-> Wave("unplanned", g[1], g[2], RadarBucket(Median(g[3]))),
      payee |-> g[1], amount |-> Median(g[3]), rows |-> g[3],
      name |-> IF g[1] = Nobody THEN g[2] ELSE KeyOfPayee[g[1]], cadence |-> AverageGap(g[3]),
      next |-> Max({charge[i].day : i \in g[3]}) + AverageGap(g[3])] :
        g \in {h \in RadarGroups : Recurs(h[3])}}

-----------------------------------------------------------------------------
(* Operations *)

\* The panels load their candidates
Show(c) ==
    /\ c \in DetectCandidates \cup RadarCandidates
    /\ page' = c
    /\ UNCHANGED <<charge, subs, expected, waved, refused>>

\* The pattern dismiss_candidate and UnplannedRadarService.dismiss store
Pattern(c) ==
    Wave(c.kind, c.payee, IF c.payee = Nobody THEN c.name ELSE Nobody,
         IF c.kind = "subscription" THEN AmountBucket(c.amount) ELSE RadarBucket(c.amount))

DismissCandidate ==
    /\ page # NoCandidate
    /\ waved' = waved \cup {Pattern(page)}
    /\ refused' = refused \cup {page.group}
    /\ page' = NoCandidate
    /\ UNCHANGED <<charge, subs, expected>>

\* undismiss; the radar has no such operation
Undismiss(w) ==
    /\ w \in waved /\ w.kind = "subscription"
    /\ waved' = waved \ {w}
    /\ refused' = {g \in refused : g.kind # "subscription" \/ g.payee # w.payee \/ g.key # w.key
                                   \/ g.bucket # w.bucket}
    /\ UNCHANGED <<charge, subs, expected, page>>

\* _recategorise: the window, the payee or else the key, and the bucket of the amount
Recategorised(payee, key, amount) ==
    [i \in DOMAIN charge |->
       IF /\ charge[i].payee = payee /\ charge[i].day \in (NowDay - DetectorWindow) .. NowDay
          /\ AmountBucket(charge[i].amount) = AmountBucket(amount)
          /\ payee = Nobody => charge[i].key = key
       THEN [charge[i] EXCEPT !.cat = SubsCategory] ELSE charge[i]]

\* create_from_candidate; with a category its rows are filed at once
CreateFromCandidate(file) ==
    /\ page.kind = "subscription" /\ Cardinality(DOMAIN subs) < 2
    /\ subs' = With(subs, Cardinality(DOMAIN subs) + 1,
                    [payee |-> page.payee, key |-> page.name, amount |-> page.amount, status |-> "active"])
    /\ charge' = IF file THEN Recategorised(page.payee, page.name, page.amount) ELSE charge
    /\ page' = NoCandidate
    /\ UNCHANGED <<expected, waved, refused>>

\* create_planned_from_candidate of both services: the rows of the candidate
\* before the first occurrence become the plan's history, one a day
\* (link_history, module Planned)
CreatePlannedFromCandidate ==
    /\ page # NoCandidate /\ Cardinality(DOMAIN expected) < 2
    /\ LET p == Cardinality(DOMAIN expected) + 1
           free == {i \in page.rows : i \in DOMAIN charge /\ charge[i].plan = 0}
       IN /\ expected' = With(expected, p, [payee |-> page.payee, key |-> page.name])
          /\ charge' = [i \in DOMAIN charge |->
                IF i \in free /\ \A j \in free : charge[j].day = charge[i].day => i <= j
                THEN [charge[i] EXCEPT !.plan = p] ELSE charge[i]]
    /\ page' = NoCandidate
    /\ UNCHANGED <<subs, waved, refused>>

\* refile
Refile(s) ==
    /\ s \in DOMAIN subs
    /\ charge' = Recategorised(subs[s].payee, subs[s].key, subs[s].amount)
    /\ UNCHANGED <<subs, expected, waved, page, refused>>

\* cancel (module Subscriptions)
CancelSub(s) ==
    /\ s \in DOMAIN subs /\ subs[s].status = "active"
    /\ subs' = [subs EXCEPT ![s].status = "cancelled"]
    /\ UNCHANGED <<charge, expected, waved, page, refused>>

\* A plan is ended
EndPlan(p) ==
    /\ p \in DOMAIN expected
    /\ \A q \in DOMAIN expected : q <= p
    /\ expected' = Without(expected, {p})
    /\ charge' = [i \in DOMAIN charge |-> IF charge[i].plan = p THEN [charge[i] EXCEPT !.plan = 0] ELSE charge[i]]
    /\ UNCHANGED <<subs, waved, page, refused>>

\* An import adds a charge
Arrive(c) ==
    /\ Cardinality(DOMAIN charge) < MaxCharges
    /\ charge' = With(charge, Cardinality(DOMAIN charge) + 1, c)
    /\ UNCHANGED <<subs, expected, waved, page, refused>>

DetectorNext ==
    \/ \E c \in DetectCandidates \cup RadarCandidates : Show(c)
    \/ DismissCandidate \/ CreatePlannedFromCandidate
    \/ \E w \in waved : Undismiss(w)
    \/ \E file \in BOOLEAN : CreateFromCandidate(file)
    \/ \E s \in DOMAIN subs : Refile(s) \/ CancelSub(s)
    \/ \E p \in DOMAIN expected : EndPlan(p)
    \/ \E c \in Arrivals : Arrive(c)

DetectorSpec == DetectorInit /\ [][DetectorNext]_detectorVars

-----------------------------------------------------------------------------
(* Properties *)

\* A dismissed pattern is not offered again, whatever charges arrive: the bucket
\* stored is that of the median, and it is the bucket of every charge of the
\* group it was made of (dismiss_candidate, detect_candidates).
DismissedStayGone ==
    \A c \in DetectCandidates \cup RadarCandidates :
        \A g \in refused : <<g.kind, g.payee, g.key>> = <<c.group.kind, c.group.payee, c.group.key>> =>
            (g.kind = "subscription" /\ g.bucket # c.group.bucket)

\* Neither panel offers what became a subscription or a plan while that runs,
\* also when the page had loaded the candidate before (detect_candidates,
\* _tracked_sources).
AcceptedNotOffered ==
    \A c \in DetectCandidates \cup RadarCandidates :
        /\ \A s \in Running : <<subs[s].payee, subs[s].key>> # <<c.payee, c.name>>
        /\ \A p \in DOMAIN expected : <<expected[p].payee, expected[p].key>> # <<c.payee, c.name>>

\* Filing a candidate files the charges it was made of and none of another
\* merchant, although the query knows only the median (_recategorise_matching).
FiledAreItsOwn ==
    [][\A file \in BOOLEAN : (page.kind = "subscription" /\ page' = NoCandidate /\ subs' # subs
                              /\ CreateFromCandidate(file) /\ file) =>
         /\ \A i \in page.rows : charge'[i].cat = SubsCategory
         /\ \A i \in DOMAIN charge : charge'[i] # charge[i] =>
               charge[i].payee = page.payee /\ (page.payee = Nobody => charge[i].key = page.name)
      ]_detectorVars

=============================================================================
