---------------------------------- MODULE Planned ---------------------------------
(***************************************************************************)
(* Planned transactions and the rows posted from them                      *)
(* (services/planned_transaction_service.py,                               *)
(* services/planned_price_drift_service.py): posting one occurrence, all   *)
(* due ones, or a chosen batch, by several sessions at once; the plan may  *)
(* be edited, paused or deleted and the posted row moved or deleted in     *)
(* between.                                                                *)
(*                                                                         *)
(* Days are numbers and a plan recurs every `gap` days (0: once); the walk *)
(* over months is in Calendar.  A row keeps the plan it was posted from,   *)
(* its day, its amount and, for a transfer, the leg it is linked to.       *)
(***************************************************************************)
EXTENDS Integers, FiniteSets, Sequences, FiniteSetsExt, SequencesExt, Tables

CONSTANTS
    PlanIds,
    Horizon,    \* bound: days there are, 0 .. Horizon
    MaxPosted,  \* bound: rows ever inserted
    Posters     \* sessions that post

ASSUME PlannedAssumption ==
    /\ Horizon \in Nat /\ MaxPosted \in Nat
    /\ 0 \notin PlanIds       \* 0 stands for no plan

VARIABLES
    plan,       \* planned_transactions: id -> [start, gap, active, transfer, amount]
    row,        \* transactions: id -> [plan, day, mate, amount]
    nextRow,
    poster,     \* per session: what it still has to post
    posted,     \* occurrences -> times a row was inserted for it
    freed       \* occurrences -> times its row was deleted or moved away

plannedVars == <<plan, row, nextRow, poster, posted, freed>>

DayRange == 0 .. Horizon
Plan == [start : DayRange, gap : {0, 1}, active : BOOLEAN, transfer : BOOLEAN, amount : {1, 2}]
OnePlan == [start |-> 0, gap |-> 0, active |-> TRUE, transfer |-> FALSE, amount |-> 1]
Quiet == [mode |-> "-", todo |-> <<>>]

PlannedTypeOK ==
    /\ DOMAIN plan \subseteq PlanIds /\ \A p \in DOMAIN plan : plan[p] \in Plan
    /\ DOMAIN row \subseteq 1 .. (nextRow - 1)
    /\ \A r \in DOMAIN row : row[r] \in
         [plan : (DOMAIN plan) \cup {0}, day : DayRange, mate : 0 .. MaxPosted, amount : {1, 2}]
    /\ nextRow \in 1 .. (MaxPosted + 1)
    /\ \A s \in Posters : poster[s].mode \in {"-", "due", "batch"}
                          /\ poster[s].todo \in Seq(PlanIds \X DayRange)

PlannedInit ==
    /\ plan = [p \in PlanIds |-> OnePlan]
    /\ row = <<>> /\ nextRow = 1
    /\ poster = [s \in Posters |-> Quiet]
    /\ posted = [o \in PlanIds \X DayRange |-> 0]
    /\ freed = posted

-----------------------------------------------------------------------------
(* Plans *)

\* create, update, toggle_active
WritePlan(p, new) ==
    /\ p \in DOMAIN plan => plan[p] # new
    /\ plan' = With(plan, p, new)
    /\ UNCHANGED <<row, nextRow, poster, posted, freed>>

\* delete: the rows stay and forget the plan (ON DELETE SET NULL)
DeletePlan(p) ==
    /\ p \in DOMAIN plan
    /\ plan' = Without(plan, {p})
    /\ row' = [r \in DOMAIN row |-> IF row[r].plan = p THEN [row[r] EXCEPT !.plan = 0] ELSE row[r]]
    /\ freed' = [o \in DOMAIN freed |-> IF o[1] = p THEN posted[o] ELSE freed[o]]
    /\ UNCHANGED <<nextRow, poster, posted>>

FallsOn(p, d) ==
    /\ d >= plan[p].start
    /\ IF plan[p].gap = 0 THEN d = plan[p].start ELSE (d - plan[p].start) % plan[p].gap = 0

\* _find_posted, _posted_keys
FindPosted(p, d) == {r \in DOMAIN row : row[r].plan = p /\ row[r].day = d}

DatedBefore(o, q) == o[2] < q[2] \/ (o[2] = q[2] /\ o[1] < q[1])

\* get_occurrences(exclude_posted) of the active plans, in date order
Due(from, to) ==
    SetToSortSeq({o \in (DOMAIN plan) \X (from .. to) :
                    plan[o[1]].active /\ FallsOn(o[1], o[2]) /\ FindPosted(o[1], o[2]) = {}},
                 DatedBefore)

-----------------------------------------------------------------------------
(* Posting *)

\* post_due: the occurrences are read, then posted and committed one by one
PostDueRead(s) ==
    /\ poster[s] = Quiet
    /\ Due(0, Horizon) # <<>>
    /\ poster' = [poster EXCEPT ![s] = [mode |-> "due", todo |-> Due(0, Horizon)]]
    /\ UNCHANGED <<plan, row, nextRow, posted, freed>>

\* The calendar page offers the same occurrences and posts the chosen ones in a
\* batch (post_occurrences)
BatchRead(s) ==
    /\ poster[s] = Quiet
    /\ Due(0, Horizon) # <<>>
    /\ poster' = [poster EXCEPT ![s] = [mode |-> "batch", todo |-> Due(0, Horizon)]]
    /\ UNCHANGED <<plan, row, nextRow, posted, freed>>

\* _ensure_posted once nothing was found: one row, or for a transfer both legs
\* and their links in one savepoint; their ids start at n
Legs(p) == IF plan[p].transfer THEN 2 ELSE 1
LegRows(p, d, n) ==
    [r \in n .. (n + Legs(p) - 1) |->
        [plan |-> IF r = n THEN p ELSE 0, day |-> d, amount |-> plan[p].amount,
         mate |-> IF Legs(p) = 1 THEN 0 ELSE IF r = n THEN n + 1 ELSE n]]
Inserted(p, d) == WithAll(row, LegRows(p, d, nextRow))

\* Mutant of PostNext: what is inserted is not looked up first, and the rows have
\* no unique occurrence.
PostNext_Again(s) ==
    /\ poster[s].mode = "due"
    /\ LET o == Head(poster[s].todo) IN
       /\ o[1] \in DOMAIN plan
       /\ nextRow <= MaxPosted
       /\ row' = Inserted(o[1], o[2])
       /\ nextRow' = nextRow + Legs(o[1])
       /\ posted' = [posted EXCEPT ![o] = @ + 1]
       /\ poster' = [poster EXCEPT ![s] = IF Len(@.todo) = 1 THEN Quiet ELSE [@ EXCEPT !.todo = Tail(@)]]
    /\ UNCHANGED <<plan, freed>>

\* One occurrence of post_due: _ensure_posted and its commit.  The unique key
\* makes the lookup and the insert one step: a session that loses the race finds
\* the row of the other.  A plan deleted meanwhile ends the job with an error,
\* what was posted before it stays.
PostNext(s) ==
    /\ poster[s].mode = "due"
    /\ LET o == Head(poster[s].todo)
           rest == IF Len(poster[s].todo) = 1 THEN Quiet ELSE [poster[s] EXCEPT !.todo = Tail(@)]
       IN IF FindPosted(o[1], o[2]) # {}
          THEN poster' = [poster EXCEPT ![s] = rest] /\ UNCHANGED <<row, nextRow, posted>>
          ELSE IF o[1] \notin DOMAIN plan
          THEN poster' = [poster EXCEPT ![s] = Quiet] /\ UNCHANGED <<row, nextRow, posted>>
          ELSE /\ nextRow + Legs(o[1]) - 1 <= MaxPosted
               /\ row' = Inserted(o[1], o[2])
               /\ nextRow' = nextRow + Legs(o[1])
               /\ posted' = [posted EXCEPT ![o] = @ + 1]
               /\ poster' = [poster EXCEPT ![s] = rest]
    /\ UNCHANGED <<plan, freed>>

\* The ids a batch is given: one after another, in its order
SizeOf(new) == Cardinality(new) + Cardinality({o \in new : Legs(o[1]) = 2})
IdsGiven(new) ==
    {first \in [new -> nextRow .. (nextRow + SizeOf(new) - 1)] :
        /\ \A o \in new : first[o] + Legs(o[1]) <= nextRow + SizeOf(new)
        /\ \A o, q \in new : o # q => IF DatedBefore(o, q) THEN first[o] + Legs(o[1]) <= first[q]
                              ELSE first[q] + Legs(q[1]) <= first[o]}
BatchRows(new, first) ==
    [r \in UNION {first[o] .. (first[o] + Legs(o[1]) - 1) : o \in new} |->
        LET o == CHOOSE o \in new : r \in first[o] .. (first[o] + Legs(o[1]) - 1)
        IN  LegRows(o[1], o[2], first[o])[r]]

\* post_occurrences: all of the batch in one savepoint, or none of it
PostBatch(s) ==
    /\ poster[s].mode = "batch"
    /\ LET new == {o \in ToSet(poster[s].todo) : FindPosted(o[1], o[2]) = {}}
       IN IF \E o \in new : o[1] \notin DOMAIN plan
          THEN UNCHANGED <<row, nextRow, posted>>
          ELSE /\ nextRow' = nextRow + SizeOf(new) /\ nextRow' \in nextRow .. (MaxPosted + 1)
               /\ \E first \in IdsGiven(new) : row' = WithAll(row, BatchRows(new, first))
               /\ posted' = [o \in DOMAIN posted |-> IF o \in new THEN posted[o] + 1 ELSE posted[o]]
    /\ poster' = [poster EXCEPT ![s] = Quiet]
    /\ UNCHANGED <<plan, freed>>

-----------------------------------------------------------------------------
(* What else happens to rows *)

\* A payment arrives by itself
Pay(d, a) ==
    /\ nextRow <= MaxPosted
    /\ row' = With(row, nextRow, [plan |-> 0, day |-> d, mate |-> 0, amount |-> a])
    /\ nextRow' = nextRow + 1
    /\ UNCHANGED <<plan, poster, posted, freed>>

\* link_history: rows before the start, without a plan, one per day
LinkHistory(p, S) ==
    /\ p \in DOMAIN plan /\ S # {} /\ S \subseteq DOMAIN row
    /\ LET free == {r \in S : row[r].plan = 0 /\ row[r].mate = 0 /\ row[r].day < plan[p].start}
           first == {r \in free : \A q \in free : row[q].day = row[r].day => r <= q}
       IN /\ first # {}
          /\ \A r \in first : FindPosted(p, row[r].day) = {}
          /\ row' = [r \in DOMAIN row |-> IF r \in first THEN [row[r] EXCEPT !.plan = p] ELSE row[r]]
    /\ UNCHANGED <<plan, nextRow, poster, posted, freed>>

\* The ledger moves a posted row to another day, or deletes it
MovePosted(r, d) ==
    /\ r \in DOMAIN row /\ row[r].day # d
    /\ row[r].plan # 0 => FindPosted(row[r].plan, d) = {}
    /\ row' = [row EXCEPT ![r].day = d]
    /\ freed' = [o \in DOMAIN freed |-> IF row[r].plan # 0 /\ o = <<row[r].plan, row[r].day>>
                                        THEN posted[o] ELSE freed[o]]
    /\ UNCHANGED <<plan, nextRow, poster, posted>>

DeleteRow(r) ==
    /\ r \in DOMAIN row /\ row[r].mate = 0
    /\ row' = Without(row, {r})
    /\ freed' = [o \in DOMAIN freed |-> IF row[r].plan # 0 /\ o = <<row[r].plan, row[r].day>>
                                        THEN posted[o] ELSE freed[o]]
    /\ UNCHANGED <<plan, nextRow, poster, posted>>

\* PlannedPriceDriftService.detect: the latest payment that is not a posting
\* differs from the plan by more than a twentieth
Payments == {r \in DOMAIN row : row[r].plan = 0 /\ row[r].mate = 0}
Latest == CHOOSE r \in Payments :
             \A q \in Payments : row[q].day < row[r].day \/ (row[q].day = row[r].day /\ q <= r)
Drift(p) ==
    /\ p \in DOMAIN plan /\ plan[p].active /\ ~ plan[p].transfer /\ Payments # {}
    /\ LET gap == row[Latest].amount - plan[p].amount
       IN  20 * (IF gap < 0 THEN - gap ELSE gap) > plan[p].amount

\* accept
AcceptDrift(p, amount) ==
    /\ p \in DOMAIN plan /\ Drift(p) /\ amount = row[Latest].amount
    /\ plan' = [plan EXCEPT ![p].amount = amount]
    /\ UNCHANGED <<row, nextRow, poster, posted, freed>>

PlannedNext ==
    \/ \E p \in PlanIds, new \in Plan : WritePlan(p, new)
    \/ \E p \in PlanIds : DeletePlan(p)
    \/ \E s \in Posters : PostDueRead(s) \/ BatchRead(s) \/ PostNext(s) \/ PostBatch(s)
    \/ \E d \in DayRange, a \in {1, 2} : Pay(d, a)
    \/ \E p \in PlanIds, S \in SUBSET (DOMAIN row) : LinkHistory(p, S)
    \/ \E r \in DOMAIN row, d \in DayRange : MovePosted(r, d)
    \/ \E r \in DOMAIN row : DeleteRow(r)
    \/ \E p \in PlanIds, a \in {1, 2} : AcceptDrift(p, a)

PlannedSpec == PlannedInit /\ [][PlannedNext]_plannedVars

-----------------------------------------------------------------------------
(* Properties *)

\* However two sessions post, and whatever is edited in between, a second row is
\* inserted for an occurrence only after the first was deleted, moved away or
\* let go with its plan (KAL-PLN-017; _ensure_posted).
PostedOnce == \A o \in DOMAIN posted : posted[o] - freed[o] <= 1

\* A posted transfer is whole: both legs are there and each points at the other,
\* also when the posting, the plan and the ledger move at once
\* (_post_transfer_legs).
LegsWhole ==
    \A r \in DOMAIN row : row[r].mate # 0 =>
        row[r].mate \in DOMAIN row /\ row[row[r].mate].mate = r

=============================================================================
