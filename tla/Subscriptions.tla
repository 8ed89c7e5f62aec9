------------------------------- MODULE Subscriptions ------------------------------
(***************************************************************************)
(* One subscription and the daily settlement job                           *)
(* (services/subscription_service.py,                                      *)
(* services/subscription_settlement_scheduler.py).                         *)
(*                                                                         *)
(* Every operation loads the row, changes attributes and commits; the      *)
(* commit writes the attributes that differ from what was loaded, and an   *)
(* await lies between.  Days are counted by `day`; 0 stands for no date.   *)
(***************************************************************************)
EXTENDS Integers, FiniteSets

CONSTANTS
    LastDay,    \* bound: the last day of a behaviour
    Cadence,    \* cadence_days
    Desks,      \* sessions of members; the job has one of its own
    MaxFails    \* bound: nights on which the job fails

ASSUME SubscriptionAssumption == LastDay \in Nat /\ Cadence \in Nat \ {0} /\ MaxFails \in Nat

VARIABLES
    sub,        \* [status, next, muted, cancelled]
    day,
    desk,       \* per member's session: the row it loaded and what it will be
    job,        \* the settlement job: the same, and whether it ran today
    fails

subVars == <<sub, day, desk, job, fails>>

Dates == 0 .. (LastDay + 2 * Cadence)
Sub == [status : {"active", "muted", "cancelled"}, next : Dates, muted : Dates, cancelled : Dates]
Free == [at |-> "-", read |-> [status |-> "active", next |-> 0, muted |-> 0, cancelled |-> 0],
         new |-> [status |-> "active", next |-> 0, muted |-> 0, cancelled |-> 0]]

SubTypeOK ==
    /\ sub \in Sub
    /\ day \in 1 .. LastDay
    /\ \A d \in Desks : desk[d].read \in Sub /\ desk[d].new \in Sub
    /\ job.new \in Sub
    /\ fails \in 0 .. MaxFails

\* _project_next_expected: from the first charge (day 1) on, the first later than today
NextExpected == 1 + Cadence * (((day - 1) \div Cadence) + 1)

\* create: active, with the next charge projected
SubInit ==
    /\ day = 1
    /\ sub = [status |-> "active", next |-> 1 + Cadence, muted |-> 0, cancelled |-> 0]
    /\ desk = [d \in Desks |-> Free]
    /\ job = Free
    /\ fails = 0

\* _mark_cancelled
MarkCancelled(s) == [s EXCEPT !.status = "cancelled", !.next = 0]

\* What is committed: the attributes that were changed
Flushed(now, read, new) ==
    [status |-> IF new.status # read.status THEN new.status ELSE now.status,
     next |-> IF new.next # read.next THEN new.next ELSE now.next,
     muted |-> IF new.muted # read.muted THEN new.muted ELSE now.muted,
     cancelled |-> IF new.cancelled # read.cancelled THEN new.cancelled ELSE now.cancelled]

Load(d, op, new) ==
    /\ desk[d] = Free
    /\ desk' = [desk EXCEPT ![d] = [at |-> op, read |-> sub, new |-> new]]
    /\ UNCHANGED <<sub, day, job, fails>>

\* cancel: at once, or on a later day
Cancel(d, effective) ==
    LET noted == [sub EXCEPT !.cancelled = effective]
    IN  Load(d, "cancel", IF effective <= day THEN MarkCancelled(noted) ELSE noted)

\* mute_one_cycle
Mute(d) == Load(d, "mute", [sub EXCEPT !.status = "muted", !.muted = day + Cadence])

\* reactivate
Reactivate(d) ==
    Load(d, "reactivate", [status |-> "active", next |-> NextExpected, muted |-> 0, cancelled |-> 0])

Commit(d) ==
    /\ desk[d].at # "-"
    /\ sub' = Flushed(sub, desk[d].read, desk[d].new)
    /\ desk' = [desk EXCEPT ![d] = Free]
    /\ UNCHANGED <<day, job, fails>>

-----------------------------------------------------------------------------
(* The job *)

\* Mutant of DueForSettlement: the day itself is left for later.
DueForSettlement_Late(s, today) == s.status # "cancelled" /\ s.cancelled # 0 /\ s.cancelled < today - 1

\* The query of settle_due_cancellations
DueForSettlement(s, today) == s.status # "cancelled" /\ s.cancelled # 0 /\ s.cancelled <= today

\* _settle_once loads what is due; it fails on some nights, and only logs it
SettleRead ==
    /\ job.at = "-"
    /\ job' = IF DueForSettlement(sub, day)
              THEN [at |-> "settle", read |-> sub, new |-> MarkCancelled(sub)]
              ELSE [Free EXCEPT !.at = "slept"]
    /\ UNCHANGED <<sub, day, desk, fails>>

SettleFails ==
    /\ job.at \in {"-", "settle"} /\ fails < MaxFails
    /\ job' = [Free EXCEPT !.at = "slept"]
    /\ fails' = fails + 1
    /\ UNCHANGED <<sub, day, desk>>

SettleCommit ==
    /\ job.at = "settle"
    /\ sub' = Flushed(sub, job.read, job.new)
    /\ job' = [Free EXCEPT !.at = "slept"]
    /\ UNCHANGED <<day, desk, fails>>

\* A day passes; the loop runs again.  The last day repeats, so that the job
\* keeps running at the bound.
Tomorrow ==
    /\ job.at = "slept"
    /\ day' = IF day < LastDay THEN day + 1 ELSE day
    /\ job' = Free
    /\ UNCHANGED <<sub, desk, fails>>

SubNext ==
    \/ \E d \in Desks, e \in {day, day + 1} : Cancel(d, e)
    \/ \E d \in Desks : Mute(d) \/ Reactivate(d) \/ Commit(d)
    \/ SettleRead \/ SettleFails \/ SettleCommit \/ Tomorrow

\* The event loop runs the job's task and every coroutine that is waiting.
SubFairness ==
    /\ WF_subVars(SettleRead) /\ WF_subVars(SettleCommit) /\ WF_subVars(Tomorrow)
    /\ \A d \in Desks : WF_subVars(Commit(d))

SubSpec == SubInit /\ [][SubNext]_subVars
FairSubSpec == SubSpec /\ SubFairness

-----------------------------------------------------------------------------
(* Properties *)

\* A cancellation for a day is carried out once that day has come, although the
\* job fails on some nights, unless a member takes it back, moves it or mutes
\* and cancels again (settle_due_cancellations, the daily loop).
CancellationSettles ==
    (sub.status # "cancelled" /\ sub.cancelled # 0 /\ sub.cancelled <= day)
        ~> (sub.status = "cancelled" \/ sub.cancelled = 0 \/ sub.cancelled > day)

\* "Muted for one cycle." (the notice after mute_one_cycle): after the cycle the
\* subscription is no longer muted.  Nothing in the program lifts it.
MuteEnds == (sub.status = "muted" /\ sub.muted <= day) ~> sub.status # "muted"

\* A member who takes a cancellation back has it back: the job does not cancel
\* what has no cancellation any more.
ReactivatedStays == sub.status = "cancelled" => sub.cancelled # 0

=============================================================================
