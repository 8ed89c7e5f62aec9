------------------------------- MODULE HostedFactor -------------------------------
(***************************************************************************)
(* A second factor kept by the hosted sign-in service                      *)
(* (services/hosted_mfa_service.py, auth/providers/supabase.py): the       *)
(* service holds the factors and asks for a code; this side holds one row  *)
(* with the recovery codes.  One member, several tabs.  Every call of the  *)
(* service is an await, so tabs interleave between the call and the row.   *)
(* A call may fail, and so may the commit after it: `faulty` remembers     *)
(* that something did.                                                     *)
(***************************************************************************)
EXTENDS Integers, FiniteSets

CONSTANTS
    Tabs,
    MaxFactor,  \* bound: factors ever enrolled at the service
    Faults      \* whether calls and commits may fail

ASSUME HostedAssumption == MaxFactor \in Nat /\ Faults \in BOOLEAN

VARIABLES
    factors,    \* the service's factors: unverified or verified
    made,       \* factors ever enrolled
    row,        \* user_mfa of the member: the factor and the set of codes
    step,       \* per tab: what it is doing
    spent,      \* sets of recovery codes a recovery succeeded with
    faulty

hostedVars == <<factors, made, row, step, spent, faulty>>

FactorIds == 1 .. MaxFactor
NoRow == [there |-> FALSE, enabled |-> FALSE, codes |-> 0]
Waiting == [at |-> "-", factor |-> 0, codes |-> 0]

HostedTypeOK ==
    /\ factors \in [1 .. made -> {"unverified", "verified", "gone"}]
    /\ made \in 0 .. MaxFactor
    /\ row \in [there : BOOLEAN, enabled : BOOLEAN, codes : 0 .. MaxFactor]
    /\ step \in [Tabs -> [at : {"-", "enrol", "offered", "proved", "recover", "unenrolled", "disable", "lifted"},
                          factor : 0 .. MaxFactor, codes : 0 .. MaxFactor]]
    /\ spent \in [FactorIds -> 0 .. Cardinality(Tabs)]
    /\ faulty \in BOOLEAN

HostedInit ==
    /\ factors = <<>> /\ made = 0
    /\ row = NoRow
    /\ step = [t \in Tabs |-> Waiting]
    /\ spent = [f \in FactorIds |-> 0]
    /\ faulty = FALSE

\* SupabaseAuthProvider._second_factor: any verified factor is asked for
Verified == {f \in DOMAIN factors : factors[f] = "verified"}

Rest(t) == step' = [step EXCEPT ![t] = Waiting]

\* HostedMfaService.begin_hosted_enrolment up to its sign-in
EnrolStart(t) ==
    /\ step[t] = Waiting /\ ~ row.enabled
    /\ step' = [step EXCEPT ![t].at = "enrol"]
    /\ UNCHANGED <<factors, made, row, spent, faulty>>

\* gateway.sign_in and mfa_enrol: refused when the service asks for a code
EnrolOffer(t) ==
    /\ step[t].at = "enrol"
    /\ IF Verified # {} \/ made = MaxFactor
       THEN Rest(t) /\ UNCHANGED <<factors, made>>
       ELSE /\ made' = made + 1
            /\ factors' = [f \in 1 .. (made + 1) |-> IF f = made + 1 THEN "unverified" ELSE factors[f]]
            /\ step' = [step EXCEPT ![t] = [at |-> "offered", factor |-> made + 1, codes |-> 0]]
    /\ UNCHANGED <<row, spent, faulty>>

\* SupabaseAuthProvider.mfa_unenrol; a factor that is gone is no error
Unenrolled(f) == [factors EXCEPT ![f] = "gone"]

\* abandon_hosted_enrolment: the unverified factor goes, when the service answers
Abandon(t, ok) ==
    /\ step[t].at = "offered"
    /\ ok \/ Faults
    /\ factors' = IF ok THEN Unenrolled(step[t].factor) ELSE factors
    /\ faulty' = (faulty \/ ~ ok)
    /\ Rest(t)
    /\ UNCHANGED <<made, row, spent>>

\* confirm_hosted_enrolment: mfa_challenge_verify accepts the code
Confirm(t) ==
    /\ step[t].at = "offered"
    /\ factors[step[t].factor] # "gone"
    /\ factors' = [factors EXCEPT ![step[t].factor] = "verified"]
    /\ step' = [step EXCEPT ![t].at = "proved"]
    /\ UNCHANGED <<made, row, spent, faulty>>

\* The claim of the row: an insert, or an update of a row that is not enabled.
\* A tab that lost takes its factor back.  The commit may fail (ok).
ConfirmCommit(t, ok) ==
    /\ step[t].at = "proved"
    /\ ok \/ Faults
    /\ CASE ~ row.enabled /\ ok ->
              /\ row' = [there |-> TRUE, enabled |-> TRUE, codes |-> step[t].factor]
              /\ UNCHANGED factors
         [] row.enabled /\ ok ->
              /\ factors' = Unenrolled(step[t].factor)
              /\ UNCHANGED row
         [] OTHER -> UNCHANGED <<row, factors>>
    /\ faulty' = (faulty \/ ~ ok)
    /\ Rest(t)
    /\ UNCHANGED <<made, spent>>

\* recover: a code of the present set was found; the factor the sign-in was
\* asked for is taken off before the row is claimed
RecoverStart(t) ==
    /\ step[t] = Waiting /\ row.enabled
    /\ \E f \in Verified :
         step' = [step EXCEPT ![t] = [at |-> "recover", factor |-> f, codes |-> row.codes]]
    /\ UNCHANGED <<factors, made, row, spent, faulty>>

RecoverUnenrol(t, ok) ==
    /\ step[t].at = "recover"
    /\ ok \/ Faults
    /\ factors' = IF ok THEN Unenrolled(step[t].factor) ELSE factors
    /\ step' = [step EXCEPT ![t] = IF ok THEN [@ EXCEPT !.at = "unenrolled"] ELSE Waiting]
    /\ faulty' = (faulty \/ ~ ok)
    /\ UNCHANGED <<made, row, spent>>

\* Mutant of RecoverClaim: the row is cleared whatever codes it holds now.
RecoverClaim_Unchecked(t, ok) ==
    /\ step[t].at = "unenrolled"
    /\ ok
    /\ row' = [row EXCEPT !.enabled = FALSE, !.codes = 0]
    /\ spent' = [spent EXCEPT ![step[t].codes] = @ + 1]
    /\ Rest(t)
    /\ UNCHANGED <<factors, made, faulty>>

\* The claim names the set the code was found in; a loser is refused
RecoverClaim(t, ok) ==
    LET won == row.enabled /\ row.codes = step[t].codes IN
    /\ step[t].at = "unenrolled"
    /\ ok \/ Faults
    /\ IF won /\ ok
       THEN /\ row' = [row EXCEPT !.enabled = FALSE, !.codes = 0]
            /\ spent' = [spent EXCEPT ![step[t].codes] = @ + 1]
       ELSE UNCHANGED <<row, spent>>
    /\ faulty' = (faulty \/ ~ ok)
    /\ Rest(t)
    /\ UNCHANGED <<factors, made>>

\* disable_hosted: the password, and a code of the factor the service asks for,
\* when it asks for one
DisableStart(t) ==
    /\ step[t] = Waiting /\ row.enabled
    /\ IF Verified = {} THEN step' = [step EXCEPT ![t].at = "lifted"]
       ELSE \E f \in Verified : step' = [step EXCEPT ![t].at = "disable", ![t].factor = f]
    /\ UNCHANGED <<factors, made, row, spent, faulty>>

\* That factor is taken off at the service ...
DisableUnenrol(t, ok) ==
    /\ step[t].at = "disable"
    /\ ok \/ Faults
    /\ factors' = IF ok THEN Unenrolled(step[t].factor) ELSE factors
    /\ step' = [step EXCEPT ![t] = IF ok THEN [Waiting EXCEPT !.at = "lifted"] ELSE Waiting]
    /\ faulty' = (faulty \/ ~ ok)
    /\ UNCHANGED <<made, row, spent>>

\* ... and then the row is deleted, whichever factor it is for by now
Disable(t, ok) ==
    /\ step[t].at = "lifted"
    /\ ok \/ Faults
    /\ row' = IF ok /\ row.enabled THEN NoRow ELSE row
    /\ faulty' = (faulty \/ ~ ok)
    /\ Rest(t)
    /\ UNCHANGED <<factors, made, spent>>

HostedNext ==
    \/ \E t \in Tabs : EnrolStart(t) \/ EnrolOffer(t) \/ Confirm(t) \/ RecoverStart(t) \/ DisableStart(t)
    \/ \E t \in Tabs, ok \in BOOLEAN :
         Abandon(t, ok) \/ ConfirmCommit(t, ok) \/ RecoverUnenrol(t, ok) \/ RecoverClaim(t, ok)
         \/ DisableUnenrol(t, ok) \/ Disable(t, ok)

HostedSpec == HostedInit /\ [][HostedNext]_hostedVars
-----------------------------------------------------------------------------
\* However the tabs interleave, when no call failed and no tab is at work, a
\* row that is on has a factor the service asks for: nobody is left with the
\* second factor shown as on and a sign-in that does not ask for it
\* (confirm_hosted_enrolment, recover, disable_hosted).
OnHereMeansOnThere ==
    ~ faulty /\ (\A t \in Tabs : step[t] = Waiting) /\ row.enabled => Verified # {}

\* The other direction, which two enrolments overlapping a disable break: a
\* factor the service asks for has its recovery codes here.
OnThereMeansOnHere ==
    ~ faulty /\ (\A t \in Tabs : step[t] = Waiting) /\ Verified # {} => row.enabled

\* A set of recovery codes lets one recovery succeed, also when two tabs give
\* codes of it at once and calls fail in between (HostedMfaService.recover).
RecoveredOnce == \A f \in FactorIds : spent[f] <= 1
=============================================================================
