--------------------------- MODULE SecondFactor ---------------------------
(***************************************************************************)
(* One member's second factor: the user_mfa row of MfaService (a local     *)
(* TOTP secret and its recovery codes) and the requests of several tabs    *)
(* and of the administrator at it.  A request reads the row, waits (for a  *)
(* hash computed off the event loop or for the database) and then writes   *)
(* with one conditional statement, whose condition the database decides.   *)
(* A wrong code changes nothing here: the attempts are those that match    *)
(* the row as it was read.  A definition named X_Y, before X, is X with a  *)
(* fault Y that the properties are checked to notice.                      *)
(***************************************************************************)
EXTENDS Naturals, FiniteSets

CONSTANTS Handler,     \* slots for requests in flight
          Code,        \* the places in a set of recovery codes
          Ops,         \* the operations this instance exercises
          MaxStep,     \* bound on the clock, in TOTP steps
          MaxSecret,   \* bound on secrets minted
          MaxSet       \* bound on sets of recovery codes minted

\* STEP_UP_WINDOW_MINUTES in steps of TOTP_INTERVAL seconds, and TOTP_DRIFT_STEPS.
StepUpSteps == 20
Drift == 1

ASSUME FactorBounds == MaxStep \in Nat /\ MaxStep > Drift /\ MaxSecret \in Nat /\ MaxSet \in Nat

VARIABLES row,      \* the user_mfa row
          now,      \* the TOTP step the clock is in
          stamp,    \* the session's mfa_verified_at, 0 when there is none
          task,     \* the request in each slot
          ids,      \* rows inserted so far
          secrets,  \* secrets minted so far
          sets,     \* sets of recovery codes minted so far
          traced,   \* changes of the factor recorded, sessions revoked with them
          proved,   \* history: secrets an authenticator was seen to hold
          uses      \* history: how often each code was accepted

factor == <<row, stamp, ids, secrets, sets, traced, proved, uses>>
vars == <<row, now, stamp, task, ids, secrets, sets, traced, proved, uses>>

-----------------------------------------------------------------------------

Steps == 1 .. MaxStep + Drift
Totp(s, n) == [secret |-> s, step |-> n]
Recovery(g, c) == [set |-> g, code |-> c]
Totps == [secret : 1 .. MaxSecret, step : Steps]
Recoveries == [set : 1 .. MaxSet, code : Code]

\* used is last_used_counter (0 for NULL); set and left are the JSON list of
\* hashes: which set was issued last, and the codes of it not crossed off.
FactorRow ==
  [id : Nat, state : {"none", "pending", "enabled"}, secret : Nat, used : Nat,
   set : Nat, left : SUBSET Code]

NoRow == [id |-> 0, state |-> "none", secret |-> 0, used |-> 0, set |-> 0, left |-> {}]

FactorPcs == {"idle", "begin", "confirm", "claim", "spend", "reissue", "disable",
              "spendlast", "erase", "admin"}

NoProof == Totp(0, 0)
NoRequest == [pc |-> "idle", row |-> NoRow, proof |-> NoProof, fresh |-> 0]

\* A request reads the row, with the code it was given and what it minted.
Run(h, pc, proof, fresh) ==
  task' = [task EXCEPT ![h] = [pc |-> pc, row |-> row, proof |-> proof, fresh |-> fresh]]
Goto(h, pc, proof) ==
  task' = [task EXCEPT ![h] = [pc |-> pc, row |-> @.row, proof |-> proof, fresh |-> 0]]
Done(h) == task' = [task EXCEPT ![h] = NoRequest]

Begin(h, op) == task[h].pc = "idle" /\ op \in Ops

\* The row a request read is still the row there.
Same(r) == row.state # "none" /\ row.id = r.id

Matching_Replay(r) == now - Drift .. now + Drift
\* _matching_counter: a step around now that is past the last one used.
Matching(r) == {n \in now - Drift .. now + Drift : n > r.used}

Accept(p) == uses' = [uses EXCEPT ![p] = @ + 1]

-----------------------------------------------------------------------------
(* Enrolment.                                                               *)

\* begin_enrolment: refused over a confirmed factor ...
BeginRead(h) ==
  /\ Begin(h, "begin")
  /\ row.state # "enabled"
  /\ secrets < MaxSecret
  /\ secrets' = secrets + 1
  /\ Run(h, "begin", NoProof, secrets + 1)
  /\ UNCHANGED <<row, now, stamp, ids, sets, traced, proved, uses>>

\* ... and again by the statement that writes: the unique index for a first
\* row, enabled_at IS NULL for one that is replaced.
MayReplace_Enabled(r) == Same(r)

MayReplace(r) == Same(r) /\ row.state = "pending"

BeginWrite(h) ==
  LET t == task[h]
  IN  /\ t.pc = "begin"
      /\ IF t.row.state = "none" /\ row.state = "none"
         THEN /\ row' = [NoRow EXCEPT !.id = ids + 1, !.state = "pending", !.secret = t.fresh]
              /\ ids' = ids + 1
         ELSE IF t.row.state # "none" /\ MayReplace(t.row)
         THEN /\ row' = [row EXCEPT !.secret = t.fresh, !.used = 0, !.set = 0, !.left = {}]
              /\ UNCHANGED ids
         ELSE UNCHANGED <<row, ids>>
      /\ Done(h)
      /\ UNCHANGED <<now, stamp, secrets, sets, traced, proved, uses>>

\* abandon_enrolment: one conditional DELETE.
Abandon ==
  /\ "abandon" \in Ops
  /\ row.state = "pending"
  /\ row' = NoRow
  /\ UNCHANGED <<now, stamp, task, ids, secrets, sets, traced, proved, uses>>

\* confirm_enrolment: the code is right for the secret as it was read ...
ConfirmRead(h) ==
  /\ Begin(h, "confirm")
  /\ row.state = "pending"
  /\ sets < MaxSet
  /\ sets' = sets + 1
  /\ \E n \in Matching(row) : Run(h, "confirm", Totp(row.secret, n), sets + 1)
  /\ proved' = proved \cup {row.secret}
  /\ UNCHANGED <<row, now, stamp, ids, secrets, traced, uses>>

\* ... and after the ten hashes the row, if still unconfirmed, is enabled;
\* the event and the revocation are in the same transaction.
MayConfirm(r) == Same(r) /\ row.state = "pending"

ConfirmClaim(h) ==
  LET t == task[h]
  IN  /\ t.pc = "confirm"
      /\ IF MayConfirm(t.row)
         THEN /\ row' = [row EXCEPT !.state = "enabled", !.used = t.proof.step,
                                    !.set = t.fresh, !.left = Code]
              /\ traced' = traced + 1
              /\ stamp' = now
              /\ Accept(t.proof)
         ELSE UNCHANGED <<row, traced, stamp, uses>>
      /\ Done(h)
      /\ UNCHANGED <<now, ids, secrets, sets, proved>>

-----------------------------------------------------------------------------
(* Proving the factor: verify_code and verify_challenge with a TOTP code,   *)
(* consume_recovery_code and verify_challenge with a recovery code.         *)

VerifyRead(h) ==
  /\ Begin(h, "verify")
  /\ row.state = "enabled"
  /\ \E n \in Matching(row) : Run(h, "claim", Totp(row.secret, n), 0)
  /\ UNCHANGED <<now, factor>>

\* _claim_counter: the database lets a step be taken once.
MayClaimStep(t) == Same(t.row) /\ row.used < t.proof.step

ClaimStep(h) ==
  LET t == task[h]
  IN  /\ t.pc = "claim"
      /\ IF MayClaimStep(t)
         THEN /\ row' = [row EXCEPT !.used = t.proof.step]
              /\ stamp' = now
              /\ Accept(t.proof)
         ELSE UNCHANGED <<row, stamp, uses>>
      /\ Done(h)
      /\ UNCHANGED <<now, ids, secrets, sets, traced, proved>>

RecoverRead(h) ==
  /\ Begin(h, "recover")
  /\ row.state = "enabled"
  /\ \E c \in row.left : Run(h, "spend", Recovery(row.set, c), 0)
  /\ UNCHANGED <<now, factor>>

\* _remove_recovery_code: against the list as it was read.
Unspent_Any(r) == Same(r)

Unspent(r) == Same(r) /\ row.set = r.set /\ row.left = r.left

CrossOff(t) == row' = [row EXCEPT !.left = t.row.left \ {t.proof.code}, !.set = t.row.set]

SpendCode(h) ==
  LET t == task[h]
  IN  /\ t.pc = "spend"
      /\ IF Unspent(t.row)
         THEN CrossOff(t) /\ stamp' = now /\ Accept(t.proof)
         ELSE UNCHANGED <<row, stamp, uses>>
      /\ Done(h)
      /\ UNCHANGED <<now, ids, secrets, sets, traced, proved>>

-----------------------------------------------------------------------------
(* Management.                                                              *)

\* regenerate_recovery_codes: only with a factor proved recently.
Fresh == stamp # 0 /\ now - stamp <= StepUpSteps

ReissueRead(h) ==
  /\ Begin(h, "reissue")
  /\ row.state = "enabled"
  /\ Fresh
  /\ sets < MaxSet
  /\ sets' = sets + 1
  /\ Run(h, "reissue", NoProof, sets + 1)
  /\ UNCHANGED <<row, now, stamp, ids, secrets, traced, proved, uses>>

Reissue(h) ==
  LET t == task[h]
  IN  /\ t.pc = "reissue"
      /\ IF Unspent(t.row)
         THEN /\ row' = [row EXCEPT !.set = t.fresh, !.left = Code]
              /\ traced' = traced + 1
         ELSE UNCHANGED <<row, traced>>
      /\ Done(h)
      /\ UNCHANGED <<now, stamp, ids, secrets, sets, proved, uses>>

\* disable: the row is read, the password checked, and the code weighed
\* against the row as it was read: a TOTP code, or else a recovery code.
DisableRead(h) ==
  /\ Begin(h, "disable")
  /\ row.state = "enabled"
  /\ Run(h, "disable", NoProof, 0)
  /\ UNCHANGED <<now, factor>>

DisableWeigh(h) ==
  LET r == task[h].row
  IN  /\ task[h].pc = "disable"
      /\ \/ \E n \in Matching(r) : Goto(h, "erase", Totp(r.secret, n))
         \/ \E c \in r.left : Goto(h, "spendlast", Recovery(r.set, c))
         \/ Done(h)
      /\ UNCHANGED <<now, factor>>

DisableSpend(h) ==
  LET t == task[h]
  IN  /\ t.pc = "spendlast"
      /\ IF Unspent(t.row)
         THEN CrossOff(t) /\ Accept(t.proof) /\ Goto(h, "erase", NoProof)
         ELSE UNCHANGED <<row, uses>> /\ Done(h)
      /\ UNCHANGED <<now, stamp, ids, secrets, sets, traced, proved>>

\* The conditional DELETE; a TOTP step that got this far is not claimed.
DisableErase(h) ==
  LET t == task[h]
  IN  /\ t.pc = "erase"
      /\ IF Same(t.row) /\ row.state = "enabled"
         THEN /\ row' = NoRow
              /\ traced' = traced + 1
              /\ IF t.proof \in Totps THEN Accept(t.proof) ELSE UNCHANGED uses
         ELSE UNCHANGED <<row, traced, uses>>
      /\ Done(h)
      /\ UNCHANGED <<now, stamp, ids, secrets, sets, proved>>

\* _disable_without_proof: what is recorded is decided by the row as read,
\* what is deleted by the row as it is.
AdminRead(h) ==
  /\ Begin(h, "admin")
  /\ row.state # "none"
  /\ Run(h, "admin", NoProof, 0)
  /\ UNCHANGED <<now, factor>>

Recorded(r) == IF r.state = "enabled" THEN 1 ELSE 0

AdminErase(h) ==
  /\ task[h].pc = "admin"
  /\ row' = NoRow
  /\ traced' = traced + Recorded(task[h].row)
  /\ Done(h)
  /\ UNCHANGED <<now, stamp, ids, secrets, sets, proved, uses>>

Tick ==
  /\ now < MaxStep
  /\ now' = now + 1
  /\ UNCHANGED <<task, factor>>

-----------------------------------------------------------------------------

Init ==
  /\ row = NoRow
  /\ now = Drift + 1
  /\ stamp = 0
  /\ task = [h \in Handler |-> NoRequest]
  /\ ids = 0 /\ secrets = 0 /\ sets = 0 /\ traced = 0
  /\ proved = {}
  /\ uses = [p \in Totps \cup Recoveries |-> 0]

Arrive(h) ==
  \/ BeginRead(h) \/ ConfirmRead(h) \/ VerifyRead(h) \/ RecoverRead(h)
  \/ ReissueRead(h) \/ DisableRead(h) \/ AdminRead(h)

Step(h) ==
  \/ BeginWrite(h) \/ ConfirmClaim(h) \/ ClaimStep(h) \/ SpendCode(h) \/ Reissue(h)
  \/ DisableWeigh(h) \/ DisableSpend(h) \/ DisableErase(h) \/ AdminErase(h)

Next == (\E h \in Handler : Arrive(h) \/ Step(h)) \/ Abandon \/ Tick

Spec == Init /\ [][Next]_vars

-----------------------------------------------------------------------------
(* Properties.                                                              *)

FactorRequest ==
  [pc : FactorPcs, row : FactorRow, proof : Totps \cup Recoveries \cup {NoProof}, fresh : Nat]

Hashing == {"confirm", "reissue"}

\* A row as it may be stored or have been read.
Typed(r) ==
  /\ r \in FactorRow
  /\ r.state = "none" => r = NoRow
  /\ r.state # "none" => r.secret \in 1 .. MaxSecret
  /\ r.left # {} => r.set \in 1 .. MaxSet

TypedRequest(t) ==
  /\ t \in FactorRequest
  /\ Typed(t.row)
  /\ t.pc = "begin" => t.fresh \in 1 .. MaxSecret
  /\ t.pc \in Hashing => t.fresh \in 1 .. MaxSet
  /\ t.pc \in {"confirm", "claim"} => t.proof \in Totps
  /\ t.pc \in {"spend", "spendlast"} => t.proof \in Recoveries
  /\ t.pc = "disable" => t.row.state = "enabled"

\* The values every variable may take; no row keeps no secret, and a request
\* holds the kind of code its next statement spends.
TypeOK ==
  /\ Typed(row)
  /\ now \in Drift + 1 .. MaxStep
  /\ stamp \in 0 .. now
  /\ task \in [Handler -> FactorRequest]
  /\ \A h \in Handler : TypedRequest(task[h])
  /\ ids \in Nat /\ secrets \in 0 .. MaxSecret /\ sets \in 0 .. MaxSet /\ traced \in Nat
  /\ proved \subseteq 1 .. MaxSecret
  /\ uses \in [Totps \cup Recoveries -> Nat]

\* "A code works once": however many tabs present it, a TOTP step is accepted
\* once and a recovery code is accepted once.
CodesWorkOnce == \A p \in Totps \cup Recoveries : uses[p] <= 1

\* Why, as an induction, while nobody disables the factor.  A secret and a set
\* of codes not yet in the row are new to everybody; ...
NewSecret(h) ==
  task[h].pc = "begin" =>
    /\ task[h].fresh \in 1 .. secrets
    /\ task[h].fresh # row.secret
    /\ \A p \in Totps : p.secret = task[h].fresh => uses[p] = 0
    /\ \A k \in Handler : /\ task[k].row.secret # task[h].fresh
                          /\ k # h /\ task[k].pc = "begin" => task[k].fresh # task[h].fresh

NewSet(h) ==
  task[h].pc \in Hashing =>
    /\ task[h].fresh \in 1 .. sets
    /\ task[h].fresh # row.set
    /\ \A p \in Recoveries : p.set = task[h].fresh => uses[p] = 0
    /\ \A k \in Handler : /\ task[k].row.set # task[h].fresh
                          /\ k # h /\ task[k].pc \in Hashing => task[k].fresh # task[h].fresh

\* ... what the row still lets in was never accepted; ...
RowUnspent ==
  /\ row.state = "pending" => row.used = 0
  /\ row.id <= ids /\ row.secret <= secrets /\ row.set <= sets
  /\ \A p \in Totps : p.secret > secrets \/ (p.secret = row.secret /\ p.step > row.used)
                        => uses[p] = 0
  /\ \A p \in Recoveries : p.set > sets \/ (p.set = row.set /\ p.code \in row.left)
                             => uses[p] = 0

\* ... an enabled row keeps its secret for as long as it keeps its id; ...
ReadStands(h) ==
  LET r == task[h].row
  IN  /\ r.id <= ids /\ r.secret <= secrets /\ r.set <= sets
      /\ r.state = "enabled" /\ Same(r) => row.state = "enabled" /\ row.secret = r.secret

\* ... and a code in hand is one of the row that was read, unused if it is to
\* confirm it.
ProofFits(h) ==
  LET t == task[h]
  IN  /\ t.pc \in {"idle", "begin", "confirm", "claim", "spend", "reissue", "admin"}
      /\ t.pc = "confirm" =>
           /\ t.proof \in Totps /\ t.proof.secret = t.row.secret
           /\ Same(t.row) /\ row.state = "pending" =>
                \A p \in Totps : p.secret = t.row.secret => uses[p] = 0
      /\ t.pc = "claim" =>
           t.proof \in Totps /\ t.proof.secret = t.row.secret /\ t.row.state = "enabled"
      /\ t.pc = "spend" =>
           t.proof \in Recoveries /\ t.proof.set = t.row.set /\ t.proof.code \in t.row.left

CodesInv ==
  /\ RowUnspent
  /\ \A h \in Handler : NewSecret(h) /\ NewSet(h) /\ ReadStands(h) /\ ProofFits(h)
  /\ CodesWorkOnce

\* "A secret is not a second factor until the user has proved the
\* authenticator holds it."
EnabledSecretProved == row.state = "enabled" => row.secret \in proved

\* A factor that is on has recovery codes: a setup started over in another tab
\* never empties the row a confirmation has just enabled (begin_enrolment).
EnabledHasCodes == row.state = "enabled" => row.set # 0

\* Codes shown to the user stop working only at a request that saw them: two
\* tabs never each show ten codes of which only one set works.
ReplacedCodesWereSeen ==
  [][row.state = "enabled" /\ row'.state = "enabled" /\ row'.set # row.set =>
       \E h \in Handler : task[h].row.set = row.set /\ task[h].row.left = row.left]_vars

\* Switching a factor on or off, or reissuing its codes, is recorded and ends
\* the member's sessions in the same transaction.
ChangesLeaveTrace ==
  [][(\/ row'.state # row.state /\ "enabled" \in {row.state, row'.state}
      \/ row.state = "enabled" /\ row'.state = "enabled" /\ row'.set # row.set)
     => traced' = traced + 1]_vars

=============================================================================
