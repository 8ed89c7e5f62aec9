------------------------- MODULE SecondFactorProofs -------------------------
(***************************************************************************)
(* Proofs about SecondFactor, for any number of tabs, codes and steps: the *)
(* types, and that a code works once as long as nobody turns the factor    *)
(* off with it (disable weighs a TOTP code without claiming its step).     *)
(***************************************************************************)
EXTENDS SecondFactor, TLAPS

-----------------------------------------------------------------------------
(* Types.                                                                   *)

\* An idle slot is a well-typed request.
LEMMA IdleTyped == TypedRequest(NoRequest)
BY DEF TypedRequest, NoRequest, NoRow, NoProof, Totp, Typed, FactorRow, FactorRequest, FactorPcs, Hashing

\* A table with one request replaced by a well-typed one is well typed.
LEMMA TableTyped ==
  ASSUME TypeOK, NEW h \in Handler, NEW t, TypedRequest(t),
         task' = [task EXCEPT ![h] = t]
  PROVE  /\ task' \in [Handler -> FactorRequest]
         /\ \A k \in Handler : TypedRequest(task'[k])
BY DEF TypeOK, TypedRequest

\* A request that ends leaves a well-typed table.
LEMMA DoneTyped ==
  ASSUME TypeOK, NEW h \in Handler, Done(h)
  PROVE  /\ task' \in [Handler -> FactorRequest]
         /\ \A k \in Handler : TypedRequest(task'[k])
BY IdleTyped, TableTyped DEF Done

\* The records that stand for codes.
LEMMA CodeKinds ==
  /\ Totps \cap Recoveries = {}
  /\ NoProof \notin Totps \cup Recoveries
BY FactorBounds DEF Totps, Recoveries, NoProof, Totp

\* A step found by _matching_counter makes a code of the row's secret.
LEMMA MatchTyped ==
  ASSUME TypeOK, NEW r, Typed(r), r.state # "none", NEW n \in Matching(r)
  PROVE  Totp(r.secret, n) \in Totps
BY FactorBounds DEF TypeOK, Typed, FactorRow, Matching, Totp, Totps, Steps, Drift

\* Accepting a code keeps the table of uses.
LEMMA AcceptTyped ==
  ASSUME TypeOK, NEW p \in Totps \cup Recoveries, Accept(p)
  PROVE  /\ uses' \in [Totps \cup Recoveries -> Nat]
         /\ uses'[p] = uses[p] + 1
         /\ \A q \in Totps \cup Recoveries : q # p => uses'[q] = uses[q]
BY DEF TypeOK, Accept

\* So does one that begins with a code, and a number, of its kind.
LEMMA RunTyped ==
  ASSUME TypeOK, NEW h \in Handler, NEW pc \in FactorPcs, NEW proof, NEW fresh \in Nat,
         Run(h, pc, proof, fresh), proof \in Totps \cup Recoveries \cup {NoProof},
         pc = "begin" => fresh \in 1 .. MaxSecret,
         pc \in Hashing => fresh \in 1 .. MaxSet,
         pc \in {"confirm", "claim"} => proof \in Totps,
         pc \in {"spend", "spendlast"} => proof \in Recoveries,
         pc = "disable" => row.state = "enabled"
  PROVE  /\ task' \in [Handler -> FactorRequest]
         /\ \A k \in Handler : TypedRequest(task'[k])
<1> DEFINE t == [pc |-> pc, row |-> row, proof |-> proof, fresh |-> fresh]
<1>1. t \in FactorRequest
  BY DEF TypeOK, Typed, FactorRequest
<1>2. TypedRequest(t)
  BY <1>1 DEF TypeOK, TypedRequest
<1> QED BY <1>2, TableTyped DEF Run

-----------------------------------------------------------------------------

\* Every request begins well typed.
LEMMA ArriveTyped ==
  ASSUME TypeOK, NEW h \in Handler, Arrive(h)
  PROVE  TypeOK'
<1> USE FactorBounds
<1>1. CASE BeginRead(h)
  <2>1. NoProof \in {NoProof} /\ secrets + 1 \in 1 .. MaxSecret
    BY <1>1 DEF BeginRead, TypeOK
  <2>2. task' \in [Handler -> FactorRequest] /\ \A k \in Handler : TypedRequest(task'[k])
    BY <1>1, <2>1, RunTyped DEF BeginRead, FactorPcs, Hashing
  <2> QED BY <1>1, <2>1, <2>2 DEF BeginRead, TypeOK
<1>2. CASE ConfirmRead(h)
  <2>1. PICK n \in Matching(row) : Run(h, "confirm", Totp(row.secret, n), sets + 1)
    BY <1>2 DEF ConfirmRead
  <2>2. Totp(row.secret, n) \in Totps /\ sets + 1 \in 1 .. MaxSet /\ row.secret \in 1 .. MaxSecret
    BY <1>2, MatchTyped DEF ConfirmRead, TypeOK, Typed
  <2>3. task' \in [Handler -> FactorRequest] /\ \A k \in Handler : TypedRequest(task'[k])
    BY <2>1, <2>2, RunTyped DEF FactorPcs, Hashing
  <2>4. proved' \subseteq 1 .. MaxSecret
    <3>1. proved \subseteq 1 .. MaxSecret
      BY DEF TypeOK
    <3>2. proved' = proved \cup {row.secret}
      BY <1>2 DEF ConfirmRead
    <3> QED BY <2>2, <3>1, <3>2
  <2>5. sets' \in 0 .. MaxSet
    BY <1>2, <2>2 DEF ConfirmRead
  <2> QED BY <1>2, <2>3, <2>4, <2>5 DEF ConfirmRead, TypeOK
<1>3. CASE VerifyRead(h)
  <2>1. PICK n \in Matching(row) : Run(h, "claim", Totp(row.secret, n), 0)
    BY <1>3 DEF VerifyRead
  <2>2. Totp(row.secret, n) \in Totps
    BY <1>3, MatchTyped DEF VerifyRead, TypeOK
  <2>3. task' \in [Handler -> FactorRequest] /\ \A k \in Handler : TypedRequest(task'[k])
    BY <2>1, <2>2, RunTyped DEF FactorPcs, Hashing
  <2> QED BY <1>3, <2>3 DEF VerifyRead, TypeOK, factor
<1>4. CASE RecoverRead(h)
  <2>1. PICK c \in row.left : Run(h, "spend", Recovery(row.set, c), 0)
    BY <1>4 DEF RecoverRead
  <2>2. Recovery(row.set, c) \in Recoveries
    BY <2>1 DEF TypeOK, Typed, FactorRow, Recovery, Recoveries
  <2>3. task' \in [Handler -> FactorRequest] /\ \A k \in Handler : TypedRequest(task'[k])
    BY <2>1, <2>2, RunTyped DEF FactorPcs, Hashing
  <2> QED BY <1>4, <2>3 DEF RecoverRead, TypeOK, factor
<1>5. CASE ReissueRead(h)
  <2>1. NoProof \in {NoProof} /\ sets + 1 \in 1 .. MaxSet
    BY <1>5 DEF ReissueRead, TypeOK
  <2>2. task' \in [Handler -> FactorRequest] /\ \A k \in Handler : TypedRequest(task'[k])
    BY <1>5, <2>1, RunTyped DEF ReissueRead, FactorPcs, Hashing
  <2> QED BY <1>5, <2>1, <2>2 DEF ReissueRead, TypeOK
<1>6. CASE DisableRead(h) \/ AdminRead(h)
  <2>1. NoProof \in {NoProof}
    OBVIOUS
  <2>2. task' \in [Handler -> FactorRequest] /\ \A k \in Handler : TypedRequest(task'[k])
    BY <1>6, <2>1, RunTyped DEF DisableRead, AdminRead, FactorPcs, Hashing
  <2> QED BY <1>6, <2>2 DEF DisableRead, AdminRead, TypeOK, factor
<1> QED BY <1>1, <1>2, <1>3, <1>4, <1>5, <1>6 DEF Arrive

\* Every later step of a request keeps the types.
LEMMA StepTyped ==
  ASSUME TypeOK, NEW h \in Handler, Step(h)
  PROVE  TypeOK'
<1> USE FactorBounds
<1>0. TypedRequest(task[h]) /\ Typed(row)
  BY DEF TypeOK
<1>1. CASE BeginWrite(h)
  <2>1. task' \in [Handler -> FactorRequest] /\ \A k \in Handler : TypedRequest(task'[k])
    BY <1>1, DoneTyped DEF BeginWrite
  <2>2. task[h].fresh \in 1 .. MaxSecret
    BY <1>0, <1>1 DEF BeginWrite, TypedRequest
  <2>3. ASSUME row' = [NoRow EXCEPT !.id = ids + 1, !.state = "pending", !.secret = task[h].fresh]
        PROVE  Typed(row')
    <3>1. row' = [id |-> ids + 1, state |-> "pending", secret |-> task[h].fresh, used |-> 0,
                  set |-> 0, left |-> {}]
      BY <2>3 DEF NoRow
    <3>2. row' \in FactorRow
      BY <2>2, <3>1 DEF FactorRow, TypeOK
    <3> QED BY <2>2, <3>1, <3>2 DEF Typed
  <2>4. ASSUME row.state = "pending",
               row' = [row EXCEPT !.secret = task[h].fresh, !.used = 0, !.set = 0, !.left = {}]
        PROVE  Typed(row')
    <3>1. row \in FactorRow
      BY <1>0 DEF Typed
    <3>2. row' \in FactorRow
      <4>1. row' = [id |-> row.id, state |-> row.state, secret |-> task[h].fresh, used |-> 0,
                    set |-> 0, left |-> {}]
        BY <2>4, <3>1 DEF FactorRow
      <4> QED BY <2>2, <3>1, <4>1 DEF FactorRow
    <3>3. row'.state = "pending" /\ row'.secret = task[h].fresh /\ row'.left = {}
      BY <2>4, <3>1 DEF FactorRow
    <3> QED BY <2>2, <3>2, <3>3 DEF Typed
  <2>5. Typed(row') /\ ids' \in Nat
    BY <1>0, <1>1, <2>3, <2>4 DEF BeginWrite, MayReplace, TypeOK
  <2> QED BY <1>1, <2>1, <2>5 DEF BeginWrite, TypeOK
<1>2. CASE ConfirmClaim(h)
  <2>1. task' \in [Handler -> FactorRequest] /\ \A k \in Handler : TypedRequest(task'[k])
    BY <1>2, DoneTyped DEF ConfirmClaim
  <2>2. Typed(row')
    <3>1. task[h].proof.step \in Nat /\ task[h].fresh \in 1 .. MaxSet
      BY <1>0, <1>2 DEF ConfirmClaim, TypedRequest, Hashing, Totps, Steps, Drift
    <3>2. CASE /\ row.state = "pending"
               /\ row' = [row EXCEPT !.state = "enabled", !.used = task[h].proof.step,
                                     !.set = task[h].fresh, !.left = Code]
      <4>1. row \in FactorRow /\ row.secret \in 1 .. MaxSecret
        BY <1>0, <3>2 DEF Typed
      <4>2. row' \in FactorRow
        <5>1. row' = [id |-> row.id, state |-> "enabled", secret |-> row.secret,
                      used |-> task[h].proof.step, set |-> task[h].fresh, left |-> Code]
          BY <3>2, <4>1 DEF FactorRow
        <5> QED BY <3>1, <4>1, <5>1 DEF FactorRow
      <4>3. row'.state = "enabled" /\ row'.secret = row.secret /\ row'.set = task[h].fresh
        BY <3>2, <4>1 DEF FactorRow
      <4> QED BY <3>1, <4>1, <4>2, <4>3 DEF Typed
    <3> QED BY <1>0, <1>2, <3>2 DEF ConfirmClaim, MayConfirm
  <2>3. uses' \in [Totps \cup Recoveries -> Nat]
    BY <1>0, <1>2, AcceptTyped DEF ConfirmClaim, TypedRequest, TypeOK
  <2> QED BY <1>2, <2>1, <2>2, <2>3 DEF ConfirmClaim, TypeOK, Drift
<1>3. CASE ClaimStep(h)
  <2>1. task' \in [Handler -> FactorRequest] /\ \A k \in Handler : TypedRequest(task'[k])
    BY <1>3, DoneTyped DEF ClaimStep
  <2>2. Typed(row')
    BY <1>0, <1>3 DEF ClaimStep, TypedRequest, FactorRequest, Typed, FactorRow, Same,
                      MayClaimStep, Totps, Steps, Drift
  <2>3. uses' \in [Totps \cup Recoveries -> Nat]
    BY <1>0, <1>3, AcceptTyped DEF ClaimStep, TypedRequest, TypeOK
  <2> QED BY <1>3, <2>1, <2>2, <2>3 DEF ClaimStep, TypeOK, Drift
<1>4. CASE SpendCode(h)
  <2>1. task' \in [Handler -> FactorRequest] /\ \A k \in Handler : TypedRequest(task'[k])
    BY <1>4, DoneTyped DEF SpendCode
  <2>2. Typed(row')
    <3>1. CASE Unspent(task[h].row) /\ CrossOff(task[h])
      <4>1. row' = [row EXCEPT !.left = row.left \ {task[h].proof.code}, !.set = row.set]
        BY <3>1 DEF Unspent, CrossOff
      <4>2. row.state # "none"
        BY <3>1 DEF Unspent, Same
      <4> QED BY <1>0, <4>1, <4>2 DEF Typed, FactorRow
    <3> QED BY <1>0, <1>4, <3>1 DEF SpendCode
  <2>3. uses' \in [Totps \cup Recoveries -> Nat]
    BY <1>0, <1>4, AcceptTyped DEF SpendCode, TypedRequest, TypeOK
  <2> QED BY <1>4, <2>1, <2>2, <2>3 DEF SpendCode, TypeOK, Drift
<1>5. CASE Reissue(h)
  <2>1. task' \in [Handler -> FactorRequest] /\ \A k \in Handler : TypedRequest(task'[k])
    BY <1>5, DoneTyped DEF Reissue
  <2>2. Typed(row')
    BY <1>0, <1>5 DEF Reissue, TypedRequest, FactorRequest, Typed, FactorRow, Same, Unspent, Hashing
  <2> QED BY <1>5, <2>1, <2>2 DEF Reissue, TypeOK
<1>6. CASE DisableWeigh(h)
  <2> DEFINE r == task[h].row
             t(pc, p) == [pc |-> pc, row |-> task[h].row, proof |-> p, fresh |-> 0]
  <2>1. Typed(r) /\ r.state = "enabled"
    BY <1>0, <1>6 DEF DisableWeigh, TypedRequest
  <2>2. \A n \in Matching(r) : Totp(r.secret, n) \in Totps
    BY <2>1, MatchTyped
  <2>3. \A c \in r.left : Recovery(r.set, c) \in Recoveries
    BY <2>1 DEF Typed, FactorRow, Recovery, Recoveries
  <2>4. \A p \in Totps : TypedRequest(t("erase", p))
    BY <2>1 DEF TypedRequest, FactorRequest, FactorPcs, Hashing, Typed
  <2>5. \A p \in Recoveries : TypedRequest(t("spendlast", p))
    BY <2>1 DEF TypedRequest, FactorRequest, FactorPcs, Hashing, Typed
  <2>6. task' \in [Handler -> FactorRequest] /\ \A k \in Handler : TypedRequest(task'[k])
    <3>1. CASE \E n \in Matching(r) : Goto(h, "erase", Totp(r.secret, n))
      <4>1. PICK n \in Matching(r) : Goto(h, "erase", Totp(r.secret, n))
        BY <3>1
      <4>2. task' = [task EXCEPT ![h] = t("erase", Totp(r.secret, n))]
        BY <4>1 DEF Goto, TypeOK
      <4> QED BY <2>2, <2>4, <4>2, TableTyped
    <3>2. CASE \E c \in r.left : Goto(h, "spendlast", Recovery(r.set, c))
      <4>1. PICK c \in r.left : Goto(h, "spendlast", Recovery(r.set, c))
        BY <3>2
      <4>2. task' = [task EXCEPT ![h] = t("spendlast", Recovery(r.set, c))]
        BY <4>1 DEF Goto, TypeOK
      <4> QED BY <2>3, <2>5, <4>2, TableTyped
    <3> QED BY <1>6, <3>1, <3>2, DoneTyped DEF DisableWeigh
  <2> QED BY <1>6, <2>6 DEF DisableWeigh, TypeOK, factor
<1>7. CASE DisableSpend(h)
  <2> DEFINE t == [pc |-> "erase", row |-> task[h].row, proof |-> NoProof, fresh |-> 0]
  <2>1. TypedRequest(t)
    BY <1>0 DEF TypedRequest, FactorRequest, FactorPcs, Hashing, Typed
  <2>2. Goto(h, "erase", NoProof) => task' = [task EXCEPT ![h] = t]
    BY DEF Goto, TypeOK
  <2>3. task' \in [Handler -> FactorRequest] /\ \A k \in Handler : TypedRequest(task'[k])
    BY <1>7, <2>1, <2>2, DoneTyped, TableTyped DEF DisableSpend
  <2>4. Typed(row')
    <3>1. CASE Unspent(task[h].row) /\ CrossOff(task[h])
      <4>1. row' = [row EXCEPT !.left = row.left \ {task[h].proof.code}, !.set = row.set]
        BY <3>1 DEF Unspent, CrossOff
      <4>2. row.state # "none"
        BY <3>1 DEF Unspent, Same
      <4> QED BY <1>0, <4>1, <4>2 DEF Typed, FactorRow
    <3> QED BY <1>0, <1>7, <3>1 DEF DisableSpend
  <2>5. uses' \in [Totps \cup Recoveries -> Nat]
    BY <1>0, <1>7, AcceptTyped DEF DisableSpend, TypedRequest, TypeOK
  <2> QED BY <1>7, <2>3, <2>4, <2>5 DEF DisableSpend, TypeOK
<1>8. CASE DisableErase(h)
  <2>1. task' \in [Handler -> FactorRequest] /\ \A k \in Handler : TypedRequest(task'[k])
    BY <1>8, DoneTyped DEF DisableErase
  <2>2. Typed(row')
    BY <1>0, <1>8 DEF DisableErase, Typed, FactorRow, NoRow
  <2>3. uses' \in [Totps \cup Recoveries -> Nat]
    BY <1>0, <1>8, AcceptTyped DEF DisableErase, TypeOK
  <2> QED BY <1>8, <2>1, <2>2, <2>3 DEF DisableErase, TypeOK
<1>9. CASE AdminErase(h)
  <2>1. task' \in [Handler -> FactorRequest] /\ \A k \in Handler : TypedRequest(task'[k])
    BY <1>9, DoneTyped DEF AdminErase
  <2>2. Typed(row') /\ traced' \in Nat
    BY <1>0, <1>9 DEF AdminErase, Typed, FactorRow, NoRow, Recorded, TypeOK
  <2> QED BY <1>9, <2>1, <2>2 DEF AdminErase, TypeOK
<1> QED BY <1>1, <1>2, <1>3, <1>4, <1>5, <1>6, <1>7, <1>8, <1>9 DEF Step

\* Type correctness of the second factor: every row stored or read is one the
\* model knows, and a request holds the kind of code its next statement spends.
THEOREM FactorTypeCorrect == Spec => []TypeOK
<1>1. Init => TypeOK
  BY FactorBounds, IdleTyped DEF Init, TypeOK, Typed, TypedRequest, FactorRow, NoRow, Drift
<1>2. TypeOK /\ [Next]_vars => TypeOK'
  <2> SUFFICES ASSUME TypeOK, [Next]_vars PROVE TypeOK'
    OBVIOUS
  <2>1. CASE Abandon
    <3>1. Typed(row')
      BY <2>1 DEF Abandon, Typed, FactorRow, NoRow
    <3> QED BY <2>1, <3>1 DEF Abandon, TypeOK
  <2>2. CASE Tick
    BY <2>2, FactorBounds DEF Tick, TypeOK, factor, Drift
  <2>3. CASE UNCHANGED vars
    BY <2>3 DEF vars, TypeOK
  <2> QED BY <2>1, <2>2, <2>3, ArriveTyped, StepTyped DEF Next
<1> QED BY <1>1, <1>2, PTL DEF Spec

-----------------------------------------------------------------------------
(* A code works once.                                                       *)

\* What a request replaced in the table leaves of the others.
LEMMA Slots ==
  ASSUME TypeOK, NEW h \in Handler, NEW t, task' = [task EXCEPT ![h] = t]
  PROVE  task'[h] = t /\ \A k \in Handler : k # h => task'[k] = task[k]
BY DEF TypeOK

\* The numbers the invariant compares.
LEMMA FactorNumbers ==
  ASSUME TypeOK
  PROVE  /\ row.id \in Nat /\ row.secret \in Nat /\ row.used \in Nat /\ row.set \in Nat
         /\ ids \in Nat /\ secrets \in Nat /\ sets \in Nat
         /\ \A p \in Totps : p.secret \in Nat /\ p.secret > 0 /\ p.step \in Nat /\ p.step > 0
         /\ \A p \in Recoveries : p.set \in Nat /\ p.set > 0
         /\ \A p \in Totps \cup Recoveries : uses[p] \in Nat
         /\ \A k \in Handler : /\ task[k].row.id \in Nat /\ task[k].row.secret \in Nat
                               /\ task[k].row.set \in Nat /\ task[k].fresh \in Nat
BY FactorBounds DEF TypeOK, Typed, TypedRequest, FactorRow, FactorRequest, Totps, Recoveries, Steps, Drift

\* A request that ends and leaves the row and the codes alone.
LEMMA EndKeeps ==
  ASSUME TypeOK, CodesInv, NEW h \in Handler, Done(h),
         UNCHANGED <<row, ids, secrets, sets, uses>>
  PROVE  CodesInv'
<1>1. task'[h] = NoRequest /\ \A k \in Handler : k # h => task'[k] = task[k]
  BY Slots DEF Done
<1>2. RowUnspent' /\ CodesWorkOnce'
  BY DEF CodesInv, RowUnspent, CodesWorkOnce
<1> SUFFICES ASSUME NEW k \in Handler
             PROVE  NewSecret(k)' /\ NewSet(k)' /\ ReadStands(k)' /\ ProofFits(k)'
  BY <1>2 DEF CodesInv
<1>3. NewSecret(k)'
  BY <1>1, FactorNumbers DEF CodesInv, NewSecret, NoRequest, NoRow
<1>4. NewSet(k)'
  BY <1>1, FactorNumbers DEF CodesInv, NewSet, NoRequest, NoRow, Hashing
<1>5. ReadStands(k)'
  BY <1>1, FactorNumbers DEF CodesInv, ReadStands, NoRequest, NoRow, Same
<1>6. ProofFits(k)'
  BY <1>1 DEF CodesInv, ProofFits, NoRequest, NoRow, Same
<1> QED BY <1>3, <1>4, <1>5, <1>6

\* A request that reads the row, mints what it will write, and has a code of
\* the row in hand.
LEMMA ReadKeeps ==
  ASSUME TypeOK, CodesInv, NEW h \in Handler, NEW pc, NEW proof, NEW fresh,
         Run(h, pc, proof, fresh), UNCHANGED <<row, ids, uses>>,
         secrets' \in {secrets, secrets + 1}, sets' \in {sets, sets + 1},
         pc \in {"begin", "confirm", "claim", "spend", "reissue", "admin"},
         pc = "begin" => fresh = secrets + 1 /\ secrets' = fresh,
         pc \in Hashing => fresh = sets + 1 /\ sets' = fresh,
         pc = "confirm" => proof \in Totps /\ proof.secret = row.secret /\ row.state = "pending",
         pc = "claim" => proof \in Totps /\ proof.secret = row.secret /\ row.state = "enabled",
         pc = "spend" => proof \in Recoveries /\ proof.set = row.set /\ proof.code \in row.left
  PROVE  CodesInv'
<1> DEFINE t == [pc |-> pc, row |-> row, proof |-> proof, fresh |-> fresh]
<1>1. task'[h] = t /\ \A k \in Handler : k # h => task'[k] = task[k]
  BY Slots DEF Run
<1>2. RowUnspent' /\ CodesWorkOnce'
  BY FactorNumbers DEF CodesInv, RowUnspent, CodesWorkOnce
<1> SUFFICES ASSUME NEW k \in Handler
             PROVE  NewSecret(k)' /\ NewSet(k)' /\ ReadStands(k)' /\ ProofFits(k)'
  BY <1>2 DEF CodesInv
<1>3. NewSecret(k)'
  <2>1. CASE k = h
    BY <1>1, <2>1, FactorNumbers DEF CodesInv, NewSecret, RowUnspent, ReadStands
  <2>2. CASE k # h
    BY <1>1, <2>2, FactorNumbers DEF CodesInv, NewSecret, RowUnspent, ReadStands
  <2> QED BY <2>1, <2>2
<1>4. NewSet(k)'
  <2>1. CASE k = h
    BY <1>1, <2>1, FactorNumbers DEF CodesInv, NewSet, RowUnspent, ReadStands
  <2>2. CASE k # h
    BY <1>1, <2>2, FactorNumbers DEF CodesInv, NewSet, RowUnspent, ReadStands
  <2> QED BY <2>1, <2>2
<1>5. ReadStands(k)'
  BY <1>1, FactorNumbers DEF CodesInv, ReadStands, RowUnspent, Same
<1>6. ProofFits(k)'
  <2>1. CASE k = h
    BY <1>1, <2>1, FactorNumbers DEF CodesInv, ProofFits, RowUnspent, Same
  <2>2. CASE k # h
    BY <1>1, <2>2 DEF CodesInv, ProofFits, Same
  <2> QED BY <2>1, <2>2
<1> QED BY <1>3, <1>4, <1>5, <1>6

\* Every request that may begin keeps the invariant.
LEMMA ArriveKeeps ==
  ASSUME TypeOK, CodesInv, NEW h \in Handler, Arrive(h), "disable" \notin Ops
  PROVE  CodesInv'
<1>1. CASE BeginRead(h)
  <2>1. Run(h, "begin", NoProof, secrets + 1)
    BY <1>1 DEF BeginRead
  <2> QED BY <1>1, <2>1, ReadKeeps DEF BeginRead, Hashing
<1>2. CASE ConfirmRead(h)
  <2>1. PICK n \in Matching(row) : Run(h, "confirm", Totp(row.secret, n), sets + 1)
    BY <1>2 DEF ConfirmRead
  <2>2. Totp(row.secret, n) \in Totps /\ Totp(row.secret, n).secret = row.secret
    BY <1>2, MatchTyped DEF ConfirmRead, TypeOK, Totp
  <2> QED BY <1>2, <2>1, <2>2, ReadKeeps DEF ConfirmRead, Hashing
<1>3. CASE VerifyRead(h)
  <2>1. PICK n \in Matching(row) : Run(h, "claim", Totp(row.secret, n), 0)
    BY <1>3 DEF VerifyRead
  <2>2. Totp(row.secret, n) \in Totps /\ Totp(row.secret, n).secret = row.secret
    BY <1>3, MatchTyped DEF VerifyRead, TypeOK, Totp
  <2> QED BY <1>3, <2>1, <2>2, ReadKeeps DEF VerifyRead, Hashing, factor
<1>4. CASE RecoverRead(h)
  <2>1. PICK c \in row.left : Run(h, "spend", Recovery(row.set, c), 0)
    BY <1>4 DEF RecoverRead
  <2>2. Recovery(row.set, c) \in Recoveries
    BY <2>1 DEF TypeOK, Typed, FactorRow, Recovery, Recoveries
  <2>3. Recovery(row.set, c).set = row.set /\ Recovery(row.set, c).code \in row.left
    BY <2>1 DEF Recovery
  <2> QED BY <1>4, <2>1, <2>2, <2>3, ReadKeeps DEF RecoverRead, Hashing, factor
<1>5. CASE ReissueRead(h)
  <2>1. Run(h, "reissue", NoProof, sets + 1)
    BY <1>5 DEF ReissueRead
  <2> QED BY <1>5, <2>1, ReadKeeps DEF ReissueRead, Hashing
<1>6. CASE AdminRead(h)
  <2>1. Run(h, "admin", NoProof, 0)
    BY <1>6 DEF AdminRead
  <2> QED BY <1>6, <2>1, ReadKeeps DEF AdminRead, Hashing, factor
<1>7. CASE DisableRead(h)
  BY <1>7 DEF DisableRead, Begin
<1> QED BY <1>1, <1>2, <1>3, <1>4, <1>5, <1>6, <1>7 DEF Arrive

\* The row is deleted, by an administrator's request or by a request that gave up.
LEMMA EraseKeeps ==
  ASSUME TypeOK, CodesInv, row' = NoRow, UNCHANGED <<ids, secrets, sets, uses>>,
         UNCHANGED task \/ \E h \in Handler : Done(h)
  PROVE  CodesInv'
<1>0. RowUnspent' /\ CodesWorkOnce'
  BY FactorNumbers DEF CodesInv, RowUnspent, CodesWorkOnce, NoRow
<1>1. \A k \in Handler : task'[k] \in {task[k], NoRequest}
  BY Slots DEF Done
<1> SUFFICES ASSUME NEW k \in Handler
             PROVE  NewSecret(k)' /\ NewSet(k)' /\ ReadStands(k)' /\ ProofFits(k)'
  BY <1>0 DEF CodesInv
<1>3. NewSecret(k)'
  BY <1>1, FactorNumbers DEF CodesInv, NewSecret, NoRequest, NoRow
<1>4. NewSet(k)'
  BY <1>1, FactorNumbers DEF CodesInv, NewSet, NoRequest, NoRow, Hashing
<1>5. ReadStands(k)'
  BY <1>1, FactorNumbers DEF CodesInv, ReadStands, NoRequest, NoRow, Same
<1>6. ProofFits(k)'
  BY <1>1 DEF CodesInv, ProofFits, NoRequest, NoRow, Same
<1> QED BY <1>3, <1>4, <1>5, <1>6

\* A setup started, or started over: the secret put in the row is new.
LEMMA BeginKeeps ==
  ASSUME TypeOK, CodesInv, NEW h \in Handler, task[h].pc = "begin", Done(h),
         UNCHANGED <<secrets, sets, uses>>,
         row'.state = "pending", row'.secret = task[h].fresh, row'.used = 0,
         row'.set = 0, row'.left = {},
         \/ row.state = "none" /\ row'.id = ids + 1 /\ ids' = ids + 1
         \/ row.state = "pending" /\ row'.id = row.id /\ ids' = ids
  PROVE  CodesInv'
<1>1. task'[h] = NoRequest /\ \A k \in Handler : k # h => task'[k] = task[k]
  BY Slots DEF Done
<1>2. NewSecret(h)
  BY DEF CodesInv
<1>0. RowUnspent' /\ CodesWorkOnce'
  BY <1>2, FactorNumbers DEF CodesInv, RowUnspent, CodesWorkOnce, NewSecret
<1> SUFFICES ASSUME NEW k \in Handler
             PROVE  NewSecret(k)' /\ NewSet(k)' /\ ReadStands(k)' /\ ProofFits(k)'
  BY <1>0 DEF CodesInv
<1>3. NewSecret(k)'
  BY <1>1, <1>2, FactorNumbers DEF CodesInv, NewSecret, NoRequest, NoRow
<1>4. NewSet(k)'
  BY <1>1, <1>2, FactorNumbers DEF CodesInv, NewSet, NoRequest, NoRow, Hashing
<1>5. ReadStands(k)'
  BY <1>1, <1>2, FactorNumbers DEF CodesInv, ReadStands, NoRequest, NoRow, Same
<1>6. ProofFits(k)'
  BY <1>1, <1>2, FactorNumbers DEF CodesInv, ProofFits, ReadStands, NoRequest, NoRow, Same
<1> QED BY <1>3, <1>4, <1>5, <1>6

\* A confirmation: the code was right for a secret nobody has used yet.
LEMMA ConfirmKeeps ==
  ASSUME TypeOK, CodesInv, NEW h \in Handler, ConfirmClaim(h)
  PROVE  CodesInv'
<1> DEFINE t == task[h]
<1> SUFFICES ASSUME MayConfirm(t.row) PROVE CodesInv'
  BY EndKeeps DEF ConfirmClaim
<1>1. task'[h] = NoRequest /\ \A k \in Handler : k # h => task'[k] = task[k]
  BY Slots DEF Done, ConfirmClaim
<1>2. /\ row.state = "pending" /\ row.id = t.row.id
      /\ row'.state = "enabled" /\ row'.id = row.id /\ row'.secret = row.secret
      /\ row'.used = t.proof.step /\ row'.set = t.fresh /\ row'.left = Code
      /\ UNCHANGED <<ids, secrets, sets>> /\ Accept(t.proof) /\ t.pc = "confirm"
  BY DEF ConfirmClaim, MayConfirm, Same, TypeOK, Typed, FactorRow
<1>3. /\ t.proof \in Totps /\ t.proof.secret = t.row.secret
      /\ \A p \in Totps : p.secret = t.row.secret => uses[p] = 0
  BY <1>2 DEF CodesInv, ProofFits, Same
<1>4. /\ uses'[t.proof] = 1
      /\ \A q \in Totps \cup Recoveries : q # t.proof => uses'[q] = uses[q]
  BY <1>2, <1>3, AcceptTyped
<1>5. NewSet(h) /\ t.row.secret <= secrets
  BY DEF CodesInv, ReadStands
<1>6. \A p \in Recoveries : uses'[p] = uses[p]
  BY <1>3, <1>4, CodeKinds
<1>7. CodesWorkOnce'
  BY <1>4 DEF CodesInv, CodesWorkOnce
<1>8. RowUnspent'
  BY <1>2, <1>3, <1>4, <1>5, <1>6, FactorNumbers DEF CodesInv, RowUnspent, NewSet, Hashing
<1> SUFFICES ASSUME NEW k \in Handler
             PROVE  NewSecret(k)' /\ NewSet(k)' /\ ReadStands(k)' /\ ProofFits(k)'
  BY <1>7, <1>8 DEF CodesInv
<1>9. NewSecret(k)'
  BY <1>1, <1>2, <1>3, <1>4, FactorNumbers DEF CodesInv, NewSecret, NoRequest, NoRow
<1>10. NewSet(k)'
  BY <1>1, <1>2, <1>6, FactorNumbers DEF CodesInv, NewSet, NoRequest, NoRow, Hashing
<1>11. ReadStands(k)'
  BY <1>1, <1>2, FactorNumbers DEF CodesInv, ReadStands, NoRequest, NoRow, Same
<1>12. ProofFits(k)'
  BY <1>1, <1>2 DEF CodesInv, ProofFits, NoRequest, NoRow
<1> QED BY <1>9, <1>10, <1>11, <1>12

\* A TOTP code: its step is past every step of this secret that was accepted.
LEMMA ClaimKeeps ==
  ASSUME TypeOK, CodesInv, NEW h \in Handler, ClaimStep(h)
  PROVE  CodesInv'
<1> DEFINE t == task[h]
<1> SUFFICES ASSUME MayClaimStep(t) PROVE CodesInv'
  BY EndKeeps DEF ClaimStep
<1>1. task'[h] = NoRequest /\ \A k \in Handler : k # h => task'[k] = task[k]
  BY Slots DEF Done, ClaimStep
<1>2. /\ Same(t.row) /\ row.used < t.proof.step
      /\ row'.state = row.state /\ row'.id = row.id /\ row'.secret = row.secret
      /\ row'.used = t.proof.step /\ row'.set = row.set /\ row'.left = row.left
      /\ UNCHANGED <<ids, secrets, sets>> /\ Accept(t.proof) /\ t.pc = "claim"
  BY DEF ClaimStep, MayClaimStep, TypeOK, Typed, FactorRow
<1>3. t.proof \in Totps /\ t.proof.secret = row.secret /\ row.state = "enabled"
  BY <1>2 DEF CodesInv, ProofFits, ReadStands
<1>4. /\ uses'[t.proof] = 1
      /\ \A q \in Totps \cup Recoveries : q # t.proof => uses'[q] = uses[q]
  <2>1. uses[t.proof] = 0
    BY <1>2, <1>3 DEF CodesInv, RowUnspent
  <2> QED BY <1>2, <1>3, <2>1, AcceptTyped
<1>5. \A p \in Recoveries : uses'[p] = uses[p]
  BY <1>3, <1>4, CodeKinds
<1>6. CodesWorkOnce'
  BY <1>4 DEF CodesInv, CodesWorkOnce
<1>7. RowUnspent'
  BY <1>2, <1>3, <1>4, <1>5, FactorNumbers DEF CodesInv, RowUnspent
<1> SUFFICES ASSUME NEW k \in Handler
             PROVE  NewSecret(k)' /\ NewSet(k)' /\ ReadStands(k)' /\ ProofFits(k)'
  BY <1>6, <1>7 DEF CodesInv
<1>8. NewSecret(k)'
  BY <1>1, <1>2, <1>3, <1>4, FactorNumbers DEF CodesInv, NewSecret, NoRequest, NoRow
<1>9. NewSet(k)'
  BY <1>1, <1>2, <1>5, FactorNumbers DEF CodesInv, NewSet, NoRequest, NoRow, Hashing
<1>10. ReadStands(k)'
  BY <1>1, <1>2, FactorNumbers DEF CodesInv, ReadStands, NoRequest, NoRow, Same
<1>11. ProofFits(k)'
  BY <1>1, <1>2, <1>3 DEF CodesInv, ProofFits, NoRequest, NoRow
<1> QED BY <1>8, <1>9, <1>10, <1>11

\* A recovery code: it was still on the list, and is crossed off it.
LEMMA SpendKeeps ==
  ASSUME TypeOK, CodesInv, NEW h \in Handler, SpendCode(h)
  PROVE  CodesInv'
<1> DEFINE t == task[h]
<1> SUFFICES ASSUME Unspent(t.row) PROVE CodesInv'
  BY EndKeeps DEF SpendCode
<1>1. task'[h] = NoRequest /\ \A k \in Handler : k # h => task'[k] = task[k]
  BY Slots DEF Done, SpendCode
<1>2. /\ row.set = t.row.set /\ row.left = t.row.left
      /\ row'.state = row.state /\ row'.id = row.id /\ row'.secret = row.secret
      /\ row'.used = row.used /\ row'.set = row.set /\ row'.left = row.left \ {t.proof.code}
      /\ UNCHANGED <<ids, secrets, sets>> /\ Accept(t.proof) /\ t.pc = "spend"
  BY DEF SpendCode, Unspent, CrossOff, TypeOK, Typed, FactorRow
<1>3. t.proof \in Recoveries /\ t.proof.set = row.set /\ t.proof.code \in row.left
  BY <1>2 DEF CodesInv, ProofFits
<1>4. /\ uses'[t.proof] = 1
      /\ \A q \in Totps \cup Recoveries : q # t.proof => uses'[q] = uses[q]
  <2>1. uses[t.proof] = 0
    BY <1>3 DEF CodesInv, RowUnspent
  <2> QED BY <1>2, <1>3, <2>1, AcceptTyped
<1>5. \A p \in Totps : uses'[p] = uses[p]
  BY <1>3, <1>4, CodeKinds
<1>6. CodesWorkOnce'
  BY <1>4 DEF CodesInv, CodesWorkOnce
<1>7. RowUnspent'
  BY <1>2, <1>3, <1>4, <1>5, FactorNumbers DEF CodesInv, RowUnspent
<1> SUFFICES ASSUME NEW k \in Handler
             PROVE  NewSecret(k)' /\ NewSet(k)' /\ ReadStands(k)' /\ ProofFits(k)'
  BY <1>6, <1>7 DEF CodesInv
<1>8. NewSecret(k)'
  BY <1>1, <1>2, <1>5, FactorNumbers DEF CodesInv, NewSecret, NoRequest, NoRow
<1>9. NewSet(k)'
  BY <1>1, <1>2, <1>3, <1>4, FactorNumbers DEF CodesInv, NewSet, NoRequest, NoRow, Hashing
<1>10. ReadStands(k)'
  BY <1>1, <1>2, FactorNumbers DEF CodesInv, ReadStands, NoRequest, NoRow, Same
<1>11. ProofFits(k)'
  BY <1>1, <1>2, <1>5 DEF CodesInv, ProofFits, NoRequest, NoRow, Same
<1> QED BY <1>8, <1>9, <1>10, <1>11

\* New recovery codes: a set nobody has seen.
LEMMA ReissueKeeps ==
  ASSUME TypeOK, CodesInv, NEW h \in Handler, Reissue(h)
  PROVE  CodesInv'
<1> DEFINE t == task[h]
<1> SUFFICES ASSUME Unspent(t.row) PROVE CodesInv'
  BY EndKeeps DEF Reissue
<1>1. task'[h] = NoRequest /\ \A k \in Handler : k # h => task'[k] = task[k]
  BY Slots DEF Done, Reissue
<1>2. /\ row'.state = row.state /\ row'.id = row.id /\ row'.secret = row.secret
      /\ row'.used = row.used /\ row'.set = t.fresh /\ row'.left = Code
      /\ UNCHANGED <<ids, secrets, sets, uses>> /\ t.pc = "reissue"
  BY DEF Reissue, TypeOK, Typed, FactorRow
<1>3. NewSet(h)
  BY DEF CodesInv
<1>4. RowUnspent' /\ CodesWorkOnce'
  BY <1>2, <1>3, FactorNumbers DEF CodesInv, RowUnspent, CodesWorkOnce, NewSet, Hashing
<1> SUFFICES ASSUME NEW k \in Handler
             PROVE  NewSecret(k)' /\ NewSet(k)' /\ ReadStands(k)' /\ ProofFits(k)'
  BY <1>4 DEF CodesInv
<1>5. NewSecret(k)'
  BY <1>1, <1>2, FactorNumbers DEF CodesInv, NewSecret, NoRequest, NoRow
<1>6. NewSet(k)'
  BY <1>1, <1>2, FactorNumbers DEF CodesInv, NewSet, NoRequest, NoRow, Hashing
<1>7. ReadStands(k)'
  BY <1>1, <1>2, FactorNumbers DEF CodesInv, ReadStands, NoRequest, NoRow, Same
<1>8. ProofFits(k)'
  BY <1>1, <1>2 DEF CodesInv, ProofFits, NoRequest, NoRow, Same
<1> QED BY <1>5, <1>6, <1>7, <1>8

\* So does every later step of a request.
LEMMA StepKeeps ==
  ASSUME TypeOK, CodesInv, NEW h \in Handler, Step(h)
  PROVE  CodesInv'
<1>1. CASE BeginWrite(h)
  <2>1. CASE UNCHANGED <<row, ids>>
    BY <1>1, <2>1, EndKeeps DEF BeginWrite
  <2>2. CASE /\ row.state = "none" /\ ids' = ids + 1
             /\ row' = [NoRow EXCEPT !.id = ids + 1, !.state = "pending", !.secret = task[h].fresh]
    BY <1>1, <2>2, BeginKeeps DEF BeginWrite, NoRow
  <2>3. CASE /\ row.state = "pending" /\ ids' = ids
             /\ row' = [row EXCEPT !.secret = task[h].fresh, !.used = 0, !.set = 0, !.left = {}]
    <3>1. row \in FactorRow
      BY DEF TypeOK, Typed
    <3> QED BY <1>1, <2>3, <3>1, BeginKeeps DEF BeginWrite, FactorRow
  <2> QED BY <1>1, <2>1, <2>2, <2>3 DEF BeginWrite, MayReplace
<1>2. CASE AdminErase(h)
  BY <1>2, EraseKeeps DEF AdminErase
<1>3. CASE DisableWeigh(h) \/ DisableSpend(h) \/ DisableErase(h)
  BY <1>3 DEF DisableWeigh, DisableSpend, DisableErase, CodesInv, ProofFits
<1> QED BY <1>1, <1>2, <1>3, ConfirmKeeps, ClaimKeeps, SpendKeeps, ReissueKeeps DEF Step

\* The invariant that explains it is inductive.
THEOREM CodesInductive ==
  ASSUME "disable" \notin Ops
  PROVE  Spec => []CodesInv
<1>1. Init => CodesInv
  <2> SUFFICES ASSUME Init PROVE CodesInv
    OBVIOUS
  <2>1. RowUnspent /\ CodesWorkOnce
    BY DEF Init, RowUnspent, CodesWorkOnce, NoRow
  <2>2. \A h \in Handler : NewSecret(h) /\ NewSet(h)
    BY DEF Init, NewSecret, NewSet, NoRequest, NoRow, Hashing
  <2>3. \A h \in Handler : ReadStands(h) /\ ProofFits(h)
    BY DEF Init, ReadStands, ProofFits, NoRequest, NoRow
  <2> QED BY <2>1, <2>2, <2>3 DEF CodesInv
<1>2. TypeOK /\ CodesInv /\ [Next]_vars => CodesInv'
  <2> SUFFICES ASSUME TypeOK, CodesInv, [Next]_vars PROVE CodesInv'
    OBVIOUS
  <2>1. CASE Abandon
    BY <2>1, EraseKeeps DEF Abandon
  <2>2. CASE Tick \/ UNCHANGED vars
    <3>1. UNCHANGED <<row, task, ids, secrets, sets, uses>>
      BY <2>2 DEF Tick, factor, vars
    <3> QED BY <3>1 DEF CodesInv, RowUnspent, NewSecret, NewSet, ReadStands, ProofFits, CodesWorkOnce, Same
  <2> QED BY <2>1, <2>2, ArriveKeeps, StepKeeps DEF Next
<1> QED BY <1>1, <1>2, FactorTypeCorrect, PTL DEF Spec

\* "A code works once", for any number of tabs, secrets, sets and steps, with
\* enrolments started over, recovery codes, reissues and the administrator's
\* removals in between.
THEOREM CodeWorksOnce ==
  ASSUME "disable" \notin Ops
  PROVE  Spec => []CodesWorkOnce
<1>1. CodesInv => CodesWorkOnce
  BY DEF CodesInv
<1> QED BY <1>1, CodesInductive, PTL

\* Every write of an enabled row is of one that was enabled and keeps its
\* codes, or brings a set minted for it.
LEMMA StepLeavesCodes ==
  ASSUME TypeOK, EnabledHasCodes, NEW h \in Handler, Step(h)
  PROVE  EnabledHasCodes'
<1> DEFINE t == task[h]
<1>1. /\ row \in FactorRow /\ row.set \in Nat
      /\ t.pc \in Hashing => t.fresh \in 1 .. MaxSet
      /\ MaxSet \in Nat
  BY FactorBounds DEF TypeOK, Typed, TypedRequest, FactorRow
<1>2. CASE BeginWrite(h)
  <2>1. \/ UNCHANGED row
        \/ row' = [NoRow EXCEPT !.id = ids + 1, !.state = "pending", !.secret = t.fresh]
        \/ /\ row.state = "pending"
           /\ row' = [row EXCEPT !.secret = t.fresh, !.used = 0, !.set = 0, !.left = {}]
    BY <1>2 DEF BeginWrite, MayReplace
  <2>2. row' = row \/ row'.state = "pending"
    BY <1>1, <2>1 DEF NoRow, FactorRow
  <2> QED BY <2>2 DEF EnabledHasCodes
<1>3. CASE ConfirmClaim(h)
  <2>1. UNCHANGED row \/ row'.set = t.fresh
    BY <1>1, <1>3 DEF ConfirmClaim, FactorRow
  <2> QED BY <1>1, <1>3, <2>1 DEF ConfirmClaim, Hashing, EnabledHasCodes
<1>4. CASE ClaimStep(h)
  <2>1. row'.state = row.state /\ row'.set = row.set
    BY <1>1, <1>4 DEF ClaimStep, FactorRow
  <2> QED BY <2>1 DEF EnabledHasCodes
<1>5. CASE SpendCode(h) \/ DisableSpend(h)
  <2>1. row'.state = row.state /\ row'.set = row.set
    BY <1>1, <1>5 DEF SpendCode, DisableSpend, CrossOff, Unspent, FactorRow
  <2> QED BY <2>1 DEF EnabledHasCodes
<1>6. CASE Reissue(h)
  <2>1. UNCHANGED row \/ row'.set = t.fresh
    BY <1>1, <1>6 DEF Reissue, FactorRow
  <2> QED BY <1>1, <1>6, <2>1 DEF Reissue, Hashing, EnabledHasCodes
<1>7. CASE DisableWeigh(h) \/ DisableErase(h) \/ AdminErase(h)
  <2>1. UNCHANGED row \/ row' = NoRow
    BY <1>7 DEF DisableWeigh, DisableErase, AdminErase, factor
  <2> QED BY <2>1 DEF EnabledHasCodes, NoRow
<1> QED BY <1>2, <1>3, <1>4, <1>5, <1>6, <1>7 DEF Step

\* A factor that is on has a set of recovery codes, whatever tabs confirm,
\* start over, spend, reissue, disable and reset at once: the member who loses
\* the authenticator is never left with a factor and no way past it.
THEOREM FactorKeepsCodes == Spec => []EnabledHasCodes
<1>1. Init => EnabledHasCodes
  BY DEF Init, NoRow, EnabledHasCodes
<1>2. TypeOK /\ EnabledHasCodes /\ [Next]_vars => EnabledHasCodes'
  <2> SUFFICES ASSUME TypeOK, EnabledHasCodes, [Next]_vars PROVE EnabledHasCodes'
    OBVIOUS
  <2>1. CASE Abandon
    BY <2>1 DEF Abandon, NoRow, EnabledHasCodes
  <2>2. CASE Tick \/ UNCHANGED vars \/ \E h \in Handler : Arrive(h)
    <3>1. UNCHANGED row
      BY <2>2 DEF Tick, vars, factor, Arrive, BeginRead, ConfirmRead, VerifyRead, RecoverRead,
                  ReissueRead, DisableRead, AdminRead
    <3> QED BY <3>1 DEF EnabledHasCodes
  <2> QED BY <2>1, <2>2, StepLeavesCodes DEF Next
<1> QED BY <1>1, <1>2, FactorTypeCorrect, PTL DEF Spec

\* Only a confirmation and a reissue put a set of codes in the row, and the
\* statement of each says what it replaces: a set the user was shown goes only
\* under a request that read the row with it, whatever the other tabs do
\* (regenerate_recovery_codes, begin_enrolment).
THEOREM FactorReplacesWhatItSaw == Spec => ReplacedCodesWereSeen
<1> DEFINE Seen == row.state = "enabled" /\ row'.state = "enabled" /\ row'.set # row.set =>
                     \E h \in Handler : task[h].row.set = row.set /\ task[h].row.left = row.left
<1>1. TypeOK /\ [Next]_vars => [Seen]_vars
  <2> SUFFICES ASSUME TypeOK, [Next]_vars, row.state = "enabled", row'.state = "enabled",
                      row'.set # row.set
               PROVE  \E h \in Handler : task[h].row.set = row.set /\ task[h].row.left = row.left
    OBVIOUS
  <2>1. ~(Tick \/ UNCHANGED vars \/ Abandon \/ \E h \in Handler : Arrive(h))
    BY DEF Tick, vars, factor, Abandon, Arrive, BeginRead, ConfirmRead, VerifyRead, RecoverRead,
           ReissueRead, DisableRead, AdminRead
  <2>2. PICK h \in Handler : Step(h)
    BY <2>1 DEF Next
  <2>3. row \in FactorRow
    BY DEF TypeOK, Typed
  <2>4. ~BeginWrite(h)
    BY <2>3 DEF BeginWrite, MayReplace
  <2>5. ~ConfirmClaim(h)
    BY <2>3 DEF ConfirmClaim, MayConfirm
  <2>6. ~ClaimStep(h)
    BY <2>3 DEF ClaimStep, FactorRow
  <2>7. ASSUME Unspent(task[h].row), CrossOff(task[h]) PROVE FALSE
    BY <2>3, <2>7 DEF Unspent, CrossOff, FactorRow
  <2>8. ~(SpendCode(h) \/ DisableSpend(h))
    BY <2>7 DEF SpendCode, DisableSpend
  <2>9. ~(DisableWeigh(h) \/ DisableErase(h) \/ AdminErase(h))
    BY DEF DisableWeigh, DisableErase, AdminErase, factor, NoRow
  <2>10. Reissue(h) /\ Unspent(task[h].row)
    BY <2>2, <2>4, <2>5, <2>6, <2>8, <2>9 DEF Step, Reissue
  <2> QED BY <2>10 DEF Unspent
<1> QED BY <1>1, FactorTypeCorrect, PTL DEF Spec, ReplacedCodesWereSeen

=============================================================================
