-------------------------- MODULE HouseholdProofs --------------------------
(***************************************************************************)
(* Theorems about Household for every household, every number of requests  *)
(* in flight and every choice of operations.                               *)
(***************************************************************************)
EXTENDS Household, TLAPS

-----------------------------------------------------------------------------
(* Types of the data.                                                       *)

\* A key version fits the one byte of the row header, and is never zero.
LEMMA NextVersionType ==
  \A v \in Nat : next_key_version(v) \in 1 .. 255
BY DEF next_key_version

\* The constant rows and keys are of their types.
LEMMA RowConstants ==
  /\ NoMember \in MemberRow
  /\ \A m \in Member : Founder(m) \in MemberRow
  /\ NoKey \in Key /\ FirstKey \in Key /\ NoSeal \in Seal /\ FirstRow \in Cipher
BY DEF NoMember, MemberRow, Founder, NoSeal, Seal, NoKey, FirstKey, Key, FirstRow, Cipher

\* An idle slot is a request of the right type.
LEMMA NoTaskType == NoTask \in Task
<1>1. "idle" \in Pcs /\ "none" \in Kinds
  BY DEF Pcs, Kinds
<1>2. [m \in Member |-> NoMember] \in [Member -> MemberRow]
  BY RowConstants
<1>3. [r \in Row |-> FirstRow] \in [Row -> Cipher]
  BY RowConstants
<1> QED
  BY <1>1, <1>2, <1>3, RowConstants, FoundersAssumption DEF NoTask, Task

\* A request's locals stay typed as they are filled in.
LEMMA LocalTypes ==
  /\ \A pc \in Pcs, op \in Kinds, m \in Member, o \in Member : Start(pc, op, m, o) \in Task
  /\ \A t \in Task : /\ \A row \in MemberRow : Loaded(t, row) \in Task
                     /\ \A key \in Key : Holding(t, key) \in Task
                     /\ \A n \in Nat : Making(t, n) \in Task
                     /\ \A rs \in SUBSET Row : Touching(t, rs) \in Task
                     /\ \A held \in [Member -> MemberRow] : Counted(t, held) \in Task
                     /\ \A pc \in Pcs, rs \in [Row -> Cipher] : Seen(t, pc, rs) \in Task
                     /\ \A pc \in Pcs : [t EXCEPT !.pc = pc] \in Task
<1>1. \A pc \in Pcs, op \in Kinds, m \in Member, o \in Member : Start(pc, op, m, o) \in Task
  BY NoTaskType DEF Start, Task
<1>2. ASSUME NEW t \in Task
      PROVE  /\ \A row \in MemberRow : Loaded(t, row) \in Task
             /\ \A key \in Key : Holding(t, key) \in Task
             /\ \A n \in Nat : Making(t, n) \in Task
             /\ \A rs \in SUBSET Row : Touching(t, rs) \in Task
  BY DEF Loaded, Holding, Making, Touching, Task
<1>3. "claim" \in Pcs
  BY DEF Pcs
<1>4. ASSUME NEW t \in Task
      PROVE  /\ \A held \in [Member -> MemberRow] : Counted(t, held) \in Task
             /\ \A pc \in Pcs, rs \in [Row -> Cipher] : Seen(t, pc, rs) \in Task
             /\ \A pc \in Pcs : [t EXCEPT !.pc = pc] \in Task
  BY <1>3 DEF Counted, Seen, Task
<1> QED
  BY <1>1, <1>2, <1>4

\* The rows a request writes are rows.
LEMMA RemovalType ==
  \A row \in MemberRow : Removal(row) \in MemberRow /\ Removal(row).status = "removed"
BY DEF MemberRow, NoSeal, Seal, Removal

\* A row just joined is a member row.
LEMMA PendingType ==
  \A n \in Nat, b \in BOOLEAN : Pending(n, b) \in MemberRow /\ Pending(n, b).status = "pending"
BY DEF MemberRow, NoSeal, Seal, NoMember, Pending

\* So is a row with another keypair and sealed key, ...
LEMMA BlockType ==
  \A row \in MemberRow, n \in Nat, seal \in Seal :
    WithBlock(row, n, seal) \in MemberRow /\ WithBlock(row, n, seal).status = row.status
BY DEF MemberRow, WithBlock

\* ... with another sealed key, ...
LEMMA SealedType ==
  \A row \in MemberRow, seal \in Seal :
    /\ Approved(row, seal) \in MemberRow /\ Approved(row, seal).status = "active"
    /\ Sealed(row, seal) \in MemberRow /\ Sealed(row, seal).status = row.status
BY DEF MemberRow, Approved, Sealed

\* ... with another role, ...
LEMMA RoleType ==
  \A row \in MemberRow, role \in {"owner", "member"} :
    WithRole(row, role) \in MemberRow /\ WithRole(row, role).status = row.status
BY DEF MemberRow, WithRole

\* An absent row has no keys.
Bare(row) == row.status = "absent" => row = [NoMember EXCEPT !.id = row.id]

\* ... turned away, ...
LEMMA TurnedAwayType ==
  \A row \in MemberRow, loaded \in MemberRow :
    TurnedAway(row, loaded) \in MemberRow /\ Bare(TurnedAway(row, loaded))
BY RemovalType DEF MemberRow, NoMember, NoSeal, Seal, TurnedAway, Bare

\* ... or started over.
LEMMA StartedOverType ==
  \A row \in MemberRow, loaded \in MemberRow :
    /\ StartedOver(row, loaded) \in MemberRow
    /\ row.status # "absent" => StartedOver(row, loaded).status # "absent"
<1> SUFFICES ASSUME NEW row \in MemberRow, NEW loaded \in MemberRow
             PROVE  /\ StartedOver(row, loaded) \in MemberRow
                    /\ row.status # "absent" => StartedOver(row, loaded).status # "absent"
  OBVIOUS
<1> DEFINE st == IF loaded.status = "pending" THEN row.status ELSE "pending"
           pub == IF loaded.pub = 0 THEN row.pub ELSE 0
           seal == IF loaded.sealed = NoSeal THEN row.sealed ELSE NoSeal
<1>1. /\ st \in {"absent", "pending", "active", "removed"} /\ pub \in Nat /\ seal \in Seal
      /\ row.status # "absent" => st # "absent"
  BY RowConstants DEF MemberRow
<1>2. StartedOver(row, loaded) = [row EXCEPT !.status = st, !.pub = pub, !.sealed = seal]
  BY DEF StartedOver, MemberRow
<1> HIDE DEF st, pub, seal
<1> QED
  BY <1>1, <1>2 DEF MemberRow

\* Enough for the type of the members' table after a step: one row changed to
\* a row that is not absent, or is bare.
LEMMA TableType ==
  ASSUME TypeOK, NEW m \in Member, NEW row \in MemberRow, Bare(row),
         member' = [member EXCEPT ![m] = row]
  PROVE  /\ member' \in [Member -> MemberRow]
         /\ \A o \in Member : Bare(member'[o])
BY DEF TypeOK, Bare

\* What a slot is given, moved on in, or cleared to, is a request.
LEMMA SlotSteps ==
  ASSUME TypeOK, NEW h \in Handler
  PROVE  /\ \A t \in Task : Run(h, t) => task' \in [Handler -> Task]
         /\ \A pc \in Pcs : Goto(h, pc) => task' \in [Handler -> Task]
         /\ Done(h) => task' \in [Handler -> Task]
         /\ task[h] \in Task
<1>1. task[h] \in Task
  BY DEF TypeOK
<1>2. \A pc \in Pcs : [task[h] EXCEPT !.pc = pc] \in Task
  BY <1>1, LocalTypes
<1>3. ASSUME NEW pc \in Pcs, Goto(h, pc)
      PROVE  task' \in [Handler -> Task]
  <2>1. task' = [task EXCEPT ![h] = [task[h] EXCEPT !.pc = pc]]
    BY <1>3 DEF Goto
  <2> QED
    BY <2>1, <1>2 DEF TypeOK
<1> QED
  BY <1>1, <1>3, NoTaskType DEF TypeOK, Run, Done

\* The initial states are well typed.
LEMMA InitType == Init => TypeOK
<1> SUFFICES ASSUME Init PROVE TypeOK
  OBVIOUS
<1>1. task \in [Handler -> Task]
  BY NoTaskType DEF Init
<1>2. member \in [Member -> MemberRow]
  BY RowConstants DEF Init
<1>3. \A m \in Member : member[m].status = "absent" => member[m] = [NoMember EXCEPT !.id = member[m].id]
  BY DEF Init, NoMember, Founder
<1>4. ring \in [Member -> Key]
  BY RowConstants DEF Init
<1>5. rows \in [Row -> Cipher]
  BY RowConstants DEF Init
<1>6. minted \in 1 .. MaxDek /\ written \in Nat /\ made \in [Member -> Nat]
  BY BoundsAssumption DEF Init
<1>7. tenant \in [status : {"active", "rekeying", "suspended"}, version : 1 .. 255, dek : Nat]
  BY DEF Init
<1> QED
  BY <1>1, <1>2, <1>3, <1>4, <1>5, <1>6, <1>7, FoundersAssumption DEF Init, TypeOK

-----------------------------------------------------------------------------
(* Each action keeps the types.                                             *)

\* Steps that belong to no request keep the types.
LEMMA NoRequestType ==
  ASSUME TypeOK, NEW m \in Member, SignIn(m) \/ Join(m) \/ Lock(m)
  PROVE  TypeOK'
<1>1. CASE SignIn(m)
  BY <1>1 DEF TypeOK, SignIn, counters
<1>2. CASE Join(m)
  <2>1. member'[m] \in MemberRow /\ member'[m].status = "pending"
    <3> DEFINE id == IF member[m].status = "absent" THEN member[m].id + 1 ELSE member[m].id
    <3>1. id \in Nat /\ member[m].returning \in BOOLEAN
      BY DEF TypeOK, MemberRow
    <3>2. member'[m] = Pending(id, member[m].returning)
      BY <1>2 DEF TypeOK, Join
    <3> HIDE DEF id
    <3> QED
      BY <3>1, <3>2, PendingType
  <2>2. member' \in [Member -> MemberRow] /\ \A o \in Member \ {m} : member'[o] = member[o]
    BY <1>2, <2>1 DEF TypeOK, Join
  <2> QED
    BY <1>2, <2>1, <2>2 DEF TypeOK, Join, counters
<1>3. CASE Lock(m)
  BY <1>3, RowConstants DEF TypeOK, Lock, counters
<1> QED
  BY <1>1, <1>2, <1>3

\* The operator and the process keep the types.
LEMMA ProcessType == TypeOK /\ (Suspend \/ Resume \/ Restart) => TypeOK'
<1> SUFFICES ASSUME TypeOK, Suspend \/ Resume \/ Restart PROVE TypeOK'
  OBVIOUS
<1>1. CASE Suspend
  BY <1>1 DEF TypeOK, Suspend, counters
<1>2. CASE Resume
  BY <1>2 DEF TypeOK, Resume, counters
<1>3. CASE Restart
  BY <1>3, NoTaskType, RowConstants DEF TypeOK, Restart, Released, counters
<1> QED
  BY <1>1, <1>2, <1>3

\* Requests that only look before they first wait.
LEMMA ArriveType ==
  ASSUME TypeOK, NEW h \in Handler, Arrive(h)
  PROVE  TypeOK'
<1> USE NoTaskType
<1>1. PICK m \in Member :
        \/ SetupLoad(h, m)
        \/ UnlockLoad(h, m)
        \/ \E op \in {"change", "recover"} : ChangeLoad(h, m, op)
        \/ \E r \in Row : WriteBind(h, m, r)
        \/ LeaveCheck(h, m)
        \/ ResetCheck(h, m)
        \/ \E o \in Member : \/ ApproveCheck(h, m, o)
                             \/ DeclineCheck(h, m, o)
                             \/ RemoveCheck(h, m, o)
                             \/ DropCheck(h, m, o)
                             \/ TransferCheck(h, m, o)
  BY DEF Arrive
<1>2. member[m] \in MemberRow /\ ring[m] \in Key /\ made[m] \in Nat /\ written \in Nat /\ minted \in Nat
  BY BoundsAssumption DEF TypeOK
<1>3. ASSUME NEW t \in Task, Run(h, t), OnlyTask
      PROVE  TypeOK'
  BY <1>3, SlotSteps DEF TypeOK, OnlyTask, counters
<1>4. CASE SetupLoad(h, m)
  <2>1. WithBlock(member[m], made[m] + 1, NoSeal) \in MemberRow
    BY <1>2, RowConstants, BlockType
  <2>2. "setup" \in Pcs /\ "setup" \in Kinds
    BY DEF Pcs, Kinds
  <2>3. task' \in [Handler -> Task]
    BY <1>4, <2>1, <2>2, SlotSteps, LocalTypes DEF SetupLoad
  <2> QED
    BY <1>4, <2>3, <1>2 DEF SetupLoad, TypeOK
<1>5. CASE UnlockLoad(h, m)
  <2>1. "version" \in Pcs /\ "unlock" \in Kinds
    BY DEF Pcs, Kinds
  <2> QED
    BY <1>2, <1>3, <1>5, <2>1, LocalTypes DEF UnlockLoad
<1>6. ASSUME NEW op \in {"change", "recover"}, ChangeLoad(h, m, op)
      PROVE  TypeOK'
  <2>1. "save" \in Pcs /\ op \in Kinds
    BY DEF Pcs, Kinds
  <2> QED
    BY <1>2, <1>3, <1>6, <2>1, LocalTypes DEF ChangeLoad
<1>7. ASSUME NEW r \in Row, WriteBind(h, m, r)
      PROVE  TypeOK'
  <2>1. "write" \in Pcs /\ "write" \in Kinds /\ {r} \in SUBSET Row /\ written + 1 \in Nat
    BY <1>2 DEF Pcs, Kinds
  <2>2. task' \in [Handler -> Task]
    BY <1>2, <1>7, <2>1, SlotSteps, LocalTypes DEF WriteBind
  <2> QED
    BY <1>7, <2>1, <2>2 DEF WriteBind, TypeOK
<1>8. ASSUME NEW op \in {"remove", "leave"}, NEW o \in Member, TakeOut(h, op, m, o)
      PROVE  TypeOK'
  <2>1. "holders" \in Pcs /\ op \in Kinds /\ minted + 1 \in Nat /\ member[o] \in MemberRow
    BY <1>2 DEF Pcs, Kinds, TypeOK
  <2>2. task' \in [Handler -> Task]
    BY <1>2, <1>8, <2>1, SlotSteps, LocalTypes DEF TakeOut
  <2>3. minted' \in 1 .. MaxDek
    BY <1>8, BoundsAssumption DEF TakeOut, TypeOK
  <2> QED
    BY <1>8, <2>2, <2>3 DEF TakeOut, TypeOK
<1>9. CASE ResetCheck(h, m)
  <2>1. "reset" \in Pcs /\ "reset" \in Kinds
    BY DEF Pcs, Kinds
  <2> QED
    BY <1>2, <1>3, <1>9, <2>1, LocalTypes DEF ResetCheck
<1>10. ASSUME NEW o \in Member,
              \/ ApproveCheck(h, m, o) \/ DeclineCheck(h, m, o)
              \/ DropCheck(h, m, o) \/ TransferCheck(h, m, o)
       PROVE  TypeOK'
  <2>1. member[o] \in MemberRow
    BY DEF TypeOK
  <2>2. /\ {"seal", "decline", "drop", "transfer"} \subseteq Pcs
        /\ {"approve", "decline", "drop", "transfer"} \subseteq Kinds
    BY DEF Pcs, Kinds
  <2>3. CASE ApproveCheck(h, m, o)
    BY <1>2, <1>3, <2>1, <2>2, <2>3, LocalTypes DEF ApproveCheck
  <2>4. CASE DeclineCheck(h, m, o)
    BY <1>3, <2>1, <2>2, <2>4, LocalTypes DEF DeclineCheck
  <2>5. CASE DropCheck(h, m, o)
    BY <1>3, <2>1, <2>2, <2>5, LocalTypes DEF DropCheck
  <2>6. CASE TransferCheck(h, m, o)
    BY <1>3, <2>1, <2>2, <2>6, LocalTypes DEF TransferCheck
  <2> QED
    BY <1>10, <2>3, <2>4, <2>5, <2>6
<1> QED
  BY <1>1, <1>4, <1>5, <1>6, <1>7, <1>8, <1>9, <1>10 DEF RemoveCheck, LeaveCheck

-----------------------------------------------------------------------------

\* A step that changes one member's row and the request, and nothing else.
LEMMA RowStepType ==
  ASSUME TypeOK, NEW m \in Member, NEW row \in MemberRow, Bare(row),
         member' = [member EXCEPT ![m] = row] \/ member' = member,
         task' \in [Handler -> Task], OnlyMember
  PROVE  TypeOK'
<1>1. member' \in [Member -> MemberRow] /\ \A o \in Member : Bare(member'[o])
  BY TableType DEF TypeOK, Bare
<1> QED
  BY <1>1 DEF TypeOK, OnlyMember, counters, Bare

\* The steps of KeyService keep the types.
LEMMA KeyStepType ==
  ASSUME TypeOK, NEW h \in Handler,
         SetupSave(h) \/ ReadVersion(h) \/ Put(h) \/ SavePassphrase(h) \/ Reopen(h)
  PROVE  TypeOK'
<1> DEFINE t == task[h]
<1>1. t \in Task
  BY SlotSteps
<1>2. /\ t.who \in Member /\ t.key \in Key /\ t.loaded \in MemberRow
      /\ t.loaded.sealed \in Seal /\ t.loaded.pub \in Nat /\ t.loaded.sealed.dek \in Nat
      /\ member[t.who] \in MemberRow
  BY <1>1 DEF Task, MemberRow, Seal, TypeOK
<1>3. {"put", "version", "reopen"} \subseteq Pcs
  BY DEF Pcs
<1>4. ASSUME SaveBlock(h), task' \in [Handler -> Task], OnlyMember
      PROVE  TypeOK'
  <2> DEFINE row == WithBlock(member[t.who], t.loaded.pub, t.loaded.sealed)
  <2>1. row \in MemberRow /\ row.status = member[t.who].status
    BY <1>2, BlockType
  <2>2. CASE member[t.who].status = "absent"
    BY <1>4, <2>2 DEF SaveBlock, TypeOK, OnlyMember, counters
  <2>3. CASE member[t.who].status # "absent"
    <3>1. Bare(row)
      BY <2>1, <2>3 DEF Bare
    <3>2. member' = [member EXCEPT ![t.who] = row]
      BY <1>4, <2>3 DEF SaveBlock
    <3> HIDE DEF row
    <3> QED
      BY <1>2, <1>4, <2>1, <3>1, <3>2, RowStepType
  <2> QED
    BY <2>2, <2>3
<1>5. CASE SetupSave(h)
  BY <1>4, <1>5, SlotSteps DEF SetupSave
<1>6. CASE ReadVersion(h)
  <2>1. [dek |-> t.loaded.sealed.dek, version |-> tenant.version] \in Key
    BY <1>2 DEF TypeOK, Key
  <2>2. task' \in [Handler -> Task]
    BY <1>1, <1>3, <1>6, <2>1, SlotSteps, LocalTypes DEF ReadVersion
  <2> QED
    BY <1>6, <2>2 DEF ReadVersion, OnlyTask, TypeOK, counters
<1>7. CASE Put(h)
  BY <1>2, <1>7, SlotSteps DEF Put, TypeOK, counters
<1>8. CASE SavePassphrase(h)
  BY <1>3, <1>4, <1>8, SlotSteps DEF SavePassphrase
<1>9. CASE Reopen(h)
  BY <1>3, <1>9, SlotSteps DEF Reopen, OnlyTask, TypeOK, counters
<1> QED
  BY <1>5, <1>6, <1>7, <1>8, <1>9

\* The commits of a write and of the other requests keep the types.
LEMMA MemberStepType ==
  ASSUME TypeOK, NEW h \in Handler,
         \/ WriteCommit(h) \/ ApproveSeal(h) \/ DeclineCommit(h) \/ DropCommit(h)
         \/ Revoke(h) \/ RevokeFails(h) \/ TransferCommit(h) \/ ResetCommit(h) \/ Lockout(h)
  PROVE  TypeOK'
<1> DEFINE t == task[h]
<1>1. t \in Task
  BY SlotSteps
<1>2. /\ t.who \in Member /\ t.whom \in Member /\ t.key \in Key /\ t.loaded \in MemberRow
      /\ t.fresh \in Nat /\ t.key.dek \in Nat /\ t.loaded.pub \in Nat
      /\ member[t.who] \in MemberRow /\ member[t.whom] \in MemberRow
  BY <1>1 DEF Task, MemberRow, Key, TypeOK
<1>3. {"revoke", "lockout"} \subseteq Pcs
  BY DEF Pcs
<1>4. CASE WriteCommit(h)
  <2>1. rows' \in [Row -> Cipher]
    BY <1>2, <1>4 DEF WriteCommit, TypeOK, Cipher
  <2> QED
    BY <1>4, <2>1, SlotSteps DEF WriteCommit, TypeOK, counters
<1>5. CASE ApproveSeal(h)
  <2> DEFINE row == Approved(member[t.whom], [dek |-> t.key.dek, to |-> t.loaded.pub])
  <2>1. row \in MemberRow /\ row.status = "active"
    <3>1. [dek |-> t.key.dek, to |-> t.loaded.pub] \in Seal
      BY <1>2 DEF Seal
    <3> QED
      BY <1>2, <3>1, SealedType
  <2>2. Bare(row)
    BY <2>1 DEF Bare
  <2>3. member' = [member EXCEPT ![t.whom] = row] \/ member' = member
    BY <1>5 DEF ApproveSeal
  <2>4. given' \subseteq Member
    BY <1>2, <1>5 DEF ApproveSeal, TypeOK
  <2>5. member' \in [Member -> MemberRow] /\ \A o \in Member : Bare(member'[o])
    <3> HIDE DEF row
    <3> QED
      BY <1>2, <2>1, <2>2, <2>3, TableType DEF TypeOK, Bare
  <2> QED
    BY <1>5, <2>4, <2>5, SlotSteps DEF ApproveSeal, TypeOK, counters, Bare
<1>6. CASE DeclineCommit(h)
  BY <1>2, <1>6, TurnedAwayType, SlotSteps, RowStepType DEF DeclineCommit
<1>7. CASE DropCommit(h)
  <2>1. Removal(member[t.whom]) \in MemberRow /\ Bare(Removal(member[t.whom]))
    BY <1>2, RemovalType DEF Bare
  <2> QED
    BY <1>2, <1>3, <1>7, <2>1, SlotSteps, RowStepType DEF DropCommit
<1>8. CASE Revoke(h) \/ RevokeFails(h) \/ Lockout(h)
  <2>1. task' \in [Handler -> Task]
    BY <1>3, <1>8, SlotSteps DEF Revoke, RevokeFails, Lockout
  <2> QED
    BY <1>2, <1>8, <2>1, RowConstants DEF Revoke, RevokeFails, Lockout, OnlyTask, TypeOK, counters
<1>9. CASE TransferCommit(h)
  <2>1. CASE member' = member
    BY <1>9, <2>1, SlotSteps DEF TransferCommit, OnlyMember, TypeOK, counters
  <2>2. CASE member' = HandedOver(t.who, t.whom) /\ member[t.who].status # "absent"
             /\ member[t.whom].status # "absent"
    <3>1. member' \in [Member -> MemberRow] /\ \A o \in Member : member'[o].status = member[o].status
      BY <1>2, <2>2, RoleType DEF HandedOver, TypeOK
    <3>2. \A o \in Member : member'[o] = member[o] \/ member[o].status # "absent"
      BY <1>2, <2>2 DEF HandedOver, TypeOK
    <3> QED
      BY <1>9, <3>1, <3>2, SlotSteps DEF TransferCommit, OnlyMember, TypeOK, counters
  <2> QED
    BY <1>9, <2>1, <2>2 DEF TransferCommit, Here
<1>10. CASE ResetCommit(h)
  <2> DEFINE row == StartedOver(member[t.whom], t.loaded)
  <2>1. row \in MemberRow /\ (member[t.whom].status # "absent" => row.status # "absent")
    BY <1>2, StartedOverType
  <2>2. CASE Here(t.whom, t.loaded.id)
    <3>1. Bare(row)
      BY <2>1, <2>2 DEF Bare, Here
    <3>2. member' = [member EXCEPT ![t.whom] = row] /\ task' \in [Handler -> Task] /\ OnlyMember
      BY <1>3, <1>10, <2>2, SlotSteps DEF ResetCommit
    <3> HIDE DEF row
    <3> QED
      BY <1>2, <2>1, <3>1, <3>2, RowStepType
  <2>3. CASE ~Here(t.whom, t.loaded.id)
    BY <1>10, <2>3, SlotSteps DEF ResetCommit, OnlyMember, TypeOK, counters
  <2> QED
    BY <2>2, <2>3
<1> QED
  BY <1>4, <1>5, <1>6, <1>7, <1>8, <1>9, <1>10

\* The key a re-key makes has a version that fits its byte.
LEMMA FreshKeyType == \A t \in Task : FreshKey(t) \in Key /\ FreshKey(t).version \in 1 .. 255
<1> SUFFICES ASSUME NEW t \in Task
             PROVE  FreshKey(t) \in Key /\ FreshKey(t).version \in 1 .. 255
  OBVIOUS
<1>1. t.fresh \in Nat /\ t.key.version \in Nat
  BY DEF Task, Key
<1> QED
  BY <1>1, NextVersionType DEF FreshKey, Key

\* The steps of a re-key keep the types.
LEMMA RekeyStepType ==
  ASSUME TypeOK, NEW h \in Handler,
         \/ Holders(h) \/ Claim(h) \/ Freeze(h) \/ ReadRows(h) \/ CommitRekey(h) \/ ReplaceKey(h)
         \/ Look(h) \/ Sweep(h) \/ Thaw(h) \/ ClearMark(h) \/ Unfreeze(h)
         \/ RekeyFails(h) \/ MarkFails(h) \/ SweepFails(h)
  PROVE  TypeOK'
<1> DEFINE t == task[h]
<1>1. t \in Task
  BY SlotSteps
<1>2. /\ t.who \in Member /\ t.whom \in Member /\ t.key \in Key /\ t.loaded \in MemberRow
      /\ t.fresh \in Nat /\ t.held \in [Member -> MemberRow] /\ t.seen \in [Row -> Cipher]
      /\ member \in [Member -> MemberRow]
  BY <1>1 DEF Task, TypeOK
<1>3. /\ "commit" \in Pcs /\ "read" \in Pcs /\ "look1" \in Pcs /\ "look2" \in Pcs
      /\ "sweep1" \in Pcs /\ "sweep2" \in Pcs /\ "thaw" \in Pcs /\ "freeze" \in Pcs
      /\ "mark" \in Pcs /\ "unfreeze" \in Pcs /\ "replace" \in Pcs /\ "lockout" \in Pcs
  BY DEF Pcs
<1>4. CASE Holders(h)
  <2>1. [o \in Member |-> IF Stays(o, t.whom) THEN member[o] ELSE NoMember] \in [Member -> MemberRow]
    BY <1>2, RowConstants
  <2>2. task' \in [Handler -> Task]
    BY <1>1, <1>4, <2>1, LocalTypes, SlotSteps DEF Holders
  <2> QED
    BY <1>4, <2>2 DEF Holders, OnlyTask, TypeOK, counters
<1>5. CASE Claim(h)
  <2>1. task' \in [Handler -> Task]
    BY <1>3, <1>5, SlotSteps DEF Claim, Refuse
  <2>2. /\ tenant' \in [status : {"active", "rekeying", "suspended"}, version : 1 .. 255, dek : Nat]
        /\ frozen' \in BOOLEAN /\ overtook' \in BOOLEAN
    <3>1. CASE MayClaim(t)
      BY <1>5, <3>1 DEF Claim, TypeOK
    <3>2. CASE ~MayClaim(t)
      BY <1>5, <3>2 DEF Claim, Refuse, TypeOK
    <3> QED
      BY <3>1, <3>2
  <2> QED
    BY <1>5, <2>1, <2>2 DEF Claim, TypeOK, counters
<1>6. CASE Freeze(h) \/ Unfreeze(h) \/ RekeyFails(h) \/ MarkFails(h) \/ SweepFails(h) \/ Thaw(h)
  <2>1. task' \in [Handler -> Task]
    BY <1>3, <1>6, SlotSteps DEF Freeze, Unfreeze, RekeyFails, MarkFails, SweepFails, Thaw
  <2> QED
    BY <1>6, <2>1 DEF Freeze, Unfreeze, RekeyFails, MarkFails, SweepFails, Thaw, OnlyTask,
                      TypeOK, counters
<1>7. CASE ReadRows(h)
  <2>1. task' \in [Handler -> Task]
    BY <1>1, <1>3, <1>7, LocalTypes, SlotSteps DEF ReadRows, TypeOK
  <2> QED
    BY <1>7, <2>1 DEF ReadRows, OnlyTask, TypeOK, counters
<1>8. CASE CommitRekey(h)
  <2>1. \A o \in Member : SealedTo(t, o) \in Seal
    BY <1>2 DEF SealedTo, Seal, MemberRow
  <2>2. \A o \in Member : AfterRekey(t, o) \in MemberRow /\ Bare(AfterRekey(t, o))
    <3> SUFFICES ASSUME NEW o \in Member
                 PROVE  AfterRekey(t, o) \in MemberRow /\ Bare(AfterRekey(t, o))
      OBVIOUS
    <3>1. member[o] \in MemberRow /\ Bare(member[o])
      BY DEF TypeOK, Bare
    <3>2. CASE AfterRekey(t, o) = Removal(member[o])
      BY <3>1, <3>2, RemovalType DEF Bare
    <3>3. CASE AfterRekey(t, o) = Sealed(member[o], SealedTo(t, o)) /\ member[o].status # "absent"
      BY <2>1, <3>1, <3>3, SealedType DEF Bare
    <3> QED
      BY <3>1, <3>2, <3>3 DEF AfterRekey, Kept, Here
  <2>3. rows' \in [Row -> Cipher]
    BY <1>1, <1>2, <1>8, FreshKeyType DEF CommitRekey, Rewritten, Cipher
  <2>5. tenant' \in [status : {"active", "rekeying", "suspended"}, version : 1 .. 255, dek : Nat]
    BY <1>1, <1>2, <1>8, FreshKeyType DEF CommitRekey
  <2>6. task' \in [Handler -> Task]
    BY <1>3, <1>8, SlotSteps DEF CommitRekey
  <2>7. member' \in [Member -> MemberRow] /\ \A o \in Member : Bare(member'[o])
    BY <1>8, <2>2 DEF CommitRekey
  <2>8. given' \subseteq Member /\ signedIn' \subseteq Member
    BY <1>8 DEF CommitRekey, Kept, TypeOK
  <2> QED
    BY <1>8, <2>3, <2>5, <2>6, <2>7, <2>8 DEF CommitRekey, TypeOK, counters, Bare
<1>9. CASE Look(h)
  <2> DEFINE late == {r \in Row : rows[r].key.version = t.key.version}
             next == IF t.pc = "look1" THEN "sweep1" ELSE "sweep2"
  <2>1. late \in SUBSET Row /\ next \in Pcs /\ rows \in [Row -> Cipher]
    BY <1>3 DEF TypeOK
  <2>2. Touching(Seen(t, next, rows), late) \in Task
    <3> HIDE DEF late, next
    <3> QED
      BY <1>1, <2>1, LocalTypes
  <2>3. task' \in [Handler -> Task]
    BY <1>3, <1>9, <2>2, SlotSteps DEF Look
  <2> QED
    BY <1>9, <2>3 DEF Look, TypeOK, counters
<1>10. CASE Sweep(h)
  <2>1. rows' \in [Row -> Cipher]
    BY <1>1, <1>2, <1>10, FreshKeyType DEF Sweep, TypeOK, Cipher
  <2>2. task' \in [Handler -> Task]
    BY <1>3, <1>10, SlotSteps DEF Sweep
  <2> QED
    BY <1>10, <2>1, <2>2 DEF Sweep, TypeOK, counters
<1>11. CASE ReplaceKey(h)
  <2>1. ring' \in [Member -> Key]
    BY <1>1, <1>11, FreshKeyType, RowConstants DEF ReplaceKey, RingAfter
  <2>2. task' \in [Handler -> Task]
    BY <1>3, <1>11, SlotSteps DEF ReplaceKey
  <2> QED
    BY <1>11, <2>1, <2>2 DEF ReplaceKey, TypeOK, counters
<1>12. CASE ClearMark(h)
  <2>1. task' \in [Handler -> Task]
    BY <1>3, <1>12, SlotSteps DEF ClearMark
  <2>2. tenant' \in [status : {"active", "rekeying", "suspended"}, version : 1 .. 255, dek : Nat]
    BY <1>12 DEF ClearMark, TypeOK
  <2> QED
    BY <1>12, <2>1, <2>2 DEF ClearMark, TypeOK, counters
<1> QED
  BY <1>4, <1>5, <1>6, <1>7, <1>8, <1>9, <1>10, <1>11, <1>12

\* Every step keeps the types.
LEMMA NextType == TypeOK /\ [Next]_vars => TypeOK'
<1> SUFFICES ASSUME TypeOK, [Next]_vars PROVE TypeOK'
  OBVIOUS
<1>1. CASE UNCHANGED vars
  BY <1>1 DEF vars, TypeOK
<1>2. CASE \E m \in Member : SignIn(m) \/ Join(m) \/ Lock(m)
  BY <1>2, NoRequestType
<1>3. CASE \E h \in Handler : Arrive(h)
  BY <1>3, ArriveType
<1>4. CASE \E h \in Handler : Step(h)
  BY <1>4, KeyStepType, MemberStepType, RekeyStepType DEF Step
<1>5. CASE Suspend \/ Resume \/ Restart
  BY <1>5, ProcessType
<1> QED
  BY <1>1, <1>2, <1>3, <1>4, <1>5 DEF Next

\* Whatever requests interleave, fail or are cut short by a restart, every
\* table, the ring and every request's locals keep their types; a deleted
\* membership keeps no key block, and the key version fits its byte.
THEOREM TypeCorrect == Spec => []TypeOK
<1>1. Init => TypeOK
  BY InitType
<1>2. TypeOK /\ [Next]_vars => TypeOK'
  BY NextType
<1> QED
  BY <1>1, <1>2, PTL DEF Spec

-----------------------------------------------------------------------------
(***************************************************************************)
(* The re-key of a household excludes every other one, for any number of   *)
(* members and of requests in flight, through failures and restarts, as    *)
(* long as nobody suspends the household (a suspension overwrites the mark *)
(* the claim relies on).                                                   *)
(***************************************************************************)

\* What the record constructors of a request leave in its fields.
LEMMA LocalValues ==
  /\ \A pc \in Pcs, op \in Kinds, m \in Member, o \in Member : Start(pc, op, m, o).pc = pc
  /\ \A t \in Task :
       /\ \A row \in MemberRow : /\ Loaded(t, row).pc = t.pc
                                 /\ Loaded(t, row).key = t.key
                                 /\ Loaded(t, row).fresh = t.fresh
       /\ \A key \in Key : Holding(t, key).pc = t.pc /\ Holding(t, key).key = key
       /\ \A n \in Nat : /\ Making(t, n).pc = t.pc
                         /\ Making(t, n).key = t.key
                         /\ Making(t, n).fresh = n
       /\ \A rs \in SUBSET Row : Touching(t, rs).pc = t.pc
       /\ \A rs \in SUBSET Row : Touching(t, rs).key = t.key
       /\ \A rs \in SUBSET Row : Touching(t, rs).fresh = t.fresh
       /\ \A held \in [Member -> MemberRow] : /\ Counted(t, held).pc = "claim"
                                              /\ Counted(t, held).key = t.key
                                              /\ Counted(t, held).fresh = t.fresh
       /\ \A pc \in Pcs, rs \in [Row -> Cipher] : /\ Seen(t, pc, rs).pc = pc
                                                  /\ Seen(t, pc, rs).key = t.key
                                                  /\ Seen(t, pc, rs).fresh = t.fresh
<1>1. \A pc \in Pcs, op \in Kinds, m \in Member, o \in Member : Start(pc, op, m, o).pc = pc
  BY NoTaskType DEF Start, Task
<1>2. ASSUME NEW t \in Task
      PROVE  /\ \A row \in MemberRow : /\ Loaded(t, row).pc = t.pc
                                       /\ Loaded(t, row).key = t.key
                                       /\ Loaded(t, row).fresh = t.fresh
             /\ \A key \in Key : Holding(t, key).pc = t.pc /\ Holding(t, key).key = key
             /\ \A n \in Nat : /\ Making(t, n).pc = t.pc
                               /\ Making(t, n).key = t.key
                               /\ Making(t, n).fresh = n
             /\ \A rs \in SUBSET Row : Touching(t, rs).pc = t.pc
             /\ \A rs \in SUBSET Row : Touching(t, rs).key = t.key
             /\ \A rs \in SUBSET Row : Touching(t, rs).fresh = t.fresh
  BY DEF Loaded, Holding, Making, Touching, Task
<1>3. ASSUME NEW t \in Task
      PROVE  /\ \A held \in [Member -> MemberRow] : /\ Counted(t, held).pc = "claim"
                                                    /\ Counted(t, held).key = t.key
                                                    /\ Counted(t, held).fresh = t.fresh
             /\ \A pc \in Pcs, rs \in [Row -> Cipher] : /\ Seen(t, pc, rs).pc = pc
                                                        /\ Seen(t, pc, rs).key = t.key
                                                        /\ Seen(t, pc, rs).fresh = t.fresh
  BY DEF Counted, Seen, Task
<1> QED
  BY <1>1, <1>2, <1>3

\* What the requests that capture a key begin with.
LEMMA StartedValues ==
  ASSUME NEW pc \in Pcs, NEW op \in Kinds, NEW m \in Member, NEW o \in Member, NEW key \in Key
  PROVE  /\ \A n \in Nat, rs \in SUBSET Row :
              Touching(Making(Holding(Start(pc, op, m, o), key), n), rs).pc = pc
         /\ \A row \in MemberRow : Loaded(Holding(Start(pc, op, m, o), key), row).pc = pc
         /\ \A n \in Nat, row \in MemberRow :
              /\ Loaded(Making(Holding(Start(pc, op, m, o), key), n), row).pc = pc
              /\ Loaded(Making(Holding(Start(pc, op, m, o), key), n), row).key = key
              /\ Loaded(Making(Holding(Start(pc, op, m, o), key), n), row).fresh = n
<1> DEFINE s == Start(pc, op, m, o)
           u == Holding(s, key)
<1>1. s \in Task /\ s.pc = pc
  BY LocalTypes, LocalValues
<1> HIDE DEF s
<1>2. u \in Task /\ u.pc = pc /\ u.key = key
  BY <1>1, LocalTypes, LocalValues
<1> HIDE DEF u
<1>3. \A row \in MemberRow : Loaded(u, row).pc = pc
  BY <1>2, LocalValues
<1>4. ASSUME NEW n \in Nat
      PROVE  /\ Making(u, n) \in Task /\ Making(u, n).pc = pc
             /\ Making(u, n).key = key /\ Making(u, n).fresh = n
  BY <1>2, LocalTypes, LocalValues
<1>5. \A n \in Nat, rs \in SUBSET Row : Touching(Making(u, n), rs).pc = pc
  BY <1>4, LocalValues
<1>6. \A n \in Nat, row \in MemberRow : /\ Loaded(Making(u, n), row).pc = pc
                                        /\ Loaded(Making(u, n), row).key = key
                                        /\ Loaded(Making(u, n), row).fresh = n
  BY <1>4, LocalValues
<1> QED
  BY <1>3, <1>5, <1>6 DEF s, u

\* How a step changes the slots, point by point.
LEMMA SlotValues ==
  ASSUME TypeOK, NEW h \in Handler
  PROVE  /\ \A t : Run(h, t) => task'[h] = t /\ \A k \in Handler \ {h} : task'[k] = task[k]
         /\ \A pc \in Pcs : Goto(h, pc) =>
              /\ task'[h].pc = pc /\ task'[h].key = task[h].key /\ task'[h].fresh = task[h].fresh
              /\ \A k \in Handler \ {h} : task'[k] = task[k]
         /\ Done(h) => task'[h].pc = "idle" /\ \A k \in Handler \ {h} : task'[k] = task[k]
<1>1. \A t : Run(h, t) => task'[h] = t /\ \A k \in Handler \ {h} : task'[k] = task[k]
  BY DEF TypeOK, Run
<1>2. ASSUME NEW pc \in Pcs, Goto(h, pc)
      PROVE  /\ task'[h].pc = pc /\ task'[h].key = task[h].key /\ task'[h].fresh = task[h].fresh
             /\ \A k \in Handler \ {h} : task'[k] = task[k]
  <2>1. task' = [task EXCEPT ![h] = [task[h] EXCEPT !.pc = pc]]
    BY <1>2 DEF Goto
  <2>2. task'[h] = [task[h] EXCEPT !.pc = pc] /\ \A k \in Handler \ {h} : task'[k] = task[k]
    BY <2>1 DEF TypeOK
  <2>3. task[h] \in Task
    BY DEF TypeOK
  <2> QED
    BY <2>2, <2>3 DEF Task
<1>3. Done(h) => task'[h].pc = "idle" /\ \A k \in Handler \ {h} : task'[k] = task[k]
  BY DEF TypeOK, Done, NoTask
<1> QED
  BY <1>1, <1>2, <1>3

\* The versions and numbers the invariant compares.
LEMMA Numbers ==
  ASSUME TypeOK
  PROVE  /\ minted \in Nat /\ minted <= 254 /\ tenant.version \in Nat
         /\ \A k \in Handler : task[k].fresh \in Nat /\ task[k].key.version \in Nat
         /\ \A m \in Member : ring[m].version \in Nat
<1>1. minted \in Nat /\ minted <= 254 /\ tenant.version \in Nat
  BY BoundsAssumption DEF TypeOK
<1>2. \A k \in Handler : task[k].fresh \in Nat /\ task[k].key.version \in Nat
  BY DEF TypeOK, Task, Key
<1>3. \A m \in Member : ring[m].version \in Nat
  BY DEF TypeOK, Key
<1> QED
  BY <1>1, <1>2, <1>3

\* Steps outside the re-key: the slot holds nothing ahead of the registry,
\* and one that starts waiting for a claim starts outside a freeze.
LEMMA CalmStep ==
  ASSUME TypeOK, TypeOK', RekeyInv, NEW h \in Handler,
         tenant' = tenant, frozen' = frozen, overtook' = overtook, minted <= minted',
         \A m \in Member : ring'[m].version <= tenant.version,
         ~Rekeying(h), task'[h].pc \notin Underway, CapturedBehind(h)',
         \/ task'[h].pc \notin Waiting
         \/ ~frozen
         \/ task[h].pc \in Waiting /\ task'[h].key = task[h].key,
         \A k \in Handler \ {h} : task'[k] = task[k]
  PROVE  RekeyInv'
<1>1. minted \in Nat /\ minted' \in Nat /\ tenant.version \in Nat
  BY BoundsAssumption DEF TypeOK
<1>2. VersionsBehind'
  BY <1>1 DEF RekeyInv, VersionsBehind
<1>3. \A k \in Handler : task'[k].pc \in Underway \/ task[k].pc \in Underway =>
                           k # h /\ task'[k] = task[k]
  BY DEF Rekeying
<1>4. OneRekeyAtATime'
  BY <1>3 DEF RekeyInv, OneRekeyAtATime, Rekeying, Underway
<1>5. FreezeCoversRekey'
  BY <1>3 DEF RekeyInv, FreezeCoversRekey, UnderFreeze
<1>6. MarkMeansFrozen'
  BY <1>3 DEF RekeyInv, MarkMeansFrozen, Underway, Marked
<1>7. ASSUME NEW k \in Handler
      PROVE  (CapturedBehind(k) /\ MarkHeld(k) /\ OthersBehind(k))'
  <2>1. CASE k = h
    BY <2>1 DEF MarkHeld, OthersBehind, Underway
  <2>2. CASE k # h
    <3>1. task'[k] = task[k]
      BY <2>2
    <3>2. CapturedBehind(k)'
      BY <1>1, <3>1, Numbers DEF RekeyInv, CapturedBehind
    <3>3. MarkHeld(k)'
      BY <3>1 DEF RekeyInv, MarkHeld
    <3>4. ASSUME ~overtook, task[k].pc \in AfterCommit
          PROVE  frozen
      BY <3>4 DEF RekeyInv, FreezeCoversRekey, UnderFreeze, Underway, AfterCommit
    <3>5. OthersBehind(k)'
      BY <3>1, <3>4 DEF RekeyInv, OthersBehind
    <3> QED
      BY <3>2, <3>3, <3>5
  <2> QED
    BY <2>1, <2>2
<1> QED
  BY <1>2, <1>4, <1>5, <1>6, <1>7 DEF RekeyInv

\* A re-key moves on within its phase; the freeze is there already or comes.
LEMMA PhaseStep ==
  ASSUME TypeOK, TypeOK', RekeyInv, NEW h \in Handler,
         tenant' = tenant, overtook' = overtook, minted' = minted,
         \A m \in Member : ring'[m].version <= tenant.version,
         \/ frozen' = TRUE /\ task[h].pc \in Marked /\ task'[h].pc \in Marked \ {"freeze"}
         \/ /\ frozen' = frozen
            /\ \/ task[h].pc \in Marked \ {"freeze"} /\ task'[h].pc \in Marked \ {"freeze"}
               \/ task[h].pc \in AfterCommit /\ task'[h].pc \in AfterCommit \ {"replace"},
         task'[h].key = task[h].key, task'[h].fresh = task[h].fresh,
         \A k \in Handler \ {h} : task'[k] = task[k]
  PROVE  RekeyInv'
<1>1. VersionsBehind'
  BY DEF RekeyInv, VersionsBehind
<1>2. \A k \in Handler : /\ task'[k].key = task[k].key /\ task'[k].fresh = task[k].fresh
                         /\ (task'[k].pc \in Waiting <=> task[k].pc \in Waiting)
                         /\ (task'[k].pc \in Marked <=> task[k].pc \in Marked)
                         /\ (task'[k].pc \in AfterCommit <=> task[k].pc \in AfterCommit)
                         /\ (task'[k].pc = "put" <=> task[k].pc = "put")
                         /\ (task'[k].pc = "unfreeze" <=> task[k].pc = "unfreeze")
                         /\ (task'[k].pc = "replace" => task[k].pc = "replace")
                         /\ (task'[k].pc = "freeze" => task[k].pc = "freeze")
                         /\ (task[k].pc = "freeze" => task'[k].pc = "freeze" \/ frozen' = TRUE)
  BY DEF Waiting, Marked, AfterCommit
<1>3. OneRekeyAtATime'
  BY <1>2 DEF RekeyInv, OneRekeyAtATime, Rekeying, Underway
<1>4. FreezeCoversRekey'
  <2>1. CASE frozen' = TRUE
    BY <2>1 DEF FreezeCoversRekey
  <2>2. CASE frozen' = frozen /\ (task[h].pc \in Marked \ {"freeze"} \/ task[h].pc \in AfterCommit)
    <3>1. \A k \in Handler : task'[k].pc \in UnderFreeze => task[k].pc \in UnderFreeze
      BY <1>2, <2>2 DEF UnderFreeze, Underway, Marked, AfterCommit
    <3> QED
      BY <2>2, <3>1 DEF RekeyInv, FreezeCoversRekey
  <2> QED
    BY <2>1, <2>2
<1>5. MarkMeansFrozen'
  BY <1>2 DEF RekeyInv, MarkMeansFrozen
<1>6. ASSUME NEW k \in Handler
      PROVE  (CapturedBehind(k) /\ MarkHeld(k) /\ OthersBehind(k))'
  <2>1. CapturedBehind(k)'
    BY <1>2 DEF RekeyInv, CapturedBehind
  <2>2. MarkHeld(k)'
    BY <1>2 DEF RekeyInv, MarkHeld
  <2>3. OthersBehind(k)'
    BY <1>2 DEF RekeyInv, OthersBehind
  <2> QED
    BY <2>1, <2>2, <2>3
<1> QED
  BY <1>1, <1>3, <1>4, <1>5, <1>6 DEF RekeyInv

\* A re-key ends, well or badly: if none overtook it, it was the only one and
\* nobody misses the freeze.
LEMMA EndStep ==
  ASSUME TypeOK, TypeOK', RekeyInv, NEW h \in Handler, Rekeying(h),
         tenant' = tenant, overtook' = overtook, minted' = minted, MarkMeansFrozen',
         \A m \in Member : ring'[m].version <= tenant.version,
         task'[h].pc \notin Underway \cup Waiting \cup {"put"},
         \A k \in Handler \ {h} : task'[k] = task[k]
  PROVE  RekeyInv'
<1>1. VersionsBehind'
  BY DEF RekeyInv, VersionsBehind
<1>2. ~overtook => \A k \in Handler : task'[k].pc \notin Underway
  BY DEF RekeyInv, OneRekeyAtATime, Rekeying
<1>3. \A k \in Handler : task'[k].pc \in Underway \cup Waiting \cup {"put"} => task'[k] = task[k]
  OBVIOUS
<1>4. OneRekeyAtATime'
  BY <1>2, <1>3 DEF RekeyInv, OneRekeyAtATime, Rekeying, Underway
<1>5. FreezeCoversRekey'
  BY <1>2 DEF FreezeCoversRekey, UnderFreeze
<1>6. ASSUME NEW k \in Handler
      PROVE  (CapturedBehind(k) /\ MarkHeld(k) /\ OthersBehind(k))'
  <2>1. CASE task'[k].pc \in Underway \cup Waiting \cup {"put"}
    <3>1. CapturedBehind(k)' /\ MarkHeld(k)'
      BY <1>3, <2>1 DEF RekeyInv, CapturedBehind, MarkHeld
    <3>2. OthersBehind(k)'
      BY <1>2 DEF OthersBehind, Underway
    <3> QED
      BY <3>1, <3>2
  <2>2. CASE task'[k].pc \notin Underway \cup Waiting \cup {"put"}
    BY <2>2 DEF CapturedBehind, MarkHeld, OthersBehind, Underway, AfterCommit
  <2> QED
    BY <2>1, <2>2
<1> QED
  BY <1>1, <1>4, <1>5, <1>6 DEF RekeyInv

-----------------------------------------------------------------------------
(* Each action keeps the invariant.                                         *)

\* Places the invariant says nothing of.
Elsewhere == Pcs \ ({"put"} \cup Waiting \cup Underway)

\* The places a request outside a re-key may be in.
LEMMA ElsewherePcs ==
  /\ {"idle", "setup", "version", "save", "reopen", "write", "seal", "decline", "drop",
      "revoke", "transfer", "reset", "lockout"} \subseteq Elsewhere
  /\ \A h \in Handler : (task[h].pc \in Elsewhere => CapturedBehind(h))
BY DEF Elsewhere, Pcs, Waiting, Marked, AfterCommit, Underway, CapturedBehind

\* A request that goes, or stays, elsewhere.
LEMMA ElsewhereStep ==
  ASSUME TypeOK, TypeOK', RekeyInv, NEW h \in Handler,
         tenant' = tenant, frozen' = frozen, overtook' = overtook, minted' = minted,
         \A m \in Member : ring'[m].version <= tenant.version,
         ~Rekeying(h), task'[h].pc \in Elsewhere,
         \A k \in Handler \ {h} : task'[k] = task[k]
  PROVE  RekeyInv'
<1>1. CapturedBehind(h)'
  BY DEF CapturedBehind, Elsewhere, Underway, AfterCommit
<1>2. task'[h].pc \notin Underway /\ task'[h].pc \notin Waiting
  BY DEF Elsewhere
<1>3. minted <= minted'
  BY Numbers
<1> QED
  BY <1>1, <1>2, <1>3, CalmStep

\* A key in the ring carries no version ahead of the registry.
LEMMA RingBehind ==
  ASSUME TypeOK, RekeyInv
  PROVE  /\ \A m \in Member : ring[m].version <= tenant.version
         /\ ring' = ring => \A m \in Member : ring'[m].version <= tenant.version
         /\ \A o \in Member : ring' = [ring EXCEPT ![o] = NoKey] =>
              \A m \in Member : ring'[m].version <= tenant.version
<1>1. \A m \in Member : ring[m].version <= tenant.version
  BY DEF RekeyInv, VersionsBehind
<1>2. NoKey.version <= tenant.version
  BY Numbers DEF NoKey
<1>3. ring \in [Member -> Key]
  BY DEF TypeOK
<1>4. ASSUME NEW o \in Member, ring' = [ring EXCEPT ![o] = NoKey], NEW m \in Member
      PROVE  ring'[m].version <= tenant.version
  <2>1. ring'[m] = NoKey \/ ring'[m] = ring[m]
    BY <1>3, <1>4
  <2> QED
    BY <1>1, <1>2, <2>1
<1> QED
  BY <1>1, <1>4

\* A request begins outside a re-key.
LEMMA ArrivePcs ==
  ASSUME TypeOK, NEW h \in Handler, Arrive(h)
  PROVE  /\ task[h].pc = "idle"
         /\ task'[h].pc \in {"setup", "version", "save", "write", "seal", "decline", "holders",
                             "drop", "transfer", "reset"}
<1>1. PICK m \in Member :
        \/ SetupLoad(h, m)
        \/ UnlockLoad(h, m)
        \/ \E op \in {"change", "recover"} : ChangeLoad(h, m, op)
        \/ \E r \in Row : WriteBind(h, m, r)
        \/ LeaveCheck(h, m)
        \/ ResetCheck(h, m)
        \/ \E o \in Member : \/ ApproveCheck(h, m, o)
                             \/ DeclineCheck(h, m, o)
                             \/ RemoveCheck(h, m, o)
                             \/ DropCheck(h, m, o)
                             \/ TransferCheck(h, m, o)
  BY DEF Arrive
<1>2. task[h].pc = "idle"
  BY <1>1 DEF SetupLoad, UnlockLoad, ChangeLoad, WriteBind, LeaveCheck, ResetCheck, ApproveCheck,
              DeclineCheck, RemoveCheck, DropCheck, TransferCheck, Begin
<1>3. member[m] \in MemberRow /\ ring[m] \in Key /\ made[m] \in Nat /\ written \in Nat
  BY DEF TypeOK
<1>4. /\ {"setup", "version", "save", "write", "seal", "decline", "holders", "drop", "transfer",
          "reset"} \subseteq Pcs
      /\ {"setup", "unlock", "change", "recover", "write", "approve", "decline", "drop",
          "transfer", "reset", "remove", "leave"} \subseteq Kinds
  BY DEF Pcs, Kinds
<1>5. ASSUME NEW pc \in Pcs, NEW op \in Kinds, NEW o \in Member, NEW row \in MemberRow
      PROVE  Loaded(Start(pc, op, m, o), row).pc = pc
  BY LocalTypes, LocalValues
<1>6. ASSUME NEW u, Run(h, u)
      PROVE  task'[h] = u
  BY <1>6, SlotValues
<1>7. CASE SetupLoad(h, m)
  <2>1. WithBlock(member[m], made[m] + 1, NoSeal) \in MemberRow
    BY <1>3, RowConstants, BlockType
  <2> QED
    BY <1>2, <1>4, <1>5, <1>6, <1>7, <2>1 DEF SetupLoad
<1>8. CASE UnlockLoad(h, m) \/ ResetCheck(h, m)
  BY <1>2, <1>3, <1>4, <1>5, <1>6, <1>8 DEF UnlockLoad, ResetCheck
<1>9. ASSUME NEW op \in {"change", "recover"}, ChangeLoad(h, m, op)
      PROVE  task'[h].pc = "save"
  BY <1>3, <1>4, <1>5, <1>6, <1>9 DEF ChangeLoad
<1>10. ASSUME NEW r \in Row, WriteBind(h, m, r)
       PROVE  task'[h].pc = "write"
  <2> DEFINE t == Touching(Making(Holding(Start("write", "write", m, m), ring[m]), written + 1), {r})
  <2>1. "write" \in Pcs /\ "write" \in Kinds /\ {r} \in SUBSET Row /\ written + 1 \in Nat
    BY <1>3, <1>4
  <2>2. t.pc = "write"
    BY <1>3, <2>1, StartedValues
  <2>3. Run(h, t)
    BY <1>10 DEF WriteBind
  <2> HIDE DEF t
  <2> QED
    BY <1>6, <2>2, <2>3
<1>11. ASSUME NEW op \in {"remove", "leave"}, NEW o \in Member, TakeOut(h, op, m, o)
       PROVE  task'[h].pc = "holders"
  <2> DEFINE t == Loaded(Making(Holding(Start("holders", op, m, o), ring[m]), minted + 1), member[o])
  <2>1. "holders" \in Pcs /\ op \in Kinds /\ member[o] \in MemberRow /\ minted + 1 \in Nat
    BY <1>4, Numbers DEF Pcs, TypeOK
  <2>2. t.pc = "holders"
    BY <1>3, <2>1, StartedValues
  <2>3. Run(h, t)
    BY <1>11 DEF TakeOut
  <2> HIDE DEF t
  <2> QED
    BY <1>6, <2>2, <2>3
<1>12. ASSUME NEW o \in Member, ApproveCheck(h, m, o)
       PROVE  task'[h].pc = "seal"
  <2> DEFINE t == Loaded(Holding(Start("seal", "approve", m, o), ring[m]), member[o])
  <2>1. "seal" \in Pcs /\ "approve" \in Kinds /\ member[o] \in MemberRow
    BY <1>4 DEF TypeOK
  <2>2. t.pc = "seal"
    BY <1>3, <2>1, StartedValues
  <2>3. Run(h, t)
    BY <1>12 DEF ApproveCheck
  <2> HIDE DEF t
  <2> QED
    BY <1>6, <2>2, <2>3
<1>13. ASSUME NEW o \in Member, DeclineCheck(h, m, o) \/ DropCheck(h, m, o) \/ TransferCheck(h, m, o)
       PROVE  task'[h].pc \in {"decline", "drop", "transfer"}
  <2>1. member[o] \in MemberRow
    BY DEF TypeOK
  <2> QED
    BY <1>4, <1>5, <1>6, <1>13, <2>1 DEF DeclineCheck, DropCheck, TransferCheck
<1> QED
  BY <1>1, <1>2, <1>7, <1>8, <1>9, <1>10, <1>11, <1>12, <1>13 DEF RemoveCheck, LeaveCheck

\* Every request that begins keeps the invariant.
LEMMA ArriveKeeps ==
  ASSUME TypeOK, TypeOK', RekeyInv, NEW h \in Handler, Arrive(h)
  PROVE  RekeyInv'
<1>1. PICK m \in Member :
        \/ SetupLoad(h, m)
        \/ UnlockLoad(h, m)
        \/ \E op \in {"change", "recover"} : ChangeLoad(h, m, op)
        \/ \E r \in Row : WriteBind(h, m, r)
        \/ LeaveCheck(h, m)
        \/ ResetCheck(h, m)
        \/ \E o \in Member : \/ ApproveCheck(h, m, o)
                             \/ DeclineCheck(h, m, o)
                             \/ RemoveCheck(h, m, o)
                             \/ DropCheck(h, m, o)
                             \/ TransferCheck(h, m, o)
  BY DEF Arrive
<1>2. member[m] \in MemberRow /\ ring[m] \in Key /\ made[m] \in Nat /\ written \in Nat
  BY DEF TypeOK
<1>0. ~Rekeying(h)
  <2>1. task[h].pc = "idle"
    BY ArrivePcs
  <2> QED
    BY <2>1 DEF Rekeying, Underway, Marked, AfterCommit
<1>3. ASSUME NEW pc \in Elsewhere, NEW t, t.pc = pc, Run(h, t),
             tenant' = tenant, frozen' = frozen, minted' = minted, overtook' = overtook, ring' = ring
      PROVE  RekeyInv'
  <2>1. task'[h].pc \in Elsewhere /\ \A k \in Handler \ {h} : task'[k] = task[k]
    BY <1>3, SlotValues
  <2> QED
    BY <1>0, <1>3, <2>1, RingBehind, ElsewhereStep
<1>4. ASSUME NEW pc \in Pcs, NEW op \in Kinds, NEW o \in Member, NEW row \in MemberRow
      PROVE  /\ Start(pc, op, m, o) \in Task
             /\ Loaded(Start(pc, op, m, o), row).pc = pc
  BY LocalTypes, LocalValues
<1>5. /\ {"setup", "version", "save", "write", "seal", "decline", "drop", "transfer", "reset"}
            \subseteq Elsewhere \cap Pcs
      /\ {"setup", "unlock", "change", "recover", "write", "approve", "decline", "drop",
          "transfer", "reset", "remove", "leave"} \subseteq Kinds
  BY DEF Elsewhere, Pcs, Kinds, Waiting, Marked, AfterCommit, Underway
<1>6. CASE SetupLoad(h, m)
  <2>1. WithBlock(member[m], made[m] + 1, NoSeal) \in MemberRow
    BY <1>2, RowConstants, BlockType
  <2> QED
    BY <1>3, <1>4, <1>5, <1>6, <2>1 DEF SetupLoad
<1>7. CASE UnlockLoad(h, m)
  BY <1>2, <1>3, <1>4, <1>5, <1>7 DEF UnlockLoad, OnlyTask, counters
<1>8. ASSUME NEW op \in {"change", "recover"}, ChangeLoad(h, m, op)
      PROVE  RekeyInv'
  BY <1>2, <1>3, <1>4, <1>5, <1>8 DEF ChangeLoad, OnlyTask, counters
<1>9. ASSUME NEW r \in Row, WriteBind(h, m, r)
      PROVE  RekeyInv'
  <2> DEFINE t == Touching(Making(Holding(Start("write", "write", m, m), ring[m]), written + 1), {r})
  <2>1. "write" \in Pcs /\ "write" \in Kinds /\ {r} \in SUBSET Row /\ written + 1 \in Nat
    BY <1>2, <1>5
  <2>2. t.pc = "write"
    BY <1>2, <2>1, StartedValues
  <2>3. Run(h, t) /\ tenant' = tenant /\ frozen' = frozen /\ minted' = minted /\ overtook' = overtook /\ ring' = ring
    BY <1>9 DEF WriteBind
  <2> HIDE DEF t
  <2> QED
    BY <1>3, <1>5, <2>2, <2>3
<1>10. CASE ResetCheck(h, m)
  BY <1>2, <1>3, <1>4, <1>5, <1>10 DEF ResetCheck, OnlyTask, counters
<1>11. ASSUME NEW o \in Member,
              DeclineCheck(h, m, o) \/ DropCheck(h, m, o) \/ TransferCheck(h, m, o)
       PROVE  RekeyInv'
  <2>1. member[o] \in MemberRow
    BY DEF TypeOK
  <2> QED
    BY <1>3, <1>4, <1>5, <1>11, <2>1 DEF DeclineCheck, DropCheck, TransferCheck, OnlyTask, counters
<1>12. ASSUME NEW o \in Member, ApproveCheck(h, m, o)
       PROVE  RekeyInv'
  <2>1. member[o] \in MemberRow
    BY DEF TypeOK
  <2> DEFINE t == Loaded(Holding(Start("seal", "approve", m, o), ring[m]), member[o])
  <2>2. "seal" \in Pcs /\ "approve" \in Kinds
    BY <1>5
  <2>3. t.pc = "seal"
    BY <1>2, <2>1, <2>2, StartedValues
  <2>4. Run(h, t) /\ tenant' = tenant /\ frozen' = frozen /\ minted' = minted /\ overtook' = overtook /\ ring' = ring
    BY <1>12 DEF ApproveCheck, OnlyTask, counters
  <2> HIDE DEF t
  <2> QED
    BY <1>3, <1>5, <2>3, <2>4
<1>13. ASSUME NEW op \in {"remove", "leave"}, NEW o \in Member, Unlocked(m), TakeOut(h, op, m, o)
       PROVE  RekeyInv'
  <2> DEFINE t == Loaded(Making(Holding(Start("holders", op, m, o), ring[m]), minted + 1), member[o])
  <2>1. "holders" \in Pcs /\ op \in Kinds /\ member[o] \in MemberRow /\ minted + 1 \in Nat
    BY <1>5, Numbers DEF Pcs, TypeOK
  <2>2. t.pc = "holders" /\ t.key = ring[m] /\ t.fresh = minted + 1
    BY <1>2, <2>1, StartedValues
  <2>3. /\ tenant' = tenant /\ frozen' = frozen /\ ring' = ring /\ minted' = minted + 1 /\ overtook' = overtook
        /\ Run(h, t)
    BY <1>13 DEF TakeOut
  <2>4. task'[h] = t /\ \A k \in Handler \ {h} : task'[k] = task[k]
    <3> HIDE DEF t
    <3> QED
      BY <2>3, SlotValues
  <2> HIDE DEF t
  <2>5. ring[m].version <= tenant.version /\ tenant.version <= minted
    BY DEF RekeyInv, VersionsBehind
  <2>6. CapturedBehind(h)'
    BY <2>2, <2>3, <2>4, <2>5, Numbers DEF CapturedBehind
  <2>7. task'[h].pc \notin Underway
    BY <2>2, <2>4 DEF Underway, Marked, AfterCommit
  <2>8. minted <= minted' /\ ~frozen
    BY <1>13, <2>3, Numbers DEF Unlocked
  <2> QED
    BY <1>0, <2>3, <2>4, <2>6, <2>7, <2>8, RingBehind, CalmStep
<1> QED
  BY <1>1, <1>6, <1>7, <1>8, <1>9, <1>10, <1>11, <1>12, <1>13 DEF RemoveCheck, LeaveCheck

\* An unlock's version was read from the registry, which only moves forward.
LEMMA UnlockKeeps ==
  ASSUME TypeOK, TypeOK', RekeyInv, NEW h \in Handler, ReadVersion(h) \/ Put(h)
  PROVE  RekeyInv'
<1> DEFINE t == task[h]
<1>1. t \in Task
  BY SlotSteps
<1>0. ~Rekeying(h)
  BY DEF ReadVersion, Put, Rekeying, Underway, Marked, AfterCommit
<1>2. CASE ReadVersion(h)
  <2> DEFINE s == [t EXCEPT !.pc = "put"]
             key == [dek |-> t.loaded.sealed.dek, version |-> tenant.version]
  <2>1. s \in Task /\ s.pc = "put"
    <3>1. "put" \in Pcs
      BY DEF Pcs
    <3>2. s.pc = "put"
      BY <1>1 DEF Task
    <3> QED
      BY <1>1, <3>1, <3>2, LocalTypes
  <2>2. key \in Key /\ key.version = tenant.version
    <3>1. t.loaded.sealed.dek \in Nat
      BY <1>1 DEF Task, MemberRow, Seal
    <3> QED
      BY <3>1, Numbers DEF Key
  <2>3. Run(h, Holding(s, key)) /\ tenant' = tenant /\ frozen' = frozen /\ minted' = minted /\ overtook' = overtook /\ ring' = ring
    BY <1>2 DEF ReadVersion, OnlyTask, counters
  <2> HIDE DEF s, key
  <2>4. Holding(s, key).pc = "put" /\ Holding(s, key).key = key
    BY <2>1, <2>2, LocalValues
  <2>5. task'[h].pc = "put" /\ task'[h].key = key /\ \A k \in Handler \ {h} : task'[k] = task[k]
    BY <2>3, <2>4, SlotValues
  <2>6. CapturedBehind(h)' /\ task'[h].pc \notin Underway \cup Waiting
    BY <2>2, <2>3, <2>5, Numbers DEF CapturedBehind, Underway, Marked, AfterCommit, Waiting
  <2> QED
    BY <1>0, <2>3, <2>5, <2>6, Numbers, RingBehind, CalmStep
<1>3. CASE Put(h)
  <2>1. t.key.version <= tenant.version
    BY <1>3 DEF Put, RekeyInv, CapturedBehind
  <2>2. ASSUME NEW m \in Member PROVE ring'[m].version <= tenant.version
    <3>1. ring'[m] = ring[m] \/ ring'[m] = t.key
      BY <1>3 DEF Put, TypeOK
    <3> QED
      BY <2>1, <3>1, RingBehind
  <2>3. task'[h].pc \in Elsewhere /\ \A k \in Handler \ {h} : task'[k] = task[k]
    BY <1>3, SlotValues, ElsewherePcs DEF Put
  <2>4. tenant' = tenant /\ frozen' = frozen /\ minted' = minted /\ overtook' = overtook
    BY <1>3 DEF Put, counters
  <2> QED
    BY <1>0, <2>2, <2>3, <2>4, ElsewhereStep
<1> QED
  BY <1>2, <1>3

\* The steps of the other requests.
LEMMA OtherStepKeeps ==
  ASSUME TypeOK, TypeOK', RekeyInv, NEW h \in Handler,
         \/ SetupSave(h) \/ SavePassphrase(h) \/ Reopen(h) \/ WriteCommit(h)
         \/ ApproveSeal(h) \/ DeclineCommit(h) \/ DropCommit(h) \/ Revoke(h) \/ RevokeFails(h)
         \/ TransferCommit(h) \/ ResetCommit(h) \/ Lockout(h)
  PROVE  RekeyInv'
<1>1. task[h].whom \in Member
  BY DEF TypeOK, Task
<1>0. ~Rekeying(h)
  BY DEF SetupSave, SavePassphrase, Reopen, WriteCommit, ApproveSeal, DeclineCommit, DropCommit,
         Revoke, RevokeFails, TransferCommit, ResetCommit, Lockout, Rekeying, Underway, Marked,
         AfterCommit
<1>2. tenant' = tenant /\ frozen' = frozen /\ minted' = minted /\ overtook' = overtook
  BY DEF SetupSave, SavePassphrase, Reopen, WriteCommit, ApproveSeal, DeclineCommit, DropCommit,
         Revoke, RevokeFails, TransferCommit, ResetCommit, Lockout, OnlyTask, OnlyMember, counters
<1>3. ring' = ring \/ ring' = [ring EXCEPT ![task[h].whom] = NoKey]
  BY DEF SetupSave, SavePassphrase, Reopen, WriteCommit, ApproveSeal, DeclineCommit, DropCommit,
         Revoke, RevokeFails, TransferCommit, ResetCommit, Lockout, OnlyTask, OnlyMember, counters
<1>4. Done(h) \/ \E pc \in {"reopen", "version", "revoke", "lockout"} : Goto(h, pc)
  BY DEF SetupSave, SavePassphrase, Reopen, WriteCommit, ApproveSeal, DeclineCommit, DropCommit,
         Revoke, RevokeFails, TransferCommit, ResetCommit, Lockout
<1>5. {"reopen", "version", "revoke", "lockout"} \subseteq Pcs
  BY DEF Pcs
<1>6. task'[h].pc \in Elsewhere /\ \A k \in Handler \ {h} : task'[k] = task[k]
  <2>1. CASE Done(h)
    BY <2>1, SlotValues, ElsewherePcs
  <2>2. ASSUME NEW pc \in {"reopen", "version", "revoke", "lockout"}, Goto(h, pc)
        PROVE  task'[h].pc \in Elsewhere /\ \A k \in Handler \ {h} : task'[k] = task[k]
    BY <1>5, <2>2, SlotValues, ElsewherePcs
  <2> QED
    BY <1>4, <2>1, <2>2
<1> QED
  BY <1>0, <1>1, <1>2, <1>3, <1>6, RingBehind, ElsewhereStep

\* Counting the remaining holders keeps it.
LEMMA HoldersKeeps ==
  ASSUME TypeOK, TypeOK', RekeyInv, NEW h \in Handler, Holders(h)
  PROVE  RekeyInv'
<1> DEFINE t == task[h]
           held == [o \in Member |-> IF Stays(o, t.whom) THEN member[o] ELSE NoMember]
<1>1. t \in Task /\ t.pc \in Waiting
  BY SlotSteps DEF Holders, Waiting
<1>0. ~Rekeying(h)
  BY DEF Holders, Rekeying, Underway, Marked, AfterCommit
<1>2. held \in [Member -> MemberRow]
  BY RowConstants DEF TypeOK
<1>3. tenant' = tenant /\ frozen' = frozen /\ minted' = minted /\ overtook' = overtook /\ ring' = ring
  BY DEF Holders, OnlyTask, counters
<1>4. Done(h) \/ Run(h, Counted(t, held))
  BY DEF Holders
<1> HIDE DEF held
<1>5. CASE Done(h)
  <2>1. task'[h].pc \in Elsewhere /\ \A k \in Handler \ {h} : task'[k] = task[k]
    BY <1>5, SlotValues, ElsewherePcs
  <2> QED
    BY <1>0, <1>3, <2>1, RingBehind, ElsewhereStep
<1>6. CASE Run(h, Counted(t, held))
  <2>1. /\ task'[h].pc = "claim" /\ task'[h].key = t.key /\ task'[h].fresh = t.fresh
        /\ \A k \in Handler \ {h} : task'[k] = task[k]
    BY <1>1, <1>2, <1>6, SlotValues, LocalValues
  <2>2. CapturedBehind(h)
    BY DEF RekeyInv
  <2>3. CapturedBehind(h)'
    BY <1>1, <1>3, <2>1, <2>2 DEF CapturedBehind
  <2>4. task'[h].pc \notin Underway
    BY <2>1 DEF Underway, Marked, AfterCommit
  <2>5. minted <= minted'
    BY <1>3, Numbers
  <2> QED
    BY <1>0, <1>1, <1>3, <2>1, <2>3, <2>4, <2>5, RingBehind, CalmStep
<1> QED
  BY <1>4, <1>5, <1>6

\* A claim is granted only where no other holds one: it would hold the mark.
\* One after its commit has moved the version past every key captured while it
\* was frozen, so unless the claim overtakes a thaw no re-key is under way.
LEMMA ClaimKeeps ==
  ASSUME TypeOK, TypeOK', RekeyInv, NEW h \in Handler, Claim(h)
  PROVE  RekeyInv'
<1> DEFINE t == task[h]
<1>1. t.pc = "claim" /\ t.pc \in Waiting /\ minted' = minted /\ ring' = ring
  BY DEF Claim, Waiting
<1>2. CASE ~MayClaim(t)
  <2>1. Done(h) /\ tenant' = tenant /\ frozen' = frozen /\ overtook' = overtook
    BY <1>2 DEF Claim, Refuse
  <2>2. task'[h].pc \in Elsewhere /\ \A k \in Handler \ {h} : task'[k] = task[k]
    BY <2>1, SlotValues, ElsewherePcs
  <2>3. ~Rekeying(h)
    BY <1>1 DEF Rekeying, Underway, Marked, AfterCommit
  <2> QED
    BY <1>1, <2>1, <2>2, <2>3, RingBehind, ElsewhereStep
<1>3. CASE MayClaim(t)
  <2>1. tenant.status = "active" /\ tenant.version = t.key.version
    BY <1>3 DEF MayClaim
  <2>2. /\ tenant' = [tenant EXCEPT !.status = "rekeying"] /\ frozen' = frozen
        /\ overtook' = (overtook \/ \E k \in Handler : task[k].pc = "unfreeze")
        /\ Goto(h, "freeze")
    BY <1>3 DEF Claim
  <2>3. tenant'.status = "rekeying" /\ tenant'.version = tenant.version
    BY <2>2 DEF TypeOK
  <2>4. /\ task'[h].pc = "freeze" /\ task'[h].key = t.key /\ task'[h].fresh = t.fresh
        /\ \A k \in Handler \ {h} : task'[k] = task[k]
    BY <2>2, SlotValues DEF Pcs
  <2>5. \A k \in Handler : task[k].pc \notin Marked
    BY <2>1 DEF RekeyInv, MarkHeld
  <2>6. ~overtook' => ~overtook /\ \A k \in Handler : task[k].pc # "unfreeze"
    BY <2>2
  <2>7. ~overtook' => \A k \in Handler : task[k].pc \notin Underway
    BY <1>1, <2>1, <2>5, <2>6 DEF RekeyInv, OthersBehind, Underway
  <2>8. OneRekeyAtATime' /\ FreezeCoversRekey' /\ MarkMeansFrozen'
    <3>1. OneRekeyAtATime'
      BY <2>4, <2>5, <2>7 DEF OneRekeyAtATime, Rekeying
    <3>2. FreezeCoversRekey'
      BY <2>4, <2>7 DEF FreezeCoversRekey, UnderFreeze
    <3>3. MarkMeansFrozen'
      BY <2>4 DEF MarkMeansFrozen
    <3> QED
      BY <3>1, <3>2, <3>3
  <2>9. VersionsBehind'
    BY <1>1, <2>3 DEF RekeyInv, VersionsBehind
  <2>10. ASSUME NEW k \in Handler
         PROVE  (CapturedBehind(k) /\ MarkHeld(k) /\ OthersBehind(k))'
    <3>1. CASE k = h
      <4>1. CapturedBehind(k)'
        BY <1>1, <2>3, <2>4, <3>1 DEF RekeyInv, CapturedBehind
      <4>2. MarkHeld(k)'
        BY <2>1, <2>3, <2>4, <3>1 DEF MarkHeld
      <4>3. OthersBehind(k)'
        BY <2>4, <3>1 DEF OthersBehind, AfterCommit
      <4> QED
        BY <4>1, <4>2, <4>3
    <3>2. CASE k # h
      <4>1. CapturedBehind(k)'
        BY <1>1, <2>3, <2>4, <3>2 DEF RekeyInv, CapturedBehind
      <4>2. MarkHeld(k)'
        BY <2>4, <2>5, <3>2 DEF MarkHeld
      <4>3. OthersBehind(k)'
        BY <2>4, <2>7, <3>2 DEF OthersBehind, Underway
      <4> QED
        BY <4>1, <4>2, <4>3
    <3> QED
      BY <3>1, <3>2
  <2> QED
    BY <2>8, <2>9, <2>10 DEF RekeyInv
<1> QED
  BY <1>2, <1>3

\* The commit moves the version past every one captured before it.
LEMMA CommitKeeps ==
  ASSUME TypeOK, TypeOK', RekeyInv, NEW h \in Handler, CommitRekey(h)
  PROVE  RekeyInv'
<1> DEFINE t == task[h]
           v == FreshKey(t).version
<1>1. /\ t.pc = "commit" /\ t.pc \in Marked /\ t.pc \in Underway /\ t.pc \in UnderFreeze
      /\ minted' = minted /\ frozen' = frozen /\ overtook' = overtook /\ ring' = ring
  BY DEF CommitRekey, Marked, Underway, UnderFreeze, counters
<1>2. /\ tenant.version = t.key.version
      /\ t.key.version < t.fresh /\ t.fresh <= minted
  BY <1>1 DEF RekeyInv, MarkHeld, CapturedBehind
<1>3. tenant'.status = "active" /\ tenant'.version = v
  BY DEF CommitRekey
<1>4. v = t.key.version + 1
  <2>1. t.key.version \in Nat /\ t.key.version < 254
    BY <1>2, Numbers
  <2>2. v = (t.key.version % 255) + 1
    BY DEF FreshKey, next_key_version
  <2> QED
    BY <2>1, <2>2
<1>5. v \in Nat /\ tenant.version < v /\ v <= minted
  BY <1>2, <1>4, Numbers
<1>6. Goto(h, "replace")
  BY DEF CommitRekey
<1> HIDE DEF v
<1>7. VersionsBehind'
  <2>1. \A m \in Member : ring[m].version <= v
    BY <1>5, Numbers DEF RekeyInv, VersionsBehind
  <2> QED
    BY <1>1, <1>3, <1>5, <2>1 DEF VersionsBehind
<1>8. /\ task'[h].pc = "replace" /\ task'[h].key = t.key
      /\ \A k \in Handler \ {h} : task'[k] = task[k]
  BY <1>6, SlotValues DEF Pcs
<1>9. \A k \in Handler : task'[k].pc \notin Marked
  BY <1>1, <1>8 DEF RekeyInv, OneRekeyAtATime, Marked
<1>10. ~overtook => \A k \in Handler : task'[k].pc \in Underway => k = h
  BY <1>1, <1>8 DEF RekeyInv, OneRekeyAtATime, Rekeying
<1>11. OneRekeyAtATime' /\ FreezeCoversRekey' /\ MarkMeansFrozen'
  <2>1. OneRekeyAtATime'
    BY <1>1, <1>9, <1>10 DEF OneRekeyAtATime, Rekeying
  <2>2. FreezeCoversRekey'
    BY <1>1 DEF RekeyInv, FreezeCoversRekey
  <2>3. MarkMeansFrozen'
    BY <1>3 DEF MarkMeansFrozen
  <2> QED
    BY <2>1, <2>2, <2>3
<1>12. \A k \in Handler : task'[k].pc \in Waiting \cup {"put"} => task'[k] = task[k]
  BY <1>8 DEF Waiting
<1>13. ASSUME NEW k \in Handler
       PROVE  (CapturedBehind(k) /\ MarkHeld(k) /\ OthersBehind(k))'
  <2>1. CapturedBehind(k)'
    <3>1. task[k].key.version <= tenant.version => task[k].key.version <= v
      BY <1>5, Numbers
    <3>2. task[k].key.version < tenant.version => task[k].key.version < v
      BY <1>5, Numbers
    <3>3. CASE k = h
      BY <1>2, <1>3, <1>5, <1>8, <3>3 DEF CapturedBehind, Waiting, Marked
    <3>4. CASE k # h
      BY <1>1, <1>3, <1>8, <1>9, <3>1, <3>2, <3>4 DEF RekeyInv, CapturedBehind
    <3> QED
      BY <3>3, <3>4
  <2>2. MarkHeld(k)'
    BY <1>9 DEF MarkHeld
  <2>3. ASSUME NEW j \in Handler, task'[j].pc \in Waiting
        PROVE  task'[j].key.version # tenant'.version
    <3>1. task'[j] = task[j]
      BY <1>12, <2>3
    <3>2. task[j].key.version <= tenant.version
      BY <2>3, <3>1 DEF RekeyInv, CapturedBehind
    <3> QED
      BY <1>3, <1>5, <3>1, <3>2, Numbers
  <2>4. OthersBehind(k)'
    BY <1>3, <2>3 DEF OthersBehind
  <2> QED
    BY <2>1, <2>2, <2>4
<1> QED
  BY <1>7, <1>11, <1>13 DEF RekeyInv

\* Clearing the mark: nobody else held it.
LEMMA ClearMarkKeeps ==
  ASSUME TypeOK, TypeOK', RekeyInv, NEW h \in Handler, ClearMark(h)
  PROVE  RekeyInv'
<1>1. /\ task[h].pc = "mark" /\ task[h].pc \in Marked /\ task[h].pc \in Underway
      /\ task[h].pc \in UnderFreeze
      /\ minted' = minted /\ frozen' = frozen /\ overtook' = overtook /\ ring' = ring
  BY DEF ClearMark, Marked, Underway, UnderFreeze, counters
<1>2. tenant'.status = "active" /\ tenant'.version = tenant.version
  BY DEF ClearMark, TypeOK
<1>3. /\ task'[h].pc = "unfreeze" /\ \A k \in Handler \ {h} : task'[k] = task[k]
  BY SlotValues DEF ClearMark, Pcs
<1>4. \A k \in Handler : task'[k].pc \notin Marked
  BY <1>1, <1>3 DEF RekeyInv, OneRekeyAtATime, Marked
<1>5. ~overtook => \A k \in Handler : task'[k].pc \in Underway => k = h
  BY <1>1, <1>3 DEF RekeyInv, OneRekeyAtATime, Rekeying
<1>6. OneRekeyAtATime' /\ FreezeCoversRekey' /\ MarkMeansFrozen'
  <2>1. OneRekeyAtATime'
    BY <1>1, <1>4, <1>5 DEF OneRekeyAtATime, Rekeying
  <2>2. FreezeCoversRekey'
    BY <1>1 DEF RekeyInv, FreezeCoversRekey
  <2>3. MarkMeansFrozen'
    BY <1>2 DEF MarkMeansFrozen
  <2> QED
    BY <2>1, <2>2, <2>3
<1>7. VersionsBehind'
  BY <1>1, <1>2 DEF RekeyInv, VersionsBehind
<1>8. ASSUME NEW k \in Handler
      PROVE  (CapturedBehind(k) /\ MarkHeld(k) /\ OthersBehind(k))'
  <2>1. CASE k = h
    BY <1>2, <1>3, <2>1 DEF CapturedBehind, MarkHeld, OthersBehind, Waiting, Marked, AfterCommit
  <2>2. CASE k # h
    <3>1. task'[k] = task[k]
      BY <1>3, <2>2
    <3>2. CapturedBehind(k)'
      BY <1>1, <1>2, <3>1 DEF RekeyInv, CapturedBehind
    <3>3. MarkHeld(k)'
      BY <1>4 DEF MarkHeld
    <3>4. OthersBehind(k)'
      BY <1>1, <1>2, <1>5, <2>2 DEF OthersBehind, Underway
    <3> QED
      BY <3>2, <3>3, <3>4
  <2> QED
    BY <2>1, <2>2
<1> QED
  BY <1>6, <1>7, <1>8 DEF RekeyInv

\* A re-key going on, giving up, failing or finishing.
LEMMA RekeyStepKeeps ==
  ASSUME TypeOK, TypeOK', RekeyInv, NEW h \in Handler,
         \/ Freeze(h) \/ ReadRows(h) \/ ReplaceKey(h) \/ Look(h) \/ Sweep(h) \/ Thaw(h)
         \/ Unfreeze(h) \/ RekeyFails(h) \/ MarkFails(h) \/ SweepFails(h)
  PROVE  RekeyInv'
<1> DEFINE t == task[h]
<1>1. t \in Task /\ t.whom \in Member
  BY SlotSteps DEF Task
<1>2. Rekeying(h) /\ minted' = minted /\ overtook' = overtook /\ tenant' = tenant
  <2>1. minted' = minted /\ overtook' = overtook /\ tenant' = tenant
    BY DEF Freeze, ReadRows, ReplaceKey, Look, Sweep, Thaw, Unfreeze, RekeyFails, MarkFails,
           SweepFails, OnlyTask, counters
  <2>2. Rekeying(h)
    BY DEF Freeze, ReadRows, ReplaceKey, Look, Sweep, Thaw, Unfreeze, RekeyFails, MarkFails,
           SweepFails, Rekeying, Underway, Marked, AfterCommit
  <2> QED
    BY <2>1, <2>2
<1>3. /\ AfterCommit \subseteq Pcs /\ Marked \subseteq Pcs
      /\ {"look1", "sweep1", "look2", "sweep2", "thaw"} \subseteq AfterCommit \ {"replace"}
      /\ {"read", "commit", "mark"} \subseteq Marked \ {"freeze"}
      /\ "freeze" \in Marked /\ "replace" \in AfterCommit
  BY DEF Marked, AfterCommit, Pcs
\* Ending without a freeze left to others, or with the freeze as it was.
<1>4. ASSUME Done(h) \/ Goto(h, "lockout"), ring' = ring,
             \/ t.pc \in AfterCommit \cup {"unfreeze"}
             \/ t.pc = "mark" /\ frozen' = frozen
      PROVE  RekeyInv'
  <2>1. /\ task'[h].pc \in {"idle", "lockout"} /\ \A k \in Handler \ {h} : task'[k] = task[k]
    BY <1>4, SlotValues DEF Pcs
  <2>2. task'[h].pc \notin Underway \cup Waiting \cup {"put"}
    BY <2>1 DEF Underway, Waiting, Marked, AfterCommit
  <2>3. MarkMeansFrozen'
    <3>1. CASE t.pc \in AfterCommit \cup {"unfreeze"}
      BY <1>2, <3>1 DEF RekeyInv, OthersBehind, MarkMeansFrozen
    <3>2. CASE t.pc = "mark" /\ frozen' = frozen
      BY <1>2, <3>2 DEF RekeyInv, FreezeCoversRekey, MarkMeansFrozen, UnderFreeze, Underway, Marked
    <3> QED
      BY <1>4, <3>1, <3>2
  <2>4. \A m \in Member : ring'[m].version <= tenant.version
    BY <1>4, RingBehind
  <2> QED
    BY <1>2, <2>1, <2>2, <2>3, <2>4, EndStep
<1>5. CASE Freeze(h)
  <2>1. /\ task'[h].pc = "read" /\ task'[h].key = t.key /\ task'[h].fresh = t.fresh
        /\ \A k \in Handler \ {h} : task'[k] = task[k]
    BY <1>5, SlotValues DEF Freeze, Pcs
  <2>2. frozen' = TRUE /\ t.pc \in Marked /\ task'[h].pc \in Marked \ {"freeze"} /\ ring' = ring
    BY <1>3, <1>5, <2>1 DEF Freeze
  <2> QED
    BY <1>2, <2>1, <2>2, RingBehind, PhaseStep
<1>6. ASSUME t.pc \in {"read", "commit"}, Goto(h, "mark") \/ Run(h, Seen(t, "commit", rows)), OnlyTask
      PROVE  RekeyInv'
  <2>1. /\ task'[h].pc \in Marked \ {"freeze"} /\ task'[h].key = t.key /\ task'[h].fresh = t.fresh
        /\ \A k \in Handler \ {h} : task'[k] = task[k]
    <3>1. CASE Goto(h, "mark")
      BY <1>3, <3>1, SlotValues
    <3>2. CASE Run(h, Seen(t, "commit", rows))
      BY <1>1, <1>3, <3>2, LocalValues, SlotValues DEF TypeOK
    <3> QED
      BY <1>6, <3>1, <3>2
  <2>2. frozen' = frozen /\ ring' = ring /\ t.pc \in Marked \ {"freeze"}
    BY <1>3, <1>6 DEF OnlyTask
  <2> QED
    BY <1>2, <2>1, <2>2, RingBehind, PhaseStep
<1>7. ASSUME t.pc \in AfterCommit, NEW pc \in AfterCommit \ {"replace"}, Goto(h, pc),
             frozen' = frozen, \A m \in Member : ring'[m].version <= tenant.version
      PROVE  RekeyInv'
  <2>1. /\ task'[h].pc = pc /\ task'[h].key = t.key /\ task'[h].fresh = t.fresh
        /\ \A k \in Handler \ {h} : task'[k] = task[k]
    BY <1>3, <1>7, SlotValues
  <2> QED
    BY <1>2, <1>7, <2>1, PhaseStep
<1>8. CASE Look(h)
  <2> DEFINE late == {r \in Row : rows[r].key.version = t.key.version}
             next == IF t.pc = "look1" THEN "sweep1" ELSE "sweep2"
             u == Touching(Seen(t, next, rows), late)
  <2>1. /\ late \in SUBSET Row /\ next \in AfterCommit \ {"replace"} /\ next \in Pcs
        /\ rows \in [Row -> Cipher]
    BY <1>3 DEF TypeOK
  <2>2. t.pc \in AfterCommit /\ ring' = ring
    BY <1>3, <1>8 DEF Look
  <2>3. \/ Goto(h, "thaw") /\ frozen' = frozen
        \/ Run(h, u) /\ frozen' = frozen
        \/ Done(h)
    BY <1>8 DEF Look
  <2>4. u.pc = next /\ u.key = t.key /\ u.fresh = t.fresh
    <3> DEFINE s == Seen(t, next, rows)
    <3> HIDE DEF late, next
    <3>1. s \in Task /\ s.pc = next /\ s.key = t.key /\ s.fresh = t.fresh
      BY <1>1, <2>1, LocalTypes, LocalValues
    <3>2. u = Touching(s, late)
      OBVIOUS
    <3> HIDE DEF s, u
    <3> QED
      BY <2>1, <3>1, <3>2, LocalValues
  <2> HIDE DEF late, next, u
  <2>5. CASE Goto(h, "thaw") /\ frozen' = frozen
    BY <1>3, <1>7, <2>2, <2>5, RingBehind
  <2>6. CASE Run(h, u) /\ frozen' = frozen
    <3>1. /\ task'[h].pc = next /\ task'[h].key = t.key /\ task'[h].fresh = t.fresh
          /\ \A k \in Handler \ {h} : task'[k] = task[k]
      BY <2>4, <2>6, SlotValues
    <3> QED
      BY <1>2, <2>1, <2>2, <2>6, <3>1, RingBehind, PhaseStep
  <2>7. CASE Done(h)
    BY <1>4, <2>2, <2>7
  <2> QED
    BY <2>3, <2>5, <2>6, <2>7
<1>9. CASE Sweep(h)
  <2> DEFINE next == IF t.pc = "sweep1" THEN "look2" ELSE "thaw"
  <2>1. /\ t.pc \in AfterCommit /\ next \in AfterCommit \ {"replace"} /\ Goto(h, next)
        /\ frozen' = frozen /\ ring' = ring
    BY <1>3, <1>9 DEF Sweep
  <2> HIDE DEF next
  <2> QED
    BY <1>7, <2>1, RingBehind
\* The ring gets the new key, whose version the registry has reached.
<1>10. CASE ReplaceKey(h)
  <2>1. t.pc = "replace" /\ t.pc \in AfterCommit /\ Goto(h, "look1") /\ frozen' = frozen
    BY <1>3, <1>10 DEF ReplaceKey
  <2>2. t.key.version < tenant.version /\ tenant.version <= minted
    BY <2>1 DEF RekeyInv, CapturedBehind, VersionsBehind
  <2>3. FreshKey(t).version <= tenant.version
    <3>1. FreshKey(t).version = (t.key.version % 255) + 1
      BY DEF FreshKey, next_key_version
    <3>2. t.key.version \in Nat /\ t.key.version < 254 /\ tenant.version \in Nat
      BY <2>2, Numbers
    <3> QED
      BY <2>2, <3>1, <3>2
  <2>4. \A m \in Member : ring'[m] = NoKey \/ ring'[m] = FreshKey(t)
    BY <1>10 DEF ReplaceKey, RingAfter
  <2>5. NoKey.version <= tenant.version
    BY Numbers DEF NoKey
  <2>6. \A m \in Member : ring'[m].version <= tenant.version
    BY <2>3, <2>4, <2>5
  <2> QED
    BY <1>3, <1>7, <2>1, <2>6
<1>11. CASE Thaw(h)
  BY <1>3, <1>4, <1>11 DEF Thaw
<1>12. CASE Unfreeze(h)
  BY <1>4, <1>12 DEF Unfreeze
<1>13. CASE ReadRows(h) \/ RekeyFails(h)
  BY <1>6, <1>13 DEF ReadRows, RekeyFails
<1>14. CASE MarkFails(h)
  BY <1>4, <1>14 DEF MarkFails, OnlyTask
<1>15. CASE SweepFails(h)
  BY <1>3, <1>4, <1>15 DEF SweepFails
<1> QED
  BY <1>5, <1>8, <1>9, <1>10, <1>11, <1>12, <1>13, <1>14, <1>15

\* Steps without a request: nobody is suspended, so nobody resumes.
LEMMA ProcessKeeps ==
  ASSUME TypeOK, TypeOK', RekeyInv, "suspend" \notin Ops,
         \/ \E m \in Member : SignIn(m) \/ Join(m) \/ Lock(m)
         \/ Suspend \/ Resume \/ Restart
  PROVE  RekeyInv'
<1>1. ASSUME tenant' = tenant, frozen' = frozen, overtook' = overtook, minted' = minted, task' = task,
             \A m \in Member : ring'[m].version <= tenant.version
      PROVE  RekeyInv'
  <2>1. VersionsBehind' /\ OneRekeyAtATime' /\ FreezeCoversRekey' /\ MarkMeansFrozen'
    BY <1>1 DEF RekeyInv, VersionsBehind, OneRekeyAtATime, FreezeCoversRekey, MarkMeansFrozen,
                Rekeying
  <2>2. \A h \in Handler : (CapturedBehind(h) /\ MarkHeld(h) /\ OthersBehind(h))'
    BY <1>1 DEF RekeyInv, CapturedBehind, MarkHeld, OthersBehind
  <2> QED
    BY <2>1, <2>2 DEF RekeyInv
<1>2. ASSUME NEW m \in Member, SignIn(m) \/ Join(m) \/ Lock(m)
      PROVE  RekeyInv'
  <2>1. /\ tenant' = tenant /\ frozen' = frozen /\ overtook' = overtook /\ minted' = minted
        /\ task' = task
    BY <1>2 DEF SignIn, Join, Lock, counters
  <2>2. ring' = ring \/ ring' = [ring EXCEPT ![m] = NoKey]
    BY <1>2 DEF SignIn, Join, Lock
  <2> QED
    BY <1>1, <2>1, <2>2, RingBehind
<1>3. ~Suspend /\ ~Resume
  BY DEF Suspend, Resume, RekeyInv, VersionsBehind
<1>4. CASE Restart
  <2>1. \A h \in Handler : task'[h].pc = "idle"
    BY <1>4 DEF Restart, NoTask
  <2>2. tenant'.version = tenant.version /\ tenant'.status # "suspended" /\ minted' = minted
    BY <1>4 DEF Restart, Released, TypeOK, RekeyInv, VersionsBehind, counters
  <2>3. \A m \in Member : ring'[m].version = 0
    BY <1>4 DEF Restart, NoKey
  <2>4. VersionsBehind'
    BY <2>2, <2>3, Numbers DEF RekeyInv, VersionsBehind
  <2>5. OneRekeyAtATime' /\ FreezeCoversRekey' /\ MarkMeansFrozen'
    <3>1. OneRekeyAtATime' /\ FreezeCoversRekey'
      BY <2>1 DEF OneRekeyAtATime, FreezeCoversRekey, Rekeying, UnderFreeze, Underway, Marked,
                  AfterCommit
    <3>2. MarkMeansFrozen'
      BY <1>4 DEF Restart, Released, TypeOK, MarkMeansFrozen
    <3> QED
      BY <3>1, <3>2
  <2>6. \A h \in Handler : (CapturedBehind(h) /\ MarkHeld(h) /\ OthersBehind(h))'
    BY <2>1 DEF CapturedBehind, MarkHeld, OthersBehind, Waiting, Marked, AfterCommit
  <2> QED
    BY <2>4, <2>5, <2>6 DEF RekeyInv
<1> QED
  BY <1>2, <1>3, <1>4

\* It holds at the start.
LEMMA InitRekey == Init => RekeyInv
<1> SUFFICES ASSUME Init PROVE RekeyInv
  OBVIOUS
<1>1. \A h \in Handler : task[h].pc = "idle"
  BY DEF Init, NoTask
<1>2. \A m \in Member : ring[m].version <= 1
  BY DEF Init, NoKey, FirstKey
<1>3. VersionsBehind
  BY <1>2 DEF Init, VersionsBehind
<1>4. OneRekeyAtATime /\ FreezeCoversRekey /\ MarkMeansFrozen
  BY <1>1 DEF Init, MarkMeansFrozen, FreezeCoversRekey, OneRekeyAtATime, Rekeying, UnderFreeze,
              Underway, Marked, AfterCommit
<1>5. \A h \in Handler : CapturedBehind(h) /\ MarkHeld(h) /\ OthersBehind(h)
  BY <1>1 DEF CapturedBehind, MarkHeld, OthersBehind, Waiting, Marked, AfterCommit
<1> QED
  BY <1>3, <1>4, <1>5 DEF RekeyInv

\* Every step keeps it.
LEMMA NextRekey ==
  ASSUME "suspend" \notin Ops
  PROVE  TypeOK /\ TypeOK' /\ RekeyInv /\ [Next]_vars => RekeyInv'
<1> SUFFICES ASSUME TypeOK, TypeOK', RekeyInv, [Next]_vars PROVE RekeyInv'
  OBVIOUS
<1>1. CASE UNCHANGED vars
  BY <1>1 DEF vars, RekeyInv, VersionsBehind, CapturedBehind, MarkHeld, OthersBehind,
              OneRekeyAtATime, FreezeCoversRekey, MarkMeansFrozen, Rekeying
<1>2. CASE \E m \in Member : SignIn(m) \/ Join(m) \/ Lock(m)
  BY <1>2, ProcessKeeps
<1>3. CASE \E h \in Handler : Arrive(h)
  BY <1>3, ArriveKeeps
<1>4. CASE \E h \in Handler : Step(h)
  BY <1>4, UnlockKeeps, OtherStepKeeps, HoldersKeeps, ClaimKeeps, CommitKeeps,
     ClearMarkKeeps, RekeyStepKeeps DEF Step
<1>5. CASE Suspend \/ Resume \/ Restart
  BY <1>5, ProcessKeeps
<1> QED
  BY <1>1, <1>2, <1>3, <1>4, <1>5 DEF Next

-----------------------------------------------------------------------------

\* The induction holds in every reachable state of a household nobody
\* suspends.
THEOREM RekeyInductive ==
  ASSUME "suspend" \notin Ops
  PROVE  Spec => []RekeyInv
<1>1. Init => RekeyInv
  BY InitRekey
<1>2. TypeOK /\ TypeOK' /\ RekeyInv /\ [Next]_vars => RekeyInv'
  BY NextRekey
<1> QED
  BY <1>1, <1>2, TypeCorrect, PTL DEF Spec

\* However many requests to remove and to leave are in flight, at most one
\* re-key is past HouseholdRekey._claim.
THEOREM RekeyExclusive ==
  ASSUME "suspend" \notin Ops
  PROVE  Spec => []OneRekeyAtATime
<1>1. RekeyInv => OneRekeyAtATime
  BY DEF RekeyInv
<1> QED
  BY <1>1, RekeyInductive, PTL

\* From its claim to the end of its sweep a re-key's freeze stands, whatever
\* other requests are refused or fail meanwhile.
THEOREM RekeyStaysFrozen ==
  ASSUME "suspend" \notin Ops
  PROVE  Spec => []FreezeCoversRekey
<1>1. RekeyInv => FreezeCoversRekey
  BY DEF RekeyInv
<1> QED
  BY <1>1, RekeyInductive, PTL

\* A household marked as being re-keyed is frozen: no failure of the pass, of
\* its sweep or of the clearing of the mark, and no restart, leaves the mark
\* that shuts sign-in out on a household whose ledger may be written.
THEOREM MarkNeverLeft ==
  ASSUME "suspend" \notin Ops
  PROVE  Spec => []MarkMeansFrozen
<1>1. RekeyInv => MarkMeansFrozen
  BY DEF RekeyInv
<1> QED
  BY <1>1, RekeyInductive, PTL

-----------------------------------------------------------------------------
(***************************************************************************)
(* When one request runs at a time the household keeps its promise, for    *)
(* any number of members and rows, every operation, and every failure and  *)
(* restart inside a request; and without a transfer or a change of         *)
(* passphrase its first owner can open the ledger however many requests    *)
(* cross.                                                                  *)
(***************************************************************************)

\* One request runs at a time.
OneAtATime == \A g, h \in Handler : g = h

\* Why, one request at a time, as an induction.  The ring holds the present
\* key or none and every row is under it; and what a request read before it
\* waited still stands when it goes on, because the only thing that moves
\* meanwhile is the row of somebody who is not in the household (join).  Only
\* between a re-key's commit and its replace_data_key is the ring behind.
RingHoldsCurrent ==
  (\A h \in Handler : task[h].pc # "replace") => \A m \in Member : ring[m] \in {NoKey, Current}

RowsAreCurrent == \A r \in Row : rows[r].key = Current /\ rows[r].text \in 0 .. MaxText

AsLoaded(m, t) == member[m] = t.loaded

\* The key block a request will write back changes nothing, or no key.
BlockStands(t) ==
  \/ AsLoaded(t.who, t) /\ t.loaded.status = "active"
  \/ t.loaded.sealed = NoSeal /\ member[t.who].status # "active"

KeyRequestStands(t) ==
  /\ t.pc = "setup" => t.loaded.sealed = NoSeal /\ member[t.who].status # "active"
  /\ t.pc = "version" => AsLoaded(t.who, t) /\ t.loaded.status = "active"
  /\ t.pc = "put" => t.key = Current
  /\ t.pc \in {"save", "reopen"} => BlockStands(t)
  /\ t.pc = "write" => t.key = Current /\ t.fresh \in 0 .. MaxText /\ \E r \in Row : t.target = {r}

MemberRequestStands(t) ==
  /\ t.pc = "seal" => /\ AsLoaded(t.whom, t) /\ t.loaded.status = "pending"
                      /\ t.loaded.pub # 0 /\ t.key = Current
  /\ t.pc = "decline" => AsLoaded(t.whom, t) /\ t.loaded.status = "pending"
  /\ t.pc = "transfer" => /\ AsLoaded(t.whom, t) /\ t.loaded.status = "active"
                          /\ IsOwner(t.who) /\ t.who # t.whom
  /\ t.pc = "reset" => AsLoaded(t.whom, t) /\ MayReset(t.whom)

RemovalStands(t) ==
  /\ t.pc \in {"holders", "claim", "freeze", "read", "commit", "drop"} =>
       AsLoaded(t.whom, t) /\ t.loaded.status = "active" /\ t.loaded.role # "owner"
  /\ t.pc \in {"claim", "freeze", "read", "commit"} =>
       \A o \in Member : t.held[o] = IF Stays(o, t.whom) THEN member[o] ELSE NoMember
  /\ t.pc = "commit" => t.seen = rows
  /\ t.pc \in AfterCommit => t.pc \in {"replace", "look1", "thaw"} /\ Current = FreshKey(t)

RequestStands(t) == KeyRequestStands(t) /\ MemberRequestStands(t) /\ RemovalStands(t)

AloneInv ==
  /\ ExactlyOneOwner /\ ActiveHoldCurrentKey /\ OutsidersHoldNothing
  /\ RingHoldsCurrent /\ RowsAreCurrent
  /\ \A h \in Handler : RequestStands(task[h])

-----------------------------------------------------------------------------
(* The locals a request begins with.                                        *)

\* What the constructors leave in the fields the invariant speaks of.
LEMMA FieldValues ==
  /\ \A pc \in Pcs, op \in Kinds, m \in Member, o \in Member :
       Start(pc, op, m, o).who = m /\ Start(pc, op, m, o).whom = o
  /\ \A t \in Task :
       /\ \A row \in MemberRow : /\ Loaded(t, row).who = t.who /\ Loaded(t, row).whom = t.whom
                                 /\ Loaded(t, row).loaded = row
       /\ \A key \in Key : Holding(t, key).who = t.who /\ Holding(t, key).whom = t.whom
       /\ \A key \in Key : Holding(t, key).loaded = t.loaded
       /\ \A n \in Nat : Making(t, n).who = t.who /\ Making(t, n).whom = t.whom
       /\ \A rs \in SUBSET Row : Touching(t, rs).target = rs
<1>1. \A pc \in Pcs, op \in Kinds, m \in Member, o \in Member :
        Start(pc, op, m, o).who = m /\ Start(pc, op, m, o).whom = o
  BY DEF Start, NoTask
<1>2. ASSUME NEW t \in Task
      PROVE  /\ \A row \in MemberRow : /\ Loaded(t, row).who = t.who /\ Loaded(t, row).whom = t.whom
                                       /\ Loaded(t, row).loaded = row
             /\ \A key \in Key : Holding(t, key).who = t.who /\ Holding(t, key).whom = t.whom
             /\ \A key \in Key : Holding(t, key).loaded = t.loaded
             /\ \A n \in Nat : Making(t, n).who = t.who /\ Making(t, n).whom = t.whom
             /\ \A rs \in SUBSET Row : Touching(t, rs).target = rs
  BY DEF Loaded, Holding, Making, Touching, Task
<1> QED
  BY <1>1, <1>2

\* The four ways a request begins: having loaded a row, ...
LEMMA BegunLoaded ==
  ASSUME NEW pc \in Pcs, NEW op \in Kinds, NEW m \in Member, NEW o \in Member, NEW row \in MemberRow
  PROVE  /\ Loaded(Start(pc, op, m, o), row).pc = pc
         /\ Loaded(Start(pc, op, m, o), row).who = m
         /\ Loaded(Start(pc, op, m, o), row).whom = o
         /\ Loaded(Start(pc, op, m, o), row).loaded = row
<1> DEFINE s == Start(pc, op, m, o)
<1>1. s \in Task /\ s.pc = pc /\ s.who = m /\ s.whom = o
  BY LocalTypes, LocalValues, FieldValues
<1> HIDE DEF s
<1>2. Loaded(s, row).pc = pc /\ Loaded(s, row).who = m /\ Loaded(s, row).whom = o
      /\ Loaded(s, row).loaded = row
  BY <1>1, LocalValues, FieldValues
<1> QED
  BY <1>2 DEF s

\* ... captured a key, ...
LEMMA BegunHolding ==
  ASSUME NEW pc \in Pcs, NEW op \in Kinds, NEW m \in Member, NEW o \in Member, NEW key \in Key
  PROVE  /\ Holding(Start(pc, op, m, o), key) \in Task
         /\ Holding(Start(pc, op, m, o), key).pc = pc
         /\ Holding(Start(pc, op, m, o), key).who = m
         /\ Holding(Start(pc, op, m, o), key).whom = o
         /\ Holding(Start(pc, op, m, o), key).key = key
<1> DEFINE s == Start(pc, op, m, o)
<1>1. s \in Task /\ s.pc = pc /\ s.who = m /\ s.whom = o
  BY LocalTypes, LocalValues, FieldValues
<1> HIDE DEF s
<1>2. /\ Holding(s, key) \in Task /\ Holding(s, key).pc = pc /\ Holding(s, key).who = m
      /\ Holding(s, key).whom = o /\ Holding(s, key).key = key
  BY <1>1, LocalTypes, LocalValues, FieldValues
<1> QED
  BY <1>2 DEF s

\* ... captured a key and loaded a row, ...
LEMMA BegunApproval ==
  ASSUME NEW pc \in Pcs, NEW op \in Kinds, NEW m \in Member, NEW o \in Member, NEW key \in Key,
         NEW row \in MemberRow
  PROVE  LET u == Loaded(Holding(Start(pc, op, m, o), key), row)
         IN  u.pc = pc /\ u.who = m /\ u.whom = o /\ u.loaded = row /\ u.key = key
<1> DEFINE v == Holding(Start(pc, op, m, o), key)
<1>1. v \in Task /\ v.pc = pc /\ v.who = m /\ v.whom = o /\ v.key = key
  BY BegunHolding
<1> HIDE DEF v
<1>2. LET u == Loaded(v, row)
      IN  u.pc = pc /\ u.who = m /\ u.whom = o /\ u.loaded = row /\ u.key = key
  BY <1>1, LocalValues, FieldValues
<1> QED
  BY <1>2 DEF v

\* ... or made a key or a text as well.
LEMMA BegunMaking ==
  ASSUME NEW pc \in Pcs, NEW op \in Kinds, NEW m \in Member, NEW o \in Member, NEW key \in Key,
         NEW n \in Nat, NEW row \in MemberRow, NEW rs \in SUBSET Row
  PROVE  /\ LET u == Loaded(Making(Holding(Start(pc, op, m, o), key), n), row)
            IN  u.pc = pc /\ u.who = m /\ u.whom = o /\ u.loaded = row
         /\ LET u == Touching(Making(Holding(Start(pc, op, m, o), key), n), rs)
            IN  u.pc = pc /\ u.key = key /\ u.fresh = n /\ u.target = rs
<1> DEFINE v == Holding(Start(pc, op, m, o), key)
           w == Making(v, n)
<1>1. v \in Task /\ v.pc = pc /\ v.who = m /\ v.whom = o /\ v.key = key
  BY BegunHolding
<1> HIDE DEF v
<1>2. w \in Task /\ w.pc = pc /\ w.who = m /\ w.whom = o /\ w.key = key /\ w.fresh = n
  BY <1>1, LocalTypes, LocalValues, FieldValues
<1> HIDE DEF w
<1>3. Loaded(w, row).pc = pc /\ Loaded(w, row).who = m /\ Loaded(w, row).whom = o
      /\ Loaded(w, row).loaded = row
  BY <1>2, LocalValues, FieldValues
<1>4. Touching(w, rs).pc = pc /\ Touching(w, rs).key = key /\ Touching(w, rs).fresh = n
      /\ Touching(w, rs).target = rs
  BY <1>2, LocalValues, FieldValues
<1> QED
  BY <1>3, <1>4 DEF v, w

\* What the request loaded last is all that the row's loading changes.
LEMMA BegunMakingLoads ==
  ASSUME NEW pc \in Pcs, NEW op \in Kinds, NEW m \in Member, NEW o \in Member, NEW key \in Key,
         NEW n \in Nat, NEW row \in MemberRow
  PROVE  LET u == Loaded(Making(Holding(Start(pc, op, m, o), key), n), row)
         IN  u.pc = pc /\ u.who = m /\ u.whom = o
<1>1. {} \in SUBSET Row
  OBVIOUS
<1> QED
  BY <1>1, BegunMaking

-----------------------------------------------------------------------------
(* Ways a step may leave the invariant standing.                            *)

\* In some places nothing is relied on.
Carefree == {"idle", "revoke", "lockout", "mark", "unfreeze"}

\* There, whatever a request read may be out of date.
LEMMA NothingToStand ==
  \A u : u.pc \in Carefree => RequestStands(u)
BY DEF RequestStands, KeyRequestStands, MemberRequestStands, RemovalStands, AfterCommit, Carefree

\* A request that reads, and goes on.
LEMMA ReadingStep ==
  ASSUME OneAtATime, AloneInv, NEW h \in Handler, task[h].pc # "replace",
         NEW u, task'[h] = u, RequestStands(u),
         member' = member, Current' = Current, ring' = ring, rows' = rows
  PROVE  AloneInv'
<1>1. (ExactlyOneOwner /\ ActiveHoldCurrentKey /\ OutsidersHoldNothing)'
  BY DEF AloneInv, ExactlyOneOwner, IsOwner, ActiveHoldCurrentKey, Opens, OutsidersHoldNothing, Current
<1>2. (RingHoldsCurrent /\ RowsAreCurrent)'
  BY DEF AloneInv, RingHoldsCurrent, RowsAreCurrent, OneAtATime
<1>3. RequestStands(task[h])'
  BY DEF RequestStands, KeyRequestStands, MemberRequestStands, RemovalStands, BlockStands, AsLoaded,
         IsOwner, MayReset, Stays
<1> QED
  BY <1>1, <1>2, <1>3 DEF AloneInv, OneAtATime

\* What a step does to the one slot.
LEMMA SlotBecomes ==
  ASSUME TypeOK, NEW h \in Handler
  PROVE  /\ \A t : Run(h, t) => task'[h] = t
         /\ \A pc : Goto(h, pc) => task'[h] = [task[h] EXCEPT !.pc = pc]
         /\ Done(h) => task'[h].pc = "idle"
BY DEF TypeOK, Run, Goto, Done, NoTask

\* A request that goes to another place keeps its other locals.
LEMMA Moved ==
  ASSUME NEW t \in Task, NEW pc
  PROVE  LET u == [t EXCEPT !.pc = pc]
         IN  /\ u.pc = pc /\ u.who = t.who /\ u.whom = t.whom /\ u.key = t.key /\ u.fresh = t.fresh
             /\ u.loaded = t.loaded /\ u.held = t.held /\ u.seen = t.seen /\ u.target = t.target
BY DEF Task

\* Steps that belong to no request.
LEMMA OutsideStands ==
  ASSUME TypeOK, AloneInv,
         (\E m \in Member : SignIn(m) \/ Lock(m)) \/ Suspend \/ Resume \/ Restart
  PROVE  AloneInv'
<1>1. Current' = Current /\ member' = member /\ rows' = rows
  BY DEF SignIn, Lock, Suspend, Resume, Restart, Current, TypeOK
<1>2. (ExactlyOneOwner /\ ActiveHoldCurrentKey /\ OutsidersHoldNothing)'
  BY <1>1 DEF AloneInv, ExactlyOneOwner, IsOwner, ActiveHoldCurrentKey, Opens, OutsidersHoldNothing, Current
<1>3. RowsAreCurrent'
  BY <1>1 DEF AloneInv, RowsAreCurrent
<1>4. RingHoldsCurrent'
  BY <1>1 DEF AloneInv, RingHoldsCurrent, SignIn, Lock, Suspend, Resume, Restart, TypeOK
<1>5. ASSUME NEW h \in Handler PROVE RequestStands(task[h])'
  <2>1. task'[h] = task[h] \/ task'[h].pc = "idle"
    BY DEF SignIn, Lock, Suspend, Resume, Restart, NoTask
  <2>2. CASE task'[h].pc = "idle"
    BY <2>2 DEF RequestStands, KeyRequestStands, MemberRequestStands, RemovalStands, AfterCommit
  <2>3. CASE task'[h] = task[h]
    <3>1. RequestStands(task[h])
      BY DEF AloneInv
    <3> QED
      BY <1>1, <2>3, <3>1
         DEF RequestStands, KeyRequestStands, MemberRequestStands, RemovalStands, BlockStands,
             AsLoaded, IsOwner, MayReset, Stays
  <2> QED
    BY <2>1, <2>2, <2>3
<1> QED
  BY <1>2, <1>3, <1>4, <1>5 DEF AloneInv

\* Somebody who is not in the household joins: no request relies on that row.
LEMMA JoinStands ==
  ASSUME TypeOK, AloneInv, NEW m \in Member, Join(m)
  PROVE  AloneInv'
<1> DEFINE row == member'[m]
<1>1. /\ row.status = "pending" /\ row.role = "member" /\ row.sealed = NoSeal
      /\ \A o \in Member \ {m} : member'[o] = member[o]
      /\ member[m].status \in {"absent", "removed"}
  BY DEF Join, TypeOK, Pending, NoMember
<1>2. tenant' = tenant /\ ring' = ring /\ rows' = rows /\ task' = task /\ Current' = Current
  BY DEF Join, Current
<1> HIDE DEF row
<1>3. ExactlyOneOwner'
  <2>1. PICK w \in Member : IsOwner(w) /\ \A o \in Member \ {w} : member[o].role # "owner"
    BY DEF AloneInv, ExactlyOneOwner
  <2>2. w # m
    BY <1>1, <2>1 DEF IsOwner
  <2> QED
    BY <1>1, <2>1, <2>2 DEF ExactlyOneOwner, IsOwner, row
<1>4. (ActiveHoldCurrentKey /\ OutsidersHoldNothing)'
  BY <1>1, <1>2 DEF AloneInv, ActiveHoldCurrentKey, OutsidersHoldNothing, Opens, row
<1>5. (RingHoldsCurrent /\ RowsAreCurrent)'
  BY <1>2 DEF AloneInv, RingHoldsCurrent, RowsAreCurrent
<1>6. ASSUME NEW h \in Handler PROVE RequestStands(task[h])'
  <2> DEFINE t == task[h]
  <2>1. RequestStands(t) /\ t' = t
    BY <1>2 DEF AloneInv
  <2>2. t.who \in Member /\ t.whom \in Member
    BY DEF TypeOK, Task
  <2> HIDE DEF t
  <2>3. KeyRequestStands(t)'
    BY <1>1, <1>2, <2>1, <2>2
       DEF RequestStands, KeyRequestStands, BlockStands, AsLoaded, row
  <2>4. MemberRequestStands(t)'
    BY <1>1, <1>2, <2>1, <2>2
       DEF RequestStands, MemberRequestStands, AsLoaded, IsOwner, MayReset, row
  <2>5. \A o \in Member : /\ Stays(o, t.whom)' = Stays(o, t.whom)
                          /\ Stays(o, t.whom) => member'[o] = member[o]
    BY <1>1, <2>1 DEF Stays, row
  <2>6. RemovalStands(t)'
    BY <1>1, <1>2, <2>1, <2>2, <2>5
       DEF RequestStands, RemovalStands, AsLoaded, row
  <2> QED
    BY <2>3, <2>4, <2>6 DEF RequestStands, t
<1> QED
  BY <1>3, <1>4, <1>5, <1>6 DEF AloneInv

\* What the invariant says of a member whose key is asked for.
LEMMA HoldsCurrent ==
  ASSUME TypeOK, AloneInv, NEW m \in Member
  PROVE  /\ member[m].status = "active" =>
              /\ member[m].pub # 0
              /\ member[m].sealed = [dek |-> tenant.dek, to |-> member[m].pub]
         /\ member[m].sealed # NoSeal => member[m].status = "active"
         /\ Unlocked(m) /\ (\A h \in Handler : task[h].pc # "replace") => ring[m] = Current
BY DEF AloneInv, ActiveHoldCurrentKey, Opens, OutsidersHoldNothing, RingHoldsCurrent, Unlocked

\* Every request begins with what it relies on.
LEMMA ArriveStands ==
  ASSUME OneAtATime, TypeOK, AloneInv, NEW h \in Handler, Arrive(h)
  PROVE  AloneInv'
<1>1. PICK m \in Member :
        \/ SetupLoad(h, m)
        \/ UnlockLoad(h, m)
        \/ \E op \in {"change", "recover"} : ChangeLoad(h, m, op)
        \/ \E r \in Row : WriteBind(h, m, r)
        \/ LeaveCheck(h, m)
        \/ ResetCheck(h, m)
        \/ \E o \in Member : \/ ApproveCheck(h, m, o)
                             \/ DeclineCheck(h, m, o)
                             \/ RemoveCheck(h, m, o)
                             \/ DropCheck(h, m, o)
                             \/ TransferCheck(h, m, o)
  BY DEF Arrive
<1>0. task[h].pc # "replace" /\ \A k \in Handler : task[k].pc # "replace"
  <2>1. task[h].pc = "idle"
    BY ArrivePcs
  <2> QED
    BY <2>1 DEF OneAtATime
<1>2. /\ member[m] \in MemberRow /\ ring[m] \in Key /\ made[m] \in Nat /\ written \in Nat
      /\ minted \in Nat
  BY BoundsAssumption DEF TypeOK
<1>3. ASSUME NEW u, Run(h, u), RequestStands(u),
             member' = member, tenant' = tenant, ring' = ring, rows' = rows
      PROVE  AloneInv'
  BY <1>0, <1>3, SlotBecomes, ReadingStep DEF Current
<1>4. /\ "setup" \in Pcs /\ "version" \in Pcs /\ "save" \in Pcs /\ "write" \in Pcs
      /\ "seal" \in Pcs /\ "decline" \in Pcs /\ "drop" \in Pcs /\ "transfer" \in Pcs
      /\ "reset" \in Pcs /\ "holders" \in Pcs
      /\ "setup" \in Kinds /\ "unlock" \in Kinds /\ "change" \in Kinds /\ "recover" \in Kinds
      /\ "write" \in Kinds /\ "approve" \in Kinds /\ "decline" \in Kinds /\ "drop" \in Kinds
      /\ "transfer" \in Kinds /\ "reset" \in Kinds /\ "remove" \in Kinds /\ "leave" \in Kinds
  BY DEF Pcs, Kinds
<1> USE DEF AsLoaded
<1>5. CASE SetupLoad(h, m)
  <2> DEFINE row == WithBlock(member[m], made[m] + 1, NoSeal)
             u == Loaded(Start("setup", "setup", m, m), row)
  <2>1. row \in MemberRow /\ row.sealed = NoSeal
    <3>1. row \in MemberRow
      BY <1>2, RowConstants, BlockType
    <3> QED
      BY <1>2, <3>1 DEF WithBlock, MemberRow
  <2> HIDE DEF row
  <2>2. u.pc = "setup" /\ u.who = m /\ u.loaded = row
    BY <1>4, <2>1, BegunLoaded
  <2>3. member[m].status # "active"
    BY <1>0, <1>5, HoldsCurrent DEF SetupLoad
  <2>4. Run(h, u) /\ member' = member /\ tenant' = tenant /\ ring' = ring /\ rows' = rows
    BY <1>5 DEF SetupLoad, row
  <2> HIDE DEF u
  <2>5. RequestStands(u)
    BY <2>1, <2>2, <2>3 DEF RequestStands, KeyRequestStands, MemberRequestStands, RemovalStands, AfterCommit
  <2> QED
    BY <1>3, <2>4, <2>5
<1>6. CASE UnlockLoad(h, m)
  <2> DEFINE u == Loaded(Start("version", "unlock", m, m), member[m])
  <2>1. u.pc = "version" /\ u.who = m /\ u.loaded = member[m]
    BY <1>2, <1>4, BegunLoaded
  <2>2. member[m].status = "active"
    BY <1>0, <1>6, HoldsCurrent DEF UnlockLoad
  <2>3. Run(h, u) /\ member' = member /\ tenant' = tenant /\ ring' = ring /\ rows' = rows
    BY <1>6 DEF UnlockLoad, OnlyTask
  <2> HIDE DEF u
  <2>4. RequestStands(u)
    BY <2>1, <2>2 DEF RequestStands, KeyRequestStands, MemberRequestStands, RemovalStands, AfterCommit
  <2> QED
    BY <1>3, <2>3, <2>4
<1>7. ASSUME NEW op \in {"change", "recover"}, ChangeLoad(h, m, op)
      PROVE  AloneInv'
  <2> DEFINE u == Loaded(Start("save", op, m, m), member[m])
  <2>1. u.pc = "save" /\ u.who = m /\ u.loaded = member[m]
    BY <1>2, <1>4, BegunLoaded
  <2>2. member[m].status = "active" \/ member[m].sealed = NoSeal
    BY <1>0, HoldsCurrent
  <2>3. Run(h, u) /\ member' = member /\ tenant' = tenant /\ ring' = ring /\ rows' = rows
    BY <1>7 DEF ChangeLoad, OnlyTask
  <2> HIDE DEF u
  <2>4. RequestStands(u)
    BY <2>1, <2>2 DEF RequestStands, KeyRequestStands, MemberRequestStands, RemovalStands, AfterCommit, BlockStands
  <2> QED
    BY <1>3, <2>3, <2>4
<1>8. ASSUME NEW r \in Row, WriteBind(h, m, r)
      PROVE  AloneInv'
  <2> DEFINE u == Touching(Making(Holding(Start("write", "write", m, m), ring[m]), written + 1), {r})
  <2>1. u.pc = "write" /\ u.key = ring[m] /\ u.fresh = written + 1 /\ u.target = {r}
    <3>1. written + 1 \in Nat /\ {r} \in SUBSET Row
      BY <1>2
    <3> QED
      BY <1>2, <1>4, <3>1, BegunMaking
  <2>2. ring[m] = Current /\ written + 1 \in 0 .. MaxText
    <3>1. Unlocked(m) /\ written < MaxText
      BY <1>8 DEF WriteBind
    <3>2. ring[m] = Current
      BY <1>0, <3>1, HoldsCurrent
    <3>3. MaxText \in Nat
      BY BoundsAssumption
    <3> QED
      BY <1>2, <3>1, <3>2, <3>3
  <2>3. Run(h, u) /\ member' = member /\ tenant' = tenant /\ ring' = ring /\ rows' = rows
    BY <1>8 DEF WriteBind
  <2> HIDE DEF u
  <2>4. RequestStands(u)
    BY <2>1, <2>2 DEF RequestStands, KeyRequestStands, MemberRequestStands, RemovalStands, AfterCommit
  <2> QED
    BY <1>3, <2>3, <2>4
<1>9. ASSUME NEW op \in {"remove", "leave"}, NEW o \in Member, TakeOut(h, op, m, o),
             member[o].status = "active", member[o].role # "owner"
      PROVE  AloneInv'
  <2> DEFINE u == Loaded(Making(Holding(Start("holders", op, m, o), ring[m]), minted + 1), member[o])
  <2>1. u.pc = "holders" /\ u.whom = o /\ u.loaded = member[o]
    <3> DEFINE row == member[o]
               key == ring[m]
               n == minted + 1
    <3>1. row \in MemberRow /\ key \in Key /\ n \in Nat /\ "holders" \in Pcs /\ op \in Kinds
          /\ {} \in SUBSET Row
      BY <1>2, <1>4 DEF TypeOK
    <3> HIDE DEF row, key, n
    <3>2. LET v == Loaded(Making(Holding(Start("holders", op, m, o), key), n), row)
          IN  v.pc = "holders" /\ v.whom = o /\ v.loaded = row
      BY <3>1, BegunMaking
    <3> QED
      BY <3>2 DEF row, key, n
  <2>2. Run(h, u) /\ member' = member /\ tenant' = tenant /\ ring' = ring /\ rows' = rows
    BY <1>9 DEF TakeOut
  <2> HIDE DEF u
  <2>3. RequestStands(u)
    BY <1>9, <2>1 DEF RequestStands, KeyRequestStands, MemberRequestStands, RemovalStands, AfterCommit
  <2> QED
    BY <1>3, <2>2, <2>3
<1>10. ASSUME NEW o \in Member, NEW pc \in {"decline", "drop", "transfer", "reset"},
              NEW op \in Kinds, Run(h, Loaded(Start(pc, op, m, o), member[o])), OnlyTask,
              RequestStands(Loaded(Start(pc, op, m, o), member[o]))
       PROVE  AloneInv'
  BY <1>3, <1>10 DEF OnlyTask
<1>11. ASSUME NEW o \in Member, NEW pc \in {"decline", "drop", "transfer", "reset"}, NEW op \in Kinds
       PROVE  LET u == Loaded(Start(pc, op, m, o), member[o])
              IN  u.pc = pc /\ u.who = m /\ u.whom = o /\ u.loaded = member[o]
  <2>1. member[o] \in MemberRow
    BY DEF TypeOK
  <2>2. pc \in Pcs
    BY <1>4
  <2> QED
    BY <2>1, <2>2, BegunLoaded
<1>12. ASSUME NEW w \in Member, IsOwner(w), NEW o \in Member, o # w
       PROVE  member[o].role # "owner"
  <2>1. PICK v \in Member : \A p \in Member \ {v} : member[p].role # "owner"
    BY DEF AloneInv, ExactlyOneOwner
  <2>2. v = w
    BY <1>12, <2>1 DEF IsOwner
  <2> QED
    BY <1>12, <2>1, <2>2
<1>13. CASE ResetCheck(h, m)
  <2> DEFINE u == Loaded(Start("reset", "reset", m, m), member[m])
  <2>1. u.pc = "reset" /\ u.whom = m /\ u.loaded = member[m]
    BY <1>4, <1>11
  <2>2. MayReset(m)
    BY <1>13 DEF ResetCheck
  <2>3. RequestStands(u)
    <3> HIDE DEF u
    <3> QED
      BY <2>1, <2>2 DEF RequestStands, KeyRequestStands, MemberRequestStands, RemovalStands, AfterCommit
  <2> QED
    BY <1>4, <1>10, <1>13, <2>3 DEF ResetCheck
<1>14. ASSUME NEW o \in Member, DeclineCheck(h, m, o)
       PROVE  AloneInv'
  <2> DEFINE u == Loaded(Start("decline", "decline", m, o), member[o])
  <2>1. u.pc = "decline" /\ u.whom = o /\ u.loaded = member[o]
    BY <1>4, <1>11
  <2>2. member[o].status = "pending"
    BY <1>14 DEF DeclineCheck
  <2>3. RequestStands(u)
    <3> HIDE DEF u
    <3> QED
      BY <2>1, <2>2 DEF RequestStands, KeyRequestStands, MemberRequestStands, RemovalStands, AfterCommit
  <2> QED
    BY <1>4, <1>10, <1>14, <2>3 DEF DeclineCheck
<1>15. ASSUME NEW o \in Member, DropCheck(h, m, o)
       PROVE  AloneInv'
  <2> DEFINE u == Loaded(Start("drop", "drop", m, o), member[o])
  <2>1. u.pc = "drop" /\ u.whom = o /\ u.loaded = member[o]
    BY <1>4, <1>11
  <2>2. member[o].status = "active" /\ member[o].role # "owner"
    BY <1>12, <1>15 DEF DropCheck
  <2>3. RequestStands(u)
    <3> HIDE DEF u
    <3> QED
      BY <2>1, <2>2 DEF RequestStands, KeyRequestStands, MemberRequestStands, RemovalStands, AfterCommit
  <2> QED
    BY <1>4, <1>10, <1>15, <2>3 DEF DropCheck
<1>16. ASSUME NEW o \in Member, TransferCheck(h, m, o)
       PROVE  AloneInv'
  <2> DEFINE u == Loaded(Start("transfer", "transfer", m, o), member[o])
  <2>1. u.pc = "transfer" /\ u.who = m /\ u.whom = o /\ u.loaded = member[o]
    BY <1>4, <1>11
  <2>2. member[o].status = "active" /\ IsOwner(m) /\ o # m
    BY <1>16 DEF TransferCheck
  <2>3. RequestStands(u)
    <3> HIDE DEF u
    <3> QED
      BY <2>1, <2>2 DEF RequestStands, KeyRequestStands, MemberRequestStands, RemovalStands, AfterCommit
  <2> QED
    BY <1>4, <1>10, <1>16, <2>3 DEF TransferCheck
<1>17. ASSUME NEW o \in Member, ApproveCheck(h, m, o)
       PROVE  AloneInv'
  <2> DEFINE u == Loaded(Holding(Start("seal", "approve", m, o), ring[m]), member[o])
  <2>1. u.pc = "seal" /\ u.whom = o /\ u.loaded = member[o] /\ u.key = ring[m]
    <3> DEFINE row == member[o]
               key == ring[m]
    <3>1. row \in MemberRow /\ key \in Key /\ "seal" \in Pcs /\ "approve" \in Kinds
      BY <1>2, <1>4 DEF TypeOK
    <3> HIDE DEF row, key
    <3>2. LET v == Loaded(Holding(Start("seal", "approve", m, o), key), row)
          IN  v.pc = "seal" /\ v.whom = o /\ v.loaded = row /\ v.key = key
      BY <3>1, BegunApproval
    <3> QED
      BY <3>2 DEF row, key
  <2>2. ring[m] = Current /\ member[o].status = "pending" /\ member[o].pub # 0
    BY <1>0, <1>17, HoldsCurrent DEF ApproveCheck
  <2>3. Run(h, u) /\ member' = member /\ tenant' = tenant /\ ring' = ring /\ rows' = rows
    BY <1>17 DEF ApproveCheck, OnlyTask
  <2> HIDE DEF u
  <2>4. RequestStands(u)
    BY <2>1, <2>2 DEF RequestStands, KeyRequestStands, MemberRequestStands, RemovalStands, AfterCommit
  <2> QED
    BY <1>3, <2>3, <2>4
<1>18. CASE LeaveCheck(h, m)
  BY <1>9, <1>18 DEF LeaveCheck
<1>19. ASSUME NEW o \in Member, RemoveCheck(h, m, o)
       PROVE  AloneInv'
  BY <1>9, <1>12, <1>19 DEF RemoveCheck
<1> QED
  BY <1>1, <1>5, <1>6, <1>7, <1>8, <1>13, <1>14, <1>15, <1>16, <1>17, <1>18, <1>19

-----------------------------------------------------------------------------
(* The steps of the requests.                                               *)

\* A step that changes one row of somebody who is not in the household, and
\* neither lets them in nor gives them a key or the ownership.
LEMMA OutsiderStep ==
  ASSUME OneAtATime, TypeOK, AloneInv, NEW h \in Handler, task[h].pc # "replace", NEW m \in Member,
         member[m].status # "active",
         member'[m].status # "active", member'[m].sealed = NoSeal,
         member'[m].role = "owner" => member[m].role = "owner",
         \A o \in Member \ {m} : member'[o] = member[o],
         Current' = Current, tenant' = tenant, ring' = ring, rows' = rows,
         RequestStands(task[h])'
  PROVE  AloneInv'
<1>1. ExactlyOneOwner'
  <2>1. PICK w \in Member : IsOwner(w) /\ \A o \in Member \ {w} : member[o].role # "owner"
    BY DEF AloneInv, ExactlyOneOwner
  <2>2. w # m
    BY <2>1 DEF IsOwner
  <2> QED
    BY <2>1, <2>2 DEF ExactlyOneOwner, IsOwner
<1>2. (ActiveHoldCurrentKey /\ OutsidersHoldNothing)'
  BY DEF AloneInv, ActiveHoldCurrentKey, OutsidersHoldNothing, Opens
<1>3. (RingHoldsCurrent /\ RowsAreCurrent)'
  BY DEF AloneInv, RingHoldsCurrent, RowsAreCurrent, OneAtATime
<1> QED
  BY <1>1, <1>2, <1>3 DEF AloneInv, OneAtATime

\* A member other than the owner goes out, or back to waiting, with no key.
LEMMA MemberOutStep ==
  ASSUME OneAtATime, TypeOK, AloneInv, NEW h \in Handler, task[h].pc # "replace", NEW m \in Member,
         member[m].role # "owner",
         member'[m].status # "active", member'[m].sealed = NoSeal, member'[m].role # "owner",
         \A o \in Member \ {m} : member'[o] = member[o],
         Current' = Current, tenant' = tenant, ring' = ring, rows' = rows,
         RequestStands(task[h])'
  PROVE  AloneInv'
<1>1. ExactlyOneOwner'
  <2>1. PICK w \in Member : IsOwner(w) /\ \A o \in Member \ {w} : member[o].role # "owner"
    BY DEF AloneInv, ExactlyOneOwner
  <2>2. w # m
    BY <2>1 DEF IsOwner
  <2> QED
    BY <2>1, <2>2 DEF ExactlyOneOwner, IsOwner
<1>2. (ActiveHoldCurrentKey /\ OutsidersHoldNothing)'
  BY DEF AloneInv, ActiveHoldCurrentKey, OutsidersHoldNothing, Opens
<1>3. (RingHoldsCurrent /\ RowsAreCurrent)'
  BY DEF AloneInv, RingHoldsCurrent, RowsAreCurrent, OneAtATime
<1> QED
  BY <1>1, <1>2, <1>3 DEF AloneInv, OneAtATime

\* Only the ring changes, and only to nothing or to the present key.
LEMMA RingStep ==
  ASSUME OneAtATime, AloneInv, NEW h \in Handler, task[h].pc # "replace",
         task'[h].pc \in Carefree, \A m \in Member : ring'[m] \in {ring[m], NoKey, Current},
         member' = member, Current' = Current, rows' = rows
  PROVE  AloneInv'
<1>1. (ExactlyOneOwner /\ ActiveHoldCurrentKey /\ OutsidersHoldNothing)'
  BY DEF AloneInv, ExactlyOneOwner, IsOwner, ActiveHoldCurrentKey, Opens, OutsidersHoldNothing, Current
<1>2. RingHoldsCurrent' /\ RowsAreCurrent'
  BY DEF AloneInv, RingHoldsCurrent, RowsAreCurrent, OneAtATime
<1>3. RequestStands(task[h])'
  BY DEF RequestStands, KeyRequestStands, MemberRequestStands, RemovalStands, AfterCommit, Carefree
<1> QED
  BY <1>1, <1>2, <1>3 DEF AloneInv, OneAtATime

\* The steps of KeyService.
LEMMA KeyStepStands ==
  ASSUME OneAtATime, TypeOK, AloneInv, NEW h \in Handler,
         SetupSave(h) \/ ReadVersion(h) \/ Put(h) \/ SavePassphrase(h) \/ Reopen(h)
  PROVE  AloneInv'
<1> DEFINE t == task[h]
<1>1. t \in Task /\ RequestStands(t)
  BY SlotSteps DEF AloneInv
<1>0. task[h].pc # "replace" /\ \A k \in Handler : task[k].pc # "replace"
  BY DEF SetupSave, ReadVersion, Put, SavePassphrase, Reopen, OneAtATime
<1>2. /\ t.who \in Member /\ t.key \in Key /\ t.loaded \in MemberRow
      /\ member[t.who] \in MemberRow /\ member \in [Member -> MemberRow]
  BY <1>1 DEF Task, TypeOK
<1>3. ASSUME SaveBlock(h), OnlyMember, t.loaded.sealed = NoSeal, member[t.who].status # "active",
             RequestStands(task[h])'
      PROVE  AloneInv'
  <2>1. tenant' = tenant /\ ring' = ring /\ rows' = rows /\ Current' = Current
    BY <1>3 DEF OnlyMember, Current
  <2>2. CASE member[t.who].status = "absent"
    <3>1. member' = member
      BY <1>3, <2>2 DEF SaveBlock
    <3>2. member[t.who].sealed = NoSeal
      BY <1>2, <1>3 DEF AloneInv, OutsidersHoldNothing
    <3> QED
      BY <1>0, <1>2, <1>3, <2>1, <3>1, <3>2, OutsiderStep
  <2>3. CASE member[t.who].status # "absent"
    <3>1. member' = [member EXCEPT ![t.who] = WithBlock(member[t.who], t.loaded.pub, t.loaded.sealed)]
      BY <1>3, <2>3 DEF SaveBlock
    <3>2. /\ member'[t.who] = WithBlock(member[t.who], t.loaded.pub, t.loaded.sealed)
          /\ \A o \in Member \ {t.who} : member'[o] = member[o]
      BY <1>2, <3>1
    <3>3. /\ member'[t.who].status = member[t.who].status /\ member'[t.who].role = member[t.who].role
          /\ member'[t.who].sealed = NoSeal
      BY <1>2, <1>3, <3>2 DEF WithBlock, MemberRow
    <3> QED
      BY <1>0, <1>2, <1>3, <2>1, <3>2, <3>3, OutsiderStep
  <2> QED
    BY <2>2, <2>3
<1>4. CASE SetupSave(h)
  <2>1. t.loaded.sealed = NoSeal /\ member[t.who].status # "active"
    BY <1>1, <1>4 DEF SetupSave, RequestStands, KeyRequestStands
  <2>2. task'[h].pc = "idle"
    BY <1>4, SlotBecomes DEF SetupSave
  <2>3. RequestStands(task[h])'
    BY <2>2 DEF RequestStands, KeyRequestStands, MemberRequestStands, RemovalStands, AfterCommit
  <2> QED
    BY <1>3, <1>4, <2>1, <2>3 DEF SetupSave
<1>5. CASE ReadVersion(h)
  <2> DEFINE v == [t EXCEPT !.pc = "put"]
             key == [dek |-> t.loaded.sealed.dek, version |-> tenant.version]
             u == Holding(v, key)
  <2>1. v \in Task /\ v.pc = "put"
    BY <1>1, LocalTypes, Moved DEF Pcs
  <2>2. key = Current /\ key \in Key
    <3>1. member[t.who] = t.loaded /\ t.loaded.status = "active"
      BY <1>1, <1>5 DEF ReadVersion, RequestStands, KeyRequestStands, AsLoaded
    <3>2. t.loaded.sealed.dek = tenant.dek
      <4>1. t.loaded.sealed = [dek |-> tenant.dek, to |-> t.loaded.pub]
        BY <1>0, <1>2, <3>1, HoldsCurrent
      <4> QED
        BY <4>1
    <3>3. tenant.dek \in Nat /\ tenant.version \in Nat
      BY DEF TypeOK
    <3> QED
      BY <3>2, <3>3 DEF Current, Key
  <2>3. Run(h, u) /\ member' = member /\ Current' = Current /\ ring' = ring /\ rows' = rows
    BY <1>5 DEF ReadVersion, OnlyTask, Current
  <2> HIDE DEF v, key
  <2>4. u.pc = "put" /\ u.key = Current
    BY <2>1, <2>2, LocalValues
  <2> HIDE DEF u
  <2>5. RequestStands(u)
    BY <2>4 DEF RequestStands, KeyRequestStands, MemberRequestStands, RemovalStands, AfterCommit
  <2> QED
    BY <1>0, <2>3, <2>5, SlotBecomes, ReadingStep
<1>6. CASE Put(h)
  <2>1. t.key = Current
    BY <1>1, <1>6 DEF Put, RequestStands, KeyRequestStands
  <2>2. task'[h].pc = "idle" /\ member' = member /\ Current' = Current /\ rows' = rows
    BY <1>6, SlotBecomes DEF Put, Current
  <2>3. \A m \in Member : ring'[m] \in {ring[m], NoKey, Current}
    BY <1>6, <2>1 DEF Put, TypeOK
  <2> QED
    BY <1>0, <2>2, <2>3, RingStep DEF Carefree
<1>7. CASE SavePassphrase(h)
  <2>1. BlockStands(t)
    BY <1>1, <1>7 DEF SavePassphrase, RequestStands, KeyRequestStands
  <2>2. task'[h].pc = "idle" \/ task'[h] = [t EXCEPT !.pc = "reopen"]
    BY <1>7, SlotBecomes DEF SavePassphrase
  <2>3. tenant' = tenant /\ ring' = ring /\ rows' = rows /\ Current' = Current
    BY <1>7 DEF SavePassphrase, OnlyMember, Current
  <2>4. SaveBlock(h) /\ OnlyMember
    BY <1>7 DEF SavePassphrase
  <2>5. ASSUME \/ member'[t.who] = t.loaded /\ t.loaded.status = "active"
               \/ t.loaded.sealed = NoSeal /\ member'[t.who].status # "active"
        PROVE  RequestStands(task[h])'
    <3>1. CASE task'[h].pc = "idle"
      BY <3>1 DEF RequestStands, KeyRequestStands, MemberRequestStands, RemovalStands, AfterCommit
    <3>2. CASE task'[h] = [t EXCEPT !.pc = "reopen"]
      <4> DEFINE u == task'[h]
      <4>1. u.pc = "reopen" /\ u.who = t.who /\ u.loaded = t.loaded
        BY <1>1, <3>2, Moved
      <4> HIDE DEF u
      <4>2. \/ member'[u.who] = u.loaded /\ u.loaded.status = "active"
            \/ u.loaded.sealed = NoSeal /\ member'[u.who].status # "active"
        BY <2>5, <4>1
      <4> QED
        BY <4>1, <4>2 DEF RequestStands, KeyRequestStands, MemberRequestStands, RemovalStands,
                          AfterCommit, BlockStands, AsLoaded, u
    <3> QED
      BY <2>2, <3>1, <3>2
  <2>6. CASE member[t.who] = t.loaded /\ t.loaded.status = "active"
    <3>1. WithBlock(member[t.who], t.loaded.pub, t.loaded.sealed) = member[t.who]
      BY <1>2, <2>6 DEF WithBlock, MemberRow
    <3>2. member' = member
      BY <1>2, <2>4, <3>1 DEF SaveBlock
    <3>3. RequestStands(task[h])'
      BY <2>5, <2>6, <3>2
    <3>4. (ExactlyOneOwner /\ ActiveHoldCurrentKey /\ OutsidersHoldNothing)'
      BY <1>0, <2>3, <3>2 DEF AloneInv, ExactlyOneOwner, IsOwner, ActiveHoldCurrentKey, Opens,
                        OutsidersHoldNothing
    <3>5. (RingHoldsCurrent /\ RowsAreCurrent)'
      BY <1>0, <2>3 DEF AloneInv, RingHoldsCurrent, RowsAreCurrent
    <3> QED
      BY <3>3, <3>4, <3>5 DEF AloneInv, OneAtATime
  <2>7. CASE t.loaded.sealed = NoSeal /\ member[t.who].status # "active"
    <3>1. member'[t.who].status = member[t.who].status
      <4>1. WithBlock(member[t.who], t.loaded.pub, t.loaded.sealed).status = member[t.who].status
        BY <1>2 DEF WithBlock, MemberRow
      <4> QED
        BY <1>2, <2>4, <4>1 DEF SaveBlock
    <3>2. RequestStands(task[h])'
      BY <2>5, <2>7, <3>1
    <3> QED
      BY <1>3, <2>4, <2>7, <3>2
  <2> QED
    BY <2>1, <2>6, <2>7 DEF BlockStands, AsLoaded
<1>8. CASE Reopen(h)
  <2>1. BlockStands(t)
    BY <1>1, <1>8 DEF Reopen, RequestStands, KeyRequestStands
  <2>2. \/ task'[h].pc = "idle"
        \/ t.loaded.sealed # NoSeal /\ task'[h] = [t EXCEPT !.pc = "version"]
    BY <1>8, SlotBecomes DEF Reopen
  <2>3. member' = member /\ Current' = Current /\ ring' = ring /\ rows' = rows
    BY <1>8 DEF Reopen, OnlyTask, Current
  <2> DEFINE u == task'[h]
  <2>4. RequestStands(u)
    <3>1. CASE u.pc = "idle"
      BY <3>1, NothingToStand DEF Carefree
    <3>2. CASE t.loaded.sealed # NoSeal /\ u = [t EXCEPT !.pc = "version"]
      <4>1. u.pc = "version" /\ u.who = t.who /\ u.loaded = t.loaded
        BY <1>1, <3>2, Moved
      <4>2. member[t.who] = t.loaded /\ t.loaded.status = "active"
        BY <2>1, <3>2 DEF BlockStands, AsLoaded
      <4> HIDE DEF u
      <4> QED
        BY <4>1, <4>2 DEF RequestStands, KeyRequestStands, MemberRequestStands, RemovalStands,
                          AfterCommit, AsLoaded
    <3> QED
      BY <2>2, <3>1, <3>2
  <2> QED
    BY <1>0, <2>3, <2>4, ReadingStep
<1> QED
  BY <1>4, <1>5, <1>6, <1>7, <1>8

\* Writes, and the steps on one membership.
LEMMA MemberStepStands ==
  ASSUME OneAtATime, TypeOK, AloneInv, NEW h \in Handler,
         \/ WriteCommit(h) \/ ApproveSeal(h) \/ DeclineCommit(h) \/ DropCommit(h)
         \/ Revoke(h) \/ RevokeFails(h) \/ TransferCommit(h) \/ ResetCommit(h) \/ Lockout(h)
  PROVE  AloneInv'
<1> DEFINE t == task[h]
<1>1. t \in Task /\ RequestStands(t)
  BY SlotSteps DEF AloneInv
<1>0. task[h].pc # "replace" /\ \A k \in Handler : task[k].pc # "replace"
  BY DEF WriteCommit, ApproveSeal, DeclineCommit, DropCommit, Revoke, RevokeFails, TransferCommit,
         ResetCommit, Lockout, OneAtATime
<1>2. /\ t.who \in Member /\ t.whom \in Member /\ t.key \in Key /\ t.loaded \in MemberRow
      /\ member[t.who] \in MemberRow /\ member[t.whom] \in MemberRow
      /\ member \in [Member -> MemberRow]
  BY <1>1 DEF Task, TypeOK
<1>3. ASSUME task'[h].pc \in {"idle", "revoke", "lockout"}
      PROVE  RequestStands(task[h])'
  BY <1>3 DEF RequestStands, KeyRequestStands, MemberRequestStands, RemovalStands, AfterCommit
<1>4. ASSUME member[t.whom] = t.loaded, t.loaded.status # "absent"
      PROVE  Here(t.whom, t.loaded.id)
  BY <1>4 DEF Here
<1>5. PICK w \in Member : IsOwner(w) /\ \A o \in Member \ {w} : member[o].role # "owner"
  BY DEF AloneInv, ExactlyOneOwner
<1>6. CASE WriteCommit(h)
  <2>1. t.key = Current /\ t.fresh \in 0 .. MaxText
    BY <1>1, <1>6 DEF WriteCommit, RequestStands, KeyRequestStands
  <2>2. /\ member' = member /\ Current' = Current /\ ring' = ring /\ task'[h].pc = "idle"
    BY <1>6, SlotBecomes DEF WriteCommit, Current
  <2>3. RowsAreCurrent'
    <3>1. ASSUME NEW r \in Row PROVE rows'[r].key = Current /\ rows'[r].text \in 0 .. MaxText
      <4>1. rows'[r] = [key |-> t.key, text |-> t.fresh] \/ rows'[r] = rows[r]
        BY <1>6 DEF WriteCommit
      <4> QED
        BY <2>1, <4>1 DEF AloneInv, RowsAreCurrent
    <3> QED
      BY <2>2, <3>1 DEF RowsAreCurrent
  <2>4. (ExactlyOneOwner /\ ActiveHoldCurrentKey /\ OutsidersHoldNothing)'
    BY <2>2 DEF AloneInv, ExactlyOneOwner, IsOwner, ActiveHoldCurrentKey, Opens,
                OutsidersHoldNothing, Current
  <2>5. RingHoldsCurrent'
    BY <1>0, <2>2 DEF AloneInv, RingHoldsCurrent
  <2> QED
    BY <1>3, <2>2, <2>3, <2>4, <2>5 DEF AloneInv, OneAtATime
<1>7. CASE ApproveSeal(h)
  <2>1. /\ member[t.whom] = t.loaded /\ t.loaded.status = "pending" /\ t.loaded.pub # 0
        /\ t.key = Current
    BY <1>1, <1>7 DEF ApproveSeal, RequestStands, MemberRequestStands, AsLoaded
  <2> DEFINE seal == [dek |-> t.key.dek, to |-> t.loaded.pub]
             row == Approved(member[t.whom], seal)
  <2>2. member' = [member EXCEPT ![t.whom] = row]
    BY <1>4, <1>7, <2>1 DEF ApproveSeal
  <2>3. /\ member'[t.whom] = row /\ \A o \in Member \ {t.whom} : member'[o] = member[o]
    BY <1>2, <2>2
  <2>4. seal = [dek |-> tenant.dek, to |-> t.loaded.pub]
    BY <2>1 DEF Current
  <2>5. /\ row.status = "active" /\ row.sealed = seal /\ row.pub = member[t.whom].pub
        /\ row.role = member[t.whom].role
    <3> HIDE DEF seal
    <3> QED
      BY <1>2 DEF Approved, MemberRow
  <2>6. tenant' = tenant /\ Current' = Current /\ ring' = ring /\ rows' = rows /\ task'[h].pc = "idle"
    BY <1>7, SlotBecomes DEF ApproveSeal, Current
  <2> HIDE DEF row, seal
  <2>7. w # t.whom
    BY <1>5, <2>1 DEF IsOwner
  <2>8. ExactlyOneOwner'
    BY <1>2, <1>5, <2>3, <2>5, <2>7 DEF ExactlyOneOwner, IsOwner
  <2>9. (ActiveHoldCurrentKey /\ OutsidersHoldNothing)'
    BY <1>2, <2>1, <2>3, <2>4, <2>5, <2>6
       DEF AloneInv, ActiveHoldCurrentKey, OutsidersHoldNothing, Opens
  <2>10. (RingHoldsCurrent /\ RowsAreCurrent)'
    BY <1>0, <2>6 DEF AloneInv, RingHoldsCurrent, RowsAreCurrent
  <2> QED
    BY <1>3, <2>6, <2>8, <2>9, <2>10 DEF AloneInv, OneAtATime
<1>8. CASE DeclineCommit(h)
  <2>1. member[t.whom] = t.loaded /\ t.loaded.status = "pending"
    BY <1>1, <1>8 DEF DeclineCommit, RequestStands, MemberRequestStands, AsLoaded
  <2>2. member' = [member EXCEPT ![t.whom] = TurnedAway(member[t.whom], t.loaded)]
    BY <1>4, <1>8, <2>1 DEF DeclineCommit
  <2>3. /\ member'[t.whom] = TurnedAway(member[t.whom], t.loaded)
        /\ \A o \in Member \ {t.whom} : member'[o] = member[o]
    BY <1>2, <2>2
  <2>4. /\ member'[t.whom].status # "active" /\ member'[t.whom].sealed = NoSeal
        /\ member'[t.whom].role = "member"
    BY <1>2, <2>3 DEF TurnedAway, Removal, NoMember, MemberRow
  <2>5. tenant' = tenant /\ Current' = Current /\ ring' = ring /\ rows' = rows /\ task'[h].pc = "idle"
    BY <1>8, SlotBecomes DEF DeclineCommit, OnlyMember, Current
  <2> QED
    BY <1>0, <1>2, <1>3, <2>1, <2>3, <2>4, <2>5, OutsiderStep
<1>9. CASE DropCommit(h)
  <2>1. member[t.whom] = t.loaded /\ t.loaded.status = "active" /\ t.loaded.role # "owner"
    BY <1>1, <1>9 DEF DropCommit, RequestStands, RemovalStands, AsLoaded
  <2>2. member' = [member EXCEPT ![t.whom] = Removal(member[t.whom])]
    BY <1>4, <1>9, <2>1 DEF DropCommit
  <2>3. /\ member'[t.whom] = Removal(member[t.whom])
        /\ \A o \in Member \ {t.whom} : member'[o] = member[o]
    BY <1>2, <2>2
  <2>4. /\ member'[t.whom].status # "active" /\ member'[t.whom].sealed = NoSeal
        /\ member'[t.whom].role = "member"
    BY <1>2, <2>3 DEF Removal, MemberRow
  <2>5. /\ tenant' = tenant /\ Current' = Current /\ ring' = ring /\ rows' = rows
        /\ task'[h] = [t EXCEPT !.pc = "revoke"]
    BY <1>9, SlotBecomes DEF DropCommit, OnlyMember, Current
  <2>6. task'[h].pc = "revoke"
    BY <1>1, <2>5, Moved
  <2> QED
    BY <1>0, <1>2, <1>3, <2>1, <2>3, <2>4, <2>5, <2>6, MemberOutStep
<1>10. CASE Revoke(h) \/ RevokeFails(h) \/ Lockout(h)
  <2>1. member' = member /\ Current' = Current /\ rows' = rows /\ task'[h].pc \in Carefree
    BY <1>10, SlotValues DEF Revoke, RevokeFails, Lockout, OnlyTask, Current, Carefree, Pcs
  <2>2. \A m \in Member : ring'[m] \in {ring[m], NoKey, Current}
    BY <1>10 DEF Revoke, RevokeFails, Lockout, OnlyTask, TypeOK
  <2> QED
    BY <1>0, <2>1, <2>2, RingStep
<1>11. CASE TransferCommit(h)
  <2>1. /\ member[t.whom] = t.loaded /\ t.loaded.status = "active"
        /\ IsOwner(t.who) /\ t.who # t.whom
    BY <1>1, <1>11 DEF TransferCommit, RequestStands, MemberRequestStands, AsLoaded
  <2>2. member' = HandedOver(t.who, t.whom)
    <3>1. member[t.who].status # "absent"
      BY <2>1 DEF IsOwner
    <3> QED
      BY <1>4, <1>11, <2>1, <3>1 DEF TransferCommit
  <2>3. /\ member'[t.whom] = WithRole(member[t.whom], "owner")
        /\ member'[t.who] = WithRole(member[t.who], "member")
        /\ \A o \in Member \ {t.who, t.whom} : member'[o] = member[o]
    BY <1>2, <2>1, <2>2 DEF HandedOver
  <2>4. /\ member'[t.whom].role = "owner" /\ member'[t.who].role = "member"
        /\ \A o \in {t.who, t.whom} : /\ member'[o].status = member[o].status
                                      /\ member'[o].pub = member[o].pub
                                      /\ member'[o].sealed = member[o].sealed
    BY <1>2, <2>3 DEF WithRole, MemberRow
  <2>5. tenant' = tenant /\ Current' = Current /\ ring' = ring /\ rows' = rows /\ task'[h].pc = "idle"
    BY <1>11, SlotBecomes DEF TransferCommit, OnlyMember, Current
  <2>6. w = t.who
    BY <1>2, <1>5, <2>1 DEF IsOwner
  <2>7. ExactlyOneOwner'
    BY <1>2, <1>5, <2>1, <2>3, <2>4, <2>6 DEF ExactlyOneOwner, IsOwner
  <2>8. \A o \in Member : /\ member'[o].status = member[o].status
                          /\ member'[o].pub = member[o].pub
                          /\ member'[o].sealed = member[o].sealed
    BY <2>3, <2>4
  <2>9. (ActiveHoldCurrentKey /\ OutsidersHoldNothing)'
    BY <2>5, <2>8 DEF AloneInv, ActiveHoldCurrentKey, OutsidersHoldNothing, Opens
  <2>10. (RingHoldsCurrent /\ RowsAreCurrent)'
    BY <1>0, <2>5 DEF AloneInv, RingHoldsCurrent, RowsAreCurrent
  <2> QED
    BY <1>3, <2>5, <2>7, <2>9, <2>10 DEF AloneInv, OneAtATime
<1>12. CASE ResetCommit(h)
  <2>1. /\ member[t.whom] = t.loaded /\ member[t.whom].status \in {"pending", "active"}
        /\ member[t.whom].role # "owner"
    BY <1>1, <1>12 DEF ResetCommit, RequestStands, MemberRequestStands, AsLoaded, MayReset
  <2> DEFINE row == StartedOver(member[t.whom], t.loaded)
  <2>2. member' = [member EXCEPT ![t.whom] = row] /\ task'[h] = [t EXCEPT !.pc = "lockout"]
    BY <1>4, <1>12, <2>1, SlotBecomes DEF ResetCommit
  <2>3. member'[t.whom] = row /\ \A o \in Member \ {t.whom} : member'[o] = member[o]
    BY <1>2, <2>2
  <2>4. row.status = "pending" /\ row.sealed = NoSeal /\ row.role = member[t.whom].role
    BY <1>2, <2>1 DEF StartedOver, MemberRow
  <2> HIDE DEF row
  <2>5. tenant' = tenant /\ Current' = Current /\ ring' = ring /\ rows' = rows
    BY <1>12 DEF ResetCommit, OnlyMember, Current
  <2>6. task'[h].pc = "lockout"
    BY <1>1, <2>2, Moved
  <2> QED
    BY <1>0, <1>2, <1>3, <2>1, <2>3, <2>4, <2>5, <2>6, MemberOutStep
<1> QED
  BY <1>6, <1>7, <1>8, <1>9, <1>10, <1>11, <1>12

\* The version byte never stays where it is, so the sweep finds nothing of
\* the pass it follows.
LEMMA VersionMoves == \A v \in Nat : next_key_version(v) # v
<1> SUFFICES ASSUME NEW v \in Nat PROVE next_key_version(v) # v
  OBVIOUS
<1>1. CASE v < 255
  <2>1. v % 255 = v
    BY <1>1
  <2> QED
    BY <2>1 DEF next_key_version
<1>2. CASE v = 255
  <2>1. v % 255 = 0
    BY <1>2
  <2> QED
    BY <1>2, <2>1 DEF next_key_version
<1>3. CASE v > 255
  <2>1. v % 255 \in 0 .. 254
    OBVIOUS
  <2> QED
    BY <1>3, <2>1 DEF next_key_version
<1> QED
  BY <1>1, <1>2, <1>3

\* Who stays is who was counted.
LEMMA KeptAreStaying ==
  ASSUME TypeOK, AloneInv, NEW h \in Handler, task[h].pc = "commit"
  PROVE  /\ Kept(task[h]) = {o \in Member : Stays(o, task[h].whom)}
         /\ \A o \in Kept(task[h]) : task[h].held[o] = member[o]
<1> DEFINE t == task[h]
<1>1. \A o \in Member : t.held[o] = IF Stays(o, t.whom) THEN member[o] ELSE NoMember
  BY DEF AloneInv, RequestStands, RemovalStands
<1>2. NoMember.status # "active"
  BY DEF NoMember
<1>3. ASSUME NEW o \in Member
      PROVE  o \in Kept(t) <=> Stays(o, t.whom)
  <2>1. CASE Stays(o, t.whom)
    <3>1. t.held[o] = member[o] /\ member[o].status = "active"
      BY <1>1, <2>1 DEF Stays
    <3> QED
      BY <2>1, <3>1 DEF Kept, Here
  <2>2. CASE ~Stays(o, t.whom)
    <3>1. t.held[o] = NoMember
      BY <1>1, <2>2
    <3> QED
      BY <1>2, <2>2, <3>1 DEF Kept
  <2> QED
    BY <2>1, <2>2
<1>4. Kept(t) \subseteq Member
  BY DEF Kept
<1> QED
  BY <1>1, <1>3, <1>4

\* The commit of a re-key: the new key is everywhere it has to be at once.
LEMMA CommitStands ==
  ASSUME OneAtATime, TypeOK, AloneInv, NEW h \in Handler, CommitRekey(h)
  PROVE  AloneInv'
<1> DEFINE t == task[h]
<1>1. t \in Task /\ RequestStands(t) /\ t.pc = "commit"
  BY SlotSteps DEF AloneInv, CommitRekey
<1>2. /\ t.whom \in Member /\ t.loaded \in MemberRow /\ t.held \in [Member -> MemberRow]
      /\ t.fresh \in Nat /\ member \in [Member -> MemberRow]
  BY <1>1 DEF Task, TypeOK
<1>3. /\ member[t.whom] = t.loaded /\ t.loaded.status = "active" /\ t.loaded.role # "owner"
      /\ t.seen = rows
  BY <1>1 DEF RequestStands, RemovalStands, AsLoaded
<1>4. /\ tenant' = [status |-> "active", version |-> FreshKey(t).version, dek |-> t.fresh]
      /\ task'[h] = [t EXCEPT !.pc = "replace"]
      /\ \A o \in Member : member'[o] = AfterRekey(t, o)
  BY SlotBecomes DEF CommitRekey
<1>5. Current' = FreshKey(t)
  BY <1>4 DEF Current, FreshKey
<1>6. member'[t.whom] = Removal(member[t.whom])
  BY <1>2, <1>3, <1>4 DEF AfterRekey, Here
<1>7. /\ member'[t.whom].status = "removed" /\ member'[t.whom].sealed = NoSeal
      /\ member'[t.whom].role = "member"
  BY <1>2, <1>6 DEF Removal, MemberRow
<1>8. ASSUME NEW o \in Member, o # t.whom, member[o].status = "active"
      PROVE  /\ member'[o].status = "active" /\ member'[o].role = member[o].role
             /\ member'[o].pub = member[o].pub
             /\ member'[o].sealed = [dek |-> t.fresh, to |-> member[o].pub]
  <2>1. o \in Kept(t) /\ t.held[o] = member[o]
    BY <1>1, <1>8, KeptAreStaying DEF Stays
  <2>2. member'[o] = Sealed(member[o], SealedTo(t, o))
    BY <1>4, <1>8, <2>1 DEF AfterRekey
  <2>3. SealedTo(t, o) = [dek |-> t.fresh, to |-> member[o].pub]
    BY <2>1 DEF SealedTo
  <2> QED
    BY <1>2, <1>8, <2>2, <2>3 DEF Sealed, MemberRow
<1>9. ASSUME NEW o \in Member, o # t.whom, member[o].status # "active"
      PROVE  member'[o] = member[o]
  <2>1. o \notin Kept(t)
    BY <1>1, <1>9, KeptAreStaying DEF Stays
  <2> QED
    BY <1>4, <1>9, <2>1 DEF AfterRekey
<1>10. ExactlyOneOwner'
  <2>1. PICK w \in Member : IsOwner(w) /\ \A o \in Member \ {w} : member[o].role # "owner"
    BY DEF AloneInv, ExactlyOneOwner
  <2>2. w # t.whom
    BY <1>3, <2>1 DEF IsOwner
  <2>3. member'[w].status = "active" /\ member'[w].role = "owner"
    BY <1>8, <2>1, <2>2 DEF IsOwner
  <2>4. \A o \in Member \ {w} : member'[o].role # "owner"
    BY <1>7, <1>8, <1>9, <2>1
  <2> QED
    BY <2>1, <2>3, <2>4 DEF ExactlyOneOwner, IsOwner
<1>11. tenant'.dek = t.fresh
  BY <1>4
<1>12. ActiveHoldCurrentKey'
  <2> SUFFICES ASSUME NEW o \in Member, member'[o].status = "active"
               PROVE  member'[o].pub # 0 /\ member'[o].sealed = [dek |-> tenant'.dek, to |-> member'[o].pub]
    BY DEF ActiveHoldCurrentKey, Opens
  <2>1. o # t.whom /\ member[o].status = "active"
    BY <1>7, <1>9
  <2>2. member[o].pub # 0
    BY <2>1, HoldsCurrent
  <2> QED
    BY <1>8, <1>11, <2>1, <2>2
<1>13. OutsidersHoldNothing'
  BY <1>7, <1>8, <1>9 DEF OutsidersHoldNothing, AloneInv
<1>14. RingHoldsCurrent'
  <2>1. task'[h].pc = "replace"
    BY <1>1, <1>4, Moved
  <2> QED
    BY <2>1 DEF RingHoldsCurrent
<1>15. RowsAreCurrent'
  <2>1. ASSUME NEW r \in Row PROVE rows'[r].key = FreshKey(t) /\ rows'[r].text = rows[r].text
    BY <1>3 DEF CommitRekey, Rewritten
  <2> QED
    BY <1>5, <2>1 DEF AloneInv, RowsAreCurrent
<1>16. RequestStands(task[h])'
  <2> DEFINE u == task'[h]
  <2>1. u.pc = "replace" /\ u.key = t.key /\ u.fresh = t.fresh
    BY <1>1, <1>4, Moved
  <2>2. FreshKey(u) = FreshKey(t)
    BY <2>1 DEF FreshKey
  <2> HIDE DEF u
  <2>3. Current' = FreshKey(u)
    BY <1>5, <2>2
  <2> QED
    BY <2>1, <2>3 DEF RequestStands, KeyRequestStands, MemberRequestStands, RemovalStands, FreshKey, u
<1> QED
  BY <1>10, <1>12, <1>13, <1>14, <1>15, <1>16 DEF AloneInv, OneAtATime

\* The other steps of a re-key.
LEMMA RekeyStepStands ==
  ASSUME OneAtATime, TypeOK, AloneInv, NEW h \in Handler,
         \/ Holders(h) \/ Claim(h) \/ Freeze(h) \/ ReadRows(h) \/ Look(h) \/ Sweep(h) \/ Thaw(h)
         \/ ClearMark(h) \/ Unfreeze(h) \/ RekeyFails(h) \/ MarkFails(h) \/ SweepFails(h)
  PROVE  AloneInv'
<1> DEFINE t == task[h]
<1>1. t \in Task /\ RequestStands(t)
  BY SlotSteps DEF AloneInv
<1>2. t.whom \in Member /\ t.key.version \in Nat /\ member \in [Member -> MemberRow]
  BY <1>1 DEF Task, Key, TypeOK
<1>0. task[h].pc # "replace" /\ \A k \in Handler : task[k].pc # "replace"
  BY DEF Holders, Claim, Freeze, ReadRows, Look, Sweep, Thaw, ClearMark, Unfreeze, RekeyFails,
         MarkFails, SweepFails, OneAtATime
<1>3. member' = member /\ Current' = Current /\ ring' = ring
  BY DEF Holders, Claim, Refuse, Freeze, ReadRows, Look, Sweep, Thaw, ClearMark, Unfreeze, RekeyFails,
         MarkFails, SweepFails, OnlyTask, Current, TypeOK
<1>4. ~Sweep(h)
  BY <1>1 DEF Sweep, RequestStands, RemovalStands, AfterCommit
<1>5. rows' = rows
  BY <1>4 DEF Holders, Claim, Freeze, ReadRows, Look, Thaw, ClearMark, Unfreeze, RekeyFails,
              MarkFails, SweepFails, OnlyTask
<1>6. ASSUME Done(h) \/ \E pc \in Carefree : Goto(h, pc)
      PROVE  AloneInv'
  <2>1. task'[h].pc \in Carefree
    <3>1. Carefree \subseteq Pcs /\ "idle" \in Carefree
      BY DEF Carefree, Pcs
    <3> QED
      BY <1>6, <3>1, SlotValues
  <2> QED
    BY <1>0, <1>3, <1>5, <2>1, RingStep
<1>7. CASE Holders(h)
  <2>1. ring' = ring
    BY <1>7 DEF Holders, OnlyTask
  <2> DEFINE held == [o \in Member |-> IF Stays(o, t.whom) THEN member[o] ELSE NoMember]
             u == Counted(t, held)
  <2>2. Done(h) \/ Run(h, u)
    BY <1>7 DEF Holders
  <2>3. held \in [Member -> MemberRow]
    BY <1>2, RowConstants
  <2>4. u.pc = "claim" /\ u.whom = t.whom /\ u.loaded = t.loaded /\ u.held = held
    BY <1>1 DEF Counted, Task
  <2>5. \A o \in Member : u.held[o] = IF Stays(o, u.whom) THEN member[o] ELSE NoMember
    BY <2>4
  <2>6. member[u.whom] = u.loaded /\ u.loaded.status = "active" /\ u.loaded.role # "owner"
    BY <1>1, <1>7, <2>4 DEF Holders, RequestStands, RemovalStands, AsLoaded
  <2> HIDE DEF u, held
  <2>7. RequestStands(u)
    BY <2>4, <2>5, <2>6
       DEF RequestStands, KeyRequestStands, MemberRequestStands, RemovalStands, AfterCommit, AsLoaded
  <2> QED
    BY <1>0, <1>3, <1>5, <1>6, <2>1, <2>2, <2>7, SlotBecomes, ReadingStep
<1>8. CASE Claim(h) \/ Freeze(h)
  <2>1. ring' = ring
    BY <1>3
  <2>2. Done(h) \/ \E pc \in {"freeze", "read"} : task'[h] = [t EXCEPT !.pc = pc]
    BY <1>8, SlotBecomes DEF Claim, Refuse, Freeze
  <2>3. ASSUME NEW pc \in {"freeze", "read"}, NEW u, u = [t EXCEPT !.pc = pc] PROVE RequestStands(u)
    <3>1. u.pc = pc /\ u.whom = t.whom /\ u.loaded = t.loaded /\ u.held = t.held
      BY <1>1, <2>3, Moved
    <3>2. t.pc \in {"claim", "freeze"}
      BY <1>8 DEF Claim, Freeze
    <3> QED
      BY <1>1, <3>1, <3>2
         DEF RequestStands, KeyRequestStands, MemberRequestStands, RemovalStands, AfterCommit, AsLoaded
  <2> QED
    BY <1>0, <1>3, <1>5, <1>6, <2>1, <2>2, <2>3, ReadingStep
<1>9. CASE ReadRows(h)
  <2>1. ring' = ring /\ t.pc = "read"
    BY <1>9, <1>3 DEF ReadRows
  <2> DEFINE u == Seen(t, "commit", rows)
  <2>2. Goto(h, "mark") \/ Run(h, u)
    BY <1>9 DEF ReadRows
  <2>3. u.pc = "commit" /\ u.whom = t.whom /\ u.loaded = t.loaded /\ u.held = t.held /\ u.seen = rows
    BY <1>1 DEF Seen, Task
  <2> HIDE DEF u
  <2>4. RequestStands(u)
    BY <1>1, <2>1, <2>3
       DEF RequestStands, KeyRequestStands, MemberRequestStands, RemovalStands, AfterCommit, AsLoaded
  <2>5. CASE Goto(h, "mark")
    BY <1>6, <2>5 DEF Carefree
  <2>6. CASE Run(h, u)
    BY <1>0, <1>3, <1>5, <2>1, <2>4, <2>6, SlotBecomes, ReadingStep
  <2> QED
    BY <2>2, <2>5, <2>6
<1>10. CASE Look(h)
  <2>1. Current = FreshKey(t) /\ ring' = ring
    BY <1>1, <1>10 DEF Look, RequestStands, RemovalStands, AfterCommit
  <2>2. {r \in Row : rows[r].key.version = t.key.version} = {}
    <3>1. ASSUME NEW r \in Row PROVE rows[r].key.version # t.key.version
      <4>1. rows[r].key = FreshKey(t)
        BY <2>1 DEF AloneInv, RowsAreCurrent
      <4>2. FreshKey(t).version = next_key_version(t.key.version)
        BY DEF FreshKey
      <4> QED
        BY <1>2, <4>1, <4>2, VersionMoves
    <3> QED
      BY <3>1
  <2>3. task'[h] = [t EXCEPT !.pc = "thaw"]
    BY <1>10, <2>2, SlotBecomes DEF Look
  <2>4. ASSUME NEW u, u = [t EXCEPT !.pc = "thaw"] PROVE RequestStands(u)
    <3>1. u.pc = "thaw" /\ u.key = t.key /\ u.fresh = t.fresh
      BY <1>1, <2>4, Moved
    <3>2. FreshKey(u) = FreshKey(t)
      BY <3>1 DEF FreshKey
    <3> QED
      BY <2>1, <3>1, <3>2
         DEF RequestStands, KeyRequestStands, MemberRequestStands, RemovalStands
  <2> QED
    BY <1>0, <1>3, <1>5, <2>1, <2>3, <2>4, ReadingStep
<1>11. CASE Thaw(h) \/ ClearMark(h) \/ Unfreeze(h)
  BY <1>6, <1>11 DEF Thaw, ClearMark, Unfreeze, Carefree
<1>12. CASE RekeyFails(h) \/ MarkFails(h) \/ SweepFails(h)
  BY <1>6, <1>12 DEF RekeyFails, MarkFails, SweepFails, Carefree
<1> QED
  BY <1>4, <1>7, <1>8, <1>9, <1>10, <1>11, <1>12

\* The ring follows the commit.
LEMMA ReplaceStands ==
  ASSUME OneAtATime, TypeOK, AloneInv, NEW h \in Handler, ReplaceKey(h)
  PROVE  AloneInv'
<1> DEFINE t == task[h]
           u == task'[h]
<1>1. t \in Task /\ RequestStands(t) /\ t.pc = "replace"
  BY SlotSteps DEF AloneInv, ReplaceKey
<1>2. Current = FreshKey(t)
  BY <1>1 DEF RequestStands, RemovalStands, AfterCommit
<1>3. member' = member /\ Current' = Current /\ rows' = rows
  BY DEF ReplaceKey, Current
<1>4. u.pc = "look1" /\ u.key = t.key /\ u.fresh = t.fresh
  BY SlotValues DEF ReplaceKey, Pcs
<1>5. \A m \in Member : ring'[m] \in {NoKey, FreshKey(t)}
  BY DEF ReplaceKey, RingAfter
<1>6. RingHoldsCurrent' /\ RowsAreCurrent'
  BY <1>2, <1>3, <1>5 DEF AloneInv, RingHoldsCurrent, RowsAreCurrent
<1>7. (ExactlyOneOwner /\ ActiveHoldCurrentKey /\ OutsidersHoldNothing)'
  BY <1>3 DEF AloneInv, ExactlyOneOwner, IsOwner, ActiveHoldCurrentKey, Opens, OutsidersHoldNothing,
              Current
<1>8. RequestStands(task[h])'
  <2>1. FreshKey(u) = FreshKey(t)
    BY <1>4 DEF FreshKey
  <2> HIDE DEF u
  <2>2. Current' = FreshKey(u)
    BY <1>2, <1>3, <2>1
  <2> QED
    BY <1>4, <2>2 DEF RequestStands, KeyRequestStands, MemberRequestStands, RemovalStands, FreshKey, u
<1> QED
  BY <1>6, <1>7, <1>8 DEF AloneInv, OneAtATime

\* The invariant holds at the start, ...
LEMMA InitStands == Init => AloneInv
<1> SUFFICES ASSUME Init PROVE AloneInv
  OBVIOUS
<1>1. \A h \in Handler : RequestStands(task[h])
  BY DEF Init, NoTask, RequestStands, KeyRequestStands, MemberRequestStands, RemovalStands, AfterCommit
<1>2. \A m \in Member : IF m \in Founders THEN member[m] = Founder(m) ELSE member[m] = NoMember
  BY DEF Init
<1>3. Current = FirstKey
  BY DEF Init, Current, FirstKey
<1>4. \A m \in Member : /\ Founder(m).status = "active" /\ Founder(m).pub = 1
                        /\ Founder(m).sealed = [dek |-> 1, to |-> 1]
                        /\ m # FirstOwner => Founder(m).role = "member"
  BY DEF Founder, NoMember
<1>5. NoMember.status = "absent" /\ NoMember.sealed = NoSeal /\ NoMember.role = "member"
  BY DEF NoMember
<1>6. ExactlyOneOwner
  <2>1. FirstOwner \in Member /\ IsOwner(FirstOwner)
    BY <1>2, FoundersAssumption DEF IsOwner, Founder, NoMember
  <2>2. \A o \in Member \ {FirstOwner} : member[o].role # "owner"
    BY <1>2, <1>4, <1>5
  <2> QED
    BY <2>1, <2>2 DEF ExactlyOneOwner
<1>7. ActiveHoldCurrentKey /\ OutsidersHoldNothing
  <2>1. tenant.dek = 1
    BY DEF Init
  <2> QED
    BY <1>2, <1>4, <1>5, <2>1 DEF ActiveHoldCurrentKey, OutsidersHoldNothing, Opens
<1>8. RingHoldsCurrent
  BY <1>3 DEF Init, RingHoldsCurrent
<1>9. RowsAreCurrent
  BY <1>3, BoundsAssumption DEF Init, RowsAreCurrent, FirstRow
<1> QED
  BY <1>1, <1>6, <1>7, <1>8, <1>9 DEF AloneInv

\* ... and every step keeps it.
LEMMA NextStands ==
  ASSUME OneAtATime
  PROVE  TypeOK /\ AloneInv /\ [Next]_vars => AloneInv'
<1> SUFFICES ASSUME TypeOK, AloneInv, [Next]_vars PROVE AloneInv'
  OBVIOUS
<1>1. CASE UNCHANGED vars
  BY <1>1 DEF vars, AloneInv, ExactlyOneOwner, IsOwner, ActiveHoldCurrentKey, Opens,
              OutsidersHoldNothing, RingHoldsCurrent, RowsAreCurrent, Current, RequestStands,
              KeyRequestStands, MemberRequestStands, RemovalStands, BlockStands, AsLoaded, MayReset,
              Stays
<1>2. CASE \E m \in Member : SignIn(m) \/ Join(m) \/ Lock(m)
  BY <1>2, OutsideStands, JoinStands
<1>3. CASE \E h \in Handler : Arrive(h)
  BY <1>3, ArriveStands
<1>4. CASE \E h \in Handler : Step(h)
  BY <1>4, KeyStepStands, MemberStepStands, RekeyStepStands, CommitStands,
     ReplaceStands DEF Step
<1>5. CASE Suspend \/ Resume \/ Restart
  BY <1>5, OutsideStands
<1> QED
  BY <1>1, <1>2, <1>3, <1>4, <1>5 DEF Next

-----------------------------------------------------------------------------

\* One request at a time, what a request relies on after a wait still stands,
\* every row and every unlock is under the present key.
THEOREM AloneInductive ==
  ASSUME OneAtATime
  PROVE  Spec => []AloneInv
<1>1. Init => AloneInv
  BY InitStands
<1>2. TypeOK /\ AloneInv /\ [Next]_vars => AloneInv'
  BY NextStands
<1> QED
  BY <1>1, <1>2, TypeCorrect, PTL DEF Spec

\* "The household always has exactly one owner": no sequence of joining,
\* approving, declining, removing, leaving, transferring and starting over,
\* failed or interrupted, leaves none or two, one request at a time.
THEOREM OneOwnerAlone ==
  ASSUME OneAtATime
  PROVE  Spec => []ExactlyOneOwner
<1>1. AloneInv => ExactlyOneOwner
  BY DEF AloneInv
<1> QED
  BY <1>1, AloneInductive, PTL

\* Every active member's key block opens the household's present key, through
\* approvals and any number of re-keys, one request at a time.
THEOREM ActiveCanOpenAlone ==
  ASSUME OneAtATime
  PROVE  Spec => []ActiveHoldCurrentKey
<1>1. AloneInv => ActiveHoldCurrentKey
  BY DEF AloneInv
<1> QED
  BY <1>1, AloneInductive, PTL

\* Nobody outside has a sealed key after any sequence of operations, one
\* request at a time (_removal: "no sealed key").
THEOREM OutsidersShutOutAlone ==
  ASSUME OneAtATime
  PROVE  Spec => []OutsidersHoldNothing
<1>1. AloneInv => OutsidersHoldNothing
  BY DEF AloneInv
<1> QED
  BY <1>1, AloneInductive, PTL

\* The pass and the moment after its commit are under the freeze.
FreezeStands == \A h \in Handler : task[h].pc \in {"read", "commit", "replace"} => frozen

\* One request at a time, nobody else thaws.
LEMMA NextFrozen ==
  ASSUME OneAtATime
  PROVE  TypeOK /\ FreezeStands /\ [Next]_vars => FreezeStands'
<1> SUFFICES ASSUME TypeOK, FreezeStands, [Next]_vars PROVE FreezeStands'
  OBVIOUS
<1> USE DEF FreezeStands
<1>1. CASE UNCHANGED vars
  BY <1>1 DEF vars
<1>2. CASE (\E m \in Member : SignIn(m) \/ Join(m) \/ Lock(m)) \/ Suspend \/ Resume
  BY <1>2 DEF SignIn, Join, Lock, Suspend, Resume
<1>3. CASE Restart
  BY <1>3 DEF Restart, NoTask
<1>4. ASSUME NEW h \in Handler, task'[h].pc \notin {"read", "commit", "replace"}
      PROVE  FreezeStands'
  BY <1>4 DEF OneAtATime
<1>5. ASSUME NEW h \in Handler, Done(h)
      PROVE  FreezeStands'
  BY <1>4, <1>5, SlotValues
<1>6. ASSUME NEW h \in Handler, NEW pc \in Pcs \ {"read", "commit", "replace"}, Goto(h, pc)
      PROVE  FreezeStands'
  BY <1>4, <1>6, SlotValues
<1>7. ASSUME NEW h \in Handler, Arrive(h)
      PROVE  FreezeStands'
  <2>1. task'[h].pc \notin {"read", "commit", "replace"}
    BY <1>7, ArrivePcs
  <2> QED
    BY <1>4, <2>1
<1>8. ASSUME NEW h \in Handler, Step(h)
      PROVE  FreezeStands'
  <2>1. {"put", "reopen", "version", "freeze", "mark", "unfreeze", "look1", "look2", "thaw", "revoke",
         "lockout"} \subseteq Pcs \ {"read", "commit", "replace"}
    BY DEF Pcs
  <2>2. task[h] \in Task
    BY SlotSteps
  <2>3. CASE \/ SetupSave(h) \/ Put(h) \/ SavePassphrase(h) \/ Reopen(h) \/ WriteCommit(h)
             \/ ApproveSeal(h) \/ DeclineCommit(h) \/ DropCommit(h) \/ Revoke(h) \/ RevokeFails(h)
             \/ TransferCommit(h) \/ ResetCommit(h) \/ Lockout(h)
    BY <1>5, <1>6, <2>1, <2>3
       DEF SetupSave, Put, SavePassphrase, Reopen, WriteCommit, ApproveSeal, DeclineCommit,
           DropCommit, Revoke, RevokeFails, TransferCommit, ResetCommit, Lockout
  <2>4. CASE ReadVersion(h)
    <3>1. task'[h].pc = "put"
      <4> DEFINE s == [task[h] EXCEPT !.pc = "put"]
                 key == [dek |-> task[h].loaded.sealed.dek, version |-> tenant.version]
      <4>1. s \in Task /\ s.pc = "put"
        BY <2>1, <2>2, LocalTypes, Moved
      <4>2. key \in Key
        <5>1. task[h].loaded.sealed.dek \in Nat
          BY <2>2 DEF Task, MemberRow, Seal
        <5> QED
          BY <5>1, Numbers DEF Key
      <4>3. Run(h, Holding(s, key))
        BY <2>4 DEF ReadVersion
      <4> HIDE DEF s, key
      <4> QED
        BY <4>1, <4>2, <4>3, SlotValues, LocalValues
    <3> QED
      BY <1>4, <3>1
  <2>5. CASE Holders(h)
    <3>1. task'[h].pc \in {"idle", "claim"}
      <4> DEFINE held == [o \in Member |-> IF Stays(o, task[h].whom) THEN member[o] ELSE NoMember]
      <4>1. held \in [Member -> MemberRow]
        BY RowConstants DEF TypeOK
      <4>2. Done(h) \/ Run(h, Counted(task[h], held))
        BY <2>5 DEF Holders
      <4> HIDE DEF held
      <4> QED
        BY <2>2, <4>1, <4>2, SlotValues, LocalValues
    <3> QED
      BY <1>4, <3>1
  <2>6. CASE Claim(h) \/ ReplaceKey(h) \/ Thaw(h) \/ ClearMark(h) \/ Unfreeze(h)
             \/ RekeyFails(h) \/ MarkFails(h) \/ SweepFails(h)
    BY <1>5, <1>6, <2>1, <2>6
       DEF Claim, Refuse, ReplaceKey, Thaw, ClearMark, Unfreeze, RekeyFails, MarkFails, SweepFails
  <2>7. CASE Freeze(h)
    BY <2>7 DEF Freeze
  <2>8. CASE ReadRows(h)
    BY <2>8 DEF ReadRows, OnlyTask, OneAtATime
  <2>9. CASE CommitRekey(h)
    BY <2>9 DEF CommitRekey, OneAtATime
  <2>10. CASE Look(h)
    <3>1. task'[h].pc \in {"idle", "thaw", "sweep1", "sweep2"}
      <4> DEFINE next == IF task[h].pc = "look1" THEN "sweep1" ELSE "sweep2"
                 late == {r \in Row : rows[r].key.version = task[h].key.version}
                 s == Seen(task[h], next, rows)
      <4>1. next \in {"sweep1", "sweep2"} /\ next \in Pcs /\ late \in SUBSET Row
            /\ rows \in [Row -> Cipher]
        BY DEF Pcs, TypeOK
      <4>2. Goto(h, "thaw") \/ Run(h, Touching(s, late)) \/ Done(h)
        BY <2>10 DEF Look
      <4> HIDE DEF next, late
      <4>3. s \in Task /\ s.pc = next
        BY <2>2, <4>1, LocalTypes, LocalValues
      <4> HIDE DEF s
      <4> QED
        BY <2>1, <4>1, <4>2, <4>3, SlotValues, LocalValues
    <3> QED
      BY <1>4, <3>1
  <2>11. CASE Sweep(h)
    BY <1>6, <2>1, <2>11 DEF Sweep
  <2> QED
    BY <1>8, <2>3, <2>4, <2>5, <2>6, <2>7, <2>8, <2>9, <2>10, <2>11 DEF Step
<1> QED
  BY <1>1, <1>2, <1>3, <1>7, <1>8 DEF Next

\* The key ring never holds a key other than the household's present one
\* outside a freeze, one request at a time (KeyRing.freeze, replace_data_key).
THEOREM RingCurrentAlone ==
  ASSUME OneAtATime
  PROVE  Spec => []RingIsCurrent
<1>1. AloneInv /\ FreezeStands => RingIsCurrent
  BY DEF AloneInv, RingHoldsCurrent, RingIsCurrent, FreezeStands
<1>2. Init => FreezeStands
  BY DEF Init, NoTask, FreezeStands
<1>3. TypeOK /\ FreezeStands /\ [Next]_vars => FreezeStands'
  BY NextFrozen
<1> QED
  BY <1>1, <1>2, <1>3, TypeCorrect, AloneInductive, PTL DEF Spec

-----------------------------------------------------------------------------
(* The promise is kept, one request at a time: every step is one of the     *)
(* promise's or changes nothing it speaks of.                               *)

\* The one owner is the owner of the promise.
LEMMA OwnerOf ==
  ASSUME NEW table, NEW w \in Member, table[w].role = "owner",
         \A o \in Member \ {w} : table[o].role # "owner"
  PROVE  (CHOOSE m \in Member : table[m].role = "owner") = w
OBVIOUS

\* What the promise sees before and after a step.
LEMMA Mapped ==
  ASSUME AloneInv, AloneInv'
  PROVE  /\ \A r \in Row : Says(r) = rows[r].text /\ Says(r)' = rows'[r].text
         /\ TheOwner \in Member /\ IsOwner(TheOwner) /\ \A o \in Member : IsOwner(o) => o = TheOwner
         /\ TheOwner' \in Member /\ \A o \in Member : member'[o].role = "owner" => o = TheOwner'
         /\ (\A o \in Member : member'[o].role = "owner" => member[o].role = "owner") =>
              TheOwner' = TheOwner
<1>1. \A r \in Row : Says(r) = rows[r].text
  BY DEF AloneInv, RowsAreCurrent, Says
<1>2. \A r \in Row : Says(r)' = rows'[r].text
  BY DEF AloneInv, RowsAreCurrent, Says
<1>3. PICK v \in Member : IsOwner(v) /\ \A o \in Member \ {v} : member[o].role # "owner"
  BY DEF AloneInv, ExactlyOneOwner
<1>4. TheOwner = v
  BY <1>3, OwnerOf DEF TheOwner, IsOwner
<1>5. PICK w \in Member : member'[w].role = "owner" /\ \A o \in Member \ {w} : member'[o].role # "owner"
  BY DEF AloneInv, ExactlyOneOwner, IsOwner
<1>6. TheOwner' = w
  BY <1>5, OwnerOf DEF TheOwner
<1> QED
  BY <1>1, <1>2, <1>3, <1>4, <1>5, <1>6 DEF IsOwner

\* The standings after a step that changes one of them.
LEMMA OneStanding ==
  ASSUME NEW m \in Member, NEW s, member'[m].status = s,
         \A o \in Member \ {m} : member'[o].status = member[o].status
  PROVE  [o \in Member |-> member'[o].status] =
           [[o \in Member |-> member[o].status] EXCEPT ![m] = s]
OBVIOUS

\* A step the promise does not see.
LEMMA Unseen ==
  ASSUME AloneInv, AloneInv', given' = given,
         \A o \in Member : member'[o].status = member[o].status,
         \A o \in Member : member'[o].role = "owner" => member[o].role = "owner",
         \A r \in Row : rows'[r].text = rows[r].text
  PROVE  [Promise!Next]_(Promise!vars)
<1>1. [m \in Member |-> member'[m].status] = [m \in Member |-> member[m].status]
  OBVIOUS
<1>2. TheOwner' = TheOwner /\ [r \in Row |-> Says(r)'] = [r \in Row |-> Says(r)]
  BY Mapped
<1> QED
  BY <1>1, <1>2 DEF Promise!vars

\* A step that changes somebody's standing.
LEMMA OneMoves ==
  ASSUME AloneInv, AloneInv', NEW m \in Member, NEW s, member'[m].status = s,
         \A o \in Member \ {m} : member'[o].status = member[o].status,
         \A o \in Member : member'[o].role = "owner" => member[o].role = "owner",
         \A r \in Row : rows'[r].text = rows[r].text,
         \/ member[m].status \in {"absent", "removed"} /\ s = "pending" /\ given' = given
         \/ member[m].status = "pending" /\ s = "active" /\ given' = given \cup {m}
         \/ member[m].status = "pending" /\ s \in {"absent", "removed"} /\ given' = given
         \/ /\ member[m].status = "active" /\ ~IsOwner(m) /\ s = "removed"
            /\ given' \in {given, {o \in Member : member[o].status = "active"} \ {m}}
         \/ member[m].status = "active" /\ ~IsOwner(m) /\ s = "pending" /\ given' = given
  PROVE  [Promise!Next]_(Promise!vars)
<1> DEFINE standing == [o \in Member |-> member[o].status]
           standing1 == [o \in Member |-> member'[o].status]
<1>1. standing1 = [standing EXCEPT ![m] = s] /\ standing[m] = member[m].status
  BY OneStanding
<1>2. TheOwner' = TheOwner /\ [r \in Row |-> Says(r)'] = [r \in Row |-> Says(r)]
  BY Mapped
<1>3. ~IsOwner(m) => m # TheOwner
  BY Mapped
<1>4. {o \in Member : standing[o] = "active"} = {o \in Member : member[o].status = "active"}
  OBVIOUS
<1>5. CASE member[m].status \in {"absent", "removed"} /\ s = "pending" /\ given' = given
  <2>1. Promise!Join(m)
    BY <1>1, <1>2, <1>5 DEF Promise!Join
  <2> QED
    BY <2>1 DEF Promise!Next
<1>6. CASE member[m].status = "pending" /\ s = "active" /\ given' = given \cup {m}
  <2>1. Promise!Approve(m)
    BY <1>1, <1>2, <1>6 DEF Promise!Approve
  <2> QED
    BY <2>1 DEF Promise!Next
<1>7. CASE member[m].status = "pending" /\ s \in {"absent", "removed"} /\ given' = given
  <2>1. Promise!Decline(m)
    BY <1>1, <1>2, <1>7 DEF Promise!Decline
  <2> QED
    BY <2>1 DEF Promise!Next
<1>8. CASE member[m].status = "active" /\ m # TheOwner /\ s = "removed" /\ given' = given
  <2>1. Promise!RemoveOnly(m)
    BY <1>1, <1>2, <1>8 DEF Promise!RemoveOnly
  <2> QED
    BY <2>1 DEF Promise!Next
<1>9. CASE /\ member[m].status = "active" /\ m # TheOwner /\ s = "removed"
           /\ given' = {o \in Member : member[o].status = "active"} \ {m}
  <2>1. Promise!RemoveAndRekey(m)
    BY <1>1, <1>2, <1>4, <1>9 DEF Promise!RemoveAndRekey, Promise!Active
  <2> QED
    BY <2>1 DEF Promise!Next
<1>10. CASE member[m].status = "active" /\ m # TheOwner /\ s = "pending" /\ given' = given
  <2>1. Promise!StartOver(m)
    BY <1>1, <1>2, <1>10 DEF Promise!StartOver
  <2> QED
    BY <2>1 DEF Promise!Next
<1> QED
  BY <1>3, <1>5, <1>6, <1>7, <1>8, <1>9, <1>10

\* Steps that touch no membership and no row.
LEMMA QuietStep ==
  ASSUME AloneInv, AloneInv', member' = member, given' = given, rows' = rows
  PROVE  [Promise!Next]_(Promise!vars)
BY Unseen

\* The commits of the requests are the steps of the promise.
LEMMA CommitsKeepPromise ==
  ASSUME OneAtATime, TypeOK, AloneInv, AloneInv', NEW h \in Handler,
         \/ SetupSave(h) \/ SavePassphrase(h) \/ WriteCommit(h) \/ ApproveSeal(h) \/ DeclineCommit(h)
         \/ CommitRekey(h) \/ DropCommit(h) \/ TransferCommit(h) \/ ResetCommit(h)
  PROVE  [Promise!Next]_(Promise!vars)
<1> DEFINE t == task[h]
<1>1. t \in Task /\ RequestStands(t)
  BY SlotSteps DEF AloneInv
<1>2. /\ t.who \in Member /\ t.whom \in Member /\ t.loaded \in MemberRow
      /\ member[t.who] \in MemberRow /\ member[t.whom] \in MemberRow
      /\ member \in [Member -> MemberRow]
  BY <1>1 DEF Task, TypeOK
<1>3. ASSUME member[t.whom] = t.loaded, t.loaded.status # "absent"
      PROVE  Here(t.whom, t.loaded.id)
  BY <1>3 DEF Here
<1>4. CASE SetupSave(h) \/ SavePassphrase(h)
  <2>1. SaveBlock(h) /\ given' = given /\ rows' = rows
    BY <1>4 DEF SetupSave, SavePassphrase, OnlyMember
  <2> DEFINE row == WithBlock(member[t.who], t.loaded.pub, t.loaded.sealed)
  <2>2. row.status = member[t.who].status /\ row.role = member[t.who].role
    BY <1>2 DEF WithBlock, MemberRow
  <2>3. member' = member \/ member' = [member EXCEPT ![t.who] = row]
    BY <2>1 DEF SaveBlock
  <2> HIDE DEF row
  <2>4. \A o \in Member : member'[o].status = member[o].status /\ member'[o].role = member[o].role
    BY <1>2, <2>2, <2>3
  <2> QED
    BY <2>1, <2>4, Unseen
<1>5. CASE WriteCommit(h)
  <2>1. PICK r \in Row : t.target = {r}
    BY <1>1, <1>5 DEF WriteCommit, RequestStands, KeyRequestStands
  <2>2. t.fresh \in 0 .. MaxText
    BY <1>1, <1>5 DEF WriteCommit, RequestStands, KeyRequestStands
  <2>3. \A q \in Row : rows'[q].text = IF q = r THEN t.fresh ELSE rows[q].text
    BY <1>5, <2>1 DEF WriteCommit
  <2>4. member' = member /\ given' = given
    BY <1>5 DEF WriteCommit
  <2>5. [q \in Row |-> Says(q)'] = [[q \in Row |-> Says(q)] EXCEPT ![r] = t.fresh]
    BY <2>3, Mapped
  <2>6. TheOwner' = TheOwner
    BY <2>4 DEF TheOwner
  <2>7. Promise!Write(r, t.fresh)
    BY <2>4, <2>5, <2>6 DEF Promise!Write
  <2> QED
    BY <2>2, <2>7 DEF Promise!Next
<1>6. CASE ApproveSeal(h)
  <2>1. member[t.whom] = t.loaded /\ t.loaded.status = "pending" /\ t.key = Current
    BY <1>1, <1>6 DEF ApproveSeal, RequestStands, MemberRequestStands, AsLoaded
  <2> DEFINE row == Approved(member[t.whom], [dek |-> t.key.dek, to |-> t.loaded.pub])
  <2>2. member' = [member EXCEPT ![t.whom] = row] /\ rows' = rows
    BY <1>3, <1>6, <2>1 DEF ApproveSeal
  <2>3. given' = given \cup {t.whom}
    <3>1. t.key.dek = tenant.dek
      BY <2>1 DEF Current
    <3> QED
      BY <1>3, <1>6, <2>1, <3>1 DEF ApproveSeal
  <2>4. row.status = "active" /\ row.role = member[t.whom].role
    BY <1>2 DEF Approved, MemberRow
  <2> HIDE DEF row
  <2>5. member'[t.whom] = row /\ \A o \in Member \ {t.whom} : member'[o] = member[o]
    BY <1>2, <2>2
  <2>6. \A o \in Member : member'[o].role = member[o].role
    BY <2>4, <2>5
  <2> QED
    BY <1>2, <2>1, <2>2, <2>3, <2>4, <2>5, <2>6, OneMoves
<1>7. CASE DeclineCommit(h)
  <2>1. member[t.whom] = t.loaded /\ t.loaded.status = "pending"
    BY <1>1, <1>7 DEF DeclineCommit, RequestStands, MemberRequestStands, AsLoaded
  <2> DEFINE row == TurnedAway(member[t.whom], t.loaded)
  <2>2. member' = [member EXCEPT ![t.whom] = row] /\ rows' = rows /\ given' = given
    BY <1>3, <1>7, <2>1 DEF DeclineCommit, OnlyMember
  <2>3. row.status \in {"absent", "removed"} /\ row.role = "member"
    BY <1>2 DEF TurnedAway, Removal, NoMember, MemberRow
  <2> HIDE DEF row
  <2>4. member'[t.whom] = row /\ \A o \in Member \ {t.whom} : member'[o] = member[o]
    BY <1>2, <2>2
  <2>5. \A o \in Member : member'[o].role = "owner" => member[o].role = "owner"
    BY <2>3, <2>4
  <2> QED
    BY <1>2, <2>1, <2>2, <2>3, <2>4, <2>5, OneMoves
<1>8. CASE DropCommit(h)
  <2>1. member[t.whom] = t.loaded /\ t.loaded.status = "active" /\ t.loaded.role # "owner"
    BY <1>1, <1>8 DEF DropCommit, RequestStands, RemovalStands, AsLoaded
  <2>2. member' = [member EXCEPT ![t.whom] = Removal(member[t.whom])] /\ rows' = rows /\ given' = given
    BY <1>3, <1>8, <2>1 DEF DropCommit, OnlyMember
  <2>3. Removal(member[t.whom]).status = "removed" /\ Removal(member[t.whom]).role = "member"
    BY <1>2 DEF Removal, MemberRow
  <2>4. /\ member'[t.whom] = Removal(member[t.whom])
        /\ \A o \in Member \ {t.whom} : member'[o] = member[o]
    BY <1>2, <2>2
  <2>5. \A o \in Member : member'[o].role = "owner" => member[o].role = "owner"
    BY <2>3, <2>4
  <2>6. ~IsOwner(t.whom)
    BY <2>1 DEF IsOwner
  <2> QED
    BY <1>2, <2>1, <2>2, <2>3, <2>4, <2>5, <2>6, OneMoves
<1>9. CASE TransferCommit(h)
  <2>1. /\ member[t.whom] = t.loaded /\ t.loaded.status = "active"
        /\ IsOwner(t.who) /\ t.who # t.whom
    BY <1>1, <1>9 DEF TransferCommit, RequestStands, MemberRequestStands, AsLoaded
  <2>2. member' = HandedOver(t.who, t.whom) /\ rows' = rows /\ given' = given
    <3>1. member[t.who].status # "absent"
      BY <2>1 DEF IsOwner
    <3> QED
      BY <1>3, <1>9, <2>1, <3>1 DEF TransferCommit, OnlyMember
  <2>3. /\ member'[t.whom] = WithRole(member[t.whom], "owner")
        /\ member'[t.who] = WithRole(member[t.who], "member")
        /\ \A o \in Member \ {t.who, t.whom} : member'[o] = member[o]
    BY <1>2, <2>1, <2>2 DEF HandedOver
  <2>4. /\ member'[t.whom].role = "owner"
        /\ \A o \in {t.who, t.whom} : member'[o].status = member[o].status
    BY <1>2, <2>3 DEF WithRole, MemberRow
  <2>5. TheOwner' = t.whom
    BY <1>2, <2>4, Mapped
  <2>6. [o \in Member |-> member'[o].status] = [o \in Member |-> member[o].status]
    BY <2>3, <2>4
  <2>7. [r \in Row |-> Says(r)'] = [r \in Row |-> Says(r)]
    BY <2>2, Mapped
  <2>8. Promise!HandOver(t.whom)
    BY <1>2, <2>1, <2>2, <2>5, <2>6, <2>7 DEF Promise!HandOver
  <2> QED
    BY <1>2, <2>8 DEF Promise!Next
<1>10. CASE ResetCommit(h)
  <2>1. /\ member[t.whom] = t.loaded /\ member[t.whom].status \in {"pending", "active"}
        /\ member[t.whom].role # "owner"
    BY <1>1, <1>10 DEF ResetCommit, RequestStands, MemberRequestStands, AsLoaded, MayReset
  <2> DEFINE row == StartedOver(member[t.whom], t.loaded)
  <2>2. member' = [member EXCEPT ![t.whom] = row] /\ rows' = rows /\ given' = given
    BY <1>3, <1>10, <2>1 DEF ResetCommit, OnlyMember
  <2>3. row.status = "pending" /\ row.role = member[t.whom].role
    BY <1>2, <2>1 DEF StartedOver, MemberRow
  <2> HIDE DEF row
  <2>4. member'[t.whom] = row /\ \A o \in Member \ {t.whom} : member'[o] = member[o]
    BY <1>2, <2>2
  <2>5. \A o \in Member : member'[o].role = member[o].role
    BY <2>3, <2>4
  <2>6. ~IsOwner(t.whom)
    BY <2>1 DEF IsOwner
  <2>7. CASE member[t.whom].status = "pending"
    <3>1. \A o \in Member : member'[o].status = member[o].status
      BY <2>3, <2>4, <2>7
    <3> QED
      BY <2>2, <2>5, <3>1, Unseen
  <2>8. CASE member[t.whom].status = "active"
    BY <1>2, <2>2, <2>3, <2>4, <2>5, <2>6, <2>8, OneMoves
  <2> QED
    BY <2>1, <2>7, <2>8
<1>11. CASE CommitRekey(h)
  <2>1. /\ member[t.whom] = t.loaded /\ t.loaded.status = "active" /\ t.loaded.role # "owner"
        /\ t.seen = rows /\ t.pc = "commit"
    BY <1>1, <1>11 DEF CommitRekey, RequestStands, RemovalStands, AsLoaded
  <2>2. \A o \in Member : member'[o] = AfterRekey(t, o)
    BY <1>11 DEF CommitRekey
  <2>3. member'[t.whom] = Removal(member[t.whom])
    BY <1>2, <1>3, <2>1, <2>2 DEF AfterRekey
  <2>4. member'[t.whom].status = "removed" /\ member'[t.whom].role = "member"
    BY <1>2, <2>3 DEF Removal, MemberRow
  <2>5. ASSUME NEW o \in Member \ {t.whom}
        PROVE  member'[o].status = member[o].status /\ member'[o].role = member[o].role
    <3>1. member'[o] = member[o] \/ member'[o] = Sealed(member[o], SealedTo(t, o))
      BY <2>2, <2>5 DEF AfterRekey
    <3>2. member[o] \in MemberRow
      BY <1>2
    <3> QED
      BY <3>1, <3>2 DEF Sealed, MemberRow
  <2>6. given' = {o \in Member : member[o].status = "active"} \ {t.whom}
    BY <1>11, <2>1, KeptAreStaying DEF CommitRekey, Stays
  <2>7. \A r \in Row : rows'[r].text = rows[r].text
    BY <1>11, <2>1 DEF CommitRekey, Rewritten
  <2>8. \A o \in Member : member'[o].role = "owner" => member[o].role = "owner"
    BY <2>4, <2>5
  <2>9. ~IsOwner(t.whom)
    BY <2>1 DEF IsOwner
  <2> QED
    BY <1>2, <2>1, <2>4, <2>5, <2>6, <2>7, <2>8, <2>9, OneMoves
<1> QED
  BY <1>4, <1>5, <1>6, <1>7, <1>8, <1>9, <1>10, <1>11

\* Every step is one of the promise's, or none.
LEMMA StepKeepsPromise ==
  ASSUME OneAtATime
  PROVE  TypeOK /\ AloneInv /\ AloneInv' /\ [Next]_vars => [Promise!Next]_(Promise!vars)
<1> SUFFICES ASSUME TypeOK, AloneInv, AloneInv', [Next]_vars
             PROVE  [Promise!Next]_(Promise!vars)
  OBVIOUS
<1>1. CASE UNCHANGED vars
  BY <1>1, QuietStep DEF vars
<1>2. ASSUME NEW m \in Member, SignIn(m) \/ Lock(m)
      PROVE  [Promise!Next]_(Promise!vars)
  BY <1>2, QuietStep DEF SignIn, Lock
<1>3. ASSUME NEW m \in Member, Join(m)
      PROVE  [Promise!Next]_(Promise!vars)
  <2>1. /\ member'[m].status = "pending" /\ member'[m].role = "member"
        /\ \A o \in Member \ {m} : member'[o] = member[o]
        /\ member[m].status \in {"absent", "removed"}
    BY <1>3 DEF Join, TypeOK, Pending, NoMember
  <2>2. rows' = rows /\ given' = given
    BY <1>3 DEF Join
  <2>3. \A o \in Member : member'[o].role = "owner" => member[o].role = "owner"
    BY <2>1
  <2> QED
    BY <2>1, <2>2, <2>3, OneMoves
<1>4. ASSUME NEW h \in Handler, Arrive(h)
      PROVE  [Promise!Next]_(Promise!vars)
  <2>1. member' = member /\ given' = given /\ rows' = rows
    BY <1>4 DEF Arrive, SetupLoad, UnlockLoad, ChangeLoad, WriteBind, LeaveCheck, ResetCheck,
                ApproveCheck, DeclineCheck, RemoveCheck, DropCheck, TransferCheck, TakeOut, OnlyTask
  <2> QED
    BY <2>1, QuietStep
<1>5. ASSUME NEW h \in Handler, Step(h)
      PROVE  [Promise!Next]_(Promise!vars)
  <2>1. CASE \/ SetupSave(h) \/ SavePassphrase(h) \/ WriteCommit(h) \/ ApproveSeal(h)
             \/ DeclineCommit(h) \/ CommitRekey(h) \/ DropCommit(h) \/ TransferCommit(h)
             \/ ResetCommit(h)
    BY <2>1, CommitsKeepPromise
  <2>2. CASE \/ ReadVersion(h) \/ Put(h) \/ Reopen(h) \/ Holders(h) \/ Claim(h) \/ ReadRows(h)
             \/ Freeze(h) \/ ClearMark(h) \/ Unfreeze(h) \/ ReplaceKey(h)
             \/ Look(h) \/ Thaw(h) \/ RekeyFails(h) \/ MarkFails(h) \/ SweepFails(h)
             \/ Revoke(h) \/ RevokeFails(h) \/ Lockout(h)
    <3>1. member' = member /\ given' = given /\ rows' = rows
      BY <2>2 DEF ReadVersion, Put, Reopen, Holders, Claim, Freeze, ClearMark, Unfreeze, ReplaceKey,
                  ReadRows, Look, Thaw, RekeyFails, MarkFails, SweepFails, Revoke, RevokeFails, Lockout, OnlyTask
    <3> QED
      BY <3>1, QuietStep
  <2>3. ~Sweep(h)
    BY DEF Sweep, AloneInv, RequestStands, RemovalStands, AfterCommit
  <2> QED
    BY <1>5, <2>1, <2>2, <2>3 DEF Step
<1>6. CASE Suspend \/ Resume \/ Restart
  BY <1>6, QuietStep DEF Suspend, Resume, Restart
<1> QED
  BY <1>1, <1>2, <1>3, <1>4, <1>5, <1>6 DEF Next

\* With one request at a time, every step of the registry, the key ring and
\* the re-key, failed and interrupted ones too, is one step of
\* HouseholdPromise or none: nobody's standing, the ownership, who was handed
\* the present key and what the ledger says change only as it allows.
THEOREM PromiseKept ==
  ASSUME OneAtATime
  PROVE  Spec => KeepsPromise
<1>1. Init => Promise!Init
  <2> SUFFICES ASSUME Init PROVE Promise!Init
    OBVIOUS
  <2>1. \A m \in Member : IF m \in Founders THEN member[m] = Founder(m) ELSE member[m] = NoMember
    BY DEF Init
  <2>2. \A m \in Member : Founder(m).status = "active"
    BY DEF Founder, NoMember
  <2>3. NoMember.status = "absent"
    BY DEF NoMember
  <2>4. \A m \in Member : member[m].status = IF m \in Founders THEN "active" ELSE "absent"
    BY <2>1, <2>2, <2>3
  <2>5. [m \in Member |-> member[m].status] =
          [m \in Member |-> IF m \in Founders THEN "active" ELSE "absent"]
    BY <2>4
  <2>6. TheOwner = FirstOwner
    <3>1. FirstOwner \in Member /\ member[FirstOwner].role = "owner"
      BY <2>1, FoundersAssumption DEF Founder, NoMember
    <3>2. \A o \in Member \ {FirstOwner} : member[o].role # "owner"
      <4>1. \A o \in Member \ {FirstOwner} : Founder(o).role = "member"
        BY DEF Founder, NoMember
      <4>2. NoMember.role = "member"
        BY DEF NoMember
      <4> QED
        BY <2>1, <4>1, <4>2
    <3> QED
      BY <3>1, <3>2, OwnerOf DEF TheOwner
  <2>7. \A r \in Row : Says(r) \in 0 .. MaxText
    BY InitStands DEF AloneInv, RowsAreCurrent, Says
  <2>8. given = Founders
    BY DEF Init
  <2> QED
    BY <2>5, <2>6, <2>7, <2>8 DEF Promise!Init
<1>2. TypeOK /\ AloneInv /\ AloneInv' /\ [Next]_vars => [Promise!Next]_(Promise!vars)
  BY StepKeepsPromise
<1> QED
  BY <1>1, <1>2, TypeCorrect, AloneInductive, PTL DEF Spec, KeepsPromise, Promise!Spec

-----------------------------------------------------------------------------
(* However many requests cross: as long as the ownership is not handed over *)
(* and no key block is written back, the first owner can open the ledger.   *)

KeepsTheirPlace == {"transfer", "change", "recover"} \cap Ops = {}

OwnerOpens ==
  /\ member[FirstOwner].status = "active" /\ member[FirstOwner].role = "owner"
  /\ member[FirstOwner].id = 1 /\ member[FirstOwner].pub = 1
  /\ member[FirstOwner].sealed = [dek |-> tenant.dek, to |-> 1]

OthersAreMembers == \A o \in Member \ {FirstOwner} : member[o].role = "member"

\* No request in flight is about to touch the owner's row, and a re-key has
\* counted the owner among those who stay.
OwnerSpared(t) ==
  /\ t.pc \notin {"save", "reopen", "transfer"}
  /\ t.pc = "setup" => t.who # FirstOwner
  /\ t.pc \in {"seal", "decline", "drop", "reset", "holders", "claim", "freeze", "read",
               "commit"} =>
       t.whom # FirstOwner
  /\ t.pc \in {"claim", "freeze", "read", "commit"} =>
       /\ t.held[FirstOwner].status = "active"
       /\ t.held[FirstOwner].id = 1 /\ t.held[FirstOwner].pub = 1

OwnerInv == OwnerOpens /\ OthersAreMembers /\ \A h \in Handler : OwnerSpared(task[h])

\* A step of one slot that leaves the owner's row and the data key alone.
LEMMA SparingStep ==
  ASSUME OwnerInv, NEW h \in Handler, OwnerSpared(task'[h]),
         \A k \in Handler \ {h} : task'[k] = task[k],
         tenant'.dek = tenant.dek, member'[FirstOwner] = member[FirstOwner],
         \A o \in Member \ {FirstOwner} : member'[o].role = "member"
  PROVE  OwnerInv'
<1>1. OwnerOpens' /\ OthersAreMembers'
  BY DEF OwnerInv, OwnerOpens, OthersAreMembers
<1>2. ASSUME NEW k \in Handler PROVE OwnerSpared(task[k])'
  <2>1. CASE k = h
    BY <2>1 DEF OwnerSpared
  <2>2. CASE k # h
    <3>1. task'[k] = task[k] /\ OwnerSpared(task[k])
      BY <2>2 DEF OwnerInv
    <3> QED
      BY <3>1 DEF OwnerSpared
  <2> QED
    BY <2>1, <2>2
<1> QED
  BY <1>1, <1>2 DEF OwnerInv

\* A request that begins spares the owner.
LEMMA ArriveSpares ==
  ASSUME KeepsTheirPlace, TypeOK, OwnerInv, NEW h \in Handler, Arrive(h)
  PROVE  OwnerInv'
<1>1. PICK m \in Member :
        \/ SetupLoad(h, m)
        \/ UnlockLoad(h, m)
        \/ \E op \in {"change", "recover"} : ChangeLoad(h, m, op)
        \/ \E r \in Row : WriteBind(h, m, r)
        \/ LeaveCheck(h, m)
        \/ ResetCheck(h, m)
        \/ \E o \in Member : \/ ApproveCheck(h, m, o)
                             \/ DeclineCheck(h, m, o)
                             \/ RemoveCheck(h, m, o)
                             \/ DropCheck(h, m, o)
                             \/ TransferCheck(h, m, o)
  BY DEF Arrive
<1>2. /\ member[m] \in MemberRow /\ ring[m] \in Key /\ made[m] \in Nat /\ written \in Nat
      /\ minted \in Nat
  BY BoundsAssumption DEF TypeOK
<1>3. /\ member[FirstOwner].status = "active" /\ member[FirstOwner].role = "owner"
      /\ member[FirstOwner].pub = 1 /\ \A o \in Member \ {FirstOwner} : member[o].role = "member"
  BY DEF OwnerInv, OwnerOpens, OthersAreMembers
<1>4. ASSUME NEW u, Run(h, u), member' = member, tenant' = tenant, OwnerSpared(u)
      PROVE  OwnerInv'
  <2>1. task'[h] = u /\ \A k \in Handler \ {h} : task'[k] = task[k]
    BY <1>4, SlotValues
  <2> QED
    BY <1>3, <1>4, <2>1, SparingStep
<1>5. \A w \in Member : IsOwner(w) => w = FirstOwner
  BY <1>3 DEF IsOwner
<1>6. ~(\E op \in {"change", "recover"} : ChangeLoad(h, m, op))
      /\ \A o \in Member : ~TransferCheck(h, m, o)
  BY DEF KeepsTheirPlace, ChangeLoad, TransferCheck, Begin
<1>7. ASSUME NEW pc \in Pcs, NEW op \in Kinds, NEW o \in Member, NEW row \in MemberRow,
             pc \notin {"save", "reopen", "transfer", "claim", "freeze", "read", "commit"},
             pc = "setup" => m # FirstOwner,
             pc \in {"seal", "decline", "drop", "reset", "holders"} => o # FirstOwner
      PROVE  /\ OwnerSpared(Loaded(Start(pc, op, m, o), row))
             /\ \A key \in Key : OwnerSpared(Loaded(Holding(Start(pc, op, m, o), key), row))
             /\ \A key \in Key, n \in Nat :
                  OwnerSpared(Loaded(Making(Holding(Start(pc, op, m, o), key), n), row))
  <2>1. ASSUME NEW u, u.pc = pc, u.who = m, u.whom = o PROVE OwnerSpared(u)
    BY <1>7, <2>1 DEF OwnerSpared
  <2>2. OwnerSpared(Loaded(Start(pc, op, m, o), row))
    BY <2>1, BegunLoaded
  <2>3. ASSUME NEW key \in Key PROVE OwnerSpared(Loaded(Holding(Start(pc, op, m, o), key), row))
    BY <2>1, BegunApproval
  <2>4. ASSUME NEW key \in Key, NEW n \in Nat
        PROVE  OwnerSpared(Loaded(Making(Holding(Start(pc, op, m, o), key), n), row))
    <3> DEFINE u == Loaded(Making(Holding(Start(pc, op, m, o), key), n), row)
    <3>1. u.pc = pc /\ u.who = m /\ u.whom = o
      BY BegunMakingLoads
    <3> HIDE DEF u
    <3>2. OwnerSpared(u)
      BY <2>1, <3>1
    <3> QED
      BY <3>2 DEF u
  <2> QED
    BY <2>2, <2>3, <2>4
<1>8. /\ "setup" \in Pcs /\ "version" \in Pcs /\ "write" \in Pcs
      /\ "seal" \in Pcs /\ "decline" \in Pcs /\ "drop" \in Pcs /\ "reset" \in Pcs /\ "holders" \in Pcs
      /\ "setup" \in Kinds /\ "unlock" \in Kinds /\ "write" \in Kinds /\ "approve" \in Kinds
      /\ "decline" \in Kinds /\ "drop" \in Kinds /\ "reset" \in Kinds /\ "remove" \in Kinds
      /\ "leave" \in Kinds
  BY DEF Pcs, Kinds
<1>9. CASE SetupLoad(h, m)
  <2> DEFINE row == WithBlock(member[m], made[m] + 1, NoSeal)
  <2>1. row \in MemberRow
    BY <1>2, RowConstants, BlockType
  <2>2. m # FirstOwner
    BY <1>3, <1>9 DEF SetupLoad
  <2>3. Run(h, Loaded(Start("setup", "setup", m, m), row)) /\ member' = member /\ tenant' = tenant
    BY <1>9 DEF SetupLoad
  <2> HIDE DEF row
  <2>4. OwnerSpared(Loaded(Start("setup", "setup", m, m), row))
    BY <1>7, <1>8, <2>1, <2>2
  <2> QED
    BY <1>4, <2>3, <2>4
<1>10. CASE UnlockLoad(h, m)
  <2>1. OwnerSpared(Loaded(Start("version", "unlock", m, m), member[m]))
    BY <1>2, <1>7, <1>8
  <2> QED
    BY <1>4, <1>10, <2>1 DEF UnlockLoad, OnlyTask
<1>11. ASSUME NEW r \in Row, WriteBind(h, m, r)
       PROVE  OwnerInv'
  <2> DEFINE u == Touching(Making(Holding(Start("write", "write", m, m), ring[m]), written + 1), {r})
  <2>1. u.pc = "write"
    <3>1. written + 1 \in Nat /\ {r} \in SUBSET Row
      BY <1>2
    <3> QED
      BY <1>2, <1>8, <3>1, BegunMaking
  <2>2. Run(h, u) /\ member' = member /\ tenant' = tenant
    BY <1>11 DEF WriteBind
  <2> HIDE DEF u
  <2>3. OwnerSpared(u)
    BY <2>1 DEF OwnerSpared
  <2> QED
    BY <1>4, <2>2, <2>3
<1>12. CASE ResetCheck(h, m)
  <2>1. m # FirstOwner
    BY <1>3, <1>12 DEF ResetCheck, MayReset
  <2>2. OwnerSpared(Loaded(Start("reset", "reset", m, m), member[m]))
    BY <1>2, <1>7, <1>8, <2>1
  <2> QED
    BY <1>4, <1>12, <2>2 DEF ResetCheck, OnlyTask
<1>13. ASSUME NEW o \in Member, DeclineCheck(h, m, o)
       PROVE  OwnerInv'
  <2>1. o # FirstOwner /\ member[o] \in MemberRow
    BY <1>3, <1>13 DEF DeclineCheck, TypeOK
  <2>2. OwnerSpared(Loaded(Start("decline", "decline", m, o), member[o]))
    BY <1>7, <1>8, <2>1
  <2> QED
    BY <1>4, <1>13, <2>2 DEF DeclineCheck, OnlyTask
<1>14. ASSUME NEW o \in Member, DropCheck(h, m, o)
       PROVE  OwnerInv'
  <2>1. o # FirstOwner /\ member[o] \in MemberRow
    BY <1>5, <1>14 DEF DropCheck, TypeOK
  <2>2. OwnerSpared(Loaded(Start("drop", "drop", m, o), member[o]))
    BY <1>7, <1>8, <2>1
  <2> QED
    BY <1>4, <1>14, <2>2 DEF DropCheck, OnlyTask
<1>15. ASSUME NEW o \in Member, ApproveCheck(h, m, o)
       PROVE  OwnerInv'
  <2>1. o # FirstOwner /\ member[o] \in MemberRow
    BY <1>3, <1>15 DEF ApproveCheck, TypeOK
  <2>2. OwnerSpared(Loaded(Holding(Start("seal", "approve", m, o), ring[m]), member[o]))
    BY <1>2, <1>7, <1>8, <2>1
  <2> QED
    BY <1>4, <1>15, <2>2 DEF ApproveCheck, OnlyTask
<1>16. ASSUME NEW op \in {"remove", "leave"}, NEW o \in Member, o # FirstOwner, TakeOut(h, op, m, o)
       PROVE  OwnerInv'
  <2>1. member[o] \in MemberRow /\ minted + 1 \in Nat /\ op \in Kinds
    BY <1>2, <1>8 DEF TypeOK
  <2>2. OwnerSpared(Loaded(Making(Holding(Start("holders", op, m, o), ring[m]), minted + 1), member[o]))
    BY <1>2, <1>7, <1>8, <1>16, <2>1
  <2> QED
    BY <1>4, <1>16, <2>2 DEF TakeOut
<1>17. CASE LeaveCheck(h, m)
  <2>1. m # FirstOwner /\ TakeOut(h, "leave", m, m)
    BY <1>3, <1>17 DEF LeaveCheck
  <2> QED
    BY <1>16, <2>1
<1>18. ASSUME NEW o \in Member, RemoveCheck(h, m, o)
       PROVE  OwnerInv'
  <2>1. o # FirstOwner /\ TakeOut(h, "remove", m, o)
    BY <1>5, <1>18 DEF RemoveCheck
  <2> QED
    BY <1>16, <2>1
<1> QED
  BY <1>1, <1>6, <1>9, <1>10, <1>11, <1>12, <1>13, <1>14, <1>15, <1>17, <1>18

\* So does every step of a request, and the re-key's commit seals the new key
\* to the owner.
LEMMA StepSpares ==
  ASSUME TypeOK, OwnerInv, NEW h \in Handler, Step(h)
  PROVE  OwnerInv'
<1> DEFINE t == task[h]
<1>1. t \in Task /\ OwnerSpared(t)
  BY SlotSteps DEF OwnerInv
<1>2. /\ t.who \in Member /\ t.whom \in Member /\ t.loaded \in MemberRow
      /\ t.held \in [Member -> MemberRow] /\ member \in [Member -> MemberRow]
      /\ FirstOwner \in Member
  BY <1>1, FoundersAssumption DEF Task, TypeOK
<1>3. \A o \in Member \ {FirstOwner} : member[o].role = "member" /\ member[o] \in MemberRow
  BY <1>2 DEF OwnerInv, OthersAreMembers
<1>4. ASSUME Done(h)
      PROVE  OwnerSpared(task'[h]) /\ \A k \in Handler \ {h} : task'[k] = task[k]
  BY <1>4, SlotValues DEF OwnerSpared
<1>5. ASSUME NEW pc, Goto(h, pc),
             pc \in {"version", "revoke", "lockout", "replace", "look1", "look2", "thaw", "mark", "unfreeze"}
      PROVE  OwnerSpared(task'[h]) /\ \A k \in Handler \ {h} : task'[k] = task[k]
  <2>1. pc \in Pcs
    BY <1>5 DEF Pcs
  <2> QED
    BY <1>5, <2>1, SlotValues DEF OwnerSpared
<1>6. ASSUME NEW u, Run(h, u), OwnerSpared(u)
      PROVE  OwnerSpared(task'[h]) /\ \A k \in Handler \ {h} : task'[k] = task[k]
  BY <1>6, SlotValues
<1>7. ASSUME OwnerSpared(task'[h]), \A k \in Handler \ {h} : task'[k] = task[k],
             tenant' = tenant \/ \E s : tenant' = [tenant EXCEPT !.status = s], member' = member
      PROVE  OwnerInv'
  <2>1. tenant'.dek = tenant.dek
    BY <1>7 DEF TypeOK
  <2> QED
    BY <1>3, <1>7, <2>1, SparingStep
<1>8. ASSUME OwnerSpared(task'[h]), \A k \in Handler \ {h} : task'[k] = task[k], tenant' = tenant,
             NEW o \in Member \ {FirstOwner}, NEW row, row.role = "member",
             member' = member \/ member' = [member EXCEPT ![o] = row]
      PROVE  OwnerInv'
  <2>1. /\ member'[FirstOwner] = member[FirstOwner]
        /\ \A q \in Member \ {FirstOwner} : member'[q].role = "member"
    BY <1>2, <1>3, <1>8
  <2> QED
    BY <1>8, <2>1, SparingStep
<1>9. CASE SetupSave(h)
  <2>1. t.who \in Member \ {FirstOwner}
    BY <1>1, <1>2, <1>9 DEF SetupSave, OwnerSpared
  <2> DEFINE row == WithBlock(member[t.who], t.loaded.pub, t.loaded.sealed)
  <2>2. row.role = "member"
    BY <1>3, <2>1 DEF WithBlock, MemberRow
  <2>3. member' = member \/ member' = [member EXCEPT ![t.who] = row]
    BY <1>9 DEF SetupSave, SaveBlock
  <2> HIDE DEF row
  <2> QED
    BY <1>4, <1>8, <1>9, <2>1, <2>2, <2>3 DEF SetupSave, OnlyMember
<1>10. CASE ReadVersion(h)
  <2> DEFINE s == [t EXCEPT !.pc = "put"]
             key == [dek |-> t.loaded.sealed.dek, version |-> tenant.version]
  <2>1. s \in Task /\ s.pc = "put" /\ key \in Key
    <3>1. t.loaded.sealed.dek \in Nat
      BY <1>2 DEF MemberRow, Seal
    <3>2. s \in Task /\ s.pc = "put"
      BY <1>1, LocalTypes, Moved DEF Pcs
    <3> QED
      BY <3>1, <3>2, Numbers DEF Key
  <2>2. Run(h, Holding(s, key)) /\ member' = member /\ tenant' = tenant
    BY <1>10 DEF ReadVersion, OnlyTask
  <2> HIDE DEF s, key
  <2>3. Holding(s, key).pc = "put"
    BY <2>1, LocalValues
  <2>4. OwnerSpared(Holding(s, key))
    BY <2>3 DEF OwnerSpared
  <2> QED
    BY <1>6, <1>7, <2>2, <2>4
<1>11. CASE Put(h) \/ WriteCommit(h) \/ SweepFails(h) \/ MarkFails(h) \/ RevokeFails(h)
            \/ Lockout(h) \/ Unfreeze(h)
  <2>1. Done(h) /\ member' = member /\ tenant' = tenant
    BY <1>11 DEF Put, WriteCommit, SweepFails, MarkFails, RevokeFails, Lockout, Unfreeze, OnlyTask
  <2> QED
    BY <1>4, <1>7, <2>1
<1>12. CASE \/ Thaw(h) \/ Revoke(h) \/ RekeyFails(h) \/ ReplaceKey(h) \/ ClearMark(h)
            \/ ReadRows(h) /\ Goto(h, "mark")
  <2>1. member' = member /\ (tenant' = tenant \/ tenant' = [tenant EXCEPT !.status = "active"])
    BY <1>12 DEF Thaw, Revoke, RekeyFails, ReplaceKey, ClearMark, ReadRows, OnlyTask
  <2>2. \E pc \in {"lockout", "mark", "look1", "unfreeze"} : Goto(h, pc)
    BY <1>12 DEF Thaw, Revoke, RekeyFails, ReplaceKey, ClearMark
  <2> QED
    BY <1>5, <1>7, <2>1, <2>2
<1>13. ~SavePassphrase(h) /\ ~Reopen(h) /\ ~TransferCommit(h)
  BY <1>1 DEF SavePassphrase, Reopen, TransferCommit, OwnerSpared
<1>14. CASE ApproveSeal(h)
  <2>1. t.whom \in Member \ {FirstOwner}
    BY <1>1, <1>2, <1>14 DEF ApproveSeal, OwnerSpared
  <2> DEFINE row == Approved(member[t.whom], [dek |-> t.key.dek, to |-> t.loaded.pub])
  <2>2. row.role = "member"
    BY <1>3, <2>1 DEF Approved, MemberRow
  <2>3. member' = member \/ member' = [member EXCEPT ![t.whom] = row]
    BY <1>14 DEF ApproveSeal
  <2> HIDE DEF row
  <2> QED
    BY <1>4, <1>8, <1>14, <2>1, <2>2, <2>3 DEF ApproveSeal
<1>15. CASE DeclineCommit(h)
  <2>1. t.whom \in Member \ {FirstOwner}
    BY <1>1, <1>2, <1>15 DEF DeclineCommit, OwnerSpared
  <2> DEFINE row == TurnedAway(member[t.whom], t.loaded)
  <2>2. row.role = "member"
    BY <1>3, <2>1 DEF TurnedAway, Removal, NoMember, MemberRow
  <2>3. member' = member \/ member' = [member EXCEPT ![t.whom] = row]
    BY <1>15 DEF DeclineCommit
  <2> HIDE DEF row
  <2> QED
    BY <1>4, <1>8, <1>15, <2>1, <2>2, <2>3 DEF DeclineCommit, OnlyMember
<1>16. CASE DropCommit(h)
  <2>1. t.whom \in Member \ {FirstOwner}
    BY <1>1, <1>2, <1>16 DEF DropCommit, OwnerSpared
  <2> DEFINE row == Removal(member[t.whom])
  <2>2. row.role = "member"
    BY <1>3, <2>1 DEF Removal, MemberRow
  <2>3. member' = member \/ member' = [member EXCEPT ![t.whom] = row]
    BY <1>16 DEF DropCommit
  <2> HIDE DEF row
  <2> QED
    BY <1>5, <1>8, <1>16, <2>1, <2>2, <2>3 DEF DropCommit, OnlyMember
<1>17. CASE ResetCommit(h)
  <2>1. t.whom \in Member \ {FirstOwner}
    BY <1>1, <1>2, <1>17 DEF ResetCommit, OwnerSpared
  <2> DEFINE row == StartedOver(member[t.whom], t.loaded)
  <2>2. row.role = "member"
    BY <1>3, <2>1 DEF StartedOver, MemberRow
  <2>3. member' = member \/ member' = [member EXCEPT ![t.whom] = row]
    BY <1>17 DEF ResetCommit
  <2>4. Done(h) \/ Goto(h, "lockout")
    BY <1>17 DEF ResetCommit
  <2> HIDE DEF row
  <2> QED
    BY <1>4, <1>5, <1>8, <1>17, <2>1, <2>2, <2>3, <2>4 DEF ResetCommit, OnlyMember
<1>18. CASE Holders(h)
  <2> DEFINE held == [o \in Member |-> IF Stays(o, t.whom) THEN member[o] ELSE NoMember]
             u == Counted(t, held)
  <2>1. t.whom # FirstOwner
    BY <1>1, <1>18 DEF Holders, OwnerSpared
  <2>2. held[FirstOwner] = member[FirstOwner]
    BY <1>2, <2>1 DEF Stays, OwnerInv, OwnerOpens
  <2>3. u.pc = "claim" /\ u.whom = t.whom /\ u.held = held
    BY <1>1 DEF Counted, Task
  <2>4. (Done(h) \/ Run(h, u)) /\ member' = member /\ tenant' = tenant
    BY <1>18 DEF Holders, OnlyTask
  <2> HIDE DEF u, held
  <2>5. OwnerSpared(u)
    BY <2>1, <2>2, <2>3 DEF OwnerSpared, OwnerInv, OwnerOpens
  <2> QED
    BY <1>4, <1>6, <1>7, <2>4, <2>5
<1>19. CASE Claim(h) \/ Freeze(h)
  <2>1. /\ t.pc \in {"claim", "freeze"} /\ member' = member
        /\ tenant' = tenant \/ tenant' = [tenant EXCEPT !.status = "rekeying"]
    BY <1>19 DEF Claim, Refuse, Freeze
  <2>2. CASE Done(h)
    BY <1>4, <1>7, <2>1, <2>2
  <2>3. ASSUME NEW pc \in {"freeze", "read"}, Goto(h, pc)
        PROVE  OwnerInv'
    <3> DEFINE u == [t EXCEPT !.pc = pc]
    <3>1. u.pc = pc /\ u.whom = t.whom /\ u.held = t.held
      BY <1>1, Moved
    <3>2. Run(h, u)
      BY <2>3 DEF Goto, Run
    <3> HIDE DEF u
    <3>3. OwnerSpared(u)
      BY <1>1, <2>1, <3>1 DEF OwnerSpared
    <3> QED
      BY <1>6, <1>7, <2>1, <3>2, <3>3
  <2> QED
    BY <1>19, <2>2, <2>3 DEF Claim, Refuse, Freeze
<1>20. CASE ReadRows(h) /\ ~Goto(h, "mark")
  <2> DEFINE u == Seen(t, "commit", rows)
  <2>1. u.pc = "commit" /\ u.whom = t.whom /\ u.held = t.held
    BY <1>1 DEF Seen, Task
  <2>2. Run(h, u) /\ member' = member /\ tenant' = tenant /\ t.pc = "read"
    BY <1>20 DEF ReadRows, OnlyTask
  <2> HIDE DEF u
  <2>3. OwnerSpared(u)
    BY <1>1, <2>1, <2>2 DEF OwnerSpared
  <2> QED
    BY <1>6, <1>7, <2>2, <2>3
<1>21. CASE CommitRekey(h)
  <2>1. /\ t.whom # FirstOwner /\ t.held[FirstOwner].status = "active"
        /\ t.held[FirstOwner].id = 1 /\ t.held[FirstOwner].pub = 1
    BY <1>1, <1>21 DEF CommitRekey, OwnerSpared
  <2>2. /\ tenant'.dek = t.fresh /\ \A o \in Member : member'[o] = AfterRekey(t, o)
    BY <1>21 DEF CommitRekey
  <2>3. FirstOwner \in Kept(t)
    BY <1>2, <2>1 DEF Kept, Here, OwnerInv, OwnerOpens
  <2>4. member'[FirstOwner] = Sealed(member[FirstOwner], [dek |-> t.fresh, to |-> 1])
    BY <1>2, <2>1, <2>2, <2>3 DEF AfterRekey, SealedTo
  <2>5. OwnerOpens'
    <3>1. member[FirstOwner] \in MemberRow
      BY <1>2
    <3> QED
      BY <2>2, <2>4, <3>1 DEF OwnerInv, OwnerOpens, Sealed, MemberRow
  <2>6. OthersAreMembers'
    <3>1. ASSUME NEW o \in Member \ {FirstOwner} PROVE member'[o].role = "member"
      <4>1. \/ member'[o] = member[o] \/ member'[o] = Removal(member[o])
            \/ member'[o] = Sealed(member[o], SealedTo(t, o))
        BY <2>2 DEF AfterRekey
      <4> QED
        BY <1>3, <4>1 DEF Removal, Sealed, MemberRow
    <3> QED
      BY <3>1 DEF OthersAreMembers
  <2>7. OwnerSpared(task'[h]) /\ \A k \in Handler \ {h} : task'[k] = task[k]
    BY <1>5, <1>21 DEF CommitRekey
  <2>8. ASSUME NEW k \in Handler PROVE OwnerSpared(task[k])'
    <3>1. CASE k = h
      BY <2>7, <3>1 DEF OwnerSpared
    <3>2. CASE k # h
      <4>1. task'[k] = task[k] /\ OwnerSpared(task[k])
        BY <2>7, <3>2 DEF OwnerInv
      <4> QED
        BY <4>1 DEF OwnerSpared
    <3> QED
      BY <3>1, <3>2
  <2> QED
    BY <2>5, <2>6, <2>8 DEF OwnerInv
<1>22. CASE Look(h)
  <2> DEFINE late == {r \in Row : rows[r].key.version = t.key.version}
             next == IF t.pc = "look1" THEN "sweep1" ELSE "sweep2"
             s == Seen(t, next, rows)
             u == Touching(s, late)
  <2>1. (Goto(h, "thaw") \/ Run(h, u) \/ Done(h)) /\ member' = member /\ tenant' = tenant
    BY <1>22 DEF Look
  <2>2. late \in SUBSET Row /\ next \in {"sweep1", "sweep2"} /\ next \in Pcs /\ rows \in [Row -> Cipher]
    BY DEF TypeOK, Pcs
  <2> HIDE DEF late, next
  <2>3. s \in Task /\ s.pc = next
    BY <1>1, <2>2, LocalTypes, LocalValues
  <2> HIDE DEF s
  <2>4. u.pc = next
    BY <2>2, <2>3, LocalValues
  <2> HIDE DEF u
  <2>5. OwnerSpared(u)
    BY <2>2, <2>4 DEF OwnerSpared
  <2> QED
    BY <1>4, <1>5, <1>6, <1>7, <2>1, <2>5
<1>23. CASE Sweep(h)
  <2> DEFINE next == IF t.pc = "sweep1" THEN "look2" ELSE "thaw"
  <2>1. next \in {"look2", "thaw"} /\ Goto(h, next) /\ member' = member /\ tenant' = tenant
    BY <1>23 DEF Sweep
  <2> HIDE DEF next
  <2> QED
    BY <1>5, <1>7, <2>1
<1> QED
  BY <1>9, <1>10, <1>11, <1>12, <1>13, <1>14, <1>15, <1>16, <1>17, <1>18, <1>19, <1>20, <1>21, <1>22,
     <1>23 DEF Step

\* Every step spares the owner.
LEMMA NextSpares ==
  ASSUME KeepsTheirPlace
  PROVE  TypeOK /\ OwnerInv /\ [Next]_vars => OwnerInv'
<1> SUFFICES ASSUME TypeOK, OwnerInv, [Next]_vars PROVE OwnerInv'
  OBVIOUS
<1>1. ASSUME tenant'.dek = tenant.dek, member'[FirstOwner] = member[FirstOwner],
             \A o \in Member \ {FirstOwner} : member'[o].role = "member",
             \A h \in Handler : task'[h] = task[h] \/ task'[h].pc = "idle"
      PROVE  OwnerInv'
  <2>1. OwnerOpens' /\ OthersAreMembers'
    BY <1>1 DEF OwnerInv, OwnerOpens, OthersAreMembers
  <2>2. \A h \in Handler : OwnerSpared(task[h])'
    BY <1>1 DEF OwnerInv, OwnerSpared
  <2> QED
    BY <2>1, <2>2 DEF OwnerInv
<1>2. /\ member[FirstOwner].status = "active"
      /\ \A o \in Member \ {FirstOwner} : member[o].role = "member"
  BY DEF OwnerInv, OwnerOpens, OthersAreMembers
<1>3. CASE UNCHANGED vars
  BY <1>1, <1>2, <1>3 DEF vars
<1>4. ASSUME NEW m \in Member, SignIn(m) \/ Lock(m)
      PROVE  OwnerInv'
  BY <1>1, <1>2, <1>4 DEF SignIn, Lock
<1>5. ASSUME NEW m \in Member, Join(m)
      PROVE  OwnerInv'
  <2>1. /\ m # FirstOwner /\ member'[m].role = "member"
        /\ \A o \in Member \ {m} : member'[o] = member[o]
    BY <1>2, <1>5 DEF Join, TypeOK, Pending, NoMember
  <2>2. tenant' = tenant /\ task' = task /\ FirstOwner \in Member
    BY <1>5, FoundersAssumption DEF Join
  <2> QED
    BY <1>1, <1>2, <2>1, <2>2
<1>6. CASE \E h \in Handler : Arrive(h)
  BY <1>6, ArriveSpares
<1>7. CASE \E h \in Handler : Step(h)
  BY <1>7, StepSpares
<1>8. CASE Suspend \/ Resume \/ Restart
  <2>1. tenant'.dek = tenant.dek /\ member' = member
    BY <1>8 DEF Suspend, Resume, Restart, TypeOK
  <2>2. \A h \in Handler : task'[h] = task[h] \/ task'[h].pc = "idle"
    BY <1>8 DEF Suspend, Resume, Restart, NoTask
  <2> QED
    BY <1>1, <1>2, <2>1, <2>2
<1> QED
  BY <1>3, <1>4, <1>5, <1>6, <1>7, <1>8 DEF Next

\* The owner's row and the requests in flight stay as OwnerInv says.
LEMMA OwnerInductive ==
  ASSUME KeepsTheirPlace
  PROVE  Spec => []OwnerInv
<1>1. Init => OwnerInv
  <2> SUFFICES ASSUME Init PROVE OwnerInv
    OBVIOUS
  <2>1. /\ Founder(FirstOwner).status = "active" /\ Founder(FirstOwner).role = "owner"
        /\ Founder(FirstOwner).id = 1 /\ Founder(FirstOwner).pub = 1
        /\ Founder(FirstOwner).sealed = [dek |-> 1, to |-> 1]
    BY DEF Founder, NoMember
  <2>2. member[FirstOwner] = Founder(FirstOwner) /\ tenant.dek = 1
    BY FoundersAssumption DEF Init
  <2>3. \A o \in Member \ {FirstOwner} : Founder(o).role = "member"
    BY DEF Founder, NoMember
  <2>4. NoMember.role = "member"
    BY DEF NoMember
  <2>5. \A o \in Member : member[o] = Founder(o) \/ member[o] = NoMember
    BY DEF Init
  <2>6. OwnerOpens
    BY <2>1, <2>2 DEF OwnerOpens
  <2>7. OthersAreMembers
    BY <2>3, <2>4, <2>5 DEF OthersAreMembers
  <2>8. \A h \in Handler : OwnerSpared(task[h])
    BY DEF Init, NoTask, OwnerSpared
  <2> QED
    BY <2>6, <2>7, <2>8 DEF OwnerInv
<1>2. TypeOK /\ OwnerInv /\ [Next]_vars => OwnerInv'
  BY NextSpares
<1> QED
  BY <1>1, <1>2, TypeCorrect, PTL DEF Spec

\* With any number of requests crossing, failing and cut short, and with the
\* operator suspending at any moment: while nobody hands the ownership over or
\* changes a passphrase, an active member can open the ledger's present key
\* (why reset_keys refuses the owner, and a re-key counts the owner).
THEOREM LedgerStaysOpen ==
  ASSUME KeepsTheirPlace
  PROVE  Spec => []SomeoneCanOpen
<1>1. OwnerInv => SomeoneCanOpen
  BY FoundersAssumption DEF OwnerInv, OwnerOpens, SomeoneCanOpen, Opens
<1> QED
  BY <1>1, OwnerInductive, PTL

\* Among members who keep their place there is always exactly one owner,
\* however the requests interleave: of everything a household does at once,
\* only transfer_ownership can put the role at risk.
THEOREM OneOwnerCrossed ==
  ASSUME KeepsTheirPlace
  PROVE  Spec => []ExactlyOneOwner
<1>1. OwnerInv => ExactlyOneOwner
  BY FoundersAssumption DEF OwnerInv, OwnerOpens, OthersAreMembers, ExactlyOneOwner, IsOwner
<1> QED
  BY <1>1, OwnerInductive, PTL

=============================================================================
