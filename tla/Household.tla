----------------------------- MODULE Household -----------------------------
(***************************************************************************)
(* One household at the granularity of the server's awaits: the registry   *)
(* rows (public.tenants, public.tenant_members), the key ring of the one   *)
(* process, the encrypted rows, and the requests in flight.  A step ends   *)
(* where a coroutine gives up the event loop to the database or to a key   *)
(* derivation, so everything another request may see or do between two     *)
(* awaits of this one is between two of its steps.  A definition named     *)
(* X_Y, before X, is X with a fault Y: no action uses it; the properties   *)
(* are checked to notice it in X's place.                                  *)
(***************************************************************************)
EXTENDS Naturals, FiniteSets

CONSTANTS Member,      \* everybody who may ever have a membership
          FirstOwner,  \* the member the household was provisioned for
          Founders,    \* the active members at the start, each with a key block
          Row,         \* the encrypted rows of the family's schema
          Handler,     \* slots for requests in flight: at most |Handler| at once
          Ops,         \* the operations and faults this instance exercises
          MaxDek,      \* bound on data keys generated
          MaxKeypair,  \* bound on keypairs one member makes
          MaxJoin,     \* bound on memberships one person is given
          MaxText      \* bound on writes started

ASSUME FoundersAssumption == FirstOwner \in Founders /\ Founders \subseteq Member
ASSUME BoundsAssumption ==
  /\ MaxDek \in 1 .. 254 /\ MaxKeypair \in Nat /\ MaxJoin \in Nat /\ MaxText \in Nat
ASSUME HandlerAssumption == Handler # {}

VARIABLES tenant,    \* the tenants row: status, key_version, and the key it stands for
          member,    \* the tenant_members row of each member
          signedIn,  \* members with a session or API token that is not revoked
          ring,      \* KeyRing._entries: the key each member's unlock holds
          frozen,    \* the household is in KeyRing._frozen
          rows,      \* each encrypted row: the key it is under and what it says
          task,      \* the request in each slot, its locals and where it awaits
          minted,    \* data keys generated so far
          made,      \* keypairs each member made so far
          written,   \* writes started so far
          given,     \* history: members the present data key was ever sealed to
          overtook   \* history: since the process started, a re-key was claimed
                     \* while a failed one still had its thaw to do

vars == <<tenant, member, signedIn, ring, frozen, rows, task,
          minted, made, written, given, overtook>>

counters == <<minted, made, written, overtook>>

-----------------------------------------------------------------------------
(* Data.  A data key is its DEK and the one-byte version rows carry; DEK 0  *)
(* is no key.  A keypair is its number among those its member made.         *)

NoKey == [dek |-> 0, version |-> 0]
FirstKey == [dek |-> 1, version |-> 1]
Key == [dek : Nat, version : Nat]
NoSeal == [dek |-> 0, to |-> 0]
Seal == [dek : Nat, to : Nat]

\* TenantMember: id tells one membership of a person from the next,
\* returning is removed_at being set.
MemberRow ==
  [id : Nat, status : {"absent", "pending", "active", "removed"},
   role : {"owner", "member"}, pub : Nat, sealed : Seal, returning : BOOLEAN]

NoMember ==
  [id |-> 0, status |-> "absent", role |-> "member", pub |-> 0,
   sealed |-> NoSeal, returning |-> FALSE]

Founder(m) ==
  [NoMember EXCEPT !.id = 1, !.status = "active", !.pub = 1,
                   !.role = IF m = FirstOwner THEN "owner" ELSE "member",
                   !.sealed = [dek |-> 1, to |-> 1]]

Cipher == [key : Key, text : Nat]
FirstRow == [key |-> FirstKey, text |-> 0]

\* A row with another keypair and sealed key, and one just joined.
WithBlock(row, pub, seal) == [row EXCEPT !.pub = pub, !.sealed = seal]
Pending(id, returning) ==
  [NoMember EXCEPT !.id = id, !.status = "pending", !.returning = returning]
Approved(row, seal) == [row EXCEPT !.status = "active", !.sealed = seal]
Sealed(row, seal) == [row EXCEPT !.sealed = seal]
WithRole(row, role) == [row EXCEPT !.role = role]

next_key_version(v) == (v % 255) + 1

-----------------------------------------------------------------------------
(* A request in flight.                                                     *)

Pcs == {"idle", "setup", "version", "put", "save", "reopen", "write", "seal",
        "decline", "holders", "claim", "freeze", "read", "commit", "mark", "unfreeze",
        "replace", "look1", "sweep1", "look2", "sweep2", "thaw", "drop", "revoke", "transfer", "reset", "lockout"}

Kinds == {"none", "setup", "unlock", "change", "recover", "write", "approve", "decline",
          "remove", "leave", "drop", "transfer", "reset"}

Task ==
  [pc : Pcs, op : Kinds, who : Member, whom : Member, key : Key, fresh : Nat,
   loaded : MemberRow, held : [Member -> MemberRow], seen : [Row -> Cipher],
   target : SUBSET Row]

NoTask ==
  [pc |-> "idle", op |-> "none", who |-> FirstOwner, whom |-> FirstOwner,
   key |-> NoKey, fresh |-> 0, loaded |-> NoMember,
   held |-> [m \in Member |-> NoMember], seen |-> [r \in Row |-> FirstRow],
   target |-> {}]

\* The key under which a re-key writes: made from the old one's version.
FreshKey(t) == [dek |-> t.fresh, version |-> next_key_version(t.key.version)]

Current == [dek |-> tenant.dek, version |-> tenant.version]

\* KeyRing.get and for_member: an unlock reads as locked while frozen.
Unlocked(m) == ring[m] # NoKey /\ ~frozen

IsOwner(m) == member[m].status = "active" /\ member[m].role = "owner"

\* The row a request loaded is still there (an UPDATE of it matches).
Here(m, id) == member[m].status # "absent" /\ member[m].id = id

Begin(h, op, m) == task[h].pc = "idle" /\ op \in Ops /\ m \in signedIn

Run(h, t) == task' = [task EXCEPT ![h] = t]
Goto(h, pc) == task' = [task EXCEPT ![h].pc = pc]
Done(h) == task' = [task EXCEPT ![h] = NoTask]

\* A request's locals as it begins and goes on: what it asks, the member row
\* it loaded, the key it captured, the key or text it will write.
Start(pc, op, m, o) == [NoTask EXCEPT !.pc = pc, !.op = op, !.who = m, !.whom = o]
Loaded(t, row) == [t EXCEPT !.loaded = row]
Holding(t, key) == [t EXCEPT !.key = key]
Making(t, n) == [t EXCEPT !.fresh = n]
Touching(t, rs) == [t EXCEPT !.target = rs]
Counted(t, held) == [t EXCEPT !.pc = "claim", !.held = held]
Seen(t, pc, rs) == [t EXCEPT !.pc = pc, !.seen = rs]

\* Frames: steps that change the request alone, or it and the members' rows.
OnlyTask == UNCHANGED <<tenant, member, signedIn, ring, frozen, rows, counters, given>>
OnlyMember == UNCHANGED <<tenant, signedIn, ring, frozen, rows, counters, given>>

-----------------------------------------------------------------------------
(* Signing in and joining.                                                  *)

\* TenantService.membership_for_sign_in: refused unless the account is active.
SignIn(m) ==
  /\ "signin" \in Ops
  /\ m \notin signedIn
  /\ tenant.status = "active"
  /\ member[m].status \in {"pending", "active"}
  /\ signedIn' = signedIn \cup {m}
  /\ UNCHANGED <<tenant, member, ring, frozen, rows, task, counters, given>>

\* TenantService.join: a new row, or the removed member's own with no keys.
Join(m) ==
  /\ "join" \in Ops
  /\ tenant.status = "active"
  /\ \/ member[m].status = "absent" /\ member[m].id < MaxJoin
     \/ member[m].status = "removed"
  /\ member' = [member EXCEPT ![m] =
       Pending(IF @.status = "absent" THEN @.id + 1 ELSE @.id, @.returning)]
  /\ UNCHANGED <<tenant, signedIn, ring, frozen, rows, task, counters, given>>

-----------------------------------------------------------------------------
(* KeyService: a member's own key block.                                    *)

CreatesTheDataKey(m) ==
  /\ member[m].status = "active"
  /\ \A o \in Member \ {m} : member[o].sealed = NoSeal

\* setup, up to the derivation.  Whoever would create the data key of a
\* ledger already encrypted fails on its first row: nothing changes.
SetupLoad(h, m) ==
  /\ Begin(h, "setup", m)
  /\ member[m].status # "absent"
  /\ member[m].pub = 0
  /\ ~CreatesTheDataKey(m)
  /\ made[m] < MaxKeypair
  /\ made' = [made EXCEPT ![m] = @ + 1]
  /\ Run(h, Loaded(Start("setup", "setup", m, m), WithBlock(member[m], made[m] + 1, NoSeal)))
  /\ UNCHANGED <<tenant, member, signedIn, ring, frozen, rows, minted, written, given, overtook>>

\* TenantKeyStore.save: every key column of whatever row is there now.
SaveBlock(h) ==
  LET t == task[h]
  IN  member' = IF member[t.who].status = "absent" THEN member
                ELSE [member EXCEPT ![t.who] = WithBlock(@, t.loaded.pub, t.loaded.sealed)]

SetupSave(h) ==
  /\ task[h].pc = "setup"
  /\ SaveBlock(h)
  /\ Done(h)
  /\ OnlyMember

\* open: the key block is read and the freeze looked at ...
UnlockLoad(h, m) ==
  /\ Begin(h, "unlock", m)
  /\ member[m].pub # 0
  /\ member[m].sealed # NoSeal
  /\ ~frozen
  /\ Run(h, Loaded(Start("version", "unlock", m, m), member[m]))
  /\ OnlyTask

\* ... then tenants.key_version, read on its own ...
ReadVersion(h) ==
  /\ task[h].pc = "version"
  /\ Run(h, Holding([task[h] EXCEPT !.pc = "put"],
                    [dek |-> task[h].loaded.sealed.dek, version |-> tenant.version]))
  /\ OnlyTask

\* ... and after the derivation the key is put in the ring, as it was read.
\* A key sealed to another keypair does not open.
Put(h) ==
  /\ task[h].pc = "put"
  /\ ring' = IF task[h].loaded.sealed.to = task[h].loaded.pub
             THEN [ring EXCEPT ![task[h].who] = task[h].key] ELSE ring
  /\ Done(h)
  /\ UNCHANGED <<tenant, member, signedIn, frozen, rows, counters, given>>

\* change_passphrase, regenerate_recovery_code and recover, up to the save.
ChangeLoad(h, m, op) ==
  /\ op \in {"change", "recover"}
  /\ Begin(h, op, m)
  /\ member[m].pub # 0
  /\ Run(h, Loaded(Start("save", op, m, m), member[m]))
  /\ OnlyTask

SavePassphrase(h) ==
  /\ task[h].pc = "save"
  /\ SaveBlock(h)
  /\ IF task[h].op = "recover" /\ member[task[h].who].status # "absent"
     THEN Goto(h, "reopen") ELSE Done(h)
  /\ OnlyMember

\* recover: the unlock that follows, unless the household is being re-keyed.
Reopen(h) ==
  /\ task[h].pc = "reopen"
  /\ IF task[h].loaded.sealed = NoSeal \/ frozen THEN Done(h) ELSE Goto(h, "version")
  /\ OnlyTask

\* KeyRing.lock, or the unlock's time ran out.
Lock(m) ==
  /\ "lock" \in Ops
  /\ ring[m] # NoKey
  /\ ring' = [ring EXCEPT ![m] = NoKey]
  /\ UNCHANGED <<tenant, member, signedIn, frozen, rows, task, counters, given>>

-----------------------------------------------------------------------------
(* A member's write: encrypted when its parameters are bound, committed     *)
(* later.                                                                   *)

WriteBind(h, m, r) ==
  /\ Begin(h, "write", m)
  /\ Unlocked(m)
  /\ written < MaxText
  /\ written' = written + 1
  /\ Run(h, Touching(Making(Holding(Start("write", "write", m, m), ring[m]), written + 1), {r}))
  /\ UNCHANGED <<tenant, member, signedIn, ring, frozen, rows, minted, made, given, overtook>>

WriteCommit(h) ==
  /\ task[h].pc = "write"
  /\ rows' = [r \in Row |-> IF r \in task[h].target
                            THEN [key |-> task[h].key, text |-> task[h].fresh] ELSE rows[r]]
  /\ Done(h)
  /\ UNCHANGED <<tenant, member, signedIn, ring, frozen, counters, given>>

-----------------------------------------------------------------------------
(* HouseholdService: the owner's decisions on a pending member.             *)

ApproveCheck(h, m, o) ==
  /\ Begin(h, "approve", m)
  /\ IsOwner(m) /\ Unlocked(m)
  /\ member[o].status = "pending" /\ member[o].pub # 0
  /\ tenant.status = "active" /\ tenant.version = ring[m].version
  /\ Run(h, Loaded(Holding(Start("seal", "approve", m, o), ring[m]), member[o]))
  /\ OnlyTask

\* The commit writes what was decided from the row as it was loaded.
ApproveSeal(h) ==
  LET t == task[h]
  IN  /\ t.pc = "seal"
      /\ IF Here(t.whom, t.loaded.id)
         THEN /\ member' = [member EXCEPT ![t.whom] =
                              Approved(@, [dek |-> t.key.dek, to |-> t.loaded.pub])]
              /\ given' = IF t.key.dek = tenant.dek THEN given \cup {t.whom} ELSE given
         ELSE UNCHANGED <<member, given>>
      /\ Done(h)
      /\ UNCHANGED <<tenant, signedIn, ring, frozen, rows, counters>>

\* _removal: removed, no sealed key, never the owner.
Removal(row) ==
  [row EXCEPT !.status = "removed", !.sealed = NoSeal, !.role = "member", !.returning = TRUE]

DeclineCheck(h, m, o) ==
  /\ Begin(h, "decline", m)
  /\ IsOwner(m)
  /\ member[o].status = "pending"
  /\ Run(h, Loaded(Start("decline", "decline", m, o), member[o]))
  /\ OnlyTask

\* A returning member goes back to removed; anyone else's row is deleted.
TurnedAway_KeepsBlock(row, loaded) == [row EXCEPT !.status = "absent"]

TurnedAway(row, loaded) ==
  IF loaded.returning THEN Removal(row) ELSE [NoMember EXCEPT !.id = row.id]

DeclineCommit(h) ==
  LET t == task[h]
  IN  /\ t.pc = "decline"
      /\ member' = IF Here(t.whom, t.loaded.id)
                   THEN [member EXCEPT ![t.whom] = TurnedAway(@, t.loaded)] ELSE member
      /\ Done(h)
      /\ OnlyMember

-----------------------------------------------------------------------------
(* Taking a member out with a re-key: HouseholdService.remove and leave,    *)
(* then HouseholdRekey.run.                                                 *)

TakeOut(h, op, m, o) ==
  /\ minted < MaxDek
  /\ minted' = minted + 1
  /\ Run(h, Loaded(Making(Holding(Start("holders", op, m, o), ring[m]), minted + 1), member[o]))
  /\ UNCHANGED <<tenant, member, signedIn, ring, frozen, rows, made, written, given, overtook>>

RemoveCheck(h, m, o) ==
  /\ Begin(h, "remove", m)
  /\ IsOwner(m) /\ Unlocked(m)
  /\ o # m /\ member[o].status = "active"
  /\ TakeOut(h, "remove", m, o)

LeaveCheck(h, m) ==
  /\ Begin(h, "leave", m)
  /\ member[m].status = "active" /\ member[m].role # "owner" /\ Unlocked(m)
  /\ TakeOut(h, "leave", m, m)

Stays_Leaver(o, whom) == member[o].status = "active"

Stays(o, whom) == o # whom /\ member[o].status = "active"

\* _remaining_holders: read before the household is claimed; refused while
\* somebody who stays has no keypair.
Holders(h) ==
  LET t == task[h]
  IN  /\ t.pc = "holders"
      /\ IF \E o \in Member : Stays(o, t.whom) /\ member[o].pub = 0
         THEN Done(h)
         ELSE Run(h, Counted(t, [o \in Member |->
                                   IF Stays(o, t.whom) THEN member[o] ELSE NoMember]))
      /\ OnlyTask

\* _claim, under FOR UPDATE: only from active, and only with the household's
\* present key version.
MayClaim_AnyStatus(t) == tenant.version = t.key.version

MayClaim(t) == tenant.status = "active" /\ tenant.version = t.key.version

\* A refused claim neither freezes nor thaws.
Refuse_Thaws(h) == Done(h) /\ frozen' = FALSE /\ UNCHANGED <<tenant, overtook>>
Refuse(h) == Done(h) /\ UNCHANGED <<tenant, frozen, overtook>>

\* The mark is committed ...
Claim(h) ==
  /\ task[h].pc = "claim"
  /\ IF MayClaim(task[h])
     THEN /\ tenant' = [tenant EXCEPT !.status = "rekeying"]
          /\ overtook' = (overtook \/ \E k \in Handler : task[k].pc = "unfreeze")
          /\ Goto(h, "freeze")
          /\ UNCHANGED frozen
     ELSE Refuse(h)
  /\ UNCHANGED <<member, signedIn, ring, rows, minted, made, written, given>>

\* ... and the household frozen when that commit has been answered.
Freeze(h) ==
  /\ task[h].pc = "freeze"
  /\ frozen' = TRUE
  /\ Goto(h, "read")
  /\ UNCHANGED <<tenant, member, signedIn, ring, rows, counters, given>>

\* The finally block of a pass that did not commit: the mark goes first, in a
\* commit of its own; the freeze, whoever's it is by then, goes when that
\* commit has been answered.
ClearMark_Keeps(h) == task[h].pc = "mark" /\ Goto(h, "unfreeze") /\ OnlyTask

ClearMark(h) ==
  /\ task[h].pc = "mark"
  /\ tenant' = [tenant EXCEPT !.status = "active"]
  /\ Goto(h, "unfreeze")
  /\ UNCHANGED <<member, signedIn, ring, frozen, rows, counters, given>>

Unfreeze_Keeps(h) == task[h].pc = "unfreeze" /\ Done(h) /\ OnlyTask

Unfreeze(h) ==
  /\ task[h].pc = "unfreeze"
  /\ frozen' = FALSE
  /\ Done(h)
  /\ UNCHANGED <<tenant, member, signedIn, ring, rows, counters, given>>

\* rewrite_all reads every row under the old key or the new one; a row under
\* neither ends the pass.
ReadRows(h) ==
  LET t == task[h]
  IN  /\ t.pc = "read"
      /\ IF \A r \in Row : rows[r].key \in {t.key, FreshKey(t)}
         THEN Run(h, Seen(t, "commit", rows)) ELSE Goto(h, "mark")
      /\ OnlyTask

\* The key sealed to each of those who were staying when they were counted.
SealedTo_OldKey(t, o) == [dek |-> t.key.dek, to |-> t.held[o].pub]

SealedTo(t, o) == [dek |-> t.fresh, to |-> t.held[o].pub]

Kept(t) == {o \in Member : t.held[o].status = "active" /\ Here(o, t.held[o].id)}

AfterRekey(t, o) ==
  IF o = t.whom
  THEN IF Here(o, t.loaded.id) THEN Removal(member[o]) ELSE member[o]
  ELSE IF o \in Kept(t) THEN Sealed(member[o], SealedTo(t, o)) ELSE member[o]

\* Every row written back under the new key, as it was read.
Rewritten(t) == [r \in Row |-> [key |-> FreshKey(t), text |-> t.seen[r].text]]

\* KeyRing.lock_member for the leaver, replace_data_key for everybody else.
RingAfter_OldKey(t) == [ring EXCEPT ![t.whom] = NoKey]

RingAfter(t) ==
  [o \in Member |-> IF o = t.whom \/ ring[o] = NoKey THEN NoKey ELSE FreshKey(t)]

\* One transaction: rows, sealed keys, removal, sessions, version and status ...
CommitRekey(h) ==
  LET t == task[h]
  IN  /\ t.pc = "commit"
      /\ rows' = Rewritten(t)
      /\ member' = [o \in Member |-> AfterRekey(t, o)]
      /\ signedIn' = signedIn \ {t.whom}
      /\ tenant' = [status |-> "active", version |-> FreshKey(t).version, dek |-> t.fresh]
      /\ given' = Kept(t)
      /\ Goto(h, "replace")
      /\ UNCHANGED <<ring, frozen, counters>>

\* ... and, once it is answered, the ring.
ReplaceKey(h) ==
  /\ task[h].pc = "replace"
  /\ ring' = RingAfter(task[h])
  /\ Goto(h, "look1")
  /\ UNCHANGED <<tenant, member, signedIn, frozen, rows, counters, given>>

\* _sweep: rows whose header still has the old version, looked for twice.
Look(h) ==
  LET t == task[h]
      late == {r \in Row : rows[r].key.version = t.key.version}
  IN  /\ t.pc \in {"look1", "look2"}
      /\ IF late = {}
         THEN Goto(h, "thaw") /\ UNCHANGED frozen
         ELSE IF \A r \in late : rows[r].key = t.key
         THEN /\ Run(h, Touching(Seen(t, IF t.pc = "look1" THEN "sweep1" ELSE "sweep2", rows),
                                 late))
              /\ UNCHANGED frozen
         ELSE Done(h) /\ frozen' = FALSE
      /\ UNCHANGED <<tenant, member, signedIn, ring, rows, counters, given>>

Sweep(h) ==
  LET t == task[h]
  IN  /\ t.pc \in {"sweep1", "sweep2"}
      /\ rows' = [r \in Row |-> IF r \in t.target
                                THEN [key |-> FreshKey(t), text |-> t.seen[r].text]
                                ELSE rows[r]]
      /\ Goto(h, IF t.pc = "sweep1" THEN "look2" ELSE "thaw")
      /\ UNCHANGED <<tenant, member, signedIn, ring, frozen, counters, given>>

\* The thaw; the member's row is read again before auth.household._forgotten
\* drops what is held for them (Lockout).
Thaw(h) ==
  /\ task[h].pc = "thaw"
  /\ frozen' = FALSE
  /\ Goto(h, "lockout")
  /\ UNCHANGED <<tenant, member, signedIn, ring, rows, counters, given>>

\* The database fails the pass before its commit, ...
RekeyFails(h) ==
  /\ "fail" \in Ops
  /\ task[h].pc \in {"read", "commit"}
  /\ Goto(h, "mark")
  /\ OnlyTask

\* ... fails the clearing of the mark as well, which skips the thaw, ...
MarkFails(h) ==
  /\ "markfail" \in Ops
  /\ task[h].pc = "mark"
  /\ Done(h)
  /\ OnlyTask

\* ... or fails the sweep after the commit.
SweepFails(h) ==
  /\ "fail" \in Ops
  /\ task[h].pc \in {"look1", "sweep1", "look2", "sweep2"}
  /\ frozen' = FALSE
  /\ Done(h)
  /\ UNCHANGED <<tenant, member, signedIn, ring, rows, counters, given>>

-----------------------------------------------------------------------------
(* The other operations on a membership.                                    *)

\* remove(rekey=False): the removal, and then the sessions, are committed.
DropCheck(h, m, o) ==
  /\ Begin(h, "drop", m)
  /\ IsOwner(m)
  /\ o # m /\ member[o].status = "active"
  /\ Run(h, Loaded(Start("drop", "drop", m, o), member[o]))
  /\ OnlyTask

DropCommit(h) ==
  LET t == task[h]
  IN  /\ t.pc = "drop"
      /\ member' = IF Here(t.whom, t.loaded.id)
                   THEN [member EXCEPT ![t.whom] = Removal(@)] ELSE member
      /\ Goto(h, "revoke")
      /\ OnlyMember

Revoke(h) ==
  /\ task[h].pc = "revoke"
  /\ signedIn' = signedIn \ {task[h].whom}
  /\ Goto(h, "lockout")
  /\ UNCHANGED <<tenant, member, ring, frozen, rows, counters, given>>

RevokeFails(h) ==
  /\ "revokefail" \in Ops
  /\ task[h].pc = "revoke"
  /\ Done(h)
  /\ OnlyTask

TransferCheck(h, m, o) ==
  /\ Begin(h, "transfer", m)
  /\ IsOwner(m)
  /\ o # m /\ member[o].status = "active"
  /\ Run(h, Loaded(Start("transfer", "transfer", m, o), member[o]))
  /\ OnlyTask

HandedOver_TwoOwners(who, whom) == [member EXCEPT ![whom] = WithRole(@, "owner")]

HandedOver(who, whom) ==
  [member EXCEPT ![who] = WithRole(@, "member"), ![whom] = WithRole(@, "owner")]

TransferCommit(h) ==
  LET t == task[h]
  IN  /\ t.pc = "transfer"
      /\ member' = IF Here(t.whom, t.loaded.id) /\ member[t.who].status # "absent"
                   THEN HandedOver(t.who, t.whom) ELSE member
      /\ Done(h)
      /\ OnlyMember

MayReset_OwnerToo(m) == member[m].status \in {"pending", "active"}

MayReset(m) == member[m].status \in {"pending", "active"} /\ member[m].role # "owner"

ResetCheck(h, m) ==
  /\ Begin(h, "reset", m)
  /\ MayReset(m)
  /\ Run(h, Loaded(Start("reset", "reset", m, m), member[m]))
  /\ OnlyTask

\* clear_member_keys and the status; the unit of work writes the columns that
\* differ from what was loaded.
StartedOver_KeepsSeal(row, loaded) == [row EXCEPT !.status = "pending", !.pub = 0]

StartedOver(row, loaded) ==
  [row EXCEPT !.status = IF loaded.status = "pending" THEN @ ELSE "pending",
              !.pub = IF loaded.pub = 0 THEN @ ELSE 0,
              !.sealed = IF loaded.sealed = NoSeal THEN @ ELSE NoSeal]

ResetCommit(h) ==
  LET t == task[h]
  IN  /\ t.pc = "reset"
      /\ IF Here(t.whom, t.loaded.id)
         THEN /\ member' = [member EXCEPT ![t.whom] = StartedOver(@, t.loaded)]
              /\ Goto(h, "lockout")
         ELSE Done(h) /\ UNCHANGED member
      /\ OnlyMember

\* KeyRing.lock_member, when what went before it has been answered.
Lockout(h) ==
  /\ task[h].pc = "lockout"
  /\ ring' = [ring EXCEPT ![task[h].whom] = NoKey]
  /\ Done(h)
  /\ UNCHANGED <<tenant, member, signedIn, frozen, rows, counters, given>>

-----------------------------------------------------------------------------
(* The operator, and the process.                                           *)

SlotFree == \E h \in Handler : task[h].pc = "idle"

\* TenantService.suspend: from whatever status the row has.
Suspend ==
  /\ "suspend" \in Ops /\ SlotFree
  /\ tenant' = [tenant EXCEPT !.status = "suspended"]
  /\ UNCHANGED <<member, signedIn, ring, frozen, rows, task, counters, given>>

Resume ==
  /\ "resume" \in Ops /\ SlotFree
  /\ tenant.status = "suspended"
  /\ tenant' = [tenant EXCEPT !.status = "active"]
  /\ UNCHANGED <<member, signedIn, ring, frozen, rows, task, counters, given>>

\* release_interrupted_rekeys.
Released(status) == IF status = "rekeying" THEN "active" ELSE status

\* The process dies and starts again: what it held in memory is gone, what
\* was not committed never happened.
Restart ==
  /\ "restart" \in Ops
  /\ task' = [h \in Handler |-> NoTask]
  /\ ring' = [m \in Member |-> NoKey]
  /\ frozen' = FALSE
  /\ tenant' = [tenant EXCEPT !.status = Released(@)]
  /\ overtook' = FALSE
  /\ UNCHANGED <<member, signedIn, rows, minted, made, written, given>>

-----------------------------------------------------------------------------

Init ==
  /\ tenant = [status |-> "active", version |-> 1, dek |-> 1]
  /\ member = [m \in Member |-> IF m \in Founders THEN Founder(m) ELSE NoMember]
  /\ signedIn = Founders
  /\ ring \in {[m \in Member |-> IF m \in open THEN FirstKey ELSE NoKey] :
                 open \in SUBSET Founders}
  /\ frozen = FALSE
  /\ rows = [r \in Row |-> FirstRow]
  /\ task = [h \in Handler |-> NoTask]
  /\ minted = 1
  /\ made = [m \in Member |-> IF m \in Founders THEN 1 ELSE 0]
  /\ written = 0
  /\ given = Founders
  /\ overtook = FALSE

\* A request arrives in a free slot.
Arrive(h) ==
  \E m \in Member :
    \/ SetupLoad(h, m)
    \/ UnlockLoad(h, m)
    \/ \E op \in {"change", "recover"} : ChangeLoad(h, m, op)
    \/ \E r \in Row : WriteBind(h, m, r)
    \/ LeaveCheck(h, m)
    \/ ResetCheck(h, m)
    \/ \E o \in Member : \/ ApproveCheck(h, m, o)
                         \/ DeclineCheck(h, m, o)
                         \/ RemoveCheck(h, m, o)
                         \/ DropCheck(h, m, o)
                         \/ TransferCheck(h, m, o)

\* A request in flight takes its next step.
Step(h) ==
  \/ SetupSave(h) \/ ReadVersion(h) \/ Put(h) \/ SavePassphrase(h) \/ Reopen(h)
  \/ WriteCommit(h)
  \/ ApproveSeal(h) \/ DeclineCommit(h)
  \/ Holders(h) \/ Claim(h) \/ Freeze(h) \/ ReadRows(h) \/ CommitRekey(h) \/ ReplaceKey(h)
  \/ Look(h) \/ Sweep(h) \/ Thaw(h) \/ ClearMark(h) \/ Unfreeze(h)
  \/ RekeyFails(h) \/ MarkFails(h) \/ SweepFails(h)
  \/ DropCommit(h) \/ Revoke(h) \/ RevokeFails(h)
  \/ TransferCommit(h) \/ ResetCommit(h) \/ Lockout(h)

Next ==
  \/ \E m \in Member : SignIn(m) \/ Join(m) \/ Lock(m)
  \/ \E h \in Handler : Arrive(h) \/ Step(h)
  \/ Suspend \/ Resume \/ Restart

\* The event loop runs every coroutine whose await has been answered.
Fairness == \A h \in Handler : WF_vars(Step(h))

Spec == Init /\ [][Next]_vars /\ Fairness

-----------------------------------------------------------------------------
(* Properties.                                                              *)

\* The values every variable may take; a row that is absent keeps no keys.
TypeOK ==
  /\ tenant \in [status : {"active", "rekeying", "suspended"}, version : 1 .. 255, dek : Nat]
  /\ member \in [Member -> MemberRow]
  /\ \A m \in Member : member[m].status = "absent" => member[m] = [NoMember EXCEPT !.id = member[m].id]
  /\ signedIn \subseteq Member
  /\ ring \in [Member -> Key]
  /\ frozen \in BOOLEAN
  /\ rows \in [Row -> Cipher]
  /\ task \in [Handler -> Task]
  /\ minted \in 1 .. MaxDek
  /\ made \in [Member -> Nat]
  /\ written \in Nat
  /\ given \subseteq Member
  /\ overtook \in BOOLEAN

\* "The household always has exactly one owner", and that owner is in it.
ExactlyOneOwner ==
  \E m \in Member : IsOwner(m) /\ \A o \in Member \ {m} : member[o].role # "owner"

Opens(m) == member[m].pub # 0 /\ member[m].sealed = [dek |-> tenant.dek, to |-> member[m].pub]

\* Every active member's key block opens the household's present key: what
\* approve and the re-key's "sealed to each remaining member" are for.
ActiveHoldCurrentKey == \A m \in Member : member[m].status = "active" => Opens(m)

\* Some active member can open the present key: without it the ledger is lost
\* (why reset_keys refuses the owner).
SomeoneCanOpen == \E m \in Member : member[m].status = "active" /\ Opens(m)

\* Nobody outside has a sealed key, after any sequence of join, approve,
\* decline, remove, leave and reset_keys (_removal: "no sealed key").
OutsidersHoldNothing == \A m \in Member : member[m].status # "active" => member[m].sealed = NoSeal

\* _removal: "removed, no sealed key, never the owner".
RemovedHoldsNothing ==
  \A m \in Member : member[m].status = "removed" =>
     member[m].sealed = NoSeal /\ member[m].role = "member"

\* Outside a freeze, an unlock holds the present key, so what a request binds
\* is bound under it (KeyRing.freeze, replace_data_key).
RingIsCurrent == ~frozen => \A m \in Member : ring[m] \in {NoKey, Current}

\* From the claim to the end of the pass or of its clearing up; from the
\* commit to the thaw; and all of it but the moment before the freeze.
Marked == {"freeze", "read", "commit", "mark"}
AfterCommit == {"replace", "look1", "sweep1", "look2", "sweep2", "thaw"}
Underway == Marked \cup {"unfreeze"} \cup AfterCommit
UnderFreeze == Underway \ {"freeze"}
Rekeying(h) == task[h].pc \in Underway

\* Two re-keys never hold the claim at once (_claim: a second one is refused),
\* so one pass at a time rewrites the rows; and unless one was claimed while a
\* failed one had yet to thaw, a sweep does not overlap the next pass either.
OneRekeyAtATime ==
  /\ \A h, k \in Handler : task[h].pc \in Marked /\ task[k].pc \in Marked => h = k
  /\ ~overtook => \A h, k \in Handler : Rekeying(h) /\ Rekeying(k) => h = k

\* The household stays frozen from the freeze to the end of the sweep: no
\* refused request thaws it, and a failing one only when the claim of this
\* one overtook its thaw.
FreezeCoversRekey == ~overtook => \A h \in Handler : task[h].pc \in UnderFreeze => frozen

\* A mark that shuts sign-in out is never left behind on a household that works
\* again: a failed pass clears mark and freeze, a failed clearing leaves both, a
\* restart clears both, and one that has just claimed is about to freeze.
MarkMeansFrozen ==
  ~overtook /\ tenant.status = "rekeying" => frozen \/ \E h \in Handler : task[h].pc = "freeze"

\* Why, as an induction: keys captured or held never carry a version ahead of
\* the registry's; a re-key before its commit holds the mark and the present
\* version, a failed one that has cleared the mark leaves it so; after the
\* commit, whoever still waits to claim captured an older version
\* and will be refused, as long as the freeze let nobody else in.  Data keys
\* are minted faster than the version moves, so the version byte does not come
\* round.
Waiting == {"holders", "claim"}

VersionsBehind ==
  /\ tenant.status # "suspended"
  /\ tenant.version <= minted
  /\ \A m \in Member : ring[m].version <= tenant.version

CapturedBehind(h) ==
  /\ task[h].pc = "put" => task[h].key.version <= tenant.version
  /\ task[h].pc \in Waiting \cup Marked =>
       /\ task[h].key.version <= tenant.version
       /\ task[h].key.version < task[h].fresh
       /\ task[h].fresh <= minted
  /\ task[h].pc = "replace" => task[h].key.version < tenant.version

MarkHeld(h) ==
  task[h].pc \in Marked => tenant.status = "rekeying" /\ tenant.version = task[h].key.version

OthersBehind(h) ==
  ~overtook =>
    /\ task[h].pc \in AfterCommit \cup {"unfreeze"} => tenant.status # "rekeying"
    /\ task[h].pc \in AfterCommit =>
         \A k \in Handler : task[k].pc \in Waiting => task[k].key.version # tenant.version

RekeyInv ==
  /\ VersionsBehind
  /\ \A h \in Handler : CapturedBehind(h) /\ MarkHeld(h) /\ OthersBehind(h)
  /\ OneRekeyAtATime
  /\ FreezeCoversRekey
  /\ MarkMeansFrozen

\* Only TenantService.resume lets a suspended household in again.
OnlyResumeUnsuspends ==
  [][tenant.status = "suspended" /\ tenant'.status # "suspended" => Resume]_vars

\* Re-wrapping a private key leaves the sealed key as it is
\* (KeyService.change_passphrase).
PassphraseKeepsSealedKey ==
  [][\A h \in Handler : SavePassphrase(h) =>
       \A m \in Member : member'[m].sealed = member[m].sealed]_vars

\* "Nothing new is written under the key being replaced": a request binds its
\* parameters under the present key.
BindsUnderCurrentKey ==
  [][\A h \in Handler : task[h].pc = "idle" /\ task'[h].pc = "write" => task'[h].key = Current]_vars

\* A household that is frozen for a re-key is thawed again.
FreezeEnds == frozen ~> ~frozen

\* Every request that arrives is answered.
RequestsEnd == \A h \in Handler : task[h].pc # "idle" ~> task[h].pc = "idle"

-----------------------------------------------------------------------------
(* The promise a household keeps when one request runs at a time, with     *)
(* every failure and restart inside it.                                    *)

\* The owner the promise speaks of.
TheOwner == CHOOSE m \in Member : member[m].role = "owner"

\* What a row says to a member who opens it with the present key.
Unreadable == MaxText + 1
Says(r) == IF rows[r].key = Current THEN rows[r].text ELSE Unreadable

Promise ==
  INSTANCE HouseholdPromise
    WITH standing <- [m \in Member |-> member[m].status],
         owner    <- TheOwner,
         knows    <- given,
         ledger   <- [r \in Row |-> Says(r)],
         Text     <- 0 .. MaxText

\* Every step of the registry, the key ring and the re-key, failed and
\* interrupted ones too, is one step of the promise or none.
KeepsPromise == Promise!Spec

=============================================================================
