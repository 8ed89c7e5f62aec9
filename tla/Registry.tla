--------------------------------- MODULE Registry ---------------------------------
(***************************************************************************)
(* The instance's registry: local logins and their administrators, the     *)
(* families they own and the schemas built for them, signing in,           *)
(* disabling, password resets, account deletion and the migrations of a    *)
(* start (services/local_identity_service.py, instance_admin_service.py,   *)
(* tenant_service.py, account_deletion_service.py, setup_service.py,       *)
(* auth/providers/registry.py, cli/tenant_admin.py).                       *)
(*                                                                         *)
(* The registry, each schema and the process's own memory commit           *)
(* separately: a step is one commit.  A family is the login that founds    *)
(* it; invited members are module Household's.  A password is its number.  *)
(***************************************************************************)
EXTENDS Integers, FiniteSets, Tables

CONSTANTS
    Logins,     \* ids of local_identities, 1 .. n
    MaxPassword \* bound: passwords a login may be given

ASSUME RegistryAssumption == Logins \subseteq Nat \ {0} /\ MaxPassword \in Nat

VARIABLES
    login,      \* local_identities
    mode,       \* instance_settings.registration_mode
    family,     \* tenants with their founding member, by founder
    schema,     \* per founder: the schema of the family
    signing,    \* login -> the sign-in in progress, with the password it gave
    session,    \* login -> the passwords its live browser sessions were opened with
    tokens,     \* logins with a live API token
    office,     \* login -> an administrator's request between two commits
    removal     \* founder -> an account deletion in progress

registryVars == <<login, mode, family, schema, signing, session, tokens, office, removal>>

Status == {"provisioning", "active", "suspended", "deleting"}
SchemaState == {"none", "head", "behind", "dropped"}
NoSignIn == [at |-> "-", pw |-> 0]
NoRemoval == [at |-> "-", left |-> {}]

RegistryTypeOK ==
    /\ DOMAIN login \subseteq Logins
    /\ \A l \in DOMAIN login :
         login[l] \in [admin : BOOLEAN, disabled : BOOLEAN, must : BOOLEAN, pw : 0 .. MaxPassword]
    /\ mode \in {"open", "closed"}
    /\ DOMAIN family \subseteq Logins
    /\ \A l \in DOMAIN family : family[l] \in [status : Status, user : BOOLEAN]
    /\ schema \in [Logins -> SchemaState]
    /\ signing \in [Logins -> [at : {"-", "family", "schema", "enter"}, pw : 0 .. MaxPassword]]
    /\ session \in [Logins -> SUBSET (0 .. MaxPassword)]
    /\ tokens \subseteq Logins
    /\ office \in [Logins -> {"-", "disabling", "resetting"}]
    /\ removal \in [Logins -> [at : {"-", "identities", "drop", "row"}, left : SUBSET Logins]]

RegistryInit ==
    /\ login = <<>> /\ mode = "closed" /\ family = <<>>
    /\ schema = [l \in Logins |-> "none"]
    /\ signing = [l \in Logins |-> NoSignIn]
    /\ session = [l \in Logins |-> {}]
    /\ tokens = {}
    /\ office = [l \in Logins |-> "-"]
    /\ removal = [l \in Logins |-> NoRemoval]

-----------------------------------------------------------------------------
(* Logins *)

\* LocalIdentityService._admin_count
Admins(t) == {l \in DOMAIN t : t[l].admin /\ ~ t[l].disabled}
IsLastAdmin(l) == Admins(login) = {l}

\* LocalIdentityService.create: a fresh id, to which nothing belongs
NewLogin(l, admin, must) ==
    /\ l \notin DOMAIN login
    /\ l \notin DOMAIN family /\ schema[l] = "none" /\ session[l] = {} /\ signing[l] = NoSignIn
    /\ login' = With(login, l, [admin |-> admin, disabled |-> FALSE, must |-> must, pw |-> 0])

\* LocalIdentityService.sign_up: the first one administers the instance
SignUp(l) ==
    /\ login = <<>> \/ mode = "open"
    /\ NewLogin(l, login = <<>>, FALSE)
    /\ UNCHANGED <<mode, family, schema, signing, session, tokens, office, removal>>

\* InstanceAdminService.create_login, also from kaleta-admin
CreateLogin(l, admin) ==
    /\ NewLogin(l, admin, TRUE)
    /\ UNCHANGED <<mode, family, schema, signing, session, tokens, office, removal>>

\* InstanceAdminService.set_registration_mode
SetRegistration(m) ==
    /\ mode' = m
    /\ UNCHANGED <<login, family, schema, signing, session, tokens, office, removal>>

\* LocalIdentityService.set_admin, under _admin_decision
SetAdmin(l, admin) ==
    /\ l \in DOMAIN login
    /\ ~ admin => ~ IsLastAdmin(l)
    /\ login' = [login EXCEPT ![l].admin = admin]
    /\ UNCHANGED <<mode, family, schema, signing, session, tokens, office, removal>>

\* Mutant of SetDisabled: a disabled administrator still counts as one.
SetDisabled_CountsDisabled(l, disabled) ==
    /\ l \in DOMAIN login /\ office[l] = "-"
    /\ disabled => {k \in DOMAIN login : login[k].admin} # {l}
    /\ login' = [login EXCEPT ![l].disabled = disabled]
    /\ office' = [office EXCEPT ![l] = IF disabled THEN "disabling" ELSE "-"]
    /\ UNCHANGED <<mode, family, schema, signing, session, tokens, removal>>

\* LocalIdentityService.set_disabled, the first commit of
\* InstanceAdminService.set_disabled
SetDisabled(l, disabled) ==
    /\ l \in DOMAIN login /\ office[l] = "-"
    /\ disabled => ~ IsLastAdmin(l)
    /\ login' = [login EXCEPT ![l].disabled = disabled]
    /\ office' = [office EXCEPT ![l] = IF disabled THEN "disabling" ELSE "-"]
    /\ UNCHANGED <<mode, family, schema, signing, session, tokens, removal>>

\* InstanceAdminService._family_member
InFamily(l) == l \in DOMAIN family /\ family[l].user /\ family[l].status \in {"active", "suspended"}

\* The rest of set_disabled: sessions and tokens end, in a suspended family too
DisableRevoke(l) ==
    /\ office[l] = "disabling"
    /\ session' = IF InFamily(l) THEN [session EXCEPT ![l] = {}] ELSE session
    /\ tokens' = IF InFamily(l) THEN tokens \ {l} ELSE tokens
    /\ office' = [office EXCEPT ![l] = "-"]
    /\ UNCHANGED <<login, mode, family, schema, signing, removal>>

\* InstanceAdminService.reset_password: the sessions go first, the password
\* after them in a commit of its own
ResetRevoke(l) ==
    /\ l \in DOMAIN login /\ login[l].pw < MaxPassword /\ office[l] = "-"
    /\ session' = IF InFamily(l) THEN [session EXCEPT ![l] = {}] ELSE session
    /\ office' = [office EXCEPT ![l] = "resetting"]
    /\ UNCHANGED <<login, mode, family, schema, signing, tokens, removal>>

ResetPassword(l) ==
    /\ office[l] = "resetting" /\ l \in DOMAIN login
    /\ login' = [login EXCEPT ![l].pw = @ + 1, ![l].must = TRUE]
    /\ office' = [office EXCEPT ![l] = "-"]
    /\ UNCHANGED <<mode, family, schema, signing, session, tokens, removal>>

\* change_own_password: the password first, then every other session ends
ChangeOwnPassword(l) ==
    /\ l \in DOMAIN login /\ session[l] # {} /\ login[l].must /\ login[l].pw < MaxPassword
    /\ office[l] = "-"
    /\ login' = [login EXCEPT ![l].pw = @ + 1, ![l].must = FALSE]
    /\ session' = [session EXCEPT ![l] = {login[l].pw + 1}]
    /\ UNCHANGED <<mode, family, schema, signing, tokens, office, removal>>

-----------------------------------------------------------------------------
(* Signing in, and the family built by the first sign-in *)

\* LocalIdentityService.authenticate
Authenticate(l) ==
    /\ l \in DOMAIN login /\ ~ login[l].disabled
    /\ signing[l] = NoSignIn
    /\ signing' = [signing EXCEPT ![l] = [at |-> "family", pw |-> login[l].pw]]
    /\ UNCHANGED <<login, mode, family, schema, session, tokens, office, removal>>

\* TenantService.provision up to the registry rows, under _provision_lock.
\* create_family does the same for a login it has just created.
ProvisionRow(l) ==
    /\ signing[l].at = "family"
    /\ family' = IF l \in DOMAIN family THEN family
                 ELSE With(family, l, [status |-> "provisioning", user |-> FALSE])
    /\ signing' = [signing EXCEPT ![l].at = IF family'[l].status = "provisioning"
                                            THEN "schema" ELSE "enter"]
    /\ UNCHANGED <<login, mode, schema, session, tokens, office, removal>>

\* AlembicSchemaProvisioner.create: idempotent
BuildSchema(l) ==
    /\ signing[l].at = "schema" /\ schema[l] # "head"
    /\ schema' = [schema EXCEPT ![l] = "head"]
    /\ UNCHANGED <<login, mode, family, signing, session, tokens, office, removal>>

\* Mutant of BuildUser: the member is marked before the schema is there.
BuildUser_Early(l) ==
    /\ signing[l].at = "schema" /\ l \in DOMAIN family
    /\ family' = [family EXCEPT ![l] = [status |-> "active", user |-> TRUE]]
    /\ signing' = [signing EXCEPT ![l].at = "enter"]
    /\ UNCHANGED <<login, mode, schema, session, tokens, office, removal>>

\* TenantService._build_schema after it: the user row and the last commit
BuildUser(l) ==
    /\ signing[l].at = "schema" /\ schema[l] = "head" /\ l \in DOMAIN family
    /\ family' = [family EXCEPT ![l] = [status |-> "active", user |-> TRUE]]
    /\ signing' = [signing EXCEPT ![l].at = "enter"]
    /\ UNCHANGED <<login, mode, schema, session, tokens, office, removal>>

\* The rest of membership_for_sign_in, SignInFlow.complete, _member_user_id
Enter(l) ==
    /\ signing[l].at = "enter"
    /\ session' = IF l \in DOMAIN family /\ family[l].status = "active" /\ family[l].user
                  THEN [session EXCEPT ![l] = @ \cup {signing[l].pw}] ELSE session
    /\ signing' = [signing EXCEPT ![l] = NoSignIn]
    /\ UNCHANGED <<login, mode, family, schema, tokens, office, removal>>

\* A build that fails leaves what it committed; the next sign-in resumes it
SignInFails(l) ==
    /\ signing[l].at \in {"schema", "family"}
    /\ signing' = [signing EXCEPT ![l] = NoSignIn]
    /\ UNCHANGED <<login, mode, family, schema, session, tokens, office, removal>>

\* InstanceAdminService._undo_family_of: create_family failed, its login and
\* its family go again
UndoFamily(l) ==
    /\ signing[l].at = "schema" /\ l \in DOMAIN login /\ ~ IsLastAdmin(l)
    /\ login[l].must /\ session[l] = {}
    /\ family' = Without(family, {l})
    /\ schema' = [schema EXCEPT ![l] = "dropped"]
    /\ login' = Without(login, {l})
    /\ signing' = [signing EXCEPT ![l] = NoSignIn]
    /\ UNCHANGED <<mode, session, tokens, office, removal>>

\* ApiTokenService.create_token
MintToken(l) ==
    /\ session[l] # {} /\ l \notin tokens /\ schema[l] \in {"head", "behind"}
    /\ tokens' = tokens \cup {l}
    /\ UNCHANGED <<login, mode, family, schema, signing, session, office, removal>>

\* ApiTokenService.revoke_token, .revoke_all
RevokeToken(l) ==
    /\ l \in tokens
    /\ tokens' = tokens \ {l}
    /\ UNCHANGED <<login, mode, family, schema, signing, session, office, removal>>

-----------------------------------------------------------------------------
(* Families *)

\* TenantService.suspend: whatever the status was
Suspend(l) ==
    /\ l \in DOMAIN family
    /\ family' = [family EXCEPT ![l].status = "suspended"]
    /\ UNCHANGED <<login, mode, schema, signing, session, tokens, office, removal>>

\* TenantService.resume
Resume(l) ==
    /\ l \in DOMAIN family /\ family[l].status = "suspended"
    /\ family' = [family EXCEPT ![l].status = "active"]
    /\ UNCHANGED <<login, mode, schema, signing, session, tokens, office, removal>>

\* AccountDeletionService.delete, by the owner, an administrator or
\* kaleta-admin: first the members' identities, one commit each
DeleteStart(l) ==
    /\ l \in DOMAIN family /\ removal[l].at = "-"
    /\ removal' = [removal EXCEPT ![l] = [at |-> "identities", left |-> {l}]]
    /\ UNCHANGED <<login, mode, family, schema, signing, session, tokens, office>>

\* RegistryAuthProvider.delete_identity: an administrator's login stays
DeleteIdentity(l, k) ==
    /\ removal[l].at = "identities" /\ k \in removal[l].left
    /\ login' = IF k \in DOMAIN login /\ ~ login[k].admin THEN Without(login, {k}) ELSE login
    /\ removal' = [removal EXCEPT ![l].left = @ \ {k}]
    /\ UNCHANGED <<mode, family, schema, signing, session, tokens, office>>

\* TenantService.delete: marked, dropped, removed, a commit each
DeleteMark(l) ==
    /\ removal[l].at = "identities" /\ removal[l].left = {} /\ l \in DOMAIN family
    /\ family' = [family EXCEPT ![l].status = "deleting"]
    /\ removal' = [removal EXCEPT ![l].at = "drop"]
    /\ UNCHANGED <<login, mode, schema, signing, session, tokens, office>>

DropSchema(l) ==
    /\ removal[l].at = "drop"
    /\ schema' = [schema EXCEPT ![l] = "dropped"]
    /\ tokens' = tokens \ {l}
    /\ removal' = [removal EXCEPT ![l].at = "row"]
    /\ UNCHANGED <<login, mode, family, signing, session, office>>

DeleteRow(l) ==
    /\ removal[l].at = "row"
    /\ family' = Without(family, {l})
    /\ removal' = [removal EXCEPT ![l] = NoRemoval]
    /\ UNCHANGED <<login, mode, schema, signing, session, tokens, office>>

\* A process stops anywhere and starts again: what it had in hand is gone, and
\* _migrate_registry_and_tenants brings each schema that is not at head to
\* head, or suspends the family whose migration fails (F).  A release makes
\* every schema one revision old.
Restart(release, F) ==
    LET old == [l \in Logins |-> IF release /\ schema[l] = "head" THEN "behind" ELSE schema[l]]
        pending == {l \in DOMAIN family : family[l].status # "deleting" /\ old[l] # "head"}
    IN  /\ F \subseteq pending
        /\ schema' = [l \in Logins |-> IF l \in pending \ F THEN "head" ELSE old[l]]
        /\ family' = [l \in DOMAIN family |->
                        IF l \in F THEN [family[l] EXCEPT !.status = "suspended"] ELSE family[l]]
        /\ signing' = [l \in Logins |-> NoSignIn]
        /\ office' = [l \in Logins |-> "-"]
        /\ removal' = [l \in Logins |-> NoRemoval]
        /\ UNCHANGED <<login, mode, session, tokens>>

RegistryNext ==
    \/ \E l \in Logins : SignUp(l) \/ DisableRevoke(l) \/ ResetRevoke(l) \/ ResetPassword(l)
                         \/ ChangeOwnPassword(l)
    \/ \E l \in Logins, b \in BOOLEAN : CreateLogin(l, b) \/ SetAdmin(l, b) \/ SetDisabled(l, b)
    \/ \E m \in {"open", "closed"} : SetRegistration(m)
    \/ \E l \in Logins : Authenticate(l) \/ ProvisionRow(l) \/ BuildSchema(l) \/ BuildUser(l)
                         \/ Enter(l) \/ SignInFails(l) \/ UndoFamily(l)
    \/ \E l \in Logins : MintToken(l) \/ RevokeToken(l) \/ Suspend(l) \/ Resume(l)
    \/ \E l \in Logins : DeleteStart(l) \/ DeleteMark(l) \/ DropSchema(l) \/ DeleteRow(l)
    \/ \E l, k \in Logins : DeleteIdentity(l, k)
    \/ \E release \in BOOLEAN, F \in SUBSET Logins : Restart(release, F)

RegistrySpec == RegistryInit /\ [][RegistryNext]_registryVars
-----------------------------------------------------------------------------
(* Properties *)

\* The instance never loses its last working administrator, whatever mixture of
\* demoting, disabling, account deletion and undone families ran
\* (LocalIdentityService.set_admin, set_disabled, delete).
AdminsNeverRunOut == [][Admins(login) # {} => Admins(login') # {}]_registryVars

\* A member has a user row only in a schema that was built: wherever the
\* process stops during a first sign-in, the registry does not promise more
\* than the schema holds (TenantService._build_schema).
UserNeedsSchema == \A l \in DOMAIN family : family[l].user => schema[l] # "none"

\* An active family can be signed in to: its schema is built and its founder
\* has a user row (suspend and resume put back what they found).
ActiveIsBuilt ==
    \A l \in DOMAIN family : family[l].status = "active" => family[l].user /\ schema[l] \in {"head", "behind"}

\* When a login is refused, what it holds ends: no session of a disabled login
\* stays once the administrator's request is done (InstanceAdminService.set_disabled).
DisabledHoldsNothing ==
    \A l \in DOMAIN login : login[l].disabled /\ office[l] = "-" => session[l] = {}

\* A session opened with the old password does not outlive the reset.
ResetEndsOldSessions ==
    \A l \in DOMAIN login : login[l].must /\ office[l] = "-" => session[l] \subseteq {login[l].pw}
=============================================================================
