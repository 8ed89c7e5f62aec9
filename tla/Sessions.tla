--------------------------------- MODULE Sessions ---------------------------------
(***************************************************************************)
(* One member's browsers: signing in through the rotation of the storage   *)
(* id, the page guard with its cached revocation watermark, expiry, and    *)
(* signing out (auth/session.py, auth/revocation_cache.py,                 *)
(* auth/middleware.py, auth/routes.py).                                    *)
(*                                                                         *)
(* `store` is NiceGUI's user storage: what the server keeps under the id   *)
(* in a browser's cookie.  A request runs until it awaits the database;    *)
(* between two steps of one, the others run.  Times are ticks of one       *)
(* clock; two events of one tick have the same stamp.                      *)
(***************************************************************************)
EXTENDS Integers, FiniteSets, FiniteSetsExt, Tables

CONSTANTS
    Browsers,
    MaxId,          \* bound: storage ids ever made
    MaxNow,         \* bound: the clock
    CacheTtl,       \* revocation_cache.TTL_SECONDS
    NonceTtl,       \* ROTATE_NONCE_TTL_SECONDS
    SessionTtl,     \* session_ttl_hours
    IdleTtl,        \* session_idle_hours
    TouchInterval   \* IDLE_TOUCH_INTERVAL_SECONDS

ASSUME SessionAssumption ==
    /\ MaxId \in Nat /\ MaxNow \in Nat
    /\ CacheTtl \in Nat \ {0}
    /\ {NonceTtl, SessionTtl, IdleTtl, TouchInterval} \subseteq Nat

VARIABLES
    now,
    store,      \* storage id -> what the server keeps for it
    cookie,     \* browser -> the storage id its cookie names
    valid,      \* users.sessions_valid_from
    cache,      \* RevocationCache._entries of this member
    guard,      \* browser -> a page or API request waiting for the watermark
    rotation,   \* browser -> a rotation waiting for its new storage
    keeper,     \* browser -> a credential change that has committed its bump
    unlocked,   \* storage ids the key ring holds the data key for
    opening     \* browser -> the storage id an unlock in flight was asked for

sessionVars == <<now, store, cookie, valid, cache, guard, rotation, keeper, unlocked, opening>>

Null == -1
Time == 0 .. MaxNow
Stamp == Time \cup {Null}
StorageIds == 1 .. MaxId

NoPark == [purpose |-> "-", at |-> Null]
Anonymous == [auth |-> FALSE, login |-> Null, seen |-> Null, reval |-> Null, park |-> NoPark]
NoEntry == [from |-> Null, at |-> Null, there |-> FALSE]
NoGuard == [id |-> 0, kind |-> "-", at |-> Null, issued |-> Null, got |-> Null, read |-> FALSE]
NoRotation == "-"

SessionTypeOK ==
    /\ now \in Time
    /\ DOMAIN store \subseteq StorageIds
    /\ \A i \in DOMAIN store :
         store[i] \in [auth : BOOLEAN, login : Stamp, seen : Stamp, reval : Stamp,
                       park : [purpose : {"-", "login", "logout"}, at : Stamp]]
    /\ cookie \in [Browsers -> DOMAIN store]
    /\ valid \in Stamp
    /\ cache \in [from : Stamp, at : Stamp, there : BOOLEAN]
    /\ guard \in [Browsers -> [id : StorageIds \cup {0}, kind : {"-", "page", "api"}, at : Stamp,
                               issued : Stamp, got : Stamp, read : BOOLEAN]]
    /\ rotation \in [Browsers -> {"-", "login", "logout"}]
    /\ keeper \in [Browsers -> {"-", "keep", "everywhere"}]
    /\ unlocked \subseteq DOMAIN store
    /\ opening \in [Browsers -> DOMAIN store \cup {0}]

\* Every browser has been here before, nobody is signed in.
SessionInit ==
    /\ now = 0
    /\ \E first \in {f \in [Browsers -> 1 .. Cardinality(Browsers)] :
                       \A a, b \in Browsers : f[a] = f[b] => a = b} :
         /\ cookie = first
         /\ store = [i \in {first[b] : b \in Browsers} |-> Anonymous]
    /\ valid = Null
    /\ cache = NoEntry
    /\ guard = [b \in Browsers |-> NoGuard]
    /\ rotation = [b \in Browsers |-> NoRotation]
    /\ keeper = [b \in Browsers |-> "-"]
    /\ unlocked = {}
    /\ opening = [b \in Browsers |-> 0]

-----------------------------------------------------------------------------
(* Signing in and out: a nonce is parked in the storage, and the redirect   *)
(* to the rotation route moves the browser to a new storage id.             *)

\* park_login, stamp_rotation_nonce: the credentials were checked just before
ParkLogin(b) ==
    /\ ~ store[cookie[b]].auth
    /\ store' = [store EXCEPT ![cookie[b]].park = [purpose |-> "login", at |-> now]]
    /\ UNCHANGED <<now, cookie, valid, cache, guard, rotation, keeper, unlocked, opening>>

\* logout_session: every authentication key goes and the data key is dropped
SignedOut(s) == [s EXCEPT !.auth = FALSE, !.login = Null, !.seen = Null, !.reval = Null]

\* finish_logout
Logout(b) ==
    /\ store[cookie[b]].auth
    /\ store' = [store EXCEPT ![cookie[b]] =
                   [SignedOut(@) EXCEPT !.park = [purpose |-> "logout", at |-> now]]]
    /\ unlocked' = unlocked \ {cookie[b]}
    /\ UNCHANGED <<now, cookie, valid, cache, guard, rotation, keeper, opening>>

\* consume_rotation_nonce: the parked keys go whether or not they are accepted
Consumed(s) == [s EXCEPT !.park = NoPark]
Accepted(park, purpose) == park.purpose = purpose /\ now - park.at <= NonceTtl

\* rotate_session up to the new storage: the old id keeps nothing
RotateStart(b, purpose) ==
    LET id == cookie[b] IN
    /\ rotation[b] = NoRotation
    /\ store[id].park # NoPark
    /\ IF Accepted(store[id].park, purpose)
       THEN /\ store' = [store EXCEPT ![id] = Anonymous]
            /\ unlocked' = unlocked \ {id}
            /\ rotation' = [rotation EXCEPT ![b] = purpose]
       ELSE /\ store' = [store EXCEPT ![id] = Consumed(@)]
            /\ UNCHANGED <<unlocked, rotation>>
    /\ UNCHANGED <<now, cookie, valid, cache, guard, keeper, opening>>

\* login_session
SignedIn == [Anonymous EXCEPT !.auth = TRUE, !.login = now, !.seen = now]

\* Mutant of RotateFinish: the sign-in stays under the id the browser came with.
RotateFinish_SameId(b, ok) ==
    /\ rotation[b] # NoRotation
    /\ store' = [store EXCEPT ![cookie[b]] = IF rotation[b] = "login" /\ ok THEN SignedIn ELSE @]
    /\ rotation' = [rotation EXCEPT ![b] = NoRotation]
    /\ UNCHANGED <<now, cookie, valid, cache, guard, keeper, unlocked, opening>>

\* rotate_session after the new storage is there; stamp_login_flags may fail
\* (ok), and then the browser is signed out again before it hears of its id.
RotateFinish(b, ok) ==
    /\ rotation[b] # NoRotation
    /\ \E id \in StorageIds \ DOMAIN store :
         /\ id = Cardinality(DOMAIN store) + 1
         /\ store' = With(store, id, IF rotation[b] = "login" /\ ok THEN SignedIn ELSE Anonymous)
         /\ cookie' = IF ok THEN [cookie EXCEPT ![b] = id] ELSE cookie
    /\ rotation' = [rotation EXCEPT ![b] = NoRotation]
    /\ UNCHANGED <<now, valid, cache, guard, keeper, unlocked, opening>>

-----------------------------------------------------------------------------
(* The guard *)

\* session_issued_at
Issued(s) == Max({s.login, s.reval})

\* session_expiry_reason
Expired(s) == now - s.login > SessionTtl \/ now - s.seen > IdleTtl

\* touch_session
Touched(s) == IF now - s.seen <= TouchInterval THEN s ELSE [s EXCEPT !.seen = now]

\* session_revoked
Revoked(issued, from) == from # Null /\ issued < from

\* RevocationCache.valid_from: a young entry answers
Fresh(at) == cache.there /\ at - cache.at < CacheTtl

\* The end of AuthMiddleware.dispatch and of authenticated_user_id: a revoked
\* page request signs the storage out, a revoked API request is only refused.
Answer(id, kind, issued, from) ==
    IF ~ Revoked(issued, from)
    THEN /\ store' = [store EXCEPT ![id] = IF @.auth THEN Touched(@) ELSE @]
         /\ unlocked' = unlocked
    ELSE IF kind = "page"
    THEN /\ store' = [store EXCEPT ![id] = SignedOut(@)]
         /\ unlocked' = unlocked \ {id}
    ELSE UNCHANGED <<store, unlocked>>

\* dispatch, authenticated_user_id up to the watermark
GuardStart(b, kind) ==
    LET id == cookie[b]
        s == store[id]
    IN  /\ guard[b] = NoGuard
        /\ s.auth
        /\ CASE Expired(s) ->
                  /\ store' = [store EXCEPT ![id] = SignedOut(@)]
                  /\ unlocked' = unlocked \ {id}
                  /\ UNCHANGED guard
             [] ~ Expired(s) /\ Fresh(now) ->
                  Answer(id, kind, Issued(s), cache.from) /\ UNCHANGED guard
             [] OTHER ->
                  /\ guard' = [guard EXCEPT ![b] =
                        [id |-> id, kind |-> kind, at |-> now, issued |-> Issued(s),
                         got |-> Null, read |-> FALSE]]
                  /\ UNCHANGED <<store, unlocked>>
        /\ UNCHANGED <<now, cookie, valid, cache, rotation, keeper, opening>>

\* RevocationCache._load
LoadWatermark(b) ==
    /\ guard[b] # NoGuard /\ ~ guard[b].read
    /\ guard' = [guard EXCEPT ![b].got = valid, ![b].read = TRUE]
    /\ UNCHANGED <<now, store, cookie, valid, cache, rotation, keeper, unlocked, opening>>

\* RevocationCache.valid_from after the load, and the rest of the request
\* Mutant of StoredEntry: stamped when the load ends.
StoredEntry_AtEnd(g) == [from |-> g.got, at |-> now, there |-> TRUE]
StoredEntry(g) == [from |-> g.got, at |-> g.at, there |-> TRUE]
GuardFinish(b) ==
    /\ guard[b].read
    /\ cache' = StoredEntry(guard[b])
    /\ Answer(guard[b].id, guard[b].kind, guard[b].issued, guard[b].got)
    /\ guard' = [guard EXCEPT ![b] = NoGuard]
    /\ UNCHANGED <<now, cookie, valid, rotation, keeper, opening>>

-----------------------------------------------------------------------------
(* Revoking *)

\* AuthService.revoke_sessions in this process, by a credential change or by
\* "sign out everywhere"
RevokeCommit(b, why) ==
    /\ store[cookie[b]].auth
    /\ keeper[b] = "-"
    /\ valid' = now
    /\ keeper' = [keeper EXCEPT ![b] = why]
    /\ UNCHANGED <<now, store, cookie, cache, guard, rotation, unlocked, opening>>

\* keep_session_after_revocation: the session that made the change stays
Keep(b) ==
    /\ keeper[b] = "keep"
    /\ cache' = NoEntry
    /\ store' = [store EXCEPT ![cookie[b]].reval = now]
    /\ keeper' = [keeper EXCEPT ![b] = "-"]
    /\ UNCHANGED <<now, cookie, valid, guard, rotation, unlocked, opening>>

\* _sign_out_everywhere after its commit: lock_member_everywhere, finish_logout
SignOutEverywhere(b) ==
    /\ keeper[b] = "everywhere"
    /\ cache' = NoEntry
    /\ unlocked' = IF store[cookie[b]].auth THEN {} ELSE unlocked \ {cookie[b]}
    /\ store' = [store EXCEPT ![cookie[b]] =
                   [SignedOut(@) EXCEPT !.park = [purpose |-> "logout", at |-> now]]]
    /\ keeper' = [keeper EXCEPT ![b] = "-"]
    /\ UNCHANGED <<now, cookie, valid, guard, rotation, opening>>

\* set_login_disabled, forget_revoked_member: an administrator of this process
\* revokes and forgets; `kaleta` in a shell, or another replica, only revokes.
RevokeByOthers(here) ==
    /\ valid' = now
    /\ cache' = IF here THEN NoEntry ELSE cache
    /\ unlocked' = IF here THEN {} ELSE unlocked
    /\ UNCHANGED <<now, store, cookie, guard, rotation, keeper, opening>>

-----------------------------------------------------------------------------
(* The data key of this browser (module Household has the key's own story) *)

\* _unlock, with_key_service: the storage id and the sign-in are read first
BeginUnlock(b) ==
    /\ opening[b] = 0
    /\ store[cookie[b]].auth
    /\ opening' = [opening EXCEPT ![b] = cookie[b]]
    /\ UNCHANGED <<now, store, cookie, valid, cache, guard, rotation, keeper, unlocked>>

\* KeyService.unlock: once the passphrase has been stretched, and if it is the
\* right one, the key goes into the ring under the id that was read before
PutKey(b, right) ==
    /\ opening[b] # 0
    /\ unlocked' = IF right THEN unlocked \cup {opening[b]} ELSE unlocked
    /\ opening' = [opening EXCEPT ![b] = 0]
    /\ UNCHANGED <<now, store, cookie, valid, cache, guard, rotation, keeper>>

Tick ==
    /\ now < MaxNow
    /\ now' = now + 1
    /\ UNCHANGED <<store, cookie, valid, cache, guard, rotation, keeper, unlocked, opening>>

SessionNext ==
    \/ \E b \in Browsers : ParkLogin(b) \/ Logout(b) \/ BeginUnlock(b)
    \/ \E b \in Browsers, right \in BOOLEAN : PutKey(b, right)
    \/ \E b \in Browsers, p \in {"login", "logout"} : RotateStart(b, p)
    \/ \E b \in Browsers, ok \in BOOLEAN : RotateFinish(b, ok)
    \/ \E b \in Browsers, k \in {"page", "api"} : GuardStart(b, k)
    \/ \E b \in Browsers : LoadWatermark(b) \/ GuardFinish(b)
    \/ \E b \in Browsers, w \in {"keep", "everywhere"} : RevokeCommit(b, w)
    \/ \E b \in Browsers : Keep(b) \/ SignOutEverywhere(b)
    \/ \E here \in BOOLEAN : RevokeByOthers(here)
    \/ Tick

SessionSpec == SessionInit /\ [][SessionNext]_sessionVars

-----------------------------------------------------------------------------
(* Properties *)

\* A page or API request that is let in although the session was issued before
\* the watermark began less than CacheTtl after the revocation: whatever a load
\* in flight stores, the cache is wrong for one time-to-live and no longer
\* (RevocationCache.valid_from stamps an entry with the time its load began).
RevocationSeenInTime ==
    [][\A b \in Browsers :
         /\ (GuardStart(b, "page") /\ ~ Expired(store[cookie[b]]) /\ Fresh(now)
             /\ ~ Revoked(Issued(store[cookie[b]]), cache.from)
             /\ Issued(store[cookie[b]]) < valid) => now - valid < CacheTtl
         /\ (GuardFinish(b) /\ ~ Revoked(guard[b].issued, guard[b].got)
             /\ guard[b].issued < valid) => guard[b].at - valid < CacheTtl]_sessionVars

\* A storage id that a browser brought to the sign-in never becomes a signed-in
\* one: only an id made by a rotation is (rotate_session_id), and no two
\* browsers share it.
SignedInIdsAreNew ==
    \A i \in DOMAIN store : store[i].auth =>
        i > Cardinality(Browsers) /\ Cardinality({b \in Browsers : cookie[b] = i}) <= 1

\* "A signed-out browser that signs in again (as anyone) unlocks again": when a
\* storage becomes a signed-in one the ring holds no key for it and no unlock
\* in flight will put one there, although a key asked for before a logout may
\* land after it (logout_session, rotate_session_id, KeyService.unlock).
SignInStartsLocked ==
    [][\A i \in DOMAIN store' :
         store'[i].auth /\ (i \in DOMAIN store => ~ store[i].auth)
            => i \notin unlocked' /\ \A b \in Browsers : opening'[b] # i]_sessionVars

\* A bump made in this process is seen at once (the module's own promise): once
\* the caller has forgotten the entry, no older watermark is cached.
SeenAtOnce ==
    [][\A b \in Browsers : GuardFinish(b) => guard[b].got = valid]_sessionVars

\* The session that made the change stays in: no guard signs it out after it
\* stamped itself (keep_session_after_revocation).
KeptSessionStays ==
    [][\A b \in Browsers : GuardFinish(b) /\ store[guard[b].id].auth
                           /\ Issued(store[guard[b].id]) >= valid
                           => store'[guard[b].id].auth]_sessionVars
=============================================================================
