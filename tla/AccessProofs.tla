------------------------------- MODULE AccessProofs -------------------------------
(***************************************************************************)
(* Proofs about the components that let a member in, each for every value  *)
(* of its constants: Sessions, Registry, HostedFactor, RateLimit and       *)
(* Invitations.                                                            *)
(***************************************************************************)
EXTENDS Sessions, RateLimit, Registry, HostedFactor, Invitations, FiniteSetTheorems, TLAPS

-----------------------------------------------------------------------------
(***************************************************************************)
(* Proofs about Sessions, for any number of browsers and any clock: a      *)
(* storage that becomes signed in has no data key in the ring and no       *)
(* unlock in flight, however the sessions before it ended.                 *)
(***************************************************************************)
\* What the server keeps for one browser.
Slot == [auth : BOOLEAN, login : Nat \cup {Null}, seen : Int, reval : Nat \cup {Null},
         park : [purpose : {"-", "login", "logout"}, at : Int]]

SlotsShaped ==
  /\ now \in Nat
  /\ \A i \in DOMAIN store : store[i] \in Slot
  /\ cookie \in [Browsers -> DOMAIN store]

\* A key, and an unlock in flight, belong to a storage that is there.
KeysNameStores ==
  /\ unlocked \subseteq DOMAIN store
  /\ DOMAIN opening = Browsers
  /\ \A b \in Browsers : opening[b] \in DOMAIN store \cup {0}
KeysSound == SlotsShaped /\ KeysNameStores

\* A step after which nobody is signed in who was not before.
NoneSignsIn ==
  DOMAIN store' = DOMAIN store /\ \A i \in DOMAIN store : store'[i].auth => store[i].auth

\* Whoever signs in by this step does so in a storage without a key.
SignedInLocked ==
  \A i \in DOMAIN store' :
    store'[i].auth /\ (i \in DOMAIN store => ~ store[i].auth)
       => i \notin unlocked' /\ \A b \in Browsers : opening'[b] # i

LEMMA NoneSignedInLocked == NoneSignsIn => SignedInLocked
BY DEF NoneSignsIn, SignedInLocked

LEMMA SessionStart == SessionInit => KeysSound
BY DEF SessionInit, KeysSound, SlotsShaped, KeysNameStores, Anonymous, NoPark, Null, Slot

LEMMA AnonymousSlot == Anonymous \in Slot /\ ~ Anonymous.auth
BY DEF Anonymous, NoPark, Null, Slot

\* A storage is written, its sign-in at most ended.
LEMMA SlotWritten ==
  ASSUME KeysSound, NEW id \in DOMAIN store, NEW s \in Slot, s.auth => store[id].auth,
         store' = [store EXCEPT ![id] = s], unlocked' \subseteq unlocked,
         UNCHANGED <<now, cookie, opening>>
  PROVE  KeysSound' /\ NoneSignsIn
<1>1. DOMAIN store' = DOMAIN store /\ store'[id] = s /\ \A i \in DOMAIN store : i # id => store'[i] = store[i]
  OBVIOUS
<1> QED BY <1>1 DEF KeysSound, SlotsShaped, KeysNameStores, NoneSignsIn

\* Nothing but keys going changes nothing.
LEMMA KeysOnlyGo ==
  ASSUME KeysSound, unlocked' \subseteq unlocked, UNCHANGED <<store, cookie, opening>>, now' \in Nat
  PROVE  KeysSound' /\ NoneSignsIn
BY DEF KeysSound, SlotsShaped, KeysNameStores, NoneSignsIn

LEMMA SignedOutSlot ==
  ASSUME NEW s \in Slot, NEW p \in [purpose : {"-", "login", "logout"}, at : Int]
  PROVE  /\ SignedOut(s) \in Slot /\ ~ SignedOut(s).auth
         /\ [SignedOut(s) EXCEPT !.park = p] \in Slot /\ ~ [SignedOut(s) EXCEPT !.park = p].auth
<1>1. Null \in Int /\ Null \in Nat \cup {Null}
  BY DEF Null
<1>2. ASSUME NEW r \in Slot
      PROVE  /\ [r EXCEPT !.auth = FALSE] \in Slot /\ [r EXCEPT !.login = Null] \in Slot
             /\ [r EXCEPT !.seen = Null] \in Slot /\ [r EXCEPT !.reval = Null] \in Slot
             /\ [r EXCEPT !.park = p] \in Slot
  BY <1>1 DEF Slot
<1>3. SignedOut(s) = [[[[s EXCEPT !.auth = FALSE] EXCEPT !.login = Null] EXCEPT !.seen = Null]
                      EXCEPT !.reval = Null]
  BY DEF SignedOut
<1>4. SignedOut(s) \in Slot
  BY <1>2, <1>3
<1>5. ~ SignedOut(s).auth
  BY DEF SignedOut, Slot
<1>6. [SignedOut(s) EXCEPT !.park = p].auth = SignedOut(s).auth
  BY <1>4 DEF Slot
<1> QED BY <1>2, <1>4, <1>5, <1>6

LEMMA TouchedSlot ==
  ASSUME NEW s \in Slot, now \in Nat
  PROVE  Touched(s) \in Slot /\ Touched(s).auth = s.auth
BY DEF Touched, Slot

LEMMA AnswerKeeps ==
  ASSUME KeysSound, NEW id \in DOMAIN store, NEW kind, NEW issued, NEW from,
         Answer(id, kind, issued, from), UNCHANGED <<now, cookie, opening>>
  PROVE  KeysSound' /\ NoneSignsIn
<1> DEFINE kept == IF store[id].auth THEN Touched(store[id]) ELSE store[id]
<1>1. store[id] \in Slot /\ now \in Nat
  BY DEF KeysSound, SlotsShaped
<1>2. CASE ~ Revoked(issued, from)
  <2>1. kept \in Slot /\ kept.auth = store[id].auth
    BY <1>1, TouchedSlot
  <2>2. store' = [store EXCEPT ![id] = kept] /\ unlocked' = unlocked
    BY <1>2 DEF Answer
  <2> HIDE DEF kept
  <2> QED BY <2>1, <2>2, SlotWritten
<1>3. CASE Revoked(issued, from) /\ kind = "page"
  <2>1. SignedOut(store[id]) \in Slot /\ ~ SignedOut(store[id]).auth
    BY <1>1, SignedOutSlot DEF Slot
  <2>2. store' = [store EXCEPT ![id] = SignedOut(store[id])] /\ unlocked' \subseteq unlocked
    BY <1>3 DEF Answer
  <2> QED BY <2>1, <2>2, SlotWritten
<1>4. CASE Revoked(issued, from) /\ kind # "page"
  BY <1>1, <1>4, KeysOnlyGo DEF Answer
<1> QED BY <1>2, <1>3, <1>4

LEMMA GuardKeeps ==
  ASSUME KeysSound, NEW b \in Browsers, NEW kind \in {"page", "api"}, GuardStart(b, kind)
  PROVE  KeysSound' /\ NoneSignsIn
<1> DEFINE id == cookie[b]
<1>1. id \in DOMAIN store /\ store[id] \in Slot /\ now \in Nat
  BY DEF KeysSound, SlotsShaped
<1>2. CASE Expired(store[id])
  <2>1. SignedOut(store[id]) \in Slot /\ ~ SignedOut(store[id]).auth
    BY <1>1, SignedOutSlot DEF Slot
  <2>2. store' = [store EXCEPT ![id] = SignedOut(store[id])] /\ unlocked' \subseteq unlocked
        /\ UNCHANGED <<now, cookie, opening>>
    BY <1>2 DEF GuardStart
  <2> HIDE DEF id
  <2> QED BY <1>1, <2>1, <2>2, SlotWritten
<1>3. CASE ~ Expired(store[id]) /\ Fresh(now)
  <2>1. Answer(id, kind, Issued(store[id]), cache.from) /\ UNCHANGED <<now, cookie, opening>>
    BY <1>3 DEF GuardStart
  <2> HIDE DEF id
  <2> QED BY <1>1, <2>1, AnswerKeeps
<1>4. CASE ~ Expired(store[id]) /\ ~ Fresh(now)
  BY <1>1, <1>4, KeysOnlyGo DEF GuardStart
<1> QED BY <1>2, <1>3, <1>4

\* A waiting request names a storage that is there: none ever goes.
GuardsNameStores ==
  /\ DOMAIN guard = Browsers
  /\ \A b \in Browsers :
       /\ "id" \in DOMAIN guard[b]
       /\ guard[b] = NoGuard \/ guard[b].id \in DOMAIN store
KeyInv == KeysSound /\ GuardsNameStores

\* The storages stay when one of them is written.
LEMMA GuardsStay ==
  ASSUME GuardsNameStores, guard' = guard, DOMAIN store \subseteq DOMAIN store'
  PROVE  GuardsNameStores'
BY DEF GuardsNameStores

LEMMA WritesKeepStorages ==
  ASSUME NEW b \in Browsers, NEW p, NEW ok \in BOOLEAN, NEW kind, NEW here, NEW why,
         \/ ParkLogin(b) \/ Logout(b) \/ BeginUnlock(b) \/ PutKey(b, ok) \/ RotateStart(b, p) \/ RotateFinish(b, ok)
         \/ RevokeCommit(b, why) \/ Keep(b) \/ SignOutEverywhere(b) \/ RevokeByOthers(here) \/ Tick
  PROVE  guard' = guard /\ DOMAIN store \subseteq DOMAIN store'
<1>1. CASE RotateFinish(b, ok)
  BY <1>1 DEF RotateFinish, With
<1>2. CASE RotateStart(b, p)
  BY <1>2 DEF RotateStart
<1>3. CASE ParkLogin(b) \/ Logout(b) \/ BeginUnlock(b) \/ PutKey(b, ok) \/ Tick
  BY <1>3 DEF ParkLogin, Logout, BeginUnlock, PutKey, Tick
<1>4. CASE RevokeCommit(b, why) \/ Keep(b) \/ SignOutEverywhere(b) \/ RevokeByOthers(here)
  BY <1>4 DEF RevokeCommit, Keep, SignOutEverywhere, RevokeByOthers
<1> QED BY <1>1, <1>2, <1>3, <1>4

LEMMA AnswerStorages ==
  ASSUME NEW id, NEW kind, NEW issued, NEW from, Answer(id, kind, issued, from)
  PROVE  DOMAIN store' = DOMAIN store
BY DEF Answer

\* Parking a sign-in, or signing out, in the storage of one's own cookie.
LEMMA ParkKeeps ==
  ASSUME KeysSound, NEW b \in Browsers, ParkLogin(b) \/ Logout(b)
  PROVE  KeysSound' /\ NoneSignsIn
<1> DEFINE id == cookie[b]
           p(why) == [purpose |-> why, at |-> now]
<1>1. id \in DOMAIN store /\ store[id] \in Slot /\ now \in Nat
  BY DEF KeysSound, SlotsShaped
<1>2. p("login") \in [purpose : {"-", "login", "logout"}, at : Int]
      /\ p("logout") \in [purpose : {"-", "login", "logout"}, at : Int]
  BY <1>1
<1>3. CASE ParkLogin(b)
  <2> DEFINE s == [store[id] EXCEPT !.park = p("login")]
  <2>1. s \in Slot /\ s.auth = store[id].auth
    BY <1>1, <1>2 DEF Slot
  <2>2. store' = [store EXCEPT ![id] = s] /\ UNCHANGED <<now, cookie, opening, unlocked>>
    BY <1>3 DEF ParkLogin
  <2> HIDE DEF s, id
  <2> QED BY <1>1, <2>1, <2>2, SlotWritten
<1>4. CASE Logout(b)
  <2> DEFINE s == [SignedOut(store[id]) EXCEPT !.park = p("logout")]
  <2>1. s \in Slot /\ ~ s.auth
    BY <1>1, <1>2, SignedOutSlot
  <2>2. store' = [store EXCEPT ![id] = s] /\ unlocked' \subseteq unlocked /\ UNCHANGED <<now, cookie, opening>>
    BY <1>4 DEF Logout
  <2> HIDE DEF s, id
  <2> QED BY <1>1, <2>1, <2>2, SlotWritten
<1> QED BY <1>3, <1>4

\* An unlock is asked for by the storage of the cookie, which is there when the key comes.
LEMMA UnlockKeeps ==
  ASSUME KeysSound, NEW b \in Browsers, NEW right \in BOOLEAN, BeginUnlock(b) \/ PutKey(b, right)
  PROVE  KeysSound' /\ NoneSignsIn
<1>1. cookie[b] \in DOMAIN store
  BY DEF KeysSound, SlotsShaped
<1>2. SlotsShaped' /\ NoneSignsIn
  BY DEF KeysSound, SlotsShaped, NoneSignsIn, BeginUnlock, PutKey
<1>3. CASE BeginUnlock(b)
  BY <1>1, <1>2, <1>3 DEF BeginUnlock, KeysSound, KeysNameStores
<1>4. CASE PutKey(b, right)
  BY <1>2, <1>4 DEF PutKey, KeysSound, KeysNameStores
<1> QED BY <1>3, <1>4

\* The old storage of a rotation keeps nothing.
LEMMA RotationStarts ==
  ASSUME KeysSound, NEW b \in Browsers, NEW p \in {"login", "logout"}, RotateStart(b, p)
  PROVE  KeysSound' /\ NoneSignsIn
<1> DEFINE id == cookie[b]
<1>1. id \in DOMAIN store /\ store[id] \in Slot /\ now \in Nat
  BY DEF KeysSound, SlotsShaped
<1>2. CASE Accepted(store[id].park, p)
  <2>1. store' = [store EXCEPT ![id] = Anonymous] /\ unlocked' \subseteq unlocked /\ UNCHANGED <<now, cookie, opening>>
    BY <1>2 DEF RotateStart
  <2> HIDE DEF id
  <2> QED BY <1>1, <2>1, SlotWritten, AnonymousSlot
<1>3. CASE ~ Accepted(store[id].park, p)
  <2> DEFINE s == Consumed(store[id])
  <2>1. s \in Slot /\ s.auth = store[id].auth
    BY <1>1 DEF Consumed, NoPark, Null, Slot
  <2>2. store' = [store EXCEPT ![id] = s] /\ UNCHANGED <<now, cookie, opening, unlocked>>
    BY <1>3 DEF RotateStart
  <2> HIDE DEF s, id
  <2> QED BY <1>1, <2>1, <2>2, SlotWritten
<1> QED BY <1>2, <1>3

\* The new one has an id of its own: no key, and no unlock in flight, can be its.
LEMMA RotationFinishes ==
  ASSUME KeysSound, NEW b \in Browsers, NEW ok \in BOOLEAN, RotateFinish(b, ok)
  PROVE  KeysSound' /\ SignedInLocked
<1>0. now \in Nat
  BY DEF KeysSound, SlotsShaped
<1>1. PICK new \in StorageIds \ DOMAIN store :
         /\ store' = With(store, new, IF rotation[b] = "login" /\ ok THEN SignedIn ELSE Anonymous)
         /\ cookie' = IF ok THEN [cookie EXCEPT ![b] = new] ELSE cookie
  BY DEF RotateFinish
<1>2. SignedIn \in Slot
  <2>1. ASSUME NEW r \in Slot
        PROVE  /\ [r EXCEPT !.auth = TRUE] \in Slot /\ [r EXCEPT !.login = now] \in Slot
               /\ [r EXCEPT !.seen = now] \in Slot
    <3>1. now \in Int /\ now \in Nat \cup {Null}
      BY <1>0
    <3> QED BY <3>1 DEF Slot
  <2>2. SignedIn = [[[Anonymous EXCEPT !.auth = TRUE] EXCEPT !.login = now] EXCEPT !.seen = now]
    BY DEF SignedIn
  <2> QED BY <2>1, <2>2, AnonymousSlot
<1>3. /\ DOMAIN store' = DOMAIN store \cup {new}
      /\ store'[new] \in Slot
      /\ \A i \in DOMAIN store : store'[i] = store[i]
  BY <1>1, <1>2, AnonymousSlot DEF With
<1>4. cookie' \in [Browsers -> DOMAIN store']
  BY <1>1, <1>3 DEF KeysSound, SlotsShaped
<1>5. UNCHANGED <<now, unlocked, opening>>
  BY DEF RotateFinish
<1>6. KeysSound'
  BY <1>3, <1>4, <1>5 DEF KeysSound, SlotsShaped, KeysNameStores
<1>7. new \notin unlocked' /\ new # 0 /\ \A c \in Browsers : opening'[c] # new
  BY <1>1, <1>5, SessionAssumption DEF KeysSound, KeysNameStores, StorageIds
<1>8. SignedInLocked
  BY <1>3, <1>7 DEF SignedInLocked
<1> QED BY <1>6, <1>8

LEMMA RevocationKeeps ==
  ASSUME KeysSound, NEW b \in Browsers, NEW why, NEW here \in BOOLEAN,
         RevokeCommit(b, why) \/ Keep(b) \/ SignOutEverywhere(b) \/ RevokeByOthers(here)
  PROVE  KeysSound' /\ NoneSignsIn
<1> DEFINE id == cookie[b]
           p == [purpose |-> "logout", at |-> now]
<1>1. id \in DOMAIN store /\ store[id] \in Slot /\ now \in Nat
  BY DEF KeysSound, SlotsShaped
<1>2. CASE RevokeCommit(b, why) \/ RevokeByOthers(here)
  BY <1>1, <1>2, KeysOnlyGo DEF RevokeCommit, RevokeByOthers
<1>3. CASE Keep(b)
  <2> DEFINE s == [store[id] EXCEPT !.reval = now]
  <2>1. s \in Slot /\ s.auth = store[id].auth
    BY <1>1 DEF Slot
  <2>2. store' = [store EXCEPT ![id] = s] /\ UNCHANGED <<now, cookie, opening, unlocked>>
    BY <1>3 DEF Keep
  <2> HIDE DEF s, id
  <2> QED BY <1>1, <2>1, <2>2, SlotWritten
<1>4. CASE SignOutEverywhere(b)
  <2> DEFINE s == [SignedOut(store[id]) EXCEPT !.park = p]
  <2>1. p \in [purpose : {"-", "login", "logout"}, at : Int]
    BY <1>1
  <2>2. s \in Slot /\ ~ s.auth
    BY <1>1, <2>1, SignedOutSlot
  <2>3. store' = [store EXCEPT ![id] = s] /\ unlocked' \subseteq unlocked /\ UNCHANGED <<now, cookie, opening>>
    BY <1>4 DEF SignOutEverywhere
  <2> HIDE DEF s, id
  <2> QED BY <1>1, <2>2, <2>3, SlotWritten
<1> QED BY <1>2, <1>3, <1>4

\* A request that was waiting answers for the storage it came with.
LEMMA FinishKeeps ==
  ASSUME KeyInv, NEW b \in Browsers, LoadWatermark(b) \/ GuardFinish(b)
  PROVE  KeyInv' /\ NoneSignsIn
<1>1. CASE LoadWatermark(b)
  <2>1. KeysSound' /\ NoneSignsIn
    BY <1>1 DEF LoadWatermark, KeyInv, KeysSound, SlotsShaped, KeysNameStores, NoneSignsIn
  <2>2. GuardsNameStores'
    BY <1>1 DEF LoadWatermark, KeyInv, GuardsNameStores
  <2> QED BY <2>1, <2>2 DEF KeyInv
<1>2. CASE GuardFinish(b)
  <2>1. guard[b].id \in DOMAIN store
    BY <1>2 DEF GuardFinish, KeyInv, GuardsNameStores, NoGuard
  <2>2. KeysSound' /\ NoneSignsIn
    BY <1>2, <2>1, AnswerKeeps DEF GuardFinish, KeyInv
  <2>3. DOMAIN store' = DOMAIN store
    BY <1>2, AnswerStorages DEF GuardFinish
  <2>4. GuardsNameStores'
    BY <1>2, <2>3 DEF GuardFinish, KeyInv, GuardsNameStores, NoGuard
  <2> QED BY <2>2, <2>4 DEF KeyInv
<1> QED BY <1>1, <1>2

LEMMA StartGuards ==
  ASSUME KeyInv, NEW b \in Browsers, NEW kind \in {"page", "api"}, GuardStart(b, kind)
  PROVE  GuardsNameStores'
<1>1. cookie[b] \in DOMAIN store
  BY DEF KeyInv, KeysSound, SlotsShaped
<1>2. DOMAIN store' = DOMAIN store
  BY AnswerStorages DEF GuardStart
<1> QED BY <1>1, <1>2 DEF GuardStart, KeyInv, GuardsNameStores

LEMMA SessionStepKeeps == KeyInv /\ [SessionNext]_sessionVars => KeyInv' /\ SignedInLocked
<1> SUFFICES ASSUME KeyInv, [SessionNext]_sessionVars PROVE KeyInv' /\ SignedInLocked
  OBVIOUS
<1>1. ASSUME NEW b \in Browsers, ParkLogin(b) \/ Logout(b) PROVE KeyInv' /\ SignedInLocked
  BY <1>1, ParkKeeps, WritesKeepStorages, GuardsStay, NoneSignedInLocked DEF KeyInv
<1>0. ASSUME NEW b \in Browsers, NEW right \in BOOLEAN, BeginUnlock(b) \/ PutKey(b, right)
      PROVE  KeyInv' /\ SignedInLocked
  BY <1>0, UnlockKeeps, WritesKeepStorages, GuardsStay, NoneSignedInLocked DEF KeyInv
<1>2. ASSUME NEW b \in Browsers, NEW p \in {"login", "logout"}, RotateStart(b, p) PROVE KeyInv' /\ SignedInLocked
  BY <1>2, RotationStarts, WritesKeepStorages, GuardsStay, NoneSignedInLocked DEF KeyInv
<1>3. ASSUME NEW b \in Browsers, NEW ok \in BOOLEAN, RotateFinish(b, ok) PROVE KeyInv' /\ SignedInLocked
  BY <1>3, RotationFinishes, WritesKeepStorages, GuardsStay, NoneSignedInLocked DEF KeyInv
<1>4. ASSUME NEW b \in Browsers, NEW k \in {"page", "api"}, GuardStart(b, k) PROVE KeyInv' /\ SignedInLocked
  BY <1>4, GuardKeeps, StartGuards, NoneSignedInLocked DEF KeyInv
<1>5. ASSUME NEW b \in Browsers, LoadWatermark(b) \/ GuardFinish(b) PROVE KeyInv' /\ SignedInLocked
  BY <1>5, FinishKeeps, NoneSignedInLocked
<1>6. ASSUME NEW b \in Browsers, NEW w \in {"keep", "everywhere"}, RevokeCommit(b, w) PROVE KeyInv' /\ SignedInLocked
  BY <1>6, RevocationKeeps, WritesKeepStorages, GuardsStay, NoneSignedInLocked DEF KeyInv
<1>7. ASSUME NEW b \in Browsers, Keep(b) \/ SignOutEverywhere(b) PROVE KeyInv' /\ SignedInLocked
  BY <1>7, RevocationKeeps, WritesKeepStorages, GuardsStay, NoneSignedInLocked DEF KeyInv
<1>8. ASSUME NEW here \in BOOLEAN, RevokeByOthers(here) PROVE KeyInv' /\ SignedInLocked
  <2>1. KeysSound' /\ NoneSignsIn
    BY <1>8, KeysOnlyGo DEF RevokeByOthers, KeyInv, KeysSound, SlotsShaped
  <2> QED BY <1>8, <2>1, GuardsStay, NoneSignedInLocked DEF RevokeByOthers, KeyInv
<1>9. CASE Tick
  <2>1. KeysSound' /\ NoneSignsIn
    BY <1>9, KeysOnlyGo DEF Tick, KeyInv, KeysSound, SlotsShaped
  <2> QED BY <1>9, <2>1, GuardsStay, NoneSignedInLocked DEF Tick, KeyInv
<1>10. CASE UNCHANGED sessionVars
  BY <1>10 DEF sessionVars, KeyInv, KeysSound, SlotsShaped, KeysNameStores, SignedInLocked, GuardsNameStores
<1> QED BY <1>0, <1>1, <1>2, <1>3, <1>4, <1>5, <1>6, <1>7, <1>8, <1>9, <1>10 DEF SessionNext

\* However sessions end - expiry, revocation, signing out here or everywhere, a rotation - and
\* whenever an unlock asked for before lands, a browser that signs in starts without a data key
\* (logout_session, rotate_session_id, KeyService.unlock).
THEOREM SessionStartsLocked == SessionSpec => SignInStartsLocked
<1>1. SessionInit => KeyInv
  BY SessionStart DEF SessionInit, KeyInv, GuardsNameStores, NoGuard
<1>2. KeyInv /\ [SessionNext]_sessionVars => [SignedInLocked]_sessionVars
  BY SessionStepKeeps
<1>3. [SignedInLocked]_sessionVars
        => [\A i \in DOMAIN store' :
              store'[i].auth /\ (i \in DOMAIN store => ~ store[i].auth)
                 => i \notin unlocked' /\ \A b \in Browsers : opening'[b] # i]_sessionVars
  BY DEF SignedInLocked
<1> QED BY <1>1, <1>2, <1>3, SessionStepKeeps, PTL DEF SessionSpec, SignInStartsLocked

\* What was read of the watermark is the watermark, or was asked for before it moved.
Abreast(from, at) == from = valid \/ at <= valid

Watched(g) ==
  /\ "at" \in DOMAIN g /\ "issued" \in DOMAIN g /\ "got" \in DOMAIN g /\ "read" \in DOMAIN g
  /\ g.at \in Int /\ g.at <= now
  /\ g.issued \in Nat \cup {Null}
  /\ g.read => Abreast(g.got, g.at)

Cached == cache.there => cache.at \in Int /\ cache.at <= now /\ Abreast(cache.from, cache.at)
WatermarkInv == valid \in Int /\ Cached /\ \A b \in Browsers : Watched(guard[b])

\* A session is issued at its login or at the change it survived.
LEMMA IssuedType == ASSUME NEW s \in Slot PROVE Issued(s) \in Nat \cup {Null}
<1>1. s.login \in Nat \cup {Null} /\ s.reval \in Nat \cup {Null}
  BY DEF Slot
<1>2. \E x \in {s.login, s.reval} : \A y \in {s.login, s.reval} : x >= y
  BY <1>1 DEF Null
<1>3. Issued(s) \in {s.login, s.reval}
  BY <1>2 DEF Issued, Max
<1> QED BY <1>1, <1>3

\* A step that moves neither the watermark nor a waiting request.
LEMMA WatermarkStays ==
  ASSUME WatermarkInv, now \in Nat, now' \in {now, now + 1}, valid' = valid, guard' = guard, cache' \in {cache, NoEntry}
  PROVE  WatermarkInv'
BY DEF WatermarkInv, Cached, Watched, Abreast, NoEntry

\* A revocation: everything asked for so far was asked for before it.
LEMMA WatermarkMoves ==
  ASSUME WatermarkInv, now \in Nat, now' = now, valid' = now, guard' = guard, cache' \in {cache, NoEntry}
  PROVE  WatermarkInv'
BY DEF WatermarkInv, Cached, Watched, Abreast, NoEntry

LEMMA WatermarkLoaded ==
  ASSUME WatermarkInv, now \in Nat, DOMAIN guard = Browsers, NEW b \in Browsers, LoadWatermark(b) \/ GuardFinish(b)
  PROVE  WatermarkInv'
<1>1. now' = now /\ valid' = valid
  BY DEF LoadWatermark, GuardFinish
<1>2. CASE LoadWatermark(b)
  <2>1. Watched(guard[b])
    BY DEF WatermarkInv
  <2>2. Watched(guard[b])'
    BY <1>1, <1>2, <2>1 DEF LoadWatermark, Watched, Abreast
  <2>3. \A c \in Browsers : c # b => Watched(guard[c])'
    BY <1>1, <1>2 DEF LoadWatermark, WatermarkInv, Watched, Abreast
  <2> QED BY <1>1, <1>2, <2>2, <2>3 DEF LoadWatermark, WatermarkInv, Cached, Abreast
<1>3. CASE GuardFinish(b)
  <2>1. Watched(guard[b]) /\ guard[b].read
    BY <1>3 DEF WatermarkInv, GuardFinish
  <2>2. Cached'
    BY <1>1, <1>3, <2>1 DEF GuardFinish, Cached, StoredEntry, Watched, Abreast
  <2>3. \A c \in Browsers : Watched(guard[c])'
    BY <1>1, <1>3 DEF GuardFinish, WatermarkInv, Watched, Abreast, NoGuard, Null
  <2> QED BY <1>1, <2>2, <2>3 DEF WatermarkInv
<1> QED BY <1>2, <1>3

LEMMA WatermarkAsked ==
  ASSUME KeyInv, WatermarkInv, NEW b \in Browsers, NEW kind, GuardStart(b, kind)
  PROVE  WatermarkInv'
<1> DEFINE s == store[cookie[b]]
           g == [id |-> cookie[b], kind |-> kind, at |-> now, issued |-> Issued(s), got |-> Null, read |-> FALSE]
<1>1. s \in Slot /\ now \in Nat /\ DOMAIN guard = Browsers
  BY DEF KeyInv, KeysSound, SlotsShaped, GuardsNameStores
<1>2. UNCHANGED <<now, valid, cache>>
  BY DEF GuardStart
<1>3. guard' = guard \/ guard' = [guard EXCEPT ![b] = g]
  BY DEF GuardStart
<1>4. Issued(s) \in Nat \cup {Null}
  BY <1>1, IssuedType
<1> HIDE DEF s
<1>5. CASE guard' = guard
  BY <1>1, <1>2, <1>5, WatermarkStays
<1>6. CASE guard' = [guard EXCEPT ![b] = g]
  BY <1>1, <1>2, <1>4, <1>6 DEF WatermarkInv, Cached, Watched, Abreast
<1> QED BY <1>3, <1>5, <1>6

LEMMA WatermarkStep == KeyInv /\ WatermarkInv /\ [SessionNext]_sessionVars => WatermarkInv'
<1> SUFFICES ASSUME KeyInv, WatermarkInv, [SessionNext]_sessionVars PROVE WatermarkInv'
  OBVIOUS
<1>1. now \in Nat /\ DOMAIN guard = Browsers
  BY DEF KeyInv, KeysSound, SlotsShaped, GuardsNameStores
<1>2. ASSUME NEW b \in Browsers, NEW p, NEW ok,
             \/ ParkLogin(b) \/ Logout(b) \/ BeginUnlock(b) \/ PutKey(b, ok) \/ RotateStart(b, p)
             \/ RotateFinish(b, ok) \/ Keep(b) \/ SignOutEverywhere(b)
      PROVE  WatermarkInv'
  BY <1>1, <1>2, WatermarkStays DEF ParkLogin, Logout, BeginUnlock, PutKey, RotateStart, RotateFinish, Keep, SignOutEverywhere
<1>3. ASSUME NEW b \in Browsers, NEW w, NEW here, RevokeCommit(b, w) \/ RevokeByOthers(here)
      PROVE  WatermarkInv'
  BY <1>1, <1>3, WatermarkMoves DEF RevokeCommit, RevokeByOthers
<1>4. ASSUME NEW here, RevokeByOthers(here) PROVE WatermarkInv'
  BY <1>1, <1>4, WatermarkMoves DEF RevokeByOthers
<1>5. CASE Tick \/ UNCHANGED sessionVars
  BY <1>1, <1>5, WatermarkStays DEF Tick, sessionVars
<1> QED BY <1>1, <1>2, <1>3, <1>4, <1>5, WatermarkAsked, WatermarkLoaded DEF SessionNext

\* The revocation cache is wrong for one time-to-live and no longer, for any number of browsers
\* and any order of loads, revocations and changes of credentials: a request let in past the
\* watermark began less than CacheTtl after the revocation (RevocationCache.valid_from).
THEOREM RevocationsSeenInTime == SessionSpec => RevocationSeenInTime
<1> DEFINE InTime ==
      \A b \in Browsers :
         /\ (GuardStart(b, "page") /\ ~ Expired(store[cookie[b]]) /\ Fresh(now)
             /\ ~ Revoked(Issued(store[cookie[b]]), cache.from)
             /\ Issued(store[cookie[b]]) < valid) => now - valid < CacheTtl
         /\ (GuardFinish(b) /\ ~ Revoked(guard[b].issued, guard[b].got)
             /\ guard[b].issued < valid) => guard[b].at - valid < CacheTtl
<1>1. SessionInit => KeyInv /\ WatermarkInv
  <2>1. SessionInit => KeyInv
    BY SessionStart DEF SessionInit, KeyInv, GuardsNameStores, NoGuard
  <2>2. SessionInit => WatermarkInv
    BY DEF SessionInit, WatermarkInv, Cached, Watched, Abreast, NoEntry, NoGuard, Null
  <2> QED BY <2>1, <2>2
<1>2. KeyInv /\ WatermarkInv => InTime
  <2> SUFFICES ASSUME KeyInv, WatermarkInv, NEW b \in Browsers
               PROVE  /\ (GuardStart(b, "page") /\ ~ Expired(store[cookie[b]]) /\ Fresh(now)
                          /\ ~ Revoked(Issued(store[cookie[b]]), cache.from)
                          /\ Issued(store[cookie[b]]) < valid) => now - valid < CacheTtl
                      /\ (GuardFinish(b) /\ ~ Revoked(guard[b].issued, guard[b].got)
                          /\ guard[b].issued < valid) => guard[b].at - valid < CacheTtl
    OBVIOUS
  <2>1. now \in Nat /\ valid \in Int /\ Watched(guard[b]) /\ Cached /\ Issued(store[cookie[b]]) \in Nat \cup {Null}
    BY IssuedType DEF KeyInv, KeysSound, SlotsShaped, WatermarkInv
  <2>2. CacheTtl \in Nat \ {0}
    BY SessionAssumption
  <2>3. ASSUME Fresh(now), ~ Revoked(Issued(store[cookie[b]]), cache.from), Issued(store[cookie[b]]) < valid
        PROVE  now - valid < CacheTtl
    BY <2>1, <2>2, <2>3 DEF Fresh, Revoked, Cached, Abreast, Null
  <2>4. ASSUME GuardFinish(b), ~ Revoked(guard[b].issued, guard[b].got), guard[b].issued < valid
        PROVE  guard[b].at - valid < CacheTtl
    BY <2>1, <2>2, <2>4 DEF GuardFinish, Revoked, Watched, Abreast, Null
  <2> QED BY <2>3, <2>4
<1>3. KeyInv /\ WatermarkInv /\ [SessionNext]_sessionVars => KeyInv' /\ WatermarkInv'
  BY SessionStepKeeps, WatermarkStep
<1>4. KeyInv /\ WatermarkInv => [InTime]_sessionVars
  BY <1>2
<1> QED BY <1>1, <1>3, <1>4, PTL DEF SessionSpec, RevocationSeenInTime

-----------------------------------------------------------------------------
(***************************************************************************)
(* Proofs about Registry for any number of logins and families: the        *)
(* registry never promises a user row in a schema nobody built, and the    *)
(* last working administrator is never lost.                               *)
(***************************************************************************)
\* The shapes of the rows the two arguments look into.
LoginRow == [admin : BOOLEAN, disabled : BOOLEAN, must : BOOLEAN, pw : Int]
FamilyRow == [status : Status, user : BOOLEAN]
LoginShape == \A l \in DOMAIN login : login[l] \in LoginRow
FamilyShape ==
  /\ DOMAIN family \subseteq Logins
  /\ \A l \in DOMAIN family : family[l] \in FamilyRow
  /\ schema \in [Logins -> SchemaState]

SchemaInv == FamilyShape /\ UserNeedsSchema

-----------------------------------------------------------------------------
(* Families and their schemas.                                             *)

LEMMA FamilyStart == RegistryInit => SchemaInv
BY DEF RegistryInit, SchemaInv, FamilyShape, UserNeedsSchema, SchemaState

\* A family that changes its status keeps its user.
LEMMA StatusKeeps ==
  ASSUME SchemaInv, NEW l \in DOMAIN family, NEW s \in Status,
         family' = [family EXCEPT ![l].status = s], schema' = schema
  PROVE  SchemaInv'
<1>1. /\ DOMAIN family' = DOMAIN family
      /\ family'[l].user = family[l].user /\ family'[l] \in FamilyRow
      /\ \A k \in DOMAIN family : k # l => family'[k] = family[k]
  BY DEF SchemaInv, FamilyShape, FamilyRow
<1> QED BY <1>1 DEF SchemaInv, FamilyShape, UserNeedsSchema

\* A schema that is built, or dropped, takes no family's user away.
LEMMA SchemaKeeps ==
  ASSUME SchemaInv, NEW l \in Logins, NEW s \in {"head", "dropped"},
         schema' = [schema EXCEPT ![l] = s],
         family' = family \/ family' = Without(family, {l})
  PROVE  SchemaInv'
<1>1. schema' \in [Logins -> SchemaState]
  BY DEF SchemaInv, FamilyShape, SchemaState
<1>2. \A k \in Logins : schema[k] # "none" => schema'[k] # "none"
  BY DEF SchemaInv, FamilyShape
<1> QED BY <1>1, <1>2 DEF SchemaInv, FamilyShape, UserNeedsSchema, Without

LEMMA RowKeeps ==
  ASSUME SchemaInv, NEW l \in Logins, ProvisionRow(l) \/ DeleteRow(l)
  PROVE  SchemaInv'
<1>1. CASE family' = family /\ schema' = schema
  BY <1>1 DEF SchemaInv, FamilyShape, UserNeedsSchema
<1>2. CASE family' = With(family, l, [status |-> "provisioning", user |-> FALSE]) /\ schema' = schema
  BY <1>2 DEF SchemaInv, FamilyShape, UserNeedsSchema, With, FamilyRow, Status
<1>3. CASE family' = Without(family, {l}) /\ schema' = schema
  BY <1>3 DEF SchemaInv, FamilyShape, UserNeedsSchema, Without
<1> QED BY <1>1, <1>2, <1>3 DEF ProvisionRow, DeleteRow

LEMMA UserKeeps ==
  ASSUME SchemaInv, NEW l \in Logins, BuildUser(l)
  PROVE  SchemaInv'
BY DEF BuildUser, SchemaInv, FamilyShape, UserNeedsSchema, FamilyRow, Status

LEMMA RestartKeeps ==
  ASSUME SchemaInv, NEW release \in BOOLEAN, NEW F \in SUBSET Logins, Restart(release, F)
  PROVE  SchemaInv'
<1> DEFINE old == [l \in Logins |-> IF release /\ schema[l] = "head" THEN "behind" ELSE schema[l]]
           pending == {l \in DOMAIN family : family[l].status # "deleting" /\ old[l] # "head"}
<1>1. /\ schema' = [l \in Logins |-> IF l \in pending \ F THEN "head" ELSE old[l]]
      /\ family' = [l \in DOMAIN family |->
                      IF l \in F THEN [family[l] EXCEPT !.status = "suspended"] ELSE family[l]]
  BY DEF Restart
<1>2. old \in [Logins -> SchemaState] /\ \A l \in Logins : schema[l] # "none" => old[l] # "none"
  BY DEF SchemaInv, FamilyShape, SchemaState
<1>3. schema' \in [Logins -> SchemaState] /\ \A l \in Logins : schema[l] # "none" => schema'[l] # "none"
  <2> HIDE DEF old, pending
  <2> QED BY <1>1, <1>2 DEF SchemaState
<1>4. /\ DOMAIN family' = DOMAIN family
      /\ \A l \in DOMAIN family : family'[l] \in FamilyRow /\ family'[l].user = family[l].user
  BY <1>1 DEF SchemaInv, FamilyShape, FamilyRow, Status
<1> QED BY <1>3, <1>4 DEF SchemaInv, FamilyShape, UserNeedsSchema

LEMMA FamilyStepKeeps == SchemaInv /\ [RegistryNext]_registryVars => SchemaInv'
<1> SUFFICES ASSUME SchemaInv, [RegistryNext]_registryVars PROVE SchemaInv'
  OBVIOUS
<1>1. ASSUME UNCHANGED <<family, schema>> PROVE SchemaInv'
  BY <1>1 DEF SchemaInv, FamilyShape, UserNeedsSchema
<1>2. ASSUME NEW l \in Logins,
             SignUp(l) \/ DisableRevoke(l) \/ ResetRevoke(l) \/ ResetPassword(l) \/ ChangeOwnPassword(l)
      PROVE  SchemaInv'
  BY <1>2, <1>1 DEF SignUp, DisableRevoke, ResetRevoke, ResetPassword, ChangeOwnPassword
<1>3. ASSUME NEW l \in Logins, NEW b \in BOOLEAN, CreateLogin(l, b) \/ SetAdmin(l, b) \/ SetDisabled(l, b)
      PROVE  SchemaInv'
  BY <1>3, <1>1 DEF CreateLogin, SetAdmin, SetDisabled
<1>4. ASSUME NEW m \in {"open", "closed"}, SetRegistration(m) PROVE SchemaInv'
  BY <1>4, <1>1 DEF SetRegistration
<1>5. ASSUME NEW l \in Logins, Authenticate(l) \/ Enter(l) \/ SignInFails(l) PROVE SchemaInv'
  BY <1>5, <1>1 DEF Authenticate, Enter, SignInFails
<1>6. ASSUME NEW l \in Logins, ProvisionRow(l) \/ BuildUser(l) \/ DeleteRow(l) PROVE SchemaInv'
  BY <1>6, RowKeeps, UserKeeps
<1>7. ASSUME NEW l \in Logins, BuildSchema(l) \/ UndoFamily(l) \/ DropSchema(l) PROVE SchemaInv'
  BY <1>7, SchemaKeeps DEF BuildSchema, UndoFamily, DropSchema
<1>8. ASSUME NEW l \in Logins, MintToken(l) \/ RevokeToken(l) \/ DeleteStart(l) PROVE SchemaInv'
  BY <1>8, <1>1 DEF MintToken, RevokeToken, DeleteStart
<1>9. ASSUME NEW l \in Logins, Suspend(l) \/ Resume(l) \/ DeleteMark(l) PROVE SchemaInv'
  BY <1>9, StatusKeeps DEF Suspend, Resume, DeleteMark, Status
<1>10. ASSUME NEW l \in Logins, NEW k \in Logins, DeleteIdentity(l, k) PROVE SchemaInv'
  BY <1>10, <1>1 DEF DeleteIdentity
<1>11. ASSUME NEW release \in BOOLEAN, NEW F \in SUBSET Logins, Restart(release, F) PROVE SchemaInv'
  BY <1>11, RestartKeeps
<1>12. CASE UNCHANGED registryVars
  BY <1>12, <1>1 DEF registryVars
<1> QED BY <1>2, <1>3, <1>4, <1>5, <1>6, <1>7, <1>8, <1>9, <1>10, <1>11, <1>12 DEF RegistryNext

\* Wherever a first sign-in stops, fails, is undone or is resumed, a family's user is marked
\* only where a schema was built (TenantService._build_schema).
THEOREM RegistryUserNeedsSchema == RegistrySpec => []UserNeedsSchema
<1>1. SchemaInv => UserNeedsSchema
  BY DEF SchemaInv
<1> QED BY FamilyStart, FamilyStepKeeps, <1>1, PTL DEF RegistrySpec

-----------------------------------------------------------------------------
(* Administrators.                                                         *)

\* A login that changes neither its rights nor its standing leaves the administrators alone.
LEMMA SameAdmins ==
  ASSUME DOMAIN login' = DOMAIN login,
         \A k \in DOMAIN login : login'[k].admin = login[k].admin /\ login'[k].disabled = login[k].disabled
  PROVE  Admins(login') = Admins(login)
BY DEF Admins

\* Whoever is not the last administrator leaves another one behind.
LEMMA AnotherAdmin ==
  ASSUME NEW l, ~ IsLastAdmin(l), Admins(login) # {},
         \A k \in Admins(login) : k # l => k \in Admins(login')
  PROVE  Admins(login') # {}
BY DEF IsLastAdmin

\* A new login takes nobody's rights.
LEMMA NewLoginStep ==
  ASSUME LoginShape, NEW l, NEW admin \in BOOLEAN, NEW must \in BOOLEAN, NewLogin(l, admin, must)
  PROVE  LoginShape' /\ Admins(login) \subseteq Admins(login')
BY DEF NewLogin, LoginShape, LoginRow, Admins, With

\* So it is with each step of the registry.
AdminStep == LoginShape' /\ (Admins(login) # {} => Admins(login') # {})

LEMMA RightsStep ==
  ASSUME LoginShape, NEW l, NEW b \in BOOLEAN, SetAdmin(l, b) \/ SetDisabled(l, b)
  PROVE  AdminStep
<1>1. /\ l \in DOMAIN login /\ DOMAIN login' = DOMAIN login
      /\ \A k \in DOMAIN login : k # l => login'[k] = login[k]
  BY DEF SetAdmin, SetDisabled
<1>2. login'[l] \in LoginRow
  BY <1>1 DEF SetAdmin, SetDisabled, LoginShape, LoginRow
<1>3. LoginShape'
  BY <1>1, <1>2 DEF LoginShape
<1>4. CASE ~ IsLastAdmin(l)
  BY <1>1, <1>3, <1>4, AnotherAdmin DEF AdminStep, Admins
<1>5. CASE SetAdmin(l, TRUE)
  <2>1. login'[l].admin /\ login'[l].disabled = login[l].disabled
    BY <1>1, <1>5 DEF SetAdmin, LoginShape, LoginRow
  <2> QED BY <1>1, <1>3, <2>1 DEF AdminStep, Admins
<1>6. CASE SetDisabled(l, FALSE)
  <2>1. ~ login'[l].disabled /\ login'[l].admin = login[l].admin
    BY <1>1, <1>6 DEF SetDisabled, LoginShape, LoginRow
  <2> QED BY <1>1, <1>3, <2>1 DEF AdminStep, Admins
<1> QED BY <1>4, <1>5, <1>6 DEF SetAdmin, SetDisabled

LEMMA PasswordStep ==
  ASSUME LoginShape, NEW l, ResetPassword(l) \/ ChangeOwnPassword(l)
  PROVE  AdminStep
<1>1. /\ l \in DOMAIN login /\ DOMAIN login' = DOMAIN login
      /\ \A k \in DOMAIN login : k # l => login'[k] = login[k]
  BY DEF ResetPassword, ChangeOwnPassword
<1>2. /\ login'[l] \in LoginRow
      /\ login'[l].admin = login[l].admin /\ login'[l].disabled = login[l].disabled
  BY <1>1 DEF ResetPassword, ChangeOwnPassword, LoginShape, LoginRow
<1>3. LoginShape' /\ Admins(login') = Admins(login)
  BY <1>1, <1>2, SameAdmins DEF LoginShape
<1> QED BY <1>3 DEF AdminStep

LEMMA LeavingStep ==
  ASSUME LoginShape, NEW l, NEW k,
         UndoFamily(l) \/ DeleteIdentity(k, l)
  PROVE  AdminStep
<1>1. CASE login' = login
  BY <1>1 DEF AdminStep, LoginShape
<1>2. CASE login' = Without(login, {l}) /\ ~ IsLastAdmin(l)
  <2>1. LoginShape' /\ \A m \in Admins(login) : m # l => m \in Admins(login')
    BY <1>2 DEF LoginShape, Without, Admins
  <2> QED BY <1>2, <2>1, AnotherAdmin DEF AdminStep
<1>3. CASE login' = Without(login, {l}) /\ l \in DOMAIN login /\ ~ login[l].admin
  BY <1>3 DEF AdminStep, LoginShape, Without, Admins
<1> QED BY <1>1, <1>2, <1>3 DEF UndoFamily, DeleteIdentity

LEMMA AdminStepHolds == LoginShape /\ [RegistryNext]_registryVars => AdminStep
<1> SUFFICES ASSUME LoginShape, [RegistryNext]_registryVars PROVE AdminStep
  OBVIOUS
<1>1. ASSUME login' = login PROVE AdminStep
  BY <1>1 DEF AdminStep, LoginShape
<1>2. ASSUME NEW l \in Logins, SignUp(l) PROVE AdminStep
  BY <1>2, NewLoginStep DEF SignUp, AdminStep
<1>3. ASSUME NEW l \in Logins, NEW b \in BOOLEAN, CreateLogin(l, b) PROVE AdminStep
  BY <1>3, NewLoginStep DEF CreateLogin, AdminStep
<1>4. ASSUME NEW l \in Logins, NEW b \in BOOLEAN, SetAdmin(l, b) \/ SetDisabled(l, b) PROVE AdminStep
  BY <1>4, RightsStep
<1>5. ASSUME NEW l \in Logins, ResetPassword(l) \/ ChangeOwnPassword(l) PROVE AdminStep
  BY <1>5, PasswordStep
<1>6. ASSUME NEW l \in Logins, NEW k \in Logins, UndoFamily(l) \/ DeleteIdentity(k, l) PROVE AdminStep
  BY <1>6, LeavingStep
<1>7. ASSUME NEW l \in Logins,
             DisableRevoke(l) \/ ResetRevoke(l) \/ Authenticate(l) \/ ProvisionRow(l) \/ BuildSchema(l)
             \/ BuildUser(l) \/ Enter(l) \/ SignInFails(l) \/ MintToken(l) \/ RevokeToken(l) \/ Suspend(l)
             \/ Resume(l) \/ DeleteStart(l) \/ DeleteMark(l) \/ DropSchema(l) \/ DeleteRow(l)
      PROVE  AdminStep
  BY <1>7, <1>1
     DEF DisableRevoke, ResetRevoke, Authenticate, ProvisionRow, BuildSchema, BuildUser, Enter, SignInFails,
         MintToken, RevokeToken, Suspend, Resume, DeleteStart, DeleteMark, DropSchema, DeleteRow
<1>8. ASSUME NEW m \in {"open", "closed"}, SetRegistration(m) PROVE AdminStep
  BY <1>8, <1>1 DEF SetRegistration
<1>9. ASSUME NEW release \in BOOLEAN, NEW F \in SUBSET Logins, Restart(release, F) PROVE AdminStep
  BY <1>9, <1>1 DEF Restart
<1>10. CASE UNCHANGED registryVars
  BY <1>10, <1>1 DEF registryVars
<1> QED BY <1>2, <1>3, <1>4, <1>5, <1>6, <1>7, <1>8, <1>9, <1>10 DEF RegistryNext

\* However demoting, disabling, deleting accounts and undoing families are mixed, an instance
\* that has a working administrator keeps one (LocalIdentityService, IsLastAdmin).
THEOREM RegistryKeepsAnAdmin == RegistrySpec => AdminsNeverRunOut
<1>1. RegistryInit => LoginShape
  BY DEF RegistryInit, LoginShape
<1>2. LoginShape /\ [RegistryNext]_registryVars => LoginShape'
  BY AdminStepHolds DEF AdminStep
<1>3. LoginShape /\ [RegistryNext]_registryVars
        => [Admins(login) # {} => Admins(login') # {}]_registryVars
  BY AdminStepHolds DEF AdminStep
<1> QED BY <1>1, <1>2, <1>3, PTL DEF RegistrySpec, AdminsNeverRunOut

-----------------------------------------------------------------------------
(***************************************************************************)
(* Proofs about HostedFactor for any number of tabs and factors: the types *)
(* that the argument needs, and that one set of recovery codes lets one    *)
(* recovery succeed, whatever calls fail in between.                       *)
(*                                                                         *)
(* RecoveredOnce is not inductive: it must be known that the set the row   *)
(* holds was never spent, and that no tab is about to put back one that    *)
(* was.  A set is named by the factor it was made with, and a factor is    *)
(* one enrolment's.                                                        *)
(***************************************************************************)
\* An enrolment that may still write the row.
Enrolling(t) == step[t].at \in {"offered", "proved"}
\* A recovery that may still clear it.
Recovering(t) == step[t].at \in {"recover", "unenrolled"}

\* The shapes the steps rely on.
Shape ==
  /\ made \in 0 .. MaxFactor /\ DOMAIN factors = 1 .. made
  /\ row \in [there : BOOLEAN, enabled : BOOLEAN, codes : 0 .. MaxFactor]
  /\ step \in [Tabs -> [at : {"-", "enrol", "offered", "proved", "recover", "unenrolled", "disable", "lifted"},
                        factor : Int, codes : Int]]
  /\ spent \in [FactorIds -> Nat]

\* A factor not enrolled yet has no codes anybody could have spent.
FreshUnspent == \A f \in FactorIds : f > made => spent[f] = 0
\* The row that is on holds a set that was not spent.
RowUnspent == row.enabled => row.codes \in 1 .. made /\ spent[row.codes] = 0
\* What an enrolment is about to put into the row was not spent, and is not there yet.
EnrolledUnspent ==
  \A t \in Tabs : Enrolling(t) =>
     /\ step[t].factor \in 1 .. made /\ spent[step[t].factor] = 0
     /\ row.enabled => row.codes # step[t].factor
\* Two enrolments made two factors.
EnrolledApart ==
  \A t, u \in Tabs : t # u /\ Enrolling(t) /\ Enrolling(u) => step[t].factor # step[u].factor
\* A recovery found its code in a set that exists.
RecoversASet == \A t \in Tabs : Recovering(t) => step[t].codes \in 1 .. made

CodesSound ==
  /\ Shape /\ FreshUnspent /\ RowUnspent /\ EnrolledUnspent /\ EnrolledApart /\ RecoversASet
  /\ RecoveredOnce

LEMMA HostedStart == HostedInit => CodesSound
BY HostedAssumption
   DEF HostedInit, CodesSound, Shape, FreshUnspent, RowUnspent, EnrolledUnspent, EnrolledApart,
       RecoversASet, RecoveredOnce, Enrolling, Recovering, NoRow, Waiting, FactorIds

\* A tab that goes back to rest leaves the other tabs as they were.
LEMMA RestKeeps ==
  ASSUME CodesSound, NEW t \in Tabs, Rest(t), UNCHANGED <<made, row, spent>>,
         DOMAIN factors' = DOMAIN factors
  PROVE  CodesSound'
BY HostedAssumption
   DEF CodesSound, Shape, FreshUnspent, RowUnspent, EnrolledUnspent, EnrolledApart,
       RecoversASet, RecoveredOnce, Enrolling, Recovering, Waiting, Rest, FactorIds

\* So does one that begins or goes on with something else than an enrolment.
LEMMA TabKeeps ==
  ASSUME CodesSound, NEW t \in Tabs, UNCHANGED <<factors, made, row, spent>>,
         NEW s \in [at : {"-", "recover", "disable", "lifted"}, factor : Int, codes : Int],
         s.at = "recover" => s.codes \in 1 .. made,
         step' = [step EXCEPT ![t] = s]
  PROVE  CodesSound'
<1>1. step'[t] = s /\ \A u \in Tabs : u # t => step'[u] = step[u]
  BY DEF CodesSound, Shape
<1>2. Shape'
  BY DEF CodesSound, Shape
<1>3. FreshUnspent' /\ RowUnspent' /\ RecoveredOnce'
  BY DEF CodesSound, FreshUnspent, RowUnspent, RecoveredOnce
<1>4. EnrolledUnspent' /\ EnrolledApart' /\ RecoversASet'
  BY <1>1 DEF CodesSound, EnrolledUnspent, EnrolledApart, RecoversASet, Enrolling, Recovering
<1> QED BY <1>2, <1>3, <1>4 DEF CodesSound

LEMMA EnrolKeeps ==
  ASSUME CodesSound, NEW t \in Tabs, EnrolStart(t) \/ EnrolOffer(t) \/ Confirm(t)
  PROVE  CodesSound'
<1>1. CASE EnrolStart(t)
  BY <1>1, HostedAssumption
     DEF EnrolStart, CodesSound, Shape, FreshUnspent, RowUnspent, EnrolledUnspent, EnrolledApart,
         RecoversASet, RecoveredOnce, Enrolling, Recovering, Waiting, FactorIds
<1>2. CASE EnrolOffer(t) /\ Rest(t) /\ made' = made
  BY <1>2, RestKeeps, HostedAssumption DEF EnrolOffer, CodesSound, Shape
<1>3. CASE EnrolOffer(t) /\ made # MaxFactor /\ made' = made + 1
           /\ step' = [step EXCEPT ![t] = [at |-> "offered", factor |-> made + 1, codes |-> 0]]
  <2> USE <1>3, HostedAssumption
  <2>0. /\ made \in 0 .. MaxFactor /\ made' = made + 1 /\ made + 1 \in FactorIds
        /\ UNCHANGED <<row, spent>>
        /\ step'[t] = [at |-> "offered", factor |-> made + 1, codes |-> 0]
        /\ \A u \in Tabs : u # t => step'[u] = step[u]
    BY DEF EnrolOffer, CodesSound, Shape, FactorIds
  <2>1. Shape'
    BY <2>0 DEF EnrolOffer, CodesSound, Shape, FactorIds
  <2>2. FreshUnspent' /\ RowUnspent' /\ RecoveredOnce'
    BY <2>0 DEF CodesSound, Shape, FreshUnspent, RowUnspent, RecoveredOnce, FactorIds
  <2>3. EnrolledUnspent'
    BY <2>0 DEF CodesSound, Shape, FreshUnspent, RowUnspent, EnrolledUnspent, Enrolling, FactorIds
  <2>4. EnrolledApart'
    BY <2>0 DEF CodesSound, Shape, EnrolledUnspent, EnrolledApart, Enrolling
  <2>5. RecoversASet'
    BY <2>0 DEF CodesSound, Shape, RecoversASet, Recovering
  <2> QED BY <2>1, <2>2, <2>3, <2>4, <2>5 DEF CodesSound
<1>4. CASE Confirm(t)
  BY <1>4, HostedAssumption
     DEF Confirm, CodesSound, Shape, FreshUnspent, RowUnspent, EnrolledUnspent, EnrolledApart,
         RecoversASet, RecoveredOnce, Enrolling, Recovering, FactorIds
<1> QED BY <1>1, <1>2, <1>3, <1>4 DEF EnrolOffer

LEMMA ConfirmKeeps ==
  ASSUME CodesSound, NEW t \in Tabs, NEW ok \in BOOLEAN, ConfirmCommit(t, ok)
  PROVE  CodesSound'
<1>1. CASE row' = row
  BY <1>1, RestKeeps DEF ConfirmCommit, Unenrolled
<1>2. CASE row' = [there |-> TRUE, enabled |-> TRUE, codes |-> step[t].factor]
  <2> USE <1>2, HostedAssumption
  <2>0. /\ Enrolling(t) /\ UNCHANGED <<made, spent>> /\ DOMAIN factors' = DOMAIN factors
        /\ step' = [step EXCEPT ![t] = Waiting]
        /\ \A u \in Tabs : u # t => step'[u] = step[u]
    BY DEF ConfirmCommit, Unenrolled, Rest, Enrolling, CodesSound, Shape
  <2>1. Shape'
    BY <2>0 DEF CodesSound, Shape, EnrolledUnspent, Waiting, FactorIds
  <2>2. FreshUnspent' /\ RowUnspent' /\ RecoveredOnce'
    BY <2>0 DEF CodesSound, Shape, FreshUnspent, EnrolledUnspent, RowUnspent, RecoveredOnce, FactorIds
  <2>3. EnrolledUnspent' /\ EnrolledApart' /\ RecoversASet'
    BY <2>0 DEF CodesSound, Shape, EnrolledUnspent, EnrolledApart, RecoversASet,
                Enrolling, Recovering, Waiting
  <2> QED BY <2>1, <2>2, <2>3 DEF CodesSound
<1> QED BY <1>1, <1>2 DEF ConfirmCommit

LEMMA RecoverKeeps ==
  ASSUME CodesSound, NEW t \in Tabs, NEW ok \in BOOLEAN, RecoverStart(t) \/ RecoverUnenrol(t, ok)
  PROVE  CodesSound'
<1>1. CASE RecoverStart(t)
  <2> PICK f \in Verified :
         step' = [step EXCEPT ![t] = [at |-> "recover", factor |-> f, codes |-> row.codes]]
    BY <1>1 DEF RecoverStart
  <2> DEFINE s == [at |-> "recover", factor |-> f, codes |-> row.codes]
  <2>1. s \in [at : {"-", "recover", "disable", "lifted"}, factor : Int, codes : Int] /\ s.codes \in 1 .. made
    BY <1>1, HostedAssumption DEF RecoverStart, Verified, CodesSound, Shape, RowUnspent
  <2> QED BY <1>1, <2>1, TabKeeps DEF RecoverStart
<1>2. CASE RecoverUnenrol(t, ok)
  BY <1>2, HostedAssumption
     DEF RecoverUnenrol, Unenrolled, CodesSound, Shape, FreshUnspent, RowUnspent, EnrolledUnspent,
         EnrolledApart, RecoversASet, RecoveredOnce, Enrolling, Recovering, Waiting, FactorIds
<1> QED BY <1>1, <1>2

LEMMA ClaimKeeps ==
  ASSUME CodesSound, NEW t \in Tabs, NEW ok \in BOOLEAN, RecoverClaim(t, ok)
  PROVE  CodesSound'
<1>1. CASE UNCHANGED <<row, spent>>
  BY <1>1, RestKeeps DEF RecoverClaim
<1>2. CASE /\ row.enabled /\ row.codes = step[t].codes
           /\ row' = [row EXCEPT !.enabled = FALSE, !.codes = 0]
           /\ spent' = [spent EXCEPT ![step[t].codes] = @ + 1]
  <2> DEFINE c == row.codes
  <2> USE <1>2, HostedAssumption
  <2>0. /\ c \in FactorIds /\ spent[c] = 0 /\ c \in 1 .. made
        /\ UNCHANGED <<made, factors>> /\ step' = [step EXCEPT ![t] = Waiting]
        /\ ~ row'.enabled /\ row'.codes = 0 /\ row'.there = row.there
        /\ spent'[c] = 1 /\ \A f \in FactorIds : f # c => spent'[f] = spent[f]
        /\ \A u \in Tabs : u # t => step'[u] = step[u]
    BY DEF RecoverClaim, Rest, CodesSound, Shape, RowUnspent, FactorIds
  <2>a. spent' \in [FactorIds -> Nat]
    BY <2>0 DEF CodesSound, Shape
  <2>b. row' \in [there : BOOLEAN, enabled : BOOLEAN, codes : 0 .. MaxFactor]
    <3>1. 0 \in 0 .. MaxFactor
      OBVIOUS
    <3>2. row \in [there : BOOLEAN, enabled : BOOLEAN, codes : 0 .. MaxFactor]
      BY DEF CodesSound, Shape
    <3>3. row' = [row EXCEPT !.enabled = FALSE, !.codes = 0]
      OBVIOUS
    <3> HIDE <1>2
    <3> QED BY <3>1, <3>2, <3>3
  <2>c. step' \in [Tabs -> [at : {"-", "enrol", "offered", "proved", "recover", "unenrolled", "disable", "lifted"},
                            factor : Int, codes : Int]]
    BY <2>0 DEF CodesSound, Shape, Waiting
  <2>1. Shape'
    BY <2>0, <2>a, <2>b, <2>c DEF CodesSound, Shape
  <2>2. FreshUnspent' /\ RowUnspent' /\ RecoveredOnce'
    BY <2>0 DEF CodesSound, Shape, FreshUnspent, RowUnspent, RecoveredOnce, FactorIds
  <2>3. EnrolledUnspent'
    BY <2>0 DEF CodesSound, Shape, EnrolledUnspent, Enrolling, Waiting, FactorIds
  <2>4. EnrolledApart' /\ RecoversASet'
    BY <2>0 DEF CodesSound, Shape, EnrolledApart, RecoversASet, Enrolling, Recovering, Waiting
  <2> QED BY <2>1, <2>2, <2>3, <2>4 DEF CodesSound
<1> QED BY <1>1, <1>2 DEF RecoverClaim

LEMMA DisableKeeps ==
  ASSUME CodesSound, NEW t \in Tabs, NEW ok \in BOOLEAN,
         DisableStart(t) \/ DisableUnenrol(t, ok) \/ Disable(t, ok)
  PROVE  CodesSound'
<1>1. CASE DisableStart(t) /\ step' = [step EXCEPT ![t].at = "lifted"]
  <2> DEFINE s == [step[t] EXCEPT !.at = "lifted"]
  <2>1. s \in [at : {"-", "recover", "disable", "lifted"}, factor : Int, codes : Int] /\ s.at = "lifted"
    BY DEF CodesSound, Shape
  <2>2. step' = [step EXCEPT ![t] = s]
    BY <1>1
  <2> QED BY <1>1, <2>1, <2>2, TabKeeps DEF DisableStart
<1>2. ASSUME DisableStart(t), NEW f \in Verified,
             step' = [step EXCEPT ![t].at = "disable", ![t].factor = f]
      PROVE  CodesSound'
  <2> DEFINE s == [step[t] EXCEPT !.at = "disable", !.factor = f]
  <2>0. f \in Int
    BY DEF Verified, CodesSound, Shape
  <2>1. s \in [at : {"-", "recover", "disable", "lifted"}, factor : Int, codes : Int] /\ s.at = "disable"
    BY <2>0 DEF CodesSound, Shape
  <2>2. step' = [step EXCEPT ![t] = s]
    BY <1>2 DEF CodesSound, Shape
  <2> QED BY <1>2, <2>1, <2>2, TabKeeps DEF DisableStart
<1>3. CASE DisableUnenrol(t, ok)
  BY <1>3, HostedAssumption
     DEF DisableUnenrol, Unenrolled, CodesSound, Shape, FreshUnspent, RowUnspent, EnrolledUnspent,
         EnrolledApart, RecoversASet, RecoveredOnce, Enrolling, Recovering, Waiting, FactorIds
<1>4. CASE Disable(t, ok)
  BY <1>4, HostedAssumption
     DEF Disable, Rest, CodesSound, Shape, FreshUnspent, RowUnspent, EnrolledUnspent,
         EnrolledApart, RecoversASet, RecoveredOnce, Enrolling, Recovering, Waiting, NoRow, FactorIds
<1> QED BY <1>1, <1>2, <1>3, <1>4 DEF DisableStart

LEMMA AbandonKeeps ==
  ASSUME CodesSound, NEW t \in Tabs, NEW ok \in BOOLEAN, Abandon(t, ok)
  PROVE  CodesSound'
BY RestKeeps DEF Abandon, Unenrolled

LEMMA HostedStepKeeps == CodesSound /\ [HostedNext]_hostedVars => CodesSound'
<1> SUFFICES ASSUME CodesSound, [HostedNext]_hostedVars PROVE CodesSound'
  OBVIOUS
<1>1. ASSUME NEW t \in Tabs, EnrolStart(t) \/ EnrolOffer(t) \/ Confirm(t) PROVE CodesSound'
  BY <1>1, EnrolKeeps
<1>2. ASSUME NEW t \in Tabs, RecoverStart(t) PROVE CodesSound'
  BY <1>2, RecoverKeeps
<1>3. ASSUME NEW t \in Tabs, DisableStart(t) PROVE CodesSound'
  BY <1>3, DisableKeeps
<1>4. ASSUME NEW t \in Tabs, NEW ok \in BOOLEAN,
             Abandon(t, ok) \/ ConfirmCommit(t, ok) \/ RecoverUnenrol(t, ok) \/ RecoverClaim(t, ok)
             \/ DisableUnenrol(t, ok) \/ Disable(t, ok)
      PROVE  CodesSound'
  BY <1>4, AbandonKeeps, ConfirmKeeps, RecoverKeeps, ClaimKeeps, DisableKeeps
<1>5. CASE UNCHANGED hostedVars
  BY <1>5 DEF hostedVars, CodesSound, Shape, FreshUnspent, RowUnspent, EnrolledUnspent,
              EnrolledApart, RecoversASet, RecoveredOnce, Enrolling, Recovering
<1> QED BY <1>1, <1>2, <1>3, <1>4, <1>5 DEF HostedNext

\* A set of recovery codes lets one recovery succeed, for any number of tabs and factors
\* and with any call or commit failing (HostedMfaService.recover).
THEOREM HostedCodesRecoverOnce == HostedSpec => []RecoveredOnce
<1>1. CodesSound => RecoveredOnce
  BY DEF CodesSound
<1> QED BY HostedStart, HostedStepKeeps, <1>1, PTL DEF HostedSpec

-----------------------------------------------------------------------------
(***************************************************************************)
(* Proofs about RateLimit, for any number of submissions in flight and any *)
(* number of failing calls: the guesses one key is given.  Every wrong     *)
(* guess is in the counter, about to be, or missed; what the counter holds *)
(* past the threshold is held by submissions that are about to lock or was *)
(* never dealt with; and once the key is locked only those that were being *)
(* checked can still guess wrong.                                          *)
(***************************************************************************)
Submission == [at : Phases, count : Nat, due : Nat]

FailedNow == {a \in Attempts : attempt[a].at = "failed"}
Checking == {a \in Attempts : attempt[a].at = "checking"}
Counting == {"counted", "locking", "resetting"}
Over == {a \in Attempts : attempt[a].at \in Counting /\ attempt[a].count >= MaxFailures}

CounterGone == expires # 0 /\ tick >= expires
Charged == IF CounterGone THEN 0 ELSE failures

RateShape ==
  /\ tick \in Nat /\ failures \in Nat /\ expires \in Nat /\ lockedTill \in Nat /\ wrong \in Nat
  /\ attempt \in [Attempts -> Submission]
  /\ missed \in [count : Nat, lock : Nat]

AboutToLock ==
  \A a \in Attempts : /\ attempt[a].at \in Counting => attempt[a].due = tick
                      /\ attempt[a].at \in {"locking", "resetting"} => attempt[a].count >= MaxFailures

CountHeld == Charged <= MaxFailures - 1 + Cardinality(Over) + missed.lock
OpenCharged == ~ IsLocked => wrong <= Cardinality(FailedNow) + Charged + missed.count
LockedSpare ==
  IsLocked => wrong + Cardinality(Checking)
                <= MaxFailures - 1 + Cardinality(Attempts) + missed.count + missed.lock
RateInv == RateShape /\ AboutToLock /\ CountHeld /\ OpenCharged /\ LockedSpare

LEMMA Finite ==
  /\ IsFiniteSet(FailedNow) /\ IsFiniteSet(Checking) /\ IsFiniteSet(Over)
  /\ Cardinality(FailedNow) \in Nat /\ Cardinality(Checking) \in Nat /\ Cardinality(Over) \in Nat
  /\ Cardinality(Attempts) \in Nat
<1>1. FailedNow \in SUBSET Attempts /\ Checking \in SUBSET Attempts /\ Over \in SUBSET Attempts
  BY DEF FailedNow, Checking, Over
<1>2. IsFiniteSet(Attempts)
  BY RateAssumption
<1>3. IsFiniteSet(FailedNow) /\ IsFiniteSet(Checking) /\ IsFiniteSet(Over)
  BY <1>1, <1>2, FS_Subset
<1> QED BY <1>2, <1>3, FS_CardinalityType

\* The submissions of different phases are different ones.
LEMMA PhasesApart ==
  Cardinality(FailedNow) + Cardinality(Over) + Cardinality(Checking) <= Cardinality(Attempts)
<1>1. FailedNow \cap Over = {} /\ (FailedNow \cup Over) \cap Checking = {}
  BY DEF FailedNow, Over, Checking, Counting
<1>0. ASSUME NEW S, NEW T, IsFiniteSet(S), IsFiniteSet(T), S \cap T = {}
      PROVE  IsFiniteSet(S \cup T) /\ Cardinality(S \cup T) = Cardinality(S) + Cardinality(T)
  <2>1. /\ IsFiniteSet(S \cup T)
        /\ Cardinality(S \cup T) = Cardinality(S) + Cardinality(T) - Cardinality(S \cap T)
    BY <1>0, FS_Union
  <2>2. Cardinality(S \cap T) = 0 /\ Cardinality(S) \in Nat /\ Cardinality(T) \in Nat
    BY <1>0, FS_EmptySet, FS_CardinalityType
  <2> QED BY <2>1, <2>2
<1>2. IsFiniteSet(FailedNow \cup Over) /\ Cardinality(FailedNow \cup Over) = Cardinality(FailedNow) + Cardinality(Over)
  BY <1>0, <1>1, Finite
<1>3. Cardinality((FailedNow \cup Over) \cup Checking) = Cardinality(FailedNow) + Cardinality(Over) + Cardinality(Checking)
  BY <1>0, <1>1, <1>2, Finite
<1>4. (FailedNow \cup Over) \cup Checking \in SUBSET Attempts
  BY DEF FailedNow, Over, Checking
<1> QED BY <1>3, <1>4, RateAssumption, FS_Subset

\* One submission goes on to another phase.
LEMMA PhaseMoves ==
  ASSUME RateShape, NEW a \in Attempts, NEW u \in Submission, attempt' = [attempt EXCEPT ![a] = u]
  PROVE  /\ attempt' \in [Attempts -> Submission]
         /\ attempt'[a] = u /\ \A c \in Attempts \ {a} : attempt'[c] = attempt[c]
         /\ u.at = "failed" => FailedNow' = FailedNow \cup {a}
         /\ u.at # "failed" => FailedNow' = FailedNow \ {a}
         /\ u.at = "checking" => Checking' = Checking \cup {a}
         /\ u.at # "checking" => Checking' = Checking \ {a}
         /\ u.at \in Counting /\ u.count >= MaxFailures => Over' = Over \cup {a}
         /\ ~(u.at \in Counting /\ u.count >= MaxFailures) => Over' = Over \ {a}
<1>1. /\ attempt' \in [Attempts -> Submission]
      /\ attempt'[a] = u /\ \A c \in Attempts \ {a} : attempt'[c] = attempt[c]
  BY DEF RateShape
<1> QED BY <1>1 DEF FailedNow, Checking, Over

\* The numbers of a state, as naturals.
LEMMA RateNumbers ==
  ASSUME RateShape
  PROVE  /\ Charged \in Nat /\ Charged <= failures
         /\ tick \in Nat /\ failures \in Nat /\ expires \in Nat /\ lockedTill \in Nat /\ wrong \in Nat
         /\ missed.count \in Nat /\ missed.lock \in Nat
         /\ MaxFailures \in Nat \ {0} /\ Window \in Nat \ {0}
BY RateAssumption DEF RateShape, Charged, CounterGone

LEMMA SubmitBounded ==
  ASSUME RateInv, NEW a \in Attempts, Submit(a) \/ Unanswered(a)
  PROVE  RateInv'
<1> DEFINE u == IF attempt[a].at = "idle" THEN [attempt[a] EXCEPT !.at = "checking"] ELSE Resting
<1>1. attempt[a] \in Submission /\ RateShape
  BY DEF RateInv, RateShape
<1>2. u \in Submission /\ u.at \in {"idle", "checking"} /\ (attempt[a].at # "idle" => u.at = "idle")
  BY <1>1 DEF Submission, Phases, Resting
<1>3. attempt' = [attempt EXCEPT ![a] = u] /\ attempt[a].at \in {"idle", "checking"}
      /\ (attempt[a].at = "idle" => ~ IsLocked)
  BY DEF Submit, Unanswered
<1>4. UNCHANGED <<tick, failures, expires, lockedTill, wrong, missed>>
  BY DEF Submit, Unanswered
<1> HIDE DEF u
<1>5. a \notin FailedNow /\ a \notin Over /\ (attempt[a].at = "checking" => a \in Checking)
  BY <1>3 DEF FailedNow, Over, Checking, Counting
<1>6. FailedNow' = FailedNow /\ Over' = Over /\ (attempt[a].at # "idle" => Checking' = Checking \ {a})
  <2>1. FailedNow' = FailedNow \ {a} /\ Over' = Over \ {a} /\ (u.at = "idle" => Checking' = Checking \ {a})
    BY <1>1, <1>2, <1>3, PhaseMoves DEF Counting
  <2> QED BY <1>2, <1>5, <2>1
<1>7. RateShape' /\ AboutToLock'
  BY <1>1, <1>2, <1>3, <1>4, PhaseMoves DEF RateInv, RateShape, AboutToLock, Counting
<1>8. CountHeld' /\ OpenCharged'
  BY <1>4, <1>6 DEF RateInv, CountHeld, OpenCharged, IsLocked, Charged, CounterGone
<1>9. IsLocked => Cardinality(Checking') = Cardinality(Checking) - 1
  BY <1>3, <1>5, <1>6, Finite, FS_RemoveElement
<1>10. LockedSpare'
  BY <1>1, <1>4, <1>9, Finite, RateNumbers DEF RateInv, LockedSpare, IsLocked
<1> QED BY <1>7, <1>8, <1>10 DEF RateInv

LEMMA RightBounded ==
  ASSUME RateInv, NEW a \in Attempts, Right(a)
  PROVE  RateInv'
<1>1. RateShape /\ Resting \in Submission /\ Resting.at = "idle"
  BY DEF RateInv, Submission, Phases, Resting
<1>2. attempt' = [attempt EXCEPT ![a] = Resting] /\ tick' = tick /\ failures' = 0 /\ expires' = 0
      /\ lockedTill' = 0 /\ wrong' = 0 /\ missed' = NoneMissed /\ NoneMissed \in [count : Nat, lock : Nat]
  BY DEF Right, NoneMissed
<1>3. RateShape' /\ AboutToLock'
  BY <1>1, <1>2, PhaseMoves DEF RateInv, RateShape, AboutToLock, Counting
<1>4. Cardinality(FailedNow)' \in Nat /\ Cardinality(Over)' \in Nat
  <2>1. FailedNow' = FailedNow \ {a} /\ Over' = Over \ {a}
    BY <1>1, <1>2, PhaseMoves DEF Counting
  <2>2. IsFiniteSet(FailedNow') /\ IsFiniteSet(Over')
    BY <2>1, Finite, FS_RemoveElement
  <2> QED BY <2>2, FS_CardinalityType
<1>5. ~ IsLocked'
  BY <1>1, <1>2 DEF IsLocked, RateShape
<1>6. CountHeld' /\ OpenCharged'
  <2>1. Charged' = 0 /\ missed'.count \in Nat /\ missed'.lock \in Nat
    BY <1>2 DEF Charged, CounterGone
  <2> QED BY <1>2, <1>4, <2>1, RateAssumption DEF CountHeld, OpenCharged
<1> QED BY <1>3, <1>5, <1>6 DEF RateInv, LockedSpare

LEMMA WrongBounded ==
  ASSUME RateInv, NEW a \in Attempts, Wrong(a)
  PROVE  RateInv'
<1> DEFINE u == IF IsLocked THEN Resting ELSE [attempt[a] EXCEPT !.at = "failed"]
<1>1. attempt[a] \in Submission /\ RateShape
  BY DEF RateInv, RateShape
<1>2. u \in Submission /\ u.at = IF IsLocked THEN "idle" ELSE "failed"
  BY <1>1 DEF Submission, Phases, Resting
<1>3. attempt' = [attempt EXCEPT ![a] = u] /\ attempt[a].at = "checking" /\ wrong' = wrong + 1
      /\ UNCHANGED <<tick, failures, expires, lockedTill, missed>>
  BY DEF Wrong
<1> HIDE DEF u
<1>4. a \notin FailedNow /\ a \notin Over /\ a \in Checking
  BY <1>3 DEF FailedNow, Over, Checking, Counting
<1>5. Over' = Over /\ Checking' = Checking \ {a}
      /\ FailedNow' = IF IsLocked THEN FailedNow ELSE FailedNow \cup {a}
  <2>1. Over' = Over \ {a} /\ Checking' = Checking \ {a}
        /\ (IsLocked => FailedNow' = FailedNow \ {a}) /\ (~ IsLocked => FailedNow' = FailedNow \cup {a})
    BY <1>1, <1>2, <1>3, PhaseMoves DEF Counting
  <2> QED BY <1>4, <2>1
<1>6. RateShape' /\ AboutToLock'
  BY <1>1, <1>2, <1>3, PhaseMoves DEF RateInv, RateShape, AboutToLock, Counting
<1>7. Cardinality(Checking') = Cardinality(Checking) - 1
      /\ Cardinality(FailedNow') = IF IsLocked THEN Cardinality(FailedNow) ELSE Cardinality(FailedNow) + 1
  BY <1>4, <1>5, Finite, FS_RemoveElement, FS_AddElement
<1>8. IsLocked' = IsLocked /\ Charged' = Charged /\ Charged \in Nat
  BY <1>1, <1>3 DEF IsLocked, Charged, CounterGone, RateShape
<1>9. CountHeld' /\ OpenCharged'
  BY <1>1, <1>3, <1>5, <1>7, <1>8, Finite, RateNumbers DEF RateInv, CountHeld, OpenCharged
<1>10. LockedSpare'
  BY <1>1, <1>3, <1>7, <1>8, Finite, RateNumbers DEF RateInv, LockedSpare
<1> QED BY <1>6, <1>9, <1>10 DEF RateInv

LEMMA AddBounded ==
  ASSUME RateInv, NEW a \in Attempts, AddFailure(a)
  PROVE  RateInv'
<1> DEFINE n == Counted
           u == [at |-> "counted", count |-> n, due |-> tick]
<1>1. attempt[a] \in Submission /\ RateShape
  BY DEF RateInv, RateShape
<1>2. n \in Nat /\ n = IF CounterGone THEN 1 ELSE failures + 1
  BY <1>1 DEF Counted, CounterGone, RateShape
<1>3. attempt' = [attempt EXCEPT ![a] = u] /\ attempt[a].at = "failed" /\ failures' = n
      /\ expires' = (IF CounterGone THEN 0 ELSE expires) /\ UNCHANGED <<tick, lockedTill, wrong, missed>>
  BY DEF AddFailure, CounterGone
<1> HIDE DEF n
<1>4. u \in Submission
  BY <1>1, <1>2 DEF Submission, Phases, RateShape
<1>5. u.at = "counted" /\ u.count = n /\ u.due = tick
  OBVIOUS
<1> HIDE DEF u
<1>6. a \in FailedNow /\ a \notin Over /\ a \notin Checking
  BY <1>3 DEF FailedNow, Over, Checking, Counting
<1>7. FailedNow' = FailedNow \ {a} /\ Checking' = Checking
      /\ Over' = IF n >= MaxFailures THEN Over \cup {a} ELSE Over
  <2>1. FailedNow' = FailedNow \ {a} /\ Checking' = Checking \ {a}
        /\ (n >= MaxFailures => Over' = Over \cup {a}) /\ (~(n >= MaxFailures) => Over' = Over \ {a})
    BY <1>1, <1>3, <1>4, <1>5, PhaseMoves DEF Counting
  <2> QED BY <1>6, <2>1
<1>8. RateShape' /\ AboutToLock'
  BY <1>1, <1>2, <1>3, <1>4, <1>5, PhaseMoves DEF RateInv, RateShape, AboutToLock, Counting
<1>9. Cardinality(FailedNow') = Cardinality(FailedNow) - 1
      /\ Cardinality(Over') = IF n >= MaxFailures THEN Cardinality(Over) + 1 ELSE Cardinality(Over)
  BY <1>6, <1>7, Finite, FS_RemoveElement, FS_AddElement
<1>10. IsLocked' = IsLocked /\ Charged' = n
  BY <1>1, <1>2, <1>3 DEF IsLocked, Charged, CounterGone, RateShape
<1>0. n = Charged + 1
  BY <1>2 DEF Charged
<1>11. CountHeld'
  BY <1>0, <1>1, <1>2, <1>3, <1>9, <1>10, Finite, RateNumbers DEF RateInv, CountHeld
<1>12. OpenCharged'
  BY <1>0, <1>1, <1>2, <1>3, <1>9, <1>10, Finite, RateNumbers DEF RateInv, OpenCharged
<1>13. LockedSpare'
  BY <1>3, <1>7, <1>10 DEF RateInv, LockedSpare
<1> QED BY <1>8, <1>11, <1>12, <1>13 DEF RateInv

LEMMA ExpiryBounded ==
  ASSUME RateInv, NEW a \in Attempts, SetExpiry(a)
  PROVE  RateInv'
<1> DEFINE t == attempt[a]
           u == IF t.count < MaxFailures THEN Resting ELSE [t EXCEPT !.at = "locking"]
<1>1. t \in Submission /\ RateShape /\ AboutToLock /\ t.at = "counted"
  BY DEF RateInv, RateShape, SetExpiry
<1>2. u \in Submission /\ (IF t.count < MaxFailures THEN u = Resting ELSE u.at = "locking" /\ u.count = t.count /\ u.due = t.due)
  BY <1>1, RateAssumption DEF Submission, Phases, Resting, SetExpiry
<1>3. attempt' = [attempt EXCEPT ![a] = u] /\ UNCHANGED <<tick, failures, lockedTill, wrong, missed>>
      /\ (expires' = expires \/ (expires = 0 /\ expires' = tick + Window))
  <2>1. attempt' = [attempt EXCEPT ![a] = u]
    BY DEF SetExpiry
  <2> QED BY <2>1 DEF SetExpiry
<1> HIDE DEF u
<1>4. Resting.at = "idle" /\ t.count \in Nat /\ MaxFailures \in Nat /\ Window \in Nat \ {0}
  BY <1>1, RateAssumption DEF Resting, Submission
<1>5. a \notin FailedNow /\ a \notin Checking /\ (a \in Over <=> t.count >= MaxFailures)
  BY <1>1 DEF FailedNow, Over, Checking, Counting
<1>6. FailedNow' = FailedNow /\ Checking' = Checking /\ Over' = Over
  <2>1. FailedNow' = FailedNow \ {a} /\ Checking' = Checking \ {a}
    BY <1>1, <1>2, <1>3, <1>4, PhaseMoves
  <2>2. CASE t.count >= MaxFailures
    <3>0. u.at = "locking" /\ u.count = t.count
      BY <1>2, <1>4, <2>2
    <3>1. Over' = Over \cup {a}
      BY <1>1, <1>2, <1>3, <2>2, <3>0, PhaseMoves DEF Counting
    <3> QED BY <1>5, <2>1, <2>2, <3>1
  <2>3. CASE t.count < MaxFailures
    <3>1. Over' = Over \ {a}
      BY <1>1, <1>2, <1>3, <1>4, <2>3, PhaseMoves DEF Counting
    <3> QED BY <1>4, <1>5, <2>1, <2>3, <3>1
  <2> QED BY <1>4, <2>2, <2>3
<1>7. AboutToLock'
  BY <1>1, <1>2, <1>3, <1>4, PhaseMoves DEF AboutToLock, Counting
<1>8. RateShape'
  BY <1>1, <1>2, <1>3, <1>4, PhaseMoves DEF RateShape
<1>9. Charged' = Charged /\ IsLocked' = IsLocked
  BY <1>1, <1>3, <1>4 DEF Charged, CounterGone, IsLocked, RateShape
<1> QED BY <1>3, <1>6, <1>7, <1>8, <1>9 DEF RateInv, CountHeld, OpenCharged, LockedSpare

LEMMA LockBounded ==
  ASSUME RateInv, NEW a \in Attempts, LockKey(a)
  PROVE  RateInv'
<1> DEFINE u == [attempt[a] EXCEPT !.at = "resetting"]
<1>1. RateShape /\ AboutToLock /\ attempt[a] \in Submission /\ attempt[a].at = "locking"
  BY DEF RateInv, RateShape, LockKey
<1>2. /\ u \in Submission /\ u.at = "resetting" /\ u.count = attempt[a].count /\ u.due = tick
      /\ u.count >= MaxFailures
  BY <1>1 DEF Submission, Phases, AboutToLock, Counting
<1>3. attempt' = [attempt EXCEPT ![a] = u] /\ UNCHANGED <<tick, failures, expires, wrong, missed>>
      /\ lockedTill' = tick + Window
  BY <1>1 DEF LockKey, AboutToLock, Counting
<1> HIDE DEF u
<1>4. a \notin Checking /\ a \in Over
  BY <1>1 DEF Checking, Over, AboutToLock, Counting
<1>5. Checking' = Checking /\ Over' = Over
  <2>1. Checking' = Checking \ {a} /\ Over' = Over \cup {a}
    BY <1>1, <1>2, <1>3, PhaseMoves DEF Counting
  <2> QED BY <1>4, <2>1
<1>6. RateShape' /\ AboutToLock'
  BY <1>1, <1>2, <1>3, RateNumbers, PhaseMoves DEF RateShape, AboutToLock, Counting
<1>7. CountHeld'
  BY <1>3, <1>5 DEF RateInv, CountHeld, Charged, CounterGone
<1>8. IsLocked'
  BY <1>1, <1>3, RateNumbers DEF IsLocked
<1>9. wrong + Cardinality(Checking) <= MaxFailures - 1 + Cardinality(Attempts) + missed.count + missed.lock
  <2>1. CASE IsLocked
    BY <2>1 DEF RateInv, LockedSpare
  <2>2. CASE ~ IsLocked
    <3>1. /\ wrong <= Cardinality(FailedNow) + Charged + missed.count
          /\ Charged <= MaxFailures - 1 + Cardinality(Over) + missed.lock
      BY <2>2 DEF RateInv, OpenCharged, CountHeld
    <3> QED BY <1>1, <3>1, Finite, PhasesApart, RateNumbers
  <2> QED BY <2>1, <2>2
<1> QED BY <1>3, <1>5, <1>6, <1>7, <1>8, <1>9 DEF RateInv, OpenCharged, LockedSpare

\* A submission comes to rest after the store was asked, or without asking it.
LEMMA ComesToRest ==
  ASSUME RateShape, AboutToLock, NEW a \in Attempts, attempt' = [attempt EXCEPT ![a] = Resting], tick' = tick
  PROVE  /\ attempt' \in [Attempts -> Submission] /\ AboutToLock'
         /\ FailedNow' = FailedNow \ {a} /\ Over' = Over \ {a} /\ Checking' = Checking \ {a}
         /\ Cardinality(FailedNow') = Cardinality(FailedNow) - (IF a \in FailedNow THEN 1 ELSE 0)
         /\ Cardinality(Over') = Cardinality(Over) - (IF a \in Over THEN 1 ELSE 0)
         /\ Cardinality(Checking') = Cardinality(Checking) - (IF a \in Checking THEN 1 ELSE 0)
<1>1. Resting \in Submission /\ Resting.at = "idle"
  BY DEF Submission, Phases, Resting
<1>2. /\ attempt' \in [Attempts -> Submission]
      /\ attempt'[a] = Resting /\ \A c \in Attempts \ {a} : attempt'[c] = attempt[c]
      /\ FailedNow' = FailedNow \ {a} /\ Over' = Over \ {a} /\ Checking' = Checking \ {a}
  BY <1>1, PhaseMoves DEF Counting
<1>3. AboutToLock'
  BY <1>1, <1>2 DEF AboutToLock, Counting
<1>4. ASSUME NEW S, IsFiniteSet(S)
      PROVE  Cardinality(S \ {a}) = Cardinality(S) - (IF a \in S THEN 1 ELSE 0)
  <2>1. CASE a \in S
    BY <1>4, <2>1, FS_RemoveElement
  <2>2. CASE a \notin S
    <3>1. S \ {a} = S /\ Cardinality(S) \in Nat
      BY <1>4, <2>2, FS_CardinalityType
    <3> QED BY <2>2, <3>1
  <2> QED BY <2>1, <2>2
<1> QED BY <1>2, <1>3, <1>4, Finite

\* What a late reset deletes is missed, unless the key is locked.
LEMMA ResetBounded ==
  ASSUME RateInv, NEW a \in Attempts, ResetFailures(a)
  PROVE  RateInv'
<1>1. RateShape /\ AboutToLock
  BY DEF RateInv
<1>2. attempt' = [attempt EXCEPT ![a] = Resting] /\ tick' = tick /\ failures' = 0 /\ expires' = 0
      /\ UNCHANGED <<lockedTill, wrong>>
      /\ missed' = IF IsLocked THEN missed ELSE [missed EXCEPT !.count = @ + failures]
  BY DEF ResetFailures
<1>3. a \notin FailedNow /\ a \notin Checking
  BY DEF ResetFailures, FailedNow, Checking
<1>4. AboutToLock' /\ Checking' = Checking /\ FailedNow' = FailedNow /\ Cardinality(Over') \in Nat
  <2>1. Cardinality(Over') \in Nat
    BY <1>1, <1>2, ComesToRest, Finite, FS_RemoveElement, FS_CardinalityType
  <2> QED BY <1>1, <1>2, <1>3, <2>1, ComesToRest
<1>5. missed' \in [count : Nat, lock : Nat] /\ missed'.lock = missed.lock
      /\ missed'.count = missed.count + (IF IsLocked THEN 0 ELSE failures)
  BY <1>1, <1>2 DEF RateShape
<1>6. RateShape'
  BY <1>1, <1>2, <1>5, ComesToRest DEF RateShape
<1>7. Charged' = 0 /\ IsLocked' = IsLocked
  BY <1>2 DEF Charged, CounterGone, IsLocked
<1>8. CountHeld'
  BY <1>1, <1>4, <1>5, <1>7, RateNumbers DEF CountHeld
<1>9. OpenCharged'
  BY <1>1, <1>2, <1>4, <1>5, <1>7, Finite, RateNumbers DEF RateInv, OpenCharged
<1>10. LockedSpare'
  BY <1>1, <1>2, <1>4, <1>5, <1>7 DEF RateInv, LockedSpare
<1> QED BY <1>4, <1>6, <1>8, <1>9, <1>10 DEF RateInv

\* What the store did not take is missed.
LEMMA UnheardBounded ==
  ASSUME RateInv, NEW a \in Attempts, Unheard(a)
  PROVE  RateInv'
<1>1. RateShape /\ AboutToLock
  BY DEF RateInv
<1>2. attempt' = [attempt EXCEPT ![a] = Resting] /\ UNCHANGED <<tick, failures, expires, lockedTill, wrong>>
  BY DEF Unheard
<1>3. a \notin Checking /\ (a \in FailedNow <=> attempt[a].at = "failed")
      /\ (a \in Over <=> attempt[a].at # "failed" /\ attempt[a].count >= MaxFailures)
  BY DEF Unheard, FailedNow, Checking, Over, Counting
<1>4. missed' \in [count : Nat, lock : Nat]
      /\ missed'.count = missed.count + (IF a \in FailedNow THEN 1 ELSE 0)
      /\ missed'.lock = missed.lock + (IF a \in Over THEN 1 ELSE 0)
  <2>1. CASE attempt[a].at = "failed"
    BY <1>1, <1>3, <2>1 DEF Unheard, RateShape
  <2>2. CASE attempt[a].at # "failed" /\ attempt[a].count >= MaxFailures
    BY <1>1, <1>3, <2>2 DEF Unheard, RateShape
  <2>3. CASE attempt[a].at # "failed" /\ ~ (attempt[a].count >= MaxFailures)
    BY <1>1, <1>3, <2>3 DEF Unheard, RateShape
  <2> QED BY <2>1, <2>2, <2>3
<1>5. RateShape' /\ AboutToLock'
  BY <1>1, <1>2, <1>4, ComesToRest DEF RateShape
<1>6. /\ Cardinality(FailedNow') + missed'.count = Cardinality(FailedNow) + missed.count
      /\ Cardinality(Over') + missed'.lock = Cardinality(Over) + missed.lock
      /\ Cardinality(Checking') = Cardinality(Checking)
      /\ Cardinality(FailedNow') \in Int /\ Cardinality(Over') \in Int
      /\ missed'.count \in Nat /\ missed'.lock \in Nat
      /\ missed'.count >= missed.count /\ missed'.lock >= missed.lock
  <2>1. /\ Cardinality(FailedNow') = Cardinality(FailedNow) - (IF a \in FailedNow THEN 1 ELSE 0)
        /\ Cardinality(Over') = Cardinality(Over) - (IF a \in Over THEN 1 ELSE 0)
        /\ Cardinality(Checking') = Cardinality(Checking)
    BY <1>1, <1>2, <1>3, ComesToRest, Finite
  <2> QED BY <1>1, <1>4, <2>1, Finite, RateNumbers
<1>7. Charged' = Charged /\ IsLocked' = IsLocked
  BY <1>2 DEF Charged, CounterGone, IsLocked
<1>8. CountHeld' /\ OpenCharged'
  BY <1>1, <1>2, <1>6, <1>7, Finite, RateNumbers DEF RateInv, CountHeld, OpenCharged
<1>9. LockedSpare'
  BY <1>1, <1>2, <1>6, <1>7, Finite, RateNumbers DEF RateInv, LockedSpare
<1> QED BY <1>5, <1>8, <1>9 DEF RateInv

LEMMA AdvanceBounded ==
  ASSUME RateInv, Advance
  PROVE  RateInv'
<1> DEFINE over == tick + 1 = lockedTill \/ CounterEnds
<1>1. RateShape /\ \A a \in Attempts : attempt[a].at \in {"idle", "checking"}
  BY DEF RateInv, Advance
<1>2. /\ tick' = tick + 1 /\ UNCHANGED <<failures, expires, lockedTill, attempt>>
      /\ wrong' = IF over THEN 0 ELSE wrong
      /\ missed' = IF over /\ (CounterEnds \/ failures < MaxFailures) THEN NoneMissed ELSE missed
  BY DEF Advance
<1>3. FailedNow = {} /\ FailedNow' = {} /\ Over = {} /\ Over' = {} /\ Checking' = Checking
  BY <1>1, <1>2 DEF FailedNow, Over, Checking, Counting
<1>4. /\ Cardinality(FailedNow) = 0 /\ Cardinality(FailedNow') = 0
      /\ Cardinality(Over) = 0 /\ Cardinality(Over') = 0 /\ Cardinality(Checking) <= Cardinality(Attempts)
  <2>1. /\ Cardinality(FailedNow) = 0 /\ Cardinality(FailedNow') = 0
        /\ Cardinality(Over) = 0 /\ Cardinality(Over') = 0
    BY <1>3, FS_EmptySet
  <2> QED BY <2>1, PhasesApart, Finite
<1>5. missed' \in [count : Nat, lock : Nat] /\ missed'.count \in Nat /\ missed'.lock \in Nat
  BY <1>1, <1>2 DEF RateShape, NoneMissed
<1>6. RateShape' /\ AboutToLock'
  BY <1>1, <1>2, <1>5 DEF RateShape, AboutToLock, Counting
<1>7. CounterGone' = CounterEnds /\ (CounterGone => CounterEnds)
  BY <1>1, <1>2, RateNumbers DEF CounterGone, CounterEnds
<1>8. Charged' = IF CounterEnds THEN 0 ELSE failures
  BY <1>2, <1>7 DEF Charged
<1>9. CountHeld'
  <2>1. CASE CounterEnds \/ failures < MaxFailures
    BY <1>1, <1>4, <1>5, <1>8, <2>1, RateNumbers DEF CountHeld
  <2>2. CASE ~ CounterEnds /\ ~ (failures < MaxFailures)
    BY <1>1, <1>2, <1>4, <1>7, <1>8, <2>2 DEF RateInv, CountHeld, Charged
  <2> QED BY <2>1, <2>2
<1>10. OpenCharged'
  <2>1. CASE over
    BY <1>1, <1>2, <1>4, <1>5, <1>8, <2>1, RateNumbers DEF OpenCharged
  <2>2. CASE ~ over
    <3>1. ~ IsLocked' => ~ IsLocked
      BY <1>1, <1>2, <2>2, RateNumbers DEF IsLocked
    <3>2. Charged' = Charged /\ missed' = missed /\ wrong' = wrong
      BY <1>2, <1>7, <1>8, <2>2 DEF Charged
    <3> QED BY <1>4, <3>1, <3>2 DEF RateInv, OpenCharged
  <2> QED BY <2>1, <2>2
<1>11. LockedSpare'
  <2>1. CASE over
    BY <1>1, <1>2, <1>3, <1>4, <1>5, <2>1, Finite, RateNumbers DEF LockedSpare
  <2>2. CASE ~ over
    <3>1. IsLocked' => IsLocked
      BY <1>1, <1>2, RateNumbers DEF IsLocked
    <3> QED BY <1>2, <1>3, <2>2, <3>1 DEF RateInv, LockedSpare
  <2> QED BY <2>1, <2>2
<1> QED BY <1>6, <1>9, <1>10, <1>11 DEF RateInv

\* However many submissions are in flight, on however many replicas, a key is given at most
\* MaxFailures - 1 wrong guesses more than there are submissions in flight before it is locked,
\* and one more for each failure that was not counted and each threshold that was not dealt
\* with: a store that raises, a process that dies, a reset that comes late
\* (LoginRateLimiter.record_failure).
THEOREM KeyGuessesBounded == RateSpec => []GuessesBounded
<1>1. RateInit => RateInv
  <2> SUFFICES ASSUME RateInit PROVE RateInv
    OBVIOUS
  <2>1. RateShape /\ AboutToLock
    BY DEF RateInit, RateShape, AboutToLock, Submission, Phases, Resting, NoneMissed, Counting
  <2>2. CountHeld /\ OpenCharged
    BY <2>1, Finite, RateNumbers DEF RateInit, CountHeld, OpenCharged, Charged, CounterGone
  <2>3. ~ IsLocked
    BY DEF RateInit, IsLocked
  <2> QED BY <2>1, <2>2, <2>3 DEF RateInv, LockedSpare
<1>2. RateInv /\ [RateNext]_rateVars => RateInv'
  <2> SUFFICES ASSUME RateInv, [RateNext]_rateVars PROVE RateInv'
    OBVIOUS
  <2>1. ASSUME UNCHANGED <<tick, failures, expires, lockedTill, attempt, wrong, missed>> PROVE RateInv'
    BY <2>1 DEF RateInv, RateShape, AboutToLock, CountHeld, OpenCharged, LockedSpare, IsLocked, Charged,
                CounterGone, FailedNow, Checking, Over, Counting
  <2>2. ASSUME NEW a \in Attempts, AllowRead(a) \/ AllowSend(a) PROVE RateInv'
    BY <2>1, <2>2 DEF AllowRead, AllowSend
  <2>3. CASE UNCHANGED rateVars
    BY <2>1, <2>3 DEF rateVars
  <2> QED BY <2>2, <2>3, SubmitBounded, RightBounded, WrongBounded, AddBounded, ExpiryBounded, LockBounded,
             ResetBounded, UnheardBounded, AdvanceBounded DEF RateNext
<1>3. RateInv => GuessesBounded
  <2> SUFFICES ASSUME RateInv PROVE GuessesBounded
    OBVIOUS
  <2>1. RateShape
    BY DEF RateInv
  <2>2. CASE IsLocked
    BY <2>1, <2>2, Finite, RateNumbers DEF RateInv, LockedSpare, GuessesBounded
  <2>3. CASE ~ IsLocked
    <3>1. /\ wrong <= Cardinality(FailedNow) + Charged + missed.count
          /\ Charged <= MaxFailures - 1 + Cardinality(Over) + missed.lock
      BY <2>3 DEF RateInv, OpenCharged, CountHeld
    <3> QED BY <2>1, <3>1, Finite, PhasesApart, RateNumbers DEF GuessesBounded
  <2> QED BY <2>2, <2>3
<1> QED BY <1>1, <1>2, <1>3, PTL DEF RateSpec

-----------------------------------------------------------------------------
(***************************************************************************)
(* Proofs about Invitations, for any number of addresses, tabs, links and  *)
(* hours: whose login a link made is of some household, or is awaited by   *)
(* the acceptance that made it or by the declining that will delete it.    *)
(* A declined joiner's login goes because every invitation spent on the    *)
(* address is no newer than the login.                                     *)
(***************************************************************************)
Invite == [token : Nat, email : Addresses, made : Nat, accepted : Int]
Place == [status : {"none", "pending", "active", "removed", "elsewhere"}, was : BOOLEAN]
Login == [made : Nat, by : {"none", "link", "self", "kept"}, admin : BOOLEAN]
Acceptance == [state : {"idle", "creating", "joining"}, token : Nat]

\* Invitations have the numbers 1 to n as their tokens.
Numbered(S, n) ==
  /\ \A i \in S : i.token \in 1 .. n
  /\ \A k \in 1 .. n : \E i \in S : i.token = k
  /\ \A i, j \in S : i.token = j.token => i = j

InviteShape ==
  /\ hour \in Nat \ {0}
  /\ invites \in SUBSET Invite
  /\ \A i \in invites : i.made <= hour /\ i.accepted <= hour
  /\ \E n \in Nat : Numbered(invites, n)
  /\ places \in [Addresses -> Place]
  /\ logins \in [Addresses -> Login]
  /\ turnedAway \in [Addresses -> Nat]
  /\ joiner \in [Joiners -> Acceptance]
  /\ DOMAIN ownerTab = OwnerTabs
  /\ \A t \in OwnerTabs : ownerTab[t].state = "writing" => ownerTab[t].email \in Addresses

Spent(e) == {i \in invites : i.email = e /\ i.accepted > 0}
Under(b) == {i \in invites : i.token = joiner[b].token}

JoinersKnown == \A b \in Joiners : joiner[b].state # "idle" => Under(b) # {}
FormerKnown ==
  \A e \in Addresses : /\ places[e].status = "removed" => places[e].was
                       /\ places[e].was => places[e].status \in {"pending", "active", "removed"}
PendingSpent == \A e \in Addresses : places[e].status = "pending" \/ turnedAway[e] # 0 => Spent(e) # {}
LinkNewer ==
  \A e \in Addresses : logins[e].by = "link" /\ ~ places[e].was => \A i \in Spent(e) : i.made <= logins[e].made
JoiningNewer ==
  \A b \in Joiners : joiner[b].state = "joining" =>
     \A i \in Under(b) : logins[i.email].by = "link" => i.made <= logins[i.email].made
Awaited ==
  \A e \in Addresses :
     logins[e].by = "link" /\ ~ stopped /\ places[e].status = "none" /\ turnedAway[e] # logins[e].made =>
     \E b \in Joiners : joiner[b].state = "joining" /\ \E i \in Under(b) : i.email = e
StrayInv == InviteShape /\ JoinersKnown /\ FormerKnown /\ PendingSpent /\ LinkNewer /\ JoiningNewer /\ Awaited

\* A nonempty set of numbers has a least one.
LEMMA LeastNumber ==
  ASSUME NEW T \in SUBSET Nat, T # {}
  PROVE  \E x \in T : \A y \in T : x <= y
<1> DEFINE R == StrictSubsetOrdering(Nat)
           F == FiniteSubsetsOf(Nat)
           Below(x) == 0 .. x
           U == {Below(x) : x \in T}
<1>1. IsWellFoundedOn(R, F)
  BY FS_StrictSubsetOrderingWellFounded
<1>2. U \subseteq F /\ U # {}
  <2>1. \A x \in T : IsFiniteSet(Below(x)) /\ Below(x) \in SUBSET Nat
    BY FS_Interval
  <2> QED BY <2>1 DEF FiniteSubsetsOf
<1> HIDE DEF U, R, F
<1>3. \E u \in U : \A v \in U : ~ (<<v, u>> \in R)
  BY <1>1, <1>2, WFMin
<1>4. PICK x \in T : \A y \in T : ~ (<<Below(y), Below(x)>> \in R)
  BY <1>3 DEF U
<1>5. ASSUME NEW y \in T, ~ (x <= y) PROVE FALSE
  <2>1. Below(y) \subseteq Below(x) /\ x \in Below(x) /\ x \notin Below(y)
        /\ Below(y) \in SUBSET Nat /\ Below(x) \in SUBSET Nat
    BY <1>5
  <2>2. <<Below(y), Below(x)>> \in R
    BY <2>1 DEF R, StrictSubsetOrdering
  <2> QED BY <1>4, <2>2
<1> QED BY <1>5

\* The tokens count the invitations.
LEMMA NumberedCount ==
  ASSUME NEW S, NEW n \in Nat, Numbered(S, n)
  PROVE  Cardinality(S) = n
<1> DEFINE f == [k \in 1 .. n |-> CHOOSE i \in S : i.token = k]
<1>1. \A k \in 1 .. n : f[k] \in S /\ f[k].token = k
  BY DEF Numbered
<1>2. f \in [1 .. n -> S]
  BY <1>1
<1> HIDE DEF f
<1>3. IsInjective(f)
  BY <1>1, <1>2 DEF IsInjective
<1>4. \A i \in S : \E k \in 1 .. n : f[k] = i
  BY <1>1 DEF Numbered
<1>5. f \in Bijection(1 .. n, S)
  BY <1>2, <1>3, <1>4 DEF Bijection, Injection, Surjection
<1> QED BY <1>5, FS_CountingElements DEF ExistsBijection

Alike(i, j) == j.token = i.token /\ j.email = i.email /\ j.made = i.made

AfterTaking(S, e) == {IF i.email = e /\ i.accepted = 0 THEN [i EXCEPT !.accepted = -1] ELSE i : i \in S}
AfterSpending(S, i) == (S \ {i}) \cup {[i EXCEPT !.accepted = hour]}

\* Invitations that are taken back stay, as they were but for being open.
LEMMA TakenBack ==
  ASSUME NEW S \in SUBSET Invite, NEW n \in Nat, Numbered(S, n), NEW e, hour \in Nat,
         \A i \in S : i.made <= hour /\ i.accepted <= hour
  PROVE  /\ AfterTaking(S, e) \in SUBSET Invite /\ Numbered(AfterTaking(S, e), n)
         /\ \A j \in AfterTaking(S, e) : j.made <= hour /\ j.accepted <= hour
         /\ \A i \in S : \E j \in AfterTaking(S, e) : Alike(i, j) /\ (i.accepted > 0 => j.accepted > 0)
         /\ \A j \in AfterTaking(S, e) : \E i \in S : Alike(i, j) /\ (j.accepted > 0 => i.accepted > 0)
<1> DEFINE f(i) == IF i.email = e /\ i.accepted = 0 THEN [i EXCEPT !.accepted = -1] ELSE i
           T == AfterTaking(S, e)
<1>1. ASSUME NEW i \in S
      PROVE  f(i) \in Invite /\ Alike(i, f(i)) /\ (i.accepted > 0 <=> f(i).accepted > 0) /\ f(i).accepted <= hour
  <2>1. i \in Invite /\ i.accepted <= hour
    OBVIOUS
  <2>2. CASE i.email = e /\ i.accepted = 0
    BY <2>1, <2>2 DEF Invite, Alike
  <2>3. CASE ~(i.email = e /\ i.accepted = 0)
    BY <2>1, <2>3 DEF Alike
  <2> QED BY <2>2, <2>3
<1>2. T = {f(i) : i \in S}
  BY DEF AfterTaking
<1> HIDE DEF f, T
<1>3. T \in SUBSET Invite /\ \A j \in T : j.made <= hour /\ j.accepted <= hour
  BY <1>1, <1>2 DEF Alike
<1>4. Numbered(T, n)
  BY <1>1, <1>2 DEF Numbered, Alike
<1>5. /\ \A i \in S : \E j \in T : Alike(i, j) /\ (i.accepted > 0 => j.accepted > 0)
      /\ \A j \in T : \E i \in S : Alike(i, j) /\ (j.accepted > 0 => i.accepted > 0)
  BY <1>1, <1>2
<1> QED BY <1>3, <1>4, <1>5 DEF T

\* An invitation is spent.
LEMMA SpentOn ==
  ASSUME NEW S \in SUBSET Invite, NEW n \in Nat, Numbered(S, n), NEW i \in S, hour \in Nat \ {0},
         \A k \in S : k.made <= hour /\ k.accepted <= hour
  PROVE  /\ AfterSpending(S, i) \in SUBSET Invite /\ Numbered(AfterSpending(S, i), n)
         /\ \A j \in AfterSpending(S, i) : j.made <= hour /\ j.accepted <= hour
         /\ \A k \in S : \E j \in AfterSpending(S, i) : Alike(k, j) /\ (k.accepted > 0 => j.accepted > 0)
         /\ \A j \in AfterSpending(S, i) : \E k \in S : Alike(k, j) /\ (k = i \/ k = j)
         /\ \E j \in AfterSpending(S, i) : Alike(i, j) /\ j.accepted > 0
<1> DEFINE x == [i EXCEPT !.accepted = hour]
           T == AfterSpending(S, i)
<1>1. x \in Invite /\ Alike(i, x) /\ x.accepted = hour
  BY DEF Invite, Alike
<1>2. T = (S \ {i}) \cup {x}
  BY DEF AfterSpending
<1> HIDE DEF x, T
<1>3. T \in SUBSET Invite /\ \A j \in T : j.made <= hour /\ j.accepted <= hour
  BY <1>1, <1>2 DEF Alike
<1>4. Numbered(T, n)
  BY <1>1, <1>2 DEF Numbered, Alike
<1>5. \A k \in S : \E j \in T : Alike(k, j) /\ (k.accepted > 0 => j.accepted > 0)
  BY <1>1, <1>2 DEF Alike
<1>6. \A j \in T : \E k \in S : Alike(k, j) /\ (k = i \/ k = j)
  BY <1>1, <1>2 DEF Alike
<1>7. \E j \in T : Alike(i, j) /\ j.accepted > 0
  BY <1>1, <1>2
<1> QED BY <1>3, <1>4, <1>5, <1>6, <1>7 DEF T

\* The invitation a joiner came with.
LEMMA OfJoiner ==
  ASSUME InviteShape, JoinersKnown, NEW b \in Joiners, joiner[b].state # "idle"
  PROVE  Of(joiner[b].token) \in Under(b) /\ \A i \in Under(b) : i = Of(joiner[b].token)
<1>1. \E i \in invites : i.token = joiner[b].token
  BY DEF JoinersKnown, Under
<1> QED BY <1>1 DEF Of, Under, InviteShape, Numbered

\* NoStrayLogins is what the invariant says of the joiners.
LEMMA StraySound == StrayInv => NoStrayLogins
<1> SUFFICES ASSUME StrayInv, NEW e \in Addresses, logins[e].by = "link", ~ stopped,
                    \A b \in Joiners : joiner[b].state = "joining" => Of(joiner[b].token).email # e,
                    places[e].status = "none", turnedAway[e] # logins[e].made
             PROVE  FALSE
  BY DEF NoStrayLogins
<1>1. PICK b \in Joiners : joiner[b].state = "joining" /\ \E i \in Under(b) : i.email = e
  BY DEF StrayInv, Awaited
<1> QED BY <1>1, OfJoiner DEF StrayInv

\* The owner's writing changes no invitation that was spent.
LEMMA InvitesMove ==
  ASSUME StrayInv, InviteShape', UNCHANGED <<hour, places, logins, turnedAway, joiner, stopped>>,
         \A i \in invites : \E j \in invites' : Alike(i, j) /\ (i.accepted > 0 => j.accepted > 0),
         \A j \in invites' : \/ \E i \in invites : Alike(i, j) /\ (j.accepted > 0 => i.accepted > 0)
                             \/ j.accepted = 0 /\ \A i \in invites : i.token # j.token
  PROVE  StrayInv'
<1>1. JoinersKnown' /\ FormerKnown'
  BY DEF StrayInv, JoinersKnown, FormerKnown, Under, Alike
<1>2. PendingSpent' /\ LinkNewer'
  BY DEF StrayInv, PendingSpent, LinkNewer, Spent, Alike
<1>3. JoiningNewer'
  <2> SUFFICES ASSUME NEW b \in Joiners, joiner[b].state = "joining", NEW j \in invites', j.token = joiner[b].token,
                      logins[j.email].by = "link"
               PROVE  j.made <= logins[j.email].made
    BY DEF JoiningNewer, Under
  <2>1. PICK i \in invites : i.token = joiner[b].token
    BY DEF StrayInv, JoinersKnown, Under
  <2>2. PICK k \in invites : Alike(k, j)
    BY <2>1
  <2>3. k \in Under(b) /\ logins[k.email].by = "link" /\ k.email = j.email /\ k.made = j.made
    BY <2>2 DEF Under, Alike
  <2> QED BY <2>3 DEF StrayInv, JoiningNewer
<1>4. Awaited'
  BY DEF StrayInv, Awaited, Under, Alike
<1> QED BY <1>1, <1>2, <1>3, <1>4 DEF StrayInv

LEMMA InviteWriteSafe ==
  ASSUME StrayInv, NEW t \in OwnerTabs, InviteWrite(t)
  PROVE  StrayInv'
<1> DEFINE e == ownerTab[t].email
           T == AfterTaking(invites, e)
           new == [token |-> 1 + Cardinality(invites), email |-> e, made |-> hour, accepted |-> 0]
<1>1. InviteShape /\ e \in Addresses
  BY DEF StrayInv, InviteShape, InviteWrite
<1>2. PICK n \in Nat : Numbered(invites, n)
  BY <1>1 DEF InviteShape
<1>0. hour \in Nat /\ invites \in SUBSET Invite /\ \A i \in invites : i.made <= hour /\ i.accepted <= hour
  BY <1>1 DEF InviteShape
<1>3. Cardinality(invites) = n
  BY <1>2, NumberedCount
<1>4. /\ T \in SUBSET Invite /\ Numbered(T, n)
      /\ \A j \in T : j.made <= hour /\ j.accepted <= hour
      /\ \A i \in invites : \E j \in T : Alike(i, j) /\ (i.accepted > 0 => j.accepted > 0)
      /\ \A j \in T : \E i \in invites : Alike(i, j) /\ (j.accepted > 0 => i.accepted > 0)
  BY <1>0, <1>2, TakenBack
<1>5. invites' = T \cup {new} /\ ownerTab' = [ownerTab EXCEPT ![t] = IdleTab]
      /\ UNCHANGED <<hour, places, logins, turnedAway, joiner, stopped>>
  BY DEF InviteWrite, AfterTaking
<1>6. new \in Invite /\ new.token = n + 1 /\ new.made = hour /\ new.accepted = 0
  BY <1>1, <1>3 DEF Invite, InviteShape
<1> HIDE DEF T, new, e
<1>7. Numbered(invites', n + 1)
  <2>1. \A i \in T : i.token \in 1 .. n
    BY <1>4 DEF Numbered
  <2>2. \A i \in invites' : i.token \in 1 .. n + 1
    BY <1>2, <1>5, <1>6, <2>1
  <2>3. ASSUME NEW k \in 1 .. n + 1 PROVE \E i \in invites' : i.token = k
    <3>1. CASE k = n + 1
      BY <1>5, <1>6, <3>1
    <3>2. CASE k # n + 1
      <4>1. k \in 1 .. n
        BY <1>2, <3>2
      <4> QED BY <1>4, <1>5, <4>1 DEF Numbered
    <3> QED BY <3>1, <3>2
  <2>4. \A i, j \in invites' : i.token = j.token => i = j
    BY <1>2, <1>4, <1>5, <1>6, <2>1 DEF Numbered
  <2> QED BY <2>2, <2>3, <2>4 DEF Numbered
<1>8. InviteShape'
  <2>1. invites' \in SUBSET Invite /\ \A i \in invites' : i.made <= hour /\ i.accepted <= hour
    BY <1>1, <1>4, <1>5, <1>6 DEF InviteShape
  <2>2. DOMAIN ownerTab' = OwnerTabs
        /\ \A s \in OwnerTabs : ownerTab'[s].state = "writing" => ownerTab'[s].email \in Addresses
    BY <1>1, <1>5 DEF InviteShape, IdleTab
  <2> QED BY <1>1, <1>5, <1>7, <2>1, <2>2 DEF InviteShape
<1>9. \A i \in invites : i.token # new.token
  BY <1>2, <1>6 DEF Numbered
<1> QED BY <1>4, <1>5, <1>6, <1>8, <1>9, InvitesMove

LEMMA CancelSafe ==
  ASSUME StrayInv, NEW e \in Addresses, CancelInvitation(e)
  PROVE  StrayInv'
<1>1. InviteShape
  BY DEF StrayInv
<1>2. PICK n \in Nat : Numbered(invites, n)
  BY <1>1 DEF InviteShape
<1>3. UNCHANGED <<hour, places, logins, turnedAway, ownerTab, joiner, stopped>>
  BY DEF CancelInvitation
<1>4. /\ invites' \in SUBSET Invite /\ Numbered(invites', n)
      /\ \A j \in invites' : j.made <= hour /\ j.accepted <= hour
      /\ \A i \in invites : \E j \in invites' : Alike(i, j) /\ (i.accepted > 0 => j.accepted > 0)
      /\ \A j \in invites' : \E i \in invites : Alike(i, j) /\ (j.accepted > 0 => i.accepted > 0)
  <2>1. invites' = AfterTaking(invites, e)
    BY DEF CancelInvitation, AfterTaking
  <2>2. hour \in Nat /\ invites \in SUBSET Invite /\ \A i \in invites : i.made <= hour /\ i.accepted <= hour
    BY <1>1 DEF InviteShape
  <2> QED BY <1>2, <2>1, <2>2, TakenBack
<1>5. InviteShape'
  BY <1>1, <1>3, <1>4 DEF InviteShape
<1> QED BY <1>3, <1>4, <1>5, InvitesMove

\* A place changes, but nobody loses one.
LEMMA PlaceMoves ==
  ASSUME StrayInv, NEW e \in Addresses, NEW p \in Place, places' = [places EXCEPT ![e] = p],
         p.status \in {"active", "removed", "elsewhere"}, p.status = "removed" => p.was,
         p.status = "elsewhere" => ~ p.was,
         places[e].was => p.was, UNCHANGED <<hour, invites, logins, turnedAway, ownerTab, joiner, stopped>>
  PROVE  StrayInv'
<1>1. places \in [Addresses -> Place]
  BY DEF StrayInv, InviteShape
<1>2. places'[e] = p /\ places' \in [Addresses -> Place] /\ \A x \in Addresses \ {e} : places'[x] = places[x]
  BY <1>1
<1>3. InviteShape' /\ JoinersKnown' /\ JoiningNewer'
  BY <1>2 DEF StrayInv, InviteShape, JoinersKnown, JoiningNewer, Under
<1>4. FormerKnown' /\ PendingSpent'
  BY <1>2 DEF StrayInv, FormerKnown, PendingSpent, Spent
<1>5. LinkNewer'
  BY <1>2 DEF StrayInv, LinkNewer, Spent
<1>6. Awaited'
  BY <1>2 DEF StrayInv, Awaited, Under
<1> QED BY <1>3, <1>4, <1>5, <1>6 DEF StrayInv

\* Whoever is turned away without having been a member loses the place first.
LEMMA DeclineSafe ==
  ASSUME StrayInv, NEW e \in Addresses, DeclineJoined(e)
  PROVE  StrayInv'
<1>1. InviteShape /\ places[e] \in Place /\ places[e].status = "pending"
  BY DEF StrayInv, InviteShape, DeclineJoined
<1>2. CASE places[e].was
  <2> DEFINE p == [places[e] EXCEPT !.status = "removed"]
  <2>1. p \in Place /\ p.status = "removed" /\ p.was
    BY <1>1, <1>2 DEF Place
  <2>2. places' = [places EXCEPT ![e] = p] /\ UNCHANGED <<hour, invites, logins, turnedAway, ownerTab, joiner, stopped>>
    BY <1>2 DEF DeclineJoined
  <2> HIDE DEF p
  <2> QED BY <2>1, <2>2, PlaceMoves
<1>3. CASE ~ places[e].was
  <2>1. Nobody \in Place /\ Nobody.status = "none" /\ ~ Nobody.was /\ logins[e].made \in Nat
    BY <1>1 DEF Nobody, Place, InviteShape, Login
  <2>2. places' = [places EXCEPT ![e] = Nobody] /\ turnedAway' = [turnedAway EXCEPT ![e] = logins[e].made]
        /\ UNCHANGED <<hour, invites, logins, ownerTab, joiner, stopped>>
    BY <1>3 DEF DeclineJoined
  <2>3. logins \in [Addresses -> Login] /\ places \in [Addresses -> Place] /\ turnedAway \in [Addresses -> Nat]
    BY <1>1 DEF InviteShape
  <2>4. places' \in [Addresses -> Place] /\ places'[e] = Nobody /\ \A x \in Addresses \ {e} : places'[x] = places[x]
    BY <2>1, <2>2, <2>3
  <2>5. /\ turnedAway' \in [Addresses -> Nat] /\ turnedAway'[e] = logins[e].made
        /\ \A x \in Addresses \ {e} : turnedAway'[x] = turnedAway[x]
    BY <2>1, <2>2, <2>3
  <2>6. InviteShape' /\ JoinersKnown' /\ JoiningNewer'
    BY <1>1, <2>2, <2>4, <2>5 DEF StrayInv, InviteShape, JoinersKnown, JoiningNewer, Under
  <2>7. FormerKnown' /\ PendingSpent' /\ LinkNewer'
    <3>1. Spent(e) # {}
      BY <1>1 DEF StrayInv, PendingSpent
    <3> QED BY <1>3, <2>1, <2>2, <2>4, <2>5, <3>1 DEF StrayInv, FormerKnown, PendingSpent, LinkNewer, Spent
  <2>8. Awaited'
    BY <2>2, <2>4, <2>5 DEF StrayInv, Awaited, Under
  <2> QED BY <2>6, <2>7, <2>8 DEF StrayInv
<1> QED BY <1>2, <1>3

\* A login a link made is the invitation's own, whichever was spent last.
LEMMA LinkIsTheInvitations ==
  ASSUME StrayInv, NEW e \in Addresses, turnedAway[e] # 0, ~ places[e].was, logins[e].by = "link"
  PROVE  MadeByInvitation(e)
<1>0. InviteShape
  BY DEF StrayInv
<1> DEFINE used == {i \in invites : i.email = e /\ i.accepted > 0}
           Age(i) == hour - i.accepted
           ages == {Age(i) : i \in used}
           last == CHOOSE i \in used : \A j \in used : j.accepted <= i.accepted
<1>1. used # {} /\ \A i \in used : i.made <= logins[e].made
  BY DEF StrayInv, PendingSpent, LinkNewer, Spent
<1>2. \A i \in used : i.accepted \in Int /\ i.accepted <= hour /\ Age(i) \in Nat /\ i.made \in Nat
  BY <1>0 DEF InviteShape, Invite
<1>3. ages \in SUBSET Nat /\ ages # {}
  BY <1>1, <1>2
<1>4. PICK x \in ages : \A y \in ages : x <= y
  BY <1>3, LeastNumber
<1>5. PICK i \in used : x = Age(i)
  BY <1>4
<1>6. ASSUME NEW j \in used PROVE j.accepted <= i.accepted
  <2>1. Age(j) \in ages
    OBVIOUS
  <2>2. hour - i.accepted <= hour - j.accepted
    BY <1>4, <1>5, <2>1
  <2>3. hour \in Nat /\ i.accepted \in Int /\ j.accepted \in Int
    BY <1>0, <1>2 DEF InviteShape
  <2> QED BY <2>2, <2>3
<1>7. last \in used
  BY <1>5, <1>6
<1>8. logins[e] # NoLogin
  BY DEF NoLogin
<1>9. last.made \in Nat /\ logins[e].made \in Nat
  BY <1>0, <1>2, <1>7 DEF InviteShape, Login
<1> QED BY <1>1, <1>7, <1>8, <1>9 DEF MadeByInvitation

\* Then the login is looked at: one the invitation made goes, an administrator's is kept.
LEMMA DeclineLoginSafe ==
  ASSUME StrayInv, NEW e \in Addresses, DeclineLogin(e)
  PROVE  StrayInv'
<1>1. InviteShape /\ turnedAway[e] # 0
  BY DEF StrayInv, DeclineLogin
<1>2. UNCHANGED <<hour, invites, places, ownerTab, joiner, stopped>> /\ turnedAway' = [turnedAway EXCEPT ![e] = 0]
  BY DEF DeclineLogin
<1> DEFINE mine == logins[e].made = turnedAway[e]
           kept == [logins[e] EXCEPT !.by = "kept"]
<1>3. logins[e] \in Login /\ NoLogin \in Login /\ NoLogin.by = "none" /\ kept \in Login /\ kept.by = "kept"
  BY <1>1 DEF InviteShape, NoLogin, Login
<1>4. \/ logins' = logins
      \/ logins' = [logins EXCEPT ![e] = kept]
      \/ logins' = [logins EXCEPT ![e] = NoLogin]
  BY DEF DeclineLogin
<1>5. mine /\ ~ places[e].was /\ logins[e].by = "link" => logins' # logins
  <2> SUFFICES ASSUME mine, ~ places[e].was, logins[e].by = "link" PROVE logins' # logins
    OBVIOUS
  <2>1. MadeByInvitation(e)
    BY <1>1, LinkIsTheInvitations
  <2>2. logins \in [Addresses -> Login]
    BY <1>1 DEF InviteShape
  <2>3. logins' = [logins EXCEPT ![e] = kept] \/ logins' = [logins EXCEPT ![e] = NoLogin]
    BY <2>1 DEF DeclineLogin
  <2>4. logins'[e] = kept \/ logins'[e] = NoLogin
    BY <2>2, <2>3
  <2> QED BY <1>3, <2>4
<1> HIDE DEF mine, kept
<1>6. /\ logins' \in [Addresses -> Login]
      /\ logins' = logins \/ logins'[e].by # "link"
      /\ \A x \in Addresses \ {e} : logins'[x] = logins[x]
  BY <1>1, <1>3, <1>4 DEF InviteShape
<1>7. turnedAway' \in [Addresses -> Nat] /\ turnedAway'[e] = 0 /\ \A x \in Addresses \ {e} : turnedAway'[x] = turnedAway[x]
  BY <1>1, <1>2 DEF InviteShape
<1>8. InviteShape' /\ JoinersKnown'
  BY <1>1, <1>2, <1>6, <1>7 DEF StrayInv, InviteShape, JoinersKnown, Under
<1>9. \A x \in Addresses : logins'[x].by = "link" => logins'[x] = logins[x]
  BY <1>6
<1>10. FormerKnown' /\ PendingSpent' /\ LinkNewer'
  BY <1>2, <1>7, <1>9 DEF StrayInv, FormerKnown, PendingSpent, LinkNewer, Spent
<1>11. JoiningNewer'
  BY <1>1, <1>2, <1>9 DEF StrayInv, JoiningNewer, Under, InviteShape, Invite
<1>12. Awaited'
  <2> SUFFICES ASSUME NEW x \in Addresses, logins'[x].by = "link", ~ stopped, places[x].status = "none",
                      turnedAway'[x] # logins'[x].made
               PROVE  \E b \in Joiners : joiner[b].state = "joining" /\ \E i \in invites : i.token = joiner[b].token /\ i.email = x
    BY <1>2 DEF Awaited, Under
  <2>1. logins'[x] = logins[x]
    BY <1>9
  <2>2. CASE x = e
    <3>1. logins' = logins
      BY <1>6, <2>2
    <3>2. ~ places[e].was
      BY <2>2 DEF StrayInv, FormerKnown
    <3>3. ~ mine
      BY <1>5, <2>1, <2>2, <3>1, <3>2
    <3> QED BY <2>1, <2>2, <3>3 DEF StrayInv, Awaited, Under, mine
  <2>3. CASE x # e
    BY <1>7, <2>1, <2>3 DEF StrayInv, Awaited, Under
  <2> QED BY <2>2, <2>3
<1> QED BY <1>8, <1>10, <1>11, <1>12 DEF StrayInv

\* A process that stops before that is remembered; the flag of an administrator says
\* nothing of who made the login.
LEMMA LoginFlagSafe ==
  ASSUME StrayInv, NEW e \in Addresses, StopDecline(e) \/ SetInstanceAdmin(e)
  PROVE  StrayInv'
<1>1. InviteShape /\ UNCHANGED <<hour, invites, places, ownerTab, joiner>>
  BY DEF StrayInv, StopDecline, SetInstanceAdmin
<1>2. CASE StopDecline(e)
  <2>1. turnedAway' \in [Addresses -> Nat] /\ stopped' /\ logins' = logins
        /\ \A x \in Addresses : turnedAway'[x] # 0 => turnedAway[x] # 0
    BY <1>1, <1>2 DEF StopDecline, InviteShape
  <2> QED BY <1>1, <2>1 DEF StrayInv, InviteShape, JoinersKnown, FormerKnown, PendingSpent, LinkNewer,
                            JoiningNewer, Awaited, Under, Spent
<1>3. CASE SetInstanceAdmin(e)
  <2> DEFINE l == [logins[e] EXCEPT !.admin = ~ @]
  <2>1. l \in Login /\ l.made = logins[e].made /\ l.by = logins[e].by
    BY <1>1 DEF InviteShape, Login
  <2>2. logins' = [logins EXCEPT ![e] = l] /\ UNCHANGED <<turnedAway, stopped>>
    BY <1>3 DEF SetInstanceAdmin
  <2> HIDE DEF l
  <2>3. logins' \in [Addresses -> Login]
        /\ \A x \in Addresses : logins'[x].made = logins[x].made /\ logins'[x].by = logins[x].by
    BY <1>1, <2>1, <2>2 DEF InviteShape
  <2>4. \A i \in invites : i.email \in Addresses
    BY <1>1 DEF InviteShape, Invite
  <2>5. InviteShape' /\ JoinersKnown' /\ FormerKnown' /\ PendingSpent' /\ LinkNewer'
    BY <1>1, <2>2, <2>3 DEF StrayInv, InviteShape, JoinersKnown, FormerKnown, PendingSpent, LinkNewer, Under, Spent
  <2>6. JoiningNewer' /\ Awaited'
    BY <1>1, <2>2, <2>3, <2>4 DEF StrayInv, JoiningNewer, Awaited, Under
  <2> QED BY <2>5, <2>6 DEF StrayInv
<1> QED BY <1>2, <1>3

\* Somebody joins by an open invitation that is no newer than a login a link made.
LEMMA JoinedSafe ==
  ASSUME StrayInv, NEW i \in invites, Joined(i), i.accepted = 0,
         \/ places[i.email].was \/ logins[i.email].by # "link" \/ i.made <= logins[i.email].made,
         UNCHANGED <<hour, logins, turnedAway, ownerTab, stopped>>,
         DOMAIN joiner' = Joiners, joiner' \in [Joiners -> Acceptance],
         \A c \in Joiners : joiner'[c] = joiner[c] \/ (joiner'[c] = IdleJoiner /\ joiner[c].token = i.token)
  PROVE  StrayInv'
<1> DEFINE e == i.email
           p == [places[e] EXCEPT !.status = "pending"]
<1>1. InviteShape /\ i \in Invite /\ e \in Addresses
  BY DEF StrayInv, InviteShape, Invite
<1>2. PICK n \in Nat : Numbered(invites, n)
  BY <1>1 DEF InviteShape
<1>3. /\ invites' \in SUBSET Invite /\ Numbered(invites', n)
      /\ \A j \in invites' : j.made <= hour /\ j.accepted <= hour
      /\ \A k \in invites : \E j \in invites' : Alike(k, j) /\ (k.accepted > 0 => j.accepted > 0)
      /\ \A j \in invites' : \E k \in invites : Alike(k, j) /\ (k = i \/ k = j)
      /\ \E j \in invites' : Alike(i, j) /\ j.accepted > 0
  <2>1. invites' = AfterSpending(invites, i)
    BY DEF Joined, AfterSpending
  <2>2. hour \in Nat \ {0} /\ invites \in SUBSET Invite /\ \A k \in invites : k.made <= hour /\ k.accepted <= hour
    BY <1>1 DEF InviteShape
  <2> QED BY <1>2, <2>1, <2>2, SpentOn
<1>4. places \in [Addresses -> Place] /\ places' = [places EXCEPT ![e] = p]
  BY <1>1 DEF InviteShape, Joined
<1>5. p \in Place /\ p.status = "pending" /\ p.was = places[e].was
  BY <1>1, <1>4 DEF Place
<1> HIDE DEF p
<1>6. places' \in [Addresses -> Place] /\ places'[e] = p /\ \A x \in Addresses \ {e} : places'[x] = places[x]
  BY <1>1, <1>4, <1>5
<1>7. InviteShape'
  BY <1>1, <1>3, <1>6 DEF InviteShape
<1>8. JoinersKnown'
  <2> SUFFICES ASSUME NEW c \in Joiners, joiner'[c].state # "idle" PROVE \E j \in invites' : j.token = joiner'[c].token
    BY DEF JoinersKnown, Under
  <2>1. joiner'[c] = joiner[c]
    BY DEF IdleJoiner
  <2> QED BY <1>3, <2>1 DEF StrayInv, JoinersKnown, Under, Alike
<1>9. FormerKnown'
  BY <1>1, <1>5, <1>6 DEF StrayInv, FormerKnown
<1>10. PendingSpent'
  <2> SUFFICES ASSUME NEW x \in Addresses, places'[x].status = "pending" \/ turnedAway[x] # 0 PROVE \E j \in invites' : j.email = x /\ j.accepted > 0
    BY DEF PendingSpent, Spent
  <2>1. CASE x = e
    BY <1>3, <2>1 DEF Alike
  <2>2. CASE x # e
    BY <1>3, <1>6, <2>2 DEF StrayInv, PendingSpent, Spent, Alike
  <2> QED BY <2>1, <2>2
<1>11. LinkNewer'
  <2> SUFFICES ASSUME NEW x \in Addresses, logins[x].by = "link", ~ places'[x].was,
                      NEW j \in invites', j.email = x, j.accepted > 0
               PROVE  j.made <= logins[x].made
    BY DEF LinkNewer, Spent
  <2>1. ~ places[x].was
    BY <1>5, <1>6
  <2>2. PICK k \in invites : Alike(k, j) /\ (k = i \/ k = j)
    BY <1>3
  <2>3. CASE k = i
    BY <2>1, <2>2, <2>3 DEF Alike
  <2>4. CASE k = j
    BY <2>1, <2>4 DEF StrayInv, LinkNewer, Spent
  <2> QED BY <2>2, <2>3, <2>4
<1>12. JoiningNewer'
  <2> SUFFICES ASSUME NEW c \in Joiners, joiner'[c].state = "joining", NEW j \in invites', j.token = joiner'[c].token,
                      logins[j.email].by = "link"
               PROVE  j.made <= logins[j.email].made
    BY DEF JoiningNewer, Under
  <2>1. joiner'[c] = joiner[c]
    BY DEF IdleJoiner
  <2>2. PICK k \in invites : Alike(k, j)
    BY <1>3
  <2> QED BY <2>1, <2>2 DEF StrayInv, JoiningNewer, Under, Alike
<1>13. Awaited'
  <2> SUFFICES ASSUME NEW x \in Addresses, logins[x].by = "link", ~ stopped, places'[x].status = "none",
                      turnedAway[x] # logins[x].made
               PROVE  \E b \in Joiners : joiner'[b].state = "joining" /\ \E j \in invites' : j.token = joiner'[b].token /\ j.email = x
    BY DEF Awaited, Under
  <2>1. x # e /\ places[x].status = "none"
    BY <1>5, <1>6
  <2>2. PICK b \in Joiners, k \in invites : joiner[b].state = "joining" /\ k.token = joiner[b].token /\ k.email = x
    BY <2>1 DEF StrayInv, Awaited, Under
  <2>3. joiner'[b] = joiner[b]
    BY <1>2, <2>1, <2>2 DEF Numbered
  <2> QED BY <1>3, <2>2, <2>3 DEF Alike
<1> QED BY <1>7, <1>8, <1>9, <1>10, <1>11, <1>12, <1>13 DEF StrayInv

\* The joining that made a login, and cannot finish, takes it back.
LEMMA AcceptJoinSafe ==
  ASSUME StrayInv, NEW b \in Joiners, AcceptJoin(b)
  PROVE  StrayInv'
<1> DEFINE i == Of(joiner[b].token)
<1>1. InviteShape /\ JoinersKnown /\ joiner[b].state = "joining"
  BY DEF StrayInv, AcceptJoin
<1>2. i \in Under(b) /\ \A k \in Under(b) : k = i
  BY <1>1, OfJoiner
<1>3. i \in invites /\ i \in Invite /\ i.email \in Addresses /\ i.token = joiner[b].token
  BY <1>1, <1>2 DEF Under, InviteShape, Invite
<1>4. joiner' = [joiner EXCEPT ![b] = IdleJoiner] /\ UNCHANGED <<hour, turnedAway, ownerTab, stopped>>
  BY DEF AcceptJoin
<1>5. joiner' \in [Joiners -> Acceptance] /\ joiner'[b] = IdleJoiner /\ IdleJoiner.state = "idle"
      /\ \A c \in Joiners \ {b} : joiner'[c] = joiner[c]
  BY <1>1, <1>4 DEF InviteShape, IdleJoiner, Acceptance
<1>6. CASE CanJoin(i) /\ Joined(i) /\ UNCHANGED logins
  <2>1. i.accepted = 0
    BY <1>6 DEF CanJoin, IsOpen
  <2>2. logins[i.email].by # "link" \/ i.made <= logins[i.email].made
    BY <1>1, <1>2 DEF StrayInv, JoiningNewer
  <2> HIDE DEF i
  <2> QED BY <1>3, <1>4, <1>5, <1>6, <2>1, <2>2, JoinedSafe
<1>7. CASE JoinFails(b, i)
  <2>1. logins' = [logins EXCEPT ![i.email] = NoLogin] /\ UNCHANGED <<places, invites>>
    BY <1>7 DEF JoinFails
  <2> HIDE DEF i
  <2>2. logins' \in [Addresses -> Login] /\ logins'[i.email].by = "none"
        /\ \A x \in Addresses \ {i.email} : logins'[x] = logins[x]
    BY <1>1, <1>3, <2>1 DEF InviteShape, NoLogin, Login
  <2>3. InviteShape' /\ JoinersKnown'
    BY <1>1, <1>4, <1>5, <2>1, <2>2 DEF InviteShape, JoinersKnown, Under
  <2>4. FormerKnown' /\ PendingSpent' /\ LinkNewer'
    BY <1>4, <2>1, <2>2 DEF StrayInv, FormerKnown, PendingSpent, LinkNewer, Spent
  <2>5. JoiningNewer'
    <3> SUFFICES ASSUME NEW c \in Joiners, joiner'[c].state = "joining", NEW k \in invites, k.token = joiner'[c].token,
                        logins'[k.email].by = "link"
                 PROVE  k.made <= logins'[k.email].made
      BY <2>1 DEF JoiningNewer, Under
    <3>1. c # b /\ joiner'[c] = joiner[c] /\ k.email \in Addresses
      BY <1>1, <1>5 DEF InviteShape, Invite
    <3>2. logins'[k.email] = logins[k.email]
      BY <2>2, <3>1
    <3>3. k \in Under(c)
      BY <3>1 DEF Under
    <3> QED BY <3>1, <3>2, <3>3 DEF StrayInv, JoiningNewer
  <2>6. Awaited'
    <3> SUFFICES ASSUME NEW x \in Addresses, logins'[x].by = "link", ~ stopped, places[x].status = "none",
                        turnedAway[x] # logins'[x].made
                 PROVE  \E c \in Joiners : joiner'[c].state = "joining" /\ \E k \in invites : k.token = joiner'[c].token /\ k.email = x
      BY <1>4, <2>1 DEF Awaited, Under
    <3>1. x # i.email /\ logins[x].by = "link" /\ logins'[x] = logins[x]
      BY <2>2
    <3>2. PICK c \in Joiners, k \in invites : joiner[c].state = "joining" /\ k \in Under(c) /\ k.email = x
      BY <3>1 DEF StrayInv, Awaited, Under
    <3>3. c # b
      BY <1>2, <3>1, <3>2
    <3> QED BY <1>5, <3>2, <3>3 DEF Under
  <2> QED BY <2>3, <2>4, <2>5, <2>6 DEF StrayInv
<1> QED BY <1>6, <1>7 DEF AcceptJoin

\* A login a link makes is awaited by the acceptance that made it.
LEMMA MakeLoginSafe ==
  ASSUME StrayInv, NEW b \in Joiners, MakeLogin(b)
  PROVE  StrayInv'
<1> DEFINE i == Of(joiner[b].token)
           e == i.email
<1>1. InviteShape /\ JoinersKnown /\ joiner[b].state = "creating"
  BY DEF StrayInv, MakeLogin
<1>2. i \in Under(b) /\ \A k \in Under(b) : k = i
  BY <1>1, OfJoiner
<1>3. i \in invites /\ e \in Addresses /\ i.token = joiner[b].token
  BY <1>1, <1>2 DEF Under, InviteShape, Invite
<1>4. UNCHANGED <<hour, invites, places, turnedAway, ownerTab, stopped>>
  BY DEF MakeLogin
<1>5. CASE logins[e] # NoLogin
  <2>1. joiner' = [joiner EXCEPT ![b] = IdleJoiner] /\ logins' = logins
    BY <1>5 DEF MakeLogin
  <2>2. joiner' \in [Joiners -> Acceptance] /\ joiner'[b] = IdleJoiner /\ IdleJoiner.state = "idle"
        /\ \A c \in Joiners \ {b} : joiner'[c] = joiner[c]
    BY <1>1, <2>1 DEF InviteShape, IdleJoiner, Acceptance
  <2>3. InviteShape' /\ JoinersKnown' /\ JoiningNewer'
    BY <1>1, <1>4, <2>1, <2>2 DEF StrayInv, InviteShape, JoinersKnown, JoiningNewer, Under
  <2>4. FormerKnown' /\ PendingSpent' /\ LinkNewer'
    BY <1>4, <2>1 DEF StrayInv, FormerKnown, PendingSpent, LinkNewer, Spent
  <2>5. Awaited'
    BY <1>1, <1>4, <2>1, <2>2 DEF StrayInv, Awaited, Under
  <2> QED BY <2>3, <2>4, <2>5 DEF StrayInv
<1>6. CASE logins[e] = NoLogin
  <2> DEFINE u == [joiner[b] EXCEPT !.state = "joining"]
             l == [made |-> hour, by |-> "link", admin |-> FALSE]
  <2>1. joiner' = [joiner EXCEPT ![b] = u] /\ logins' = [logins EXCEPT ![e] = l]
    BY <1>6 DEF MakeLogin
  <2>2. u \in Acceptance /\ u.state = "joining" /\ u.token = joiner[b].token /\ l \in Login /\ l.made = hour
    BY <1>1 DEF InviteShape, Acceptance, Login
  <2> HIDE DEF u, l
  <2>3. joiner' \in [Joiners -> Acceptance] /\ joiner'[b] = u /\ \A c \in Joiners \ {b} : joiner'[c] = joiner[c]
    BY <1>1, <2>1, <2>2 DEF InviteShape
  <2> HIDE DEF e
  <2>4. logins' \in [Addresses -> Login] /\ logins'[e] = l /\ \A x \in Addresses \ {e} : logins'[x] = logins[x]
    BY <1>1, <1>3, <2>1, <2>2 DEF InviteShape
  <2>5. \A k \in invites : k.made <= hour /\ k.email \in Addresses
    BY <1>1 DEF InviteShape, Invite
  <2>6. InviteShape'
    BY <1>1, <1>4, <2>3, <2>4 DEF InviteShape
  <2>7. JoinersKnown' /\ FormerKnown' /\ PendingSpent'
    BY <1>1, <1>4, <2>2, <2>3 DEF StrayInv, JoinersKnown, FormerKnown, PendingSpent, Under, Spent
  <2>8. LinkNewer'
    BY <1>4, <2>2, <2>4, <2>5 DEF StrayInv, LinkNewer, Spent
  <2>9. JoiningNewer'
    <3> SUFFICES ASSUME NEW c \in Joiners, joiner'[c].state = "joining", NEW k \in invites, k.token = joiner'[c].token,
                        logins'[k.email].by = "link"
                 PROVE  k.made <= logins'[k.email].made
      BY <1>4 DEF JoiningNewer, Under
    <3>1. CASE k.email = e
      BY <2>2, <2>4, <2>5, <3>1
    <3>2. CASE k.email # e
      <4>1. logins'[k.email] = logins[k.email]
        BY <2>4, <2>5, <3>2
      <4>2. c # b
        BY <1>2, <2>2, <2>3, <3>2 DEF Under, e
      <4>3. k \in Under(c) /\ joiner[c].state = "joining"
        BY <2>3, <4>2 DEF Under
      <4> QED BY <4>1, <4>3 DEF StrayInv, JoiningNewer
    <3> QED BY <3>1, <3>2
  <2>10. Awaited'
    <3> SUFFICES ASSUME NEW x \in Addresses, logins'[x].by = "link", ~ stopped, places[x].status = "none",
                        turnedAway[x] # logins'[x].made
                 PROVE  \E c \in Joiners : joiner'[c].state = "joining" /\ \E k \in invites : k.token = joiner'[c].token /\ k.email = x
      BY <1>4 DEF Awaited, Under
    <3>1. CASE x = e
      BY <1>3, <2>2, <2>3, <3>1 DEF e
    <3>2. CASE x # e
      <4>1. PICK c \in Joiners, k \in invites : joiner[c].state = "joining" /\ k \in Under(c) /\ k.email = x
        BY <2>4, <3>2 DEF StrayInv, Awaited, Under
      <4>2. c # b
        BY <1>1, <4>1
      <4> QED BY <2>3, <4>1, <4>2 DEF Under
    <3> QED BY <3>1, <3>2
  <2> QED BY <2>6, <2>7, <2>8, <2>9, <2>10 DEF StrayInv
<1> QED BY <1>5, <1>6

LEMMA SignInSafe ==
  ASSUME StrayInv, NEW e \in Addresses, SignInLocal(e) \/ SignInVerified(e)
  PROVE  StrayInv'
<1>1. InviteShape /\ UNCHANGED <<hour, logins, turnedAway, ownerTab, joiner, stopped>>
  BY DEF StrayInv, SignInLocal, SignInVerified
<1>2. CASE places[e].status = "none" /\ places' = [places EXCEPT ![e].status = "elsewhere"] /\ UNCHANGED invites
  <2> DEFINE p == [places[e] EXCEPT !.status = "elsewhere"]
  <2>1. p \in Place /\ p.status = "elsewhere" /\ p.was = places[e].was
    BY <1>1 DEF InviteShape, Place
  <2>2. places' = [places EXCEPT ![e] = p]
    BY <1>2
  <2>3. ~ p.was
    BY <1>2, <2>1 DEF StrayInv, FormerKnown
  <2> HIDE DEF p
  <2> QED BY <1>1, <1>2, <2>1, <2>2, <2>3, PlaceMoves
<1>3. CASE /\ ByEmail(e) # {} /\ Joined(Latest(ByEmail(e)))
           /\ places[e].status = "removed" \/ logins[e] = NoLogin
  <2> DEFINE S == ByEmail(e)
             i == Latest(S)
  <2>1. PICK n \in Nat : Numbered(invites, n)
    BY <1>1 DEF InviteShape
  <2>2. \A k \in S : k \in invites /\ k.email = e /\ k.accepted = 0 /\ k.token \in 1 .. n
    BY <2>1 DEF ByEmail, Open, IsOpen, Numbered
  <2>3. \E k \in S : \A j \in S : j.token <= k.token
    <3> DEFINE Rank(k) == n - k.token
               ranks == {Rank(k) : k \in S}
    <3>1. ranks \in SUBSET Nat /\ ranks # {}
      BY <1>3, <2>2
    <3>2. PICK x \in ranks : \A y \in ranks : x <= y
      BY <3>1, LeastNumber
    <3>3. PICK k \in S : x = Rank(k)
      BY <3>2
    <3>4. ASSUME NEW j \in S PROVE j.token <= k.token
      <4>1. Rank(j) \in ranks
        OBVIOUS
      <4>2. n - k.token <= n - j.token
        BY <3>2, <3>3, <4>1
      <4>3. k.token \in Int /\ j.token \in Int
        BY <2>2
      <4> QED BY <2>1, <4>2, <4>3
    <3> QED BY <3>4
  <2>4. i \in S
    BY <2>3 DEF Latest
  <2>5. Joined(i)
    BY <1>3
  <2>6. i \in invites /\ i.email = e /\ i.accepted = 0
    BY <2>2, <2>4
  <2> HIDE DEF i, S
  <2>7. places[e].was \/ logins[e].by # "link"
    BY <1>3 DEF StrayInv, FormerKnown, NoLogin
  <2>8. joiner' \in [Joiners -> Acceptance] /\ joiner' = joiner
    BY <1>1 DEF InviteShape
  <2>9. DOMAIN joiner' = Joiners
    BY <2>8
  <2> QED BY <1>1, <2>5, <2>6, <2>7, <2>8, <2>9, JoinedSafe
<1> QED BY <1>2, <1>3 DEF SignInLocal, SignInVerified

\* What leaves the invitations, the places and the logins alone.
LEMMA QuietSafe ==
  ASSUME StrayInv,
         \/ \E t \in OwnerTabs, e \in Addresses : InviteCheck(t, e)
         \/ \E b \in Joiners : Stop(b) \/ \E i \in invites : AcceptCheck(b, i)
         \/ NextHour \/ UNCHANGED inviteVars
  PROVE  StrayInv'
<1>1. InviteShape /\ UNCHANGED <<invites, places, logins, turnedAway>>
  BY DEF StrayInv, InviteCheck, Stop, AcceptCheck, NextHour, inviteVars
<1>2. FormerKnown' /\ PendingSpent' /\ LinkNewer'
  BY <1>1 DEF StrayInv, FormerKnown, PendingSpent, LinkNewer, Spent
<1>3. CASE \E t \in OwnerTabs, e \in Addresses : InviteCheck(t, e)
  <2>1. PICK t \in OwnerTabs, e \in Addresses : InviteCheck(t, e)
    BY <1>3
  <2>2. UNCHANGED <<hour, joiner, stopped>> /\ ownerTab' = [ownerTab EXCEPT ![t] = [state |-> "writing", email |-> e]]
    BY <2>1 DEF InviteCheck
  <2>3. InviteShape'
    BY <1>1, <2>2 DEF InviteShape
  <2> QED BY <1>1, <1>2, <2>2, <2>3 DEF StrayInv, JoinersKnown, JoiningNewer, Awaited, Under
<1>4. CASE \E b \in Joiners : Stop(b)
  <2>1. PICK b \in Joiners : Stop(b)
    BY <1>4
  <2>2. UNCHANGED <<hour, ownerTab>> /\ stopped' = TRUE /\ joiner' = [joiner EXCEPT ![b] = IdleJoiner]
    BY <2>1 DEF Stop
  <2>3. joiner' \in [Joiners -> Acceptance] /\ joiner'[b].state = "idle" /\ \A c \in Joiners \ {b} : joiner'[c] = joiner[c]
    BY <1>1, <2>2 DEF InviteShape, IdleJoiner, Acceptance
  <2>4. InviteShape'
    BY <1>1, <2>2, <2>3 DEF InviteShape
  <2> QED BY <1>1, <1>2, <2>2, <2>3, <2>4 DEF StrayInv, JoinersKnown, JoiningNewer, Awaited, Under
<1>5. CASE \E b \in Joiners, i \in invites : AcceptCheck(b, i)
  <2>1. PICK b \in Joiners, i \in invites : AcceptCheck(b, i)
    BY <1>5
  <2> DEFINE u == [state |-> "creating", token |-> i.token]
  <2>2. UNCHANGED <<hour, ownerTab, stopped>> /\ joiner[b].state = "idle"
        /\ (joiner' = joiner \/ joiner' = [joiner EXCEPT ![b] = u])
    BY <2>1 DEF AcceptCheck, IdleJoiner
  <2>3. u \in Acceptance /\ u.state = "creating" /\ u.token = i.token
    BY <1>1 DEF InviteShape, Invite, Acceptance
  <2> HIDE DEF u
  <2>4. joiner' \in [Joiners -> Acceptance] /\ (joiner'[b] = joiner[b] \/ joiner'[b] = u)
        /\ \A c \in Joiners \ {b} : joiner'[c] = joiner[c]
    BY <1>1, <2>2, <2>3 DEF InviteShape
  <2>5. InviteShape'
    BY <1>1, <2>2, <2>4 DEF InviteShape
  <2>6. JoinersKnown'
    BY <1>1, <2>2, <2>3, <2>4 DEF StrayInv, JoinersKnown, Under
  <2>7. \A c \in Joiners : joiner'[c].state = "joining" => joiner'[c] = joiner[c]
    BY <2>3, <2>4
  <2>8. \A c \in Joiners : joiner[c].state = "joining" => joiner'[c] = joiner[c]
    BY <2>2, <2>4
  <2>9. JoiningNewer' /\ Awaited'
    BY <1>1, <2>2, <2>7, <2>8 DEF StrayInv, JoiningNewer, Awaited, Under
  <2> QED BY <1>2, <2>5, <2>6, <2>9 DEF StrayInv
<1>6. CASE NextHour
  <2>1. InviteShape'
    BY <1>1, <1>6 DEF NextHour, InviteShape, Invite
  <2> QED BY <1>1, <1>2, <1>6, <2>1 DEF NextHour, StrayInv, JoinersKnown, JoiningNewer, Awaited, Under
<1>7. CASE UNCHANGED inviteVars
  BY <1>1, <1>2, <1>7 DEF inviteVars, InviteShape, StrayInv, JoinersKnown, JoiningNewer, Awaited, Under
<1> QED BY <1>3, <1>4, <1>5, <1>6, <1>7

LEMMA OwnerActsSafe ==
  ASSUME StrayInv, NEW e \in Addresses, ApproveJoined(e) \/ RemoveMember(e)
  PROVE  StrayInv'
<1>1. places[e] \in Place /\ UNCHANGED <<hour, invites, logins, turnedAway, ownerTab, joiner, stopped>>
  BY DEF StrayInv, InviteShape, ApproveJoined, RemoveMember
<1>2. CASE ApproveJoined(e)
  <2> DEFINE p == [places[e] EXCEPT !.status = "active"]
  <2>1. p \in Place /\ p.status = "active" /\ p.was = places[e].was
    BY <1>1 DEF Place
  <2>2. places' = [places EXCEPT ![e] = p]
    BY <1>2 DEF ApproveJoined
  <2> HIDE DEF p
  <2> QED BY <1>1, <2>1, <2>2, PlaceMoves
<1>3. CASE RemoveMember(e)
  <2> DEFINE p == [status |-> "removed", was |-> TRUE]
  <2>1. p \in Place /\ p.status = "removed" /\ p.was
    BY DEF Place
  <2>2. places' = [places EXCEPT ![e] = p]
    BY <1>3 DEF RemoveMember
  <2> HIDE DEF p
  <2> QED BY <1>1, <2>1, <2>2, PlaceMoves
<1> QED BY <1>2, <1>3

\* Somebody's own login is made without a link.
LEMMA SignUpSafe ==
  ASSUME StrayInv, NEW e \in Addresses, SelfSignUp(e)
  PROVE  StrayInv'
<1> DEFINE l == [made |-> hour, by |-> "self", admin |-> FALSE]
<1>1. InviteShape /\ UNCHANGED <<hour, invites, places, turnedAway, ownerTab, joiner, stopped>> /\ logins' = [logins EXCEPT ![e] = l]
  BY DEF StrayInv, SelfSignUp
<1>2. l \in Login /\ l.by = "self"
  BY <1>1 DEF InviteShape, Login
<1> HIDE DEF l
<1>3. logins' \in [Addresses -> Login] /\ logins'[e].by = "self" /\ \A x \in Addresses \ {e} : logins'[x] = logins[x]
  BY <1>1, <1>2 DEF InviteShape
<1>4. InviteShape' /\ JoinersKnown'
  BY <1>1, <1>3 DEF StrayInv, InviteShape, JoinersKnown, Under
<1>5. FormerKnown' /\ PendingSpent' /\ LinkNewer'
  BY <1>1, <1>3 DEF StrayInv, FormerKnown, PendingSpent, LinkNewer, Spent
<1>6. \A k \in invites : k.email \in Addresses
  BY <1>1 DEF InviteShape, Invite
<1>7. JoiningNewer' /\ Awaited'
  BY <1>1, <1>3, <1>6 DEF StrayInv, JoiningNewer, Awaited, Under
<1> QED BY <1>4, <1>5, <1>7 DEF StrayInv

\* Whatever the owner's tabs, the joiners and the sign-ins do at once, a login a link made
\* belongs to somebody of a household, is about to, is about to go with a declined joiner, or
\* is an administrator's, unless the process stopped half way
\* (accept_with_password, join, _delete_invited_login).
THEOREM InvitedLoginsAreKept == InviteSpec => []NoStrayLogins
<1>1. InviteInit => StrayInv
  <2> SUFFICES ASSUME InviteInit PROVE StrayInv
    OBVIOUS
  <2>1. Numbered({}, 0)
    BY DEF Numbered
  <2>2. InviteShape
    BY <2>1 DEF InviteInit, InviteShape, Nobody, Place, NoLogin, Login, IdleJoiner, Acceptance, IdleTab
  <2>3. JoinersKnown /\ FormerKnown /\ PendingSpent /\ LinkNewer /\ JoiningNewer /\ Awaited
    BY DEF InviteInit, JoinersKnown, FormerKnown, PendingSpent, LinkNewer, JoiningNewer, Awaited, IdleJoiner, Nobody, NoLogin
  <2> QED BY <2>2, <2>3 DEF StrayInv
<1>2. StrayInv /\ [InviteNext]_inviteVars => StrayInv'
  BY InviteWriteSafe, CancelSafe, DeclineSafe, DeclineLoginSafe, LoginFlagSafe, OwnerActsSafe, SignUpSafe, SignInSafe, AcceptJoinSafe, MakeLoginSafe,
     QuietSafe DEF InviteNext
<1> QED BY <1>1, <1>2, StraySound, PTL DEF InviteSpec

=============
