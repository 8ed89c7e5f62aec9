--------------------------------- MODULE MCAccess ---------------------------------
(***************************************************************************)
(* Signing in on small instances, one component at a time: `part` says     *)
(* which one moves, so that the states of the others do not multiply.      *)
(***************************************************************************)
EXTENDS Sessions, RateLimit, Registry, HostedFactor, Invitations

VARIABLE part

Parts == {"watermark", "rotation", "keys", "rate", "admins", "families", "hosted", "invites"}

McInit ==
    /\ part \in Parts
    /\ cookie = CHOOSE first \in [Browsers -> 1 .. Cardinality(Browsers)] :
                  \A a, b \in Browsers : first[a] = first[b] => a = b
    /\ SessionInit /\ RateInit /\ RegistryInit /\ HostedInit /\ InviteInit

\* One browser only: the other one stays where it is.
OneBrowser ==
    /\ SessionNext
    /\ \A b \in Browsers : cookie[b] = 2 =>
         cookie'[b] = 2 /\ store'[2] = store[2] /\ guard'[b] = guard[b] /\ keeper'[b] = keeper[b]

\* One browser with no data key, one sign-in, and the whole clock.
WatermarkNext == OneBrowser /\ UNCHANGED <<unlocked, opening>> /\ DOMAIN store' \subseteq 1 .. 3

\* Two browsers with no data key, one sign-in, two ticks.
RotationNext == SessionNext /\ UNCHANGED <<unlocked, opening>> /\ DOMAIN store' \subseteq 1 .. 3 /\ now' <= 1

\* One browser that signs in, unlocks, signs out or is revoked, and signs in again.
KeysNext == OneBrowser /\ UNCHANGED keeper /\ now' <= 1

\* Two logins, of which the second founds no family.
AdminsNext ==
    /\ RegistryNext
    /\ UNCHANGED <<mode, session, tokens>>
    /\ DOMAIN family' \subseteq {1} /\ signing'[2] = NoSignIn
    /\ \A l \in DOMAIN login' : login'[l].pw = 0

\* One login with everything that happens to its family.
FamiliesNext == RegistryNext /\ DOMAIN login' \subseteq {1}

\* Nobody is kept in mind who was told to sign in, and only one address may administer.
InvitesNext == InviteNext /\ told' = {} /\ \A e \in Addresses : logins'[e].admin => e = "a"

McNext ==
    \/ part = "watermark" /\ WatermarkNext /\ UNCHANGED <<part, rateVars, registryVars, hostedVars, inviteVars>>
    \/ part = "rotation" /\ RotationNext /\ UNCHANGED <<part, rateVars, registryVars, hostedVars, inviteVars>>
    \/ part = "keys" /\ KeysNext /\ UNCHANGED <<part, rateVars, registryVars, hostedVars, inviteVars>>
    \/ part = "rate" /\ RateNext /\ UNCHANGED <<part, sessionVars, registryVars, hostedVars, inviteVars>>
    \/ part = "admins" /\ AdminsNext /\ UNCHANGED <<part, sessionVars, rateVars, hostedVars, inviteVars>>
    \/ part = "families" /\ FamiliesNext /\ UNCHANGED <<part, sessionVars, rateVars, hostedVars, inviteVars>>
    \/ part = "hosted" /\ HostedNext /\ UNCHANGED <<part, sessionVars, rateVars, registryVars, inviteVars>>
    \/ part = "invites" /\ InvitesNext /\ UNCHANGED <<part, sessionVars, rateVars, registryVars, hostedVars>>

mcVars == <<part, sessionVars, rateVars, registryVars, hostedVars, inviteVars>>
McSpec == McInit /\ [][McNext]_mcVars

TypeOK == SessionTypeOK /\ RateTypeOK /\ RegistryTypeOK /\ HostedTypeOK /\ InviteTypeOK
=============================================================================
