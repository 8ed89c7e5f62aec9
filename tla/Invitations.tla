-------------------------------- MODULE Invitations -------------------------------
(***************************************************************************)
(* Inviting into a household and joining it: the owner's invitations       *)
(* (services/household_service.py), the link opened with nobody signed in  *)
(* (HouseholdInvitations, views/join.py), the first sign-in of an invited  *)
(* address and the return of a removed member (services/tenant_service.py).*)
(*                                                                         *)
(* One household; an address may belong to it, to another account, or to   *)
(* nobody.  The owner works in several tabs: the count of places and the   *)
(* writing of an invitation are statements apart.  A link is accepted in   *)
(* three transactions: the check, the new login, the joining (which locks  *)
(* the invitation), a joiner declined in two (the row, the login); the     *)
(* process may stop between two of them.                                   *)
(***************************************************************************)
EXTENDS Integers, FiniteSets

CONSTANTS
    Addresses,
    OwnerTabs,
    Joiners,        \* browsers with a link open
    MaxMembers,     \* household_max_members
    InviteTtl,
    MaxInvites,     \* bound: invitations written
    LastHour        \* bound: the clock

VARIABLES
    hour,
    invites,    \* tenant_invites: [token, email, made, accepted]; accepted is 0 or the hour
    places,     \* address -> its membership: here, its status, and whether it was removed once
    logins,     \* local_identities: address -> the hour it was made, whether it administers
                \* the instance and, as history, by what it was made or kept
    turnedAway, \* address -> the login (its hour) of a declined joiner still to be looked at; 0
    ownerTab,   \* per tab: the invitation being written
    joiner,     \* per browser: the acceptance under way
    told,       \* addresses told to sign in with their login to accept
    stopped     \* a process stopped between two transactions

inviteVars == <<hour, invites, places, logins, turnedAway, ownerTab, joiner, told, stopped>>

NoLogin == [made |-> 0, by |-> "none", admin |-> FALSE]
Nobody == [status |-> "none", was |-> FALSE]
IdleTab == [state |-> "idle", email |-> "none"]
IdleJoiner == [state |-> "idle", token |-> 0]

IsOpen(i) == i.accepted = 0 /\ i.made + InviteTtl > hour
Open == {i \in invites : IsOpen(i)}
IsMember(e) == places[e].status \in {"pending", "active"}
\* The owner has a place.
PlacesTaken == 1 + Cardinality({e \in Addresses : IsMember(e)}) + Cardinality(Open)
Replaced(e) == Cardinality({i \in Open : i.email = e})

-----------------------------------------------------------------------------
(* The owner.                                                              *)

\* Refused for a member, for another account's address, and when the household is full.
InviteCheck(t, e) ==
    /\ ownerTab[t] = IdleTab
    /\ places[e].status \in {"none", "removed"}
    /\ PlacesTaken - Replaced(e) < MaxMembers
    /\ ownerTab' = [ownerTab EXCEPT ![t] = [state |-> "writing", email |-> e]]
    /\ UNCHANGED <<turnedAway, hour, invites, places, logins, joiner, told, stopped>>
InviteWrite(t) ==
    /\ ownerTab[t].state = "writing"
    /\ Cardinality(invites) < MaxInvites
    /\ LET e == ownerTab[t].email
           token == 1 + Cardinality(invites)
       IN \* Replaced invitations go; here their rows stay, spent before they were made.
          invites' = {IF i.email = e /\ i.accepted = 0 THEN [i EXCEPT !.accepted = -1] ELSE i : i \in invites}
                     \cup {[token |-> token, email |-> e, made |-> hour, accepted |-> 0]}
    /\ ownerTab' = [ownerTab EXCEPT ![t] = IdleTab]
    /\ UNCHANGED <<turnedAway, hour, places, logins, joiner, told, stopped>>
CancelInvitation(e) ==
    /\ \E i \in invites : i.email = e /\ i.accepted = 0
    /\ invites' = {IF i.email = e /\ i.accepted = 0 THEN [i EXCEPT !.accepted = -1] ELSE i : i \in invites}
    /\ UNCHANGED <<turnedAway, hour, places, logins, ownerTab, joiner, told, stopped>>
ApproveJoined(e) ==
    /\ places[e].status = "pending"
    /\ places' = [places EXCEPT ![e].status = "active"]
    /\ UNCHANGED <<turnedAway, hour, invites, logins, ownerTab, joiner, told, stopped>>
\* The login is the invitation's own when it is not older than the invitation spent last.
MadeByInvitation(e) ==
    LET spent == {i \in invites : i.email = e /\ i.accepted > 0}
        last == CHOOSE i \in spent : \A j \in spent : j.accepted <= i.accepted
    IN logins[e] # NoLogin /\ spent # {} /\ logins[e].made >= last.made
\* A former member goes back to removed; anyone else loses the row ...
DeclineJoined(e) ==
    /\ places[e].status = "pending"
    /\ IF places[e].was
       THEN /\ places' = [places EXCEPT ![e].status = "removed"]
            /\ UNCHANGED turnedAway
       ELSE /\ places' = [places EXCEPT ![e] = Nobody]
            /\ turnedAway' = [turnedAway EXCEPT ![e] = logins[e].made]
    /\ UNCHANGED <<hour, invites, logins, ownerTab, joiner, told, stopped>>
\* ... and, after that commit, the login the invitation made, an administrator's excepted.
DeclineLogin(e) ==
    /\ turnedAway[e] # 0
    /\ logins' = IF logins[e].made # turnedAway[e] THEN logins
                 ELSE IF logins[e].admin THEN [logins EXCEPT ![e].by = "kept"]
                 ELSE IF MadeByInvitation(e) THEN [logins EXCEPT ![e] = NoLogin] ELSE logins
    /\ turnedAway' = [turnedAway EXCEPT ![e] = 0]
    /\ UNCHANGED <<hour, invites, places, ownerTab, joiner, told, stopped>>
\* The process stops between the two.
StopDecline(e) ==
    /\ turnedAway[e] # 0
    /\ turnedAway' = [turnedAway EXCEPT ![e] = 0]
    /\ stopped' = TRUE
    /\ UNCHANGED <<hour, invites, places, logins, ownerTab, joiner, told>>
\* The instance's administration gives or takes the administrator flag.
SetInstanceAdmin(e) ==
    /\ logins[e] # NoLogin
    /\ logins' = [logins EXCEPT ![e].admin = ~@]
    /\ UNCHANGED <<turnedAway, hour, invites, places, ownerTab, joiner, told, stopped>>
RemoveMember(e) ==
    /\ places[e].status = "active"
    /\ places' = [places EXCEPT ![e] = [status |-> "removed", was |-> TRUE]]
    /\ UNCHANGED <<turnedAway, hour, invites, logins, ownerTab, joiner, told, stopped>>

-----------------------------------------------------------------------------
(* The invited.                                                            *)

\* accept_with_password: the link is good, and the address has no login yet.
AcceptCheck(b, i) ==
    /\ joiner[b] = IdleJoiner
    /\ IsOpen(i)
    /\ IF logins[i.email] # NoLogin
       THEN /\ told' = told \cup {i.email}
            /\ UNCHANGED joiner
       ELSE /\ joiner' = [joiner EXCEPT ![b] = [state |-> "creating", token |-> i.token]]
            /\ UNCHANGED told
    /\ UNCHANGED <<turnedAway, hour, invites, places, logins, ownerTab, stopped>>
Of(token) == CHOOSE i \in invites : i.token = token
\* Of two tabs one creates the login; the other is told the link was just used.
MakeLogin(b) ==
    /\ joiner[b].state = "creating"
    /\ LET e == Of(joiner[b].token).email
       IN IF logins[e] # NoLogin
          THEN /\ joiner' = [joiner EXCEPT ![b] = IdleJoiner]
               /\ UNCHANGED logins
          ELSE /\ logins' = [logins EXCEPT ![e] = [made |-> hour, by |-> "link", admin |-> FALSE]]
               /\ joiner' = [joiner EXCEPT ![b].state = "joining"]
    /\ UNCHANGED <<turnedAway, hour, invites, places, ownerTab, told, stopped>>
\* join(): the invitation is locked and looked at again.
CanJoin(i) == IsOpen(i) /\ places[i.email].status \in {"none", "removed"}
Joined(i) ==
    /\ places' = [places EXCEPT ![i.email].status = "pending"]
    /\ invites' = (invites \ {i}) \cup {[i EXCEPT !.accepted = hour]}
\* A joining that fails takes the new login back.
\* Mutant of JoinFails: the login stays.
JoinFails_KeepsLogin(b, i) ==
    /\ ~CanJoin(i)
    /\ UNCHANGED <<places, invites, logins>>
JoinFails(b, i) ==
    /\ ~CanJoin(i)
    /\ logins' = [logins EXCEPT ![i.email] = NoLogin]
    /\ UNCHANGED <<places, invites>>
AcceptJoin(b) ==
    /\ joiner[b].state = "joining"
    /\ LET i == Of(joiner[b].token)
       IN \/ CanJoin(i) /\ Joined(i) /\ UNCHANGED logins
          \/ JoinFails(b, i)
    /\ joiner' = [joiner EXCEPT ![b] = IdleJoiner]
    /\ UNCHANGED <<turnedAway, hour, ownerTab, told, stopped>>
\* The process stops while a link is being accepted.
Stop(b) ==
    /\ joiner[b].state = "joining"
    /\ joiner' = [joiner EXCEPT ![b] = IdleJoiner]
    /\ stopped' = TRUE
    /\ UNCHANGED <<turnedAway, hour, invites, places, logins, ownerTab, told>>
\* Somebody signs up, or is given a login, without a link.
SelfSignUp(e) ==
    /\ logins[e] = NoLogin
    /\ places[e].status = "none"
    /\ logins' = [logins EXCEPT ![e] = [made |-> hour, by |-> "self", admin |-> FALSE]]
    /\ UNCHANGED <<turnedAway, hour, invites, places, ownerTab, joiner, told, stopped>>

\* The first sign-in of an address: one the provider verified joins by its open invitation,
\* a local one founds a household of its own whatever it was invited to.
ByEmail(e) == {i \in Open : i.email = e}
\* The newest open invitation.
Latest(S) == CHOOSE i \in S : \A j \in S : j.token <= i.token
SignInLocal(e) ==
    /\ logins[e] # NoLogin
    /\ \/ /\ places[e].status = "none"
          /\ places' = [places EXCEPT ![e].status = "elsewhere"]
          /\ UNCHANGED invites
       \/ places[e].status = "removed" /\ ByEmail(e) # {} /\ Joined(Latest(ByEmail(e)))
    /\ UNCHANGED <<turnedAway, hour, logins, ownerTab, joiner, told, stopped>>
SignInVerified(e) ==
    /\ logins[e] = NoLogin
    /\ \/ places[e].status \in {"none", "removed"} /\ ByEmail(e) # {} /\ Joined(Latest(ByEmail(e)))
       \/ /\ places[e].status = "none" /\ ByEmail(e) = {}
          /\ places' = [places EXCEPT ![e].status = "elsewhere"]
          /\ UNCHANGED invites
    /\ UNCHANGED <<turnedAway, hour, logins, ownerTab, joiner, told, stopped>>
NextHour ==
    /\ hour < LastHour
    /\ hour' = hour + 1
    /\ UNCHANGED <<turnedAway, invites, places, logins, ownerTab, joiner, told, stopped>>

InviteInit ==
    /\ hour = 1
    /\ invites = {}
    /\ places = [e \in Addresses |-> Nobody]
    /\ logins = [e \in Addresses |-> NoLogin]
    /\ turnedAway = [e \in Addresses |-> 0]
    /\ ownerTab = [t \in OwnerTabs |-> IdleTab]
    /\ joiner = [b \in Joiners |-> IdleJoiner]
    /\ told = {}
    /\ stopped = FALSE
InviteNext ==
    \/ \E t \in OwnerTabs : (\E e \in Addresses : InviteCheck(t, e)) \/ InviteWrite(t)
    \/ \E e \in Addresses :
          \/ CancelInvitation(e) \/ ApproveJoined(e) \/ RemoveMember(e) \/ SetInstanceAdmin(e)
          \/ DeclineJoined(e) \/ DeclineLogin(e) \/ StopDecline(e)
          \/ SelfSignUp(e) \/ SignInLocal(e) \/ SignInVerified(e)
    \/ \E b \in Joiners : (\E i \in invites : AcceptCheck(b, i)) \/ MakeLogin(b) \/ AcceptJoin(b) \/ Stop(b)
    \/ NextHour
InviteSpec == InviteInit /\ [][InviteNext]_inviteVars

-----------------------------------------------------------------------------
(* Properties.                                                             *)

InviteTypeOK ==
    /\ hour \in 1 .. LastHour
    /\ \A i \in invites : i.email \in Addresses /\ i.made <= hour /\ i.accepted <= hour
    /\ \A i, j \in invites : i.token = j.token => i = j
    /\ \A e \in Addresses : places[e].status \in {"none", "pending", "active", "removed", "elsewhere"}
    /\ turnedAway \in [Addresses -> 0 .. LastHour]
    /\ told \subseteq Addresses

\* The places hold: the people in the household or invited to it exceed the limit by no
\* more than the owner's other tabs that counted at the same time, whatever expires, is
\* replaced, accepted, declined or taken back meanwhile (_places_taken, invite).
PlacesBounded ==
    1 + Cardinality({e \in Addresses : IsMember(e) \/ \E i \in Open : i.email = e})
        <= MaxMembers + Cardinality(OwnerTabs) - 1

\* A person is turned away whole: once the acceptance or the declining under way has
\* ended, a login a link made belongs to somebody who is, or was, of the household or of
\* another, or was spared as an administrator's, unless the process stopped half way
\* (accept_with_password, join, _delete_invited_login).
NoStrayLogins ==
    \A e \in Addresses :
        /\ logins[e].by = "link" /\ ~stopped
        /\ turnedAway[e] # logins[e].made
        /\ \A b \in Joiners : joiner[b].state = "joining" => Of(joiner[b].token).email # e
        => places[e].status # "none"

\* A link admits once and only while it is open: whoever becomes a member spends an
\* invitation to their address that was neither replaced, cancelled, expired nor used at
\* that moment, also when it changed after it was looked at (join).
AdmittedByAnOpenLink ==
    [][\A e \in Addresses :
         (~IsMember(e) /\ IsMember(e)') =>
            \E i \in invites : i.email = e /\ i.accepted = 0 /\ i.made + InviteTtl > hour
                               /\ \E j \in invites' : j.token = i.token /\ j.accepted = hour]_inviteVars

\* "A household has at most {max_members} members, invitations included." (invite)
PlacesRespected == PlacesTaken <= MaxMembers

\* "This e-mail address already has a login here. Sign in with it to accept."
\* (accept_with_password): who was told so and signs in while the invitation is open is
\* a member from then on.
SigningInAccepts ==
    [][\A e \in told : (ByEmail(e) # {} /\ SignInLocal(e)) => IsMember(e)']_inviteVars
=============================================================================
