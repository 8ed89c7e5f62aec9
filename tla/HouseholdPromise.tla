-------------------------- MODULE HouseholdPromise --------------------------
(***************************************************************************)
(* What a household promises its members, with every operation in one      *)
(* step: who belongs to it, who owns it, to whom its present data key was  *)
(* ever handed, and what its ledger says.  services/household_service.py   *)
(* keeps this promise with a registry, a key ring and a re-key of several  *)
(* transactions (module Household).                                        *)
(***************************************************************************)

CONSTANTS Member,       \* the people who may ever belong to the household
          FirstOwner,   \* who created it
          Founders,     \* its active members at the start
          Row,          \* the encrypted rows of its ledger
          Text          \* what a row may say

VARIABLES standing,     \* the member's standing, "absent" with no membership
          owner,        \* the one owner
          knows,        \* the members the present data key was ever sealed to
          ledger        \* what each row says to a member who opens it

vars == <<standing, owner, knows, ledger>>

Active == {m \in Member : standing[m] = "active"}

Init ==
  /\ standing = [m \in Member |-> IF m \in Founders THEN "active" ELSE "absent"]
  /\ owner = FirstOwner
  /\ knows = Founders
  /\ ledger \in [Row -> Text]

Join(m) ==
  /\ standing[m] \in {"absent", "removed"}
  /\ standing' = [standing EXCEPT ![m] = "pending"]
  /\ UNCHANGED <<owner, knows, ledger>>

Approve(m) ==
  /\ standing[m] = "pending"
  /\ standing' = [standing EXCEPT ![m] = "active"]
  /\ knows' = knows \cup {m}
  /\ UNCHANGED <<owner, ledger>>

Decline(m) ==
  /\ standing[m] = "pending"
  /\ standing' \in {[standing EXCEPT ![m] = s] : s \in {"absent", "removed"}}
  /\ UNCHANGED <<owner, knows, ledger>>

\* A member out and the household on a new key: only those who stay get it,
\* and the ledger says what it said.
RemoveAndRekey(m) ==
  /\ standing[m] = "active" /\ m # owner
  /\ standing' = [standing EXCEPT ![m] = "removed"]
  /\ knows' = Active \ {m}
  /\ UNCHANGED <<owner, ledger>>

\* A member out, the household on the key they knew.
RemoveOnly(m) ==
  /\ standing[m] = "active" /\ m # owner
  /\ standing' = [standing EXCEPT ![m] = "removed"]
  /\ UNCHANGED <<owner, knows, ledger>>

HandOver(m) ==
  /\ standing[m] = "active"
  /\ owner' = m
  /\ UNCHANGED <<standing, knows, ledger>>

StartOver(m) ==
  /\ standing[m] = "active" /\ m # owner
  /\ standing' = [standing EXCEPT ![m] = "pending"]
  /\ UNCHANGED <<owner, knows, ledger>>

Write(r, t) ==
  /\ ledger' = [ledger EXCEPT ![r] = t]
  /\ UNCHANGED <<standing, owner, knows>>

Next ==
  \/ \E m \in Member : \/ Join(m) \/ Approve(m) \/ Decline(m)
                       \/ RemoveAndRekey(m) \/ RemoveOnly(m)
                       \/ HandOver(m) \/ StartOver(m)
  \/ \E r \in Row, t \in Text : Write(r, t)

Spec == Init /\ [][Next]_vars

=============================================================================
