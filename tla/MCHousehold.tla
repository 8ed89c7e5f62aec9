---------------------------- MODULE MCHousehold ----------------------------
(***************************************************************************)
(* Household for TLC: one request at a time, and two.                      *)
(***************************************************************************)
EXTENDS Household, TLC

-----------------------------------------------------------------------------
(* Stories: a variable that never changes says which operations and faults *)
(* happen and who the founders are, so that the rest need not multiply.    *)

VARIABLE story

Membership ==
  INSTANCE Household
    WITH Ops <- {"signin", "join", "setup", "unlock", "approve", "decline", "remove", "leave",
                 "drop", "transfer", "reset", "restart", "fail"},
         MaxDek <- 2, MaxText <- 0

Keys ==
  INSTANCE Household
    WITH Ops <- {"signin", "unlock", "change", "recover", "lock", "write", "remove", "leave",
                 "suspend", "resume", "restart", "fail", "join", "setup", "approve"},
         MaxKeypair <- 1

\* One request at a time.
AloneInit == story \in {"membership", "keys"} /\ Init
AloneNext ==
  \/ story = "membership" /\ Membership!Next /\ UNCHANGED story
  \/ story = "keys" /\ Keys!Next /\ UNCHANGED story
AloneSpec == AloneInit /\ [][AloneNext]_<<vars, story>>

Rekeys ==
  INSTANCE Household
    WITH Ops <- {"signin", "unlock", "lock", "write", "remove", "leave", "drop", "restart", "fail",
                 "markfail"},
         Founders <- Member, MaxKeypair <- 1

Races ==
  INSTANCE Household
    WITH Ops <- {"signin", "join", "setup", "approve", "decline", "drop", "reset", "revokefail"},
         MaxDek <- 1, MaxText <- 0

\* Two requests at a time.
CrossedInit == story \in {"rekeys", "races"} /\ IF story = "rekeys" THEN Rekeys!Init ELSE Races!Init
CrossedNext ==
  \/ story = "rekeys" /\ Rekeys!Next /\ UNCHANGED story
  \/ story = "races" /\ Races!Next /\ UNCHANGED story
CrossedSpec == CrossedInit /\ [][CrossedNext]_<<vars, story>>

\* No operation tells one slot from another.
SlotsAlike == Permutations(Handler)

\* A removed member holds neither sealed key nor ownership, whoever else is let in,
\* dropped or reset at the same time (_removal: "removed, no sealed key, never the owner").
\* Not so with a re-key under way: one that read the holders before a member was dropped
\* seals the new key to them afterwards.
RemovedLoseAll == story = "races" => RemovedHoldsNothing
=============================================================================
