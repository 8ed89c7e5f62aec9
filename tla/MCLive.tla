---------------------------------- MODULE MCLive ----------------------------------
(***************************************************************************)
(* What must eventually happen: a household's freeze ends and its requests *)
(* are answered; a cancelled subscription is settled.  `part` says which   *)
(* of the two moves.                                                       *)
(***************************************************************************)
EXTENDS Household, Subscriptions

VARIABLE part

\* The settlement job is not started where the household is looked at.
NotStarted == [Free EXCEPT !.at = "off"]

LiveInit ==
    /\ part \in {"household", "subscription"}
    /\ Init /\ (part = "subscription" => \A m \in Member : ring[m] = NoKey)
    /\ IF part = "subscription" THEN SubInit
       ELSE day = 1 /\ fails = 0 /\ desk = [d \in Desks |-> Free] /\ job = NotStarted /\ sub = Free.new

LiveNext ==
    \/ part = "household" /\ Next /\ UNCHANGED <<part, subVars>>
    \/ part = "subscription" /\ SubNext /\ UNCHANGED <<part, vars>>

LiveSpec == LiveInit /\ [][LiveNext]_<<part, vars, subVars>> /\ Fairness /\ SubFairness
=============================================================================
