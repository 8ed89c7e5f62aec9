-------------------------- MODULE MCSecondFactor --------------------------
(***************************************************************************)
(* SecondFactor for TLC, in two stories: two tabs enrolling, verifying,    *)
(* recovering and reissuing at once; and one request at a time with the    *)
(* factor taken off by the member and by the administrator too.            *)
(***************************************************************************)
EXTENDS SecondFactor

VARIABLE story

Tabs ==
  INSTANCE SecondFactor
    WITH Ops <- {"begin", "abandon", "confirm", "verify", "recover", "reissue"}, MaxStep <- 3

Alone ==
  INSTANCE SecondFactor
    WITH Handler <- {CHOOSE h \in Handler : TRUE}

FactorInit == story \in {"tabs", "alone"} /\ Init
FactorNext ==
  \/ story = "tabs" /\ Tabs!Next /\ UNCHANGED story
  \/ story = "alone" /\ Alone!Next /\ UNCHANGED story
\* While nobody takes the factor off, what the row still lets in was never accepted: the
\* induction the proofs rest on (confirm_enrolment, verify, recover, reissue_codes).
CodesStayNew == story = "tabs" => CodesInv

FactorSpec == FactorInit /\ [][FactorNext]_<<vars, story>>
=============================================================================
