---------------------------------- MODULE MCMoney ---------------------------------
(***************************************************************************)
(* The tables of the ledger on small instances, one at a time: `focus`     *)
(* says which component moves, so that the states of the others do not     *)
(* multiply.  A focus may hold a component to a smaller instance.          *)
(***************************************************************************)
EXTENDS Ledger, Payees, Housekeeping

VARIABLE focus

Focuses == {"pairing", "editing", "view", "payees", "scores", "categories", "duplicates"}

McInit ==
    /\ focus \in Focuses
    /\ LedgerInit
    /\ ViewInit
    /\ PayeeInit
    /\ IF focus = "scores" THEN ScoreInit
       ELSE left = [name |-> <<1>>, also |-> {}] /\ right = left
    /\ HouseInit
    /\ CASE focus = "duplicates" -> DOMAIN entry = Entries
         [] focus = "categories" -> entry = [e \in {1} |-> [cat |-> 0, day |-> 0, text |-> "", plan |-> 0]]
         [] OTHER -> entry = <<>>

\* Three rows of one amount, two accounts, nobody editing.
PairingNext ==
    /\ LedgerNext
    /\ form' = form
    /\ \A i \in DOMAIN tx' : tx'[i].amount = 1 /\ tx'[i].parts = <<>>

\* Two dialogs on one row.
EditingNext ==
    /\ LedgerNext
    /\ nextTx' <= 2
    /\ opening' = opening

\* One row, categories of one type.
CategoriesNext ==
    /\ HouseNext
    /\ \A c \in DOMAIN cat' : cat'[c].type = "expense" /\ cat'[c].parent \in {0, 3}

DuplicatesNext == HouseNext /\ UNCHANGED cat

McNext ==
    \/ focus = "pairing" /\ PairingNext
       /\ UNCHANGED <<focus, viewVars, payeeVars, scoreVars, houseVars>>
    \/ focus = "editing" /\ EditingNext
       /\ UNCHANGED <<focus, viewVars, payeeVars, scoreVars, houseVars>>
    \/ focus = "view" /\ ViewNext
       /\ UNCHANGED <<focus, ledgerVars, payeeVars, scoreVars, houseVars>>
    \/ focus = "payees" /\ PayeeNext
       /\ UNCHANGED <<focus, ledgerVars, viewVars, scoreVars, houseVars>>
    \/ focus = "scores" /\ ScoreNext
       /\ UNCHANGED <<focus, ledgerVars, viewVars, payeeVars, houseVars>>
    \/ focus = "categories" /\ CategoriesNext
       /\ UNCHANGED <<focus, ledgerVars, viewVars, payeeVars, scoreVars>>
    \/ focus = "duplicates" /\ DuplicatesNext
       /\ UNCHANGED <<focus, ledgerVars, viewVars, payeeVars, scoreVars>>

mcVars == <<focus, ledgerVars, viewVars, payeeVars, scoreVars, houseVars>>
McSpec == McInit /\ [][McNext]_mcVars

TypeOK ==
    /\ LedgerTypeOK /\ ViewTypeOK /\ PayeeTypeOK /\ ScoreTypeOK /\ HouseTypeOK
=============================================================================
