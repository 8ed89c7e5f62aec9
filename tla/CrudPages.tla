------------------------------- MODULE CrudPages -------------------------------
(***************************************************************************)
(* The pages that list rows of one table and edit them through dialogs: an *)
(* add/edit form, a delete question and buttons on the row.  A handler is  *)
(* a coroutine: it runs in one piece up to its first await, hands its work *)
(* to a database session, and later tells the user, closes the dialog and  *)
(* brings the list up to date.  Between those steps the user goes on: the  *)
(* dialogs can be left with Escape and opened for another row, and other   *)
(* tabs delete the rows this one shows.                                    *)
(*                                                                         *)
(* What differs between the pages is stated per page:                      *)
(*   form.target   the page keeps the identifier of the row its form is    *)
(*                 about; a save reads it before its first await ("held")  *)
(*                 or after it ("late")                                    *)
(*   form.gone     what a save of a row that is gone does: "told" (an      *)
(*                 error is shown) or "said" (the success notice is shown) *)
(*   form.checks   where the fields are validated: "before" the handler's  *)
(*                 work, "inside" it (a refusal ends only the inner        *)
(*                 function), or "never"                                   *)
(*   list          how the list follows: "patch" (the rows in memory are   *)
(*                 changed), "late patch" (by the row selected by then),   *)
(*                 "refetch" or "reload" of the whole page                 *)
(*   delete, acts  the same answers for the delete button and the row's    *)
(*                 other buttons ("silent": no notice at all)              *)
(*                                                                         *)
(* Most forms are filled in and opened in one piece.  The categories' are  *)
(* filled in, await the parents to offer, and open when these are there:   *)
(* the opening of another row may begin, and land, in between.             *)
(***************************************************************************)
EXTENDS Tables, Naturals, FiniteSets

CONSTANTS MaxRow,      \* bound: identifiers of rows
          MaxFlight,   \* bound: handlers at work, and forms being loaded, at once
          MaxPress,    \* bound: buttons pressed
          MaxLost      \* bound: the rows 1..MaxLost may be deleted elsewhere
ASSUME CrudBounds == {MaxRow, MaxFlight, MaxPress, MaxLost} \subseteq Nat \ {0}

VARIABLES page,     \* which page the tab shows
          rows,     \* the table: id -> value
          nextRow,  \* the next identifier of the table
          tab,      \* the list and the dialogs of this tab
          flight,   \* handlers at work
          presses,
          told      \* what the user has been told and what really happened

crudVars == <<page, rows, nextRow, tab, flight, presses, told>>

Vals == {1, 2}

-----------------------------------------------------------------------------
(* The pages.                                                              *)

Form(target, gone, checks) == [target |-> target, gone |-> gone, checks |-> checks]

AccountsAdd == Form("held", "said", "before")
AccountsForm == AccountsAdd
AccountsDelete == "said"
AccountsList == "patch"

InstitutionsAdd == Form("held", "said", "before")
InstitutionsForm == InstitutionsAdd
InstitutionsDelete == "said"
InstitutionsList == "patch"

CategoriesAdd == Form("held", "said", "before")
CategoriesForm == CategoriesAdd
CategoriesDelete == "said"
CategoriesList == "refetch"

TagsForm == Form("held", "said", "before")
TagsDelete == "said"
TagsList == "refetch"

\* Mutant of PlannedForm: the row is read when the session runs.
PlannedForm_Late == Form("late", "said", "before")

PlannedForm == Form("held", "said", "before")
PlannedDelete == "said"
PlannedToggle == "silent"
PlannedDrift == "told"
PlannedList == "refetch"

GiftsForm == Form("held", "told", "before")
GiftsDelete == "told"
GiftsBought == "told"
GiftsNotBought == "told"
GiftsList == "reload"

IrregularForm == Form("held", "told", "before")
IrregularDelete == "told"
IrregularPayment == "told"
IrregularLink == "told"
IrregularList == "refetch"

LoansForm == Form("late", "said", "before")
LoansDelete == "said"
LoansRepay == "said"
LoansUnrepay == "said"
LoansList == "reload"

RulesForm == Form("held", "told", "before")
RulesDelete == "said"
RulesList == "refetch"

\* Cards and loans are only ever added here.
CardsForm == Form("held", "said", "before")
CardsList == "reload"
CreditLoansForm == CardsForm
CreditLoansList == "reload"

FundsForm == Form("held", "said", "inside")
FundsDelete == "said"
FundsArchive == "said"
FundsContribute == "told"
FundsClose == "told"
FundsList == "reload"

SubscriptionsForm == Form("held", "said", "before")
SubscriptionsDelete == "said"
SubscriptionsPause == "said"
SubscriptionsRefile == "silent"
SubscriptionsList == "reload"

AssetsAdd == Form("held", "silent", "never")
AssetsForm == AssetsAdd
AssetsDelete == "silent"
AssetsList == "late patch"

PayeesForm == Form("held", "said", "before")
PayeesDelete == "said"
PayeesMerge == "told"
PayeesList == "refetch"

\* The instance administrator's page: families are created, suspended and deleted;
\* every button asks for a fresh sign-in first, and what fails is shown.
AdminForm == Form("held", "told", "before")
AdminDelete == "told"
AdminActs == "told"
AdminList == "refetch"

\* Invitations, approvals, removals and the hand-over of a household.
HouseholdForm == Form("held", "told", "before")
HouseholdRemove == "told"
HouseholdApprove == "told"
HouseholdOwner == "told"
HouseholdList == "refetch"

\* API tokens are created and revoked.
TokensForm == Form("held", "told", "before")
TokensRevoke == "told"
TokensList == "refetch"

\* Remembered import rules are edited, switched and deleted.
ImportRulesForm == Form("held", "told", "before")
ImportRulesToggle == "told"
ImportRulesDelete == "said"
ImportRulesList == "refetch"

Page(form, list, delete, acts) ==
    [form |-> form, list |-> list, delete |-> delete, acts |-> acts]

AccountsPage == Page(AccountsForm, AccountsList, AccountsDelete, {})
InstitutionsPage == Page(InstitutionsForm, InstitutionsList, InstitutionsDelete, {})
CategoriesPage == Page(CategoriesForm, CategoriesList, CategoriesDelete, {})
TagsPage == Page(TagsForm, TagsList, TagsDelete, {})
PlannedPage == Page(PlannedForm, PlannedList, PlannedDelete, {PlannedToggle, PlannedDrift})
GiftsPage == Page(GiftsForm, GiftsList, GiftsDelete, {GiftsBought, GiftsNotBought})
IrregularPage == Page(IrregularForm, IrregularList, IrregularDelete,
                     {IrregularPayment, IrregularLink})
LoansPage == Page(LoansForm, LoansList, LoansDelete, {LoansRepay, LoansUnrepay})
RulesPage == Page(RulesForm, RulesList, RulesDelete, {})
CardsPage == Page(CardsForm, CardsList, "none", {})
CreditLoansPage == Page(CreditLoansForm, CreditLoansList, "none", {})
FundsPage == Page(FundsForm, FundsList, FundsDelete,
                 {FundsArchive, FundsContribute, FundsClose})
SubscriptionsPage == Page(SubscriptionsForm, SubscriptionsList, SubscriptionsDelete,
                         {SubscriptionsPause, SubscriptionsRefile})
AssetsPage == Page(AssetsForm, AssetsList, AssetsDelete, {})
PayeesPage == Page(PayeesForm, PayeesList, PayeesDelete, {PayeesMerge})
AdminPage == Page(AdminForm, AdminList, AdminDelete, {AdminActs})
HouseholdPage == Page(HouseholdForm, HouseholdList, HouseholdRemove,
                      {HouseholdApprove, HouseholdOwner})
TokensPage == Page(TokensForm, TokensList, TokensRevoke, {})
ImportRulesPage == Page(ImportRulesForm, ImportRulesList, ImportRulesDelete, {ImportRulesToggle})

Pages ==
    [accounts |-> AccountsPage,
     institutions |-> InstitutionsPage,
     categories |-> CategoriesPage,
     tags |-> TagsPage,
     planned |-> PlannedPage,
     gifts |-> GiftsPage,
     irregular |-> IrregularPage,
     loans |-> LoansPage,
     rules |-> RulesPage,
     cards |-> CardsPage,
     credit_loans |-> CreditLoansPage,
     funds |-> FundsPage,
     subscriptions |-> SubscriptionsPage,
     assets |-> AssetsPage,
     payees |-> PayeesPage,
     admin |-> AdminPage,
     household |-> HouseholdPage,
     tokens |-> TokensPage,
     import_rules |-> ImportRulesPage]

This == Pages[page]
AddedOnly == {"cards", "credit_loans", "admin", "household", "tokens"}   \* no edit form
EditedOnly == {"import_rules"}                                         \* no add form
TwoForms == {"accounts", "institutions", "categories", "assets"}   \* adding has its own form
SharedId == {"accounts", "institutions", "assets"}   \* one identifier for form and question
LateForms == {"categories"}                          \* forms that load before they open

-----------------------------------------------------------------------------
\* edit: the page's identifier, the row whose fields fill the form, and the row whose
\* parents it offers; asked: the row the question names; opening: forms being loaded.
Fresh == [shown |-> rows, open |-> {}, edit |-> [row |-> 0, of |-> 0, rest |-> 0],
          asked |-> 0, opening |-> {}]

Room == Cardinality(flight) + Cardinality(tab.opening) < MaxFlight

CrudInit ==
    /\ page \in DOMAIN Pages
    /\ rows = [i \in 1..2 |-> 1]
    /\ nextRow = 3
    /\ tab = Fresh
    /\ flight = {}
    /\ presses = 0
    /\ told = [strayed |-> {}, mixed |-> FALSE, lied |-> FALSE, overlapped |-> FALSE,
               saved |-> {}, deleted |-> {}]

\* The add button: a form of its own, or the one form emptied.
OpenAdd ==
    /\ page \notin EditedOnly
    /\ tab.open = {} /\ (page \in LateForms => Room)
    /\ tab' = IF page \in LateForms THEN [tab EXCEPT !.opening = @ \cup {0}]
              ELSE IF page \in TwoForms THEN [tab EXCEPT !.open = {"add"}]
              ELSE [tab EXCEPT !.open = {"form"}, !.edit = [row |-> 0, of |-> 0, rest |-> 0]]
    /\ UNCHANGED <<page, rows, nextRow, flight, presses, told>>

\* The pencil of a row: the identifier is noted and the fields are filled in; the form
\* comes up with them, or once the rest of it is loaded.
OpenEdit(i) ==
    /\ page \notin AddedOnly
    /\ tab.open = {} /\ (page \in LateForms => Room) /\ i \in DOMAIN tab.shown
    /\ tab' = IF page \in LateForms
              THEN [tab EXCEPT !.edit = [row |-> i, of |-> i, rest |-> tab.edit.rest],
                               !.opening = @ \cup {i}]
              ELSE [tab EXCEPT !.edit = [row |-> i, of |-> i, rest |-> i], !.open = {"form"}]
    /\ UNCHANGED <<page, rows, nextRow, flight, presses, told>>

\* The load of an opening lands: the form comes up, whatever is on screen by then.
FormLoaded(i) ==
    /\ page \in LateForms /\ i \in tab.opening
    /\ tab' = IF i = 0
              THEN [tab EXCEPT !.opening = @ \ {i}, !.open = @ \cup {"add"}]
              ELSE [tab EXCEPT !.opening = @ \ {i}, !.open = @ \cup {"form"},
                               !.edit = [row |-> tab.edit.row, of |-> tab.edit.of, rest |-> i]]
    /\ UNCHANGED <<page, rows, nextRow, flight, presses, told>>

\* The load of an opening fails: nothing comes up.
FormFails(i) ==
    /\ page \in LateForms /\ i \in tab.opening
    /\ tab' = [tab EXCEPT !.opening = @ \ {i}]
    /\ UNCHANGED <<page, rows, nextRow, flight, presses, told>>

OpenDelete(i) ==
    /\ This.delete # "none"
    /\ tab.open = {} /\ i \in DOMAIN tab.shown
    /\ tab' = [tab EXCEPT !.open = {"question"}, !.asked = i,
                          !.edit = IF page \in SharedId
                                   THEN [row |-> i, of |-> tab.edit.of, rest |-> tab.edit.rest]
                                   ELSE tab.edit]
    /\ UNCHANGED <<page, rows, nextRow, flight, presses, told>>

Leave(d) ==
    /\ d \in tab.open
    /\ tab' = [tab EXCEPT !.open = @ \ {d}]
    /\ UNCHANGED <<page, rows, nextRow, flight, presses, told>>

\* A handler starts: what it holds is read before its first await.  `via` is the dialog it
\* will close, `of` and `rest` the rows the user saw there.
Start(op, via, i, of, rest, v, good, gone) ==
    /\ presses < MaxPress /\ Room
    /\ presses' = presses + 1
    /\ told' = [told EXCEPT !.overlapped = @ \/ flight # {}]
    /\ flight' = flight \cup
        {[n |-> presses + 1, op |-> op, via |-> via, id |-> i, of |-> of, rest |-> rest,
          val |-> v, good |-> good, gone |-> gone,
          stage |-> "sent", out |-> "none", list |-> <<>>, orphan |-> FALSE]}

\* What the fields hold by then: a value, and whether the form's checks accept it.
PressSave(v, good) ==
    /\ good \/ This.form.checks = "inside"
    /\ \/ /\ "add" \in tab.open
          /\ Start("save", "add", 0, 0, 0, v, good, This.form.gone)
       \/ /\ "form" \in tab.open
          /\ Start("save", "form", tab.edit.row, tab.edit.of, tab.edit.rest, v, good, This.form.gone)
    /\ UNCHANGED <<page, rows, nextRow, tab>>

PressDelete ==
    /\ "question" \in tab.open
    /\ Start("delete", "question", IF page \in SharedId THEN tab.edit.row ELSE tab.asked,
             tab.asked, tab.asked, 1, TRUE, This.delete)
    /\ UNCHANGED <<page, rows, nextRow, tab>>

\* A button of the row itself: toggle, pay, archive, merge...
PressAct(i, gone) ==
    /\ tab.open = {} /\ i \in DOMAIN tab.shown /\ gone \in This.acts
    /\ Start("act", "row", i, i, i, 1, TRUE, gone)
    /\ UNCHANGED <<page, rows, nextRow, tab>>

\* The row a handler writes to: the one it held, or the page's by the time it asks.
Target(f) ==
    IF f.op = "save" /\ This.form.target = "late" THEN tab.edit.row ELSE f.id

At(f, g) == flight' = (flight \ {f}) \cup {g}

Adds(f) == f.op = "save" /\ Target(f) = 0
RefusedInside(f) == Adds(f) /\ ~f.good /\ This.form.checks = "inside"

Outcome(f) ==
    CASE RefusedInside(f) -> "lied"
      [] Adds(f) /\ ~RefusedInside(f) -> "done"
      [] ~Adds(f) /\ Target(f) \in DOMAIN rows -> "done"
      [] ~Adds(f) /\ Target(f) \notin DOMAIN rows -> IF f.gone = "told" THEN "refused" ELSE "lied"

\* The session's work: the write and its commit.
Write(f) ==
    /\ f \in flight /\ f.stage = "sent"
    /\ LET added == Adds(f) /\ Outcome(f) = "done"
           i == IF added THEN nextRow ELSE Target(f)
       IN  /\ i <= MaxRow
           /\ rows' = CASE Outcome(f) # "done" \/ f.op = "act" -> rows
                        [] Outcome(f) = "done" /\ f.op = "delete" -> Without(rows, {i})
                        [] Outcome(f) = "done" /\ f.op = "save" -> With(rows, i, f.val)
           /\ nextRow' = IF added THEN nextRow + 1 ELSE nextRow
           /\ At(f, [f EXCEPT !.stage = "written", !.id = IF added THEN i ELSE @, !.out = Outcome(f)])
           /\ told' = [told EXCEPT !.strayed = IF Target(f) # f.of THEN @ \cup {f.op} ELSE @,
                                   !.mixed = @ \/ Target(f) # f.rest]
    /\ UNCHANGED <<page, tab, presses>>

\* Anything else the service raises, or the database: the handler dies, the dialog stays.
WriteFails(f) ==
    /\ f \in flight /\ f.stage = "sent"
    /\ flight' = flight \ {f}
    /\ UNCHANGED <<page, rows, nextRow, tab, presses, told>>

\* What the list in memory becomes on the pages that change it in place.
Patched(f) ==
    LET i == IF This.list = "late patch" THEN tab.edit.row ELSE f.id
    IN  CASE f.op = "delete" -> Without(tab.shown, {i})
          [] f.op = "save" /\ f.out = "done" -> With(tab.shown, f.id, f.val)
          [] OTHER -> tab.shown

\* The handler wakes up: it tells the user, closes its dialog, whatever row that is on by
\* now, and updates the list.
Report(f) ==
    /\ f \in flight /\ f.stage = "written"
    /\ told' = IF f.orphan THEN told
               ELSE [told EXCEPT !.lied = @ \/ (f.out = "lied" /\ f.gone = "said"),
                                 !.saved = IF f.out = "done" /\ f.op = "save" THEN @ \cup {f.id} ELSE @,
                                 !.deleted = IF f.out # "refused" /\ f.op = "delete"
                                             THEN @ \cup {f.id} ELSE @]
    /\ \/ /\ f.orphan \/ f.out = "refused"
          /\ flight' = flight \ {f} /\ tab' = tab
       \/ /\ ~f.orphan /\ f.out # "refused" /\ This.list = "refetch"
          /\ At(f, [f EXCEPT !.stage = "listing"])
          /\ tab' = [tab EXCEPT !.open = @ \ {f.via}]
       \/ /\ ~f.orphan /\ f.out # "refused" /\ This.list = "reload"
          /\ flight' = {[g EXCEPT !.orphan = TRUE] : g \in flight \ {f}}
          /\ tab' = Fresh
       \/ /\ ~f.orphan /\ f.out # "refused" /\ This.list \in {"patch", "late patch"}
          /\ flight' = flight \ {f}
          /\ tab' = [tab EXCEPT !.shown = Patched(f), !.open = @ \ {f.via}]
    /\ UNCHANGED <<page, rows, nextRow, presses>>

Fetch(f) ==
    /\ f \in flight /\ f.stage = "listing"
    /\ At(f, [f EXCEPT !.stage = "fetched", !.list = rows])
    /\ UNCHANGED <<page, rows, nextRow, tab, presses, told>>

Redraw(f) ==
    /\ f \in flight /\ f.stage = "fetched"
    /\ flight' = flight \ {f}
    /\ tab' = [tab EXCEPT !.shown = f.list]
    /\ UNCHANGED <<page, rows, nextRow, presses, told>>

\* Another tab, or another member of the household, deletes a row.
DeletedElsewhere(i) ==
    /\ i \in DOMAIN rows /\ i \in 1..MaxLost
    /\ rows' = Without(rows, {i})
    /\ UNCHANGED <<page, nextRow, tab, flight, presses, told>>

CrudNext ==
    \/ OpenAdd \/ PressDelete
    \/ \E d \in {"add", "form", "question"} : Leave(d)
    \/ \E i \in 0..MaxRow : FormLoaded(i) \/ FormFails(i)
    \/ \E i \in 1..MaxRow : OpenEdit(i) \/ OpenDelete(i) \/ DeletedElsewhere(i)
    \/ \E i \in 1..MaxRow, g \in {"told", "said", "silent"} : PressAct(i, g)
    \/ \E v \in Vals, good \in BOOLEAN : PressSave(v, good)
    \/ \E f \in flight : Write(f) \/ WriteFails(f) \/ Report(f) \/ Fetch(f) \/ Redraw(f)

-----------------------------------------------------------------------------
CrudTypeOK ==
    /\ page \in DOMAIN Pages
    /\ DOMAIN rows \subseteq 1..(nextRow - 1) /\ nextRow \in 1..(MaxRow + 1)
    /\ tab.open \subseteq {"add", "form", "question"} /\ tab.opening \subseteq 0..MaxRow
    /\ tab.edit \in [row : 0..MaxRow, of : 0..MaxRow, rest : 0..MaxRow] /\ tab.asked \in 0..MaxRow
    /\ \A f \in flight : f.stage \in {"sent", "written", "listing", "fetched"} /\ f.id \in 0..MaxRow
    /\ presses \in 0..MaxPress

\* No row takes what was filled in for another: a save goes to the row whose fields filled
\* the form, and a delete to the row its question named, though forms are left and opened
\* again while handlers are out, form and question may share one identifier, and the
\* openings of two categories cross.  personal_loans/dialogs.py reads the row of a save
\* only after its first await, and may stray; its other handlers may not.
NoRowTakesAnothersForm == told.strayed \subseteq (IF page = "loans" THEN {"save"} ELSE {})

\* The same with the loan form, for which it does not hold.
EverySaveHitsItsRow == told.strayed = {}

\* The whole of a form is about one row.  It does not hold of the categories: of two
\* openings that cross, the one that lands last leaves its row's parent in the other's form.
FormsAreOfOneRow == page # "loans" => ~told.mixed

\* On the pages that answer for a row another tab deleted, a success notice means that the
\* write took place.
SaidMeansSaved == page \in {"gifts", "irregular"} => ~told.lied

\* Every page: "updated", "saved" and "deleted" are only said of what was written.
EveryNoticeIsTrue == ~told.lied

\* Once the handlers are done, and none started while another was at work, the list
\* shows every row this tab was told it saved, as saved, and none it was told it deleted,
\* whichever way the page brings its list up to date and whatever dialog was opened
\* meanwhile.  The asset list drops the row selected last instead (net_worth.py:459).
ListFollows ==
    (flight = {} /\ ~told.overlapped /\ page # "assets") =>
        /\ told.saved \cap DOMAIN rows \subseteq DOMAIN tab.shown
        /\ told.deleted \cap DOMAIN tab.shown = {}
        /\ \A i \in DOMAIN rows \cap DOMAIN tab.shown : tab.shown[i] = rows[i]

CrudSpec == CrudInit /\ [][CrudNext]_crudVars
=============================================================================
