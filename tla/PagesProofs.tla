-------------------------------- MODULE PagesProofs -------------------------------
(***************************************************************************)
(* Proofs about the pages, for any number of keystrokes, loads, runs and   *)
(* handlers at work at once: no row takes another's form, the ledger shows *)
(* its newest load alone, the forecast page draws the run it has in hand,  *)
(* and the import page books no row twice.                                 *)
(***************************************************************************)
EXTENDS CrudPages, Panels, ImportQueue, FiniteSetTheorems, WellFoundedInduction, TLAPS

-----------------------------------------------------------------------------
(* The list pages.                                                         *)

\* Every form but the loans' notes its row before the first await.
LEMMA FormsHoldTheirRow ==
  ASSUME page \in DOMAIN Pages, page # "loans"
  PROVE  This.form.target = "held"
<1> USE DEF This, Pages, Page, Form
<1>1. CASE page \in {"accounts", "institutions", "categories", "tags"}
  BY <1>1 DEF AccountsPage, AccountsForm, AccountsAdd, InstitutionsPage, InstitutionsForm, InstitutionsAdd,
              CategoriesPage, CategoriesForm, CategoriesAdd, TagsPage, TagsForm
<1>2. CASE page \in {"planned", "gifts", "irregular", "rules", "cards", "credit_loans"}
  BY <1>2 DEF PlannedPage, PlannedForm, GiftsPage, GiftsForm, IrregularPage, IrregularForm,
              RulesPage, RulesForm, CardsPage, CardsForm, CreditLoansPage, CreditLoansForm
<1>3. CASE page \in {"funds", "subscriptions", "assets", "payees"}
  BY <1>3 DEF FundsPage, FundsForm, SubscriptionsPage, SubscriptionsForm, AssetsPage, AssetsForm, AssetsAdd,
              PayeesPage, PayeesForm
<1>4. CASE page \in {"admin", "household", "tokens", "import_rules"}
  BY <1>4 DEF AdminPage, AdminForm, HouseholdPage, HouseholdForm, TokensPage, TokensForm,
              ImportRulesPage, ImportRulesForm
<1>5. page \in {"accounts", "institutions", "categories", "tags"}
      \cup {"planned", "gifts", "irregular", "rules", "cards", "credit_loans"}
      \cup {"funds", "subscriptions", "assets", "payees"}
      \cup {"admin", "household", "tokens", "import_rules"}
  OBVIOUS
<1> QED BY <1>1, <1>2, <1>3, <1>4, <1>5

\* The form and the question each carry the row the page would write to.  Where the two
\* share one identifier, it is that of the dialog on screen.
InTune(t) ==
  /\ DOMAIN t = {"shown", "open", "edit", "asked", "opening"}
  /\ DOMAIN t.edit = {"row", "of", "rest"}
  /\ page \notin SharedId \/ "form" \in t.open => t.edit.row = t.edit.of
  /\ page \in SharedId /\ "question" \in t.open => t.edit.row = t.asked

HandlerFields == {"n", "op", "via", "id", "of", "rest", "val", "good", "gone", "stage", "out", "list", "orphan"}

\* A handler that has yet to write holds the row the user saw.
OnItsRow(f) == DOMAIN f = HandlerFields /\ (f.stage = "sent" => f.id = f.of)

StrayInv ==
  /\ page \in DOMAIN Pages
  /\ DOMAIN told = {"strayed", "mixed", "lied", "overlapped", "saved", "deleted"}
  /\ InTune(tab)
  /\ \A f \in flight : OnItsRow(f)
  /\ NoRowTakesAnothersForm

\* What keeps the form, the handlers and the history in tune keeps the invariant.
LEMMA OthersDoNotStray ==
  ASSUME StrayInv, page' = page, InTune(tab'), \A f \in flight' : OnItsRow(f),
         DOMAIN told' = DOMAIN told, told'.strayed = told.strayed
  PROVE  StrayInv'
BY DEF StrayInv, NoRowTakesAnothersForm, InTune, OnItsRow

\* A new handler notes the row the user saw.
LEMMA StartStays ==
  ASSUME StrayInv, NEW op, NEW via, NEW i, NEW rest, NEW v, NEW good, NEW gone,
         Start(op, via, i, i, rest, v, good, gone), page' = page, tab' = tab
  PROVE  StrayInv'
<1> DEFINE new == [n |-> presses + 1, op |-> op, via |-> via, id |-> i, of |-> i, rest |-> rest,
                   val |-> v, good |-> good, gone |-> gone,
                   stage |-> "sent", out |-> "none", list |-> <<>>, orphan |-> FALSE]
<1>1. OnItsRow(new) BY DEF OnItsRow, HandlerFields
<1>2. flight' = flight \cup {new} BY DEF Start
<1> HIDE DEF new
<1>3. told' = [told EXCEPT !.overlapped = @ \/ flight # {}] BY DEF Start
<1>4. DOMAIN told' = DOMAIN told /\ told'.strayed = told.strayed BY <1>3 DEF StrayInv
<1>5. \A f \in flight' : OnItsRow(f) BY <1>1, <1>2 DEF StrayInv
<1>6. InTune(tab') BY DEF StrayInv, InTune
<1> QED BY <1>4, <1>5, <1>6, OthersDoNotStray

\* The dialogs: one may go, and those that come up are filled in with the row they name.
LEMMA DialogsStay ==
  ASSUME StrayInv, InTune(tab'), UNCHANGED <<page, flight, told>>
  PROVE  StrayInv'
BY OthersDoNotStray DEF StrayInv

LEMMA ClosingStaysInTune ==
  ASSUME StrayInv, page' = page, DOMAIN tab' = DOMAIN tab,
         tab'.edit = tab.edit, tab'.asked = tab.asked, tab'.open \subseteq tab.open
  PROVE  InTune(tab')
BY DEF StrayInv, InTune

LEMMA OpeningStaysInTune ==
  ASSUME StrayInv,
         \/ OpenAdd
         \/ \E i \in 1..MaxRow : OpenEdit(i) \/ OpenDelete(i)
         \/ \E i \in 0..MaxRow : FormLoaded(i) \/ FormFails(i)
  PROVE  InTune(tab')
<1> USE DEF StrayInv, InTune
<1>0. LateForms \cap SharedId = {} BY DEF LateForms, SharedId
<1>1. CASE OpenAdd
  <2>1. CASE page \in LateForms BY <1>1, <2>1 DEF OpenAdd
  <2>2. CASE page \notin LateForms /\ page \in TwoForms BY <1>1, <2>2 DEF OpenAdd
  <2>3. CASE page \notin LateForms /\ page \notin TwoForms BY <1>1, <2>3 DEF OpenAdd
  <2> QED BY <2>1, <2>2, <2>3
<1>2. ASSUME NEW i \in 1..MaxRow, OpenEdit(i) PROVE InTune(tab')
  <2>1. CASE page \in LateForms BY <1>2, <2>1, <1>0 DEF OpenEdit
  <2>2. CASE page \notin LateForms BY <1>2, <2>2 DEF OpenEdit
  <2> QED BY <2>1, <2>2
<1>3. ASSUME NEW i \in 1..MaxRow, OpenDelete(i) PROVE InTune(tab')
  <2>1. CASE page \in SharedId BY <1>3, <2>1 DEF OpenDelete
  <2>2. CASE page \notin SharedId BY <1>3, <2>2 DEF OpenDelete
  <2> QED BY <2>1, <2>2
<1>4. ASSUME NEW i \in 0..MaxRow, FormLoaded(i) PROVE InTune(tab')
  <2>1. page \notin SharedId BY <1>4, <1>0 DEF FormLoaded
  <2>2. CASE i = 0 BY <1>4, <2>1, <2>2 DEF FormLoaded
  <2>3. CASE i # 0 BY <1>4, <2>1, <2>3 DEF FormLoaded
  <2> QED BY <2>2, <2>3
<1>5. ASSUME NEW i \in 0..MaxRow, FormFails(i) PROVE InTune(tab')
  BY <1>5 DEF FormFails
<1> QED BY <1>1, <1>2, <1>3, <1>4, <1>5

\* The buttons: what they send names the row the user saw.
LEMMA PressStays ==
  ASSUME StrayInv,
         \/ PressDelete
         \/ \E i \in 1..MaxRow, g \in {"told", "said", "silent"} : PressAct(i, g)
         \/ \E v \in Vals, good \in BOOLEAN : PressSave(v, good)
  PROVE  StrayInv'
<1>1. CASE PressDelete
  <2>1. (IF page \in SharedId THEN tab.edit.row ELSE tab.asked) = tab.asked
    BY <1>1 DEF PressDelete, StrayInv, InTune
  <2> QED BY <1>1, <2>1, StartStays DEF PressDelete
<1>2. CASE \E i \in 1..MaxRow, g \in {"told", "said", "silent"} : PressAct(i, g)
  BY <1>2, StartStays DEF PressAct
<1>3. ASSUME NEW v \in Vals, NEW good \in BOOLEAN, PressSave(v, good) PROVE StrayInv'
  <2>1. CASE "add" \in tab.open /\ Start("save", "add", 0, 0, 0, v, good, This.form.gone)
    BY <1>3, <2>1, StartStays DEF PressSave
  <2>2. CASE /\ "form" \in tab.open
             /\ Start("save", "form", tab.edit.row, tab.edit.of, tab.edit.rest, v, good, This.form.gone)
    <3>1. tab.edit.row = tab.edit.of BY <2>2 DEF StrayInv, InTune
    <3> QED BY <1>3, <2>2, <3>1, StartStays DEF PressSave
  <2> QED BY <1>3, <2>1, <2>2 DEF PressSave
<1> QED BY <1>1, <1>2, <1>3

\* The write goes to the row held, unless the page asks for it late.
LEMMA WriteStaysOnRow ==
  ASSUME StrayInv, NEW f, Write(f)
  PROVE  StrayInv'
<1>1. /\ told' = [told EXCEPT !.strayed = IF Target(f) # f.of THEN @ \cup {f.op} ELSE @,
                              !.mixed = @ \/ Target(f) # f.rest]
      /\ page' = page /\ tab' = tab /\ f \in flight /\ f.stage = "sent"
  BY DEF Write
<1>2. DOMAIN told' = DOMAIN told
      /\ told'.strayed = IF Target(f) # f.of THEN told.strayed \cup {f.op} ELSE told.strayed
  BY <1>1 DEF StrayInv
<1>3. f.id = f.of BY <1>1 DEF StrayInv, OnItsRow
<1>4. Target(f) # f.of => page = "loans" /\ f.op = "save"
  BY <1>3, FormsHoldTheirRow DEF Target, StrayInv
<1>5. NoRowTakesAnothersForm' BY <1>1, <1>2, <1>4 DEF StrayInv, NoRowTakesAnothersForm
<1>6. PICK i, o : flight' = (flight \ {f}) \cup {[f EXCEPT !.stage = "written", !.id = i, !.out = o]}
  <2> DEFINE j == IF Adds(f) /\ Outcome(f) = "done" THEN nextRow ELSE f.id
  <2>1. flight' = (flight \ {f}) \cup {[f EXCEPT !.stage = "written", !.id = j, !.out = Outcome(f)]}
    BY DEF Write, At
  <2> QED BY <2>1
<1>7. DOMAIN f = HandlerFields BY <1>1 DEF StrayInv, OnItsRow
<1>8. OnItsRow([f EXCEPT !.stage = "written", !.id = i, !.out = o]) BY <1>7 DEF OnItsRow, HandlerFields
<1>9. \A g \in flight' : OnItsRow(g) BY <1>6, <1>8 DEF StrayInv
<1>10. InTune(tab') BY <1>1 DEF StrayInv, InTune
<1> QED BY <1>1, <1>2, <1>5, <1>9, <1>10 DEF StrayInv, InTune, OnItsRow

\* Telling the user closes a dialog or loads the page again; the handlers left keep theirs.
LEMMA ReportStays ==
  ASSUME StrayInv, NEW f, Report(f)
  PROVE  StrayInv'
<1>0. page' = page /\ f \in flight /\ DOMAIN f = HandlerFields BY DEF Report, StrayInv, OnItsRow
<1>1. DOMAIN told' = DOMAIN told /\ told'.strayed = told.strayed BY DEF Report, StrayInv
<1>2. CASE flight' = flight \ {f} /\ tab' = tab
  BY <1>0, <1>1, <1>2, OthersDoNotStray DEF StrayInv
<1>3. CASE At(f, [f EXCEPT !.stage = "listing"]) /\ tab' = [tab EXCEPT !.open = @ \ {f.via}]
  <2>0. /\ DOMAIN tab' = DOMAIN tab /\ tab'.edit = tab.edit /\ tab'.asked = tab.asked
        /\ tab'.open \subseteq tab.open
    BY <1>3 DEF StrayInv, InTune
  <2>1. InTune(tab') BY <1>0, <2>0, ClosingStaysInTune
  <2>2. OnItsRow([f EXCEPT !.stage = "listing"]) BY <1>0 DEF OnItsRow, HandlerFields
  <2>3. \A g \in flight' : OnItsRow(g) BY <1>3, <2>2 DEF At, StrayInv
  <2> QED BY <1>0, <1>1, <2>1, <2>3, OthersDoNotStray
<1>4. CASE flight' = {[g EXCEPT !.orphan = TRUE] : g \in flight \ {f}} /\ tab' = Fresh
  <2>1. InTune(tab') BY <1>0, <1>4 DEF InTune, Fresh, StrayInv
  <2>2. ASSUME NEW g \in flight PROVE OnItsRow([g EXCEPT !.orphan = TRUE])
    BY <2>2 DEF StrayInv, OnItsRow, HandlerFields
  <2>3. \A g \in flight' : OnItsRow(g) BY <1>4, <2>2
  <2> QED BY <1>0, <1>1, <2>1, <2>3, OthersDoNotStray
<1>5. CASE /\ flight' = flight \ {f}
           /\ tab' = [tab EXCEPT !.shown = Patched(f), !.open = @ \ {f.via}]
  <2>1. /\ DOMAIN tab' = DOMAIN tab /\ tab'.edit = tab.edit /\ tab'.asked = tab.asked
        /\ tab'.open \subseteq tab.open
    BY <1>5 DEF StrayInv, InTune
  <2>2. InTune(tab') BY <1>0, <2>1, ClosingStaysInTune
  <2> QED BY <1>0, <1>1, <1>5, <2>2, OthersDoNotStray DEF StrayInv
<1> QED BY <1>2, <1>3, <1>4, <1>5 DEF Report

\* A handler that only fails or lists leaves every row alone.
LEMMA ListingStays ==
  ASSUME StrayInv, NEW f, WriteFails(f) \/ Fetch(f) \/ Redraw(f)
  PROVE  StrayInv'
<1>0. page' = page /\ told' = told /\ f \in flight BY DEF WriteFails, Fetch, Redraw
<1>1. InTune(tab')
  <2>1. CASE WriteFails(f) \/ Fetch(f) BY <2>1, ClosingStaysInTune, <1>0 DEF WriteFails, Fetch
  <2>2. CASE Redraw(f)
    <3>1. tab' = [tab EXCEPT !.shown = f.list] BY <2>2 DEF Redraw
    <3>2. /\ DOMAIN tab' = DOMAIN tab /\ tab'.edit = tab.edit /\ tab'.asked = tab.asked
          /\ tab'.open = tab.open
      BY <3>1 DEF StrayInv, InTune
    <3> QED BY <1>0, <3>2, ClosingStaysInTune
  <2> QED BY <2>1, <2>2
<1>2. \A g \in flight' : OnItsRow(g)
  <2>1. CASE WriteFails(f) \/ Redraw(f) BY <2>1 DEF WriteFails, Redraw, StrayInv
  <2>2. CASE Fetch(f)
    <3>1. DOMAIN f = HandlerFields BY <1>0 DEF StrayInv, OnItsRow
    <3>2. OnItsRow([f EXCEPT !.stage = "fetched", !.list = rows]) BY <3>1 DEF OnItsRow, HandlerFields
    <3>3. flight' = (flight \ {f}) \cup {[f EXCEPT !.stage = "fetched", !.list = rows]}
      BY <2>2 DEF Fetch, At
    <3> QED BY <3>2, <3>3 DEF StrayInv
  <2> QED BY <2>1, <2>2
<1> QED BY <1>0, <1>1, <1>2, OthersDoNotStray

LEMMA CrudStepStays ==
  ASSUME StrayInv, [CrudNext]_crudVars
  PROVE  StrayInv'
<1>1. CASE \/ OpenAdd
           \/ \E i \in 1..MaxRow : OpenEdit(i) \/ OpenDelete(i)
           \/ \E i \in 0..MaxRow : FormLoaded(i) \/ FormFails(i)
  <2>1. UNCHANGED <<page, flight, told>>
    BY <1>1 DEF OpenAdd, OpenEdit, OpenDelete, FormLoaded, FormFails
  <2> QED BY <1>1, <2>1, OpeningStaysInTune, DialogsStay
<1>2. ASSUME NEW d, Leave(d) PROVE StrayInv'
  <2>1. UNCHANGED <<page, flight, told>> /\ tab' = [tab EXCEPT !.open = @ \ {d}] BY <1>2 DEF Leave
  <2>2. /\ DOMAIN tab' = DOMAIN tab /\ tab'.edit = tab.edit /\ tab'.asked = tab.asked
        /\ tab'.open \subseteq tab.open
    BY <2>1 DEF StrayInv, InTune
  <2>3. InTune(tab') BY <2>1, <2>2, ClosingStaysInTune
  <2> QED BY <2>1, <2>3, DialogsStay
<1>3. ASSUME UNCHANGED <<page, tab, flight, told>> PROVE StrayInv'
  <2>1. InTune(tab') BY <1>3 DEF StrayInv, InTune
  <2> QED BY <1>3, <2>1, DialogsStay
<1>4. CASE \E i \in 1..MaxRow : DeletedElsewhere(i) BY <1>3, <1>4 DEF DeletedElsewhere
<1>5. CASE UNCHANGED crudVars BY <1>3, <1>5 DEF crudVars
<1> QED BY <1>1, <1>2, <1>4, <1>5, PressStays, WriteStaysOnRow, ReportStays, ListingStays DEF CrudNext

\* On every list page a save goes to the row whose fields filled its form, and a delete to
\* the row its question named, for any number of handlers and openings under way; only the
\* loan form is left out.
THEOREM SavesKeepTheirRow == CrudSpec => []NoRowTakesAnothersForm
<1>1. CrudInit => StrayInv
  BY DEF CrudInit, StrayInv, NoRowTakesAnothersForm, InTune, Fresh
<1>2. StrayInv /\ [CrudNext]_crudVars => StrayInv'
  BY CrudStepStays
<1>3. StrayInv => NoRowTakesAnothersForm
  BY DEF StrayInv
<1> QED BY <1>1, <1>2, <1>3, PTL DEF CrudSpec

-----------------------------------------------------------------------------
(* The ledger table.                                                       *)

\* Loads carry the number they were asked under.
LoadsNumbered ==
  /\ panel \in DOMAIN PanelsOf /\ asked \in Nat /\ due \in Nat
  /\ \A l \in loads : l.n \in 1 .. asked /\ {"n", "ctl", "rev", "total", "stage"} = DOMAIN l

\* While the newest load is under way the table is empty, and once it has read it holds the
\* controls and the ledger as they still are, but for the saves whose handlers have yet to
\* ask again; what is painted answers both.
NewestHolds ==
  panel = "ledger" =>
    /\ \A l \in loads : l.n = asked =>
         screen = <<>> /\ (l.stage = "read" => l.ctl = wanted /\ (due = 0 => l.rev = rev))
    /\ \A l, m \in loads : l.n = asked /\ m.n = asked => l = m
    /\ screen = <<>> \/ screen = <<screen[1]>>
    /\ due = 0 => screen = <<>> \/ screen = <<Build(wanted, rev)>>

LedgerInv == LoadsNumbered /\ NewestHolds

LEMMA LedgerIsGuarded ==
  ASSUME panel = "ledger"
  PROVE  Me.draws = "guarded" /\ Me.reads = "late" /\ Me.review = "none"
BY DEF Me, PanelsOf, LedgerTable, Panel

\* A new load empties the table and is the newest.
LEMMA AskEmpties ==
  ASSUME LedgerInv, NEW c, NEW rest \in SUBSET loads,
         panel = "ledger" => /\ asked' = asked + 1 /\ screen' = <<>>
                             /\ loads' = rest \cup {[n |-> asked + 1, ctl |-> c, rev |-> 0, total |-> 0, stage |-> "asked"]},
         LoadsNumbered', panel' = panel
  PROVE  LedgerInv'
<1> SUFFICES ASSUME panel = "ledger" PROVE NewestHolds'
  BY DEF LedgerInv, NewestHolds
<1> DEFINE new == [n |-> asked + 1, ctl |-> c, rev |-> 0, total |-> 0, stage |-> "asked"]
<1>1. new.n = asked + 1 /\ new.stage = "asked" OBVIOUS
<1> HIDE DEF new
<1>2. loads' = rest \cup {new} /\ asked' = asked + 1 /\ screen' = <<>> BY DEF new
<1>3. \A l \in rest : l.n # asked' BY <1>2 DEF LedgerInv, LoadsNumbered
<1> QED BY <1>1, <1>2, <1>3 DEF NewestHolds

LEMMA AskNumbers ==
  ASSUME LedgerInv, NEW c, NEW r, Ask(c, r), panel' = panel, due' \in Nat
  PROVE  LoadsNumbered'
<1>1. CASE UNCHANGED <<asked, loads>> BY <1>1 DEF LedgerInv, LoadsNumbered
<1>2. CASE ~ UNCHANGED <<asked, loads>>
  <2> DEFINE new == [n |-> asked + 1, ctl |-> c, rev |-> 0, total |-> 0, stage |-> "asked"]
  <2>1. new.n = asked + 1 /\ DOMAIN new = {"n", "ctl", "rev", "total", "stage"} OBVIOUS
  <2>2. asked' = asked + 1 /\ loads' = loads \cup {new} BY <1>2 DEF Ask
  <2> HIDE DEF new
  <2> QED BY <2>1, <2>2 DEF LedgerInv, LoadsNumbered
<1> QED BY <1>1, <1>2

\* Asking again, from a control or after a save.
LEMMA AskKeeps ==
  ASSUME LedgerInv, NEW c, NEW r, Ask(c, r), panel' = panel, due' \in Nat
  PROVE  LedgerInv'
<1>1. LoadsNumbered' BY AskNumbers
<1>2. panel = "ledger" =>
        /\ asked' = asked + 1 /\ screen' = <<>>
        /\ loads' = loads \cup {[n |-> asked + 1, ctl |-> c, rev |-> 0, total |-> 0, stage |-> "asked"]}
  BY LedgerIsGuarded DEF Ask
<1>3. loads \in SUBSET loads OBVIOUS
<1> QED BY <1>1, <1>2, <1>3, AskEmpties

\* A load that goes leaves the rest as it was.
LEMMA LoadGoes ==
  ASSUME LedgerInv, NEW l, loads' = loads \ {l}, UNCHANGED <<panel, asked, screen, wanted, rev, due>>
  PROVE  LedgerInv'
<1>1. LoadsNumbered' BY DEF LedgerInv, LoadsNumbered
<1>2. NewestHolds' BY DEF LedgerInv, NewestHolds, LoadsNumbered
<1> QED BY <1>1, <1>2 DEF LedgerInv

LEMMA ReadRowsKeeps ==
  ASSUME LedgerInv, NEW l \in loads, ReadRows(l)
  PROVE  LedgerInv'
<1> DEFINE new == [l EXCEPT !.stage = "read", !.rev = rev, !.total = pages,
                            !.ctl = IF Me.reads = "late" THEN wanted ELSE @]
<1>1. /\ l.stage = "asked" /\ loads' = (loads \ {l}) \cup {new}
      /\ UNCHANGED <<panel, asked, screen, wanted, rev, due>>
  BY DEF ReadRows
<1>2. DOMAIN l = {"n", "ctl", "rev", "total", "stage"} /\ l.n \in 1 .. asked
  BY DEF LedgerInv, LoadsNumbered
<1>3. DOMAIN new = DOMAIN l /\ new.n = l.n /\ new.rev = rev BY <1>2
<1>4. panel = "ledger" => new.ctl = wanted BY <1>2, LedgerIsGuarded
<1> HIDE DEF new
<1>5. LoadsNumbered' BY <1>1, <1>2, <1>3 DEF LedgerInv, LoadsNumbered
<1>6. NewestHolds' BY <1>1, <1>2, <1>3, <1>4 DEF LedgerInv, NewestHolds, LoadsNumbered
<1> QED BY <1>5, <1>6 DEF LedgerInv

LEMMA LandKeeps ==
  ASSUME LedgerInv, NEW l \in loads, Land(l)
  PROVE  LedgerInv'
<1>0. panel' = panel /\ rev' = rev /\ due' = due /\ due \in Nat /\ l.stage = "read"
  BY DEF Land, LedgerInv, LoadsNumbered
<1>1. CASE Me.draws = "guarded" /\ l.n # asked
  <2>1. loads' = loads \ {l} /\ UNCHANGED <<panel, asked, screen, wanted, rev, due>> BY <1>1 DEF Land
  <2> QED BY <2>1, LoadGoes
<1>2. CASE ~ (Me.draws = "guarded" /\ l.n # asked) /\ panel = "ledger" /\ l.ctl >= l.total
  <2> DEFINE new == [n |-> asked + 1, ctl |-> l.total - 1, rev |-> 0, total |-> 0, stage |-> "asked"]
  <2>1. asked' = asked + 1 /\ screen' = <<>> /\ loads' = (loads \ {l}) \cup {new}
    BY <1>2 DEF Land
  <2>2. new.n = asked + 1 /\ DOMAIN new = {"n", "ctl", "rev", "total", "stage"} OBVIOUS
  <2>3. LoadsNumbered'
    <3> HIDE DEF new
    <3> QED BY <1>0, <2>1, <2>2 DEF LedgerInv, LoadsNumbered
  <2>4. loads \ {l} \in SUBSET loads OBVIOUS
  <2> QED BY <1>0, <2>1, <2>3, <2>4, AskEmpties
<1>3. CASE ~ (Me.draws = "guarded" /\ l.n # asked) /\ ~ (panel = "ledger" /\ l.ctl >= l.total)
  <2>1. /\ loads' = loads \ {l} /\ UNCHANGED <<wanted, asked>>
        /\ screen' = IF Me.draws = "replace" THEN <<Build(l.ctl, l.rev)>>
                     ELSE Append(screen, Build(l.ctl, l.rev))
    BY <1>3 DEF Land
  <2>2. LoadsNumbered' BY <1>0, <2>1 DEF LedgerInv, LoadsNumbered
  <2>3. ASSUME panel = "ledger" PROVE NewestHolds'
    <3>1. l.n = asked /\ Me.draws = "guarded" BY <1>3, <2>3, LedgerIsGuarded
    <3>2. screen = <<>> /\ l.ctl = wanted /\ (due = 0 => l.rev = rev)
      BY <1>0, <2>3, <3>1 DEF LedgerInv, NewestHolds
    <3>3. screen' = <<Build(wanted, l.rev)>> BY <2>1, <3>1, <3>2
    <3>6. due' = 0 => screen' = <<Build(wanted, rev)>> BY <1>0, <3>2, <3>3
    <3>7. screen' = <<screen'[1]>>
      <4> DEFINE b == Build(wanted, l.rev)
      <4>1. screen' = <<b>> BY <3>3
      <4> HIDE DEF b
      <4> QED BY <4>1
    <3>4. \A m \in loads' : m.n # asked BY <2>1, <2>3, <3>1 DEF LedgerInv, NewestHolds
    <3>5. Build(wanted, rev)' = Build(wanted, rev) BY <1>0, <2>1
    <3> QED BY <1>0, <2>1, <3>3, <3>4, <3>5, <3>6, <3>7 DEF NewestHolds
  <2>4. NewestHolds' BY <1>0, <2>3 DEF NewestHolds
  <2> QED BY <2>2, <2>4 DEF LedgerInv
<1> QED BY <1>1, <1>2, <1>3

\* A commit moves the ledger, and leaves what is shown to the handler that asks again.
LEMMA SaveKeeps ==
  ASSUME LedgerInv, NEW n, Save(n)
  PROVE  LedgerInv'
<1>1. UNCHANGED <<panel, asked, loads, screen, wanted>> /\ due' = due + 1 BY DEF Save
<1>2. due' \in Nat /\ due' # 0 BY <1>1 DEF LedgerInv, LoadsNumbered
<1>3. LoadsNumbered' BY <1>1, <1>2 DEF LedgerInv, LoadsNumbered
<1>4. NewestHolds' BY <1>1, <1>2 DEF LedgerInv, NewestHolds
<1> QED BY <1>3, <1>4 DEF LedgerInv

LEMMA PanelStepKeeps ==
  ASSUME LedgerInv, [PanelNext]_panelVars
  PROVE  LedgerInv'
<1>0. ASSUME UNCHANGED <<panel, asked, loads, screen, wanted, rev, due>> PROVE LedgerInv'
  BY <1>0 DEF LedgerInv, LoadsNumbered, NewestHolds, Build
<1>d. due \in Nat BY DEF LedgerInv, LoadsNumbered
<1>1. CASE \E c \in 0..MaxPage : Change(c) BY <1>1, <1>d, AskKeeps DEF Change
<1>2. CASE \E c \in 0..MaxPage : Review(c) BY <1>0, <1>2 DEF Review
<1>3. CASE \E n \in 1..(MaxPage + 1) : Save(n) BY <1>3, SaveKeeps
<1>10. ASSUME NEW c \in 0..MaxPage, SaveShown(c) PROVE LedgerInv'
  <2>1. Ask(c, rev) /\ panel' = panel /\ due' = due - 1 /\ due > 0 BY <1>10 DEF SaveShown
  <2>2. due' \in Nat BY <2>1, <1>d
  <2> QED BY <2>1, <2>2, AskKeeps
<1>4. CASE \E l \in loads : ReadRows(l) BY <1>4, ReadRowsKeeps
<1>5. CASE \E l \in loads : Land(l) BY <1>5, LandKeeps
<1>6. CASE \E l \in loads : LoadFails(l) BY <1>6, LoadGoes DEF LoadFails
<1>7. CASE Apply
  <2>1. CASE Me.review = "current" BY <1>7, <1>d, <2>1, AskKeeps DEF Apply
  <2>2. CASE Me.review # "current" BY <1>0, <1>7, <2>2 DEF Apply
  <2> QED BY <2>1, <2>2
<1>8. CASE Cancel BY <1>0, <1>8 DEF Cancel
<1>9. CASE UNCHANGED panelVars BY <1>0, <1>9 DEF panelVars
<1> QED BY <1>1, <1>2, <1>3, <1>4, <1>5, <1>6, <1>7, <1>8, <1>9, <1>10 DEF PanelNext

\* However many loads the ledger's controls and saves start, and in whichever order they
\* read, land and fail, the table never holds two of them, and at rest shows what the
\* controls say of what is stored (_refresh_ledger's render token).
THEOREM LedgerPaintsNewest == PanelSpec => []NewestPaintsAlone
<1>1. PanelInit => LedgerInv
  BY DEF PanelInit, LedgerInv, LoadsNumbered, NewestHolds, Build
<1>2. LedgerInv /\ [PanelNext]_panelVars => LedgerInv'
  BY PanelStepKeeps
<1>3. LedgerInv => NewestPaintsAlone
  <2> SUFFICES ASSUME LedgerInv, panel = "ledger"
      PROVE  Len(screen) <= 1 /\ (loads = {} /\ due = 0 /\ Len(screen) = 1 => screen[1] = Build(wanted, rev))
    BY DEF NewestPaintsAlone
  <2>1. \A x : Len(<<x>>) = 1 /\ <<x>>[1] = x OBVIOUS
  <2>2. Len(<<>>) = 0 OBVIOUS
  <2>3. screen = <<>> \/ screen = <<screen[1]>> BY DEF LedgerInv, NewestHolds
  <2>4. Len(screen) <= 1 BY <2>1, <2>2, <2>3
  <2>5. due = 0 /\ Len(screen) = 1 => screen = <<Build(wanted, rev)>>
    BY <2>2 DEF LedgerInv, NewestHolds
  <2> QED BY <2>1, <2>4, <2>5
<1> QED BY <1>1, <1>2, <1>3, PTL DEF PanelSpec

-----------------------------------------------------------------------------
(* The forecast page.                                                      *)

RunShaped ==
  /\ DOMAIN run = {"running", "pending", "asked", "raw", "status"}
  /\ run.running \in BOOLEAN /\ live \in BOOLEAN
  /\ shifts \in Nat /\ out \in {0, 1} /\ (run.running <=> out = 1)

\* While a run is out nothing is drawn; what is drawn afterwards is what it answered.
ChartOfAnswer ==
  /\ run.running => chart = None
  /\ ~ run.running /\ run.raw \in Selections => run.raw = run.asked
  /\ chart # None => /\ ~ run.running /\ run.raw \in Selections /\ chart.of = run.raw
                     /\ live => chart.shift = shifts

ForecastInv == RunShaped /\ ChartOfAnswer

LEMMA BeginKeeps ==
  ASSUME ForecastInv, NEW r, DOMAIN r = DOMAIN run, Begin(r), UNCHANGED <<live, shifts>>
  PROVE  ForecastInv'
<1>1. /\ out' = 1 /\ chart' = None
      /\ run' = [r EXCEPT !.running = TRUE, !.pending = FALSE, !.asked = sel]
  BY DEF Begin
<1>2. DOMAIN run' = {"running", "pending", "asked", "raw", "status"} /\ run'.running = TRUE
  BY <1>1 DEF ForecastInv, RunShaped
<1>3. RunShaped' BY <1>1, <1>2 DEF ForecastInv, RunShaped
<1>4. ChartOfAnswer' BY <1>1, <1>2 DEF ChartOfAnswer, None
<1> QED BY <1>3, <1>4 DEF ForecastInv

LEMMA RunForecastKeeps ==
  ASSUME ForecastInv, RunForecast, UNCHANGED <<live, shifts>>
  PROVE  ForecastInv'
<1>1. CASE run.running
  <2>1. run' = [run EXCEPT !.pending = TRUE] /\ UNCHANGED <<out, chart>> BY <1>1 DEF RunForecast
  <2>2. DOMAIN run' = DOMAIN run /\ run'.running = run.running /\ run'.raw = run.raw /\ run'.asked = run.asked
    BY <2>1 DEF ForecastInv, RunShaped
  <2>3. RunShaped' BY <2>1, <2>2 DEF ForecastInv, RunShaped
  <2>4. ChartOfAnswer' BY <2>1, <2>2 DEF ForecastInv, ChartOfAnswer, None
  <2> QED BY <2>3, <2>4 DEF ForecastInv
<1>2. CASE ~ run.running BY <1>2, BeginKeeps DEF RunForecast
<1> QED BY <1>1, <1>2

LEMMA ShiftKeeps ==
  ASSUME ForecastInv, Shift
  PROVE  ForecastInv'
<1>0. live /\ shifts' = shifts + 1 /\ UNCHANGED <<live, out>> BY DEF Shift
<1>1. CASE run.running \/ ~ Drawable(run)
  <2>1. UNCHANGED <<run, chart>> BY <1>1 DEF Shift
  <2>2. chart = None BY <1>1 DEF ForecastInv, ChartOfAnswer, Drawable
  <2>3. RunShaped' BY <1>0, <2>1 DEF ForecastInv, RunShaped
  <2>4. ChartOfAnswer' BY <2>1, <2>2 DEF ForecastInv, ChartOfAnswer, None
  <2> QED BY <2>3, <2>4 DEF ForecastInv
<1>2. CASE ~ (run.running \/ ~ Drawable(run))
  <2>1. chart' = [of |-> run.raw, shift |-> shifts + 1] /\ run' = [run EXCEPT !.status = "drawn"]
    BY <1>2 DEF Shift
  <2>2. DOMAIN run' = DOMAIN run /\ run'.running = run.running /\ run'.raw = run.raw /\ run'.asked = run.asked
    BY <2>1 DEF ForecastInv, RunShaped
  <2>3. RunShaped' BY <1>0, <2>2 DEF ForecastInv, RunShaped
  <2>4. ChartOfAnswer' BY <1>0, <1>2, <2>1, <2>2 DEF ForecastInv, ChartOfAnswer, Drawable, None
  <2> QED BY <2>3, <2>4 DEF ForecastInv
<1> QED BY <1>1, <1>2

LEMMA AnswerKeeps ==
  ASSUME ForecastInv, NEW what \in {"points", "insufficient", "failed"}, Answer(what)
  PROVE  ForecastInv'
<1> DEFINE raw == IF what = "points" THEN run.asked ELSE IF what = "failed" THEN "none" ELSE "insufficient"
           said == IF what = "points" THEN "drawn" ELSE what
           r == [run EXCEPT !.raw = raw, !.status = IF live THEN said ELSE @]
<1>0. out = 1 /\ UNCHANGED <<live, shifts>> BY DEF Answer
<1>1. DOMAIN r = DOMAIN run /\ r.raw = raw /\ r.asked = run.asked /\ r.running = run.running
  BY DEF ForecastInv, RunShaped
<1>2. run.running /\ chart = None BY <1>0 DEF ForecastInv, RunShaped, ChartOfAnswer
<1>3. CASE run.pending /\ live
  <2>1. Begin(r) BY <1>3 DEF Answer
  <2> HIDE DEF r
  <2> QED BY <1>0, <1>1, <2>1, BeginKeeps
<1>4. CASE ~ (run.pending /\ live)
  <2>1. /\ run' = [r EXCEPT !.running = FALSE, !.pending = FALSE] /\ out' = 0
        /\ chart' = IF live THEN Redrawn(r) ELSE chart
    BY <1>4 DEF Answer
  <2>2. raw \in Selections => raw = run.asked BY ForecastBounds
  <2> HIDE DEF r, raw
  <2>3. /\ DOMAIN run' = DOMAIN run /\ run'.running = FALSE /\ run'.raw = raw /\ run'.asked = run.asked
    BY <1>1, <2>1 DEF ForecastInv, RunShaped
  <2>4. RunShaped' BY <1>0, <2>1, <2>3 DEF ForecastInv, RunShaped
  <2>5. chart' = None \/ (raw \in Selections /\ chart' = [of |-> raw, shift |-> shifts])
    BY <1>1, <1>2, <2>1 DEF Redrawn, Drawable
  <2>6. ChartOfAnswer' BY <1>0, <2>2, <2>3, <2>5 DEF ChartOfAnswer, None
  <2> QED BY <2>4, <2>6 DEF ForecastInv
<1> QED BY <1>3, <1>4

LEMMA CrashKeeps ==
  ASSUME ForecastInv, Crash
  PROVE  ForecastInv'
<1>0. out = 1 /\ out' = 0 /\ UNCHANGED <<live, shifts, chart>>
      /\ run' = [run EXCEPT !.raw = "none", !.running = FALSE, !.status = IF live THEN "failed" ELSE @]
  BY DEF Crash
<1>1. DOMAIN run' = DOMAIN run /\ run'.raw = "none" /\ run'.running = FALSE
  BY <1>0 DEF ForecastInv, RunShaped
<1>2. chart = None BY <1>0 DEF ForecastInv, RunShaped, ChartOfAnswer
<1>3. RunShaped' BY <1>0, <1>1 DEF ForecastInv, RunShaped
<1>4. ChartOfAnswer' BY <1>0, <1>1, <1>2, ForecastBounds DEF ChartOfAnswer, None
<1> QED BY <1>3, <1>4 DEF ForecastInv

LEMMA ForecastStepKeeps ==
  ASSUME ForecastInv, [ForecastNext]_forecastVars
  PROVE  ForecastInv'
<1>0. ASSUME UNCHANGED <<run, out, chart, shifts>>, live' \in BOOLEAN, live' => live PROVE ForecastInv'
  BY <1>0 DEF ForecastInv, RunShaped, ChartOfAnswer, None
<1>l. live \in BOOLEAN BY DEF ForecastInv, RunShaped
<1>1. ASSUME NEW k \in timers, Fire(k) PROVE ForecastInv'
  <2>1. UNCHANGED <<live, shifts>> BY <1>1 DEF Fire
  <2>2. RunForecast \/ UNCHANGED <<run, out, chart>> BY <1>1 DEF Fire
  <2>3. CASE RunForecast BY <2>1, <2>3, RunForecastKeeps
  <2>4. CASE UNCHANGED <<run, out, chart>> BY <1>0, <1>l, <2>1, <2>4
  <2> QED BY <2>2, <2>3, <2>4
<1>2. CASE Rerun BY <1>2, RunForecastKeeps DEF Rerun
<1>3. CASE \E s \in Selections : Select(s) BY <1>0, <1>l, <1>3 DEF Select
<1>4. CASE Gone BY <1>0, <1>4 DEF Gone
<1>5. CASE UNCHANGED forecastVars BY <1>0, <1>l, <1>5 DEF forecastVars
<1> QED BY <1>1, <1>2, <1>3, <1>4, <1>5, ShiftKeeps, AnswerKeeps, CrashKeeps DEF ForecastNext

\* Whatever is selected, shifted and asked for again while a forecast is out, and however it
\* ends, the page never shows a chart under a run, and the chart it shows is that of the
\* selection it last ran, with the scenarios of now (run_forecast, _redraw_from_last_run).
THEOREM ChartFollowsRun == ForecastSpec => []ChartIsOfTheRun
<1>1. ForecastInit => ForecastInv
  <2> SUFFICES ASSUME ForecastInit PROVE ForecastInv OBVIOUS
  <2>1. DOMAIN run = {"running", "pending", "asked", "raw", "status"} /\ run.running = FALSE /\ run.raw = "none"
    BY DEF ForecastInit
  <2>2. RunShaped
    <3>1. live = TRUE BY DEF ForecastInit
    <3>2. shifts = 0 /\ out = 0 BY DEF ForecastInit
    <3>3. run.running \in BOOLEAN /\ live \in BOOLEAN BY <2>1, <3>1, Zenon
    <3>4. shifts \in Nat /\ out \in {0, 1} /\ out # 1 BY <3>2
    <3> QED BY <2>1, <3>3, <3>4 DEF RunShaped
  <2>3. ChartOfAnswer BY <2>1, ForecastBounds DEF ForecastInit, ChartOfAnswer
  <2> QED BY <2>2, <2>3 DEF ForecastInv
<1>2. ForecastInv /\ [ForecastNext]_forecastVars => ForecastInv'
  BY ForecastStepKeeps
<1>3. ForecastInv => ChartIsOfTheRun
  BY DEF ForecastInv, ChartOfAnswer, ChartIsOfTheRun
<1> QED BY <1>1, <1>2, <1>3, PTL DEF ForecastSpec

-----------------------------------------------------------------------------
(* Least and greatest of a set of numbers.                                 *)

\* A nonempty set of numbers has a least one.
LEMMA LeastNumber ==
  ASSUME NEW T \in SUBSET Nat, T # {}
  PROVE  \E x \in T : \A y \in T : x <= y
<1> DEFINE R == StrictSubsetOrdering(Nat)
           F == FiniteSubsetsOf(Nat)
           Upto(x) == 0 .. x
           U == {Upto(x) : x \in T}
<1>1. IsWellFoundedOn(R, F)
  BY FS_StrictSubsetOrderingWellFounded
<1>2. U \subseteq F /\ U # {}
  <2>1. \A x \in T : IsFiniteSet(Upto(x)) /\ Upto(x) \in SUBSET Nat
    BY FS_Interval
  <2> QED BY <2>1 DEF FiniteSubsetsOf
<1> HIDE DEF U, R, F
<1>3. \E u \in U : \A v \in U : ~ (<<v, u>> \in R)
  BY <1>1, <1>2, WFMin
<1>4. PICK x \in T : \A y \in T : ~ (<<Upto(y), Upto(x)>> \in R)
  BY <1>3 DEF U
<1>5. ASSUME NEW y \in T, ~ (x <= y) PROVE FALSE
  <2>1. Upto(y) \subseteq Upto(x) /\ x \in Upto(x) /\ x \notin Upto(y)
        /\ Upto(y) \in SUBSET Nat /\ Upto(x) \in SUBSET Nat
    BY <1>5
  <2>2. <<Upto(y), Upto(x)>> \in R
    BY <2>1 DEF R, StrictSubsetOrdering
  <2> QED BY <1>4, <2>2
<1> QED BY <1>5

\* A set of numbers below a bound has a greatest one.
LEMMA GreatestNumber ==
  ASSUME NEW T \in SUBSET Nat, T # {}, NEW n \in Nat, \A x \in T : x <= n
  PROVE  \E x \in T : \A y \in T : x >= y
<1> DEFINE Gap(x) == n - x
           gaps == {Gap(x) : x \in T}
<1>1. gaps \in SUBSET Nat /\ gaps # {}
  <2>1. \A x \in T : x \in Nat /\ x <= n
    OBVIOUS
  <2>2. \A x \in T : Gap(x) \in Nat
    BY <2>1
  <2> QED BY <2>2
<1>2. PICK g \in gaps : \A h \in gaps : g <= h
  BY <1>1, LeastNumber
<1>3. PICK x \in T : g = Gap(x)
  BY <1>2
<1>4. ASSUME NEW y \in T PROVE x >= y
  <2>1. Gap(y) \in gaps
    OBVIOUS
  <2>2. n - x <= n - y
    BY <1>2, <1>3, <2>1
  <2>3. x \in Nat /\ y \in Nat
    OBVIOUS
  <2> QED BY <2>2, <2>3
<1> QED BY <1>3, <1>4

-----------------------------------------------------------------------------
(* The import page.  One run at a time writes to the ledger, so what it    *)
(* found not to be booked is not booked when it writes; and the rows it    *)
(* writes are rows of one file, in the queue or held by the run.           *)

RowLists == {<<>>} \cup {Files[n].rows : n \in DOMAIN Files}
Profiles == {"generic"} \cup {Files[n].profile : n \in DOMAIN Files}
BankNumbers == {0} \cup {Files[n].number : n \in DOMAIN Files}
Targets == {0} \cup {RuleAccount[n] : n \in DOMAIN Files} \cup ImportAccounts
Statuses == {"pending", "ready", "needs_mapping", "failed", "importing", "done"}
AnyFile ==
  [id : Nat, name : DOMAIN Files, rows : RowLists, profile : Profiles, status : Statuses,
   number : BankNumbers, acct : Targets, cats : BOOLEAN, skip : BOOLEAN, rule : BOOLEAN]
\* A file is not parsed yet, or its rows are those of what was dropped.
PageFile == {f \in AnyFile : f.rows = <<>> \/ f.rows = Files[f.name].rows}

ImportShape ==
  /\ queue \in Seq(PageFile)
  /\ \A k \in DOMAIN numbers : numbers[k] \in Targets
  /\ \A d \in drops : d.id \in Nat /\ d.name \in DOMAIN Files
  /\ counts.dropped \in Nat /\ DOMAIN counts = {"dropped", "edits", "loose"} /\ counts.loose \in BOOLEAN
  /\ view.last \in BOOLEAN /\ DOMAIN view = {"step", "chosen", "finished", "last"}
  /\ \A x \in DOMAIN bookedRows : bookedRows[x] \in Nat

Fields == {"n", "todo", "stage", "file", "unique", "held"}
RunOf(p) ==
  /\ DOMAIN p = Fields /\ p = [k \in Fields |-> p[k]]
  /\ p.todo \in Seq(Nat)
  /\ \A id \in DOMAIN p.held : p.held[id] \in PageFile
  /\ p.stage \in {"next", "checking", "writing", "numbering"}
  /\ p.stage # "next" => p.file \in PageFile /\ p.todo # <<>>
\* What a run has still to import is in the queue or in its hands.
InHand(p) == \A k \in 1 .. Len(p.todo) : InQueue(p.todo[k]) \/ p.todo[k] \in DOMAIN p.held
\* What a run is about to write is of its file, and still not booked when it was asked for.
NotBooked(p) ==
  p.stage = "writing" =>
    /\ p.unique \subseteq 1 .. Len(p.file.rows)
    /\ p.file.skip => \A i \in p.unique : <<p.file.acct, p.file.rows[i]>> \notin DOMAIN bookedRows
RunsSound == \A p \in pressed : RunOf(p) /\ InHand(p) /\ NotBooked(p)
OneRun == \A p, q \in pressed : p = q
ImportInv == ImportShape /\ RunsSound /\ OneRun /\ NoRowTwice

LEMMA FileMoves ==
  ASSUME NEW f \in PageFile, NEW acct \in Targets, NEW cats \in BOOLEAN, NEW skip \in BOOLEAN, NEW st \in Statuses
  PROVE  /\ [f EXCEPT !.acct = acct] \in PageFile /\ [f EXCEPT !.acct = acct].id = f.id
         /\ [f EXCEPT !.status = st] \in PageFile /\ [f EXCEPT !.status = st].id = f.id
         /\ [f EXCEPT !.acct = acct, !.cats = cats, !.skip = skip] \in PageFile
         /\ [f EXCEPT !.acct = acct, !.cats = cats, !.skip = skip].id = f.id
BY DEF PageFile, AnyFile

LEMMA Parsed ==
  ASSUME NEW f \in PageFile
  PROVE  ParseFile(f) \in PageFile /\ ParseFile(f).id = f.id
<1> DEFINE src == Files[f.name]
           st == IF src.rows = <<>> THEN IF src.profile = "generic" THEN "needs_mapping" ELSE "failed" ELSE "ready"
<1>1. f \in AnyFile /\ f.name \in DOMAIN Files
  BY DEF PageFile, AnyFile
<1>2. src.rows \in RowLists /\ src.profile \in Profiles /\ src.number \in BankNumbers /\ st \in Statuses
  BY <1>1 DEF RowLists, Profiles, BankNumbers, Statuses
<1>3. ParseFile(f) = [f EXCEPT !.rows = src.rows, !.profile = src.profile, !.number = src.number, !.status = st]
  BY DEF ParseFile
<1> DEFINE g == [f EXCEPT !.rows = src.rows, !.profile = src.profile, !.number = src.number, !.status = st]
<1> HIDE DEF src, st
<1>4. g \in AnyFile /\ g.rows = src.rows /\ g.name = f.name /\ g.id = f.id
  BY <1>1, <1>2 DEF AnyFile
<1> QED BY <1>3, <1>4 DEF PageFile, src

\* The place of a file of the queue.
LEMMA Placed ==
  ASSUME NEW id, InQueue(id), queue \in Seq(PageFile)
  PROVE  PlaceOf(id) \in 1 .. Len(queue) /\ queue[PlaceOf(id)] \in PageFile /\ queue[PlaceOf(id)].id = id
<1>1. PlaceOf(id) \in 1 .. Len(queue) /\ queue[PlaceOf(id)].id = id
  BY DEF InQueue, PlaceOf
<1> QED BY <1>1

LEMMA OneFileMoves ==
  ASSUME queue \in Seq(PageFile), NEW k \in 1 .. Len(queue), NEW f \in PageFile, f.id = queue[k].id,
         queue' = [queue EXCEPT ![k] = f]
  PROVE  queue' \in Seq(PageFile) /\ \A id : InQueue(id) => InQueue(id)'
<1>1. queue' \in Seq(PageFile) /\ Len(queue') = Len(queue)
  OBVIOUS
<1>2. \A i \in 1 .. Len(queue) : queue'[i] = IF i = k THEN f ELSE queue[i]
  OBVIOUS
<1> QED BY <1>1, <1>2 DEF InQueue

\* The queue changes and loses no file; the run and the ledger stay.
LEMMA QueueMoves ==
  ASSUME ImportInv, queue' \in Seq(PageFile), \A id : InQueue(id) => InQueue(id)',
         UNCHANGED <<pressed, bookedRows, numbers>>, counts'.loose = counts.loose,
         counts'.dropped \in Nat, DOMAIN counts' = DOMAIN counts,
         view'.last \in BOOLEAN, DOMAIN view' = DOMAIN view,
         \A d \in drops' : d.id \in Nat /\ d.name \in DOMAIN Files
  PROVE  ImportInv'
<1>1. ImportShape' /\ OneRun' /\ NoRowTwice'
  BY DEF ImportInv, ImportShape, OneRun, NoRowTwice
<1>2. ASSUME NEW p \in pressed PROVE RunOf(p)' /\ InHand(p)' /\ NotBooked(p)'
  <2>1. RunOf(p) /\ InHand(p) /\ NotBooked(p)
    BY DEF ImportInv, RunsSound
  <2>2. InHand(p)'
    BY <2>1 DEF InHand
  <2> QED BY <2>1, <2>2 DEF RunOf, NotBooked
<1> QED BY <1>1, <1>2 DEF ImportInv, RunsSound

LEMMA Synced ==
  ASSUME NEW q, NEW a, NEW v, NEW follow, DOMAIN v = {"step", "chosen", "finished", "last"}
  PROVE  DOMAIN SyncStep(q, a, v, follow) = DOMAIN v /\ SyncStep(q, a, v, follow).last = v.last
BY DEF SyncStep

LEMMA WalkSafe ==
  ASSUME ImportInv, (\E s \in 1..6 : Walk(s)) \/ (\E id \in 1..MaxDrops : SetActive(id))
  PROVE  ImportInv'
<1>1. UNCHANGED <<queue, drops, pressed, bookedRows, numbers, counts>>
  BY DEF Walk, SetActive
<1>2. DOMAIN view = {"step", "chosen", "finished", "last"} /\ view.last \in BOOLEAN
  BY DEF ImportInv, ImportShape
<1>3. view'.last = view.last /\ DOMAIN view' = DOMAIN view
  <2>1. ASSUME NEW s \in 1..6, Walk(s) PROVE view'.last = view.last /\ DOMAIN view' = DOMAIN view
    <3> DEFINE v == [view EXCEPT !.step = s, !.chosen = TRUE]
    <3>1. v.last = view.last /\ DOMAIN v = DOMAIN view /\ DOMAIN v = {"step", "chosen", "finished", "last"}
      BY <1>2
    <3>2. view' = SyncStep(queue, active, v, FALSE)
      BY <2>1 DEF Walk
    <3> HIDE DEF v
    <3>3. DOMAIN SyncStep(queue, active, v, FALSE) = DOMAIN v /\ SyncStep(queue, active, v, FALSE).last = v.last
      BY <3>1 DEF SyncStep
    <3> QED BY <3>1, <3>2, <3>3
  <2>2. ASSUME NEW id \in 1..MaxDrops, SetActive(id) PROVE view'.last = view.last /\ DOMAIN view' = DOMAIN view
    <3>1. view' = SyncStep(queue, id, view, FALSE)
      BY <2>2 DEF SetActive
    <3>2. DOMAIN SyncStep(queue, id, view, FALSE) = DOMAIN view /\ SyncStep(queue, id, view, FALSE).last = view.last
      BY <1>2 DEF SyncStep
    <3> QED BY <3>1, <3>2
  <2> QED BY <2>1, <2>2
<1>4. queue' \in Seq(PageFile) /\ \A d \in drops' : d.id \in Nat /\ d.name \in DOMAIN Files
  BY <1>1 DEF ImportInv, ImportShape
<1>5. \A id : InQueue(id) => InQueue(id)'
  BY <1>1 DEF InQueue
<1>6. counts'.loose = counts.loose /\ counts'.dropped \in Nat /\ DOMAIN counts' = DOMAIN counts
  BY <1>1 DEF ImportInv, ImportShape
<1> QED BY <1>1, <1>2, <1>3, <1>4, <1>5, <1>6, QueueMoves

\* A dropped file arrives in the queue.
LEMMA Landed ==
  ASSUME ImportInv, NEW id, NEW q, RunLanded(id, q)
  PROVE  view'.last = view.last /\ DOMAIN view' = DOMAIN view
<1> DEFINE v == [view EXCEPT !.finished = FALSE]
<1>1. v.last = view.last /\ DOMAIN v = DOMAIN view /\ DOMAIN view = {"step", "chosen", "finished", "last"}
  BY DEF ImportInv, ImportShape
<1>2. view' = SyncStep(q, active', v, TakesFocus)
  BY DEF RunLanded
<1> HIDE DEF v
<1> QED BY <1>1, <1>2, Synced

LEMMA ParsedSafe ==
  ASSUME ImportInv, NEW d \in drops, UploadParsed(d)
  PROVE  ImportInv'
<1>1. d.id \in Nat /\ d.name \in DOMAIN Files /\ queue \in Seq(PageFile) /\ view.last \in BOOLEAN
  BY DEF ImportInv, ImportShape
<1> DEFINE new == QueuedFile(d.id, d.name)
           ruled == [new EXCEPT !.acct = RuleAccount[new.name], !.rule = RuleAccount[new.name] # 0]
<1>2. new \in PageFile
  BY <1>1 DEF QueuedFile, PageFile, AnyFile, RowLists, Profiles, Statuses, BankNumbers, Targets
<1>3. ruled \in PageFile
  <2>1. RuleAccount[new.name] \in Targets /\ (RuleAccount[new.name] # 0) \in BOOLEAN
    BY <1>1 DEF QueuedFile, Targets
  <2> HIDE DEF new
  <2> QED BY <1>2, <2>1 DEF PageFile, AnyFile
<1>4. WithSettings(new) \in PageFile
  <2> DEFINE priors == {i \in 1..Len(queue) : queue[i].profile = new.profile /\ queue[i].cats}
             prior == queue[Max(priors)]
  <2>1. WithSettings(new) = IF priors # {} THEN [ruled EXCEPT !.cats = TRUE, !.skip = prior.skip]
                            ELSE [ruled EXCEPT !.cats = queue = <<>> /\ view.last]
    BY DEF WithSettings
  <2>2. priors # {} => prior.skip \in BOOLEAN
    <3> SUFFICES ASSUME priors # {} PROVE prior.skip \in BOOLEAN OBVIOUS
    <3>1. priors \in SUBSET Nat /\ Len(queue) \in Nat /\ \A x \in priors : x <= Len(queue)
      BY <1>1
    <3>2. \E x \in priors : \A y \in priors : x >= y
      BY <3>1, GreatestNumber
    <3>3. Max(priors) \in priors
      BY <3>2 DEF Max
    <3>4. prior \in PageFile
      BY <1>1, <3>3
    <3> QED BY <3>4 DEF PageFile, AnyFile
  <2> HIDE DEF ruled, priors, prior
  <2>3. CASE priors # {}
    BY <1>3, <2>1, <2>2, <2>3 DEF PageFile, AnyFile
  <2>4. CASE priors = {}
    <3> DEFINE c == queue = <<>> /\ view.last
    <3>1. c \in BOOLEAN
      BY <1>1, Zenon
    <3> HIDE DEF c
    <3>2. [ruled EXCEPT !.cats = c] \in PageFile
      BY <1>3, <3>1 DEF PageFile, AnyFile
    <3> QED BY <2>1, <2>4, <3>2 DEF c
  <2> QED BY <2>3, <2>4
<1> DEFINE f == ParseFile(WithSettings(new))
           q == Append(queue, f)
<1>5. f \in PageFile
  BY <1>4, Parsed
<1>6. /\ queue' = q /\ UNCHANGED <<pressed, bookedRows, numbers, counts>>
      /\ drops' = (drops \ {d}) \cup {[d EXCEPT !.stage = "matching"]} \/ drops' = drops \ {d}
      /\ view' = view \/ RunLanded(d.id, q)
  BY DEF UploadParsed
<1> HIDE DEF f, new, ruled
<1>7. queue' \in Seq(PageFile) /\ \A id : InQueue(id) => InQueue(id)'
  <2>1. q \in Seq(PageFile) /\ Len(q) = Len(queue) + 1 /\ Len(queue) \in Nat
        /\ \A i \in 1 .. Len(queue) : i \in 1 .. Len(q) /\ q[i] = queue[i]
    BY <1>1, <1>5
  <2> HIDE DEF q
  <2> QED BY <1>6, <2>1 DEF InQueue
<1>8. view'.last \in BOOLEAN /\ DOMAIN view' = DOMAIN view
  BY <1>1, <1>6, Landed
<1>9. \A e \in drops' : e.id \in Nat /\ e.name \in DOMAIN Files
  <2>1. \A e \in drops : e.id \in Nat /\ e.name \in DOMAIN Files
    BY DEF ImportInv, ImportShape
  <2>2. [d EXCEPT !.stage = "matching"].id = d.id /\ [d EXCEPT !.stage = "matching"].name = d.name
    OBVIOUS
  <2> DEFINE e == [d EXCEPT !.stage = "matching"]
  <2> HIDE DEF e
  <2> QED BY <1>6, <2>1, <2>2 DEF e
<1>10. counts'.loose = counts.loose /\ counts'.dropped \in Nat /\ DOMAIN counts' = DOMAIN counts
  BY <1>6 DEF ImportInv, ImportShape
<1> QED BY <1>6, <1>7, <1>8, <1>9, <1>10, QueueMoves

LEMMA MatchedSafe ==
  ASSUME ImportInv, NEW d \in drops, UploadMatched(d)
  PROVE  ImportInv'
<1> DEFINE number == Files[d.name].number
           q == IF InQueue(d.id) /\ number \in DOMAIN numbers
                THEN [queue EXCEPT ![PlaceOf(d.id)].acct = numbers[number]] ELSE queue
<1>1. queue \in Seq(PageFile) /\ view.last \in BOOLEAN /\ \A k \in DOMAIN numbers : numbers[k] \in Targets
  BY DEF ImportInv, ImportShape
<1>2. queue' = q /\ RunLanded(d.id, q) /\ drops' = drops \ {d} /\ UNCHANGED <<pressed, bookedRows, numbers, counts>>
  BY DEF UploadMatched
<1>3. queue' \in Seq(PageFile) /\ \A id : InQueue(id) => InQueue(id)'
  <2>1. CASE InQueue(d.id) /\ number \in DOMAIN numbers
    <3> DEFINE k == PlaceOf(d.id)
               f == [queue[k] EXCEPT !.acct = numbers[number]]
    <3>1. k \in 1 .. Len(queue) /\ queue[k] \in PageFile
      BY <1>1, <2>1, Placed
    <3>2. f \in PageFile /\ f.id = queue[k].id
      <4>1. numbers[number] \in Targets
        BY <1>1, <2>1
      <4> QED BY <3>1, <4>1, FileMoves DEF Statuses
    <3>3. queue' = [queue EXCEPT ![k] = f]
      BY <1>2, <2>1
    <3> HIDE DEF k, f
    <3> QED BY <1>1, <3>1, <3>2, <3>3, OneFileMoves
  <2>2. CASE ~ (InQueue(d.id) /\ number \in DOMAIN numbers)
    BY <1>1, <1>2, <2>2 DEF InQueue
  <2> QED BY <2>1, <2>2
<1>4. view'.last \in BOOLEAN /\ DOMAIN view' = DOMAIN view
  BY <1>1, <1>2, Landed
<1>5. /\ \A e \in drops' : e.id \in Nat /\ e.name \in DOMAIN Files
      /\ counts'.loose = counts.loose /\ counts'.dropped \in Nat /\ DOMAIN counts' = DOMAIN counts
  BY <1>2 DEF ImportInv, ImportShape
<1> QED BY <1>2, <1>3, <1>4, <1>5, QueueMoves

\* Another account, another parse: one file of the queue moves.
LEMMA SettingsSafe ==
  ASSUME ImportInv, Reparse \/ \E acct \in ImportAccounts, skip \in BOOLEAN : ChangeSettings(acct, TRUE, skip)
  PROVE  ImportInv'
<1> DEFINE k == PlaceOf(active)
<1>1. /\ queue \in Seq(PageFile) /\ view.last \in BOOLEAN /\ DOMAIN view = {"step", "chosen", "finished", "last"}
      /\ \A d \in drops : d.id \in Nat /\ d.name \in DOMAIN Files
      /\ counts.dropped \in Nat /\ DOMAIN counts = {"dropped", "edits", "loose"}
  BY DEF ImportInv, ImportShape
<1>2. /\ OnScreen /\ counts' = [counts EXCEPT !.edits = @ + 1]
      /\ view' = SyncStep(queue', active, view, FALSE)
      /\ UNCHANGED <<active, drops, pressed, bookedRows, numbers>>
  BY DEF Reparse, ChangeSettings, Edit
<1>3. k \in 1 .. Len(queue) /\ queue[k] \in PageFile
  BY <1>1, <1>2, Placed DEF OnScreen
<1>4. \E f \in PageFile : f.id = queue[k].id /\ queue' = [queue EXCEPT ![k] = f]
  <2>1. CASE Reparse
    <3>1. queue' = [queue EXCEPT ![k] = ParseFile(queue[k])]
      BY <2>1, <1>1, <1>3 DEF Reparse
    <3> QED BY <1>3, <3>1, Parsed
  <2>2. ASSUME NEW acct \in ImportAccounts, NEW skip \in BOOLEAN, ChangeSettings(acct, TRUE, skip)
        PROVE  \E f \in PageFile : f.id = queue[k].id /\ queue' = [queue EXCEPT ![k] = f]
    <3> DEFINE f == [queue[k] EXCEPT !.acct = acct, !.cats = TRUE, !.skip = skip]
    <3>1. queue' = [queue EXCEPT ![k].acct = acct, ![k].cats = TRUE, ![k].skip = skip]
      BY <2>2 DEF ChangeSettings
    <3>2. queue' = [queue EXCEPT ![k] = f]
      <4> HIDE DEF k
      <4> QED BY <1>1, <1>3, <3>1
    <3>3. f \in PageFile /\ f.id = queue[k].id
      <4> DEFINE g == queue[k]
      <4> SUFFICES [g EXCEPT !.acct = acct, !.cats = TRUE, !.skip = skip] \in PageFile
                   /\ [g EXCEPT !.acct = acct, !.cats = TRUE, !.skip = skip].id = g.id
        OBVIOUS
      <4>1. g \in PageFile /\ acct \in Targets
        BY <1>3 DEF Targets
      <4> HIDE DEF g
      <4> QED BY <4>1 DEF PageFile, AnyFile
    <3> QED BY <3>2, <3>3
  <2> QED BY <2>1, <2>2
<1> HIDE DEF k
<1>5. queue' \in Seq(PageFile) /\ \A id : InQueue(id) => InQueue(id)'
  BY <1>1, <1>3, <1>4, OneFileMoves
<1>6. view'.last = view.last /\ DOMAIN view' = DOMAIN view
  <2>1. DOMAIN SyncStep(queue', active, view, FALSE) = DOMAIN view /\ SyncStep(queue', active, view, FALSE).last = view.last
    BY <1>1 DEF SyncStep
  <2> QED BY <1>2, <2>1
<1>7. counts'.loose = counts.loose /\ counts'.dropped \in Nat /\ DOMAIN counts' = DOMAIN counts
  BY <1>1, <1>2
<1> QED BY <1>1, <1>2, <1>5, <1>6, <1>7, QueueMoves

\* Files leave the queue; the run keeps those it has still to import.
LEMMA HeldSafe ==
  ASSUME ImportInv, NEW ids, \A id \in ids : InQueue(id), pressed' = HeldFor(ids),
         queue' \in Seq(PageFile), \A id : InQueue(id) => InQueue(id)' \/ id \in ids,
         UNCHANGED <<bookedRows, numbers>>, counts'.loose = counts.loose,
         counts'.dropped \in Nat, DOMAIN counts' = DOMAIN counts,
         view'.last \in BOOLEAN, DOMAIN view' = DOMAIN view,
         \A d \in drops' : d.id \in Nat /\ d.name \in DOMAIN Files
  PROVE  ImportInv'
<1>1. ImportShape' /\ NoRowTwice'
  BY DEF ImportInv, ImportShape, NoRowTwice
<1> DEFINE Kept(p) == DOMAIN p.held \cup {i \in ids : \E k \in 1..Len(p.todo) : p.todo[k] = i}
           Holds(p) == [id \in Kept(p) |-> IF id \in ids THEN queue[PlaceOf(id)] ELSE p.held[id]]
           Image(p) == [p EXCEPT !.held = Holds(p)]
<1>2. pressed' = {Image(p) : p \in pressed}
  BY DEF HeldFor
<1>3. OneRun'
  <2> HIDE DEF Image
  <2> QED BY <1>2 DEF ImportInv, OneRun
<1>4. ASSUME NEW p \in pressed, NEW q, q = Image(p) PROVE RunOf(q)' /\ InHand(q)' /\ NotBooked(q)'
  <2>1. RunOf(p) /\ InHand(p) /\ NotBooked(p) /\ queue \in Seq(PageFile)
    BY DEF ImportInv, RunsSound, ImportShape
  <2>2. \A id \in Kept(p) : Holds(p)[id] \in PageFile
    <3>1. \A id \in ids : queue[PlaceOf(id)] \in PageFile
      BY <2>1, Placed
    <3>2. \A id \in DOMAIN p.held : p.held[id] \in PageFile
      BY <2>1 DEF RunOf
    <3> QED BY <3>1, <3>2
  <2>3. DOMAIN Holds(p) = Kept(p)
    OBVIOUS
  <2> DEFINE h == Holds(p)
  <2>4. q = [p EXCEPT !.held = h]
    BY <1>4
  <2>5. \A k \in 1..Len(p.todo) : InQueue(p.todo[k])' \/ p.todo[k] \in Kept(p)
    <3> SUFFICES ASSUME NEW k \in 1..Len(p.todo) PROVE InQueue(p.todo[k])' \/ p.todo[k] \in Kept(p)
      OBVIOUS
    <3>1. InQueue(p.todo[k]) \/ p.todo[k] \in DOMAIN p.held
      BY <2>1 DEF InHand
    <3>2. CASE InQueue(p.todo[k])
      BY <3>2
    <3> QED BY <3>1, <3>2
  <2> HIDE DEF Image, Holds, Kept, h
  <2>6. /\ DOMAIN q = Fields /\ q = [k \in Fields |-> q[k]]
        /\ q.todo = p.todo /\ q.held = h /\ q.stage = p.stage /\ q.file = p.file /\ q.unique = p.unique
    BY <2>1, <2>4 DEF RunOf, Fields
  <2>7. DOMAIN h = Kept(p) /\ \A id \in Kept(p) : h[id] \in PageFile
    BY <2>2, <2>3 DEF h
  <2>8. RunOf(q)'
    BY <2>1, <2>6, <2>7 DEF RunOf
  <2>9. InHand(q)'
    BY <2>5, <2>6, <2>7 DEF InHand
  <2>10. NotBooked(q)'
    BY <2>1, <2>6 DEF NotBooked
  <2> QED BY <2>8, <2>9, <2>10
<1>5. RunsSound'
  <2> HIDE DEF Image
  <2> QED BY <1>2, <1>4 DEF RunsSound
<1> QED BY <1>1, <1>3, <1>5 DEF ImportInv

LEMMA EmptyQueue ==
  ASSUME ImportInv
  PROVE  \A i \in 1 .. Len(queue) : InQueue(queue[i].id)
BY DEF InQueue

LEMMA LastCats ==
  ASSUME ImportInv, queue # <<>>
  PROVE  queue[Len(queue)].cats \in BOOLEAN
<1>1. queue \in Seq(PageFile)
  BY DEF ImportInv, ImportShape
<1>2. Len(queue) \in 1 .. Len(queue)
  BY <1>1
<1>3. queue[Len(queue)] \in PageFile
  BY <1>1, <1>2
<1> QED BY <1>3 DEF PageFile, AnyFile

LEMMA DropSafe ==
  ASSUME ImportInv, NEW name \in DOMAIN Files, DropFile(name)
  PROVE  ImportInv'
<1> DEFINE fresh == QueueIsTerminal(queue)
           c == queue[Len(queue)].cats
           v == [RunStarted(view) EXCEPT !.last = c]
<1>1. /\ queue \in Seq(PageFile) /\ view.last \in BOOLEAN /\ DOMAIN view = {"step", "chosen", "finished", "last"}
      /\ \A d \in drops : d.id \in Nat /\ d.name \in DOMAIN Files
      /\ counts.dropped \in Nat /\ DOMAIN counts = {"dropped", "edits", "loose"}
  BY DEF ImportInv, ImportShape
<1>2. /\ queue' = IF fresh THEN <<>> ELSE queue
      /\ view' = IF fresh THEN SyncStep(<<>>, 0, v, TRUE) ELSE view
      /\ drops' = drops \cup {[id |-> counts.dropped + 1, name |-> name, stage |-> "reading"]}
      /\ counts' = [counts EXCEPT !.dropped = counts.dropped + 1]
      /\ pressed' = IF fresh THEN HeldFor({queue[i].id : i \in 1..Len(queue)}) ELSE pressed
      /\ UNCHANGED <<bookedRows, numbers>>
  BY DEF DropFile
<1>3. counts'.loose = counts.loose /\ counts'.dropped \in Nat /\ DOMAIN counts' = DOMAIN counts
  BY <1>1, <1>2
<1>4. \A d \in drops' : d.id \in Nat /\ d.name \in DOMAIN Files
  BY <1>1, <1>2
<1>5. CASE fresh
  <2>1. c \in BOOLEAN
    BY <1>5, LastCats DEF QueueIsTerminal
  <2> DEFINE w == RunStarted(view)
  <2>2. DOMAIN w = DOMAIN view
    BY DEF RunStarted
  <2>3. v = [w EXCEPT !.last = c]
    OBVIOUS
  <2> HIDE DEF w, c, v
  <2>4. DOMAIN v = DOMAIN view /\ v.last = c
    BY <1>1, <2>2, <2>3
  <2>5. view'.last \in BOOLEAN /\ DOMAIN view' = DOMAIN view
    <3>1. view' = SyncStep(<<>>, 0, v, TRUE)
      BY <1>2, <1>5
    <3>2. DOMAIN v = {"step", "chosen", "finished", "last"}
      BY <1>1, <2>4
    <3>3. DOMAIN SyncStep(<<>>, 0, v, TRUE) = DOMAIN v /\ SyncStep(<<>>, 0, v, TRUE).last = v.last
      BY <3>2 DEF SyncStep
    <3> QED BY <2>1, <2>4, <3>1, <3>3
  <2> DEFINE ids == {queue[i].id : i \in 1..Len(queue)}
  <2>6. \A id \in ids : InQueue(id)
    BY EmptyQueue
  <2>7. queue' \in Seq(PageFile) /\ \A id : InQueue(id) => InQueue(id)' \/ id \in ids
    BY <1>2, <1>5 DEF InQueue
  <2>8. pressed' = HeldFor(ids)
    BY <1>2, <1>5
  <2> HIDE DEF ids, fresh
  <2> QED BY <1>2, <1>3, <1>4, <2>5, <2>6, <2>7, <2>8, HeldSafe
<1>6. CASE ~fresh
  <2>1. queue' = queue /\ view' = view /\ pressed' = pressed /\ UNCHANGED <<bookedRows, numbers>>
    BY <1>2, <1>6
  <2>2. queue' \in Seq(PageFile) /\ \A id : InQueue(id) => InQueue(id)'
    BY <1>1, <2>1 DEF InQueue
  <2> QED BY <1>1, <1>3, <1>4, <2>1, <2>2, QueueMoves
<1> QED BY <1>5, <1>6

\* Everything of a list but one place.
LEMMA AllButOne ==
  ASSUME queue \in Seq(PageFile), NEW k \in 1 .. Len(queue), queue' = RemoveAt(queue, k)
  PROVE  queue' \in Seq(PageFile) /\ \A id : InQueue(id) => InQueue(id)' \/ id = queue[k].id
<1> DEFINE front == SubSeq(queue, 1, k - 1)
           back == SubSeq(queue, k + 1, Len(queue))
<1>0. Len(queue) \in Nat /\ k \in Nat
  OBVIOUS
<1>1. front \in Seq(PageFile) /\ Len(front) = k - 1 /\ \A i \in 1 .. k - 1 : front[i] = queue[i]
  OBVIOUS
<1>2. back \in Seq(PageFile) /\ Len(back) = Len(queue) - k /\ \A i \in 1 .. Len(queue) - k : back[i] = queue[k + i]
  OBVIOUS
<1>3. queue' = front \o back
  BY DEF RemoveAt
<1> HIDE DEF front, back
<1>4. queue' \in Seq(PageFile) /\ Len(queue') = Len(queue) - 1
  <2>0. front \in Seq(PageFile) /\ back \in Seq(PageFile)
    BY <1>1, <1>2
  <2>1. front \o back \in Seq(PageFile) /\ Len(front \o back) = Len(front) + Len(back)
    BY <2>0
  <2>2. k - 1 + (Len(queue) - k) = Len(queue) - 1
    BY <1>0
  <2> QED BY <1>1, <1>2, <1>3, <2>1, <2>2
<1>5. ASSUME NEW i \in 1 .. k - 1 PROVE queue'[i] = queue[i]
  <2>1. i \in 1 .. Len(front) /\ front[i] = queue[i]
    BY <1>0, <1>1
  <2>2. (front \o back)[i] = front[i]
    BY <1>1, <1>2, <2>1
  <2> QED BY <1>3, <2>1, <2>2
<1>6. ASSUME NEW i \in 1 .. Len(queue), i > k PROVE queue'[i - 1] = queue[i] /\ i - 1 \in 1 .. Len(queue')
  <2>1. i - 1 \in Len(front) + 1 .. Len(front) + Len(back) /\ i - k \in 1 .. Len(queue) - k
    BY <1>0, <1>1, <1>2, <1>6
  <2>2. queue'[i - 1] = back[i - 1 - Len(front)]
    BY <1>1, <1>2, <1>3, <2>1
  <2>3. i - 1 - Len(front) = i - k /\ k + (i - k) = i
    BY <1>0, <1>1, <1>6
  <2>4. back[i - k] = queue[k + (i - k)]
    BY <1>2, <2>1
  <2> QED BY <1>0, <1>4, <1>6, <2>2, <2>3, <2>4
<1>7. ASSUME NEW i \in 1 .. Len(queue), i # k
      PROVE  \E j \in 1 .. Len(queue') : queue'[j].id = queue[i].id
  <2>1. CASE i < k
    BY <1>0, <1>4, <1>5, <2>1
  <2>2. CASE i > k
    BY <1>6, <2>2
  <2> QED BY <1>0, <1>7, <2>1, <2>2
<1> QED BY <1>4, <1>7 DEF InQueue

LEMMA RemoveSafe ==
  ASSUME ImportInv, NEW id, RemoveFile(id)
  PROVE  ImportInv'
<1> DEFINE v == [view EXCEPT !.finished = @ /\ queue' # <<>>]
<1>1. /\ queue \in Seq(PageFile) /\ view.last \in BOOLEAN /\ DOMAIN view = {"step", "chosen", "finished", "last"}
      /\ \A d \in drops : d.id \in Nat /\ d.name \in DOMAIN Files
      /\ counts.dropped \in Nat /\ DOMAIN counts = {"dropped", "edits", "loose"}
  BY DEF ImportInv, ImportShape
<1>2. /\ InQueue(id) /\ queue' = RemoveAt(queue, PlaceOf(id)) /\ pressed' = HeldFor({id})
      /\ view' = SyncStep(queue', active', v, FALSE)
      /\ counts' = [counts EXCEPT !.edits = @ + 1]
      /\ UNCHANGED <<drops, bookedRows, numbers>>
  BY DEF RemoveFile, Edit
<1>3. PlaceOf(id) \in 1 .. Len(queue) /\ queue[PlaceOf(id)].id = id
  BY <1>1, <1>2, Placed
<1>4. queue' \in Seq(PageFile) /\ \A x : InQueue(x) => InQueue(x)' \/ x \in {id}
  BY <1>1, <1>2, <1>3, AllButOne
<1>5. DOMAIN v = {"step", "chosen", "finished", "last"} /\ v.last = view.last
  BY <1>1
<1> HIDE DEF v
<1>6. view'.last \in BOOLEAN /\ DOMAIN view' = DOMAIN view
  <2>1. DOMAIN SyncStep(queue', active', v, FALSE) = DOMAIN v /\ SyncStep(queue', active', v, FALSE).last = v.last
    BY <1>5 DEF SyncStep
  <2> QED BY <1>1, <1>2, <1>5, <2>1
<1>7. counts'.loose = counts.loose /\ counts'.dropped \in Nat /\ DOMAIN counts' = DOMAIN counts
  BY <1>1, <1>2
<1> DEFINE ids == {id}
<1>8. \A x \in ids : InQueue(x)
  BY <1>2
<1>9. pressed' = HeldFor(ids) /\ \A x : InQueue(x) => InQueue(x)' \/ x \in ids
  BY <1>2, <1>4
<1> HIDE DEF ids
<1> QED BY <1>1, <1>2, <1>4, <1>6, <1>7, <1>8, <1>9, HeldSafe

LEMMA NewImportSafe ==
  ASSUME ImportInv, StartNewImport
  PROVE  ImportInv'
<1> DEFINE c == queue # <<>> /\ queue[Len(queue)].cats
           w == RunStarted(view)
           v == [w EXCEPT !.last = c]
           ids == {queue[i].id : i \in 1..Len(queue)}
<1>1. /\ queue \in Seq(PageFile) /\ view.last \in BOOLEAN /\ DOMAIN view = {"step", "chosen", "finished", "last"}
      /\ \A d \in drops : d.id \in Nat /\ d.name \in DOMAIN Files
      /\ counts.dropped \in Nat /\ DOMAIN counts = {"dropped", "edits", "loose"}
  BY DEF ImportInv, ImportShape
<1>2. /\ queue' = <<>> /\ pressed' = HeldFor(ids)
      /\ view' = SyncStep(<<>>, 0, v, TRUE)
      /\ counts' = [counts EXCEPT !.edits = @ + 1]
      /\ UNCHANGED <<drops, bookedRows, numbers>>
  BY DEF StartNewImport, Edit
<1>3. c \in BOOLEAN
  BY LastCats, Zenon
<1>4. DOMAIN w = DOMAIN view
  BY DEF RunStarted
<1>5. \A id \in ids : InQueue(id)
  BY EmptyQueue
<1>6. queue' \in Seq(PageFile) /\ \A id : InQueue(id) => InQueue(id)' \/ id \in ids
  BY <1>2 DEF InQueue
<1> HIDE DEF w, c
<1>7. DOMAIN v = {"step", "chosen", "finished", "last"} /\ v.last = c
  BY <1>1, <1>4
<1> HIDE DEF v, ids
<1>8. view'.last \in BOOLEAN /\ DOMAIN view' = DOMAIN view
  <2>1. DOMAIN SyncStep(<<>>, 0, v, TRUE) = DOMAIN v /\ SyncStep(<<>>, 0, v, TRUE).last = v.last
    BY <1>7 DEF SyncStep
  <2> QED BY <1>1, <1>2, <1>3, <1>7, <2>1
<1>9. counts'.loose = counts.loose /\ counts'.dropped \in Nat /\ DOMAIN counts' = DOMAIN counts
  BY <1>1, <1>2
<1> QED BY <1>1, <1>2, <1>5, <1>6, <1>8, <1>9, HeldSafe

\* The files that are ready, as the list a run starts with.
LEMMA ReadyList ==
  ASSUME queue \in Seq(PageFile), NEW todo \in InQueueOrder(Ready)
  PROVE  todo \in Seq(Nat) /\ \A k \in 1 .. Len(todo) : InQueue(todo[k])
<1> DEFINE places == {k \in 1..Len(queue) : queue[k].status = "ready"}
           n == Cardinality(Ready)
<1>1. IsFiniteSet(places)
  <2>1. IsFiniteSet(1 .. Len(queue)) /\ places \subseteq 1 .. Len(queue)
    BY FS_Interval
  <2> QED BY <2>1, FS_Subset
<1>2. Ready = {queue[i].id : i \in places}
  BY DEF Ready
<1>3. \A id \in Ready : id \in Nat /\ InQueue(id)
  <2>1. \A i \in places : queue[i] \in PageFile
    OBVIOUS
  <2> QED BY <1>2, <2>1 DEF InQueue, PageFile, AnyFile
<1> HIDE DEF places
<1>4. IsFiniteSet(Ready)
  <2> DEFINE f == [i \in places |-> queue[i].id]
  <2>1. f \in Surjection(places, Ready)
    BY <1>2 DEF Surjection
  <2> HIDE DEF f
  <2> QED BY <1>1, <2>1, FS_Surjection
<1>5. n \in Nat
  BY <1>4, FS_CardinalityType
<1>6. todo \in [1 .. n -> Ready]
  BY DEF InQueueOrder
<1> HIDE DEF n
<1>7. todo \in Seq(Nat) /\ Len(todo) = n
  BY <1>3, <1>5, <1>6
<1> QED BY <1>3, <1>6, <1>7

LEMMA StartSafe ==
  ASSUME ImportInv, DoImportAll
  PROVE  ImportInv'
<1>1. PICK todo \in InQueueOrder(Ready) : pressed' = {NewRun(1, todo)}
  BY DEF DoImportAll
<1>2. UNCHANGED <<queue, drops, view, bookedRows, numbers, counts>>
  BY DEF DoImportAll
<1>3. ImportShape' /\ NoRowTwice'
  BY <1>2 DEF ImportInv, ImportShape, NoRowTwice
<1>4. todo \in Seq(Nat) /\ \A k \in 1 .. Len(todo) : InQueue(todo[k])
  BY ReadyList DEF ImportInv, ImportShape
<1>5. ASSUME NEW p \in pressed' PROVE RunOf(p)' /\ InHand(p)' /\ NotBooked(p)'
  <2>1. p = [n |-> 1, todo |-> todo, stage |-> "next", file |-> <<>>, unique |-> {}, held |-> <<>>]
    BY <1>1, <1>5 DEF NewRun
  <2>2. DOMAIN p = Fields /\ p = [k \in Fields |-> p[k]] /\ p.todo = todo /\ p.stage = "next" /\ p.held = <<>>
    BY <2>1 DEF Fields
  <2>3. RunOf(p)'
    BY <1>4, <2>2 DEF RunOf
  <2>4. InHand(p)'
    BY <1>2, <1>4, <2>2 DEF InHand, InQueue
  <2> QED BY <2>2, <2>3, <2>4 DEF NotBooked
<1>6. RunsSound' /\ OneRun'
  BY <1>1, <1>5 DEF RunsSound, OneRun
<1> QED BY <1>3, <1>6 DEF ImportInv

\* The run moves on by a step that loses no file of the queue.
LEMMA RunMoves ==
  ASSUME ImportInv, NEW p \in pressed, NEW q, Becomes(p, q), RunOf(q), InHand(q), NotBooked(q)', NoRowTwice',
         queue' \in Seq(PageFile), \A id : InQueue(id) => InQueue(id)',
         \A k \in DOMAIN numbers' : numbers'[k] \in Targets, UNCHANGED <<drops, view>>,
         counts'.dropped = counts.dropped, DOMAIN counts' = DOMAIN counts, counts'.loose \in BOOLEAN,
         \A x \in DOMAIN bookedRows' : bookedRows'[x] \in Nat
  PROVE  ImportInv'
<1>1. ImportShape'
  BY DEF ImportInv, ImportShape
<1>2. pressed' = {q}
  BY DEF ImportInv, OneRun, Becomes
<1>3. InHand(q)'
  BY DEF InHand
<1>4. RunOf(q)'
  BY DEF RunOf
<1>5. RunsSound' /\ OneRun'
  BY <1>2, <1>3, <1>4 DEF RunsSound, OneRun
<1> QED BY <1>1, <1>5 DEF ImportInv

LEMMA MarkedMoves ==
  ASSUME queue \in Seq(PageFile), NEW id, NEW st \in Statuses, queue' = Marked(id, st)
  PROVE  queue' \in Seq(PageFile) /\ \A x : InQueue(x) => InQueue(x)'
<1>1. CASE InQueue(id)
  <2> DEFINE k == PlaceOf(id)
             f == [queue[k] EXCEPT !.status = st]
  <2>1. k \in 1 .. Len(queue) /\ queue[k] \in PageFile
    BY <1>1, Placed
  <2>2. f \in PageFile /\ f.id = queue[k].id
    BY <2>1 DEF PageFile, AnyFile
  <2>3. queue' = [queue EXCEPT ![k] = f]
    BY <1>1 DEF Marked
  <2> HIDE DEF k, f
  <2> QED BY <2>1, <2>2, <2>3, OneFileMoves
<1>2. CASE ~InQueue(id)
  BY <1>2 DEF Marked, InQueue
<1> QED BY <1>1, <1>2

\* A file is done with: the run turns to the next.
LEMMA Turned ==
  ASSUME NEW p, RunOf(p), InHand(p), p.todo # <<>>, NEW q, DOMAIN q = Fields, q = [k \in Fields |-> q[k]],
         q.stage = "next", q.todo = Tail(p.todo), q.held = p.held
  PROVE  RunOf(q) /\ InHand(q) /\ NotBooked(q)'
<1>1. p.todo \in Seq(Nat) /\ Tail(p.todo) \in Seq(Nat) /\ Len(Tail(p.todo)) = Len(p.todo) - 1 /\ Len(p.todo) \in Nat
      /\ \A k \in 1 .. Len(p.todo) - 1 : Tail(p.todo)[k] = p.todo[k + 1]
  BY DEF RunOf
<1>3. RunOf(q)
  BY <1>1 DEF RunOf
<1>4. InHand(q)
  <2> SUFFICES ASSUME NEW k \in 1 .. Len(q.todo) PROVE InQueue(q.todo[k]) \/ q.todo[k] \in DOMAIN q.held
    BY DEF InHand
  <2>0. k \in 1 .. Len(p.todo) - 1
    BY <1>1
  <2>1. k + 1 \in 1 .. Len(p.todo) /\ Tail(p.todo)[k] = p.todo[k + 1]
    BY <1>1, <2>0
  <2> QED BY <2>1 DEF InHand
<1> QED BY <1>3, <1>4 DEF NotBooked

\* What a step of the run that books nothing leaves to show.
LEMMA NothingBooked ==
  ASSUME ImportInv, NEW p \in pressed, NEW q, Becomes(p, q), RunOf(q), InHand(q), NotBooked(q)',
         queue' \in Seq(PageFile), \A id : InQueue(id) => InQueue(id)',
         UNCHANGED <<drops, view, bookedRows, counts>>, \A k \in DOMAIN numbers' : numbers'[k] \in Targets
  PROVE  ImportInv'
<1>1. NoRowTwice'
  BY DEF ImportInv, NoRowTwice
<1>2. counts'.dropped = counts.dropped /\ DOMAIN counts' = DOMAIN counts /\ counts'.loose \in BOOLEAN
  BY DEF ImportInv, ImportShape
<1>3. \A x \in DOMAIN bookedRows' : bookedRows'[x] \in Nat
  BY DEF ImportInv, ImportShape
<1> QED BY <1>1, <1>2, <1>3, RunMoves

LEMMA ImportOneSafe ==
  ASSUME ImportInv, NEW p \in pressed, ImportOne(p)
  PROVE  ImportInv'
<1> DEFINE id == Head(p.todo)
           f == IF InQueue(id) THEN queue[PlaceOf(id)] ELSE p.held[id]
<1>1. RunOf(p) /\ InHand(p) /\ NotBooked(p) /\ queue \in Seq(PageFile) /\ \A k \in DOMAIN numbers : numbers[k] \in Targets
  BY DEF ImportInv, RunsSound, ImportShape
<1>2. p.stage = "next" /\ p.todo # <<>> /\ UNCHANGED <<drops, view, bookedRows, numbers, counts>>
  BY DEF ImportOne
<1>3. f \in PageFile
  <2>1. p.todo \in Seq(Nat) /\ 1 \in 1 .. Len(p.todo) /\ p.todo[1] = id
    BY <1>1, <1>2 DEF RunOf
  <2>2. InQueue(id) \/ id \in DOMAIN p.held
    BY <1>1, <2>1 DEF InHand
  <2> HIDE DEF id
  <2>3. CASE InQueue(id)
    BY <1>1, <2>3, Placed
  <2>4. CASE ~InQueue(id)
    BY <1>1, <2>2, <2>4 DEF RunOf
  <2> QED BY <2>3, <2>4
<1> HIDE DEF id, f
<1>4. CASE ReadinessBlocked(f)
  <2> DEFINE q == [p EXCEPT !.todo = Tail(@)]
  <2>1. queue' = Marked(id, "failed") /\ Becomes(p, q)
    BY <1>4 DEF ImportOne, id, f
  <2>2. queue' \in Seq(PageFile) /\ \A x : InQueue(x) => InQueue(x)'
    BY <1>1, <2>1, MarkedMoves DEF Statuses
  <2>3. \E r : r = q
    OBVIOUS
  <2>4. PICK r : r = q
    BY <2>3
  <2>5. RunOf(r) /\ InHand(r) /\ NotBooked(r)'
    <3>1. DOMAIN r = Fields /\ r = [k \in Fields |-> r[k]] /\ r.stage = "next" /\ r.todo = Tail(p.todo) /\ r.held = p.held
      BY <1>1, <1>2, <2>4 DEF RunOf, Fields
    <3> QED BY <1>1, <1>2, <3>1, Turned
  <2>6. Becomes(p, r)
    BY <2>1, <2>4
  <2> HIDE DEF q
  <2> QED BY <1>1, <1>2, <2>2, <2>5, <2>6, NothingBooked
<1>5. CASE ~ReadinessBlocked(f)
  <2>1. PICK r : r = [p EXCEPT !.stage = "checking", !.file = f]
    OBVIOUS
  <2>2. queue' = Marked(id, "importing") /\ Becomes(p, r)
    BY <1>5, <2>1 DEF ImportOne, id, f
  <2>3. queue' \in Seq(PageFile) /\ \A x : InQueue(x) => InQueue(x)'
    BY <1>1, <2>2, MarkedMoves DEF Statuses
  <2>4. /\ DOMAIN r = Fields /\ r = [k \in Fields |-> r[k]] /\ r.stage = "checking" /\ r.file = f
        /\ r.todo = p.todo /\ r.held = p.held
    BY <1>1, <2>1 DEF RunOf, Fields
  <2>5. RunOf(r) /\ InHand(r) /\ NotBooked(r)'
    <3>1. RunOf(r)
      BY <1>1, <1>2, <1>3, <2>4 DEF RunOf
    <3>2. InHand(r)
      BY <1>1, <2>4 DEF InHand
    <3> QED BY <2>4, <3>1, <3>2 DEF NotBooked
  <2> QED BY <1>1, <1>2, <2>2, <2>3, <2>5, NothingBooked
<1> QED BY <1>4, <1>5

LEMMA FilterSafe ==
  ASSUME ImportInv, NEW p \in pressed, FilterDuplicates(p)
  PROVE  ImportInv'
<1> DEFINE fresh == {i \in 1..Len(p.file.rows) : p.file.skip => ~Had(p.file.acct, p.file.rows[i])}
<1>1. RunOf(p) /\ InHand(p) /\ queue \in Seq(PageFile) /\ \A k \in DOMAIN numbers : numbers[k] \in Targets
  BY DEF ImportInv, RunsSound, ImportShape
<1>2. p.stage = "checking" /\ UNCHANGED <<queue, drops, view, bookedRows, numbers, counts>>
  BY DEF FilterDuplicates
<1>3. fresh \subseteq 1 .. Len(p.file.rows)
      /\ (p.file.skip => \A i \in fresh : <<p.file.acct, p.file.rows[i]>> \notin DOMAIN bookedRows)
  BY DEF Had
<1>4. PICK r : r = [p EXCEPT !.stage = "writing", !.unique = fresh]
  OBVIOUS
<1>5. Becomes(p, r)
  BY <1>4 DEF FilterDuplicates
<1> HIDE DEF fresh
<1>6. /\ DOMAIN r = Fields /\ r = [k \in Fields |-> r[k]] /\ r.stage = "writing" /\ r.file = p.file
      /\ r.todo = p.todo /\ r.held = p.held /\ r.unique = fresh
  BY <1>1, <1>4 DEF RunOf, Fields
<1>7. RunOf(r)
  BY <1>1, <1>2, <1>6 DEF RunOf
<1>8. InHand(r)
  BY <1>1, <1>6 DEF InHand
<1>9. NotBooked(r)'
  BY <1>2, <1>3, <1>6 DEF NotBooked
<1>10. queue' \in Seq(PageFile) /\ \A id : InQueue(id) => InQueue(id)'
  BY <1>1, <1>2 DEF InQueue
<1> QED BY <1>1, <1>2, <1>5, <1>7, <1>8, <1>9, <1>10, NothingBooked

LEMMA FinishFileSafe ==
  ASSUME ImportInv, NEW p \in pressed, SaveNumber(p) \/ PersistFails(p)
  PROVE  ImportInv'
<1>1. RunOf(p) /\ InHand(p) /\ queue \in Seq(PageFile) /\ \A k \in DOMAIN numbers : numbers[k] \in Targets
  BY DEF ImportInv, RunsSound, ImportShape
<1>2. p.stage # "next" /\ UNCHANGED <<drops, view, bookedRows, counts>>
  BY DEF SaveNumber, PersistFails
<1>3. p.file \in PageFile /\ p.todo # <<>>
  BY <1>1, <1>2 DEF RunOf
<1>4. PICK r : r = [p EXCEPT !.stage = "next", !.todo = Tail(@), !.file = <<>>, !.unique = {}]
  OBVIOUS
<1>5. Becomes(p, r)
  BY <1>4 DEF SaveNumber, PersistFails
<1>6. RunOf(r) /\ InHand(r) /\ NotBooked(r)'
  <2>1. DOMAIN r = Fields /\ r = [k \in Fields |-> r[k]] /\ r.stage = "next" /\ r.todo = Tail(p.todo) /\ r.held = p.held
    BY <1>1, <1>4 DEF RunOf, Fields
  <2> QED BY <1>1, <1>3, <2>1, Turned
<1>7. queue' \in Seq(PageFile) /\ \A x : InQueue(x) => InQueue(x)'
  <2>1. queue' = Marked(p.file.id, "done") \/ queue' = Marked(p.file.id, "failed")
    BY DEF SaveNumber, PersistFails
  <2> QED BY <1>1, <2>1, MarkedMoves DEF Statuses
<1>8. \A k \in DOMAIN numbers' : numbers'[k] \in Targets
  <2>1. p.file.acct \in Targets
    BY <1>3 DEF PageFile, AnyFile
  <2>2. numbers' = numbers \/ numbers' = With(numbers, p.file.number, p.file.acct)
    BY DEF SaveNumber, PersistFails
  <2> QED BY <1>1, <2>1, <2>2 DEF With
<1> QED BY <1>2, <1>5, <1>6, <1>7, <1>8, NothingBooked

\* What is written is at most what the file says, and none of it was booked before.
LEMMA BookedSafe ==
  ASSUME ImportInv, NEW f \in PageFile, NEW places \in SUBSET (1 .. Len(f.rows)),
         f.skip => \A i \in places : <<f.acct, f.rows[i]>> \notin DOMAIN bookedRows,
         bookedRows' = Booked(f.acct, f.rows, places), counts'.loose = (counts.loose \/ ~f.skip)
  PROVE  (\A x \in DOMAIN bookedRows' : bookedRows'[x] \in Nat) /\ NoRowTwice'
<1> DEFINE Same(x) == {i \in places : <<f.acct, f.rows[i]>> = x}
           Old(x) == IF x \in DOMAIN bookedRows THEN bookedRows[x] ELSE 0
           added == {<<f.acct, f.rows[i]>> : i \in places}
<1>1. f.name \in DOMAIN Files /\ f.skip \in BOOLEAN /\ (f.rows = <<>> \/ f.rows = Files[f.name].rows)
  BY DEF PageFile, AnyFile
<1>2. Len(f.rows) \in Nat
  BY <1>1, FilesAssumption
<1>3. IsFiniteSet(1 .. Len(f.rows))
  BY <1>2, FS_Interval
<1>4. \A x : IsFiniteSet(Same(x)) /\ Cardinality(Same(x)) \in Nat
  <2>1. ASSUME NEW x PROVE IsFiniteSet(Same(x)) /\ Cardinality(Same(x)) \in Nat
    <3>1. Same(x) \subseteq 1 .. Len(f.rows)
      OBVIOUS
    <3> HIDE DEF Same
    <3> QED BY <1>3, <3>1, FS_Subset, FS_CardinalityType
  <2> QED BY <2>1
<1>5. /\ DOMAIN bookedRows' = DOMAIN bookedRows \cup added
      /\ \A x \in DOMAIN bookedRows' : bookedRows'[x] = Old(x) + Cardinality(Same(x))
  BY DEF Booked
<1>6. \A x : Old(x) \in Nat
  BY DEF ImportInv, ImportShape
<1>7. \A x \in DOMAIN bookedRows' : bookedRows'[x] \in Nat
  <2> HIDE DEF Same, Old
  <2> QED BY <1>4, <1>5, <1>6
<1>8. ASSUME ~counts'.loose, NEW x \in DOMAIN bookedRows'
      PROVE  \E name \in DOMAIN Files : bookedRows'[x] <= Multiplicity(name, x[2])
  <2>1. ~counts.loose /\ f.skip
    <3>1. counts.loose \in BOOLEAN
      BY DEF ImportInv, ImportShape
    <3> QED BY <1>1, <1>8, <3>1, Zenon
  <2>2. CASE x \in DOMAIN bookedRows
    <3>1. Same(x) = {}
      BY <2>1, <2>2
    <3>2. Cardinality(Same(x)) = 0
      BY <3>1, FS_EmptySet
    <3>3. bookedRows'[x] = bookedRows[x]
      <4>1. Old(x) = bookedRows[x] /\ Old(x) \in Nat
        BY <1>6, <2>2
      <4>2. bookedRows'[x] = Old(x) + Cardinality(Same(x))
        BY <1>5
      <4> HIDE DEF Old, Same
      <4> QED BY <3>2, <4>1, <4>2
    <3> QED BY <2>1, <2>2, <3>3 DEF ImportInv, NoRowTwice
  <2>3. CASE x \notin DOMAIN bookedRows
    <3> DEFINE copies == {i \in 1..Len(Files[f.name].rows) : Files[f.name].rows[i] = x[2]}
    <3>1. PICK i \in places : x = <<f.acct, f.rows[i]>>
      BY <1>5, <2>3
    <3>2. f.rows = Files[f.name].rows
      <4>1. i \in 1 .. Len(f.rows)
        OBVIOUS
      <4> QED BY <1>1, <4>1
    <3>3. Same(x) \subseteq copies
      BY <3>1, <3>2
    <3>4. IsFiniteSet(copies)
      <4>1. copies \subseteq 1 .. Len(f.rows)
        BY <3>2
      <4> HIDE DEF copies
      <4> QED BY <1>3, <4>1, FS_Subset
    <3>5. Cardinality(Same(x)) <= Cardinality(copies)
      <4> HIDE DEF Same, copies
      <4> QED BY <3>3, <3>4, FS_Subset
    <3>6. bookedRows'[x] = Cardinality(Same(x))
      <4>1. Old(x) = 0 /\ bookedRows'[x] = Old(x) + Cardinality(Same(x)) /\ Cardinality(Same(x)) \in Nat
        BY <1>4, <1>5, <2>3
      <4> HIDE DEF Old, Same
      <4> QED BY <4>1
    <3>7. Multiplicity(f.name, x[2]) = Cardinality(copies)
      BY DEF Multiplicity
    <3> HIDE DEF Same, copies
    <3> QED BY <1>1, <3>5, <3>6, <3>7
  <2> QED BY <2>2, <2>3
<1>9. NoRowTwice'
  BY <1>8 DEF NoRowTwice, Multiplicity
<1> QED BY <1>7, <1>9

LEMMA CreateSafe ==
  ASSUME ImportInv, NEW p \in pressed, CreateBulk(p)
  PROVE  ImportInv'
<1>1. RunOf(p) /\ InHand(p) /\ NotBooked(p) /\ queue \in Seq(PageFile) /\ \A k \in DOMAIN numbers : numbers[k] \in Targets
      /\ DOMAIN counts = {"dropped", "edits", "loose"} /\ counts.loose \in BOOLEAN
  BY DEF ImportInv, RunsSound, ImportShape
<1>2. p.stage = "writing" /\ UNCHANGED <<drops, view, numbers>>
      /\ bookedRows' = Booked(p.file.acct, p.file.rows, p.unique)
      /\ counts' = [counts EXCEPT !.loose = @ \/ ~p.file.skip]
  BY DEF CreateBulk
<1>3. p.file \in PageFile /\ p.todo # <<>> /\ p.unique \in SUBSET (1 .. Len(p.file.rows))
      /\ (p.file.skip => \A i \in p.unique : <<p.file.acct, p.file.rows[i]>> \notin DOMAIN bookedRows)
  BY <1>1, <1>2 DEF RunOf, NotBooked
<1> DEFINE loose == counts.loose \/ ~p.file.skip
<1>4. counts'.dropped = counts.dropped /\ DOMAIN counts' = DOMAIN counts /\ counts'.loose = loose
  <2>1. counts' = [counts EXCEPT !.loose = loose]
    BY <1>2
  <2> HIDE DEF loose
  <2> QED BY <1>1, <2>1
<1>5. loose \in BOOLEAN
  BY <1>1, <1>3, Zenon
<1>6. (\A x \in DOMAIN bookedRows' : bookedRows'[x] \in Nat) /\ NoRowTwice'
  BY <1>2, <1>3, <1>4, BookedSafe
<1> HIDE DEF loose
<1>7. \A k \in DOMAIN numbers' : numbers'[k] \in Targets
  BY <1>1, <1>2
<1>8. CASE p.file.number # 0
  <2>1. PICK r : r = [p EXCEPT !.stage = "numbering"]
    OBVIOUS
  <2>2. Becomes(p, r) /\ queue' = queue
    BY <1>8, <2>1 DEF CreateBulk
  <2>3. /\ DOMAIN r = Fields /\ r = [k \in Fields |-> r[k]] /\ r.stage = "numbering" /\ r.file = p.file
        /\ r.todo = p.todo /\ r.held = p.held
    BY <1>1, <2>1 DEF RunOf, Fields
  <2>4. RunOf(r)
    BY <1>1, <1>3, <2>3 DEF RunOf
  <2>5. InHand(r)
    BY <1>1, <2>3 DEF InHand
  <2>6. NotBooked(r)'
    BY <2>3 DEF NotBooked
  <2>7. queue' \in Seq(PageFile) /\ \A x : InQueue(x) => InQueue(x)'
    BY <1>1, <2>2 DEF InQueue
  <2> QED BY <1>2, <1>4, <1>5, <1>6, <1>7, <2>2, <2>4, <2>5, <2>6, <2>7, RunMoves
<1>9. CASE p.file.number = 0
  <2>1. PICK r : r = [p EXCEPT !.stage = "next", !.todo = Tail(@), !.file = <<>>, !.unique = {}]
    OBVIOUS
  <2>2. Becomes(p, r) /\ queue' = Marked(p.file.id, "done")
    BY <1>9, <2>1 DEF CreateBulk
  <2>3. DOMAIN r = Fields /\ r = [k \in Fields |-> r[k]] /\ r.stage = "next" /\ r.todo = Tail(p.todo) /\ r.held = p.held
    BY <1>1, <2>1 DEF RunOf, Fields
  <2>4. RunOf(r) /\ InHand(r) /\ NotBooked(r)'
    BY <1>1, <1>3, <2>3, Turned
  <2>5. queue' \in Seq(PageFile) /\ \A x : InQueue(x) => InQueue(x)'
    BY <1>1, <2>2, MarkedMoves DEF Statuses
  <2> QED BY <1>2, <1>4, <1>5, <1>6, <1>7, <2>2, <2>4, <2>5, RunMoves
<1> QED BY <1>8, <1>9

LEMMA FinishSafe ==
  ASSUME ImportInv, NEW p \in pressed, FinishRun(p)
  PROVE  ImportInv'
<1> DEFINE last == IF queue = <<>> THEN view.last ELSE queue[Len(queue)].cats
           v == [view EXCEPT !.finished = TRUE, !.chosen = FALSE, !.last = last]
<1>1. view.last \in BOOLEAN /\ DOMAIN view = {"step", "chosen", "finished", "last"}
  BY DEF ImportInv, ImportShape
<1>2. last \in BOOLEAN
  BY <1>1, LastCats
<1>3. /\ pressed' = pressed \ {p} /\ view' = SyncStep(queue, active, v, TRUE)
      /\ UNCHANGED <<queue, active, drops, bookedRows, numbers, counts>>
  BY <1>1 DEF FinishRun
<1> HIDE DEF last
<1>4. DOMAIN v = {"step", "chosen", "finished", "last"} /\ v.last = last
  BY <1>1
<1> HIDE DEF v
<1>5. view'.last \in BOOLEAN /\ DOMAIN view' = {"step", "chosen", "finished", "last"}
  <2>1. DOMAIN SyncStep(queue, active, v, TRUE) = DOMAIN v /\ SyncStep(queue, active, v, TRUE).last = v.last
    BY <1>4 DEF SyncStep
  <2> QED BY <1>2, <1>3, <1>4, <2>1
<1>6. ImportShape' /\ NoRowTwice' /\ OneRun'
  BY <1>3, <1>5 DEF ImportInv, ImportShape, NoRowTwice, OneRun
<1>7. ASSUME NEW r \in pressed' PROVE RunOf(r)' /\ InHand(r)' /\ NotBooked(r)'
  <2>1. RunOf(r) /\ InHand(r) /\ NotBooked(r)
    BY <1>3 DEF ImportInv, RunsSound
  <2>2. InHand(r)'
    BY <1>3, <2>1 DEF InHand, InQueue
  <2>3. NotBooked(r)'
    BY <1>3, <2>1 DEF NotBooked
  <2> QED BY <2>1, <2>2, <2>3 DEF RunOf
<1> QED BY <1>6, <1>7 DEF ImportInv, RunsSound

LEMMA ImportInitial == ImportInit => ImportInv
<1> SUFFICES ASSUME ImportInit PROVE ImportInv
  OBVIOUS
<1>1. /\ queue = <<>> /\ drops = {} /\ pressed = {} /\ bookedRows = <<>> /\ numbers = <<>>
      /\ view = [step |-> FORMAT, chosen |-> FALSE, finished |-> FALSE, last |-> FALSE]
      /\ counts = [dropped |-> 0, edits |-> 0, loose |-> FALSE]
  BY DEF ImportInit
<1>2. ImportShape
  BY <1>1 DEF ImportShape
<1> QED BY <1>1, <1>2 DEF ImportInv, RunsSound, OneRun, NoRowTwice

\* Every event of the page keeps what the run in hand relies on.
THEOREM ImportStep == ImportInv /\ [ImportNext]_importVars => ImportInv'
<1> SUFFICES ASSUME ImportInv, [ImportNext]_importVars PROVE ImportInv'
  OBVIOUS
<1>1. CASE UNCHANGED importVars
  <2>1. UNCHANGED <<queue, drops, view, pressed, bookedRows, numbers, counts>>
    BY <1>1 DEF importVars
  <2>2. queue' \in Seq(PageFile) /\ \A id : InQueue(id) => InQueue(id)'
    BY <2>1 DEF ImportInv, ImportShape, InQueue
  <2>3. /\ counts'.loose = counts.loose /\ counts'.dropped \in Nat /\ DOMAIN counts' = DOMAIN counts
        /\ view'.last \in BOOLEAN /\ DOMAIN view' = DOMAIN view
        /\ \A d \in drops' : d.id \in Nat /\ d.name \in DOMAIN Files
    BY <2>1 DEF ImportInv, ImportShape
  <2> QED BY <2>1, <2>2, <2>3, QueueMoves
<1>2. CASE (\E s \in 1..6 : Walk(s)) \/ (\E id \in 1..MaxDrops : SetActive(id))
  BY <1>2, WalkSafe
<1>3. CASE \E name \in DOMAIN Files : DropFile(name)
  BY <1>3, DropSafe
<1>4. CASE \E d \in drops : UploadParsed(d) \/ UploadMatched(d)
  BY <1>4, ParsedSafe, MatchedSafe
<1>5. CASE Reparse \/ \E acct \in ImportAccounts, skip \in BOOLEAN : ChangeSettings(acct, TRUE, skip)
  BY <1>5, SettingsSafe
<1>6. CASE StartNewImport
  BY <1>6, NewImportSafe
<1>7. CASE DoImportAll
  BY <1>7, StartSafe
<1>8. CASE \E id \in 1..MaxDrops : RemoveFile(id)
  BY <1>8, RemoveSafe
<1>9. CASE \E p \in pressed : ImportOne(p) \/ FilterDuplicates(p) \/ CreateBulk(p)
  BY <1>9, ImportOneSafe, FilterSafe, CreateSafe
<1>10. CASE \E p \in pressed : SaveNumber(p) \/ PersistFails(p) \/ FinishRun(p)
  BY <1>10, FinishFileSafe, FinishSafe
<1> QED BY <1>1, <1>2, <1>3, <1>4, <1>5, <1>6, <1>7, <1>8, <1>9, <1>10 DEF ImportNext

\* With "skip duplicates" on, an account never holds a row more often than one file says it
\* happened, however often a file is dropped, parsed again or its import pressed.
THEOREM ImportsBookOnce == ImportSpec => []NoRowTwice
<1>1. ImportInv => NoRowTwice
  BY DEF ImportInv
<1> QED BY <1>1, ImportInitial, ImportStep, PTL DEF ImportSpec
=============================================================================
