--------------------------------- MODULE Panels ---------------------------------
(***************************************************************************)
(* The panels that load what they show: the ledger table, the reports, the *)
(* plan grid, the calendar...  A change of a control, or a save, asks for  *)
(* a load; the load waits for a database session, reads, and draws when it *)
(* wakes up.  Several loads may be under way, and land in any order.       *)
(*                                                                         *)
(* What differs is stated per panel:                                       *)
(*   draws   "append": an async ui.refreshable; asking empties its place,  *)
(*           and every load adds what it built                             *)
(*           "guarded": the same, but a load that is no longer the newest  *)
(*           builds nothing                                                *)
(*           "replace": the place is emptied when the load has landed      *)
(*           "local": nothing is loaded, the panel is drawn at once        *)
(*   reads   "start": the controls are read when the load is asked for,    *)
(*           "late": once the session is there                             *)
(*   review  for panels whose figures are written to the budget after a    *)
(*           dialog showed what would change: the plan that is "held" from *)
(*           the review, or the "current" one; "none" elsewhere            *)
(***************************************************************************)
EXTENDS Naturals, Sequences, FiniteSets, SequencesExt

CONSTANTS MaxAsks,     \* bound: loads asked for
          MaxPage      \* bound: the controls' values 0..MaxPage; a page number in the ledger
ASSUME PanelBounds == MaxAsks \in Nat \ {0} /\ MaxPage \in Nat \ {0}

VARIABLES panel,    \* which panel the tab shows
          wanted,   \* the controls
          rev,      \* how often this tab has written; the panel shows what is stored
          pages,    \* pages the ledger has
          due,      \* saves committed, whose handlers have yet to ask for the panel again
          asked,    \* loads asked for; the newest one's token
          loads,    \* loads under way
          screen,   \* what is on screen: a sequence of builds
          plan,     \* the figures the last load that landed left behind (-1: none)
          dialog,   \* the review dialog: [open, shown, held]
          history   \* [disturbed: loads overlapped or failed, unseen: applied unreviewed]

panelVars == <<panel, wanted, rev, pages, due, asked, loads, screen, plan, dialog, history>>

Panel(draws, reads, review) == [draws |-> draws, reads |-> reads, review |-> review]

\* Mutant of LedgerTable: a render that is out of date still paints.
LedgerTable_Unguarded == Panel("append", "late", "none")

LedgerTable == Panel("guarded", "late", "none")
BudgetVariance == Panel("replace", "late", "none")
CashFlow == BudgetVariance
IncomeStatement == BudgetVariance
LargestTransactions == BudgetVariance
SavingsRate == BudgetVariance
SpendingByCategory == BudgetVariance
TopMerchants == BudgetVariance
Yoy == BudgetVariance
YtdSummary == BudgetVariance
\* The period is read before the first await, the depth with the session.
MoneyFlow == Panel("replace", "start", "none")
ReportBuilder == Panel("replace", "start", "none")
PaymentCalendar == Panel("replace", "start", "none")
Salary == Panel("replace", "late", "none")
Scenarios == Panel("replace", "late", "none")
BudgetOverview == Panel("append", "start", "none")
Realization == Panel("append", "start", "none")
BudgetEdit == Panel("append", "late", "none")
PlanGrid == Panel("append", "late", "none")
Commitments == Panel("append", "late", "none")
AuditHistory == Panel("append", "late", "none")
RatesTable == Panel("append", "late", "none")
ExampleButtons == Panel("append", "late", "none")
AnnualCarry == Panel("append", "late", "current")

BudgetBuilder == Panel("local", "start", "held")

PanelsOf ==
    [ledger |-> LedgerTable, variance |-> BudgetVariance, cash_flow |-> CashFlow,
     income |-> IncomeStatement, largest |-> LargestTransactions, savings |-> SavingsRate,
     spending |-> SpendingByCategory, merchants |-> TopMerchants, yoy |-> Yoy,
     ytd |-> YtdSummary, money_flow |-> MoneyFlow, builder |-> ReportBuilder,
     calendar |-> PaymentCalendar, salary |-> Salary, scenarios |-> Scenarios,
     overview |-> BudgetOverview, realization |-> Realization, budget_edit |-> BudgetEdit,
     plan_grid |-> PlanGrid, commitments |-> Commitments, history |-> AuditHistory,
     rates |-> RatesTable, example |-> ExampleButtons, carry |-> AnnualCarry,
     budget_builder |-> BudgetBuilder]

Me == PanelsOf[panel]
NoDialog == [open |-> FALSE, shown |-> 0, held |-> 0]
Build(c, r) == [ctl |-> c, rev |-> r]

PanelInit ==
    /\ panel \in DOMAIN PanelsOf
    /\ wanted = 0 /\ rev = 0 /\ asked = 0 /\ loads = {}
    /\ pages = MaxPage + 1 /\ due = 0
    /\ screen = <<Build(0, 0)>>
    /\ plan = 0
    /\ dialog = NoDialog
    /\ history = [disturbed |-> FALSE, unseen |-> FALSE]

-----------------------------------------------------------------------------
\* refreshable.refresh(), or a timer that runs _load: the load is on its way.  The
\* library empties the place of an async refreshable at once.
Ask(c, r) ==
    IF Me.draws = "local"
    THEN /\ screen' = <<Build(c, r)>> /\ plan' = c
         /\ UNCHANGED <<asked, loads>>
    ELSE /\ asked < MaxAsks
         /\ asked' = asked + 1
         /\ loads' = loads \cup {[n |-> asked + 1, ctl |-> c, rev |-> 0, total |-> 0, stage |-> "asked"]}
         /\ screen' = IF Me.draws = "replace" THEN screen ELSE <<>>
         /\ plan' = plan

\* A filter, a page, a period, a percentage.  The review dialog covers the page.
Change(c) ==
    /\ ~ dialog.open /\ c # wanted
    /\ wanted' = c
    /\ Ask(c, rev)
    /\ history' = [history EXCEPT !.disturbed = @ \/ loads # {}]
    /\ UNCHANGED <<panel, rev, pages, due, dialog>>

\* A save of this tab commits; a delete may leave the ledger with fewer pages.
Save(n) ==
    /\ ~ dialog.open /\ n \in 1..pages
    /\ panel # "ledger" => n = pages
    /\ rev' = rev + 1 /\ rev < MaxAsks
    /\ pages' = n
    /\ due' = due + 1
    /\ UNCHANGED <<panel, wanted, asked, loads, screen, plan, dialog, history>>

\* Its handler, woken up, and in the ledger back from asking the browser where it had
\* scrolled to, asks for the panel again: where the controls stand by now, or on the
\* ledger's first page when rows were added or deleted.
SaveShown(c) ==
    /\ due > 0 /\ due' = due - 1
    /\ c = wanted \/ (panel = "ledger" /\ c = 0)
    /\ wanted' = c
    /\ Ask(c, rev)
    /\ history' = [history EXCEPT !.disturbed = @ \/ loads # {}]
    /\ UNCHANGED <<panel, rev, pages, dialog>>

\* The session is there: the query sees what is stored by now.
ReadRows(l) ==
    /\ l \in loads /\ l.stage = "asked"
    /\ loads' = (loads \ {l}) \cup
         {[l EXCEPT !.stage = "read", !.rev = rev, !.total = pages,
                    !.ctl = IF Me.reads = "late" THEN wanted ELSE @]}
    /\ UNCHANGED <<panel, wanted, rev, pages, due, asked, screen, plan, dialog, history>>

\* The load wakes up and draws.  The ledger goes back to its last page, and asks once
\* more, when the page it was on has gone (page.py:338-345).
Land(l) ==
    /\ l \in loads /\ l.stage = "read"
    /\ IF Me.draws = "guarded" /\ l.n # asked
       THEN loads' = loads \ {l} /\ UNCHANGED <<screen, plan, wanted, asked>>
       ELSE IF panel = "ledger" /\ l.ctl >= l.total
       THEN /\ asked < MaxAsks
            /\ asked' = asked + 1
            /\ wanted' = l.total - 1
            /\ loads' = (loads \ {l}) \cup
                 {[n |-> asked + 1, ctl |-> l.total - 1, rev |-> 0, total |-> 0, stage |-> "asked"]}
            /\ screen' = <<>> /\ plan' = plan
       ELSE /\ loads' = loads \ {l}
            /\ screen' = IF Me.draws = "replace" THEN <<Build(l.ctl, l.rev)>>
                         ELSE Append(screen, Build(l.ctl, l.rev))
            /\ plan' = l.ctl
            /\ UNCHANGED <<wanted, asked>>
    /\ UNCHANGED <<panel, rev, pages, due, dialog, history>>

\* The database refuses: the coroutine dies and draws nothing.
LoadFails(l) ==
    /\ l \in loads
    /\ loads' = loads \ {l}
    /\ history' = [history EXCEPT !.disturbed = TRUE]
    /\ UNCHANGED <<panel, wanted, rev, pages, due, asked, screen, plan, dialog>>

\* What would change is computed for the plan as it is, and shown; the load of another
\* plan may land while the dialog is up.
Review(p) ==
    /\ Me.review # "none" /\ ~ dialog.open /\ plan = p
    /\ dialog' = [open |-> TRUE, shown |-> p, held |-> p]
    /\ UNCHANGED <<panel, wanted, rev, pages, due, asked, loads, screen, plan, history>>

\* The plan is written to the budget; the carry panel then loads again.
Apply ==
    /\ dialog.open
    /\ LET p == IF Me.review = "held" THEN dialog.held ELSE plan
       IN  history' = [disturbed |-> history.disturbed \/ loads # {},
                       unseen |-> history.unseen \/ p # dialog.shown]
    /\ dialog' = NoDialog
    /\ IF Me.review = "current" THEN Ask(wanted, rev) ELSE UNCHANGED <<asked, loads, screen, plan>>
    /\ UNCHANGED <<panel, wanted, rev, pages, due>>

Cancel ==
    /\ dialog.open
    /\ dialog' = NoDialog
    /\ UNCHANGED <<panel, wanted, rev, pages, due, asked, loads, screen, plan, history>>

PanelNext ==
    \/ \E c \in 0..MaxPage : Change(c) \/ SaveShown(c) \/ Review(c)
    \/ \E n \in 1..(MaxPage + 1) : Save(n)
    \/ \E l \in loads : ReadRows(l) \/ Land(l) \/ LoadFails(l)
    \/ Apply \/ Cancel

-----------------------------------------------------------------------------
PanelTypeOK ==
    /\ panel \in DOMAIN PanelsOf /\ wanted \in 0..MaxPage /\ pages \in 1..(MaxPage + 1)
    /\ asked \in 0..MaxAsks /\ due \in 0..rev
    /\ \A l \in loads : l.n \in 1..asked /\ l.ctl \in 0..MaxPage
    /\ screen \in Seq([ctl : 0..MaxPage, rev : 0..MaxAsks])
    /\ plan \in 0..MaxPage

\* The newest render paints, alone, and what it paints answers the controls as they
\* stand and what this tab has written, once its handlers have asked for it, however many
\* keystrokes and saves are under way and in whichever order they land ("a render whose token is stale by the time its query
\* returns is a loser that must not paint", transactions/page.py:140).
NewestPaintsAlone ==
    panel = "ledger" =>
        /\ Len(screen) <= 1
        /\ (loads = {} /\ due = 0 /\ Len(screen) = 1) => screen[1] = Build(wanted, rev)

\* The ledger never comes to rest on a page that is not there, though the rows of its
\* page are deleted while it loads.
OnAPage ==
    (panel = "ledger" /\ Len(screen) = 1 /\ loads = {} /\ due = 0) => screen[1].ctl < pages

\* A budget is only changed the way the review dialog said, in the budget builder; the
\* annual review applies the plan of the load that landed last (annual_review.py:235).
ReviewedIsApplied == panel = "budget_builder" => ~ history.unseen

\* With the annual review, for which it does not hold.
EveryApplyReviewed == ~ history.unseen

\* As long as one load has landed before the next is asked for, every panel shows one
\* build, and it answers the controls and the last save.
InTurnAllAgree ==
    (loads = {} /\ due = 0 /\ ~ history.disturbed) => screen = <<Build(wanted, rev)>>

PanelSpec == PanelInit /\ [][PanelNext]_panelVars

-----------------------------------------------------------------------------
(***************************************************************************)
(* The forecast page (views/forecast.py): a forecast is a slow run, asked  *)
(* for on load, by the Re-run button or, where the slow forecaster is not  *)
(* installed, by every change of the account or the horizon after a delay. *)
(* One run is out at a time; what is asked meanwhile is remembered.  The   *)
(* preset and the scenarios only redraw the run in hand.                   *)
(***************************************************************************)
CONSTANTS Selections,    \* what the account and horizon controls can say
          MaxSelects,    \* bound: changes of those controls
          MaxShifts,     \* bound: changes of the scenarios or the preset
          MaxRuns        \* bound: runs started
ASSUME ForecastBounds ==
    /\ {MaxSelects, MaxShifts, MaxRuns} \subseteq Nat
    /\ {"none", "insufficient"} \cap Selections = {}   \* the answers without points

VARIABLES prophet,     \* is the slow forecaster installed
          live,        \* is anyone still looking at the page
          sel,         \* the controls
          selects,
          shifts,      \* the version of the scenarios and the preset
          run,         \* _RunState: what is out, what was asked, what came back
          out,         \* the coroutines inside _run_once
          runs,
          token,       \* the newest delay
          timers,      \* delays that have not fired
          chart,       \* what is drawn
          label        \* the status line: its text, or the hint that it is stale

forecastVars == <<prophet, live, sel, selects, shifts, run, out, runs, token, timers, chart, label>>

None == [of |-> "none", shift |-> 0]
Asked == Selections \cup {"nothing"}
Texts == {"", "running", "drawn", "failed", "insufficient"}

ForecastInit ==
    /\ prophet \in BOOLEAN /\ live = TRUE
    /\ sel \in Selections /\ selects = 0 /\ shifts = 0
    /\ run = [running |-> FALSE, pending |-> FALSE, asked |-> "nothing", raw |-> "none", status |-> ""]
    /\ out = 0 /\ runs = 0
    /\ token = 0 /\ timers = {0}          \* token 0 is the delay of the first run
    /\ chart = None /\ label = ""

-----------------------------------------------------------------------------
ControlsMatch(r, s) == r.asked = s

\* stale_action and _sync_stale: leave the line, clear the mark or set it
SyncStale(r, s, text) ==
    IF ~ prophet \/ r.running THEN text
    ELSE IF ControlsMatch(r, s) THEN r.status ELSE "stale"

\* Mutant of Begin: the previous chart is left standing.
Begin_KeepsChart(r) ==
    /\ runs < MaxRuns
    /\ runs' = runs + 1
    /\ out' = 1
    /\ run' = [r EXCEPT !.running = TRUE, !.pending = FALSE, !.asked = sel]
    /\ label' = "running" /\ chart' = chart

\* One turn of run_forecast's loop up to its await: the skeleton is drawn and the
\* selection noted
Begin(r) ==
    /\ runs < MaxRuns
    /\ runs' = runs + 1
    /\ out' = 1
    /\ run' = [r EXCEPT !.running = TRUE, !.pending = FALSE, !.asked = sel]
    /\ chart' = None /\ label' = "running"

RunForecast ==
    IF run.running
    THEN run' = [run EXCEPT !.pending = TRUE] /\ UNCHANGED <<out, runs, chart, label>>
    ELSE Begin(run)

\* A delay fires: only the newest starts a run
Fire(k) ==
    /\ k \in timers
    /\ timers' = timers \ {k}
    /\ IF live /\ (k = 0 \/ k = token) THEN RunForecast ELSE UNCHANGED <<run, out, runs, chart, label>>
    /\ UNCHANGED <<prophet, live, sel, selects, shifts, token>>

\* _on_rerun_clicked
Rerun ==
    /\ live
    /\ ~ (run.running /\ ControlsMatch(run, sel))
    /\ RunForecast
    /\ UNCHANGED <<prophet, live, sel, selects, shifts, token, timers>>

\* _on_controls_changed
Select(s) ==
    /\ live /\ s # sel /\ selects < MaxSelects
    /\ sel' = s /\ selects' = selects + 1
    /\ IF prophet
       THEN label' = SyncStale(run, s, label) /\ UNCHANGED <<token, timers>>
       ELSE token' = token + 1 /\ timers' = timers \cup {token + 1} /\ label' = label
    /\ UNCHANGED <<prophet, live, shifts, run, out, runs, chart>>

Drawable(r) == r.raw \in Selections

\* _redraw_from_last_run, and what it leaves on the line
Redrawn(r) == IF Drawable(r) THEN [of |-> r.raw, shift |-> shifts] ELSE chart

\* _on_scenarios_changed, _on_preset_changed: nothing while a run is out, it will
\* read them when it draws
Shift ==
    /\ live /\ shifts < MaxShifts
    /\ shifts' = shifts + 1
    /\ IF run.running \/ ~ Drawable(run)
       THEN UNCHANGED <<run, chart, label>>
       ELSE /\ chart' = [of |-> run.raw, shift |-> shifts + 1]
            /\ run' = [run EXCEPT !.status = "drawn"]
            /\ label' = SyncStale(run', sel, "drawn")
    /\ UNCHANGED <<prophet, live, sel, selects, out, runs, token, timers>>

\* The forecaster answers: points, too little history, or an error the service knows
Answer(what) ==
    /\ out = 1
    /\ LET raw == IF what = "points" THEN run.asked ELSE IF what = "failed" THEN "none" ELSE "insufficient"
           said == IF what = "points" THEN "drawn" ELSE what
           r == [run EXCEPT !.raw = raw, !.status = IF live THEN said ELSE @]
       IN  IF run.pending /\ live
           THEN Begin(r) /\ UNCHANGED <<token, timers>>
           ELSE /\ run' = [r EXCEPT !.running = FALSE, !.pending = FALSE]
                /\ out' = 0 /\ runs' = runs
                /\ chart' = IF live THEN Redrawn(r) ELSE chart
                /\ label' = IF live THEN SyncStale(run', sel, said) ELSE label
                /\ UNCHANGED <<token, timers>>
    /\ UNCHANGED <<prophet, live, sel, selects, shifts>>

\* Anything else raised out of the run leaves the loop; a request that arrived
\* meanwhile gets a new delay
Crash ==
    /\ out = 1
    /\ LET r == [run EXCEPT !.raw = "none", !.running = FALSE, !.status = IF live THEN "failed" ELSE @]
       IN  /\ run' = r /\ out' = 0
           /\ label' = IF live THEN SyncStale(r, sel, "failed") ELSE label
           /\ IF live /\ r.pending
              THEN token' = token + 1 /\ timers' = timers \cup {token + 1}
              ELSE UNCHANGED <<token, timers>>
    /\ UNCHANGED <<prophet, live, sel, selects, shifts, runs, chart>>

Gone ==
    /\ live /\ live' = FALSE
    /\ UNCHANGED <<prophet, sel, selects, shifts, run, out, runs, token, timers, chart, label>>

ForecastNext ==
    \/ \E k \in timers : Fire(k)
    \/ \E s \in Selections : Select(s)
    \/ \E w \in {"points", "insufficient", "failed"} : Answer(w)
    \/ Rerun \/ Shift \/ Crash \/ Gone

ForecastSpec == ForecastInit /\ [][ForecastNext]_forecastVars

-----------------------------------------------------------------------------
ForecastTypeOK ==
    /\ prophet \in BOOLEAN /\ live \in BOOLEAN /\ sel \in Selections
    /\ run \in [running : BOOLEAN, pending : BOOLEAN, asked : Asked, status : Texts,
                raw : Selections \cup {"none", "insufficient"}]
    /\ out \in 0..1 /\ timers \subseteq 0..token
    /\ label \in Texts \cup {"stale"}

Quiet == live /\ ~ run.running /\ {0, token} \cap timers = {}

\* When nothing is under way any more, the page answers the controls as they stand: the
\* run on screen was asked for them, or, where a run has to be asked for, the line says
\* that it was not; whether the runs failed, and whatever was pressed while they were out
\* (run_forecast: "the chart ends up answering the controls as they now stand";
\* _sync_stale: "nor ... keep a mark that is no longer true").
QuietAnswers ==
    Quiet => IF prophet
             THEN (label = "stale") <=> ~ ControlsMatch(run, sel)
             ELSE ControlsMatch(run, sel)

\* The previous account is never painted over the skeleton of a run that is out, and a
\* chart shows the run in hand with the scenarios of now.
ChartIsOfTheRun ==
    /\ run.running => chart = None
    /\ (live /\ chart # None) => chart.of = run.asked /\ chart.shift = shifts

-----------------------------------------------------------------------------
(***************************************************************************)
(* The dashboard's layout (views/dashboard.py, dashboard_widgets/layout.py *)
(* and registry.py): which widgets are shown, in which order and size.  It *)
(* is kept per user; a tab reads it when it is loaded, a drag or a resize  *)
(* posts the tab's whole arrangement, and the Customize dialog saves which *)
(* widgets are ticked.  Releases before kept a list of names only, or      *)
(* widgets that have since been merged into one card.                      *)
(*                                                                         *)
(* The widgets are abstracted to five: two of the default ones, the card   *)
(* of the latest rows, an extra one, and an old one that was merged into   *)
(* the first.  "gone" is a name no widget has any more.  Size 9 is a size  *)
(* no widget allows.                                                       *)
(***************************************************************************)

CONSTANTS DashTabs,      \* the user's tabs
          MaxMoves,      \* bound: drags, resizes and ticks
          MaxDialogs     \* bound: dialogs opened
ASSUME DashBounds == MaxMoves \in Nat /\ MaxDialogs \in Nat

VARIABLES stored,     \* storage.user["dashboard_layout"]
          names,      \* storage.user["dashboard_widgets"], the names of an older release
          dash,       \* per tab: the layout it was loaded with, what it shows, its ticks
          posts,      \* arrangements on their way to the server
          moves, dialogs

dashVars == <<stored, names, dash, posts, moves, dialogs>>

\* DEFAULT_WIDGETS, WIDGETS, MERGED_KPI_FOR_LEGACY, HERO_WIDGET, BAND_OF
Defaults == <<"card", "flow">>
Widgets == {"card", "flow", "latest", "extra", "old"}
Legacy == {"old"}
MergedInto == "card"
Hero == "extra"
Selectable == <<"card", "flow", "latest", "extra">>
DefaultSize == 1
AllowedSizes == <<1, 2>>

Entry(w, s) == [id |-> w, size |-> s]
Ids(l) == {l[k].id : k \in DOMAIN l}

DefaultLayout == [k \in DOMAIN Defaults |-> Entry(Defaults[k], DefaultSize)]

Fitted(e) == IF e.size \in ToSet(AllowedSizes) THEN e ELSE Entry(e.id, DefaultSize)

\* The loop of _validate_layout and resolve_user_layout: known names, once each, in a
\* size the widget allows
Cleaned(l) ==
    FoldLeft(LAMBDA acc, e : IF e.id \in Widgets /\ e.id \notin Ids(acc) THEN Append(acc, Fitted(e)) ELSE acc,
             <<>>, l)

\* migrate_legacy_kpis: the old widgets go, the card they were merged into comes once
MigrateLegacy(l) ==
    FoldLeft(LAMBDA acc, e :
                IF e.id \notin Legacy THEN Append(acc, e)
                ELSE IF MergedInto \in (Ids(l) \cup Ids(acc)) THEN acc
                ELSE Append(acc, Entry(MergedInto, DefaultSize)),
             <<>>, l)

\* resolve_user_layout
ResolveUserLayout(s, n) ==
    IF Cleaned(s) # <<>> THEN MigrateLegacy(Cleaned(s))
    ELSE LET fromNames == Cleaned([k \in DOMAIN n |-> Entry(n[k], DefaultSize)])
         IN  IF fromNames # <<>> THEN MigrateLegacy(fromNames) ELSE DefaultLayout

\* _validate_layout: an arrangement of nothing leaves what is stored
ValidateLayout(l, s) == IF Cleaned(l) = <<>> THEN s ELSE Cleaned(l)

-----------------------------------------------------------------------------
Shown(l) == [layout |-> l, dom |-> l, dialog |-> FALSE, ticked |-> {}]

OldLayouts ==
    {<<>>,
     <<Entry("old", 1), Entry("flow", 9), Entry("gone", 1), Entry("flow", 2)>>,
     <<Entry("old", 1), Entry("latest", 2), Entry("old", 2), Entry("card", 2)>>,
     <<Entry("gone", 1)>>}
OldNames == {<<>>, <<"old", "extra", "old">>, <<"gone">>}

DashInit ==
    /\ stored \in OldLayouts /\ names \in OldNames
    /\ dash = [t \in DashTabs |-> Shown(ResolveUserLayout(stored, names))]
    /\ posts = {} /\ moves = 0 /\ dialogs = 0

\* The page is loaded again
LoadDash(t) ==
    /\ dash[t].layout # ResolveUserLayout(stored, names)
    /\ dash' = [dash EXCEPT ![t] = Shown(ResolveUserLayout(stored, names))]
    /\ UNCHANGED <<stored, names, posts, moves, dialogs>>

\* What the browser shows after the k-th widget was dragged to the front, or resized;
\* it posts all of it
Arrange(t, dom) ==
    /\ moves < MaxMoves /\ ~ dash[t].dialog /\ dom # dash[t].dom
    /\ moves' = moves + 1
    /\ dash' = [dash EXCEPT ![t].dom = dom]
    /\ posts' = posts \cup {[n |-> moves + 1, from |-> t, entries |-> dom]}
    /\ UNCHANGED <<stored, names, dialogs>>

Drag(t, k) ==
    /\ k \in DOMAIN dash[t].dom
    /\ Arrange(t, <<dash[t].dom[k]>> \o RemoveAt(dash[t].dom, k))

\* __kaletaCycleDashSize: the next size the widget allows
Resize(t, k) ==
    /\ k \in DOMAIN dash[t].dom
    /\ LET s == dash[t].dom[k].size
           i == CHOOSE j \in DOMAIN AllowedSizes : AllowedSizes[j] = s
       IN  Arrange(t, [dash[t].dom EXCEPT ![k].size = AllowedSizes[(i % Len(AllowedSizes)) + 1]])

\* _save_layout
SaveLayout(p) ==
    /\ p \in posts
    /\ posts' = posts \ {p}
    /\ stored' = ValidateLayout(p.entries, ResolveUserLayout(stored, names))
    /\ UNCHANGED <<names, dash, moves, dialogs>>

\* A post that fails is only logged in the browser
LosePost(p) ==
    /\ p \in posts
    /\ posts' = posts \ {p}
    /\ UNCHANGED <<stored, names, dash, moves, dialogs>>

-----------------------------------------------------------------------------
(* The Customize dialog; it works from the layout the page was loaded with *)

OpenCustomize(t) ==
    /\ ~ dash[t].dialog /\ dialogs < MaxDialogs
    /\ dialogs' = dialogs + 1
    /\ dash' = [dash EXCEPT ![t].dialog = TRUE, ![t].ticked = Ids(dash[t].layout)]
    /\ UNCHANGED <<stored, names, posts, moves>>

Tick(t, w) ==
    /\ dash[t].dialog /\ moves < MaxMoves
    /\ moves' = moves + 1
    /\ dash' = [dash EXCEPT ![t].ticked = IF w \in @ THEN @ \ {w} ELSE @ \cup {w}]
    /\ UNCHANGED <<stored, names, posts, dialogs>>

Working(t) ==
    [k \in DOMAIN dash[t].layout |-> dash[t].layout[k].id]
        \o SelectSeq(Selectable, LAMBDA w : w \notin Ids(dash[t].layout))
Ticked(t) == SelectSeq(Working(t), LAMBDA w : w \in dash[t].ticked)

Keep(t, l) ==
    /\ dash[t].dialog /\ l # <<>>
    /\ stored' = l
    /\ dash' = [dash EXCEPT ![t] = Shown(ResolveUserLayout(l, names))]
    /\ UNCHANGED <<posts, moves, dialogs>>

\* _save: the rows the page was loaded with, and the new ones in their default size
SaveCustomize(t) ==
    LET row(w) == IF w \in Ids(dash[t].layout)
                  THEN CHOOSE e \in ToSet(dash[t].layout) : e.id = w
                  ELSE Entry(w, DefaultSize)
    IN  Keep(t, [k \in DOMAIN Ticked(t) |-> row(Ticked(t)[k])]) /\ names' = names

\* _reset_layout_keep_enabled: the ticked widgets, defaults first, in default sizes
ResetLayout(t) ==
    LET canon == SelectSeq(Defaults, LAMBDA w : w \in dash[t].ticked)
        rest == SelectSeq(Ticked(t), LAMBDA w : w \notin ToSet(Defaults))
        all == canon \o rest
    IN  Keep(t, [k \in DOMAIN all |-> Entry(all[k], DefaultSize)]) /\ names' = <<>>

ResetWidgets(t) == Keep(t, DefaultLayout) /\ names' = <<>>

CloseCustomize(t) ==
    /\ dash[t].dialog
    /\ dash' = [dash EXCEPT ![t].dialog = FALSE]
    /\ UNCHANGED <<stored, names, posts, moves, dialogs>>

DashNext ==
    \/ \E t \in DashTabs : \/ LoadDash(t) \/ OpenCustomize(t) \/ SaveCustomize(t)
                           \/ ResetLayout(t) \/ ResetWidgets(t) \/ CloseCustomize(t)
                           \/ \E k \in 1..Cardinality(Widgets) : Drag(t, k) \/ Resize(t, k)
                           \/ \E w \in ToSet(Selectable) : Tick(t, w)
    \/ \E p \in posts : SaveLayout(p) \/ LosePost(p)

DashSpec == DashInit /\ [][DashNext]_dashVars

-----------------------------------------------------------------------------
(* The phone's bands *)

MobileLayout(l) == IF Hero \in Ids(l) THEN l ELSE <<Entry(Hero, DefaultSize)>> \o l
BandOf(w) == CASE w = Hero -> "now" [] w = "latest" -> "latest" [] OTHER -> "month"
Bands(l) == [b \in {"now", "month", "watch", "latest"} |->
                SelectSeq(MobileLayout(l), LAMBDA e : e.id \notin Legacy /\ BandOf(e.id) = b)]

DashTypeOK ==
    /\ \A k \in DOMAIN stored : stored[k].id \in Widgets \cup {"gone"} /\ stored[k].size \in {1, 2, 9}
    /\ \A t \in DashTabs : Ids(dash[t].dom) \subseteq Widgets /\ dash[t].ticked \subseteq Widgets
    /\ moves \in 0..MaxMoves /\ dialogs \in 0..MaxDialogs

\* Whatever an older release left behind and whoever saved last, a dashboard shows every
\* widget at most once, none that was merged away, each in a size it allows, and at least
\* one; the phone shows the same widgets, each in one band.
EveryWidgetOnce ==
    \A t \in DashTabs :
        LET l == dash[t].layout IN
        /\ l # <<>> /\ Cardinality(Ids(l)) = Len(l)
        /\ Ids(l) \cap Legacy = {}
        /\ \A k \in DOMAIN l : l[k].size \in ToSet(AllowedSizes)
        /\ \A w \in Ids(l) : Cardinality({b \in DOMAIN Bands(l) : w \in Ids(Bands(l)[b])}) = 1

\* What a drag or a resize stores is what the next page shows: no widget is lost on the
\* way in ("Dropping the row instead is how a widget disappears from a dashboard for no
\* reason its owner can see", _validate_layout).
ArrangedIsShown ==
    [][\A p \in posts : (posts' = posts \ {p} /\ stored' # stored)
            => ResolveUserLayout(stored', names') = p.entries]_dashVars

\* Resetting the layout switches no widget on or off ("Nothing is enabled or disabled
\* here", _reset_layout_keep_enabled).
ResetKeepsTicks ==
    [][\A t \in DashTabs : ResetLayout(t) => Ids(stored') = dash[t].ticked]_dashVars

\* "Reordering and resizing happen via Edit mode on the dashboard itself; this dialog only
\* manages which widgets are shown" (_open_customize_dialog): a save in the dialog keeps
\* the order and the sizes of the widgets that stay, as they are stored.
DialogOnlyTicks ==
    [][\A t \in DashTabs : SaveCustomize(t) =>
          LET before == ResolveUserLayout(stored, names)
              stay(l) == SelectSeq(l, LAMBDA e : e.id \in Ids(before) \cap Ids(stored'))
          IN  stay(stored') = stay(before)]_dashVars
=============================================================================
