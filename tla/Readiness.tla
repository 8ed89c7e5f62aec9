--------------------------------- MODULE Readiness --------------------------------
(***************************************************************************)
(* The monthly readiness checklist (services/monthly_readiness_service.py, *)
(* views/monthly_readiness.py): one row per month with four stages, the    *)
(* time all four were done, and the bills ticked as seen.  Every press is  *)
(* a database session of its own that reads the row, changes it in memory  *)
(* and writes the columns that changed; two presses of one page, or of two *)
(* members of a household, may overlap.                                    *)
(***************************************************************************)
EXTENDS Integers, FiniteSets, TLC

CONSTANTS
    Presses,    \* sessions that may be open at once
    Bills,      \* planned expenses of the month
    MaxPresses  \* bound: presses

ASSUME ReadinessAssumption == MaxPresses \in Nat

Stages == 1 .. 4
NoMonth == [row |-> FALSE]
NewRow == [row |-> TRUE, done |-> {}, ready |-> FALSE, seen |-> {}]
NoPress == [wants |-> "nothing"]

VARIABLES
    month,      \* the row, or NoMonth
    press,      \* per session: what was pressed, and the row as it was read
    pressed,    \* presses so far
    wished,     \* the stages and bills as last pressed, in the order the presses began
    raced       \* a press read the row while another was under way

readinessVars == <<month, press, pressed, wished, raced>>

ReadinessTypeOK ==
    /\ month.row => month.done \subseteq Stages /\ month.seen \subseteq Bills
    /\ \A s \in Presses : press[s].wants \in {"nothing", "row", "stage", "bill"}
    /\ pressed \in 0 .. MaxPresses

ReadinessInit ==
    /\ month = NoMonth /\ press = [s \in Presses |-> NoPress] /\ pressed = 0
    /\ wished = [done |-> {}, seen |-> {}] /\ raced = FALSE

Toggle(S, x, on) == IF on THEN S \cup {x} ELSE S \ {x}

\* get_or_create reads the row; a press on a month without one inserts it first.
Begin(s, p) ==
    /\ press[s] = NoPress /\ pressed < MaxPresses
    /\ press' = [press EXCEPT ![s] = p @@ [read |-> month]]
    /\ pressed' = pressed + 1
    /\ raced' = (raced \/ \E o \in Presses : press[o] # NoPress)
    /\ UNCHANGED month

OpenPage(s) == Begin(s, [wants |-> "row"]) /\ UNCHANGED wished
PressStage(s, stage, on) ==
    /\ Begin(s, [wants |-> "stage", stage |-> stage, on |-> on])
    /\ wished' = [wished EXCEPT !.done = Toggle(@, stage, on)]
PressBill(s, bill, on) ==
    /\ Begin(s, [wants |-> "bill", bill |-> bill, on |-> on])
    /\ wished' = [wished EXCEPT !.seen = Toggle(@, bill, on)]

\* The insert: a row another session has put in meanwhile makes it fail.
Insert(s) ==
    /\ press[s] # NoPress /\ ~press[s].read.row
    /\ IF month.row THEN press' = [press EXCEPT ![s] = NoPress] /\ UNCHANGED month
       ELSE /\ month' = NewRow
            /\ press' = [press EXCEPT ![s] = IF press[s].wants = "row" THEN NoPress
                                             ELSE [press[s] EXCEPT !.read = NewRow]]
    /\ UNCHANGED <<pressed, wished, raced>>

\* The stage's own column and, when it changes in what was read, the time all four were done.
MarkStage(s) ==
    LET p == press[s]
        done == Toggle(p.read.done, p.stage, p.on)
        ready == done = Stages
    IN  month' = [month EXCEPT
            !.done = IF done = p.read.done THEN @ ELSE Toggle(@, p.stage, p.on),
            !.ready = IF ready = p.read.ready THEN @ ELSE ready]

\* The ticks are one column: the whole list that was read, with this bill put in or taken out.
SetSeen(s) ==
    LET p == press[s]  seen == Toggle(p.read.seen, p.bill, p.on)
    IN  month' = IF seen = p.read.seen THEN month ELSE [month EXCEPT !.seen = seen]

Commit(s) ==
    /\ press[s] # NoPress /\ press[s].read.row
    /\ CASE press[s].wants = "row" -> UNCHANGED month
         [] press[s].wants = "stage" -> MarkStage(s)
         [] press[s].wants = "bill" -> SetSeen(s)
    /\ press' = [press EXCEPT ![s] = NoPress]
    /\ UNCHANGED <<pressed, wished, raced>>

ReadinessNext ==
    \E s \in Presses :
        \/ OpenPage(s) \/ Insert(s) \/ Commit(s)
        \/ \E stage \in Stages, on \in BOOLEAN : PressStage(s, stage, on)
        \/ \E bill \in Bills, on \in BOOLEAN : PressBill(s, bill, on)

ReadinessSpec == ReadinessInit /\ [][ReadinessNext]_readinessVars

------------------------------------------------------------------------------
Settled == month.row /\ \A s \in Presses : press[s] = NoPress

\* Unless two presses overlapped, the checklist is what was pressed: the month is ready
\* exactly when all four stages are done, and no press of a stage undoes a tick or another
\* stage (mark_stage, set_seen).
ChecklistUnlessRaced ==
    (Settled /\ ~raced) =>
        /\ month.ready = (month.done = Stages)
        /\ month.done = wished.done /\ month.seen = wished.seen


\* Two bills ticked one right after the other both stay ticked (set_seen).  Not so when the
\* second press reads the list before the first has written it.
TicksKept == Settled => month.seen = wished.seen

\* The month is marked ready exactly when its four stages are done (mark_stage).  Not so when
\* the last two stages are pressed one right after the other.
ReadyIsCurrent == Settled => month.ready = (month.done = Stages)
===============================================================================
