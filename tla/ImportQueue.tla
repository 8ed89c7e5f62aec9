----------------------------- MODULE ImportQueue -----------------------------
(***************************************************************************)
(* The import page: files are dropped, each finds a remembered rule, takes *)
(* over settings from the queue and is parsed; the user walks the steps of *)
(* a wizard over the active file; "Import" persists every file that is     *)
(* ready, one after another.  Every database call is an await between      *)
(* which other events of the page are handled: another drop, a change of   *)
(* settings, a removal, a second press of the button.                      *)
(*                                                                         *)
(* What a file holds is abstracted to the keys (day, amount, description)  *)
(* of its rows; how it is read is in Statements, how a rule or a transfer  *)
(* is found in Matching.                                                   *)
(***************************************************************************)
EXTENDS Tables, Naturals, FiniteSets, Sequences, SequencesExt

CONSTANTS Files,       \* what can be dropped: file -> [rows, profile, number]
          RuleAccount, \* account of the rule remembered for each file, 0 for none
          ImportAccounts, \* accounts a file can go to
          MaxDrops,    \* bound: files dropped
          MaxSettings     \* bound: settings changed, files removed, formats picked again
ASSUME ImportBounds == MaxDrops \in Nat \ {0} /\ MaxSettings \in Nat
ASSUME FilesAssumption == \A name \in DOMAIN Files : Len(Files[name].rows) \in Nat

VARIABLES queue,     \* the files of the page, in order
          active,    \* the file on screen, 0 for none
          drops,     \* uploads being handled
          view,      \* [step, chosen, finished, last]: last says whether the previous queue had categories
          pressed,   \* runs of the import loop at work
          bookedRows,    \* bag of imported rows: <<account, key>> -> count
          numbers,   \* accounts whose bank number is remembered: number -> account
          counts     \* [dropped, edits, loose]: bounds, and whether a file was booked unfiltered

importVars == <<queue, active, drops, view, pressed, bookedRows, numbers, counts>>

FORMAT == 1
UPLOAD == 2
MAPPING == 3
SETTINGS == 4
PREVIEW == 5
CONFIRM == 6

\* A queued file before anything is known of it.
QueuedFile(n, name) ==
    [id |-> n, name |-> name, rows |-> <<>>, profile |-> "generic", status |-> "pending", number |-> 0,
     acct |-> 0, cats |-> FALSE, skip |-> TRUE, rule |-> FALSE]

PlaceOf(id) == CHOOSE i \in 1..Len(queue) : queue[i].id = id
InQueue(id) == \E i \in 1..Len(queue) : queue[i].id = id
Active == IF active # 0 /\ InQueue(active) THEN queue[PlaceOf(active)] ELSE QueuedFile(0, "")

\* Only the files of a bank that says so carry their account's number.
ParseFile(f) ==
    LET src == Files[f.name]
    IN  [f EXCEPT !.rows = src.rows, !.profile = src.profile, !.number = src.number,
                  !.status = IF src.rows = <<>> THEN IF src.profile = "generic" THEN "needs_mapping" ELSE "failed"
                             ELSE "ready"]

ReadinessBlocked(f) == f.acct = 0 \/ ~f.cats

-----------------------------------------------------------------------------
(* The wizard.                                                             *)

CurrentStep(f) ==
    CASE f.status = "done" -> CONFIRM
      [] f.status = "importing" -> PREVIEW
      [] f.status = "needs_mapping" -> MAPPING
      [] f.status = "ready" -> IF ReadinessBlocked(f) THEN SETTINGS ELSE PREVIEW
      [] OTHER -> UPLOAD

StepsFor(f) == IF f.id = 0 \/ f.profile = "generic" THEN 1..6 ELSE 1..6 \ {MAPPING}

Walkable(f, finished) ==
    {s \in StepsFor(f) : s <= CurrentStep(f)} \cup (IF finished THEN {CONFIRM} ELSE {})

\* The step on screen, brought back into what can be walked: forward before back.
ClampViewed(s, steps) ==
    LET later == {x \in steps : x > s}
    IN  IF s \in steps THEN s ELSE IF later # {} THEN Min(later) ELSE Max(steps)

NextStep(s, steps) == IF \E x \in steps : x > s THEN Min({x \in steps : x > s}) ELSE s
PrevStep(s, steps) == IF \E x \in steps : x < s THEN Max({x \in steps : x < s}) ELSE s

SyncStep(q, a, v, follow) ==
    LET f == IF \E i \in 1..Len(q) : q[i].id = a THEN q[CHOOSE i \in 1..Len(q) : q[i].id = a] ELSE QueuedFile(0, "")
        steps == Walkable(f, v.finished)
    IN  [v EXCEPT !.step = IF follow THEN Max(steps) ELSE ClampViewed(@, steps)]

ImportInit ==
    /\ queue = <<>> /\ active = 0 /\ drops = {}
    /\ view = [step |-> FORMAT, chosen |-> FALSE, finished |-> FALSE, last |-> FALSE]
    /\ pressed = {} /\ bookedRows = <<>> /\ numbers = <<>>
    /\ counts = [dropped |-> 0, edits |-> 0, loose |-> FALSE]

Edit ==
    /\ counts.edits < MaxSettings
    /\ counts' = [counts EXCEPT !.edits = @ + 1]

\* Next, back, or a click on the line of steps.
Walk(s) ==
    /\ s \in {NextStep(view.step, Walkable(Active, view.finished)),
              PrevStep(view.step, Walkable(Active, view.finished))}
    /\ view' = SyncStep(queue, active, [view EXCEPT !.step = s, !.chosen = TRUE], FALSE)
    /\ UNCHANGED <<queue, active, drops, pressed, bookedRows, numbers, counts>>

-----------------------------------------------------------------------------
(* Dropping a file.                                                        *)

QueueIsTerminal(q) == q # <<>> /\ \A i \in 1..Len(q) : q[i].status \in {"done", "failed"}

RunStarted(v) == [v EXCEPT !.finished = FALSE, !.chosen = FALSE]

\* A run goes on with the files it was started with, in the queue or not.
HeldFor(ids) ==
    {[p EXCEPT !.held = [id \in DOMAIN p.held \cup {i \in ids : \E k \in 1..Len(p.todo) : p.todo[k] = i} |->
                            IF id \in ids THEN queue[PlaceOf(id)] ELSE p.held[id]]] : p \in pressed}

\* A drop on a finished queue starts a new one; then the file is read and its rule looked up.
DropFile(name) ==
    /\ counts.dropped < MaxDrops
    /\ LET fresh == QueueIsTerminal(queue)
           id == counts.dropped + 1
       IN  /\ queue' = IF fresh THEN <<>> ELSE queue
           /\ active' = IF fresh THEN 0 ELSE active
           /\ view' = IF fresh THEN SyncStep(<<>>, 0, [RunStarted(view) EXCEPT !.last = queue[Len(queue)].cats], TRUE)
                      ELSE view
           /\ drops' = drops \cup {[id |-> id, name |-> name, stage |-> "reading"]}
           /\ counts' = [counts EXCEPT !.dropped = id]
           /\ pressed' = IF fresh THEN HeldFor({queue[i].id : i \in 1..Len(queue)}) ELSE pressed
    /\ UNCHANGED <<bookedRows, numbers>>

\* The file's settings: the rule's account, else what the queue already uses.  The metadata
\* that names the bank account is read by the parse that comes after, so only categories
\* and the duplicate switch are taken over from an earlier file.
WithSettings(f) ==
    LET priors == {i \in 1..Len(queue) : queue[i].profile = f.profile /\ queue[i].cats}
        prior == queue[Max(priors)]
        ruled == [f EXCEPT !.acct = RuleAccount[f.name], !.rule = RuleAccount[f.name] # 0]
    IN  IF priors # {} THEN [ruled EXCEPT !.cats = TRUE, !.skip = prior.skip]
        ELSE [ruled EXCEPT !.cats = queue = <<>> /\ view.last]

\* Only an upload nobody steered away from takes the screen.
TakesFocus == ~view.chosen \/ view.step = UPLOAD

RunLanded(id, q) ==
    LET focus == TakesFocus \/ active = 0
    IN  /\ active' = IF focus THEN id ELSE active
        /\ view' = SyncStep(q, active', [view EXCEPT !.finished = FALSE], TakesFocus)

UploadParsed(d) ==
    /\ d.stage = "reading"
    /\ LET f == ParseFile(WithSettings(QueuedFile(d.id, d.name)))
           q == Append(queue, f)
       IN  /\ queue' = q
           /\ IF f.status = "ready" /\ f.profile = "mbank"
              THEN /\ drops' = (drops \ {d}) \cup {[d EXCEPT !.stage = "matching"]}
                   /\ UNCHANGED <<active, view>>
              ELSE /\ drops' = drops \ {d}
                   /\ RunLanded(d.id, q)
    /\ UNCHANGED <<pressed, bookedRows, numbers, counts>>

\* The account whose remembered number the file carries; the file is already in the queue.
UploadMatched(d) ==
    /\ d.stage = "matching"
    /\ drops' = drops \ {d}
    /\ LET number == Files[d.name].number
           q == IF InQueue(d.id) /\ number \in DOMAIN numbers
                THEN [queue EXCEPT ![PlaceOf(d.id)].acct = numbers[number]] ELSE queue
       IN  queue' = q /\ RunLanded(d.id, q)
    /\ UNCHANGED <<pressed, bookedRows, numbers, counts>>

-----------------------------------------------------------------------------
(* The settings of the active file, and the queue.                         *)

OnScreen == active # 0 /\ InQueue(active)

ChangeSettings(acct, cats, skip) ==
    /\ OnScreen /\ Edit
    /\ Active.status \in {"ready", "done"}
    /\ queue' = [queue EXCEPT ![PlaceOf(active)].acct = acct, ![PlaceOf(active)].cats = cats, ![PlaceOf(active)].skip = skip]
    /\ view' = SyncStep(queue', active, view, FALSE)
    /\ UNCHANGED <<active, drops, pressed, bookedRows, numbers>>

\* Another format, or another column: the active file is parsed again, whatever became of it.
Reparse ==
    /\ OnScreen /\ Edit
    /\ queue' = [queue EXCEPT ![PlaceOf(active)] = ParseFile(@)]
    /\ view' = SyncStep(queue', active, view, FALSE)
    /\ UNCHANGED <<active, drops, pressed, bookedRows, numbers>>

SetActive(id) ==
    /\ InQueue(id) /\ id # active
    /\ active' = id
    /\ view' = SyncStep(queue, id, view, FALSE)
    /\ UNCHANGED <<queue, drops, pressed, bookedRows, numbers, counts>>

RemoveFile(id) ==
    /\ InQueue(id) /\ Edit
    /\ queue' = RemoveAt(queue, PlaceOf(id))
    /\ active' = IF active # id THEN active ELSE IF queue' = <<>> THEN 0 ELSE queue'[1].id
    /\ view' = SyncStep(queue', active', [view EXCEPT !.finished = @ /\ queue' # <<>>], FALSE)
    /\ pressed' = HeldFor({id})
    /\ UNCHANGED <<drops, bookedRows, numbers>>

StartNewImport ==
    /\ view.finished /\ Edit
    /\ queue' = <<>> /\ active' = 0
    /\ view' = SyncStep(<<>>, 0, [RunStarted(view) EXCEPT !.last = queue # <<>> /\ queue[Len(queue)].cats], TRUE)
    /\ pressed' = HeldFor({queue[i].id : i \in 1..Len(queue)})
    /\ UNCHANGED <<drops, bookedRows, numbers>>

-----------------------------------------------------------------------------
(* "Import".                                                               *)

\* The files of the queue that are ready, in its order.
Ready == {queue[i].id : i \in {k \in 1..Len(queue) : queue[k].status = "ready"}}
InQueueOrder(ids) ==
    {s \in [1..Cardinality(ids) -> ids] : \A i, j \in DOMAIN s : i < j => PlaceOf(s[i]) < PlaceOf(s[j])}
NewRun(n, todo) == [n |-> n, todo |-> todo, stage |-> "next", file |-> <<>>, unique |-> {}, held |-> <<>>]

\* Mutant of DoImportAll: a second press starts a second run.
DoImportAll_Again ==
    /\ view.step = PREVIEW
    /\ Cardinality(pressed) < 2
    /\ Ready # {}
    /\ \E todo \in InQueueOrder(Ready) : pressed' = pressed \cup {NewRun(Cardinality(pressed) + 1, todo)}
    /\ UNCHANGED <<queue, active, drops, view, bookedRows, numbers, counts>>

\* One run at a time: the button of a page at work does nothing.
DoImportAll ==
    /\ view.step = PREVIEW
    /\ pressed = {}
    /\ Ready # {}
    /\ \E todo \in InQueueOrder(Ready) : pressed' = {NewRun(1, todo)}
    /\ UNCHANGED <<queue, active, drops, view, bookedRows, numbers, counts>>

Becomes(p, q) == pressed' = (pressed \ {p}) \cup {q}
Marked(id, s) == IF InQueue(id) THEN [queue EXCEPT ![PlaceOf(id)].status = s] ELSE queue

\* A file taken out of the queue since is still imported, as the run holds it; that its
\* settings are complete is asked only now.
ImportOne(p) ==
    /\ p.stage = "next" /\ p.todo # <<>>
    /\ LET id == Head(p.todo)
           f == IF InQueue(id) THEN queue[PlaceOf(id)] ELSE p.held[id]
       IN  IF ReadinessBlocked(f)
           THEN queue' = Marked(id, "failed") /\ Becomes(p, [p EXCEPT !.todo = Tail(@)])
           ELSE /\ queue' = Marked(id, "importing")
                /\ Becomes(p, [p EXCEPT !.stage = "checking", !.file = f])
    /\ UNCHANGED <<active, drops, view, bookedRows, numbers, counts>>

Had(acct, k) == <<acct, k>> \in DOMAIN bookedRows

\* Duplicates are looked up one row after another, in the run's own session.
FilterDuplicates(p) ==
    /\ p.stage = "checking"
    /\ Becomes(p, [p EXCEPT !.stage = "writing",
                            !.unique = {i \in 1..Len(p.file.rows) :
                                           p.file.skip => ~Had(p.file.acct, p.file.rows[i])}])
    /\ UNCHANGED <<queue, active, drops, view, bookedRows, numbers, counts>>

\* The rows of a file at some places, on top of what is booked.
Booked(acct, rows, places) ==
    [x \in DOMAIN bookedRows \cup {<<acct, rows[i]>> : i \in places} |->
        (IF x \in DOMAIN bookedRows THEN bookedRows[x] ELSE 0)
        + Cardinality({i \in places : <<acct, rows[i]>> = x})]

\* The rows and the record of the run, in one commit.
CreateBulk(p) ==
    /\ p.stage = "writing"
    /\ bookedRows' = Booked(p.file.acct, p.file.rows, p.unique)
    /\ IF p.file.number # 0
       THEN Becomes(p, [p EXCEPT !.stage = "numbering"]) /\ queue' = queue
       ELSE /\ Becomes(p, [p EXCEPT !.stage = "next", !.todo = Tail(@), !.file = <<>>, !.unique = {}])
            /\ queue' = Marked(p.file.id, "done")
    /\ counts' = [counts EXCEPT !.loose = @ \/ ~p.file.skip]
    /\ UNCHANGED <<active, drops, view, numbers>>

\* The account's number is remembered in a commit of its own.
SaveNumber(p) ==
    /\ p.stage = "numbering"
    /\ numbers' = With(numbers, p.file.number, p.file.acct)
    /\ queue' = Marked(p.file.id, "done")
    /\ Becomes(p, [p EXCEPT !.stage = "next", !.todo = Tail(@), !.file = <<>>, !.unique = {}])
    /\ UNCHANGED <<active, drops, view, bookedRows, counts>>

\* Any of the three may raise: the file is marked failed and the run goes on.
PersistFails(p) ==
    /\ p.stage \in {"checking", "writing", "numbering"}
    /\ queue' = Marked(p.file.id, "failed")
    /\ Becomes(p, [p EXCEPT !.stage = "next", !.todo = Tail(@), !.file = <<>>, !.unique = {}])
    /\ UNCHANGED <<active, drops, view, bookedRows, numbers, counts>>

\* The summary, and the step line follows to it.
FinishRun(p) ==
    /\ p.stage = "next" /\ p.todo = <<>>
    /\ pressed' = pressed \ {p}
    /\ view' = SyncStep(queue, active,
                   [view EXCEPT !.finished = TRUE, !.chosen = FALSE,
                                !.last = IF queue = <<>> THEN @ ELSE queue[Len(queue)].cats], TRUE)
    /\ UNCHANGED <<queue, active, drops, bookedRows, numbers, counts>>

ImportNext ==
    \/ \E s \in 1..6 : Walk(s)
    \/ \E name \in DOMAIN Files : DropFile(name)
    \/ \E d \in drops : UploadParsed(d) \/ UploadMatched(d)
    \/ \E acct \in ImportAccounts, skip \in BOOLEAN : ChangeSettings(acct, TRUE, skip)
    \/ Reparse \/ StartNewImport \/ DoImportAll
    \/ \E id \in 1..MaxDrops : SetActive(id) \/ RemoveFile(id)
    \/ \E p \in pressed : \/ ImportOne(p) \/ FilterDuplicates(p) \/ CreateBulk(p)
                          \/ SaveNumber(p) \/ PersistFails(p) \/ FinishRun(p)

ImportSpec == ImportInit /\ [][ImportNext]_importVars

-----------------------------------------------------------------------------
ImportTypeOK ==
    /\ \A i \in 1..Len(queue) :
           queue[i].status \in {"pending", "ready", "needs_mapping", "failed", "importing", "done"}
    /\ active \in 0..MaxDrops /\ view.step \in 1..6
    /\ \A x \in DOMAIN bookedRows : bookedRows[x] \in Nat \ {0}

Multiplicity(name, k) == Cardinality({i \in 1..Len(Files[name].rows) : Files[name].rows[i] = k})

\* With "skip duplicates" on, nothing is booked twice however often a file is dropped,
\* parsed again after it was imported, or its import pressed twice: an account never holds
\* a row more often than one file says it happened.
NoRowTwice ==
    ~counts.loose =>
        \A x \in DOMAIN bookedRows : \E name \in DOMAIN Files : bookedRows[x] <= Multiplicity(name, x[2])

\* Between runs the step on screen is always one the active file lets the user walk to, so
\* "next" and "back" never lead nowhere, whatever was dropped, removed or parsed meanwhile.
StepWalkable == pressed = {} => view.step \in Walkable(Active, view.finished)

\* A file that failed left nothing in the ledger.
FailedMeansNothing ==
    [][\A p \in pressed : PersistFails(p) => p.stage # "numbering"]_importVars
=============================================================================
