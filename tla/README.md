# Kaleta in TLA+

Kaleta is a household finance application: a NiceGUI front end and a REST API
over asynchronous services (`src/src/kaleta/services`), one event loop per
process, PostgreSQL (a registry schema and one schema per family) or SQLite.
This project models the parts whose correctness depends on the order of steps
or on arithmetic done twice, checks them with TLC on small instances and proves
the central results with TLAPS for every instance.

## Inventory

| component | state | operations | what is hard | what makes it correct |
|---|---|---|---|---|
| Household membership (`household_service`, `tenant_service`, `auth/household`) | `tenants`, `tenant_members` | invite, join, approve, decline, remove, leave, transfer, reset keys, suspend, resume | each operation reads, awaits and writes; decisions are made on rows read before an await | one owner, in the household; every active member's key block opens the data key; nobody else's does |
| Keys (`key_service`, `crypto/keyring`, `auth/unlock`) | key block of each member, ring of unlocked keys, set of frozen households | setup, unlock, change passphrase, recover, lock, freeze, thaw, replace | a key derivation takes a second off the loop, and what was read before it is used after | the ring holds the present key; a block saved is the block that was there |
| Re-key (`HouseholdRekey`, `data_encryption_service`, `setup_service.release_interrupted_rekeys`) | the rows of the family's schema, the `rekeying` mark, the freeze | claim, rewrite, commit, sweep, thaw, release at start-up | crash or failure between any two of these; writes bound before the freeze; two removals at once | one at a time; frozen throughout; all values moved or none; no mark without a re-key |
| Second factor (`mfa_service`) | `user_mfa` | begin, abandon, confirm, verify, recover, reissue, disable, administrator's disable | several tabs, argon2 off the loop, conditional statements | a code works once; a factor that is on has codes |
| Provider-held factor (`hosted_mfa_service`) | the provider's factors, one row here | enrol, challenge, recover, remove | an external service that may fail half-way | a set of codes recovers once |
| Sessions (`auth/session`, `revocation_cache`, `middleware`) | browser sessions, watermark, cache | sign in, revoke, guard a page | a cached watermark, filled by a slow read; an unlock in flight across a sign-out | a revocation is seen within one time-to-live; a new sign-in starts locked |
| Rate limiting (`login_rate_limit`) | failures and locks per key | check, record, clear | checked before, counted after, an await | the documented number of guesses |
| Registry (`instance_admin_service`, `local_identity_service`, `setup_service`, `account_deletion_service`) | logins, tenants, schemas | provision, disable, promote, delete | several transactions in two schemas, a process that stops between them | always one administrator; no user without a schema |
| Invitations (`HouseholdInvitations`, `views/join`) | invitations, the logins they made | invite, cancel, open, join | a login is created before its membership | no login is left over |
| Ledger (`transaction_service`, `account_service`) | transactions, transfer legs, splits | create, edit, delete, pair, unpair | two legs kept together, dialogs open while rows move | links are mutual; page sums are the rows' |
| Planned transactions, subscriptions | plans, occurrences, status | post, skip, undo, cancel, settle, reactivate | two sessions posting; the nightly job against the user | each occurrence posted once; a cancellation is carried out |
| Payees, categories, duplicates | payees, identities, merge records, categories | merge, undo, scan | a scan begun before an undo | an undone merge stays undone; merges lose no money |
| Imports (`import_service`, `views/import_view`) | the page's queue, the rows booked | drop, parse, map, import | every database call of the page is an await | a row is booked once |
| Funds, loans, readiness, change history | their own rows | contribute, close, link, tick, revert | overlapping requests, half-done closures | money kept; one link; the history tells the rows |
| Backup, example data, the schema | every table | clear, seed, export, restore | foreign keys in the right order | what is restored is what was exported |
| Budgets, reports, net worth, rates, forecasts, salary | computed from the ledger | read | each figure has a query of its own | figures that must agree do |
| Pages (`views/`) | dialogs, lists, panels, dashboard | press, load, save | handlers are coroutines; loads land in any order | a save goes to its row; the newest load is on screen |
| Background jobs, operational events, REST API, styling | timers, files | I/O | — | outside this project |

Components call each other inside one event loop; two coroutines interleave at
every `await`.  The registry and a family's schema are separate transactions.
The key ring, the freeze, the revocation cache and the rate limiter are memory
of the one process and are lost at a restart.  `PROJECT.json` lists the hazards
at their lines, and for each component which modules model it and what is left
out of them.

## Modules

A component is a module; an MC module runs several components that do not share
state, one at a time.  A variable that never changes (`part`, `focus` or
`story`) says which component moves, so that a run explores the union of the
components' state spaces and not their product.

| module | models |
|---|---|
| `Tables` | a database table as a function: rows added, merged, deleted, summed, put in order |
| `Household` | one household: registry rows, key ring, encrypted rows and requests in flight; the refinement mapping to the promise |
| `HouseholdPromise` | the same household with every operation atomic: standing, owner, who was ever given the present key, what the ledger says |
| `SecondFactor` | one member's TOTP factor and the tabs at it |
| `HostedFactor` | a factor kept by the sign-in service, with calls and commits that fail |
| `Sessions` | browsers of one member: rotation at sign-in, guard, cached watermark, expiry, unlocks in flight |
| `RateLimit` | one key's failures and lock in the shared store, and the mail throttle |
| `Registry` | logins, administrators, families, schemas, API tokens, account deletion, migrations at a start |
| `Invitations` | invitations, the joining link, first sign-ins of invited addresses |
| `Ledger` | entering, editing, splitting, pairing, deleting transactions; how they are listed, searched and summed |
| `Payees` | payees, spellings, merges by hand and by scan, undo; the similarity scores and their shortcuts |
| `Housekeeping` | categories and what refers to them, merges of categories and of duplicates |
| `Calendar` | recurrences over month ends, windows, named ranges, weeks |
| `Planned` | posting occurrences by several sessions, while plans and rows are edited |
| `Subscriptions`, `Detector` | one subscription against the settlement job; candidates, acceptance, dismissal, the radar |
| `Loans`, `Funds`, `Readiness` | loans and repayments with their links; goals, irregular expenses, gifts; the monthly checklist |
| `Store` | every table with its foreign keys: delete, clear, seed, export, restore |
| `Audit` | the listeners on flush and rollback, the list, revert and clear |
| `Budgets` | budget cells, yearly plan, copy, review |
| `ReportBuilder` | the builder's state (its defaults are shared) and its reports |
| `Flows`, `Figures` | the ledger as reports read it; statements, KPIs, diagrams, net worth, the salary proposal |
| `Rates`, `Projection` | rate lookups; the forecast with its cache and awaits, what-if scenarios |
| `Statements` | which records of a file become rows, pairing of transfers, remembered rules |
| `ImportQueue` | the import page: queue, wizard, the run that books |
| `CrudPages`, `Panels` | handlers of the list pages; panels and the forecast page that load what they show, the dashboard's layout |
| `MCHousehold`, `MCLive`, `MCSecondFactor`, `MCAccess`, `MCMoney`, `MCPlans`, `MCFigures`, `MCPages` | the compositions TLC runs, and their instances |
| `SumProofs` | what sums over finite sets and rows put in order are, for the proofs that need them |
| `HouseholdProofs`, `SecondFactorProofs`, `AccessProofs`, `MoneyProofs`, `AmountsProofs`, `PagesProofs` | the proofs |

A definition named `X_Y` stands before `X` and is `X` with a fault `Y`.  No
specification uses it; each property is checked to fail when it takes `X`'s
place, so that none holds for want of a way to break it.

### Household

`tenant` is the `tenants` row (its `dek` says which data key the version stands
for), `member` the `tenant_members` rows, `ring` and `frozen` the `KeyRing`,
`rows` the encrypted columns (one value under one key per row), `signedIn` the
sessions and tokens that are not revoked.  `task` holds the request in each
slot of `Handler`: where it awaits and its locals — the member row it loaded,
the key it captured, the holders it counted, the rows it read.  A request's
step ends where its coroutine awaits the database or a derivation.

| code | actions |
|---|---|
| `membership_for_sign_in`, `join` | `SignIn`, `Join` |
| `KeyService.setup` | `SetupLoad`, `SetupSave` |
| `open`, `unlock` | `UnlockLoad`, `ReadVersion`, `Put` |
| `change_passphrase`, `regenerate`, `recover` | `ChangeLoad`, `SavePassphrase`, `Reopen` |
| `KeyRing.lock` and the time-out | `Lock` |
| a write of an encrypted column | `WriteBind`, `WriteCommit` |
| `approve`, `decline` | `ApproveCheck`, `ApproveSeal`, `DeclineCheck`, `DeclineCommit` |
| `remove`, `leave`, `HouseholdRekey.run` | `RemoveCheck`, `LeaveCheck`, `Holders`, `Claim`, `Freeze`, `ReadRows`, `CommitRekey`, `ReplaceKey`, `Look`, `Sweep`, `Thaw` |
| a re-key that fails | `RekeyFails`, then `ClearMark` and `Unfreeze`; `MarkFails`, `SweepFails` |
| `remove(rekey=False)` | `DropCheck`, `DropCommit`, `Revoke`, `RevokeFails` |
| `transfer_ownership`, `reset_keys` | `TransferCheck`, `TransferCommit`, `ResetCheck`, `ResetCommit`, `Lockout` |
| `suspend`, `resume` | `Suspend`, `Resume` |
| a crash and `release_interrupted_rekeys` | `Restart` |

The commit of the mark and the freeze, the commit of the re-key and the ring's
update, the clearing of the mark and the thaw are two steps each: an await lies
between them.  Merged into one step because nothing else runs, or nothing else
can tell: the thaw and `_forgotten`; a request's first reads.  `overtook` is a
history variable: since the process started, a re-key was claimed while another,
that failed, had cleared its mark and not thawed yet.  A step that writes an ORM object writes the columns that differ
from what was loaded, over the row as it is then.  A slot is needed to
suspend, so that one slot means strictly one request at a time.

Abstracted: a key is its number and version, a text a number, a keypair its
number; a member has one unlock session; a revocation is seen at once (the
delay of the cache is in `Sessions`); a member who would create the data key of
a ledger already encrypted fails on its first row, so that branch of `setup` is
no action.  A commit whose acknowledgement is lost, and a session that fails to
close after its commit, are left out.  `MaxDek` is at most 254, so that the version byte does not come
round; the code relies on the same.

### SecondFactor

`row` is the `user_mfa` row, `task` the request of each tab with the row it
read and the code it was given.  A read and the conditional statement that
follows it are two steps; the statement decides atomically (READ COMMITTED).
Wrong codes leave the row alone, so only codes that match what was read are
attempts.  Row ids are not reused.  `now` is the TOTP step of the clock.
`proved` and `uses` are history variables.

| code | actions |
|---|---|
| `begin_enrolment`, `abandon_enrolment` | `BeginRead`, `BeginWrite`, `Abandon` |
| `confirm_enrolment` | `ConfirmRead`, `ConfirmClaim` |
| `verify_code`, `verify_challenge`, `_claim_counter` | `VerifyRead`, `ClaimStep` |
| `consume_recovery_code`, `_remove_recovery_code` | `RecoverRead`, `SpendCode` |
| `regenerate_recovery_codes` | `ReissueRead`, `Reissue` |
| `disable` | `DisableRead`, `DisableWeigh`, `DisableSpend`, `DisableErase` |
| `disable_for_admin`, `disable_all` | `AdminRead`, `AdminErase` |

### The other modules

The same conventions hold throughout: a service call that reads, awaits and
writes is two actions or more with its locals in a variable of the request
(`clerk`, `work`, `guard`, `flight`, `pressed`...), a commit is one step, a
constraint of the database decides at the commit, and what the process keeps in
memory is a variable of its own.  Names follow the code's; `map` in
`PROJECT.json` gives the lines of each definition.  Some of them need a word:

* `Figures`, `Statements`, `Calendar`, the scores of `Payees` and the views of
  `Ledger` are pure computations.  A behaviour picks an input and stops, or
  steps through the inputs; the invariants compare two computations that the
  program does in different places, or one with its definition.
* `ImportQueue`: a run of "Import" goes on with the files it was started with;
  when a file leaves the queue the run still holds it (`held`).  What a run is
  to write is the set of places of the file's rows that were not booked when it
  asked (`unique`); another event may come between the asking and the writing.
* `RateLimit`: each call of the store is a step (`AddFailure`, `SetExpiry`,
  `LockKey`, `ResetFailures`), and at each of them the store may fail or the
  process die (`Unheard`).  `missed` counts what that costs: failures never
  counted, locks never set, and counts that end with their window or are reset
  while the key is open.  The bound on guesses is stated with it.
* `HostedFactor`: disabling is the sign-in at the provider, the removal of its
  factor, and the deletion of the row here, each of which may be the last that
  happens (`DisableStart`, `DisableUnenrol`, `Disable`).
* `Invitations`: declining deletes the membership and, in a second commit, the
  login the invitation made (`DeclineJoined`, `DeclineLogin`); `turnedAway`
  holds the login in between, and `StopDecline` is a process that stops there.
  A login that was made an administrator is left alone.
* `Store`: `sequences` is the last number each table's sequence gave out.  A
  restore empties the tables from the last to the first and puts the rows of the
  file in table by table (`EmptyTables`, `InsertTables`); a row whose parent is
  not there yet, or whose identifier is taken, is refused and undoes the whole
  (`InsertRow`).  The rows of a table come in one order or the other (`down`),
  the file does not say which.  Rows go in with the numbers they had, which
  leaves the sequences where they were; `NewInstallation` carries a file to a
  household whose sequences know nothing of it.
* `Audit`: `WritePastListeners` is what `update()` statements and cascades write
  (`dedupe_service.py:416`, `:515`): rows change and no entry is made.  `silent`
  and `untold` say of which rows the last write was of this kind.
* `Projection`: rows are booked on any day, days to come included, and deleted,
  while a result is in the cache or on its way (`PostMove`, `DeleteMove`).
* `CrudPages`: a form has the row its page's identifier names (`row`), the row
  its fields were filled from (`of`) and the row of what it loads before it
  opens (`rest`); on some pages the form shares the identifier with the question
  before a deletion (`SharedId`), on one opening is itself a load that others
  may cross (`LateForms`: `OpenEdit`, then `FormLoaded` or `FormFails`).  A save
  carries the three from when it was pressed, and a page that reads the
  identifier after its await writes the row it names by then.
* `Panels`: a save is the commit (`Save`) and, after the page has asked the
  browser where it stands, a new load (`SaveShown`); `due` counts the saves
  whose load is still to come.
* `Figures`: the cash flow is its own query, from a day on and grouped by month
  and type, as `report_service.py:654` has it, and not the sum of one month that
  it is compared with.

## Runs

Each run asks its questions of the components it composes; `PROJECT.json` gives
its property list and, for each property, the fault in the code that breaks it.

| run | instance | shows |
|---|---|---|
| `alone` | 3 people, 2 founders, one request at a time; stories `membership` (one re-key, no writes) and `keys` (two re-keys, a write, suspension, one keypair each) | every operation, failed and interrupted ones included, keeps one owner, the present key for active members and none for the others, the ring current, and implements `HouseholdPromise` |
| `crossed` | two requests at once, slots symmetric; stories `rekeys` (3 founders, failures of pass, sweep and mark, restarts) and `races` (joins, setups, approvals, drops, resets) | re-keys exclude each other, the freeze covers them, the mark is only on a household that is frozen or about to be, all until a rival overtakes a failed re-key's thaw; somebody can open the ledger |
| `live` | 3 founders and two requests at once; one subscription, three days, one failing night | a freeze ends; a cancellation is carried out |
| `factor` | two tabs, two codes in a set, two secrets, two sets, clock of four steps; stories `tabs` (two requests at once, no disabling) and `alone` (one at a time, all operations) | codes work once, an enabled factor has codes, codes are replaced only by a request that saw them |
| `access` | two browsers, two submissions, two logins, two tabs at the provider's factor, two joiners; a clock of three ticks, two failures that go uncounted or unlocked | sign-ins start locked, revocations are seen in time, guesses are bounded by what is counted and what is missed, no user without a schema, always an administrator, one recovery per set, no login left over |
| `money` | three transactions on two accounts and two dialogs with one pairing; three payees; three categories; words of three letters | links are mutual, sums of pages and groups are the rows', undone merges stay undone, the shortcuts of the scores are sound, merged categories lose nothing |
| `plans` | years 2023 to 2026 with the month ends that matter; two posters, two clerks, two sessions of the history, two calls on funds, six tables | windows split, occurrences are posted once, loans linked once, goal money kept, a restore leaves the file's rows or what was there, the history tells the rows its listeners saw |
| `figures` | small ledgers chosen so that splits, loans, transfers and refunds occur; two files, one of them dropped twice | rows are booked once, the figures of a month agree, the two rate lookups agree, planned occurrences are on the line once, with four bookings, deletions and new plans meanwhile (`MaxMoved`) |
| `pages` | every list page with two handlers or openings at work (`MaxFlight`), every panel with three loads, the forecast page with four runs, the dashboard in two tabs | no row takes a form opened for another, the newest load is painted alone, the chart is of the run |
| `find_passphrase`, `find_invited`, `find_reports` | two requests, one joiner, two visitors | the three counterexamples below |

Bounds.  Three people are an owner, a member going and a member staying or
coming; two requests at once are what a check-then-write race needs, and the
proofs cover any number where it matters.  Two re-keys (`MaxDek = 3`) let a
key captured before one be used at another.  `MaxKeypair = 2` lets a reset be
followed by a new setup, `MaxJoin = 1` gives each person one membership that
can be removed and taken up again.  One encrypted row is enough because rows
are rewritten independently; the proofs hold for any set of rows.  Two secrets
and two sets let an enrolment be started over and codes be reissued.  Elsewhere
a bound is two of whatever can overlap (sessions, tabs, clerks, posters, loads)
and one more than the steps a history needs for its shortest interesting case:
two mids and a family rate on one day and the next, three rows so that a page of
two is full, a history of two entries so that a third is trimmed.  Deadlock is
not checked: the bounded instances end when the bounds are used up.

Fairness.  `Fairness` of `Household` is weak fairness of each request's next
step: the event loop resumes every coroutine whose await was answered, and the
awaits are statements the database answers or fails.  `SubFairness` is weak
fairness of the day's turn and of the settlement job, which the scheduler runs
every night and again after a failure.  Arrivals, failures, the operator,
members' presses and restarts are not fair.  A failed clearing of the mark
(`MarkFails`) leaves the household frozen until a restart, so `live` leaves it
out; `crossed` has it.

The modules state further properties that hold on the same instances and are
kept beside the definitions they are about: among them `RemovedLoseAll`,
`CodesStayNew`, `SignedInIdsAreNew`, `LockNotExtended`, `PlacesBounded`,
`SplitsAddUp`, `PagesCoverLedger`, `MemoNeverStale`, `PlannedLinkKept`,
`GroupsDisjoint`, `NextIsFirstOffered`, `RangesAbut`, `WeeksPartition`,
`LegsWhole`, `DismissedStayGone`, `LedgerOutlivesItsLabels`, `ScheduleAddsUp`,
`GiftsPlannedOnce`, `RevertedRowIsTheOldOne`, `YearlySplitExact`,
`PivotHidesNothing`, `HistoryIsTheLedgers`, `VerdictIsTheChart`,
`EveryRecordAccountedFor`, `StepWalkable`, `SaidMeansSaved`, `EveryWidgetOnce`.
To check one, name it in the run's configuration.

## What the checks find

Three runs are counterexamples to what the repository says of itself, listed
with quotations under "findings":

* `find_passphrase` — a passphrase change that loaded its key block before a
  re-key writes the replaced sealed key back;
* `find_invited` — somebody with a local login who opens an invitation is told
  to sign in to accept it, and signing in does not;
* `find_reports` — one visitor's press of a type chip changes what the report
  builder opens with for everybody.

### What concurrency breaks

The theorems about the household, the factor and the ledger carry hypotheses.
They are needed: these properties fail on the runs' instances when the
operations named are let overlap (give `Handler`, or `Pairers`, two elements).

| property | operations | what happens |
|---|---|---|
| `FreezeCoversRekey`, `MarkMeansFrozen` and `OneRekeyAtATime` without `~overtook` | remove, leave, fail | a re-key that fails clears its mark in a commit of its own (`household_service.py:215`); a rival with the same version claims the household and freezes it before the first one thaws it (`:218`), so that the rival re-keys a household that is not frozen, against the comment at `:175`, and a third re-key may start in its sweep |
| `ExactlyOneOwner` | transfer, leave | a transfer commits after the chosen member left (`household_service.py:550`) |
| `BindsUnderCurrentKey` | unlock, remove, write | an unlock that saw no freeze puts the replaced key in the ring after the re-key, and a write is bound under it (`key_service.py:282`) |
| `CodesWorkOnce` | disable, verify | `disable` accepts a TOTP step without claiming it (`mfa_service.py:518`) |
| `EnabledSecretProved` | begin, confirm | a confirmation enables whatever secret the row now holds (`mfa_service.py:281`) |
| `ActiveHoldCurrentKey` | signin, join, setup, approve, leave | an approval decided before a re-key commits after it, with the replaced key |
| `OnlyResumeUnsuspends` | suspend, resume, remove | the re-key's commit writes `active` over a suspension (`tenant_service.py:442`) |
| `OneRekeyAtATime` (three slots) | suspend, resume, remove, leave | suspend and resume clear the mark a re-key relies on |
| `RemovedHoldsNothing` | drop, leave | the new key is sealed to a holder removed since they were counted |
| `SomeoneCanOpen` | transfer, reset | a reset that checked the role clears the new owner's keys |
| `KeepsPromise` | write, remove | a write committed between the pass's read and its commit is overwritten with the old value (`data_encryption_service.py:65`) |
| `ChangesLeaveTrace` | begin, confirm, admin | the administrator's removal read a pending row and deletes the confirmed factor unrecorded |
| `OutsidersHoldNothing` | signin, join, setup, approve, reset | a long race of reset, approve and setup leaves a pending member with a sealed key |
| `LinksMutual` | two pairings | both check a row that is free and both link it (`transaction_service.py:410`) |

### Further counterexamples

Properties that are defined, say what a docstring, a text or the name of an
operation suggests, and that TLC refutes on the instance of the run of the same
area.  Some are faults, some are limits the code accepts; the comment at each
definition says which line it is about.

| module | property | what happens |
|---|---|---|
| `Ledger` | `PairingKeepsBalances` | pairing orients both legs, and may turn the direction of one whose amount then counts the other way |
| `Ledger` | `NoSilentUndo` | two edit dialogs are open on one transfer, and the tags are no part of the stale check: the second save undoes the first one's tags |
| `Payees` | `EveryPayeeHasIdentity`, `ProposedAtThreshold` | the keeper of a merge deletes its own spelling, and undoing the merge takes the other; a pair exactly at the threshold is pruned |
| `Housekeeping` | `CategoryForest`, `RulesSurviveMerge` | an edit may name a category its own parent; rules of a merged category go with it (`dedupe_service.py:489`) |
| `Sessions` | `SeenAtOnce`, `KeptSessionStays` | a load in flight across `forget` fills the cache with the old watermark; a guard begun before "sign out elsewhere", with the issue time it read, signs the kept session out after it was stamped |
| `RateLimit` | `OneMailPerInterval` | two replicas both pass `allow` before either marks |
| `Registry` | `DisabledHoldsNothing`, `ActiveIsBuilt` | a sign-in past the check outlives a disabling; suspending and resuming a family that is still being provisioned makes it active with no schema |
| `HostedFactor` | `OnThereMeansOnHere` | two enrolments across a disabling leave a verified factor at the provider and no row here, with no call failing |
| `Invitations` | `PlacesRespected` | two tabs inviting at once exceed the places |
| `Subscriptions` | `MuteEnds`, `ReactivatedStays` | nothing ends a mute; a settlement that read the row before a reactivation cancels it |
| `Calendar` | `FiveYearsThere` | 29 February five years back is no date |
| `Store` | `RestoredTakesRows` | a restore puts rows in with their own numbers and leaves the sequences behind (`backup_service.py:293`): on PostgreSQL the next row entered asks for a number that is taken |
| `Store` | `AnExportRestores`, `SeedingNeverFails` | rows go in one at a time, so the two legs of a transfer, which point at each other, are refused where keys are checked at once; the example transactions look up example accounts by name and fail on a ledger that has accounts of its own only |
| `ImportQueue` | `FailedMeansNothing` | a file is marked failed when only remembering its account number failed, after its rows were committed |
| `Loans` | `NothingOwedIsHidden` | a loan marked settled by hand, or whose principal was raised after it was settled, is left out of what is owed |
| `Funds` | `OneTransferPerAccount`, `ReleasedOnce` | renaming an account leaves the old transfer beside the new; closing pressed twice releases twice |
| `Readiness` | `TicksKept`, `ReadyIsCurrent` | a tick that overlaps the creation of the month's row is lost; of two ticks at once neither sees the four stages done, and the month is not marked ready |
| `Audit` | `NewestEntryAlwaysTells` | merges write audited rows by `update()` statements, and foreign keys cascade, with no entry (`dedupe_service.py:416`, `:515`): the newest entry tells an older value |
| `Audit` | `HistoryBounded` | the history is trimmed when it is listed, not after a commit |
| `Figures` | `HistoryRollsBack` | a row dated in a month to come counts in the present balance and is not rolled back from it |
| `Projection` | `BalanceIsTheLedgers` | the cache is kept per horizon and nothing empties it when rows are booked (`forecast_service.py:342`): drawn from it, the line starts where the ledger stood when the forecaster ran |
| `Projection` | `PlansAheadAreOnTheLine` | the rows read have no upper day (`forecast_service.py:278`): an occurrence on a day to come that has a row already, or before the first point the forecast gives, is not on the line |
| `Rates` | `LookupsAlwaysAgree` | one direction recorded later hides the other from the loaded history, and the lookup in the database still finds it |
| `CrudPages` | `FormsAreOfOneRow` | on the categories page the identifier and the name are set before the parents are loaded, and the parent after (`categories.py:160`): of two openings that cross, the later to load leaves its parent in the other's form |
| `CrudPages` | `EverySaveHitsItsRow`, `EveryNoticeIsTrue` | the loans page reads its target after an await; some pages report a save of a row deleted elsewhere |
| `Panels` | `EveryApplyReviewed` | the annual review applies what a later load brought |
| `Panels` | `DialogOnlyTicks` | saving the dialog puts back an arrangement changed in another tab |


## Proofs

The theorems hold for every value of the constants that satisfies the named
assumptions of the modules: any members, rows, requests, tabs, sessions, files
and bounds.  The assumptions say that a bound is a number, that the founding
owner is a founding member, that data key numbers fit the version byte
(`MaxDek \in 1 .. 254`), that there is a slot to serve requests, that the times
to live are positive, that finitely many submissions are made to the rate
limiter, and that a value which stands for "none" is no real one
(`0 \notin PlanIds`).  The theorems about amounts add what the program checks
before it stores a row: amounts are not negative and the lines of a split add up
to it (`FiguresAssumption`; `schemas/transaction.py:93`), funds are backed by
accounts there are (`FundsAssumption`), and a line is drawn only from a positive
number of days of history (`ProjectionAssumption`; the code asks for 14).  Days
and ids are numbers, and the sets summed over are finite.  TLC evaluates each of
them on the runs' instances.

Every proof of an invariant has one shape: an inductive invariant, that it holds
at the start, that each action keeps it (a lemma or a step per action), that it
implies the property.  TLC checked each inductive invariant on the instance of
its run before it was proved, but for the parts it cannot evaluate (what
`ProjectionInv` says of every line that could be drawn).

### The household (`HouseholdProofs`)

* `TypeCorrect` — every value stored or held by a request has its type, all
  operations, failures and restarts allowed.
* `RekeyExclusive`, `RekeyStaysFrozen`, `MarkNeverLeft`, from `RekeyInductive`,
  for any number of overlapping requests when `"suspend" \notin Ops`.  That two
  re-keys exclude each other does not follow from the mark alone: a request may
  have read the household before the mark was set.  `RekeyInv` adds that
  whatever a request captured is no newer than the present key and version
  (`VersionsBehind`, `CapturedBehind`), that a request past its claim holds the
  mark and, from its freeze on, the freeze (`MarkHeld`), and that once it has
  committed every rival still waiting holds an older version, which the check
  at the claim refuses (`OthersBehind`).  Two hypotheses are needed.  Suspending
  and resuming clears the mark.  And a re-key that fails clears its mark before it
  thaws: a rival that claims between the two loses its freeze to the other's
  thaw, so the statements about the mark and the freeze are of households where
  that has not happened since the process started (`~overtook`).
* `OneOwnerAlone`, `ActiveCanOpenAlone`, `OutsidersShutOutAlone`,
  `RingCurrentAlone`, from `AloneInductive`, under `OneAtATime` (one slot).  The
  conjunction is inductive only with what a request relies on after an await:
  `RequestStands` says that the rows it loaded are the rows that are there, that
  the holders it counted are all the holders, that the values it read are the
  stored ones — and `RowsAreCurrent`, that no value is under another key, since a
  re-key can only move what it can read.
* `PromiseKept` — under `OneAtATime`, `Household` implements `HouseholdPromise`:
  initial states map to initial states and each step, failed and interrupted
  ones included, to one atomic operation or to none.  A removal takes effect at
  the commit of its re-key, an unlock and a check are stutters.
* `LedgerStaysOpen`, `OneOwnerCrossed` — with any number of requests crossing,
  suspensions included, when nobody transfers the ownership, changes a
  passphrase or recovers (`KeepsTheirPlace`).  `OwnerInv`: the founding owner
  is active and holds the present key, the others are members, and no request
  in flight is about to remove, reset or overwrite the owner.  The operations
  left out are the ones whose races are listed above.

### The second factor (`SecondFactorProofs`)

* `FactorTypeCorrect`; `FactorKeepsCodes`: a factor that is on has codes;
  `FactorReplacesWhatItSaw`: a set in force is replaced only by a request that
  read it.  All operations, any number of tabs.
* `CodeWorksOnce`, from `CodesInductive`, when `"disable" \notin Ops`.
  `CodesInv` says that what the row still lets in was never accepted
  (`RowUnspent`), that secrets and sets not yet issued were never used
  (`NewSecret`, `NewSet`), that what a request read is the row's or older
  (`ReadStands`), and that it holds a code of the secret it read (`ProofFits`).

### Access (`AccessProofs`)

* `SessionStartsLocked` — `KeyInv`: every session in the store is well formed,
  and unlocked keys and guards name sessions that were issued, so that the fresh
  identifier of a sign-in has none.
* `RevocationsSeenInTime` — `WatermarkInv`: a watermark in the cache, or loaded
  by a guard, is the present one or was read before the last revocation
  (`Abreast`).
* `KeyGuessesBounded` — `RateInv` counts: while the key is open, each wrong
  guess is charged to the counter, to a submission about to count it, or to what
  was missed; once it is locked, they leave room for the submissions in flight.
  A cardinality argument over a finite set of submissions.
* `RegistryUserNeedsSchema`, `RegistryKeepsAnAdmin`, wherever the process stops.
* `HostedCodesRecoverOnce` — `CodesSound`: the set of the row, and the sets of
  enrolments under way, are unspent and differ from each other.
* `InvitedLoginsAreKept` — `StrayInv`: an address with a pending place has a
  spent invitation, a login made through a link is no older than its invitation,
  and a login without a place is one a joiner in flight is about to use or one a
  decline is about to delete, unless the process stopped.

### Money (`MoneyProofs`)

* `LoansLinkedOnce` — `LinkInv`: the unique indexes keep loans apart and
  repayments apart whatever crosses; that no transaction is on a loan and on a
  repayment is checked before an await only, and holds while requests do not
  cross: then what a clerk found free is still free when it writes (`StillFree`).
* `TransfersLinkedBothWays` under `OnePairing` — `PairInv`: links are mutual,
  and the legs a pairing checked are still free when it writes.
* `UndoneMergesStayUndone` — `ApartInv`: an undone pair is dismissed, and
  a scan under way holds no undone pair, because an undo brings the payee back
  under a new id.
* `OccurrencesPostedOnce` — `PostInv`: an occurrence was posted at most once
  more than its row was let go, and in that case its row is in the ledger
  (`Standing`), so that a second posting finds it.
* `CategoryMergesKeepMoney` — an action property; the invariant is that every
  entry has a category field.
* `HistoryTellsTheRows` — `AuditInv`: besides the journal (`JournalTells`) it
  follows each session under way: what it holds, what it has written and not
  flushed, what it wrote past the listeners, and the entries it will append at
  its commit (`UnderWay`).
* `BothLookupsAgree` — no induction but an algebraic argument: both lookups
  come down to the newest row of the family on or before the date, or else to
  the newest mid.

* `NetsAddUp` (`GroupNetsAddUp`) — `ViewInv`: rows have ids of their own, so
  that both orders of the ledger are total and a list has each row once.  In a
  list by falling day a bucket is one stretch (`StartsApart`); the rows under a
  separator, found from the last separator at or above each row, are those up to
  the end of its group (`GroupIs`); a group that shows no net, and an upcoming
  row, count nothing.

### Amounts (`SumProofs`, `AmountsProofs`)

The sums of the models are folds, and their proofs would take an induction over
the rows.  `SumProofs` goes round it: of a set of finite sets some member is
least (`LeastSet`), so a law of sums that fails, fails on a least set, and is
refuted there by taking one element away.  From that it derives what the other
modules cite: sums of parts (`SumUnion`), of equal terms, of changes, by key
(`SumByKey`), of numbered rows (`SumNumbered`), and that a finite set in an order
can be arranged, so that `Arranged` is what it says (`ArrangedIs`).

* `FundsKeepMoney`, `GoalsKeepMoney` — `MoneyInv`: what the accounts hold and
  what was paid from them is what there was, since the two legs of a transfer
  cancel out and a link moves nothing.  `GoalsInv`: unless two requests on one goal
  overlapped, the balance a closing read is still the goal's, and it becomes zero
  when the money is released, so that closing again after a crash releases
  nothing more.  The second theorem has a hypothesis, `OwnAccounts`: no two goals,
  and no goal and irregular fund, share a backing account.  The dialog
  offers every account (`safety_funds.py:198`) and nothing in
  `reserve_fund_service.py` refuses one that backs another fund; where two goals
  share one, two closings at once both release the whole of it.
* `OneMonthOneFigure` (`FiguresAgree`) — `BooksInv` says little; the argument is
  algebra of sums: a row is its lines, the lines of a month by category are all of
  them, moving a loan's lines or folding the small ones into "Other" moves terms
  from one group to another, and the rows from a day on, taken by month and type,
  are for each month the month's rows (`CashflowTotals`; a month without rows is
  nothing, `NoAmounts`).
* `LineHasThePlans` (`PlansAreOnTheLine`) — `ProjectionInv`: rows in the cache,
  in a request under way and on a screen are rising days of history and then every
  day up to the horizon (`Line`, `DrawnFrom`), whatever is booked and whichever day it is by then.
  Rows booked for days to come are part of the history, whose last day may lie
  past today.  On such rows every occurrence that has a point of the forecast
  falls on exactly one, and the running sum has it from there on; the property
  says which those are (`Reaches`, `BookedDays`, `GivenUpTo`).

### Pages (`PagesProofs`)

* `SavesKeepTheirRow` (`NoRowTakesAnothersForm`) — for any number of handlers at
  their awaits: a form on screen, and a save on its way, name the row their
  fields were filled from (`InTune`, `OnItsRow`), although the identifier is
  shared with the question before a deletion and forms load before they open.
* `LedgerPaintsNewest` — `LedgerInv`: while the newest load is under way the table
  is empty, and once it has read, the controls are as it read them, and so is the
  ledger unless a save is still to ask again.
* `ChartFollowsRun` — `ForecastInv`: one run is out at a time and nothing is
  drawn under it; what is drawn afterwards is the answer to what was asked.
* `ImportsBookOnce` — `ImportInv`: one run at a time (`OneRun`), so what it
  found not booked is still not booked when it writes it (`NotBooked`); its
  rows are of one file, in the queue or held by the run (`RunOf`, `InHand`),
  whatever is removed from the page meanwhile.

### Only model-checked

* Liveness under fairness: `FreezeEnds`, `CancellationSettles`.
* What recursive definitions compute: `WindowsSplit` (`Calendar`) and
  `RestoredIsExported` (`Store`), whose modules declare RECURSIVE operators.
* `PruningSound`, whose edit distance is a recursion over two words: that the
  bounds hold for every pair of words is an induction over data.

Every other property of a passing run is the conclusion of a theorem above.

## Not modelled

Background jobs and operational events (timers over idempotent statements, a
log), the REST API (a translation of HTTP to the services modelled here; its
guards are in `Sessions`) and presentation are not modelled.  Within the
modelled parts the following are left out: the first encryption of a plain
ledger; blind indexes apart from their rows; several unlock sessions of one
member; row identifiers that SQLite uses again; the step-up age of a session and
the OAuth redirect; attachments and exports of transactions; usage counts,
ratios and averages of reports; the text of numbers, dates and encodings in
imported files; Prophet's model; layout.  `PROJECT.json` says so component by
component.

Noticed while reading, without a property here: the status `OVERDUE` is never
reached (`credit_service.py:272`); two categories of one name share a budget in the
variance report (`report_service.py:767`); `SubscriptionService.create` drops
the notes; creating a credit account commits the account before its profile; an
"Add" pressed twice adds two rows; a yearly plan that fails half-way leaves the
months already written; an unlock in flight across a logout leaves its key in
the ring until the time-out.

## What is left

1. Proofs of properties the modules state beside those of the runs:
   `SignedInIdsAreNew`, `GroupsDisjoint`, `LegsWhole`, `PlacesBounded`,
   `DismissedStayGone`, and the conjuncts of `PruningSound` that compare
   without summing.
2. `RekeyInductive` with suspensions, for re-keys whose mark is not cleared.
3. The first encryption of a plain ledger, as a third story of `Household`.
