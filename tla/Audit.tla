----------------------------------- MODULE Audit ----------------------------------
(***************************************************************************)
(* The change history: listeners on the database session record what a     *)
(* flush writes (db/audit.py); the settings page lists, reverts and clears *)
(* the entries (services/audit_service.py, views/settings/history_tab.py). *)
(*                                                                         *)
(* Several sessions work on the same rows.  A session reads rows into      *)
(* memory, changes them, flushes (which takes the row's lock until the     *)
(* transaction ends) and commits; a flush may be refused by the database,  *)
(* and then the whole transaction rolls back.  A row is a value, Gone when *)
(* it is not there.  Statements no object stands behind pass no listener:  *)
(* the updates and deletes a service sends for many rows at once, what the *)
(* foreign keys do to the rows that point at a deleted one, and a revert.  *)
(***************************************************************************)
EXTENDS Integers, Sequences, FiniteSets, FiniteSetsExt, SequencesExt, Tables

CONSTANTS
    AuditSessions,
    Records,        \* ids of rows of one audited table
    Values,         \* numbers from 1 on
    MaxAudited,     \* MAX_AUDIT_ENTRIES
    MaxAuditSteps   \* bound: transactions, changes and requests begun

ASSUME AuditAssumption == MaxAudited \in Nat /\ 1 \in Values

VARIABLES
    rows,       \* the table as committed: record -> value or Gone
    journal,    \* audit_log as committed: a sequence of entries
    work,       \* per session: its transaction
    used,       \* ids of records the database has given out
    given,      \* entry ids given out
    untold,     \* history: records whose last write no listener saw
    auditSteps

auditVars == <<rows, journal, work, used, given, untold, auditSteps>>

Gone == 0
NoWork == [state |-> "idle", seen |-> <<>>, now |-> <<>>, dirty |-> {}, held |-> {}, pending |-> <<>>,
         silent |-> {}, entries |-> <<>>, target |-> 0]

Locked(r) == \E s \in AuditSessions : r \in work[s].held
Entry(op, r, old, new) == [id |-> 0, op |-> op, record |-> r, old |-> old, new |-> new, reverted |-> FALSE]
\* What a flush would record: the value read against the value in memory.
Noted(w, r) ==
    Entry(IF w.seen[r] = Gone THEN "INSERT" ELSE IF w.now[r] = Gone THEN "DELETE" ELSE "UPDATE",
          r, w.seen[r], w.now[r])

\* A transaction begins: the session reads the rows it is about to change.
BeginWork(s) ==
    /\ work[s].state = "idle"
    /\ auditSteps < MaxAuditSteps
    /\ auditSteps' = auditSteps + 1
    /\ work' = [work EXCEPT ![s] = [NoWork EXCEPT !.state = "open", !.seen = rows, !.now = rows]]
    /\ UNCHANGED <<rows, journal, used, given, untold>>
\* A new row has an id of its own; a deleted one is not brought back by the session.
Modify(s) ==
    /\ work[s].state = "open"
    /\ work[s].dirty = {}
    /\ auditSteps < MaxAuditSteps
    /\ auditSteps' = auditSteps + 1
    /\ \E r \in Records, v \in Values \cup {Gone} :
          /\ v # work[s].now[r]
          /\ work[s].now[r] = Gone => r \notin used
          /\ used' = used \cup {r}
          /\ work' = [work EXCEPT ![s].now[r] = v, ![s].dirty = {r}]
    /\ UNCHANGED <<rows, journal, given, untold>>
\* before_flush notes the change, the database is asked for the row.
BeforeFlush(s) ==
    /\ work[s].state = "open"
    /\ \E r \in work[s].dirty :
          /\ ~Locked(r) \/ r \in work[s].held
          /\ work' = [work EXCEPT ![s].state = "flushing", ![s].held = @ \cup {r},
                                  ![s].pending = Append(@, Noted(work[s], r))]
    /\ UNCHANGED <<rows, journal, used, given, untold, auditSteps>>
\* Refused when the row to update has gone, or the id to insert is there.
WriteRefused(s) ==
    \E r \in work[s].dirty :
        \/ work[s].seen[r] # Gone /\ work[s].now[r] # Gone /\ rows[r] = Gone
        \/ work[s].seen[r] = Gone /\ rows[r] # Gone
\* after_flush_postexec turns what was noted into entries of the same transaction.
AfterFlush(s) ==
    /\ work[s].state = "flushing"
    /\ ~WriteRefused(s)
    /\ work' = [work EXCEPT ![s].state = "open", ![s].entries = @ \o work[s].pending,
                            ![s].pending = <<>>, ![s].dirty = {},
                            ![s].silent = @ \ work[s].dirty, ![s].seen = work[s].now]
    /\ UNCHANGED <<rows, journal, used, given, untold, auditSteps>>
\* An update() or delete() of the service, or a cascade: what was changed in memory is
\* flushed first, the statement finds the row as it is now, and writes no entry.
WritePastListeners(s) ==
    /\ work[s].state = "open" /\ work[s].dirty = {}
    /\ auditSteps < MaxAuditSteps
    /\ auditSteps' = auditSteps + 1
    /\ \E r \in Records, v \in Values \cup {Gone} :
          /\ ~Locked(r) \/ r \in work[s].held
          /\ (IF r \in work[s].held THEN work[s].now[r] ELSE rows[r]) # Gone
          /\ work' = [work EXCEPT ![s].now[r] = v, ![s].seen[r] = v, ![s].held = @ \cup {r},
                                  ![s].silent = @ \cup {r}]
    /\ UNCHANGED <<rows, journal, used, given, untold>>
\* after_rollback forgets what was noted; the session can be used again.
\* Mutant of RolledBack: what was noted stays in the session.
RolledBack_Kept(w) == [NoWork EXCEPT !.pending = w.pending]
RolledBack(w) == NoWork
\* The database refuses the flush, or the request fails: the transaction is undone and the
\* session tries again with what the table holds now.
FlushFails(s) ==
    /\ work[s].state = "flushing"
    /\ work' = [work EXCEPT ![s] = [RolledBack(work[s]) EXCEPT !.state = "open", !.seen = rows, !.now = rows]]
    /\ UNCHANGED <<rows, journal, used, given, untold, auditSteps>>
Rollback(s) ==
    /\ work[s].state = "open"
    /\ work' = [work EXCEPT ![s] = RolledBack(work[s])]
    /\ UNCHANGED <<rows, journal, used, given, untold, auditSteps>>
CommitWrites(s) ==
    /\ work[s].state = "open"
    /\ work[s].dirty = {}
    /\ rows' = [r \in Records |-> IF r \in work[s].held THEN work[s].now[r] ELSE rows[r]]
    /\ journal' = journal \o [i \in DOMAIN work[s].entries |->
                               [work[s].entries[i] EXCEPT !.id = given + i]]
    /\ given' = given + Len(work[s].entries)
    /\ untold' = (untold \ work[s].held) \cup work[s].silent
    /\ work' = [work EXCEPT ![s] = NoWork]
    /\ UNCHANGED <<used, auditSteps>>

\* revert(): the entry is read, then its effect undone by a plain statement.
RevertTo(e, current) ==
    CASE e.op = "INSERT" -> Gone
      [] e.op = "DELETE" -> e.old
      [] e.op = "UPDATE" -> IF current = Gone THEN Gone ELSE e.old
IndexOf(id) == {i \in DOMAIN journal : journal[i].id = id}
ReadEntry(s) ==
    /\ work[s].state = "idle"
    /\ auditSteps < MaxAuditSteps
    /\ \E i \in DOMAIN journal :
          /\ ~journal[i].reverted
          /\ work' = [work EXCEPT ![s] = [NoWork EXCEPT !.state = "reverting", !.target = journal[i].id]]
    /\ auditSteps' = auditSteps + 1
    /\ UNCHANGED <<rows, journal, used, given, untold>>
\* The insert that brings a deleted row back is refused when the row is there; an entry
\* that was trimmed or cleared meanwhile fails the flush of its flag.
RevertEntry(s) ==
    \E i \in IndexOf(work[s].target) :
       LET e == journal[i] IN
       /\ work[s].state = "reverting"
       /\ ~Locked(e.record)
       /\ ~(e.op = "DELETE" /\ rows[e.record] # Gone)
       /\ rows' = [rows EXCEPT ![e.record] = RevertTo(e, @)]
       /\ journal' = [journal EXCEPT ![i].reverted = TRUE]
       /\ work' = [work EXCEPT ![s] = NoWork]
       /\ untold' = untold \cup {e.record}
       /\ UNCHANGED <<used, given, auditSteps>>
RevertRefused(s) ==
    /\ work[s].state = "reverting"
    /\ \A i \in IndexOf(work[s].target) :
          journal[i].op = "DELETE" /\ rows[journal[i].record] # Gone
    /\ work' = [work EXCEPT ![s] = NoWork]
    /\ UNCHANGED <<rows, journal, used, given, untold, auditSteps>>

\* list_entries(): showing the history trims it.
ListEntries ==
    /\ Len(journal) >= MaxAudited
    /\ journal' = SubSeq(journal, Len(journal) - MaxAudited + 1, Len(journal))
    /\ UNCHANGED <<rows, work, used, given, untold, auditSteps>>
Clear ==
    /\ journal # <<>>
    /\ journal' = <<>>
    /\ UNCHANGED <<rows, work, used, given, untold, auditSteps>>

AuditInit ==
    /\ rows \in [Records -> {Gone, 1}]
    /\ journal = <<>>
    /\ work = [s \in AuditSessions |-> NoWork]
    /\ used = {r \in Records : rows[r] # Gone}
    /\ given = 0
    /\ untold = {}
    /\ auditSteps = 0
AuditNext ==
    \/ \E s \in AuditSessions :
          \/ BeginWork(s) \/ Modify(s) \/ BeforeFlush(s) \/ AfterFlush(s) \/ FlushFails(s)
          \/ WritePastListeners(s) \/ Rollback(s) \/ CommitWrites(s)
          \/ ReadEntry(s) \/ RevertEntry(s) \/ RevertRefused(s)
    \/ ListEntries \/ Clear
AuditSpec == AuditInit /\ [][AuditNext]_auditVars

-----------------------------------------------------------------------------
(* Properties.                                                             *)

AuditTypeOK ==
    /\ rows \in [Records -> Values \cup {Gone}]
    /\ \A i \in DOMAIN journal : journal[i].record \in Records
    /\ \A s \in AuditSessions : work[s].held \subseteq Records
    /\ used \subseteq Records /\ untold \subseteq used /\ auditSteps \in 0 .. MaxAuditSteps

About(r) == {i \in DOMAIN journal : journal[i].record = r}
\* The history tells what is there: of a row whose last write the listeners saw, the newest
\* entry names the value the row has, and says it is gone when it is, whatever sessions
\* overlapped, were refused or rolled back, whatever was written past the listeners before
\* (_before_flush, _after_flush_postexec, _after_rollback).
NewestEntryTells ==
    \A r \in Records :
        About(r) # {} /\ r \notin untold =>
            journal[Max(About(r))].new = rows[r]

\* A row comes back only as an entry says it was deleted, and that entry says from then
\* on that it was reverted, whatever is trimmed, cleared or reverted meanwhile (revert).
RevertedRowIsTheOldOne ==
    [][\A r \in Records :
         rows[r] = Gone /\ rows'[r] # Gone /\ Len(journal') = Len(journal) =>
            \E i \in About(r) : journal[i].op = "DELETE" /\ journal[i].old = rows'[r]
                                /\ journal'[i].reverted]_auditVars

\* The history tells of every row: not of one written past the listeners.
NewestEntryAlwaysTells ==
    \A r \in Records : About(r) # {} => journal[Max(About(r))].new = rows[r]

\* "after_commit: trim the table to MAX_AUDIT_ENTRIES" (db/audit.py).
HistoryBounded == Len(journal) <= MaxAudited
=============================================================================
