-------------------------------- MODULE RateLimit ---------------------------------
(***************************************************************************)
(* Failed-attempt counters and the mail throttle, kept in a store that     *)
(* several replicas share (auth/login_rate_limit.py), as the sign-in page, *)
(* the code page and the administrator's step-up use them (views/login.py, *)
(* views/login_mfa.py, auth/admin.py).                                     *)
(*                                                                         *)
(* One key.  An attempt looks at the lock, then awaits the check of the    *)
(* credential, then counts a failure or clears the key.  Each call of the  *)
(* store is a step: the store is another process when it is Redis, and a   *)
(* replica may die, or Redis stop answering, between any two of them.      *)
(***************************************************************************)
EXTENDS Integers, FiniteSets

CONSTANTS
    Attempts,       \* submissions that may be in flight at once
    MaxFailures,    \* LoginRateLimiter.max_failures
    Window,         \* LoginRateLimiter.window_seconds
    Interval,       \* SendThrottle.interval_seconds
    MaxMissed,      \* bound: calls of the store that fail or are never made
    Clock           \* bound: ticks

ASSUME RateAssumption ==
    /\ MaxFailures \in Nat \ {0} /\ Window \in Nat \ {0}
    /\ Interval \in Nat \ {0} /\ Clock \in Nat /\ MaxMissed \in Nat
    /\ IsFiniteSet(Attempts)

VARIABLES
    tick,
    failures,   \* the counter of the key
    expires,    \* when the counter goes; 0 when it has none (Redis: TTL -1)
    lockedTill, \* the lock of the key
    attempt,    \* per submission: where it is
    wrong,      \* failed guesses since the key was last forgiven or locked out
    missed,     \* history: of those, failures that were not counted (or whose
                \* count a late reset deleted), and thresholds not dealt with
    mailLock,   \* SendThrottle: no mail before this
    mailer,     \* per submission: a resend that saw the throttle free
    mailed      \* when the last two mails went

rateVars == <<tick, failures, expires, lockedTill, attempt, wrong, missed, mailLock, mailer,
              mailed>>

Phases == {"idle", "checking", "failed", "counted", "locking", "resetting"}

RateTypeOK ==
    /\ tick \in 0 .. Clock
    /\ failures \in Nat /\ expires \in 0 .. (Clock + Window) /\ lockedTill \in 0 .. (Clock + Window)
    /\ attempt \in [Attempts -> [at : Phases, count : Nat, due : 0 .. (Clock + Window)]]
    /\ wrong \in Nat /\ missed \in [count : Nat, lock : Nat]
    /\ mailLock \in 0 .. (Clock + Interval)
    /\ mailer \in [Attempts -> BOOLEAN]
    /\ mailed \in (0 .. Clock \cup {-1}) \X (0 .. Clock \cup {-1})

Resting == [at |-> "idle", count |-> 0, due |-> 0]
NoneMissed == [count |-> 0, lock |-> 0]

\* The clock of a process that has run for a while: stamps are never 0.
RateInit ==
    /\ tick = 1
    /\ failures = 0 /\ expires = 0 /\ lockedTill = 0
    /\ attempt = [a \in Attempts |-> Resting]
    /\ wrong = 0 /\ missed = NoneMissed
    /\ mailLock = 0
    /\ mailer = [a \in Attempts |-> FALSE]
    /\ mailed = <<-1, -1>>

-----------------------------------------------------------------------------
(* Attempts *)

\* LoginRateLimiter.is_locked
IsLocked == tick < lockedTill

\* Mutant of Submit: the lock is only looked at when a failure is recorded.
Submit_Unchecked(a) ==
    /\ attempt[a].at = "idle"
    /\ attempt' = [attempt EXCEPT ![a].at = "checking"]
    /\ UNCHANGED <<tick, failures, expires, lockedTill, wrong, missed, mailLock, mailer, mailed>>

\* _submit of the sign-in page, _submit of the code page, prove_admin: a locked
\* key is refused before the credential is looked at
Submit(a) ==
    /\ attempt[a].at = "idle"
    /\ ~ IsLocked
    /\ attempt' = [attempt EXCEPT ![a].at = "checking"]
    /\ UNCHANGED <<tick, failures, expires, lockedTill, wrong, missed, mailLock, mailer, mailed>>

\* The provider accepts: LoginRateLimiter.clear (a clear that raises is logged
\* and the sign-in goes on, which for the key is Unanswered)
Right(a) ==
    /\ attempt[a].at = "checking"
    /\ attempt' = [attempt EXCEPT ![a] = Resting]
    /\ failures' = 0 /\ expires' = 0 /\ lockedTill' = 0
    /\ wrong' = 0 /\ missed' = NoneMissed
    /\ UNCHANGED <<tick, mailLock, mailer, mailed>>

\* The provider refuses; record_failure looks at the lock first.  A wrong code
\* and a wrong password count alike; an unverified address counts nothing.
Wrong(a) ==
    /\ attempt[a].at = "checking"
    /\ wrong' = wrong + 1
    /\ attempt' = [attempt EXCEPT ![a] = IF IsLocked THEN Resting ELSE [@ EXCEPT !.at = "failed"]]
    /\ UNCHANGED <<tick, failures, expires, lockedTill, missed, mailLock, mailer, mailed>>

\* The provider is down, the address is not verified, the row is unreadable:
\* nothing is counted
Unanswered(a) ==
    /\ attempt[a].at = "checking"
    /\ attempt' = [attempt EXCEPT ![a] = Resting]
    /\ UNCHANGED <<tick, failures, expires, lockedTill, wrong, missed, mailLock, mailer, mailed>>

\* MemoryStore.add_failure: an expired counter starts again
Counted == IF expires # 0 /\ tick >= expires THEN 1 ELSE failures + 1

\* RedisStore.add_failure, first call: INCR and TTL in one pipeline
AddFailure(a) ==
    /\ attempt[a].at = "failed"
    /\ failures' = Counted
    /\ expires' = IF expires # 0 /\ tick >= expires THEN 0 ELSE expires
    /\ attempt' = [attempt EXCEPT ![a] = [at |-> "counted", count |-> Counted, due |-> tick]]
    /\ UNCHANGED <<tick, lockedTill, wrong, missed, mailLock, mailer, mailed>>

\* RedisStore.add_failure, second call: a counter without an expiry gets one
SetExpiry(a) ==
    /\ attempt[a].at = "counted"
    /\ expires' = IF expires = 0 /\ failures # 0 THEN tick + Window ELSE expires
    /\ attempt' = [attempt EXCEPT ![a] =
                     IF @.count < MaxFailures THEN Resting ELSE [@ EXCEPT !.at = "locking"]]
    /\ UNCHANGED <<tick, failures, lockedTill, wrong, missed, mailLock, mailer, mailed>>

\* LoginRateLimiter.record_failure at the threshold: lock ...
\* `current` was read when the failure was recorded.
LockKey(a) ==
    /\ attempt[a].at = "locking"
    /\ lockedTill' = attempt[a].due + Window
    /\ attempt' = [attempt EXCEPT ![a].at = "resetting"]
    /\ UNCHANGED <<tick, failures, expires, wrong, missed, mailLock, mailer, mailed>>

\* ... then reset_failures, which deletes whatever the counter holds by now: a
\* right password may have cleared the lock and others failed since
ResetFailures(a) ==
    /\ attempt[a].at = "resetting"
    /\ failures' = 0 /\ expires' = 0
    /\ attempt' = [attempt EXCEPT ![a] = Resting]
    /\ missed' = IF IsLocked THEN missed ELSE [missed EXCEPT !.count = @ + failures]
    /\ UNCHANGED <<tick, lockedTill, wrong, mailLock, mailer, mailed>>

\* record_failure raises at one of its calls (the page says the limiter is not
\* available), or the process dies there.  A count it took stays, with or
\* without an expiry: the next failure that finds none gives it one.
Unheard(a) ==
    /\ attempt[a].at \in {"failed", "counted", "locking", "resetting"}
    /\ missed.count + missed.lock < MaxMissed
    /\ missed' = IF attempt[a].at = "failed" THEN [missed EXCEPT !.count = @ + 1]
                 ELSE IF attempt[a].count >= MaxFailures THEN [missed EXCEPT !.lock = @ + 1] ELSE missed
    /\ attempt' = [attempt EXCEPT ![a] = Resting]
    /\ UNCHANGED <<tick, failures, expires, lockedTill, wrong, mailLock, mailer, mailed>>

-----------------------------------------------------------------------------
(* Mail *)

\* SendThrottle.allow: read, then set, two calls of the store
AllowRead(a) ==
    /\ ~ mailer[a]
    /\ tick >= mailLock
    /\ mailer' = [mailer EXCEPT ![a] = TRUE]
    /\ UNCHANGED <<tick, failures, expires, lockedTill, attempt, wrong, missed, mailLock, mailed>>

AllowSend(a) ==
    /\ mailer[a]
    /\ mailLock' = tick + Interval
    /\ mailed' = <<mailed[2], tick>>
    /\ mailer' = [mailer EXCEPT ![a] = FALSE]
    /\ UNCHANGED <<tick, failures, expires, lockedTill, attempt, wrong, missed>>

\* The next tick is past the counter's expiry.
CounterEnds == expires # 0 /\ tick + 1 >= expires

\* Time passes when no submission is between two calls of the store.  The
\* guesses of a window or a lock that is over no longer count, nor what was
\* missed of them, unless the counter stayed at the threshold.
Advance ==
    /\ tick < Clock
    /\ \A a \in Attempts : attempt[a].at \in {"idle", "checking"} /\ ~ mailer[a]
    /\ tick' = tick + 1
    /\ LET over == tick + 1 = lockedTill \/ CounterEnds
       IN  /\ wrong' = IF over THEN 0 ELSE wrong
           /\ missed' = IF over /\ (CounterEnds \/ failures < MaxFailures) THEN NoneMissed ELSE missed
    /\ UNCHANGED <<failures, expires, lockedTill, attempt, mailLock, mailer, mailed>>

RateNext ==
    \/ \E a \in Attempts : Submit(a) \/ Right(a) \/ Wrong(a) \/ Unanswered(a)
    \/ \E a \in Attempts : AddFailure(a) \/ SetExpiry(a) \/ LockKey(a) \/ ResetFailures(a) \/ Unheard(a)
    \/ \E a \in Attempts : AllowRead(a) \/ AllowSend(a)
    \/ Advance

RateSpec == RateInit /\ [][RateNext]_rateVars
-----------------------------------------------------------------------------
(* Properties *)

\* However the submissions of several replicas interleave, and wherever the
\* store fails or a replica dies, a key is given at most MaxFailures - 1 wrong
\* guesses plus the ones already in flight before it is locked, and one more
\* for each failure that was not counted and each threshold that was not dealt
\* with to the end (LoginRateLimiter.record_failure).
GuessesBounded == wrong < MaxFailures + Cardinality(Attempts) + missed.count + missed.lock

\* A lock ends Window after the failure that caused it and not later: wrong
\* guesses of the submissions that were in flight do not move it by more than
\* the ticks they were in flight (the class docstring's "a moment later").
LockNotExtended ==
    [][(IsLocked /\ lockedTill' > lockedTill) => lockedTill' <= tick + Window]_rateVars

\* At most one mail per key and interval, also across replicas (SendThrottle).
OneMailPerInterval == mailed[1] # -1 => mailed[2] - mailed[1] >= Interval
=============================================================================
