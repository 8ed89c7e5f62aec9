----------------------------------- MODULE Funds ----------------------------------
(***************************************************************************)
(* Reserve funds, savings goals, irregular expenses and gifts              *)
(* (services/reserve_fund_service.py, services/irregular_item_service.py,  *)
(* services/gift_service.py).                                              *)
(*                                                                         *)
(* A goal holds the money of its backing account: contributing moves money *)
(* in, closing moves all of it out and archives the goal, in two           *)
(* transactions.  An irregular fund is fed by a planned monthly transfer   *)
(* found again by the names of its two accounts, pays for its items, and   *)
(* the first active one also carries the yearly total of the gifts.        *)
(* All accounts here are of one currency.                                  *)
(***************************************************************************)
EXTENDS Integers, Sequences, FiniteSets, FiniteSetsExt, SequencesExt, Tables

CONSTANTS
    Goals,          \* goal -> its backing account
    Irregulars,     \* irregular fund -> its backing account; funds are numbers
    FundAccounts,   \* every account, the one the money comes from too
    Wallet,         \* that account
    Callers,        \* requests that may be under way at once
    MaxMoves        \* bound: operations

ASSUME FundsAssumption ==
    /\ IsFiniteSet(FundAccounts) /\ Wallet \in FundAccounts /\ MaxMoves \in Nat
    /\ Goals \in [DOMAIN Goals -> FundAccounts] /\ Irregulars \in [DOMAIN Irregulars -> FundAccounts]

VARIABLES
    entry,      \* transactions: a sequence of [account, kind, amount, item, gift]
    closed,     \* archived funds
    item,       \* irregular_items: id -> [fund, yearly]
    gift,       \* gifts: id -> planned amount
    transfer,   \* active planned transfers: a set of [id, to, route, amount]
    called,     \* accounts -> how many times renamed
    caller,     \* per request: what it read, between its transactions
    moves,      \* operations so far
    doubled     \* two requests on one fund overlapped

fundVars == <<entry, closed, item, gift, transfer, called, caller, moves, doubled>>

Waiting == [does |-> "nothing"]
Unset == 0
Opened == 9     \* what the wallet starts with

FundsTypeOK ==
    /\ \A i \in 1 .. Len(entry) : entry[i].account \in FundAccounts /\ entry[i].amount > 0
    /\ closed \subseteq DOMAIN Goals \cup DOMAIN Irregulars
    /\ \A i \in DOMAIN item : item[i].fund \in DOMAIN Irregulars
    /\ moves \in 0 .. MaxMoves

FundsInit ==
    /\ entry = <<[account |-> Wallet, kind |-> "income", amount |-> Opened, item |-> Unset, gift |-> Unset]>>
    /\ closed = {} /\ item = <<>> /\ gift = <<>> /\ transfer = {}
    /\ called = [a \in FundAccounts |-> 0]
    /\ caller = [c \in Callers |-> Waiting] /\ moves = 0 /\ doubled = FALSE

------------------------------------------------------------------------------
Incoming(e) == e.kind \in {"income", "in"}
Signed(e) == IF Incoming(e) THEN e.amount ELSE -e.amount
EntriesOf(a) == {i \in 1 .. Len(entry) : entry[i].account = a}
Balance(a) == SumOf([i \in EntriesOf(a) |-> Signed(entry[i])])

Leg(a, kind, amount) == [account |-> a, kind |-> kind, amount |-> amount, item |-> Unset, gift |-> Unset]

\* Mutant of MoveMoney: only the leg that leaves is written.
MoveMoney_OneLeg(from, to, amount) == entry' = Append(entry, Leg(from, "out", amount))

\* Both legs of a transfer are one commit.
MoveMoney(from, to, amount) == entry' = entry \o <<Leg(from, "out", amount), Leg(to, "in", amount)>>

Did == moves < MaxMoves /\ moves' = moves + 1
Overlaps(f) == doubled \/ \E o \in Callers : caller[o] # Waiting /\ caller[o].fund = f

\* _goal refuses a closed goal; the money then moves.
Contribute(g, amount) ==
    /\ Did /\ g \notin closed
    /\ MoveMoney(Wallet, Goals[g], amount)
    /\ doubled' = Overlaps(g)
    /\ UNCHANGED <<closed, item, gift, transfer, called, caller>>

\* Closing reads the balance, ...
CloseRead(c, g) ==
    /\ Did /\ caller[c] = Waiting /\ g \notin closed
    /\ caller' = [caller EXCEPT ![c] = [does |-> "release", fund |-> g, amount |-> Balance(Goals[g])]]
    /\ doubled' = Overlaps(g)
    /\ UNCHANGED <<entry, closed, item, gift, transfer, called>>

\* ... moves it when there is any, ...
CloseRelease(c) ==
    LET p == caller[c]
    IN  /\ p.does = "release"
        /\ IF p.amount > 0 THEN MoveMoney(Goals[p.fund], Wallet, p.amount) ELSE UNCHANGED entry
        /\ caller' = [caller EXCEPT ![c].does = "archive"]
        /\ UNCHANGED <<closed, item, gift, transfer, called, moves, doubled>>

\* ... and archives the goal.
CloseArchive(c) ==
    /\ caller[c].does = "archive"
    /\ closed' = closed \cup {caller[c].fund}
    /\ caller' = [caller EXCEPT ![c] = Waiting]
    /\ UNCHANGED <<entry, item, gift, transfer, called, moves, doubled>>

\* The process stops between the transactions: what is committed stays.
Stop(c) ==
    /\ caller[c] # Waiting
    /\ caller' = [caller EXCEPT ![c] = Waiting]
    /\ UNCHANGED <<entry, closed, item, gift, transfer, called, moves, doubled>>

Archive(f) == /\ Did /\ f \notin closed /\ closed' = closed \cup {f}
              /\ UNCHANGED <<entry, item, gift, transfer, called, caller, doubled>>
Unarchive(f) == /\ Did /\ f \in closed /\ closed' = closed \ {f}
                /\ UNCHANGED <<entry, item, gift, transfer, called, caller, doubled>>

------------------------------------------------------------------------------
(* Irregular funds.                                                        *)

ActiveIrregulars == DOMAIN Irregulars \ closed

\* The first irregular fund that is not archived; 0 when there is none.
PrimaryIrregular == IF ActiveIrregulars = {} THEN Unset ELSE Min(ActiveIrregulars)

GiftsTotal == SumOf(gift)
DerivedItems(f) == IF f = PrimaryIrregular THEN GiftsTotal ELSE 0
ItemsOf(f) == {i \in DOMAIN item : item[i].fund = f}
YearlyTotal(f) == SumOf([i \in ItemsOf(f) |-> item[i].yearly]) + DerivedItems(f)

WriteItem(i, f, yearly) ==
    /\ Did /\ (i \in DOMAIN item => item[i].fund = f)
    /\ item' = With(item, i, [fund |-> f, yearly |-> yearly])
    /\ UNCHANGED <<entry, closed, gift, transfer, called, caller, doubled>>

\* Deleting an item clears it from the payments made for it.
DeleteItem(i) ==
    /\ Did /\ i \in DOMAIN item
    /\ item' = Without(item, {i})
    /\ entry' = [k \in 1 .. Len(entry) |-> IF entry[k].item = i THEN [entry[k] EXCEPT !.item = Unset] ELSE entry[k]]
    /\ UNCHANGED <<closed, gift, transfer, called, caller, doubled>>

\* A route is known by the names of its two accounts.
Route(to) == <<called[Wallet], to, called[to]>>

RenameAccount(a) ==
    /\ Did /\ called' = [called EXCEPT ![a] = @ + 1]
    /\ UNCHANGED <<entry, closed, item, gift, transfer, caller, doubled>>

\* The monthly transfer: the plan of the same route is brought up to the contribution, else
\* one is added; the same amount again is refused.  The read and the write are two steps.
FundingRead(c, f) ==
    LET route == {t \in transfer : t.route = Route(Irregulars[f])}
    IN  /\ Did /\ caller[c] = Waiting /\ YearlyTotal(f) > 0
        /\ \A t \in route : t.amount # YearlyTotal(f)
        /\ caller' = [caller EXCEPT ![c] = [does |-> "fund", fund |-> f, amount |-> YearlyTotal(f),
                                            route |-> Route(Irregulars[f]),
                                            found |-> IF route = {} THEN Unset
                                                      ELSE Min({t.id : t \in route})]]
        /\ doubled' = (doubled \/ \E o \in Callers : caller[o].does = "fund")
        /\ UNCHANGED <<entry, closed, item, gift, transfer, called>>

FundingWrite(c) ==
    LET p == caller[c]
        kept == {t \in transfer : t.id # p.found}
        id == IF p.found = Unset THEN Cardinality(transfer) + 1 ELSE p.found
    IN  /\ p.does = "fund"
        /\ transfer' = kept \cup {[id |-> id, to |-> Irregulars[p.fund], route |-> p.route, amount |-> p.amount]}
        /\ caller' = [caller EXCEPT ![c] = Waiting]
        /\ UNCHANGED <<entry, closed, item, gift, called, moves, doubled>>

\* A payment from the fund's account; one made for an item of another fund is refused.
RecordPayment(f, i, amount) ==
    /\ Did /\ (i # Unset => i \in ItemsOf(f))
    /\ entry' = Append(entry, [Leg(Irregulars[f], "expense", amount) EXCEPT !.item = i])
    /\ UNCHANGED <<closed, item, gift, transfer, called, caller, doubled>>

LinkPayment(f, k, i) ==
    /\ Did /\ entry[k].account = Irregulars[f] /\ entry[k].kind = "expense"
    /\ i # Unset => i \in ItemsOf(f)
    /\ entry' = [entry EXCEPT ![k].item = i]
    /\ UNCHANGED <<closed, item, gift, transfer, called, caller, doubled>>

\* The fund's history: what each entry of its account was for.
EntryKind(f, e) ==
    CASE Incoming(e) -> "contribution"
      [] e.kind = "expense" -> IF e.item \in ItemsOf(f) THEN "payment" ELSE "unplanned"
      [] OTHER -> "withdrawal"
FundHistory(f) == {[kind |-> EntryKind(f, entry[k]), key |-> k, item |-> entry[k].item] : k \in EntriesOf(Irregulars[f])}

------------------------------------------------------------------------------
(* Gifts.                                                                  *)

WriteGift(g, amount) ==
    /\ Did /\ gift' = With(gift, g, amount)
    /\ UNCHANGED <<entry, closed, item, transfer, called, caller, doubled>>

\* Deleting a gift clears it from the expense that paid for it.
DeleteGift(g) ==
    /\ Did /\ g \in DOMAIN gift /\ gift' = Without(gift, {g})
    /\ entry' = [k \in 1 .. Len(entry) |-> IF entry[k].gift = g THEN [entry[k] EXCEPT !.gift = Unset] ELSE entry[k]]
    /\ UNCHANGED <<closed, item, transfer, called, caller, doubled>>

\* An expense that pays for another gift is refused.
LinkGift(g, k) ==
    /\ Did /\ g \in DOMAIN gift /\ entry[k].kind = "expense" /\ entry[k].gift \in {Unset, g}
    /\ entry' = [entry EXCEPT ![k].gift = g]
    /\ UNCHANGED <<closed, item, gift, transfer, called, caller, doubled>>

MarkNotBought(g) ==
    /\ Did /\ g \in DOMAIN gift
    /\ entry' = [k \in 1 .. Len(entry) |-> IF entry[k].gift = g THEN [entry[k] EXCEPT !.gift = Unset] ELSE entry[k]]
    /\ UNCHANGED <<closed, item, gift, transfer, called, caller, doubled>>

FundsNext ==
    \/ \E g \in DOMAIN Goals : Contribute(g, 2) \/ \E c \in Callers : CloseRead(c, g)
    \/ \E c \in Callers : CloseRelease(c) \/ CloseArchive(c) \/ Stop(c) \/ FundingWrite(c)
    \/ \E f \in DOMAIN Goals \cup DOMAIN Irregulars : Archive(f) \/ Unarchive(f)
    \/ \E f \in DOMAIN Irregulars :
          \/ WriteItem(1, f, 3) \/ WriteItem(1, f, 4)
          \/ \E c \in Callers : FundingRead(c, f)
          \/ \E i \in {Unset, 1} : RecordPayment(f, i, 1)
          \/ \E k \in 1 .. Len(entry), i \in {Unset, 1} : LinkPayment(f, k, i)
    \/ \E a \in FundAccounts : RenameAccount(a)
    \/ DeleteItem(1) \/ WriteGift(1, 5) \/ DeleteGift(1) \/ MarkNotBought(1)
    \/ \E k \in 1 .. Len(entry) : LinkGift(1, k)

FundsSpec == FundsInit /\ [][FundsNext]_fundVars

------------------------------------------------------------------------------
\* Money put into goals and released from them is never made or lost, and, unless two
\* requests on one goal overlapped, closing never takes more than the goal held: not even
\* when the process stops after the money moved and the goal is closed again (contribute,
\* close, _move).
GoalMoneyKept ==
    /\ SumOf([a \in FundAccounts |-> Balance(a)])
         = Opened - SumOf([k \in 1 .. Len(entry) |-> IF entry[k].kind = "expense" THEN entry[k].amount ELSE 0])
    /\ ~doubled => \A g \in DOMAIN Goals : Balance(Goals[g]) >= 0

\* While an irregular fund is active, the gifts are planned for by exactly one fund: what the
\* funds ask for is their items and the gifts, whichever funds are archived or brought back
\* (_primary_irregular_id, plan).
GiftsPlannedOnce ==
    ActiveIrregulars # {} =>
        SumOf([f \in ActiveIrregulars |-> YearlyTotal(f)])
          = SumOf([i \in {k \in DOMAIN item : item[k].fund \in ActiveIrregulars} |-> item[i].yearly])
            + GiftsTotal

\* However the contribution changes, one transfer at most has the names of a route, unless
\* two requests to plan it overlapped (create_funding_plan: "rather than planning a second
\* one beside it").
OneTransferPerRoute ==
    ~doubled => \A s, t \in transfer : s.route = t.route => s = t

\* One transfer at most feeds a fund's account (create_funding_plan: an amount-keyed check
\* would "leave a stale duplicate behind").  Not so once an account of the route is renamed.
OneTransferPerAccount ==
    ~doubled => \A s, t \in transfer : s.to = t.to => s = t

\* A payment's item is an item of the fund that paid it (_fund_item, link_payment): the
\* history never calls a payment made for one of the fund's items unplanned.
PaymentsBelong ==
    \A f \in DOMAIN Irregulars : \A h \in FundHistory(f) :
        (h.item # Unset /\ \A o \in DOMAIN Irregulars \ {f} : Irregulars[o] # Irregulars[f])
            => h.kind = "payment"

\* Closing a goal releases what it held once (close).  Not so when it is pressed twice: both
\* presses read the balance before either has moved it.
ReleasedOnce == \A g \in DOMAIN Goals : Balance(Goals[g]) >= 0
===============================================================================
