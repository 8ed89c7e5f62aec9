------------------------------- MODULE AmountsProofs -------------------------------
(***************************************************************************)
(* Proofs about amounts: that the goals' money is kept (Funds), that the   *)
(* figures of a month agree (Figures) and that the plans are on the        *)
(* forecast's line (Projection).                                           *)
(***************************************************************************)
EXTENDS Funds, Figures, Projection, SumProofs, SequenceTheorems

-----------------------------------------------------------------------------
(* Funds: the money of the goals.                                          *)

Kinds == {"income", "in", "out", "expense"}
Entries == [account : FundAccounts, kind : Kinds, amount : Nat, item : Nat, gift : Nat]
SignedIn(s) == [i \in DOMAIN s |-> Signed(s[i])]
Spent(e) == IF e.kind = "expense" THEN e.amount ELSE 0
SpentIn(s) == [i \in DOMAIN s |-> Spent(s[i])]
NetIn(s) == [i \in DOMAIN s |-> Signed(s[i]) + Spent(s[i])]
PlacesOf(s, a) == {i \in 1 .. Len(s) : s[i].account = a}
BalanceIn(s, a) == SumOn(SignedIn(s), PlacesOf(s, a))
Net(s) == SumOn(NetIn(s), DOMAIN s)

LEMMA BalanceIsIn ==
  ASSUME NEW a, entry \in Seq(Entries)
  PROVE  Balance(a) = BalanceIn(entry, a)
<1>1. [i \in EntriesOf(a) |-> Signed(entry[i])] = [i \in PlacesOf(entry, a) |-> SignedIn(entry)[i]]
  BY DEF EntriesOf, PlacesOf, SignedIn
<1> QED BY <1>1 DEF Balance, BalanceIn, SumOn

LEMMA EntryTerms ==
  ASSUME NEW e \in Entries
  PROVE  /\ Signed(e) \in Int /\ Spent(e) \in Int
         /\ e.kind = "expense" => Signed(e) + Spent(e) = 0
BY DEF Entries, Kinds, Signed, Incoming, Spent

LEMMA SeqTerms ==
  ASSUME NEW s \in Seq(Entries)
  PROVE  /\ IsFiniteSet(DOMAIN s) /\ DOMAIN s = 1 .. Len(s) /\ Len(s) \in Nat
         /\ \A a : IsFiniteSet(PlacesOf(s, a)) /\ PlacesOf(s, a) \subseteq DOMAIN s
         /\ \A i \in DOMAIN s : s[i] \in Entries /\ SignedIn(s)[i] \in Int /\ SpentIn(s)[i] \in Int
                                /\ NetIn(s)[i] = SignedIn(s)[i] + SpentIn(s)[i]
<1>1. DOMAIN s = 1 .. Len(s) /\ Len(s) \in Nat /\ \A i \in DOMAIN s : s[i] \in Entries
  OBVIOUS
<1>2. IsFiniteSet(DOMAIN s)
  BY <1>1, FS_Interval
<1>3. \A a : PlacesOf(s, a) \subseteq DOMAIN s
  BY <1>1 DEF PlacesOf
<1>4. \A i \in DOMAIN s : SignedIn(s)[i] \in Int /\ SpentIn(s)[i] \in Int
                         /\ NetIn(s)[i] = SignedIn(s)[i] + SpentIn(s)[i]
  BY <1>1, EntryTerms DEF SignedIn, SpentIn, NetIn
<1> QED BY <1>1, <1>2, <1>3, <1>4, FS_Subset

\* An entry changes the balance of its own account only.
LEMMA AppendMoves ==
  ASSUME NEW s \in Seq(Entries), NEW e \in Entries
  PROVE  /\ \A a : BalanceIn(Append(s, e), a) = BalanceIn(s, a) + (IF e.account = a THEN Signed(e) ELSE 0)
         /\ Net(Append(s, e)) = Net(s) + (Signed(e) + Spent(e))
<1> DEFINE t == Append(s, e)
           n == Len(s) + 1
<1>1. t \in Seq(Entries) /\ DOMAIN t = DOMAIN s \cup {n} /\ n \notin DOMAIN s /\ Len(t) = n
      /\ t[n] = e /\ \A i \in DOMAIN s : t[i] = s[i]
  OBVIOUS
<1>2. /\ IsFiniteSet(DOMAIN s) /\ DOMAIN s = 1 .. Len(s) /\ DOMAIN t = 1 .. Len(t)
      /\ \A a : IsFiniteSet(PlacesOf(s, a)) /\ PlacesOf(s, a) \subseteq DOMAIN s
      /\ \A i \in DOMAIN s : SignedIn(s)[i] \in Int /\ SpentIn(s)[i] \in Int
                             /\ NetIn(s)[i] = SignedIn(s)[i] + SpentIn(s)[i]
      /\ Signed(e) \in Int /\ Spent(e) \in Int
  BY <1>1, SeqTerms, EntryTerms
<1> HIDE DEF t, n
<1>3. /\ \A i \in DOMAIN s : SignedIn(t)[i] = SignedIn(s)[i] /\ NetIn(t)[i] = NetIn(s)[i]
      /\ SignedIn(t)[n] = Signed(e) /\ NetIn(t)[n] = Signed(e) + Spent(e)
  BY <1>1 DEF SignedIn, NetIn
<1>4. ASSUME NEW a
      PROVE  BalanceIn(t, a) = BalanceIn(s, a) + (IF e.account = a THEN Signed(e) ELSE 0)
  <2>1. SumOn(SignedIn(t), PlacesOf(s, a)) = BalanceIn(s, a)
    BY <1>2, <1>3, SumSame DEF BalanceIn
  <2>2. BalanceIn(s, a) \in Int
    BY <1>2, SumInt DEF BalanceIn
  <2>3. CASE e.account = a
    <3>1. PlacesOf(t, a) = PlacesOf(s, a) \cup {n} /\ n \notin PlacesOf(s, a)
      BY <1>1, <1>2, <2>3 DEF PlacesOf
    <3>2. \A i \in PlacesOf(s, a) : SignedIn(t)[i] \in Int
      BY <1>2, <1>3
    <3>3. BalanceIn(t, a) = SumOn(SignedIn(t), PlacesOf(s, a)) + SignedIn(t)[n]
      BY <1>2, <1>3, <3>1, <3>2, SumMore DEF BalanceIn
    <3> QED BY <2>1, <2>3, <3>3, <1>3
  <2>4. CASE e.account # a
    <3>1. PlacesOf(t, a) = PlacesOf(s, a)
      BY <1>1, <1>2, <2>4 DEF PlacesOf
    <3> QED BY <2>1, <2>2, <2>4, <3>1 DEF BalanceIn
  <2> QED BY <2>3, <2>4
<1>5. Net(t) = Net(s) + (Signed(e) + Spent(e))
  <2>1. SumOn(NetIn(t), DOMAIN s) = Net(s)
    BY <1>3, SumSame DEF Net
  <2>2. NetIn(t)[n] \in Int /\ \A i \in DOMAIN s : NetIn(t)[i] \in Int
    BY <1>2, <1>3
  <2>3. SumOn(NetIn(t), DOMAIN s \cup {n}) = SumOn(NetIn(t), DOMAIN s) + NetIn(t)[n]
    BY <1>1, <1>2, <2>2, SumMore
  <2> QED BY <1>1, <2>1, <2>3, <1>3 DEF Net
<1> QED BY <1>4, <1>5 DEF t

\* A transfer takes from one account what it gives the other.
LEMMA TransferMoves ==
  ASSUME NEW s \in Seq(Entries), NEW from \in FundAccounts, NEW to \in FundAccounts, NEW n \in Nat
  PROVE  LET t == s \o <<Leg(from, "out", n), Leg(to, "in", n)>>
         IN  /\ t \in Seq(Entries) /\ Net(t) = Net(s)
             /\ \A a : BalanceIn(t, a) = BalanceIn(s, a) + (IF from = a THEN - n ELSE 0)
                                                        + (IF to = a THEN n ELSE 0)
<1> DEFINE e == Leg(from, "out", n)
           d == Leg(to, "in", n)
<1>1. e \in Entries /\ d \in Entries /\ e.account = from /\ d.account = to
      /\ Signed(e) = - n /\ Signed(d) = n /\ Spent(e) = 0 /\ Spent(d) = 0
  BY DEF Entries, Kinds, Leg, Unset, Signed, Incoming, Spent
<1> HIDE DEF e, d
<1> DEFINE u == Append(s, e)
           t == Append(u, d)
<1>2. s \o <<e, d>> = t /\ u \in Seq(Entries) /\ t \in Seq(Entries)
  BY <1>1
<1>3. Net(u) = Net(s) + (- n + 0)
      /\ \A a : BalanceIn(u, a) = BalanceIn(s, a) + (IF from = a THEN - n ELSE 0)
  BY <1>1, AppendMoves
<1> HIDE DEF u
<1>4. Net(t) = Net(u) + (n + 0)
      /\ \A a : BalanceIn(t, a) = BalanceIn(u, a) + (IF to = a THEN n ELSE 0)
  BY <1>1, <1>2, AppendMoves
<1> HIDE DEF t
<1>5. Net(s) \in Int
  <2>1. \A i \in DOMAIN s : NetIn(s)[i] \in Int
    BY SeqTerms
  <2> QED BY <2>1, SeqTerms, SumInt DEF Net
<1>6. Net(t) = Net(s)
  BY <1>3, <1>4, <1>5
<1>7. \A a : BalanceIn(t, a) = BalanceIn(s, a) + (IF from = a THEN - n ELSE 0) + (IF to = a THEN n ELSE 0)
  BY <1>3, <1>4
<1> QED BY <1>2, <1>6, <1>7 DEF e, d

\* Entries that differ in what they are linked to hold the same money.
LEMMA RelinkMovesNothing ==
  ASSUME NEW s \in Seq(Entries), NEW t \in Seq(Entries), Len(t) = Len(s),
         \A i \in 1 .. Len(s) : t[i].account = s[i].account /\ t[i].kind = s[i].kind /\ t[i].amount = s[i].amount
  PROVE  Net(t) = Net(s) /\ \A a : BalanceIn(t, a) = BalanceIn(s, a)
<1>1. DOMAIN t = DOMAIN s /\ DOMAIN s = 1 .. Len(s)
  OBVIOUS
<1>2. \A i \in DOMAIN s : Signed(t[i]) = Signed(s[i]) /\ Spent(t[i]) = Spent(s[i])
  BY <1>1 DEF Signed, Incoming, Spent
<1>3. SignedIn(t) = SignedIn(s) /\ NetIn(t) = NetIn(s)
  BY <1>1, <1>2 DEF SignedIn, NetIn
<1>4. \A a : PlacesOf(t, a) = PlacesOf(s, a)
  BY DEF PlacesOf
<1> QED BY <1>1, <1>3, <1>4 DEF Net, BalanceIn

\* What a request to close a goal holds between its transactions.
Closing == [does : {"release", "archive"}, fund : DOMAIN Goals, amount : Int]
Closes(c) == caller[c].does \in {"release", "archive"}

\* Goals have accounts of their own.
OwnAccounts ==
  /\ \A g, h \in DOMAIN Goals : g # h => Goals[g] # Goals[h]
  /\ \A g \in DOMAIN Goals : Goals[g] # Wallet
  /\ \A g \in DOMAIN Goals, f \in DOMAIN Irregulars : Goals[g] # Irregulars[f]

\* No step makes or loses money.
MoneyInv ==
  /\ entry \in Seq(Entries) /\ Net(entry) = Opened
  /\ DOMAIN caller = Callers
  /\ \A c \in Callers : Closes(c) => caller[c] \in Closing

\* A request that read a balance still finds it, unless two on one goal overlapped.
GoalsInv ==
  ~doubled =>
    /\ \A c, d \in Callers : c # d /\ Closes(c) /\ Closes(d) => caller[c].fund # caller[d].fund
    /\ \A c \in Callers : caller[c].does = "release" =>
                             caller[c].amount = BalanceIn(entry, Goals[caller[c].fund])
    /\ \A g \in DOMAIN Goals : BalanceIn(entry, Goals[g]) >= 0

\* What one step does to the entries: nothing, a transfer, a payment, or a link.
Relinked == /\ entry' \in Seq(Entries) /\ Len(entry') = Len(entry)
            /\ \A i \in 1 .. Len(entry) : /\ entry'[i].account = entry[i].account
                                           /\ entry'[i].kind = entry[i].kind
                                           /\ entry'[i].amount = entry[i].amount
Pays == \E f \in DOMAIN Irregulars : \E e \in Entries :
          e.account = Irregulars[f] /\ e.kind = "expense" /\ entry' = Append(entry, e)

Touched(e, d) == \E n \in Nat : d = e \/ d = [e EXCEPT !.item = n] \/ d = [e EXCEPT !.gift = n]

LEMMA TouchedSame ==
  ASSUME NEW e \in Entries, NEW d, Touched(e, d)
  PROVE  d \in Entries /\ d.account = e.account /\ d.kind = e.kind /\ d.amount = e.amount
BY DEF Touched, Entries

LEMMA RelinkTyped ==
  ASSUME NEW t, entry \in Seq(Entries), entry' = t, t = [i \in 1 .. Len(entry) |-> t[i]],
         \A i \in 1 .. Len(entry) : Touched(entry[i], t[i])
  PROVE  Relinked
<1>1. Len(entry) \in Nat /\ \A i \in 1 .. Len(entry) : entry[i] \in Entries
  OBVIOUS
<1>2. \A i \in 1 .. Len(entry) : /\ t[i] \in Entries /\ t[i].account = entry[i].account
                                /\ t[i].kind = entry[i].kind /\ t[i].amount = entry[i].amount
  BY <1>1, TouchedSame
<1>3. t \in [1 .. Len(entry) -> Entries]
  BY <1>2
<1>4. t \in Seq(Entries) /\ Len(t) = Len(entry)
  BY <1>1, <1>3
<1> QED BY <1>2, <1>4 DEF Relinked

LEMMA RelinkSteps ==
  ASSUME entry \in Seq(Entries),
         \/ DeleteItem(1) \/ DeleteGift(1) \/ MarkNotBought(1)
         \/ \E k \in 1 .. Len(entry) : LinkGift(1, k)
         \/ \E f \in DOMAIN Irregulars, k \in 1 .. Len(entry), i \in {Unset, 1} : LinkPayment(f, k, i)
  PROVE  Relinked /\ UNCHANGED <<caller, doubled>>
<1>1. DOMAIN entry = 1 .. Len(entry) /\ \A i \in 1 .. Len(entry) : entry[i] \in Entries
  OBVIOUS
<1>2. Unset \in Nat /\ 1 \in Nat
  BY DEF Unset
<1>4. CASE DeleteItem(1)
  <2> DEFINE t == [k \in 1 .. Len(entry) |-> IF entry[k].item = 1 THEN [entry[k] EXCEPT !.item = Unset] ELSE entry[k]]
  <2>1. entry' = t /\ UNCHANGED <<caller, doubled>>
    BY <1>4 DEF DeleteItem
  <2>2. t = [k \in 1 .. Len(entry) |-> t[k]]
    BY <1>1
  <2>3. \A k \in 1 .. Len(entry) : Touched(entry[k], t[k])
    BY <1>1, <1>2 DEF Touched
  <2> HIDE DEF t
  <2>4. Relinked
    BY <2>1, <2>2, <2>3, RelinkTyped
  <2> QED BY <2>1, <2>4
<1>5. CASE DeleteGift(1) \/ MarkNotBought(1)
  <2> DEFINE t == [k \in 1 .. Len(entry) |-> IF entry[k].gift = 1 THEN [entry[k] EXCEPT !.gift = Unset] ELSE entry[k]]
  <2>1. entry' = t /\ UNCHANGED <<caller, doubled>>
    BY <1>5 DEF DeleteGift, MarkNotBought
  <2>2. t = [k \in 1 .. Len(entry) |-> t[k]]
    BY <1>1
  <2>3. \A k \in 1 .. Len(entry) : Touched(entry[k], t[k])
    BY <1>1, <1>2 DEF Touched
  <2> HIDE DEF t
  <2>4. Relinked
    BY <2>1, <2>2, <2>3, RelinkTyped
  <2> QED BY <2>1, <2>4
<1>6. ASSUME NEW j \in 1 .. Len(entry), LinkGift(1, j)
      PROVE  Relinked /\ UNCHANGED <<caller, doubled>>
  <2> DEFINE t == [entry EXCEPT ![j].gift = 1]
  <2>1. entry' = t /\ UNCHANGED <<caller, doubled>>
    BY <1>6 DEF LinkGift
  <2>2. t = [k \in 1 .. Len(entry) |-> t[k]]
    BY <1>1
  <2>3. \A k \in 1 .. Len(entry) : Touched(entry[k], t[k])
    BY <1>1, <1>2 DEF Touched
  <2> HIDE DEF t
  <2>4. Relinked
    BY <2>1, <2>2, <2>3, RelinkTyped
  <2> QED BY <2>1, <2>4
<1>7. ASSUME NEW f \in DOMAIN Irregulars, NEW j \in 1 .. Len(entry), NEW i \in {Unset, 1}, LinkPayment(f, j, i)
      PROVE  Relinked /\ UNCHANGED <<caller, doubled>>
  <2> DEFINE t == [entry EXCEPT ![j].item = i]
  <2>1. entry' = t /\ UNCHANGED <<caller, doubled>>
    BY <1>7 DEF LinkPayment
  <2>2. t = [k \in 1 .. Len(entry) |-> t[k]]
    BY <1>1
  <2>3. \A k \in 1 .. Len(entry) : Touched(entry[k], t[k])
    BY <1>1, <1>2 DEF Touched
  <2> HIDE DEF t
  <2>4. Relinked
    BY <2>1, <2>2, <2>3, RelinkTyped
  <2> QED BY <2>1, <2>4
<1> QED BY <1>4, <1>5, <1>6, <1>7

\* Every step, by what it does to the money.
LEMMA FundSteps ==
  ASSUME MoneyInv, [FundsNext]_fundVars
  PROVE  \/ \E g \in DOMAIN Goals : Contribute(g, 2) \/ \E c \in Callers : CloseRead(c, g)
         \/ \E c \in Callers : CloseRelease(c)
         \/ \E c \in Callers : /\ \/ caller' = [caller EXCEPT ![c] = Waiting]
                                     /\ doubled' = doubled
                                  \/ \E f \in DOMAIN Irregulars : FundingRead(c, f)
                               /\ entry' = entry
         \/ Relinked /\ UNCHANGED <<caller, doubled>>
         \/ Pays /\ UNCHANGED <<caller, doubled>>
<1> USE DEF MoneyInv
<1>1. CASE UNCHANGED fundVars
  <2>1. entry' = entry /\ UNCHANGED <<caller, doubled>>
    BY <1>1 DEF fundVars
  <2>2. Relinked
    BY <2>1 DEF Relinked
  <2> QED BY <2>1, <2>2
<1>2. ASSUME NEW c \in Callers, CloseArchive(c) \/ Stop(c) \/ FundingWrite(c)
      PROVE  caller' = [caller EXCEPT ![c] = Waiting] /\ doubled' = doubled /\ entry' = entry
  BY <1>2 DEF CloseArchive, Stop, FundingWrite
<1>3. ASSUME NEW c \in Callers, NEW f \in DOMAIN Irregulars, FundingRead(c, f)
      PROVE  entry' = entry
  BY <1>3 DEF FundingRead
<1>4. ASSUME \/ \E f \in DOMAIN Goals \cup DOMAIN Irregulars : Archive(f) \/ Unarchive(f)
             \/ \E f \in DOMAIN Irregulars : WriteItem(1, f, 3) \/ WriteItem(1, f, 4)
             \/ \E a \in FundAccounts : RenameAccount(a)
             \/ WriteGift(1, 5)
      PROVE  Relinked /\ UNCHANGED <<caller, doubled>>
  <2>1. entry' = entry /\ UNCHANGED <<caller, doubled>>
    BY <1>4 DEF Archive, Unarchive, WriteItem, RenameAccount, WriteGift
  <2>2. Relinked
    BY <2>1 DEF Relinked
  <2> QED BY <2>1, <2>2
<1>5. ASSUME NEW f \in DOMAIN Irregulars, NEW i \in {Unset, 1}, RecordPayment(f, i, 1)
      PROVE  Pays /\ UNCHANGED <<caller, doubled>>
  <2> DEFINE e == [Leg(Irregulars[f], "expense", 1) EXCEPT !.item = i]
  <2>1. e \in Entries /\ e.account = Irregulars[f] /\ e.kind = "expense"
    BY FundsAssumption DEF Leg, Entries, Kinds, Unset
  <2>2. entry' = Append(entry, e) /\ UNCHANGED <<caller, doubled>>
    BY <1>5 DEF RecordPayment
  <2> HIDE DEF e
  <2>3. Pays
    BY <2>1, <2>2 DEF Pays
  <2> QED BY <2>2, <2>3
<1>6. CASE FundsNext
  BY <1>2, <1>3, <1>4, <1>5, <1>6, RelinkSteps DEF FundsNext
<1> QED BY <1>1, <1>6

LEMMA BalanceInt ==
  ASSUME NEW s \in Seq(Entries), NEW a
  PROVE  BalanceIn(s, a) \in Int
<1>1. IsFiniteSet(PlacesOf(s, a)) /\ \A i \in PlacesOf(s, a) : SignedIn(s)[i] \in Int
  BY SeqTerms
<1> QED BY <1>1, SumInt DEF BalanceIn

\* What a step does to the balance of an account.
LEMMA ContributeMoves ==
  ASSUME MoneyInv, NEW g \in DOMAIN Goals, Contribute(g, 2)
  PROVE  /\ entry' \in Seq(Entries) /\ Net(entry') = Net(entry)
         /\ \A a : BalanceIn(entry', a) = BalanceIn(entry, a) + (IF Wallet = a THEN - 2 ELSE 0)
                                                            + (IF Goals[g] = a THEN 2 ELSE 0)
<1>1. Wallet \in FundAccounts /\ Goals[g] \in FundAccounts
  BY FundsAssumption
<1>2. entry' = entry \o <<Leg(Wallet, "out", 2), Leg(Goals[g], "in", 2)>>
  BY DEF Contribute, MoveMoney
<1> QED BY <1>1, <1>2, TransferMoves DEF MoneyInv

LEMMA ReleaseMoves ==
  ASSUME MoneyInv, NEW c \in Callers, CloseRelease(c)
  PROVE  /\ entry' \in Seq(Entries) /\ Net(entry') = Net(entry)
         /\ caller[c] \in Closing /\ caller[c].does = "release"
         /\ \A a : BalanceIn(entry', a) =
               IF caller[c].amount > 0
               THEN BalanceIn(entry, a) + (IF Goals[caller[c].fund] = a THEN - caller[c].amount ELSE 0)
                                        + (IF Wallet = a THEN caller[c].amount ELSE 0)
               ELSE BalanceIn(entry, a)
<1>1. caller[c] \in Closing /\ caller[c].does = "release"
  BY DEF MoneyInv, CloseRelease, Closes
<1>2. Wallet \in FundAccounts /\ Goals[caller[c].fund] \in FundAccounts /\ caller[c].amount \in Int
  BY <1>1, FundsAssumption DEF Closing
<1>3. CASE caller[c].amount > 0
  <2>1. caller[c].amount \in Nat
    BY <1>2, <1>3
  <2>2. entry' = entry \o <<Leg(Goals[caller[c].fund], "out", caller[c].amount), Leg(Wallet, "in", caller[c].amount)>>
    BY <1>3 DEF CloseRelease, MoveMoney
  <2> DEFINE g == Goals[caller[c].fund]
             n == caller[c].amount
  <2>3. g \in FundAccounts /\ Wallet \in FundAccounts /\ n \in Nat /\ entry \in Seq(Entries)
        /\ entry' = entry \o <<Leg(g, "out", n), Leg(Wallet, "in", n)>>
    BY <1>2, <2>1, <2>2 DEF MoneyInv
  <2> HIDE DEF g, n
  <2>4. /\ entry' \in Seq(Entries) /\ Net(entry') = Net(entry)
        /\ \A a : BalanceIn(entry', a) = BalanceIn(entry, a) + (IF g = a THEN - n ELSE 0)
                                                           + (IF Wallet = a THEN n ELSE 0)
    BY <2>3, TransferMoves
  <2> QED BY <1>1, <1>3, <2>4 DEF g, n
<1>4. CASE ~ (caller[c].amount > 0)
  <2>1. entry' = entry
    BY <1>4 DEF CloseRelease
  <2> QED BY <1>1, <1>4, <2>1 DEF MoneyInv
<1> QED BY <1>3, <1>4

LEMMA PaymentMoves ==
  ASSUME MoneyInv, Pays
  PROVE  /\ entry' \in Seq(Entries) /\ Net(entry') = Net(entry)
         /\ \E f \in DOMAIN Irregulars : \A a : a # Irregulars[f] => BalanceIn(entry', a) = BalanceIn(entry, a)
<1>1. PICK f \in DOMAIN Irregulars, e \in Entries :
          e.account = Irregulars[f] /\ e.kind = "expense" /\ entry' = Append(entry, e)
  BY DEF Pays
<1>2. Signed(e) + Spent(e) = 0
  BY <1>1, EntryTerms
<1>3. entry \in Seq(Entries) /\ entry' \in Seq(Entries)
  BY <1>1 DEF MoneyInv
<1>4. Net(entry') = Net(entry) + 0
      /\ \A a : BalanceIn(entry', a) = BalanceIn(entry, a) + (IF e.account = a THEN Signed(e) ELSE 0)
  BY <1>1, <1>2, <1>3, AppendMoves
<1>5. Net(entry) \in Int /\ \A a : BalanceIn(entry, a) \in Int
  BY <1>3, BalanceInt DEF MoneyInv, Opened
<1> QED BY <1>1, <1>3, <1>4, <1>5

LEMMA MoneyInit ==
  ASSUME FundsInit
  PROVE  MoneyInv /\ \A g \in DOMAIN Goals : OwnAccounts => BalanceIn(entry, Goals[g]) = 0
<1> DEFINE e == [account |-> Wallet, kind |-> "income", amount |-> Opened, item |-> Unset, gift |-> Unset]
<1>1. e \in Entries /\ Signed(e) = Opened /\ Spent(e) = 0 /\ e.account = Wallet
  BY FundsAssumption DEF Entries, Kinds, Unset, Opened, Signed, Incoming, Spent
<1> DEFINE none == <<>>
<1>2. entry = Append(none, e) /\ none \in Seq(Entries) /\ entry \in Seq(Entries)
  BY <1>1 DEF FundsInit
<1>3. Net(none) = 0 /\ \A a : BalanceIn(none, a) = 0
  <2>1. DOMAIN none = {} /\ \A a : PlacesOf(none, a) = {}
    BY DEF PlacesOf
  <2> QED BY <2>1, SumNothing DEF Net, BalanceIn
<1> HIDE DEF e, none
<1>4. /\ Net(entry) = 0 + (Opened + 0)
      /\ \A a : BalanceIn(entry, a) = 0 + (IF Wallet = a THEN Opened ELSE 0)
  BY <1>1, <1>2, <1>3, AppendMoves
<1>5. DOMAIN caller = Callers /\ \A c \in Callers : ~ Closes(c)
  BY DEF FundsInit, Closes, Waiting
<1> QED BY <1>2, <1>4, <1>5 DEF MoneyInv, OwnAccounts, Opened

LEMMA MoneyStep ==
  ASSUME MoneyInv, [FundsNext]_fundVars
  PROVE  MoneyInv'
<1>1. CASE \E g \in DOMAIN Goals : Contribute(g, 2)
  <2>1. entry' \in Seq(Entries) /\ Net(entry') = Net(entry) /\ caller' = caller
    BY <1>1, ContributeMoves DEF Contribute
  <2> QED BY <2>1 DEF MoneyInv, Closes, Opened
<1>2. ASSUME NEW g \in DOMAIN Goals, NEW c \in Callers, CloseRead(c, g)
      PROVE  MoneyInv'
  <2>1. Balance(Goals[g]) \in Int
    BY BalanceIsIn, BalanceInt DEF MoneyInv
  <2>2. entry' = entry /\ caller' = [caller EXCEPT ![c] = [does |-> "release", fund |-> g, amount |-> Balance(Goals[g])]]
    BY <1>2 DEF CloseRead
  <2> QED BY <2>1, <2>2 DEF MoneyInv, Closes, Closing, Opened
<1>3. ASSUME NEW c \in Callers, CloseRelease(c)
      PROVE  MoneyInv'
  <2>1. entry' \in Seq(Entries) /\ Net(entry') = Net(entry) /\ caller[c] \in Closing
    BY <1>3, ReleaseMoves
  <2>2. caller' = [caller EXCEPT ![c].does = "archive"]
    BY <1>3 DEF CloseRelease
  <2>3. caller'[c] \in Closing /\ DOMAIN caller' = Callers /\ \A d \in Callers \ {c} : caller'[d] = caller[d]
    BY <2>1, <2>2 DEF MoneyInv, Closing
  <2> QED BY <2>1, <2>3 DEF MoneyInv, Closes, Opened
<1>4. ASSUME NEW c \in Callers, entry' = entry, caller' = [caller EXCEPT ![c] = Waiting]
      PROVE  MoneyInv'
  BY <1>4 DEF MoneyInv, Closes, Waiting, Opened
<1>5. ASSUME NEW c \in Callers, NEW f \in DOMAIN Irregulars, FundingRead(c, f)
      PROVE  MoneyInv'
  <2>1. entry' = entry /\ DOMAIN caller' = DOMAIN caller /\ \A d \in DOMAIN caller : d # c => caller'[d] = caller[d]
    BY <1>5 DEF FundingRead
  <2>2. caller'[c].does = "fund"
    BY <1>5 DEF FundingRead, MoneyInv
  <2> QED BY <2>1, <2>2 DEF MoneyInv, Closes, Opened
<1>6. CASE Relinked /\ UNCHANGED <<caller, doubled>>
  <2>1. entry' \in Seq(Entries) /\ Net(entry') = Net(entry)
    BY <1>6, RelinkMovesNothing DEF Relinked, MoneyInv
  <2> QED BY <1>6, <2>1 DEF MoneyInv, Closes, Opened
<1>7. CASE Pays /\ UNCHANGED <<caller, doubled>>
  <2>1. entry' \in Seq(Entries) /\ Net(entry') = Net(entry)
    BY <1>7, PaymentMoves
  <2> QED BY <1>7, <2>1 DEF MoneyInv, Closes, Opened
<1> QED BY <1>1, <1>2, <1>3, <1>4, <1>5, <1>6, <1>7, FundSteps

LEMMA GoalsStep ==
  ASSUME OwnAccounts, MoneyInv, GoalsInv, [FundsNext]_fundVars
  PROVE  GoalsInv'
<1> DEFINE Held(g) == BalanceIn(entry, Goals[g])
           Held2(g) == BalanceIn(entry', Goals[g])
<1>0. entry \in Seq(Entries) /\ \A g : Held(g) \in Int
  BY BalanceInt DEF MoneyInv
<1>1. ASSUME NEW g \in DOMAIN Goals, Contribute(g, 2)
      PROVE  GoalsInv'
  <2> SUFFICES ASSUME ~doubled' PROVE GoalsInv'
    BY DEF GoalsInv
  <2>1. ~doubled /\ caller' = caller /\ \A o \in Callers : caller[o] # Waiting => caller[o].fund # g
    BY <1>1 DEF Contribute, Overlaps
  <2>2. Held2(g) = Held(g) + 2 /\ \A h \in DOMAIN Goals : h # g => Held2(h) = Held(h)
    BY <1>0, <1>1, ContributeMoves DEF OwnAccounts
  <2>3. \A c \in Callers : caller[c].does = "release" => caller[c].fund # g /\ caller[c].fund \in DOMAIN Goals
    BY <2>1 DEF Waiting, MoneyInv, Closes, Closing
  <2>4. \A c \in Callers : caller[c].does = "release" => caller[c].amount = Held2(caller[c].fund)
    BY <2>1, <2>2, <2>3 DEF GoalsInv
  <2>5. \A h \in DOMAIN Goals : Held2(h) >= 0
    BY <1>0, <2>1, <2>2 DEF GoalsInv
  <2> QED BY <2>1, <2>4, <2>5 DEF GoalsInv, Closes
<1>2. ASSUME NEW g \in DOMAIN Goals, NEW c \in Callers, CloseRead(c, g)
      PROVE  GoalsInv'
  <2> SUFFICES ASSUME ~doubled' PROVE GoalsInv'
    BY DEF GoalsInv
  <2>1. ~doubled /\ \A o \in Callers : caller[o] # Waiting => caller[o].fund # g
    BY <1>2 DEF CloseRead, Overlaps
  <2>2. Balance(Goals[g]) = Held(g)
    BY <1>0, BalanceIsIn
  <2>3. entry' = entry /\ caller' = [caller EXCEPT ![c] = [does |-> "release", fund |-> g, amount |-> Held(g)]]
    BY <1>2, <2>2 DEF CloseRead
  <2>4. /\ caller'[c].fund = g /\ caller'[c].amount = Held(g) /\ caller'[c].does = "release"
        /\ \A d \in Callers \ {c} : caller'[d] = caller[d]
    BY <2>3 DEF MoneyInv
  <2>5. \A d \in Callers : Closes(d) => caller[d].fund # g
    BY <2>1 DEF Waiting, Closes
  <2> QED BY <2>1, <2>3, <2>4, <2>5 DEF GoalsInv, Closes
<1>3. ASSUME NEW c \in Callers, CloseRelease(c)
      PROVE  GoalsInv'
  <2> DEFINE g == caller[c].fund
             n == caller[c].amount
  <2> SUFFICES ASSUME ~doubled' PROVE GoalsInv'
    BY DEF GoalsInv
  <2>1. ~doubled /\ caller' = [caller EXCEPT ![c].does = "archive"]
    BY <1>3 DEF CloseRelease
  <2>2. caller[c] \in Closing /\ caller[c].does = "release" /\ g \in DOMAIN Goals /\ n \in Int
    BY <1>3, ReleaseMoves DEF Closing
  <2>3. /\ caller'[c].does = "archive" /\ caller'[c].fund = g
        /\ \A d \in Callers \ {c} : caller'[d] = caller[d]
    BY <2>1, <2>2 DEF MoneyInv, Closing
  <2>4. n = Held(g)
    BY <2>1, <2>2 DEF GoalsInv
  <2>5. \A a : BalanceIn(entry', a) = IF n > 0 THEN BalanceIn(entry, a) + (IF Goals[g] = a THEN - n ELSE 0)
                                                                    + (IF Wallet = a THEN n ELSE 0)
                                   ELSE BalanceIn(entry, a)
    BY <1>3, ReleaseMoves
  <2>6. /\ Held2(g) = IF n > 0 THEN Held(g) - n ELSE Held(g)
        /\ \A h \in DOMAIN Goals : h # g => Held2(h) = Held(h)
    BY <1>0, <2>2, <2>5 DEF OwnAccounts
  <2>7. \A h \in DOMAIN Goals : Held2(h) >= 0
    BY <1>0, <2>1, <2>2, <2>4, <2>6 DEF GoalsInv
  <2>8. \A d \in Callers \ {c} : Closes(d) => caller[d].fund # g /\ caller[d].fund \in DOMAIN Goals
    BY <2>1, <2>2 DEF GoalsInv, Closes, MoneyInv, Closing
  <2>9. \A d \in Callers : caller'[d].does = "release" =>
            d # c /\ caller'[d] = caller[d] /\ caller[d].amount = Held2(caller[d].fund)
    BY <2>1, <2>3, <2>6, <2>8 DEF GoalsInv, Closes
  <2>10. \A d, e \in Callers : d # e /\ Closes(d)' /\ Closes(e)' => caller'[d].fund # caller'[e].fund
    BY <2>1, <2>2, <2>3, <2>8 DEF GoalsInv, Closes
  <2> QED BY <2>7, <2>9, <2>10 DEF GoalsInv
<1>4. ASSUME NEW c \in Callers, entry' = entry, caller' = [caller EXCEPT ![c] = Waiting], doubled' = doubled
      PROVE  GoalsInv'
  BY <1>4 DEF GoalsInv, MoneyInv, Closes, Waiting
<1>5. ASSUME NEW c \in Callers, NEW f \in DOMAIN Irregulars, FundingRead(c, f)
      PROVE  GoalsInv'
  <2>1. entry' = entry /\ \A d \in Callers \ {c} : caller'[d] = caller[d]
    BY <1>5 DEF FundingRead, MoneyInv
  <2>2. caller'[c].does = "fund"
    BY <1>5 DEF FundingRead, MoneyInv
  <2>3. ~doubled' => ~doubled
    BY <1>5 DEF FundingRead
  <2> QED BY <2>1, <2>2, <2>3 DEF GoalsInv, Closes
<1>6. CASE Relinked /\ UNCHANGED <<caller, doubled>>
  <2>1. \A a : BalanceIn(entry', a) = BalanceIn(entry, a)
    BY <1>0, <1>6, RelinkMovesNothing DEF Relinked
  <2> QED BY <1>6, <2>1 DEF GoalsInv, Closes
<1>7. CASE Pays /\ UNCHANGED <<caller, doubled>>
  <2>1. \A g \in DOMAIN Goals : Held2(g) = Held(g)
    BY <1>7, PaymentMoves DEF OwnAccounts
  <2>2. \A c \in Callers : caller[c].does = "release" => caller[c].fund \in DOMAIN Goals
    BY DEF MoneyInv, Closes, Closing
  <2> QED BY <1>7, <2>1, <2>2 DEF GoalsInv, Closes
<1> QED BY <1>1, <1>2, <1>3, <1>4, <1>5, <1>6, <1>7, FundSteps

\* What the accounts hold between them is what was there less what was spent.
LEMMA AccountsAddUp ==
  ASSUME MoneyInv
  PROVE  SumOf([a \in FundAccounts |-> Balance(a)])
           = Opened - SumOf([k \in 1 .. Len(entry) |-> IF entry[k].kind = "expense" THEN entry[k].amount ELSE 0])
<1> DEFINE key == [i \in DOMAIN entry |-> entry[i].account]
           f == SignedIn(entry)
           D == DOMAIN entry
<1>0. entry \in Seq(Entries) /\ D = 1 .. Len(entry) /\ IsFiniteSet(D) /\ IsFiniteSet(FundAccounts)
  BY SeqTerms, FundsAssumption DEF MoneyInv
<1>1. \A i \in D : /\ f[i] \in Int /\ key[i] \in FundAccounts /\ SpentIn(entry)[i] \in Int
                  /\ NetIn(entry)[i] = f[i] + SpentIn(entry)[i]
  BY <1>0, SeqTerms DEF Entries
<1>2. \A a \in FundAccounts : {i \in D : key[i] = a} = PlacesOf(entry, a)
  BY <1>0 DEF PlacesOf
<1> DEFINE by == [a \in FundAccounts |-> Balance(a)]
           spent == [k \in 1 .. Len(entry) |-> IF entry[k].kind = "expense" THEN entry[k].amount ELSE 0]
<1>3. \A a \in FundAccounts : by[a] = Group(f, key, D, a)
  BY <1>0, <1>2, BalanceIsIn DEF BalanceIn, Group
<1>4. by = [a \in FundAccounts |-> by[a]]
  OBVIOUS
<1>5. spent = [i \in D |-> SpentIn(entry)[i]]
  BY <1>0 DEF SpentIn, Spent
<1> HIDE DEF f, key, D, by, spent
<1>6. SumOn(by, FundAccounts) = SumOn(f, D)
  <2>1. \A i \in D : f[i] \in Int /\ key[i] \in FundAccounts
    BY <1>1
  <2>2. IsFiniteSet(D) /\ IsFiniteSet(FundAccounts)
    BY <1>0
  <2> QED BY <2>1, <2>2, <1>3, SumByKey
<1>7. SumOn(NetIn(entry), D) = SumOn(f, D) + SumOn(SpentIn(entry), D)
  BY <1>0, <1>1, SumPlus
<1>8. SumOn(NetIn(entry), D) = Opened /\ Opened \in Int
  BY DEF MoneyInv, Net, D, Opened
<1>9. SumOn(f, D) \in Int /\ SumOn(SpentIn(entry), D) \in Int
  BY <1>0, <1>1, SumInt
<1>10. SumOf(spent) = SumOn(SpentIn(entry), D) /\ SumOf(by) = SumOn(by, FundAccounts)
  BY <1>4, <1>5 DEF SumOn
<1> QED BY <1>6, <1>7, <1>8, <1>9, <1>10 DEF spent, by

\* Money moved into goals and out of them is never made or lost, whatever overlaps, stops or is
\* linked: the accounts hold what there was, less what was paid from them (contribute, close, _move).
THEOREM FundsKeepMoney ==
  FundsSpec => [](SumOf([a \in FundAccounts |-> Balance(a)])
                    = Opened - SumOf([k \in 1 .. Len(entry) |-> IF entry[k].kind = "expense" THEN entry[k].amount ELSE 0]))
<1>1. FundsInit => MoneyInv
  BY MoneyInit
<1>2. MoneyInv /\ [FundsNext]_fundVars => MoneyInv'
  BY MoneyStep
<1> QED BY <1>1, <1>2, AccountsAddUp, PTL DEF FundsSpec

\* Goals that have accounts of their own: closing one releases no more than it held unless two
\* requests on it overlapped, not even when the process stopped after the money moved and the goal
\* is closed again, with any number of goals and requests (contribute, close, _move).
THEOREM GoalsKeepMoney ==
  ASSUME OwnAccounts
  PROVE  FundsSpec => []GoalMoneyKept
<1>1. FundsInit => MoneyInv /\ GoalsInv
  <2> SUFFICES ASSUME FundsInit PROVE MoneyInv /\ GoalsInv
    OBVIOUS
  <2>1. MoneyInv /\ \A g \in DOMAIN Goals : BalanceIn(entry, Goals[g]) = 0
    BY MoneyInit
  <2>2. \A c \in Callers : ~ Closes(c) /\ caller[c].does # "release"
    BY DEF FundsInit, Closes, Waiting
  <2> QED BY <2>1, <2>2 DEF GoalsInv
<1>2. (MoneyInv /\ GoalsInv) /\ [FundsNext]_fundVars => (MoneyInv /\ GoalsInv)'
  BY MoneyStep, GoalsStep
<1>3. MoneyInv /\ GoalsInv => GoalMoneyKept
  <2> SUFFICES ASSUME MoneyInv, GoalsInv PROVE GoalMoneyKept
    OBVIOUS
  <2>1. \A g \in DOMAIN Goals : Balance(Goals[g]) = BalanceIn(entry, Goals[g])
    BY BalanceIsIn DEF MoneyInv
  <2> QED BY <2>1, AccountsAddUp DEF GoalMoneyKept, GoalsInv
<1> QED BY <1>1, <1>2, <1>3, PTL DEF FundsSpec

-----------------------------------------------------------------------------
(* Figures: one month, one figure.                                         *)

\* Of a finite set, one element has the least value.
LEMMA LeastValue ==
  ASSUME NEW f, NEW T, IsFiniteSet(T), T # {}, \A x \in T : f[x] \in Int
  PROVE  \E m \in T : \A y \in T : f[m] <= f[y]
<1> DEFINE G == {u \in SUBSET T : u = {} \/ \E m \in u : \A y \in u : f[m] <= f[y]}
<1>1. {} \in G
  OBVIOUS
<1>2. ASSUME NEW u \in SUBSET T, NEW x \in u, u \ {x} \in G
      PROVE  u \in G
  <2>1. CASE u \ {x} = {}
    <3>1. \A y \in u : y = x
      BY <2>1
    <3>2. f[x] <= f[x]
      OBVIOUS
    <3> QED BY <3>1, <3>2
  <2>2. CASE u \ {x} # {}
    <3>1. PICK m \in u \ {x} : \A y \in u \ {x} : f[m] <= f[y]
      BY <1>2, <2>2
    <3>2. CASE f[m] <= f[x]
      BY <3>1, <3>2
    <3>3. CASE ~ (f[m] <= f[x])
      <4>1. \A y \in u : f[x] <= f[y]
        BY <3>1, <3>3
      <4> QED BY <4>1
    <3> QED BY <3>2, <3>3
  <2> QED BY <2>1, <2>2
<1> HIDE DEF G
<1>3. T \in G
  BY <1>1, <1>2, OneByOne
<1> QED BY <1>3 DEF G

\* The largest n of a finite set can be told from the others.
LEMMA LargestExist ==
  ASSUME NEW f, NEW T, IsFiniteSet(T), \A x \in T : f[x] \in Int,
         NEW n \in Nat, n <= Cardinality(T)
  PROVE  \E S \in SUBSET T : Cardinality(S) = n /\ \A x \in S, y \in T \ S : f[x] >= f[y]
<1> DEFINE Top(S, u) == Cardinality(S) = n /\ \A x \in S, y \in u \ S : f[x] >= f[y]
           G == {u \in SUBSET T : n <= Cardinality(u) => \E S \in SUBSET u : Top(S, u)}
<1>1. {} \in G
  <2>1. Cardinality({}) = 0
    BY FS_EmptySet
  <2>2. n <= Cardinality({}) => Top({}, {})
    BY <2>1
  <2> QED BY <2>2
<1>2. ASSUME NEW u \in SUBSET T, u # {}, \A x \in u : u \ {x} \in G, n <= Cardinality(u)
      PROVE  \E S \in SUBSET u : Top(S, u)
  <2>0. IsFiniteSet(u) /\ Cardinality(u) \in Nat /\ \A x \in u : f[x] \in Int
    BY FS_Subset, FS_CardinalityType
  <2>1. CASE n = Cardinality(u)
    <3>1. Top(u, u)
      BY <2>1
    <3> QED BY <3>1
  <2>2. CASE n # Cardinality(u)
    <3>1. PICK m \in u : \A y \in u : f[m] <= f[y]
      BY <1>2, <2>0, LeastValue
    <3>2. Cardinality(u \ {m}) = Cardinality(u) - 1
      BY <2>0, <3>1, FS_RemoveElement
    <3>3. n <= Cardinality(u \ {m})
      BY <2>0, <2>2, <3>2, <1>2
    <3>4. PICK S \in SUBSET (u \ {m}) : Top(S, u \ {m})
      BY <1>2, <3>1, <3>3
    <3>5. ASSUME NEW x \in S, NEW y \in u \ S
          PROVE  f[x] >= f[y]
      <4>1. CASE y = m
        <5>1. f[m] <= f[x] /\ f[m] \in Int /\ f[x] \in Int
          BY <2>0, <3>1, <3>4
        <5> QED BY <4>1, <5>1
      <4>2. CASE y # m
        BY <3>4, <4>2
      <4> QED BY <4>1, <4>2
    <3>6. Top(S, u)
      BY <3>4, <3>5
    <3> QED BY <3>4, <3>6
  <2> QED BY <2>1, <2>2
<1>3. \A u \in SUBSET T : u # {} /\ (\A x \in u : u \ {x} \in G) => u \in G
  BY <1>2
<1> HIDE DEF G
<1>4. T \in G
  BY <1>1, <1>3, AllButOne
<1> QED BY <1>4 DEF G

\* Folding the small ones into one keeps the total.
LEMMA KeptInBuckets ==
  ASSUME NEW b, IsFiniteSet(DOMAIN b), \A n \in DOMAIN b : b[n] \in Int, NEW top \in Nat
  PROVE  KeptNodes(b, top) \subseteq DOMAIN b
<1>1. CASE Cardinality(DOMAIN b) <= top
  BY <1>1 DEF KeptNodes
<1>2. CASE ~ (Cardinality(DOMAIN b) <= top)
  <2>1. top <= Cardinality(DOMAIN b)
    BY <1>2, FS_CardinalityType
  <2>2. \E S \in SUBSET DOMAIN b : Cardinality(S) = top /\ \A x \in S, y \in DOMAIN b \ S : b[x] >= b[y]
    BY <2>1, LargestExist
  <2> QED BY <1>2, <2>2 DEF KeptNodes
<1> QED BY <1>1, <1>2

LEMMA FoldKeepsTotal ==
  ASSUME NEW b, IsFiniteSet(DOMAIN b), \A n \in DOMAIN b : b[n] \in Nat, NEW top \in Nat,
         NEW side, OtherNode(side) \notin DOMAIN b
  PROVE  SumOf(Fold(b, top, side)) = SumOn(b, DOMAIN b)
<1> DEFINE kept == KeptNodes(b, top)
           gone == DOMAIN b \ kept
           rest == SumOn(b, gone)
           o == OtherNode(side)
           more == IF rest > 0 THEN {o} ELSE {}
           F == [n \in kept \cup more |-> IF n \in kept THEN b[n] ELSE rest]
<1>1. Fold(b, top, side) = F
  BY DEF Fold, SumOn
<1>2. kept \subseteq DOMAIN b /\ IsFiniteSet(kept) /\ IsFiniteSet(gone)
  BY KeptInBuckets, FS_Subset
<1>3. rest \in Nat
  BY <1>2, SumNotNegative
<1>4. o \notin kept
  BY <1>2
<1> HIDE DEF kept, o, rest
<1>5. SumOn(b, DOMAIN b) = SumOn(b, kept) + rest
  <2>1. kept \cup gone = DOMAIN b /\ kept \cap gone = {}
    BY <1>2
  <2>2. SumOn(b, kept \cup gone) = SumOn(b, kept) + SumOn(b, gone)
    BY <1>2, <2>1, SumUnion
  <2> QED BY <2>1, <2>2 DEF rest
<1>6. SumOf(F) = SumOn(F, DOMAIN F)
  <2>1. F = [n \in DOMAIN F |-> F[n]]
    OBVIOUS
  <2> HIDE DEF F
  <2> QED BY <2>1 DEF SumOn
<1>7. SumOn(F, kept) = SumOn(b, kept)
  <2>1. \A n \in kept : F[n] = b[n]
    OBVIOUS
  <2> HIDE DEF F
  <2> QED BY <2>1, SumSame
<1>8. SumOn(b, kept) \in Int
  BY <1>2, SumInt
<1>9. CASE rest > 0
  <2>1. DOMAIN F = kept \cup {o} /\ F[o] = rest /\ \A n \in kept : F[n] \in Int
    BY <1>2, <1>4, <1>9
  <2> HIDE DEF F
  <2>2. SumOn(F, kept \cup {o}) = SumOn(F, kept) + F[o]
    BY <1>2, <1>3, <1>4, <2>1, SumMore
  <2> QED BY <1>1, <1>5, <1>6, <1>7, <2>1, <2>2
<1>10. CASE ~ (rest > 0)
  <2>1. DOMAIN F = kept /\ rest = 0
    BY <1>3, <1>10
  <2> HIDE DEF F
  <2> QED BY <1>1, <1>5, <1>6, <1>7, <1>8, <2>1
<1> QED BY <1>9, <1>10

\* Amounts of rows, as sums.
LEMMA AmountsIn ==
  ASSUME NEW R, NEW S, S \subseteq R
  PROVE  Amounts(S) = SumOn([r \in R |-> r.amount], S)
<1>1. [r \in S |-> r.amount] = [r \in S |-> [x \in R |-> x.amount][r]]
  OBVIOUS
<1> QED BY <1>1 DEF Amounts, SumOn

LEMMA NoAmounts == Amounts({}) = 0
<1>1. Amounts({}) = SumOn([r \in {} |-> r.amount], {}) BY AmountsIn
<1> DEFINE f == [r \in {} |-> r.amount]
<1> HIDE DEF f
<1>2. SumOn(f, {}) = 0 BY SumNothing
<1> QED BY <1>1, <1>2 DEF f

RowsAt(R, key, k) == {r \in R : key[r] = k}
LEMMA AmountsByKey ==
  ASSUME NEW R, IsFiniteSet(R), \A r \in R : r.amount \in Nat,
         NEW K, IsFiniteSet(K), NEW key, \A r \in R : key[r] \in K,
         NEW h, \A k \in K : h[k] = Amounts(RowsAt(R, key, k))
  PROVE  SumOn(h, K) = Amounts(R)
<1> DEFINE f == [r \in R |-> r.amount]
<1>1. \A k \in K : h[k] = Group(f, key, R, k)
  <2> SUFFICES ASSUME NEW k \in K PROVE Amounts(RowsAt(R, key, k)) = Group(f, key, R, k)
    OBVIOUS
  <2>1. RowsAt(R, key, k) \subseteq R
    BY DEF RowsAt
  <2> QED BY <2>1, AmountsIn DEF Group, RowsAt
<1>2. \A r \in R : f[r] \in Int /\ key[r] \in K
  OBVIOUS
<1>3. Amounts(R) = SumOn(f, R)
  BY AmountsIn
<1> HIDE DEF f
<1>4. SumOn(h, K) = SumOn(f, R)
  <2> DEFINE g == [k \in K |-> Group(f, key, R, k)]
  <2>1. \A k \in K : h[k] = g[k]
    BY <1>1
  <2>2. SumOn(g, K) = SumOn(f, R)
    BY <1>2, SumGroups
  <2> HIDE DEF g
  <2> QED BY <2>1, <2>2, SumSame
<1> QED BY <1>3, <1>4

LEMMA ImageFinite ==
  ASSUME NEW S, IsFiniteSet(S), NEW key
  PROVE  IsFiniteSet({key[x] : x \in S})
<1> DEFINE Of(u) == {key[x] : x \in u}
           G == {u \in SUBSET S : IsFiniteSet(Of(u))}
<1>1. {} \in G
  <2>1. Of({}) = {}
    OBVIOUS
  <2> QED BY <2>1, FS_EmptySet
<1>2. ASSUME NEW u \in SUBSET S, NEW x \in u, u \ {x} \in G
      PROVE  u \in G
  <2>1. Of(u) = Of(u \ {x}) \cup {key[x]}
    OBVIOUS
  <2>2. IsFiniteSet(Of(u \ {x}))
    BY <1>2
  <2>3. IsFiniteSet(Of(u \ {x}) \cup {key[x]})
    <3> HIDE DEF Of
    <3> QED BY <2>2, FS_AddElement
  <2>4. IsFiniteSet(Of(u))
    BY <2>1, <2>3
  <2> QED BY <2>4
<1> HIDE DEF G
<1>3. S \in G
  BY <1>1, <1>2, OneByOne
<1> QED BY <1>3 DEF G

\* A table of amounts by key has the rows' total.
Table(R, key) == [k \in {key[r] : r \in R} |-> Amounts(RowsAt(R, key, k))]
LEMMA TableTotals ==
  ASSUME NEW R, IsFiniteSet(R), \A r \in R : r.amount \in Nat, NEW key
  PROVE  /\ IsFiniteSet(DOMAIN Table(R, key))
         /\ \A k \in DOMAIN Table(R, key) : Table(R, key)[k] \in Nat
         /\ SumOn(Table(R, key), DOMAIN Table(R, key)) = Amounts(R)
         /\ SumOf(Table(R, key)) = Amounts(R)
<1> DEFINE h == Table(R, key)
           K == {key[r] : r \in R}
<1>1. DOMAIN h = K /\ \A k \in K : h[k] = Amounts(RowsAt(R, key, k))
  BY DEF Table
<1>2. IsFiniteSet(K)
  BY ImageFinite
<1>3. \A r \in R : key[r] \in K
  OBVIOUS
<1>4. h = [k \in K |-> h[k]]
  BY DEF Table
<1>5. ASSUME NEW k \in K PROVE h[k] \in Nat
  <2> DEFINE mine == RowsAt(R, key, k)
             f == [r \in R |-> r.amount]
  <2>1. mine \subseteq R /\ IsFiniteSet(mine) /\ \A r \in mine : f[r] \in Nat
    BY FS_Subset DEF RowsAt
  <2>2. h[k] = Amounts(mine)
    BY <1>1
  <2> HIDE DEF mine, h
  <2>3. Amounts(mine) = SumOn(f, mine)
    BY <2>1, AmountsIn
  <2> HIDE DEF f
  <2> QED BY <2>1, <2>2, <2>3, SumNotNegative
<1> HIDE DEF h, K
<1>6. SumOn(h, K) = Amounts(R)
  BY <1>1, <1>2, <1>3, AmountsByKey
<1>7. SumOf(h) = SumOn(h, K)
  BY <1>4 DEF SumOn
<1> QED BY <1>1, <1>2, <1>5, <1>6, <1>7 DEF h

\* The rows of the categorised flows: where they come from and what they are worth.
BooksInv == IsFiniteSet(books) /\ books \subseteq UNION Bundles
RowsOf(t) == IF t.splits = <<>> THEN {Whole(t)} ELSE PartsOf(t)

LEMMA PostedTyped ==
  ASSUME BooksInv, NEW t \in books
  PROVE  /\ t.amount \in Nat /\ t.category \in FigureCats \cup {0}
         /\ t.splits \in Seq([category : FigureCats \cup {0}, amount : Nat])
         /\ t.splits # <<>> => Amounts(PartsOf(t)) = t.amount
BY FiguresAssumption DEF BooksInv

LEMMA RowsAreParts ==
  ASSUME BooksInv
  PROVE  CategorisedFlows(books) = UNION {RowsOf(t) : t \in books}
<1>1. \A t \in books : t.splits = <<>> => PartsOf(t) = {}
  <2>1. DOMAIN <<>> = {}
    OBVIOUS
  <2> QED BY <2>1 DEF PartsOf
<1> QED BY <1>1 DEF CategorisedFlows, RowsOf

LEMMA RowsTyped ==
  ASSUME BooksInv, NEW t \in books
  PROVE  /\ IsFiniteSet(RowsOf(t)) /\ Amounts(RowsOf(t)) = t.amount
         /\ \A r \in RowsOf(t) : /\ r.at = t /\ r.tx = t.id /\ r.amount \in Nat
                                 /\ r.category \in FigureCats \cup {0}
<1>0. /\ t.amount \in Nat /\ t.category \in FigureCats \cup {0}
      /\ t.splits \in Seq([category : FigureCats \cup {0}, amount : Nat])
      /\ t.splits # <<>> => Amounts(PartsOf(t)) = t.amount
  BY PostedTyped
<1>1. CASE t.splits = <<>>
  <2> DEFINE w == Whole(t)
             f == [r \in {w} |-> r.amount]
  <2>1. RowsOf(t) = {w} /\ w.at = t /\ w.tx = t.id /\ w.amount = t.amount /\ w.category = t.category
    BY <1>1 DEF RowsOf, Whole
  <2> HIDE DEF w
  <2>2. IsFiniteSet({w}) /\ IsFiniteSet({})
    BY FS_Singleton, FS_EmptySet
  <2>3. Amounts({w}) = SumOn(f, {w})
    BY AmountsIn
  <2>4. f[w] = t.amount /\ f[w] \in Int
    BY <2>1, <1>0
  <2> HIDE DEF f
  <2>5. SumOn(f, {} \cup {w}) = SumOn(f, {}) + f[w]
    BY <2>2, <2>4, SumMore
  <2>6. {} \cup {w} = {w}
    OBVIOUS
  <2>7. Amounts({w}) = t.amount
    BY <2>3, <2>4, <2>5, <2>6, SumNothing
  <2> QED BY <1>0, <2>1, <2>2, <2>7
<1>2. CASE t.splits # <<>>
  <2>1. RowsOf(t) = PartsOf(t) /\ Amounts(RowsOf(t)) = t.amount
    BY <1>0, <1>2 DEF RowsOf
  <2> DEFINE Part(i) == [tx |-> t.id, part |-> i, category |-> t.splits[i].category,
                         amount |-> t.splits[i].amount, at |-> t]
             part == [i \in DOMAIN t.splits |-> Part(i)]
  <2>2. DOMAIN t.splits = 1 .. Len(t.splits) /\ Len(t.splits) \in Nat
    BY <1>0
  <2>3. IsFiniteSet(DOMAIN t.splits)
    BY <2>2, FS_Interval
  <2>4. PartsOf(t) = {part[i] : i \in DOMAIN t.splits}
    BY DEF PartsOf
  <2>5. \A i \in DOMAIN t.splits : t.splits[i] \in [category : FigureCats \cup {0}, amount : Nat]
    <3> DEFINE P == [category : FigureCats \cup {0}, amount : Nat]
               s == t.splits
    <3>1. s \in Seq(P)
      BY <1>0
    <3> HIDE DEF P, s
    <3>2. \A i \in DOMAIN s : s[i] \in P
      BY <3>1
    <3> QED BY <3>2 DEF P, s
  <2>6. \A i \in DOMAIN t.splits : /\ part[i].at = t /\ part[i].tx = t.id /\ part[i].amount \in Nat
                                   /\ part[i].category \in FigureCats \cup {0}
    BY <2>5
  <2> HIDE DEF part
  <2>7. IsFiniteSet(PartsOf(t))
    BY <2>3, <2>4, ImageFinite
  <2> QED BY <2>1, <2>4, <2>6, <2>7
<1> QED BY <1>1, <1>2

LEMMA FlowsTyped ==
  ASSUME BooksInv
  PROVE  /\ IsFiniteSet(CategorisedFlows(books))
         /\ \A r \in CategorisedFlows(books) :
               /\ r.at \in books /\ r \in RowsOf(r.at) /\ r.tx = r.at.id
               /\ r.amount \in Nat /\ r.category \in FigureCats \cup {0}
<1> DEFINE rows == [t \in books |-> RowsOf(t)]
           parts == {rows[t] : t \in books}
<1>1. IsFiniteSet(parts)
  BY ImageFinite DEF BooksInv
<1>2. \A p \in parts : IsFiniteSet(p)
  BY RowsTyped
<1>3. CategorisedFlows(books) = UNION parts
  BY RowsAreParts
<1>4. IsFiniteSet(UNION parts)
  <2> HIDE DEF parts
  <2> QED BY <1>1, <1>2, FS_UNION
<1>5. \A r \in CategorisedFlows(books) : \E t \in books : r \in RowsOf(t)
  BY RowsAreParts
<1> QED BY <1>3, <1>4, <1>5, RowsTyped

MonthRows(start, end, type) == {r \in FlowsFrom(start, end) : r.at.type = type}
Counted(start, end, type) ==
    {t \in From(start, end) : ~t.internal /\ t.id \notin LoanLinked(books) /\ t.type = type}

\* The categorised rows of a period are worth its transactions.
LEMMA RowsAreWorth ==
  ASSUME BooksInv, NEW start, NEW end, NEW type \in IncomeOrExpense
  PROVE  /\ IsFiniteSet(MonthRows(start, end, type))
         /\ \A r \in MonthRows(start, end, type) : r.amount \in Nat /\ r.category \in FigureCats \cup {0}
         /\ Amounts(MonthRows(start, end, type)) = Amounts(Counted(start, end, type))
<1> DEFINE R == MonthRows(start, end, type)
           S == Counted(start, end, type)
           key == [r \in R |-> r.at]
           h == [t \in S |-> t.amount]
<1>1. R \subseteq CategorisedFlows(books) /\ S \subseteq books
  BY DEF MonthRows, FlowsFrom, Counted, From
<1>2. IsFiniteSet(R) /\ IsFiniteSet(S)
  BY <1>1, FlowsTyped, FS_Subset DEF BooksInv
<1>3. \A r \in R : r.amount \in Nat /\ r.category \in FigureCats \cup {0}
  BY <1>1, FlowsTyped
<1>4. \A r \in R : key[r] \in S
  BY <1>1, FlowsTyped DEF MonthRows, FlowsFrom, Counted, From
<1>5. ASSUME NEW t \in S PROVE RowsAt(R, key, t) = RowsOf(t)
  <2>1. \A r \in RowsOf(t) : r \in CategorisedFlows(books) /\ r.at = t /\ r.tx = t.id
    BY <1>1, RowsAreParts, RowsTyped
  <2>2. RowsOf(t) \subseteq R
    BY <2>1 DEF MonthRows, FlowsFrom, Counted, From
  <2>3. \A r \in R : r \in RowsOf(r.at)
    BY <1>1, FlowsTyped
  <2> QED BY <2>1, <2>2, <2>3 DEF RowsAt
<1>6. \A t \in S : h[t] = Amounts(RowsAt(R, key, t))
  BY <1>1, <1>5, RowsTyped
<1>7. Amounts(S) = SumOn(h, S)
  BY AmountsIn
<1> HIDE DEF R, S, key, h
<1>8. SumOn(h, S) = Amounts(R)
  <2>1. \A r \in R : r.amount \in Nat
    BY <1>3
  <2>2. IsFiniteSet(R) /\ IsFiniteSet(S)
    BY <1>2
  <2> QED BY <2>1, <2>2, <1>4, <1>6, AmountsByKey
<1> QED BY <1>2, <1>3, <1>7, <1>8 DEF R, S

LEMMA StatementTotals ==
  ASSUME BooksInv, NEW m, NEW type \in IncomeOrExpense
  PROVE  LET by == SumByCategory(m, m + 1, type)
         IN  /\ IsFiniteSet(DOMAIN by) /\ \A n \in DOMAIN by : by[n] \in Nat
             /\ SumOf(by) = MonthSummary(m)[type] /\ SumOn(by, DOMAIN by) = MonthSummary(m)[type]
<1> DEFINE R == MonthRows(m, m + 1, type)
           key == [r \in R |-> IF r.category = 0 THEN "none" ELSE CatName[r.category]]
<1>1. SumByCategory(m, m + 1, type) = Table(R, key)
  BY DEF SumByCategory, MonthRows, Table, RowsAt
<1>2. IsFiniteSet(R) /\ (\A r \in R : r.amount \in Nat) /\ Amounts(R) = MonthSummary(m)[type]
  BY RowsAreWorth DEF MonthSummary, Counted
<1> HIDE DEF R, key
<1> QED BY <1>1, <1>2, TableTotals

LEMMA DiagramTotals ==
  ASSUME BooksInv, NEW m, NEW type \in IncomeOrExpense, NEW depth, NEW top \in Nat, NEW side
  PROVE  SumOf(Fold(Buckets(FlowsFrom(m, m + 1), type, depth), top, side)) = MonthSummary(m)[type]
<1> DEFINE R == MonthRows(m, m + 1, type)
           key == [r \in R |-> CategoryNode(r.category, type, depth)]
           b == Table(R, key)
<1>1. Buckets(FlowsFrom(m, m + 1), type, depth) = b
  BY DEF Buckets, MonthRows, Table, RowsAt
<1>2. /\ IsFiniteSet(R) /\ Amounts(R) = MonthSummary(m)[type]
      /\ \A r \in R : r.amount \in Nat /\ r.category \in FigureCats \cup {0}
  BY RowsAreWorth DEF MonthSummary, Counted
<1>3. \A k \in FigureCats \cup {0} : k \in Nat /\ Parent(k) \in Nat
  <2>1. FigureCats \subseteq Nat /\ \A k \in FigureCats : CatParent[k] \in FigureCats \cup {0}
    BY FiguresAssumption
  <2> SUFFICES ASSUME NEW k \in FigureCats \cup {0} PROVE k \in Nat /\ Parent(k) \in Nat
    OBVIOUS
  <2>2. CASE k = 0
    BY <2>2 DEF Parent
  <2>3. CASE k # 0
    <3>1. k \in FigureCats /\ Parent(k) = CatParent[k]
      BY <2>3 DEF Parent
    <3>2. CatParent[k] \in FigureCats \cup {0}
      BY <2>1, <3>1
    <3>3. \A n \in FigureCats \cup {0} : n \in Nat
      BY <2>1
    <3> QED BY <3>1, <3>2, <3>3, Zenon
  <2> QED BY <2>2, <2>3
<1>4. \A r \in R : key[r] # OtherNode(side)
  BY <1>2, <1>3 DEF CategoryNode, OtherNode
<1>5. OtherNode(side) \notin DOMAIN b
  BY <1>4 DEF Table
<1>6. /\ IsFiniteSet(DOMAIN b) /\ \A k \in DOMAIN b : b[k] \in Nat
      /\ SumOn(b, DOMAIN b) = Amounts(R)
  <2> HIDE DEF R, key
  <2> QED BY <1>2, TableTotals
<1> HIDE DEF R, b
<1> QED BY <1>1, <1>2, <1>5, <1>6, FoldKeepsTotal

LEMMA VarianceTotals ==
  ASSUME BooksInv, NEW m
  PROVE  SumOf([n \in DOMAIN BudgetVariance(m) |-> BudgetVariance(m)[n].actual]) = MonthSummary(m)["expense"]
<1> DEFINE by == SumByCategory(m, m + 1, "expense")
           plan == DOMAIN PlannedByName
           D == plan \cup DOMAIN by
           f == [n \in D |-> IF n \in DOMAIN by THEN by[n] ELSE 0]
<1>1. /\ IsFiniteSet(DOMAIN by) /\ \A n \in DOMAIN by : by[n] \in Nat
      /\ SumOn(by, DOMAIN by) = MonthSummary(m)["expense"]
  BY StatementTotals DEF IncomeOrExpense
<1>2. IsFiniteSet(plan)
  <2> DEFINE name == [k \in DOMAIN MonthBudgets |-> CatName[k]]
  <2>1. plan = {name[k] : k \in DOMAIN MonthBudgets}
    BY DEF PlannedByName
  <2> HIDE DEF name
  <2> QED BY <2>1, FiguresAssumption, ImageFinite
<1>3. DOMAIN BudgetVariance(m) = D /\ \A n \in D : BudgetVariance(m)[n].actual = f[n]
  BY DEF BudgetVariance
<1>4. [n \in DOMAIN BudgetVariance(m) |-> BudgetVariance(m)[n].actual] = [n \in D |-> f[n]]
  BY <1>3
<1>5. IsFiniteSet(D) /\ DOMAIN by \subseteq D
  BY <1>1, <1>2, FS_Union
<1>6. /\ \A n \in D : f[n] \in Int
      /\ \A n \in D \ DOMAIN by : f[n] = 0
      /\ \A n \in DOMAIN by : f[n] = by[n]
  BY <1>1
<1> HIDE DEF by, f, D
<1>7. SumOn(f, D) = SumOn(f, DOMAIN by)
  BY <1>5, <1>6, SumWithoutZeros
<1>8. SumOn(f, DOMAIN by) = SumOn(by, DOMAIN by)
  BY <1>6, SumSame
<1> QED BY <1>1, <1>4, <1>7, <1>8 DEF SumOn

LEMMA BooksStep ==
  ASSUME BooksInv, [FiguresNext]_figureVars
  PROVE  BooksInv'
<1>1. CASE Post
  <2>1. PICK b \in Bundles : books' = books \cup b
    BY <1>1 DEF Post
  <2>2. IsFiniteSet(b)
    BY FiguresAssumption
  <2>3. IsFiniteSet(books \cup b)
    BY <2>2, FS_Union DEF BooksInv
  <2> QED BY <2>1, <2>3 DEF BooksInv
<1>2. CASE Delete
  BY <1>2, FS_Subset DEF Delete, BooksInv
<1>3. CASE UNCHANGED books
  BY <1>3 DEF BooksInv
<1> QED BY <1>1, <1>2, <1>3 DEF FiguresNext, figureVars, PlanOccurrence, ChargeDue, RecordRate

\* The chart's one query, grouped and picked from, gives each month its summary.
LEMMA CashflowTotals ==
  ASSUME BooksInv, NEW m \in DOMAIN Cashflow(2)
  PROVE  Cashflow(2)[m] = MonthSummary(m)
<1> DEFINE start == Now - 2 + 1
           counted == {t \in books : t.month >= start /\ ~t.internal /\ t.id \notin LoanLinked(books)}
           groups == {<<t.month, t.type>> : t \in counted}
           total == [g \in groups |-> Amounts({t \in counted : <<t.month, t.type>> = g})]
           bar(type) == IF <<m, type>> \in groups THEN total[<<m, type>>] ELSE 0
           mine(type) == {t \in From(m, m + 1) : ~t.internal /\ t.id \notin LoanLinked(books) /\ t.type = type}
<1>1. m \in start .. Now /\ Cashflow(2)[m] = [type \in IncomeOrExpense |-> bar(type)]
  BY DEF Cashflow
<1>2. m \in Int /\ m >= start BY <1>1, FiguresAssumption
<1>3. \A t \in books : t.month \in Int BY FiguresAssumption DEF BooksInv
<1>4. ASSUME NEW type PROVE {t \in counted : <<t.month, t.type>> = <<m, type>>} = mine(type)
  BY <1>2, <1>3 DEF From
<1>5. ASSUME NEW type \in IncomeOrExpense PROVE bar(type) = Amounts(mine(type))
  <2>1. CASE <<m, type>> \in groups
    BY <1>4, <2>1
  <2>2. CASE <<m, type>> \notin groups
    <3>1. \A t \in counted : <<t.month, t.type>> # <<m, type>> BY <2>2
    <3>2. mine(type) = {}
      <4> HIDE DEF counted
      <4> QED BY <1>4, <3>1
    <3> QED BY <2>2, <3>2, NoAmounts
  <2> QED BY <2>1, <2>2
<1>6. MonthSummary(m) = [type \in IncomeOrExpense |-> Amounts(mine(type))] BY DEF MonthSummary
<1> HIDE DEF bar, mine
<1> QED BY <1>1, <1>5, <1>6

\* One month, one figure, for every ledger, category tree and set of budgets: the statement by
\* category, the month's summary, the cash-flow chart, both diagrams with any fold into "Other" and
\* the budget report agree on what was earned and spent (report_service.py, money_flow_service.py).
THEOREM OneMonthOneFigure == FiguresSpec => []FiguresAgree
<1>1. FiguresInit => BooksInv
  BY FS_EmptySet DEF FiguresInit, BooksInv
<1>2. BooksInv /\ [FiguresNext]_figureVars => BooksInv'
  BY BooksStep
<1>3. BooksInv => FiguresAgree
  <2> SUFFICES ASSUME BooksInv, NEW top \in FlowTops
               PROVE  LET summary == MonthSummary(Now)
                          statement == IncomeStatement(Now)
                          pool == BuildBudget(Now, Now + 1, top, 1)
                          accounts == BuildAccounts(Now, Now + 1, top, 2)
                      IN /\ SumOf(statement["income"]) = summary["income"]
                         /\ SumOf(statement["expense"]) = summary["expense"]
                         /\ \A m \in DOMAIN Cashflow(2) : Cashflow(2)[m] = MonthSummary(m)
                         /\ pool.in = summary["income"] /\ pool.out = summary["expense"]
                         /\ accounts.in = summary["income"] /\ accounts.out = summary["expense"]
                         /\ SumOf([n \in DOMAIN BudgetVariance(Now) |-> BudgetVariance(Now)[n].actual])
                              = summary["expense"]
    BY DEF FiguresAgree
  <2>0. top \in Nat /\ Now \in Int
    BY FiguresAssumption
  <2>1. \A type \in IncomeOrExpense : SumOf(IncomeStatement(Now)[type]) = MonthSummary(Now)[type]
    BY StatementTotals DEF IncomeStatement
  <2>2. \A m \in DOMAIN Cashflow(2) : Cashflow(2)[m] = MonthSummary(m)
    BY CashflowTotals
  <2>3. /\ BuildBudget(Now, Now + 1, top, 1).in = MonthSummary(Now)["income"]
        /\ BuildBudget(Now, Now + 1, top, 1).out = MonthSummary(Now)["expense"]
    BY <2>0, DiagramTotals DEF BuildBudget, IncomeOrExpense
  <2>4. \A type \in IncomeOrExpense : Amounts(MonthRows(Now, Now + 1, type)) = MonthSummary(Now)[type]
    BY RowsAreWorth DEF MonthSummary, Counted
  <2>5. /\ BuildAccounts(Now, Now + 1, top, 2).in = MonthSummary(Now)["income"]
        /\ BuildAccounts(Now, Now + 1, top, 2).out = MonthSummary(Now)["expense"]
    BY <2>4 DEF BuildAccounts, MonthRows, IncomeOrExpense
  <2> QED BY <2>1, <2>2, <2>3, <2>5, VarianceTotals DEF IncomeOrExpense
<1> QED BY <1>1, <1>2, <1>3, PTL DEF FiguresSpec
-----------------------------------------------------------------------------
(* Projection: the plans are on the line.                                  *)

\* Two sequences, one after the other.
LEMMA Joined ==
  ASSUME NEW m \in Nat, NEW n \in Nat, NEW s, NEW t, DOMAIN s = 1 .. m, DOMAIN t = 1 .. n,
         s = [i \in 1 .. m |-> s[i]], t = [i \in 1 .. n |-> t[i]]
  PROVE  /\ Len(s \o t) = m + n /\ DOMAIN (s \o t) = 1 .. m + n
         /\ \A i \in 1 .. m : (s \o t)[i] = s[i]
         /\ \A i \in 1 .. n : (s \o t)[m + i] = t[i]
<1> DEFINE S == {s[i] : i \in 1 .. m} \cup {t[i] : i \in 1 .. n}
<1>1. s \in [1 .. m -> S] /\ t \in [1 .. n -> S]
  OBVIOUS
<1> HIDE DEF S
<1>2. s \in Seq(S) /\ t \in Seq(S) /\ Len(s) = m /\ Len(t) = n
  BY <1>1, SeqDef
<1>3. /\ s \o t \in Seq(S) /\ Len(s \o t) = m + n
      /\ \A i \in 1 .. m + n : (s \o t)[i] = IF i <= m THEN s[i] ELSE t[i - m]
  BY <1>2, ConcatProperties
<1>4. DOMAIN (s \o t) = 1 .. m + n
  BY <1>3, LenProperties
<1>5. \A i \in 1 .. m : (s \o t)[i] = s[i]
  BY <1>3
<1>6. \A i \in 1 .. n : (s \o t)[m + i] = t[i]
  <2> SUFFICES ASSUME NEW i \in 1 .. n PROVE (s \o t)[m + i] = t[i]
    OBVIOUS
  <2>1. m + i \in 1 .. m + n /\ ~ (m + i <= m) /\ (m + i) - m = i
    OBVIOUS
  <2> QED BY <2>1, <1>3
<1> QED BY <1>3, <1>4, <1>5, <1>6

\* The rows of a forecast: the history in order, without a band, and a day after the other.
Started(running) ==
    /\ Len(running) \in Nat \ {0} /\ DOMAIN running = 1 .. Len(running)
    /\ \A i \in DOMAIN running : running[i].day \in Int
    /\ \A i, j \in DOMAIN running : i < j => running[i].day < running[j].day
DrawnFrom(rows, n) ==
    /\ \A i, j \in 1 .. n : i < j => rows[i].day < rows[j].day
    /\ \A i \in DOMAIN rows : i > n => rows[i].day = rows[n].day + (i - n)
    /\ \A i \in DOMAIN rows : rows[i].band = 0 <=> i <= n
Line(rows) ==
    /\ Len(rows) \in Nat \ {0} /\ DOMAIN rows = 1 .. Len(rows)
    /\ \A i \in DOMAIN rows : rows[i].day \in Int
    /\ \E n \in DOMAIN rows : DrawnFrom(rows, n)

LEMMA LineRises ==
  ASSUME NEW rows, Line(rows)
  PROVE  \A i, j \in DOMAIN rows : i < j => rows[i].day < rows[j].day
<1>1. PICK n \in DOMAIN rows : DrawnFrom(rows, n)
  BY DEF Line
<1>2. DOMAIN rows = 1 .. Len(rows) /\ Len(rows) \in Nat /\ \A i \in DOMAIN rows : rows[i].day \in Int
  BY DEF Line
<1> SUFFICES ASSUME NEW i \in DOMAIN rows, NEW j \in DOMAIN rows, i < j PROVE rows[i].day < rows[j].day
  OBVIOUS
<1>3. CASE j <= n
  BY <1>1, <1>2, <1>3 DEF DrawnFrom
<1>4. CASE ~ (j <= n)
  <2>1. rows[j].day = rows[n].day + (j - n) /\ j > n
    BY <1>1, <1>2, <1>4 DEF DrawnFrom
  <2>2. CASE i > n
    BY <1>1, <1>2, <2>1, <2>2 DEF DrawnFrom
  <2>3. CASE i = n
    BY <1>2, <2>1, <2>3
  <2>4. CASE i < n
    <3>1. rows[i].day < rows[n].day
      BY <1>1, <1>2, <2>4 DEF DrawnFrom
    <3> QED BY <1>2, <2>1, <3>1
  <2> QED BY <1>2, <2>2, <2>3, <2>4
<1> QED BY <1>3, <1>4

\* The forecaster continues what it was given, day after day.
LEMMA RunIsALine ==
  ASSUME NEW running, Started(running), NEW horizon \in Nat
  PROVE  Line(Run(running, horizon))
<1> DEFINE n == Len(running)
           s == [i \in DOMAIN running |-> [day |-> running[i].day, value |-> running[i].value, band |-> 0]]
           t == [k \in 1 .. horizon |-> [day |-> Last(running).day + k,
                                        value |-> Last(running).value + k * Drift, band |-> 2 * k]]
           rows == s \o t
<1>0. n \in Nat /\ n >= 1 /\ DOMAIN running = 1 .. n
  BY DEF Started
<1>1. Run(running, horizon) = rows
  BY DEF Run
<1>2. /\ DOMAIN s = 1 .. n /\ DOMAIN t = 1 .. horizon
      /\ s = [i \in 1 .. n |-> s[i]] /\ t = [i \in 1 .. horizon |-> t[i]]
  BY <1>0
<1>3. \A i \in 1 .. n : s[i].day = running[i].day /\ s[i].band = 0
  BY <1>0
<1>4. \A k \in 1 .. horizon : t[k].day = running[n].day + k /\ t[k].band = 2 * k
  BY DEF Last
<1> HIDE DEF s, t, n
<1>5. /\ Len(rows) = n + horizon /\ DOMAIN rows = 1 .. n + horizon
      /\ \A i \in 1 .. n : rows[i] = s[i]
      /\ \A i \in 1 .. horizon : rows[n + i] = t[i]
  BY <1>0, <1>2, Joined
<1> HIDE DEF rows
<1>6. /\ \A i \in 1 .. n : rows[i].day = running[i].day /\ running[i].day \in Int /\ rows[i].band = 0
      /\ \A i, j \in 1 .. n : i < j => rows[i].day < rows[j].day
  BY <1>0, <1>3, <1>5 DEF Started
<1>7. n \in 1 .. n /\ rows[n].day = running[n].day /\ rows[n].day \in Int
  BY <1>0, <1>6
<1>8. ASSUME NEW i \in DOMAIN rows, i > n
      PROVE  rows[i].day = rows[n].day + (i - n) /\ rows[i].day \in Int /\ rows[i].band # 0
  <2>1. i - n \in 1 .. horizon /\ n + (i - n) = i
    BY <1>0, <1>5, <1>8
  <2>2. rows[i] = t[i - n]
    BY <1>5, <2>1
  <2>3. rows[i].day = rows[n].day + (i - n) /\ rows[i].band = 2 * (i - n)
    BY <1>4, <1>7, <2>1, <2>2
  <2> QED BY <1>7, <2>1, <2>3
<1>9. \A i \in DOMAIN rows : rows[i].day \in Int /\ (i <= n \/ i > n) /\ (i <= n => i \in 1 .. n)
  BY <1>0, <1>5, <1>6, <1>8
<1>10. \A i \in DOMAIN rows : rows[i].band = 0 <=> i <= n
  <2> SUFFICES ASSUME NEW i \in DOMAIN rows PROVE rows[i].band = 0 <=> i <= n
    OBVIOUS
  <2>1. CASE i <= n
    BY <1>6, <1>9, <2>1
  <2>2. CASE ~ (i <= n)
    BY <1>8, <1>9, <2>2
  <2> QED BY <2>1, <2>2
<1>11. DrawnFrom(rows, n)
  BY <1>6, <1>8, <1>10 DEF DrawnFrom
<1> QED BY <1>0, <1>1, <1>5, <1>9, <1>11 DEF Line

LedgerOK == IsFiniteSet(ledger) /\ \A m \in ledger : m.day \in Int

\* What is read for the forecaster is in order.
LEMMA HistoryStarts ==
  ASSUME LedgerOK, NEW balance, ~ (Cardinality({m.day : m \in History}) < MinDays)
  PROVE  Started(Running(History, balance))
<1> DEFINE S == {m.day : m \in History}
           days == DaysOf(History)
           running == Running(History, balance)
<1>1. IsFiniteSet(S) /\ S \subseteq Int
  <2> DEFINE day == [m \in History |-> m.day]
  <2>1. History \subseteq ledger
    BY DEF History
  <2>2. IsFiniteSet(History)
    BY <2>1, FS_Subset DEF LedgerOK
  <2>3. S = {day[m] : m \in History}
    OBVIOUS
  <2> HIDE DEF day
  <2>4. IsFiniteSet(S)
    BY <2>2, <2>3, ImageFinite
  <2> QED BY <2>1, <2>4 DEF LedgerOK
<1>2. days \in [1 .. Cardinality(S) -> S] /\ \A i, j \in DOMAIN days : i < j => days[i] < days[j]
  <2> DEFINE R == {p \in S \X S : p[1] < p[2]}
  <2>1. \A x, y \in S : <<x, y>> \in R <=> x < y
    OBVIOUS
  <2>2. \A x \in S : x \in Int
    BY <1>1
  <2>3. days = Arranged(S, R)
    BY DEF DaysOf
  <2> HIDE DEF R, S
  <2>4. Connected(S, R) /\ Transitive(S, R)
    BY <2>1, <2>2 DEF Connected, Transitive
  <2>5. Arranges(days, S, R)
    BY <1>1, <2>3, <2>4, ArrangedIs
  <2> HIDE DEF days
  <2> QED BY <2>1, <2>5 DEF Arranges
<1>3. DOMAIN running = DOMAIN days /\ \A i \in DOMAIN days : running[i].day = days[i]
  BY DEF Running
<1>4. Cardinality(S) \in Nat \ {0}
  <2>1. Cardinality(S) \in Nat
    BY <1>1, FS_CardinalityType
  <2> QED BY <2>1, ProjectionAssumption
<1>5. running = [i \in 1 .. Cardinality(S) |-> running[i]]
  BY <1>2 DEF Running
<1> HIDE DEF S, days, running
<1>6. Len(running) = Cardinality(S)
  BY <1>4, <1>5
<1>7. DOMAIN running = 1 .. Len(running)
  BY <1>2, <1>3, <1>6
<1>8. \A i \in DOMAIN running : running[i].day \in Int
  BY <1>1, <1>2, <1>3
<1>9. \A i, j \in DOMAIN running : i < j => running[i].day < running[j].day
  BY <1>2, <1>3
<1>10. Started(running)
  BY <1>4, <1>6, <1>7, <1>8, <1>9 DEF Started
<1> QED BY <1>10 DEF running

\* What is drawn: the plans that are on it.
OnTheLine(r) ==
    Forecast(r.points) # {} =>
        Kpis(r.points).predicted = r.base + Total({e \in r.events :
            /\ e.day <= Reaches(r.points) /\ e.day \notin BookedDays(r.points)
            /\ e.day > GivenUpTo(r.points) \/ \E p \in Range(r.points) : p.day = e.day})

LEMMA DrawPutsPlansOnTheLine ==
  ASSUME NEW rows, Line(rows), NEW dates, NEW r, NEW events, \A e \in events : e.day \in Int,
         r.points = ApplyScenarios(ToPoints(rows, dates), events), r.events = events,
         r.base = IF Forecast(ToPoints(rows, dates)) = {} THEN 0
                  ELSE ToPoints(rows, dates)[Max(Forecast(ToPoints(rows, dates)))].value
  PROVE  OnTheLine(r)
<1> DEFINE points == ToPoints(rows, dates)
           n == Len(rows)
           with == ApplyScenarios(points, events)
           m == Max(Forecast(points))
<1>1. n \in Nat \ {0} /\ DOMAIN rows = 1 .. n /\ DOMAIN points = 1 .. n /\ DOMAIN with = 1 .. n
  BY DEF Line, ToPoints, ApplyScenarios
<1>2. \A i \in 1 .. n : points[i].day = rows[i].day /\ points[i].band = rows[i].band
  BY <1>1 DEF ToPoints
<1>3. \A i \in 1 .. n :
         /\ with[i].day = points[i].day /\ with[i].forecast = points[i].forecast /\ with[i].band = points[i].band
         /\ points[i].forecast \in BOOLEAN
         /\ points[i].forecast => with[i].value = points[i].value + Moved(points, events, i)
  <2> SUFFICES ASSUME NEW i \in 1 .. n
               PROVE  /\ with[i].day = points[i].day /\ with[i].forecast = points[i].forecast
                      /\ with[i].band = points[i].band /\ points[i].forecast \in BOOLEAN
                      /\ points[i].forecast => with[i].value = points[i].value + Moved(points, events, i)
    OBVIOUS
  <2> DEFINE by == Moved(points, events, i)
  <2>1. points[i] = [day |-> rows[i].day, value |-> rows[i].value, mid |-> rows[i].value,
                     band |-> rows[i].band, forecast |-> rows[i].day \notin dates]
    BY <1>1 DEF ToPoints
  <2>2. with[i] = IF points[i].forecast
                  THEN [points[i] EXCEPT !.value = @ + by, !.mid = @ + by] ELSE points[i]
    BY <1>1 DEF ApplyScenarios
  <2> HIDE DEF by, points, with
  <2> QED BY <2>1, <2>2 DEF by
<1> SUFFICES ASSUME Forecast(with) # {}
             PROVE  Kpis(with).predicted = r.base + Total({e \in events :
                       /\ e.day <= Reaches(with) /\ e.day \notin BookedDays(with)
                       /\ e.day > GivenUpTo(with) \/ \E p \in Range(with) : p.day = e.day})
  BY DEF OnTheLine
<1> HIDE DEF n, points, with, m
<1>4. Forecast(with) = Forecast(points)
  BY <1>1, <1>3 DEF Forecast
<1>5. m \in 1 .. n /\ points[m].forecast /\ \A i \in 1 .. n : points[i].forecast => i <= m
  <2>1. Forecast(points) \subseteq 1 .. n /\ Forecast(points) \subseteq Int
    BY <1>1 DEF Forecast
  <2>2. IsFiniteSet(Forecast(points))
    BY <1>1, <2>1, FS_Interval, FS_Subset
  <2>3. m \in Forecast(points) /\ \A i \in Forecast(points) : i <= m
    BY <1>4, <2>1, <2>2, MaxIs DEF m
  <2> QED BY <1>1, <2>1, <2>3 DEF Forecast
<1>6. /\ Kpis(with).predicted = with[m].value /\ Reaches(with) = with[m].day
      /\ r.base = points[m].value
  BY <1>4 DEF Kpis, Reaches, m, points
<1>7. Kpis(with).predicted = r.base + Moved(points, events, m)
  BY <1>3, <1>5, <1>6
<1>8. \A i, j \in 1 .. n : i < j => rows[i].day < rows[j].day
  BY <1>1, LineRises
<1>9. \A i \in 1 .. n : rows[i].day \in Int
  BY <1>1 DEF Line
<1>10. PICK k \in 1 .. n : DrawnFrom(rows, k)
  BY <1>1 DEF Line
<1>11. GivenUpTo(with) = rows[k].day
  <2> DEFINE given == {p.day : p \in {q \in Range(with) : q.band = 0}}
  <2>1. with[k].band = 0 /\ with[k].day = rows[k].day
    BY <1>1, <1>2, <1>3, <1>10 DEF DrawnFrom
  <2>2. with[k] \in Range(with)
    BY <1>1 DEF Range
  <2>3. rows[k].day \in given
    BY <2>1, <2>2
  <2>4. ASSUME NEW d \in given PROVE rows[k].day >= d /\ d \in Int
    <3>1. PICK i \in 1 .. n : with[i].band = 0 /\ with[i].day = d
      BY <1>1, <2>4 DEF Range
    <3>2. rows[i].band = 0 /\ rows[i].day = d
      BY <1>2, <1>3, <3>1
    <3>3. i <= k
      BY <1>1, <1>10, <3>2 DEF DrawnFrom
    <3>4. i = k \/ i < k
      BY <3>3
    <3> QED BY <1>8, <1>9, <3>2, <3>4
  <2> HIDE DEF given
  <2>5. Max(given) = rows[k].day
    <3>1. \A d \in given : rows[k].day >= d /\ (d >= rows[k].day => d = rows[k].day)
      BY <1>9, <2>4
    <3> QED BY <2>3, <3>1 DEF Max
  <2> QED BY <2>5 DEF GivenUpTo, given
<1>12. \A i \in 1 .. n : with[i].day \in BookedDays(with) <=> ~ points[i].forecast
  <2> SUFFICES ASSUME NEW i \in 1 .. n PROVE with[i].day \in BookedDays(with) <=> ~ points[i].forecast
    OBVIOUS
  <2>1. CASE ~ points[i].forecast
    BY <1>1, <1>3, <2>1 DEF BookedDays, Historical
  <2>2. ASSUME points[i].forecast, NEW j \in Historical(with), with[j].day = with[i].day PROVE FALSE
    <3>1. j \in 1 .. n /\ ~ points[j].forecast
      BY <1>1, <1>3, <2>2 DEF Historical
    <3>2. i < j \/ j < i
      BY <2>2, <3>1
    <3>3. rows[i].day = rows[j].day
      BY <1>2, <1>3, <2>2, <3>1
    <3> QED BY <1>8, <1>9, <3>1, <3>2, <3>3
  <2> QED BY <1>3, <2>1, <2>2 DEF BookedDays
<1> DEFINE reached == {e \in events : \E j \in 1 .. m : points[j].forecast /\ points[j].day = e.day}
           counted == {e \in events : /\ e.day <= Reaches(with) /\ e.day \notin BookedDays(with)
                                      /\ e.day > GivenUpTo(with) \/ \E p \in Range(with) : p.day = e.day}
<1>13. \A j \in 1 .. n : with[j] \in Range(with) /\ with[j].day = rows[j].day
  BY <1>1, <1>2, <1>3 DEF Range
<1>14. ASSUME NEW e \in events, NEW j \in 1 .. m, points[j].forecast, points[j].day = e.day
       PROVE  e \in counted
  <2>1. j \in 1 .. n /\ e.day = rows[j].day /\ with[j].day = e.day
    BY <1>1, <1>2, <1>5, <1>13, <1>14
  <2>2. j = m \/ rows[j].day < rows[m].day
    BY <1>5, <1>8, <2>1
  <2>3. e.day <= with[m].day
    BY <1>5, <1>9, <1>13, <2>1, <2>2
  <2>4. e.day \notin BookedDays(with)
    BY <1>12, <1>14, <2>1
  <2> QED BY <1>6, <1>13, <2>1, <2>3, <2>4
<1>15. ASSUME NEW e \in counted
       PROVE  \E j \in 1 .. m : points[j].forecast /\ points[j].day = e.day
  <2>1. e.day \in Int /\ e.day <= rows[m].day /\ e.day \notin BookedDays(with)
    BY <1>5, <1>6, <1>13
  <2>2. ASSUME NEW j \in 1 .. n, rows[j].day = e.day
        PROVE  \E i \in 1 .. m : points[i].forecast /\ points[i].day = e.day
    <3>1. points[j].forecast /\ points[j].day = e.day
      BY <1>2, <1>3, <1>12, <1>13, <2>1, <2>2
    <3> QED BY <1>5, <3>1
  <2>3. CASE \E p \in Range(with) : p.day = e.day
    <3>1. PICK j \in 1 .. n : with[j].day = e.day
      BY <1>1, <2>3 DEF Range
    <3> QED BY <1>13, <2>2, <3>1
  <2>4. CASE e.day > GivenUpTo(with)
    <3>1. e.day > rows[k].day /\ rows[k].day \in Int /\ rows[m].day \in Int
      BY <1>5, <1>9, <1>11, <2>4
    <3>2. rows[m].day > rows[k].day
      BY <2>1, <3>1
    <3>3. m > k
      <4>1. m # k /\ (m < k => rows[m].day < rows[k].day)
        BY <1>5, <1>8, <3>1, <3>2
      <4> QED BY <1>5, <3>1, <3>2, <4>1
    <3>4. rows[m].day = rows[k].day + (m - k)
      BY <1>1, <1>5, <1>10, <3>3 DEF DrawnFrom
    <3> DEFINE j == k + (e.day - rows[k].day)
    <3>5. j \in 1 .. n /\ j > k
      BY <1>1, <1>5, <2>1, <3>1, <3>4
    <3>6. rows[j].day = rows[k].day + (j - k)
      BY <1>1, <1>10, <3>5 DEF DrawnFrom
    <3>7. rows[j].day = e.day
      BY <2>1, <3>1, <3>6
    <3> HIDE DEF j
    <3> QED BY <2>2, <3>5, <3>7
  <2> QED BY <2>3, <2>4
<1>16. reached = counted
  BY <1>14, <1>15
<1>17. Moved(points, events, m) = Total(counted)
  BY <1>16 DEF Moved
<1> QED BY <1>7, <1>17

Fields == {"state", "horizon", "running", "rows", "balance", "hit"}
Asked(q) ==
    /\ DOMAIN q = Fields
    /\ q.state = "running" => q.horizon \in Horizons /\ Started(q.running)
    /\ q.state = "drawing" => Line(q.rows)
Seen(s) == s = <<>> \/ \E r : s = <<r>> /\ OnTheLine(r)
ProjectionInv ==
    /\ LedgerOK
    /\ \A o \in planned : o.day \in Int
    /\ DOMAIN cache = Horizons /\ \A h \in Horizons : cache[h] = <<>> \/ Line(cache[h])
    /\ DOMAIN asking = Askers /\ \A a \in Askers : Asked(asking[a])
    /\ DOMAIN shown = Askers /\ \A a \in Askers : Seen(shown[a])

LEMMA ProjectionStarts ==
  ASSUME ProjectionInit
  PROVE  ProjectionInv
<1>1. IsFiniteSet(ledger) /\ \A m \in ledger : m.day = 1
  <2>1. ledger \subseteq {m \in Moves : m.day = 1}
    BY DEF ProjectionInit
  <2> QED BY <2>1, ProjectionAssumption, FS_Subset
<1>2. LedgerOK
  BY <1>1 DEF LedgerOK, ProjectionInit
<1>3. Asked(NotAsking)
  BY DEF Asked, NotAsking, Fields
<1> QED BY <1>2, <1>3 DEF ProjectionInv, ProjectionInit, Seen

LEMMA ProjectionStep ==
  ASSUME ProjectionInv, [ProjectionNext]_projectionVars
  PROVE  ProjectionInv'
<1> USE DEF ProjectionInv
<1>0. ASSUME NEW m \in Moves, DeleteMove(m)
      PROVE  ProjectionInv'
  <2>1. IsFiniteSet(ledger \ {m})
    BY FS_RemoveElement DEF LedgerOK
  <2>2. LedgerOK'
    BY <1>0, <2>1 DEF LedgerOK, DeleteMove
  <2> QED BY <1>0, <2>2 DEF DeleteMove
<1>1. ASSUME NEW m \in Moves, PostMove(m)
      PROVE  ProjectionInv'
  <2>1. m.day \in Int
    BY ProjectionAssumption
  <2>2. IsFiniteSet(ledger \cup {m})
    BY FS_AddElement DEF LedgerOK
  <2>3. LedgerOK'
    BY <1>1, <2>1, <2>2 DEF LedgerOK, PostMove
  <2> QED BY <1>1, <2>3 DEF PostMove
<1>2. ASSUME NEW o \in Plans, Plan(o)
      PROVE  ProjectionInv'
  <2>1. o.day \in Int
    BY ProjectionAssumption
  <2> QED BY <1>2, <2>1 DEF Plan, LedgerOK
<1>3. CASE NextDay
  BY <1>3 DEF NextDay, LedgerOK
<1>4. ASSUME NEW a \in Askers, NEW h \in Horizons, ReadHistory(a, h)
      PROVE  ProjectionInv'
  <2>0. UNCHANGED <<today, ledger, planned, cache>> /\ LedgerOK'
    BY <1>4 DEF ReadHistory, LedgerOK
  <2>1. CASE Cardinality({m.day : m \in History}) < MinDays
    <3>1. shown' = [shown EXCEPT ![a] = <<>>] /\ asking' = asking
      BY <1>4, <2>1 DEF ReadHistory
    <3>2. \A b \in Askers : Seen(shown'[b])
      BY <3>1 DEF Seen
    <3> QED BY <2>0, <3>1, <3>2
  <2>2. CASE ~ (Cardinality({m.day : m \in History}) < MinDays)
    <3> DEFINE q == [state |-> IF cache[h] = <<>> THEN "running" ELSE "drawing", horizon |-> h,
                     running |-> Running(History, Total(ledger)), rows |-> cache[h],
                     balance |-> Total(ledger), hit |-> cache[h] # <<>>]
    <3>1. asking' = [asking EXCEPT ![a] = q] /\ shown' = shown
      BY <1>4, <2>2 DEF ReadHistory
    <3>2. Started(Running(History, Total(ledger)))
      BY <2>2, HistoryStarts
    <3>3. /\ DOMAIN q = Fields /\ q.horizon = h /\ q.rows = cache[h]
          /\ q.running = Running(History, Total(ledger))
          /\ q.state = IF cache[h] = <<>> THEN "running" ELSE "drawing"
      BY DEF Fields
    <3> HIDE DEF q
    <3>4. Asked(q)
      BY <3>2, <3>3 DEF Asked
    <3>5. \A b \in Askers : Asked(asking'[b])
      BY <3>1, <3>4
    <3> QED BY <2>0, <3>1, <3>5
  <2> QED BY <2>1, <2>2
<1>5. ASSUME NEW a \in Askers, ForecasterAnswers(a)
      PROVE  ProjectionInv'
  <2> DEFINE rows == Run(asking[a].running, asking[a].horizon)
             h == asking[a].horizon
  <2>0. UNCHANGED <<today, ledger, planned, shown>> /\ LedgerOK'
    BY <1>5 DEF ForecasterAnswers, LedgerOK
  <2>1. Asked(asking[a]) /\ h \in Horizons /\ Started(asking[a].running)
    BY <1>5 DEF ForecasterAnswers, Asked
  <2>2. Line(rows)
    <3>1. h \in Nat
      BY <2>1, ProjectionAssumption
    <3> QED BY <2>1, <3>1, RunIsALine
  <2>3. /\ asking' = [asking EXCEPT ![a].state = "drawing", ![a].rows = rows]
        /\ cache' = [cache EXCEPT ![h] = rows]
    BY <1>5 DEF ForecasterAnswers
  <2> HIDE DEF rows, h
  <2>4. DOMAIN cache' = Horizons /\ \A k \in Horizons : cache'[k] = <<>> \/ Line(cache'[k])
    BY <2>1, <2>2, <2>3
  <2>5. /\ DOMAIN asking' = Askers /\ \A b \in Askers \ {a} : asking'[b] = asking[b]
        /\ DOMAIN asking'[a] = Fields /\ asking'[a].state = "drawing" /\ asking'[a].rows = rows
    BY <2>1, <2>3 DEF Asked, Fields
  <2>6. \A b \in Askers : Asked(asking'[b])
    BY <2>2, <2>5 DEF Asked
  <2> QED BY <2>0, <2>4, <2>5, <2>6
<1>6. ASSUME NEW a \in Askers, Draw(a)
      PROVE  ProjectionInv'
  <2> DEFINE dates == {p.day : p \in Range(asking[a].running)}
             points == ToPoints(asking[a].rows, dates)
             events == Occurrences(asking[a].horizon)
             base == IF Forecast(points) = {} THEN 0 ELSE points[Max(Forecast(points))].value
             r == [points |-> ApplyScenarios(points, events), base |-> base, events |-> events,
                   on |-> today, balance |-> asking[a].balance, hit |-> asking[a].hit]
  <2>0. UNCHANGED <<today, ledger, planned, cache>> /\ LedgerOK'
    BY <1>6 DEF Draw, LedgerOK
  <2>1. shown' = [shown EXCEPT ![a] = <<r>>] /\ asking' = [asking EXCEPT ![a] = NotAsking]
    BY <1>6 DEF Draw
  <2>2. Line(asking[a].rows)
    BY <1>6 DEF Draw, Asked
  <2>3. \A e \in events : e.day \in Int
    BY DEF Occurrences
  <2>4. /\ r.points = ApplyScenarios(points, events) /\ r.events = events
        /\ r.base = base
    OBVIOUS
  <2> HIDE DEF events, dates, r
  <2>5. OnTheLine(r)
    BY <2>2, <2>3, <2>4, DrawPutsPlansOnTheLine
  <2>6. Asked(NotAsking)
    BY DEF Asked, NotAsking, Fields
  <2>7. \A b \in Askers : Seen(shown'[b])
    BY <2>1, <2>5 DEF Seen
  <2>8. \A b \in Askers : Asked(asking'[b])
    BY <2>1, <2>6
  <2> QED BY <2>0, <2>1, <2>7, <2>8
<1>7. CASE UNCHANGED projectionVars
  BY <1>7 DEF projectionVars, LedgerOK
<1> QED BY <1>0, <1>1, <1>2, <1>3, <1>4, <1>5, <1>6, <1>7 DEF ProjectionNext

\* For any horizon, history and number of readers, the prediction is what the forecaster said
\* and each planned occurrence once that is later than the rows it was given and not on a day
\* with a row, whatever is posted, also ahead, deleted or planned between the reading and the
\* drawing, with rows of another day from the cache (forecast_account).
THEOREM LineHasThePlans == ProjectionSpec => []PlansAreOnTheLine
<1>1. ProjectionInit => ProjectionInv
  BY ProjectionStarts
<1>2. ProjectionInv /\ [ProjectionNext]_projectionVars => ProjectionInv'
  BY ProjectionStep
<1>3. ProjectionInv => PlansAreOnTheLine
  <2> SUFFICES ASSUME ProjectionInv, NEW r \in Drawn PROVE OnTheLine(r)
    BY DEF PlansAreOnTheLine, OnTheLine, Drawn
  <2>1. PICK a \in Askers : r \in Range(shown[a])
    BY DEF Drawn, Shown
  <2>2. Seen(shown[a])
    BY DEF ProjectionInv
  <2> QED BY <2>1, <2>2 DEF Seen, Range
<1> QED BY <1>1, <1>2, <1>3, PTL DEF ProjectionSpec
=============================================================================
