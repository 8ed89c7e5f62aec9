---------------------------------- MODULE Tables ----------------------------------
(***************************************************************************)
(* A database table, or a dictionary, is a function from keys to rows.     *)
(***************************************************************************)
EXTENDS FiniteSetsExt

With(t, k, row) == [x \in DOMAIN t \cup {k} |-> IF x = k THEN row ELSE t[x]]
WithAll(t, u) == [x \in DOMAIN t \cup DOMAIN u |-> IF x \in DOMAIN t THEN t[x] ELSE u[x]]
Without(t, K) == [x \in DOMAIN t \ K |-> t[x]]
\* The sum of a column of numbers.
SumOf(f) == MapThenSumSet(LAMBDA x : f[x], DOMAIN f)

\* The elements of S in an order of it, each once; the order is its pairs.
Arranged(S, order) ==
    CHOOSE s \in [1 .. Cardinality(S) -> S] :
        /\ \A x \in S : \E i \in DOMAIN s : s[i] = x
        /\ \A i, j \in DOMAIN s : i < j => <<s[i], s[j]>> \in order
=============================================================================
