------------------------------- MODULE Ranking -------------------------------
(***************************************************************************)
(* Lists that are filtered, sorted and cut.  An order on a finite set is   *)
(* given as its pairs <<earlier, later>>; a list comprehension keeps the   *)
(* positions that pass a test, and list.sort(key=..., reverse=True) puts   *)
(* the highest key first and equal keys in their old order.                *)
(***************************************************************************)
EXTENDS Integers, FiniteSets, Sequences, SequencesExt

IsList(s) == s \in Seq(Range(s))

Before(S, order, x) == {y \in S : <<y, x>> \in order}

\* The elements of S one after the other: the n-th has n - 1 before it.
InOrder(S, order) ==
  [n \in 1..Cardinality(S) |->
     CHOOSE x \in S : Cardinality(Before(S, order, x)) = n - 1]

Ascending(I) == {p \in I \X I : p[1] < p[2]}

\* [s[i] for the positions i in I]
Picked(s, I) ==
  LET at == InOrder(I, Ascending(I)) IN [n \in DOMAIN at |-> s[at[n]]]

\* keys[i] is the key of s[i].
ByKey(I, keys) ==
  {p \in I \X I :
     \/ keys[p[1]] > keys[p[2]]
     \/ keys[p[1]] = keys[p[2]] /\ p[1] < p[2]}

Descending(s, keys) ==
  LET at == InOrder(DOMAIN s, ByKey(DOMAIN s, keys)) IN [n \in DOMAIN at |-> s[at[n]]]

\* s[:n], where a negative n counts from the end.
FirstOf(s, n) == SubSeq(s, 1, IF n >= 0 THEN Min({n, Len(s)}) ELSE Max({0, Len(s) + n}))

=============================================================================
