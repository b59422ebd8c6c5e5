------------------------------- MODULE RowLists -------------------------------
(***************************************************************************)
(* The two ways the repositories list rows: the query's ORDER BY ... LIMIT, *)
(* which leaves rows of one key in any order, and the doubles' sort and     *)
(* slice, which leaves them as they were inserted.                          *)
(***************************************************************************)
EXTENDS Integers, Sequences, FiniteSets

AtMost(n, m) == IF n < m THEN n ELSE m

Rows(list) == {list[i] : i \in DOMAIN list}

\* The lists ORDER BY key LIMIT n may return; `key' is a function of the rows.
OrderBy(rows, key, n) ==
    {list \in [1..AtMost(n, Cardinality(rows)) -> rows] :
        /\ \A i, j \in DOMAIN list : i < j => list[i] # list[j] /\ key[list[i]] <= key[list[j]]
        /\ \A i \in DOMAIN list, r \in rows \ Rows(list) : key[list[i]] <= key[r]}

\* items.filter(wanted).sort((a, b) => key(a) - key(b)).slice(0, n): a stable sort.
SortBy(items, wanted, key, n) ==
    LET kept == SelectSeq(items, LAMBDA r : r \in wanted)
        before(i, j) == key[kept[i]] < key[kept[j]] \/ (key[kept[i]] = key[kept[j]] /\ i <= j)
        place(j) == Cardinality({i \in DOMAIN kept : before(i, j)})
    IN  [k \in 1..AtMost(n, Len(kept)) |-> kept[CHOOSE j \in DOMAIN kept : place(j) = k]]
================================================================================
