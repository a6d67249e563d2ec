-------------------------------- MODULE Table --------------------------------
(***************************************************************************)
(* The tables of LemonDB (Projects/p2/src/db/Table.h and Table.cpp), as    *)
(* values and the operations on them.  A table is                          *)
(*   fields   the names of its columns, but KEY,                           *)
(*   data     its rows, each with a key and a sequence of values, which    *)
(*            INSERT may leave shorter or longer than fields,              *)
(*   keyMap   the index: from keys to positions in data.                   *)
(* The mutex of a table is left out: the scheduler keeps writers apart.    *)
(***************************************************************************)
EXTENDS Integers, Sequences, FiniteSets

CONSTANT Width   \* the width of a ValueType in bits (32 in the code)

ASSUME WidthAssumption == Width \in Nat \ {0}

\* Table::ValueType, an int.
Half == 2^(Width - 1)
ValueType == -Half .. Half - 1

\* A plausible bug: a value of another width is stored.
NoWrap(n) == n

\* What does not fit wraps around.
Wrap(n) == ((n + Half) % (2 * Half)) - Half

Row(key, vals) == [key |-> key, vals |-> vals]

\* keyMap.find(key) # keyMap.end(): what operator[] tests for a key.
Has(t, key) == key \in DOMAIN t.keyMap

\* fieldMap: of two columns of the same name, emplace keeps the first.
HasField(t, f) == \E i \in DOMAIN t.fields : t.fields[i] = f
getFieldIndex(t, f) ==
  CHOOSE i \in DOMAIN t.fields :
    t.fields[i] = f /\ \A j \in 1..(i - 1) : t.fields[j] # f

\* datum().at(index): a short row has no such cell and at() throws.
HasCell(row, i) == i \in DOMAIN row.vals

\* insertByIndex, once the key is known not to be in the index.
insertByIndex(t, key, vals) ==
  [t EXCEPT !.data = Append(t.data, Row(key, vals)),
            !.keyMap = [k \in DOMAIN t.keyMap \cup {key} |->
                          IF k = key THEN Len(t.data) + 1 ELSE t.keyMap[k]]]

setValue(t, i, f, v) == [t EXCEPT !.data[i].vals[f] = v]

\* setKey on row i: find(), whose result is dereferenced without a test,
\* erase() of the old key and emplace() of the new one, which does nothing when
\* the index has the new key already.
SetKeyCrashes(t, i) == ~Has(t, t.data[i].key)

\* A plausible bug: the old key stays in the index.
setKeyKeepingOld(t, i, key) ==
  [t EXCEPT !.data[i].key = key,
            !.keyMap = [k \in DOMAIN t.keyMap \cup {key} |->
                          IF Has(t, k) THEN t.keyMap[k]
                          ELSE t.keyMap[t.data[i].key]]]

setKey(t, i, key) ==
  LET old == t.data[i].key
      rest == DOMAIN t.keyMap \ {old}
  IN  [t EXCEPT !.data[i].key = key,
                !.keyMap = [k \in rest \cup {key} |->
                              IF k \in rest THEN t.keyMap[k] ELSE t.keyMap[old]]]

\* eraseMany: the rows whose key is not listed, in their order, and an index
\* built from them, in which the first row of a key wins.
\* A plausible bug: the loop stops one row short.
KeptButLast(t, keys) ==
  {i \in DOMAIN t.data : i < Len(t.data) /\ t.data[i].key \notin keys}

Kept(t, keys) == {i \in DOMAIN t.data : t.data[i].key \notin keys}
Rank(S, i) == Cardinality({j \in S : j <= i})
RowAt(S, n) == CHOOSE i \in S : Rank(S, i) = n

\* A plausible bug: the index is compacted in place and keeps old positions.
eraseManyKeepingPositions(t, keys) ==
  LET S == Kept(t, keys)
  IN  [t EXCEPT !.data = [n \in 1..Cardinality(S) |-> t.data[RowAt(S, n)]],
                !.keyMap = [k \in DOMAIN t.keyMap \ keys |-> t.keyMap[k]]]

eraseMany(t, keys) ==
  LET S == Kept(t, keys)
      data == [n \in 1..Cardinality(S) |-> t.data[RowAt(S, n)]]
  IN  [t EXCEPT !.data = data,
                !.keyMap = [k \in {data[n].key : n \in DOMAIN data} |->
                              CHOOSE n \in DOMAIN data :
                                /\ data[n].key = k
                                /\ \A m \in 1..(n - 1) : data[m].key # k]]

\* erase(key), which no query calls: the row the index names goes, and every
\* later position moves down by one.
erase(t, key) ==
  LET at == t.keyMap[key]
  IN  [t EXCEPT !.data = [n \in 1..(Len(t.data) - 1) |->
                            IF n < at THEN t.data[n] ELSE t.data[n + 1]],
                !.keyMap = [k \in DOMAIN t.keyMap \ {key} |->
                              IF t.keyMap[k] > at THEN t.keyMap[k] - 1
                              ELSE t.keyMap[k]]]

clear(t) == [t EXCEPT !.data = << >>, !.keyMap = [k \in {} |-> 0]]
-----------------------------------------------------------------------------
\* What an index should be.

\* Every entry is a position of data, and no two entries the same one.
IndexInRange(t) ==
  /\ \A k \in DOMAIN t.keyMap : t.keyMap[k] \in DOMAIN t.data
  /\ \A k, l \in DOMAIN t.keyMap : t.keyMap[k] = t.keyMap[l] => k = l

\* Every row is found under its key, and nothing else is in the index.
IndexExact(t) ==
  /\ \A k \in DOMAIN t.keyMap : /\ t.keyMap[k] \in DOMAIN t.data
                                /\ t.data[t.keyMap[k]].key = k
  /\ \A i \in DOMAIN t.data : /\ t.data[i].key \in DOMAIN t.keyMap
                              /\ t.keyMap[t.data[i].key] = i

Rectangular(t) == \A i \in DOMAIN t.data : Len(t.data[i].vals) = Len(t.fields)
=============================================================================
