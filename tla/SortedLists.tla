----------------------------- MODULE SortedLists -----------------------------
(***************************************************************************)
(* The sorts of the exercises: the linked list with its merge sort, read    *)
(* from a file and written to one (Homework/h3/ex2, and Labs/l5/src, which  *)
(* differs only in the random comparison), and the double list of Labs/l5/  *)
(* ex3, which is sorted into another one by qsort.  A comparison gives the  *)
(* set of its possible answers: a random one has several.                   *)
(***************************************************************************)
EXTENDS Integers, Sequences, FiniteSets, SequencesExt

CONSTANTS Width,      \* the bits of an int
          Values,     \* the values in a file
          MaxEntries  \* bound: how many lines a file has

ASSUME ListAssumption == Width \in Nat \ {0} /\ Values \subseteq Int

SortTypes == {"rand", "inc", "dec"}
Half == 2^(Width - 1)
IntRange == -Half..(Half - 1)
Wrapped(n) == ((n + Half) % (2 * Half)) - Half

VARIABLES lAt,       \* where the program is
          lNames,    \* the words "int", "double", "char" in the file's name
          lSort,     \* the sort type on the command line
          lList,     \* the list that was read, entries [line, value]
          lRead,     \* how many lines were read
          lResult    \* the sorted list

lVars == <<lAt, lNames, lSort, lList, lRead, lResult>>
-----------------------------------------------------------------------------
\* The first of the three words that the name contains decides.
get_file_type(words) ==
  CASE "int" \in words -> "int"
    [] "int" \notin words /\ "double" \in words -> "double"
    [] words = {"char"} -> "char"
    [] OTHER -> "unknown"

\* The difference of two ints wraps around; doubles and strings are compared.
cmp(type, x, y) == IF type = "int" THEN Wrapped(x - y) ELSE x - y

\* A plausible bug: of equal entries the one of the back list comes first.
takesFrontStrictly(type, sort, a, b) ==
  CASE sort = "rand" -> BOOLEAN
    [] sort = "inc"  -> {cmp(type, a.value, b.value) < 0}
    [] OTHER         -> {cmp(type, b.value, a.value) < 0}

\* Whether merge may take a, the entry of the front list, before b.
takesFront(type, sort, a, b) ==
  CASE sort = "rand" -> BOOLEAN
    [] sort = "inc"  -> {cmp(type, a.value, b.value) <= 0}
    [] OTHER         -> {cmp(type, b.value, a.value) <= 0}

\* The lists that merge may make of a and b: of what follows their first entries.
Fronted(x, lists) == {<<x>> \o s : s \in lists}

merge(type, sort, a, b) ==
  LET m[ij \in (0..Len(a)) \X (0..Len(b))] ==
        LET i == ij[1]
            j == ij[2]
        IN  IF i = Len(a) THEN {SubSeq(b, j + 1, Len(b))}
            ELSE IF j = Len(b) THEN {SubSeq(a, i + 1, Len(a))}
            ELSE LET takes == takesFront(type, sort, a[i + 1], b[j + 1])
                 IN  (IF TRUE \in takes THEN Fronted(a[i + 1], m[<<i + 1, j>>]) ELSE {})
                       \cup
                     (IF FALSE \in takes THEN Fronted(b[j + 1], m[<<i, j + 1>>]) ELSE {})
  IN  m[<<0, 0>>]

\* The n entries from lo; split leaves the middle one of an odd list in front.
Parts(list) == {part \in (1..(Len(list) + 1)) \X (0..Len(list)) :
                  part[1] + part[2] <= Len(list) + 1}
merge_sort(type, sort, list) ==
  LET ms[part \in Parts(list)] ==
        LET lo == part[1]
            n == part[2]
            front == (n + 1) \div 2
        IN  IF n < 2 THEN {SubSeq(list, lo, lo + n - 1)}
            ELSE UNION {merge(type, sort, a, b) :
                          a \in ms[<<lo, front>>], b \in ms[<<lo + front, n - front>>]}
  IN  ms[<<1, Len(list)>>]

\* cmpWrapper compares ints as long long; qsort orders equal entries as it likes.
InOrder(sort, x, y) ==
  \/ sort = "rand" \/ x.value = y.value
  \/ sort = "inc" /\ x.value < y.value
  \/ sort = "dec" /\ x.value > y.value
Rearrangements(list) ==
  {[i \in DOMAIN list |-> list[p[i]]] :
     p \in {p \in [DOMAIN list -> DOMAIN list] : IsInjective(p)}}
qsorted(sort, list) ==
  {r \in Rearrangements(list) :
     \A i, j \in DOMAIN r : i < j => InOrder(sort, r[i], r[j])}
-----------------------------------------------------------------------------
\* run_cli and main: a name of no type ends the program, the lines are read into
\* the list, which then is sorted.
ListIdle == /\ lAt = "idle" /\ lNames = {} /\ lSort = "inc" /\ lList = << >>
            /\ lRead = 0 /\ lResult = << >>

run_cli ==
  /\ lAt = "start"
  /\ lAt' = IF get_file_type(lNames) = "unknown" THEN "usage" ELSE "read"
  /\ UNCHANGED <<lNames, lSort, lList, lRead, lResult>>

\* One turn of the loop of read_file: a line that is not key=value is skipped.
read_file ==
  /\ lAt = "read" /\ lRead < MaxEntries
  /\ lRead' = lRead + 1
  /\ \/ UNCHANGED lList
     \/ \E x \in Values : lList' = Append(lList, [line |-> lRead', value |-> x])
  /\ UNCHANGED <<lAt, lNames, lSort, lResult>>

sort_list ==
  /\ lAt = "read" /\ lAt' = "merged"
  /\ lResult' \in merge_sort(get_file_type(lNames), lSort, lList)
  /\ UNCHANGED <<lNames, lSort, lList, lRead>>

\* dlistSort of a list with these entries into another one; an empty list leaves
\* the other as it is.
dlistSort ==
  /\ lAt = "read" /\ lAt' = "qsorted"
  /\ lResult' \in IF lList = << >>
                  THEN {<< >>, <<[line |-> 0, value |-> 0]>>}
                  ELSE qsorted(lSort, lList)
  /\ UNCHANGED <<lNames, lSort, lList, lRead>>

ListInit == /\ lAt = "start" /\ lNames \in SUBSET {"int", "double", "char"}
            /\ lSort \in SortTypes
            /\ lList = << >> /\ lRead = 0 /\ lResult = << >>
ListNext == run_cli \/ read_file \/ sort_list \/ dlistSort
ListSpec == ListInit /\ [][ListNext]_lVars
-----------------------------------------------------------------------------
Stable(list) ==
  \A i, j \in DOMAIN list :
    i < j /\ list[i].value = list[j].value => list[i].line < list[j].line

\* Both sorts keep every entry, also when comparisons contradict each other; the
\* result is in order, and the merge sort stable, unless it sorts ints whose
\* difference does not fit an int (linked_list.c:43-44, 136-188).
SortKeepsAndOrders ==
  lAt \in {"merged", "qsorted"} /\ lList # << >> =>
    /\ ToSet(lResult) = ToSet(lList) /\ Len(lResult) = Len(lList)
    /\ LET fits == \A x, y \in ToSet(lList) : x.value - y.value \in IntRange
           exact == lAt = "qsorted" \/ get_file_type(lNames) # "int" \/ fits
       IN  exact =>
             /\ \A i, j \in DOMAIN lResult :
                  i < j => InOrder(lSort, lResult[i], lResult[j])
             /\ lAt = "merged" /\ lSort # "rand" => Stable(lResult)
=============================================================================
