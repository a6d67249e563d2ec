------------------------------ MODULE MCDatabase ------------------------------
(***************************************************************************)
(* The instance of Database that TLC checks: one session on the rows of a  *)
(* table, one on tables and files, one on a table with a wide column name. *)
(***************************************************************************)
EXTENDS Database

Q(kind, table) ==
  [kind |-> kind, table |-> table, to |-> table, keys |-> << >>, vals |-> << >>,
   fields |-> << >>, where |-> << >>, file |-> "f"]
On(kind, fields, where) == [Q(kind, "t") EXCEPT !.fields = fields, !.where = where]
Insert(key, vals) == [Q("INSERT", "t") EXCEPT !.keys = <<key>>, !.vals = vals]
Update(f, v, where) == [On("UPDATE", <<f>>, where) EXCEPT !.vals = <<v>>]
Rekey(key, where) == [On("UPDATE", <<KEY>>, where) EXCEPT !.keys = <<key>>]

A == <<"a", 0>>
B == <<"b", 0>>
KeyIs(key) == [field |-> KEY, op |-> "=", key |-> key, value |-> 0]
Where(f, op, v) == [field |-> f, op |-> op, key |-> A, value |-> v]

TableWith(fields, data) ==
  [fields |-> fields, data |-> data,
   keyMap |-> [k \in {data[i].key : i \in DOMAIN data} |->
                 CHOOSE i \in DOMAIN data : data[i].key = k]]

TableOf(data) == TableWith(<<"x", "y">>, data)

RowsSession ==
  [tables |-> [n \in TableNames |->
                 IF n = "t" THEN TableOf(<<Row(A, <<1, 3>>), Row(B, <<3, -1>>)>>)
                 ELSE Missing],
   files |-> [f \in Files |-> Absent],
   ahead |-> 1,
   input |->
     {Insert(Copy(A), <<2, 9>>), Insert(B, <<2>>), Insert(Copy(B), <<2>>),
      Q("INSERT", "t"), Q("TRUNCATE", "t"), Q("SELECT", "u"),
      Update("x", 2, <<Where("x", ">=", 2)>>),
      Update("z", 2, << >>), On("UPDATE", << >>, << >>),
      Rekey(A, <<Where("y", "<", 2)>>), Rekey(B, <<KeyIs(A)>>),
      On("SELECT", <<KEY, "x">>,
         <<Where("x", "<", 3), KeyIs(A), KeyIs(B), Where("y", "=", 0)>>),
      On("SELECT", <<"x">>, <<[KeyIs(A) EXCEPT !.op = "<"]>>),
      On("MAX", <<"y", "x">>, <<Where("x", "<=", 2)>>),
      On("SUM", <<"x", "y">>, << >>), On("SUM", <<KEY>>, << >>),
      On("SUM", <<"x">>, <<KeyIs(B), KeyIs(A)>>),
      On("SWAP", <<"x", "y">>, <<Where("x", ">", 2)>>),
      On("SUB", <<"x", "y", "y">>, << >>), On("SUB", <<"x">>, << >>),
      On("DELETE", << >>, <<Where("x", "=", 2)>>),
      On("DELETE", << >>, <<KeyIs(A)>>),
      On("DUPLICATE", << >>, << >>),
      On("DUPLICATE", << >>, <<Where("y", ">", 0), Where("x", "<", 2)>>)}]

FilesSession ==
  [tables |-> [n \in TableNames |->
                 IF n = "t" THEN TableOf(<<Row(A, <<1, 2>>)>>) ELSE Missing],
   files |-> [f \in Files |->
                IF f = "g"
                THEN [kind |-> "table", name |-> "u", fields |-> <<"x", "y">>,
                      data |-> <<Row(A, <<0, 0>>), Row(B, <<0, 0>>), Row(A, <<0, 0>>)>>,
                      of |-> Missing]
                ELSE Absent],
   ahead |-> 2,
   input |->
     {Q("DUMP", "t"), Q("DUMP", "u"), [Q("DUMP", "t") EXCEPT !.file = "g"],
      Q("LOAD", NoName), [Q("LOAD", NoName) EXCEPT !.file = "g"],
      Q("DROP", "t"), Q("DROP", "u"), [Q("COPYTABLE", "t") EXCEPT !.to = "u"],
      Q("LIST", NoName), Q("SHOWTABLE", "u"), Q("NOP", NoName),
      Insert(B, <<1, 3>>), Insert(B, <<1, -4>>), Insert(B, <<1>>),
      Insert(Copy(A), <<0, 0, 2>>), Rekey(A, << >>)}]

\* A table with a wide name, as a file that was typed by hand may have given it.
NamesSession ==
  [FilesSession EXCEPT
     !.tables = [n \in TableNames |->
                   IF n = "t" THEN TableWith(<<"x", "longcolumn">>, <<Row(A, <<1, 2>>)>>)
                   ELSE Missing],
     !.input = {Q("DUMP", "t"), Q("LOAD", NoName), Q("DROP", "t"), Q("TRUNCATE", "t"),
                [Q("COPYTABLE", "t") EXCEPT !.to = "u"], Q("DUMP", "u"), Q("DROP", "u")}]

MCSessions == {RowsSession, FilesSession, NamesSession}
=============================================================================
