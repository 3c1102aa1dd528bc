------------------------------- MODULE MCPlans -------------------------------
(***************************************************************************)
(* Small tables, and the plans over them that the optimizer is given: the  *)
(* filters, joins and orders of one SELECT. The indexed columns of t and u *)
(* hold a value twice.                                                     *)
(***************************************************************************)
EXTENDS Plans

Column(nullable, indexed) == [nullable |-> nullable, indexed |-> indexed]
SmallTables ==
  [t |-> [columns |-> <<Column(FALSE, TRUE), Column(TRUE, FALSE), Column(TRUE, FALSE)>>,
          rows |-> << <<3, 1, Null>>, <<1, Null, 2>>, <<2, 1, 1>>, <<1, 2, 1>> >>],
   u |-> [columns |-> <<Column(TRUE, FALSE), Column(FALSE, TRUE)>>,
          rows |-> << <<1, 2>>, <<Null, 1>>, <<1, 3>>, <<2, 3>> >>],
   w |-> [columns |-> <<Column(TRUE, FALSE), Column(TRUE, FALSE), Column(FALSE, TRUE)>>,
          rows |-> << <<0, 2, 1>>, <<0, 1, 2>> >>]]
MCMaxInt == 5

LOCAL T == SeqScan("t", 1)
LOCAL U == SeqScan("u", 2)
LOCAL a == Col(1, 1)
LOCAL b == Col(2, 1)
LOCAL c == Col(3, 1)
\* the columns of u behind those of t
LOCAL d == Col(4, 2)
LOCAL e == Col(5, 2)

\* what throws, folds, is NULL, true or false, alone and combined
Atoms ==
  {Lit(True), Lit(False), Lit(Null), Un("IS NULL", b),
   Bin("=", b, Lit(1)), Bin("<", a, Lit(3)),
   Bin("=", Bin("/", Lit(1), Bin("-", a, Lit(2))), Lit(1)),
   Bin(">", Bin("+", Lit(3), Lit(3)), Lit(0)),
   Bin("=", Lit(2), Bin("+", Lit(1), Lit(1)))}
Combined(S) == {Bin(op, p, q) : op \in {"AND", "OR"}, p \in S, q \in S}
Filtered ==
  {Project(<<b, a>>, Filter(p, T)) :
     p \in Atoms \cup {Un("NOT", q) : q \in Atoms} \cup Combined(Atoms)}
  \cup {ProjectColumns(<<2, 3>>, Filter(p, T)) : p \in Atoms}

JoinAtoms ==
  {Lit(True), Bin("=", b, d), Bin("=", d, Lit(1)), Bin("<", a, e), Bin("<", a, Lit(3)),
   Un("IS NULL", d), Bin("=", e, Bin("/", Lit(4), Lit(2)))}
Joined ==
  {Project(<<e, a>>, Filter(p, Join(on, T, U))) :
     p \in JoinAtoms \cup Combined(JoinAtoms),
     on \in {Bin("=", b, d), Bin("=", e, a), Lit(True)}}

\* no key is hidden but b, which no index holds
Ordered ==
  {Sort(<<Key(1, down)>>, Len(list), Project(list, T)) :
     list \in {<<a>>, <<b>>, <<a, b>>, <<b, c>>, <<c, a>>, <<a, Bin("+", a, Lit(1))>>},
     down \in BOOLEAN}
  \cup {Sort(<<Key(2, down)>>, width, Project(list, T)) :
          list \in {<<a, b>>, <<c, b>>}, width \in 1 .. 2, down \in BOOLEAN}
Limited == {Limit(limit, offset, s) : limit \in {Null, 0, 1, 2}, offset \in 0 .. 2, s \in Ordered}
Distincts ==
  {Limit(limit, offset, Sort(<<Key(1, TRUE)>>, 1, Distinct(Project(<<b>>, Filter(p, T))))) :
     limit \in {1, 2}, offset \in 0 .. 1, p \in Atoms}
  \cup {Distinct(Project(list, Filter(p, T))) : list \in {<<b>>, <<c, a>>}, p \in Atoms}
SoundQueries == Filtered \cup Joined \cup Ordered \cup Limited \cup Distincts

\* SELECT b, c FROM w ORDER BY b: b may be NULL, c has the index
SwappedQueries ==
  {Sort(<<Key(1, FALSE)>>, 2, Project(<<Col(2, 3), Col(3, 3)>>, SeqScan("w", 3)))}

\* SELECT a, b FROM t ORDER BY a DESC LIMIT 3: the rows with 3 and 2,
\* and one of the two with 1
TiedQueries == {Limit(3, 0, Sort(<<Key(1, TRUE)>>, 2, Project(<<a, b>>, T)))}

\* SELECT b FROM t ORDER BY a: the key is a column that is not selected
HiddenQueries == {Sort(<<Key(2, FALSE)>>, 1, Project(<<b, a>>, T))}

\* SELECT b FROM t ORDER BY b LIMIT 7 OFFSET 2, where counts wrap at 8
WrappedQueries == {Limit(7, 2, Sort(<<Key(1, FALSE)>>, 1, Project(<<b>>, T)))}
=============================================================================
