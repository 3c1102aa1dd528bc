-------------------------------- MODULE Plans --------------------------------
(***************************************************************************)
(* Plans of SELECT statements as the planner builds them (planner.cpp),    *)
(* and what the row streams of database.cpp answer to them, on small       *)
(* tables: the meaning the optimizer has to keep. Slots count from 1.      *)
(*                                                                         *)
(* How a HashJoin finds its matches and how a Sort spills are the subjects *)
(* of JoinStream and SortStream: here a join answers as the nested loop    *)
(* and a sort as a stable one. RECURSIVE operators: for TLC only.          *)
(***************************************************************************)
EXTENDS Integers, Sequences, SequencesExt

CONSTANTS
  Tables,  \* name -> [columns, rows]; a column is [nullable, indexed]
  MaxInt,  \* bound of the integers; arithmetic beyond it is an error
  True, False,
  Null,    \* SQL NULL; also "none" in a plan
  Error    \* an evaluation that throws

-----------------------------------------------------------------------------
(* Expressions.                                                            *)

Lit(v) == [kind |-> "Literal", value |-> v]
\* a bound column: its slot in the row, and the relation it belongs to
Col(slot, relation) ==
  [kind |-> "Identifier", columnId |-> slot, relation |-> relation]
Un(op, e) == [kind |-> "Unary", op |-> op, left |-> e]
Bin(op, a, b) == [kind |-> "Binary", op |-> op, left |-> a, right |-> b]

Arithmetics == {"+", "-", "/"}
Comparisons == {"=", "!=", "<", "<=", ">", ">="}
Magnitude(n) == IF n < 0 THEN -n ELSE n
Checked(n) == IF Magnitude(n) > MaxInt THEN Error ELSE n
\* arithmetic(): overflow and division by zero throw
Arithmetic(op, a, b) ==
  CASE op = "+" -> Checked(a + b)
    [] op = "-" -> Checked(a - b)
    [] op = "/" -> IF b = 0 THEN Error
                   ELSE LET q == Magnitude(a) \div Magnitude(b)
                        IN IF (a < 0) = (b < 0) THEN q ELSE -q
Truth(condition) == IF condition THEN True ELSE False
Compare(op, a, b) ==
  Truth(CASE op = "=" -> a = b [] op = "!=" -> a # b
          [] op = "<" -> a < b [] op = "<=" -> a <= b
          [] op = ">" -> a > b [] op = ">=" -> a >= b)
Not(v) == CASE v = Null -> Null [] v = True -> False [] v = False -> True
Absorbing(op) == Truth(op = "OR")

RECURSIVE Evaluate(_, _)
\* left before right, AND and OR short-circuit on the left, NULL is contagious
Evaluate(e, row) ==
  IF e.kind = "Literal" THEN e.value
  ELSE IF e.kind = "Identifier" THEN row[e.columnId]
  ELSE
  LET left == Evaluate(e.left, row)
      right == Evaluate(e.right, row)
      absorbing == Absorbing(e.op)
  IN CASE left = Error -> Error
       [] e.op = "IS NULL" -> Truth(left = Null)
       [] e.op = "IS NOT NULL" -> Truth(left # Null)
       [] e.op = "NOT" -> Not(left)
       [] e.kind = "Unary" -> IF left = Null THEN Null ELSE Arithmetic(e.op, 0, left)
       [] e.op \in {"AND", "OR"} ->
            IF left = absorbing \/ right = Error
            THEN IF left = absorbing THEN absorbing ELSE Error
            ELSE IF right = absorbing THEN absorbing
            ELSE IF Null \in {left, right} THEN Null ELSE right
       [] right = Error -> Error
       [] Null \in {left, right} -> Null
       [] e.op \in Arithmetics -> Arithmetic(e.op, left, right)
       [] OTHER -> Compare(e.op, left, right)

-----------------------------------------------------------------------------
(* Plans, and what they answer.                                            *)

Node(kind, children) ==
  [kind |-> kind, children |-> children, output |-> <<>>, table |-> Null,
   order |-> Null, predicate |-> Null, projections |-> <<>>, keys |-> <<>>,
   limit |-> Null, offset |-> 0, decision |-> Null]
SeqScan(table, relation) ==
  LET columns == Tables[table].columns
  IN [Node("SeqScan", <<>>) EXCEPT !.table = table,
        !.output = [i \in DOMAIN columns |->
                      [columnId |-> i, relation |-> relation,
                       nullable |-> columns[i].nullable, indexed |-> columns[i].indexed]]]
Filter(predicate, child) ==
  [Node("Filter", <<child>>) EXCEPT !.predicate = predicate, !.output = child.output]
Join(on, a, b) ==
  [Node("NestedLoopJoin", <<a, b>>) EXCEPT !.predicate = on,
     !.output = a.output \o b.output]
Described(e) ==
  [columnId |-> IF e.kind = "Identifier" THEN e.columnId ELSE 0,
   relation |-> Null, nullable |-> TRUE, indexed |-> FALSE]
Project(list, child) ==
  [Node("Project", <<child>>) EXCEPT !.projections = list,
     !.output = [i \in DOMAIN list |-> Described(list[i])]]
\* SELECT of plain columns without ORDER BY: no projections, only the output
ProjectColumns(slots, child) ==
  [Node("Project", <<child>>) EXCEPT
     !.output = [i \in DOMAIN slots |-> child.output[slots[i]]]]
Distinct(child) == [Node("Distinct", <<child>>) EXCEPT !.output = child.output]
\* keys that are not selected are hidden columns after the width visible ones
Sort(keys, width, child) ==
  [Node("Sort", <<child>>) EXCEPT !.keys = keys, !.output = SubSeq(child.output, 1, width)]
Key(index, descending) ==
  [index |-> index, descending |-> descending, nullsFirst |-> descending]
Limit(limit, offset, child) ==
  [Node("Limit", <<child>>) EXCEPT !.limit = limit, !.offset = offset,
     !.output = child.output]

Joins == {"NestedLoopJoin", "HashJoin"}
Smaller(a, b) == IF a < b THEN a ELSE b

\* compareRows of a Sort; a NULL is before or after all values
Precedes(a, b, keys) ==
  LET differ == {i \in DOMAIN keys : a[keys[i].index] # b[keys[i].index]}
  IN differ # {} /\
     LET key == keys[CHOOSE i \in differ : \A j \in differ : i <= j]
         x == a[key.index]
         y == b[key.index]
     IN IF x = Null THEN key.nullsFirst ELSE IF y = Null THEN ~key.nullsFirst
        ELSE IF key.descending THEN x > y ELSE x < y
\* rows that compare equal stay in their order
Sorted(rows, keys) ==
  LET order == SetToSortSeq(DOMAIN rows, LAMBDA i, j :
                 \/ Precedes(rows[i], rows[j], keys)
                 \/ ~Precedes(rows[j], rows[i], keys) /\ i < j)
  IN [i \in DOMAIN rows |-> rows[order[i]]]

\* SeqScan, or the references of an index in key order
ScanRows(scan) ==
  LET rows == Tables[scan.table].rows
  IN IF scan.order = Null THEN rows
     ELSE LET up == Sorted(rows, <<Key(scan.order.column, FALSE)>>)
          IN IF scan.order.descending THEN Reverse(up) ELSE up

\* nested loop: left rows in order, for each the right rows in order
Pairs(left, right) ==
  FlattenSeq([i \in DOMAIN left |-> [j \in DOMAIN right |-> left[i] \o right[j]]])

Projected(node, row) ==
  IF node.projections # <<>>
  THEN [i \in DOMAIN node.projections |-> Evaluate(node.projections[i], row)]
  ELSE [i \in DOMAIN node.output |-> row[node.output[i].columnId]]

\* keeps the first of equal neighbours: the rows come sorted by all columns, as
\* their JSON compares, where null is before the numbers
DistinctRows(rows) ==
  LET width == IF rows = <<>> THEN 0 ELSE Len(rows[1])
      keys == [i \in 1 .. width |-> [index |-> i, descending |-> FALSE, nullsFirst |-> TRUE]]
  IN FoldLeft(LAMBDA kept, row : IF kept # <<>> /\ Last(kept) = row THEN kept
                                 ELSE Append(kept, row), <<>>, Sorted(rows, keys))

\* what a Sort lets through: the columns that were asked for, of the rows on top
Visible(sort, rows) ==
  LET top == IF sort.limit = Null THEN Len(rows) ELSE Smaller(sort.limit, Len(rows))
  IN [i \in 1 .. top |-> SubSeq(rows[i], 1, Len(sort.output))]
\* the rows a Limit lets through
Window(node, rows) ==
  SubSeq(rows, node.offset + 1,
         IF node.limit = Null THEN Len(rows) ELSE Smaller(node.offset + node.limit, Len(rows)))

RECURSIVE Answer(_)
\* openRowStream: the rows of a plan in order, or Error
Answer(node) ==
  LET inputs == [i \in DOMAIN node.children |-> Answer(node.children[i])]
      candidates == IF node.kind \in Joins THEN Pairs(inputs[1], inputs[2]) ELSE inputs[1]
      Keeps(row) == Evaluate(node.predicate, row)
      made == [i \in DOMAIN inputs[1] |-> Projected(node, inputs[1][i])]
  IN CASE node.kind = "SeqScan" -> ScanRows(node)
       [] \E i \in DOMAIN inputs : inputs[i] = Error -> Error
       [] node.kind \in Joins \cup {"Filter"} ->
            IF \E i \in DOMAIN candidates : Keeps(candidates[i]) = Error THEN Error
            ELSE SelectSeq(candidates, LAMBDA row : Keeps(row) = True)
       [] node.kind = "Project" ->
            IF \E i \in DOMAIN made : Error \in ToSet(made[i]) THEN Error ELSE made
       [] node.kind = "Distinct" -> DistinctRows(inputs[1])
       [] node.kind = "Sort" -> Visible(node, Sorted(inputs[1], node.keys))
       [] node.kind = "Limit" -> Window(node, inputs[1])
=============================================================================
