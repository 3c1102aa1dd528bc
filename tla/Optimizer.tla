----------------------------- MODULE Optimizer ------------------------------
(***************************************************************************)
(* The rule-based optimizer (optimizer.cpp): plans of SELECT statements    *)
(* are rewritten from the leaves up, again and again, until nothing        *)
(* changes. Expressions are folded only as far as the evaluator would go;  *)
(* filters move below inner joins; a LIMIT bounds the Sort under it; a     *)
(* Sort whose key is indexed becomes an ordered scan; the columns no node  *)
(* needs leave the description of a scan. RECURSIVE: for TLC only.         *)
(***************************************************************************)
EXTENDS Plans

CONSTANTS
  Queries,       \* the plans the planner may hand over
  MaxIterations, \* Options::maxIterations
  CountWidth     \* counts of rows are unsigned and wrap here

VARIABLES
  query,      \* the plan as the planner built it
  plan,       \* the plan so far
  seen,       \* the plans of all passes
  iteration,  \* passes made
  outcome     \* "running", "converged", "cycle" or "limit"

vars == <<query, plan, seen, iteration, outcome>>

-----------------------------------------------------------------------------
(* The rules on expressions.                                               *)

Literal(e) == e.kind = "Literal"
Boolean(e) == Literal(e) /\ e.value \in {True, False}
Number(e) == Literal(e) /\ e.value \notin {True, False, Null}
ThreeValued(e) == Literal(e) /\ e.value \in {True, False, Null}

\* constant-arithmetic: what throws is left for the evaluator to throw
FoldArithmetic(e) ==
  LET a == IF e.kind = "Unary" THEN 0 ELSE e.left.value
      b == IF e.kind = "Unary" THEN e.left.value ELSE e.right.value
      value == Arithmetic(e.op, a, b)
  IN IF value = Error THEN e ELSE Lit(value)
Foldable(e) ==
  e.op \in Arithmetics /\ Number(e.left) /\ (e.kind = "Binary" => Number(e.right))

\* boolean-simplification of AND and OR: a literal on the right is dropped
\* when it is neutral, never when it absorbs, as the left side may throw
SimplifyLogic(e) ==
  LET absorbing == Absorbing(e.op)
      values == {e.left.value, e.right.value}
  IN IF ThreeValued(e.left) /\ ThreeValued(e.right)
     THEN Lit(IF absorbing \in values THEN absorbing
              ELSE IF Null \in values THEN Null ELSE Not(absorbing))
     ELSE IF Boolean(e.left)
     THEN IF e.left.value = absorbing THEN Lit(absorbing) ELSE e.right
     ELSE IF Boolean(e.right) /\ e.right.value # absorbing THEN e.left
     ELSE e

CompareConstants(e) ==
  IF Null \in {e.left.value, e.right.value} THEN Lit(Null)
  ELSE Lit(Compare(e.op, e.left.value, e.right.value))

RECURSIVE Rewrite(_)
\* rewrite(): the operands first, then the first rule that applies
Rewrite(e) ==
  IF e.kind \in {"Literal", "Identifier"} THEN e
  ELSE
  LET r == IF e.kind = "Unary" THEN [e EXCEPT !.left = Rewrite(e.left)]
           ELSE [e EXCEPT !.left = Rewrite(e.left), !.right = Rewrite(e.right)]
  IN CASE Foldable(r) -> FoldArithmetic(r)
       [] r.op \in {"IS NULL", "IS NOT NULL"} /\ Literal(r.left) ->
            Lit(Truth((r.left.value = Null) = (r.op = "IS NULL")))
       [] r.op = "NOT" /\ ThreeValued(r.left) ->
            Lit(Not(r.left.value))
       [] r.op \in {"AND", "OR"} -> SimplifyLogic(r)
       [] r.op \in Comparisons /\ Literal(r.left) /\ Literal(r.right) ->
            CompareConstants(r)
       [] OTHER -> r

RECURSIVE Columns(_)
\* collectColumns, collectBindings, collectRelations
Columns(e) ==
  CASE e.kind = "Literal" -> {}
    [] e.kind = "Identifier" -> {e}
    [] e.kind = "Unary" -> Columns(e.left)
    [] OTHER -> Columns(e.left) \cup Columns(e.right)

RECURSIVE Conjuncts(_)
Conjuncts(e) ==
  IF e.kind = "Binary" /\ e.op = "AND"
  THEN Conjuncts(e.left) \o Conjuncts(e.right) ELSE <<e>>
\* combineConjuncts
Conjunction(terms) ==
  FoldLeft(LAMBDA all, t : Bin("AND", all, t), Head(terms), Tail(terms))

RECURSIVE SafeToPush(_)
\* safePushdownExpression: nothing that can throw
SafeToPush(e) ==
  \/ e.kind \in {"Literal", "Identifier"}
  \/ e.kind = "Unary" /\ e.op \in {"NOT", "IS NULL", "IS NOT NULL"} /\ SafeToPush(e.left)
  \/ /\ e.kind = "Binary" /\ e.op \in {"AND", "OR"} \cup Comparisons
     /\ SafeToPush(e.left) /\ SafeToPush(e.right)

RECURSIVE Shifted(_, _)
\* shiftColumns
Shifted(e, offset) ==
  CASE e.kind = "Literal" -> e
    [] e.kind = "Identifier" -> [e EXCEPT !.columnId = @ - offset]
    [] e.kind = "Unary" -> [e EXCEPT !.left = Shifted(@, offset)]
    [] OTHER -> [e EXCEPT !.left = Shifted(@, offset), !.right = Shifted(@, offset)]

-----------------------------------------------------------------------------
(* The rules on plans.                                                     *)

\* hashJoinKeys: an equality of one column of each side
Hashable(node) ==
  LET p == node.predicate
      width == Len(node.children[1].output)
  IN /\ p.kind = "Binary" /\ p.op = "="
     /\ p.left.kind = "Identifier" /\ p.right.kind = "Identifier"
     /\ (p.left.columnId <= width) # (p.right.columnId <= width)

RECURSIVE EstimateRows(_)
\* estimateRows in hundredths of a row, on the inputs of a join
EstimateRows(node) ==
  CASE node.kind = "SeqScan" -> 100 * Len(Tables[node.table].rows)
    [] node.kind = "Filter" -> (33 * EstimateRows(node.children[1])) \div 100
    [] OTHER -> EstimateRows(node.children[1])
\* chooseJoinAlgorithm, with memory enough that no pass spills
ChooseJoin(node) ==
  LET l == EstimateRows(node.children[1])
      r == EstimateRows(node.children[2])
  IN [node EXCEPT !.decision = <<l, r>>,
        !.kind = IF Hashable(node) /\ 100 * (l + r) <= l * r
                 THEN "HashJoin" ELSE "NestedLoopJoin"]

Relations(node) == {node.output[i].relation : i \in DOMAIN node.output}
\* pushPredicateIntoJoin: the terms of one side become a filter of that side
PushPredicate(node) ==
  LET join == node.children[1]
      left == join.children[1]
      right == join.children[2]
      Within(e, side) ==
        Columns(e) # {} /\ {c.relation : c \in Columns(e)} \subseteq Relations(side)
      terms == Conjuncts(node.predicate)
      leftTerms == SelectSeq(terms, LAMBDA e : Within(e, left))
      rightTerms == SelectSeq(terms, LAMBDA e : ~Within(e, left) /\ Within(e, right))
      others == SelectSeq(terms, LAMBDA e : ~Within(e, left) /\ ~Within(e, right))
      shifted == [i \in DOMAIN rightTerms |-> Shifted(rightTerms[i], Len(left.output))]
      pushed ==
        [join EXCEPT !.children =
           << IF leftTerms = <<>> THEN left ELSE Filter(Conjunction(leftTerms), left),
              IF rightTerms = <<>> THEN right ELSE Filter(Conjunction(shifted), right) >>]
  IN IF ~SafeToPush(node.predicate) \/ Len(others) = Len(terms) THEN node
     ELSE IF others = <<>> THEN pushed
     ELSE [node EXCEPT !.predicate = Conjunction(others), !.children = <<pushed>>]

\* mutant: the rows OFFSET skips are not counted
MutPushTopN(node) ==
  LET child == node.children[1]
  IN IF node.limit # Null /\ child.kind = "Sort" /\ child.limit = Null
     THEN [node EXCEPT !.children[1].limit = node.limit] ELSE node
\* pushTopNIntoSort
PushTopN(node) ==
  LET child == node.children[1]
      needed == (node.limit + node.offset) % CountWidth
  IN IF /\ node.limit # Null /\ child.kind = "Sort" /\ needed # 0
        /\ child.limit = Null \/ child.limit > needed
     THEN [node EXCEPT !.children[1].limit = needed] ELSE node

\* useIndexOrderForSort: the Sort gives way to its Project over a scan in the
\* order of an index; the key's column is looked up by its slot in the output
\* of the scan
UseIndexOrder(node) ==
  LET child == node.children[1]
      scan == child.children[1]
      key == node.keys[1]
      expression == child.projections[key.index]
      source == scan.output[expression.columnId]
  IN IF /\ Len(node.keys) = 1 /\ child.kind = "Project" /\ scan.kind = "SeqScan"
        /\ scan.order = Null /\ key.index <= Len(child.projections)
        /\ expression.kind = "Identifier" /\ expression.columnId <= Len(scan.output)
        /\ ~source.nullable /\ source.indexed
     THEN [child EXCEPT !.children[1].order =
             [column |-> source.columnId, descending |-> key.descending]]
     ELSE node

\* the part of rewritePlan that looks at filters, once pushing did nothing
RewriteFilter(node, select) ==
  LET child == node.children[1]
  IN CASE node.predicate = Lit(True) /\ child.kind \notin Joins /\ node.output = child.output
            -> child
       [] select /\ Literal(node.predicate) /\ node.predicate.value \in {False, Null}
            -> [Limit(0, 0, child) EXCEPT !.output = node.output]
       [] OTHER -> node

RECURSIVE RewritePlan(_, _)
\* rewritePlan: the children, the expressions, then one rule for the node
RewritePlan(old, select) ==
  LET node == [old EXCEPT
        !.children = [i \in DOMAIN @ |-> RewritePlan(@[i], select \/ old.kind = "Project")],
        !.projections = [i \in DOMAIN @ |-> Rewrite(@[i])],
        !.predicate = IF @ = Null THEN Null ELSE Rewrite(@)]
      pushed == IF node.children[1].kind \in Joins THEN PushPredicate(node) ELSE node
  IN CASE node.kind = "Limit" -> PushTopN(node)
       [] node.kind = "Sort" -> UseIndexOrder(node)
       [] node.kind \in Joins -> ChooseJoin(node)
       [] node.kind = "Filter" ->
            IF pushed # node THEN pushed ELSE RewriteFilter(node, select)
       [] OTHER -> node

\* collectPlanBindings of a node
Needs(node) ==
  UNION ({Columns(node.projections[i]) : i \in DOMAIN node.projections}
         \cup (IF node.predicate = Null THEN {} ELSE {Columns(node.predicate)}))
RECURSIVE Pruned(_, _, _)
\* pruneRequiredColumns: a scan's output keeps what the nodes above it name;
\* under a join the slots of the whole row count, and nothing is pruned
Pruned(node, required, whole) ==
  LET needed == required \cup Needs(node)
      bindings == {<<c.relation, c.columnId>> : c \in needed}
  IN IF node.kind = "SeqScan"
     THEN IF whole THEN node
          ELSE [node EXCEPT !.output =
                  SelectSeq(@, LAMBDA c : <<c.relation, c.columnId>> \in bindings)]
     ELSE [node EXCEPT !.children = [i \in DOMAIN @ |->
             Pruned(@[i], needed, whole \/ node.kind \in Joins)]]

\* one pass over the plan of a statement
Pass(node) == Pruned(RewritePlan(node, FALSE), {}, FALSE)

-----------------------------------------------------------------------------

Init ==
  /\ query \in Queries /\ plan = query /\ seen = {query}
  /\ iteration = 0 /\ outcome = "running"

\* one round of the loop of optimize()
Iterate ==
  /\ outcome = "running" /\ iteration < MaxIterations
  /\ plan' = Pass(plan) /\ seen' = seen \cup {plan'}
  /\ iteration' = iteration + 1
  /\ outcome' = CASE plan' = plan -> "converged"
                  [] plan' # plan /\ plan' \in seen -> "cycle"
                  [] OTHER -> "running"
  /\ UNCHANGED query

\* OPTIMIZER_ITERATION_LIMIT
GiveUp ==
  /\ outcome = "running" /\ iteration = MaxIterations
  /\ outcome' = "limit" /\ UNCHANGED <<query, plan, seen, iteration>>

Next == Iterate \/ GiveUp
Idle == outcome # "running" /\ UNCHANGED vars
Spec == Init /\ [][Next \/ Idle]_vars

-----------------------------------------------------------------------------
(* Properties.                                                             *)

\* the variables have the shapes their names say (optimizer.cpp, 994-1075)
TypeOK ==
  /\ query \in Queries /\ plan \in seen /\ iteration \in 0 .. MaxIterations
  /\ outcome \in {"running", "converged", "cycle", "limit"}

\* the orders a Sort may give its rows: only the keys bind it
SortAnswers(sort) ==
  LET rows == Answer(sort.children[1])
      Respects(order) ==
        \A i, j \in DOMAIN rows :
          i < j => ~Precedes(rows[order[j]], rows[order[i]], sort.keys)
  IN {Visible(sort, [i \in DOMAIN rows |-> rows[order[i]]]) :
        order \in {o \in Permutations(DOMAIN rows) : Respects(o)}}
\* the answers SQL allows: ORDER BY leaves rows with equal keys in any order, and
\* a LIMIT above it may cut between them
Answers(node) ==
  CASE node.kind = "Sort" -> SortAnswers(node)
    [] node.kind = "Limit" /\ node.children[1].kind = "Sort" ->
         {Window(node, rows) : rows \in SortAnswers(node.children[1])}
    [] OTHER -> {Answer(node)}

\* after every pass the plan gives an answer that the query as it was planned
\* allows, unless that throws: folding, moving filters, bounding sorts, ordered
\* scans and pruning lose no row, add none and leave none out of order
\* (RuleBasedOptimizer::optimize)
AllowedAnswers == Answer(query) # Error => Answer(plan) \in Answers(query)

\* after every pass the plan answers what the query as it was planned answers,
\* the same columns of the same rows in the same order, unless that throws (the
\* postconditions in ruleDescriptors)
SameAnswers == Answer(query) # Error => Answer(plan) = Answer(query)

\* the rules undo nothing: the passes come to rest before the bound and never
\* return to an earlier plan (optimize, OPTIMIZER_CYCLE)
Converges == outcome \notin {"cycle", "limit"}
=============================================================================
