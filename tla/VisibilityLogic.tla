---------------------------- MODULE VisibilityLogic ----------------------------
(***************************************************************************)
(* apps.surveys.logic: evaluate(rule, answers) for a visible_when rule.    *)
(*                                                                         *)
(* A rule is a tree.  Its node is "none" (null), "all", "any" or "not"     *)
(* with its children, "leaf" with a field, an op and a value, or           *)
(* "malformed": what evaluate recognizes as no rule.  The result is        *)
(* "true", "false", or "error" for a ValidationError.                      *)
(***************************************************************************)
EXTENDS JsonValues

CONSTANT RuleTrees      \* the rules in use, with all their children

Rule(node, children) ==
  [node |-> node, children |-> children, field |-> "", op |-> "", value |-> Null]

NoRule == Rule("none", <<>>)
Malformed == Rule("malformed", <<>>)
Leaf(field, op, value) ==
  [node |-> "leaf", children |-> <<>>, field |-> field, op |-> op, value |-> value]

ASSUME RuleTreesAssumption ==
  \A rule \in RuleTrees :
    /\ "node" \in DOMAIN rule
    /\ rule.node \in {"none", "malformed", "leaf", "all", "any", "not"}
    /\ rule.children \in Seq(RuleTrees)
    /\ rule.node = "not" => Len(rule.children) = 1

OrderOps == {"gt", "lt", "gte", "lte"}
Ops == {"eq", "neq", "in", "not_in", "contains", "is_set", "is_not_set"} \cup OrderOps

Verdict(b) == IF b THEN "true" ELSE "false"

--------------------------------------------------------------------------------
(* Leaves.                                                                   *)

IsSet(v) == v # Null /\ v # EmptyText

\* _coerce_compare: two numbers that are not booleans, or two dates.
Comparable(a, b) ==
  \/ a.kind \in {"int", "float"} /\ b.kind \in {"int", "float"}
  \/ a.kind = "date" /\ b.kind = "date"

Compare(op, a, b) ==
  CASE op = "gt" -> a.n > b.n
    [] op = "lt" -> a.n < b.n
    [] op = "gte" -> a.n >= b.n
    [] op = "lte" -> a.n <= b.n

ContainsValue(actual, target) ==
  \/ IsText(actual) /\ IsText(target) /\ SubText(target, actual)
  \/ IsList(actual) /\ Among(target, actual.items)

\* Mutant of MissingLeaf: in and not_in look at the answer before the target.
MissingLeafFirst(op, target) ==
  IF op \notin Ops THEN "error" ELSE Verdict(op \in {"neq", "not_in", "is_not_set"})

\* Mutant of MissingLeaf: a missing answer is false under every op.
MissingLeafFalse(op, target) ==
  IF op \notin Ops \/ (op \in {"in", "not_in"} /\ ~ IsList(target))
  THEN "error" ELSE Verdict(op = "is_not_set")

\* The answer is missing: in and not_in still look at the target.
MissingLeaf(op, target) ==
  IF op \notin Ops \/ (op \in {"in", "not_in"} /\ ~ IsList(target))
  THEN "error"
  ELSE Verdict(op \in {"neq", "not_in", "is_not_set"})

AnsweredLeaf(op, actual, target) ==
  CASE op = "eq" -> Verdict(PyEq(actual, target))
    [] op = "neq" -> Verdict(~ PyEq(actual, target))
    [] op \in {"in", "not_in"} ->
         IF IsList(target) THEN Verdict(Among(actual, target.items) <=> op = "in") ELSE "error"
    [] op \in OrderOps ->
         IF Comparable(actual, target) THEN Verdict(Compare(op, actual, target)) ELSE "error"
    [] op = "contains" -> Verdict(ContainsValue(actual, target))
    [] op = "is_set" -> Verdict(IsSet(actual))
    [] op = "is_not_set" -> Verdict(~ IsSet(actual))
    [] OTHER -> "error"

LeafValue(leaf, answers) ==
  IF leaf.field \in DOMAIN answers
  THEN AnsweredLeaf(leaf.op, answers[leaf.field], leaf.value)
  ELSE MissingLeaf(leaf.op, leaf.value)

--------------------------------------------------------------------------------
(* Trees.                                                                    *)

Negation(value) == CASE value = "true" -> "false"
                     [] value = "false" -> "true"
                     [] value = "error" -> "error"

\* The result of a rule, given those of its children.
NodeValue(rule, values, answers) ==
  CASE rule.node = "none" -> "true"
    [] rule.node = "malformed" -> "error"
    [] rule.node = "leaf" -> LeafValue(rule, answers)
    [] rule.node = "all" -> FirstOther(values, "true")
    [] rule.node = "any" -> FirstOther(values, "false")
    [] rule.node = "not" -> Negation(values[1])

Evaluation(answers) ==
  LET value[rule \in RuleTrees] ==
        NodeValue(rule, [i \in DOMAIN rule.children |-> value[rule.children[i]]], answers)
  IN  value

EvaluateRule(rule, answers) == Evaluation(answers)[rule]

NoAnswers == [k \in {} |-> Null]

\* _RuleField.to_internal_value: a rule is accepted when evaluating it on no
\* answers at all raises nothing.
AcceptedRule(rule) == EvaluateRule(rule, NoAnswers) # "error"

================================================================================
