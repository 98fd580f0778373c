---------------------------- MODULE FieldRulesProofs ---------------------------
(***************************************************************************)
(* What the logic engine and the field types do with every rule, every     *)
(* field and every answer, however deep the rules are nested.              *)
(***************************************************************************)
EXTENDS FieldRules, WellFoundedInduction, TLAPS

--------------------------------------------------------------------------------
(* Induction, as the existence of a least counterexample.                    *)

LEMMA Smallest ==
  ASSUME NEW S \in SUBSET Nat, S # {}
  PROVE  \E n \in S : \A m \in S : n <= m
<1> DEFINE R == OpToRel(<, Nat)
<1>1. \A m, n \in Nat : <<m, n>> \in R <=> m < n
  BY DEF OpToRel
<1>2. IsWellFoundedOn(R, Nat)
  BY NatLessThanWellFounded
<1> HIDE DEF R
<1>3. PICK n \in S : \A m \in S : <<m, n>> \notin R
  BY <1>2, WFMin
<1>4. \A m \in S : ~ (m < n)
  BY <1>1, <1>3
<1> QED
  BY <1>4

\* A set of rules has one none of whose children is in the set.
LEMMA Shallowest ==
  ASSUME NEW T \in SUBSET RuleTrees, T # {}
  PROVE  \E rule \in T : \A i \in DOMAIN rule.children : rule.children[i] \notin T
<1> DEFINE depths == {Depth[rule] : rule \in T}
<1>1. depths \in SUBSET Nat /\ depths # {}
  BY FieldRulesAssumption
<1>2. PICK n \in depths : \A m \in depths : n <= m
  BY <1>1, Smallest
<1>3. PICK rule \in T : Depth[rule] = n
  BY <1>2
<1>4. \A other \in T : ~ (Depth[other] < Depth[rule])
  BY <1>1, <1>2, <1>3
<1> QED
  BY <1>4, FieldRulesAssumption

--------------------------------------------------------------------------------
(* Recursion over the rules.  step[rule][g] is the value at rule, given a    *)
(* function g with the values at its children.                               *)

LooksAtChildren(step, V) ==
  \A rule \in RuleTrees, g, h \in [RuleTrees -> V] :
    (\A i \in DOMAIN rule.children : g[rule.children[i]] = h[rule.children[i]])
      => step[rule][g] = step[rule][h]

\* g is right about the rules nested less than n deep.
RightBelow(g, step, n) == \A rule \in RuleTrees : Depth[rule] < n => g[rule] = step[rule][g]

LEMMA ChildrenBelow ==
  ASSUME NEW rule \in RuleTrees, NEW i \in DOMAIN rule.children
  PROVE  /\ rule.children[i] \in RuleTrees
         /\ Depth[rule.children[i]] \in Nat /\ Depth[rule] \in Nat
         /\ Depth[rule.children[i]] < Depth[rule]
BY RuleTreesAssumption, FieldRulesAssumption

\* Two such functions agree as far as both are right.
LEMMA RightOnce ==
  ASSUME NEW V, NEW step, LooksAtChildren(step, V)
  PROVE  \A g, h \in [RuleTrees -> V], m, n \in Nat :
            RightBelow(g, step, m) /\ RightBelow(h, step, n) =>
              \A rule \in RuleTrees : Depth[rule] < m /\ Depth[rule] < n => g[rule] = h[rule]
<1> SUFFICES ASSUME NEW g \in [RuleTrees -> V], NEW h \in [RuleTrees -> V],
                    NEW m \in Nat, NEW n \in Nat,
                    RightBelow(g, step, m), RightBelow(h, step, n),
                    NEW rule \in RuleTrees, Depth[rule] < m, Depth[rule] < n
             PROVE  g[rule] = h[rule]
  OBVIOUS
<1> DEFINE T == {r \in RuleTrees : Depth[r] < m /\ Depth[r] < n /\ g[r] # h[r]}
<1> SUFFICES ASSUME T # {} PROVE FALSE
  OBVIOUS
<1>1. PICK r \in T : \A i \in DOMAIN r.children : r.children[i] \notin T
  BY Shallowest
<1>2. \A i \in DOMAIN r.children : g[r.children[i]] = h[r.children[i]]
  BY <1>1, ChildrenBelow
<1>3. step[r][g] = step[r][h]
  BY <1>2 DEF LooksAtChildren
<1> QED
  BY <1>3 DEF RightBelow

\* There is one for every depth.
LEMMA RightSomewhere ==
  ASSUME NEW V, V # {}, NEW step \in [RuleTrees -> [[RuleTrees -> V] -> V]],
         LooksAtChildren(step, V), NEW n \in Nat
  PROVE  \E g \in [RuleTrees -> V] : RightBelow(g, step, n)
<1> DEFINE Right(k) == \E g \in [RuleTrees -> V] : RightBelow(g, step, k)
           T == {k \in Nat : ~ Right(k)}
<1> SUFFICES ASSUME T # {} PROVE FALSE
  OBVIOUS
<1>1. PICK k \in T : \A j \in T : k <= j
  BY Smallest
<1>2. CASE k = 0
  <2>1. PICK v \in V : TRUE
    OBVIOUS
  <2>2. RightBelow([rule \in RuleTrees |-> v], step, 0)
    BY FieldRulesAssumption DEF RightBelow
  <2> QED
    BY <1>2, <2>2
<1>3. CASE k # 0
  <2>1. k - 1 \in Nat /\ k - 1 \notin T
    BY <1>1, <1>3
  <2>2. PICK g \in [RuleTrees -> V] : RightBelow(g, step, k - 1)
    BY <2>1
  <2> DEFINE h == [rule \in RuleTrees |-> step[rule][g]]
  <2>3. h \in [RuleTrees -> V]
    OBVIOUS
  <2>4. ASSUME NEW rule \in RuleTrees, Depth[rule] < k PROVE h[rule] = step[rule][h]
    <3>1. \A i \in DOMAIN rule.children : g[rule.children[i]] = h[rule.children[i]]
      <4> SUFFICES ASSUME NEW i \in DOMAIN rule.children
                   PROVE  g[rule.children[i]] = step[rule.children[i]][g]
        BY ChildrenBelow
      <4>1. Depth[rule.children[i]] < k - 1 /\ rule.children[i] \in RuleTrees
        BY <2>4, ChildrenBelow
      <4> QED
        BY <2>2, <4>1 DEF RightBelow
    <3>2. step[rule][g] = step[rule][h]
      BY <2>3, <3>1 DEF LooksAtChildren
    <3> QED
      BY <3>2
  <2> HIDE DEF h
  <2>5. RightBelow(h, step, k)
    BY <2>4 DEF RightBelow
  <2> QED
    BY <1>1, <2>3, <2>5
<1> QED
  BY <1>2, <1>3

Recursive(step, V) ==
  V # {} /\ step \in [RuleTrees -> [[RuleTrees -> V] -> V]] /\ LooksAtChildren(step, V)

Solvable(step, V) ==
  \E g \in [RuleTrees -> V] : \A rule \in RuleTrees : g[rule] = step[rule][g]

\* Hence one that is right about all of them.
LEMMA Recursion ==
  ASSUME NEW V, NEW step, Recursive(step, V)
  PROVE  Solvable(step, V)
<1> USE DEF Recursive
<1>0. \A g, h \in [RuleTrees -> V], m, n \in Nat :
        RightBelow(g, step, m) /\ RightBelow(h, step, n) =>
          \A rule \in RuleTrees : Depth[rule] < m /\ Depth[rule] < n => g[rule] = h[rule]
  BY RightOnce
<1> DEFINE Upto(rule) == CHOOSE g \in [RuleTrees -> V] : RightBelow(g, step, Depth[rule] + 1)
           all == [rule \in RuleTrees |-> Upto(rule)[rule]]
<1>1. ASSUME NEW rule \in RuleTrees
      PROVE  /\ Depth[rule] \in Nat
             /\ Upto(rule) \in [RuleTrees -> V] /\ RightBelow(Upto(rule), step, Depth[rule] + 1)
  <2>1. Depth[rule] \in Nat /\ Depth[rule] + 1 \in Nat
    BY FieldRulesAssumption
  <2>2. \E g \in [RuleTrees -> V] : RightBelow(g, step, Depth[rule] + 1)
    BY <2>1, RightSomewhere
  <2> QED
    BY <2>1, <2>2
<1> HIDE DEF Upto
<1>2. all \in [RuleTrees -> V]
  BY <1>1
<1>3. ASSUME NEW rule \in RuleTrees PROVE all[rule] = step[rule][all]
  <2>1. \A i \in DOMAIN rule.children : Upto(rule)[rule.children[i]] = all[rule.children[i]]
    <3> SUFFICES ASSUME NEW i \in DOMAIN rule.children
                 PROVE  Upto(rule)[rule.children[i]] = Upto(rule.children[i])[rule.children[i]]
      BY ChildrenBelow
    <3> DEFINE child == rule.children[i]
               m == Depth[rule] + 1
               n == Depth[child] + 1
    <3>1. child \in RuleTrees /\ m \in Nat /\ n \in Nat /\ Depth[child] < m /\ Depth[child] < n
      BY ChildrenBelow
    <3>2. /\ Upto(rule) \in [RuleTrees -> V] /\ RightBelow(Upto(rule), step, m)
          /\ Upto(child) \in [RuleTrees -> V] /\ RightBelow(Upto(child), step, n)
      BY <1>1, <3>1
    <3> HIDE DEF child, m, n
    <3>3. Upto(rule)[child] = Upto(child)[child]
      BY <1>0, <3>1, <3>2
    <3> QED
      BY <3>3 DEF child
  <2>2. step[rule][Upto(rule)] = step[rule][all]
    BY <1>1, <1>2, <2>1 DEF LooksAtChildren
  <2>3. Upto(rule)[rule] = step[rule][Upto(rule)]
    BY <1>1 DEF RightBelow
  <2> QED
    BY <2>2, <2>3
<1> QED
  BY <1>2, <1>3 DEF Solvable

--------------------------------------------------------------------------------
(* The logic engine.                                                         *)

Results == {"true", "false", "error"}

\* The first of the values that is not neutral decides, if there is one.
LEMMA FirstOtherDecides ==
  ASSUME NEW values, DOMAIN values \subseteq Nat, NEW neutral
  PROVE  \/ /\ \A i \in DOMAIN values : values[i] = neutral
            /\ FirstOther(values, neutral) = neutral
         \/ \E i \in DOMAIN values :
              /\ values[i] # neutral /\ FirstOther(values, neutral) = values[i]
<1> DEFINE others == {i \in DOMAIN values : values[i] # neutral}
<1>1. CASE others = {}
  BY <1>1 DEF FirstOther
<1>2. CASE others # {}
  <2> DEFINE first == CHOOSE i \in others : \A j \in others : i <= j
  <2>1. \E i \in others : \A j \in others : i <= j
    BY <1>2, Smallest
  <2>2. first \in others
    BY <2>1
  <2>3. FirstOther(values, neutral) = values[first]
    BY <1>2 DEF FirstOther
  <2> QED
    BY <2>2, <2>3
<1> QED
  BY <1>1, <1>2

LEMMA LeafType ==
  ASSUME NEW leaf, NEW answers
  PROVE  LeafValue(leaf, answers) \in Results
BY DEF LeafValue, AnsweredLeaf, MissingLeaf, Verdict, Ops, OrderOps, Results

LEMMA NodeType ==
  ASSUME NEW rule \in RuleTrees, NEW answers, NEW values \in [DOMAIN rule.children -> Results]
  PROVE  NodeValue(rule, values, answers) \in Results
<1>1. DOMAIN values \subseteq Nat
  BY RuleTreesAssumption
<1>2. CASE rule.node = "leaf"
  BY <1>2, LeafType DEF NodeValue
<1>3. CASE rule.node \in {"all", "any"}
  BY <1>1, <1>3, FirstOtherDecides DEF NodeValue, Results
<1>4. CASE rule.node = "not"
  <2>1. values[1] \in Results
    BY <1>4, RuleTreesAssumption
  <2> QED
    BY <1>4, <2>1 DEF NodeValue, Negation, Results
<1>5. CASE rule.node \in {"none", "malformed"}
  BY <1>5 DEF NodeValue, Results
<1> QED
  BY <1>2, <1>3, <1>4, <1>5, RuleTreesAssumption

\* The results of the children of a rule.
ChildValues(rule, value) == [i \in DOMAIN rule.children |-> value[rule.children[i]]]

\* The engine gives each rule what its node makes of the results of its
\* children: it ends, on every rule and all answers, with true, false or a
\* ValidationError.
THEOREM EvaluationTheorem ==
  ASSUME NEW answers, NEW rule \in RuleTrees
  PROVE  /\ EvaluateRule(rule, answers) \in Results
         /\ EvaluateRule(rule, answers) =
              NodeValue(rule, ChildValues(rule, Evaluation(answers)), answers)
<1> DEFINE step == [r \in RuleTrees |-> [g \in [RuleTrees -> Results] |->
                      NodeValue(r, ChildValues(r, g), answers)]]
           Right(g) == g = [r \in RuleTrees |-> NodeValue(r, ChildValues(r, g), answers)]
<1>1. \A r \in RuleTrees, g \in [RuleTrees -> Results] :
         /\ ChildValues(r, g) \in [DOMAIN r.children -> Results]
         /\ NodeValue(r, ChildValues(r, g), answers) \in Results
  BY NodeType, ChildrenBelow DEF ChildValues
<1>2. step \in [RuleTrees -> [[RuleTrees -> Results] -> Results]]
  BY <1>1
<1>3. LooksAtChildren(step, Results)
  <2> SUFFICES ASSUME NEW r \in RuleTrees, NEW g \in [RuleTrees -> Results], NEW h \in [RuleTrees -> Results],
                      \A i \in DOMAIN r.children : g[r.children[i]] = h[r.children[i]]
               PROVE  step[r][g] = step[r][h]
    BY DEF LooksAtChildren
  <2>1. ChildValues(r, g) = ChildValues(r, h)
    BY DEF ChildValues
  <2> QED
    BY <2>1
<1> HIDE DEF step
<1>4. PICK g \in [RuleTrees -> Results] : \A r \in RuleTrees : g[r] = step[r][g]
  <2>1. Recursive(step, Results)
    BY <1>2, <1>3 DEF Recursive, Results
  <2> QED
    BY <2>1, Recursion DEF Solvable
<1>5. Right(g)
  BY <1>4 DEF step
<1>6. Right(Evaluation(answers))
  BY <1>5 DEF Evaluation, ChildValues
<1> DEFINE value == Evaluation(answers)
<1>7. \A r \in RuleTrees : value[r] = NodeValue(r, ChildValues(r, value), answers)
  BY <1>6
<1> HIDE DEF value
<1>8. \A r \in RuleTrees : value[r] \in Results
  <2> DEFINE T == {r \in RuleTrees : value[r] \notin Results}
  <2> SUFFICES ASSUME T # {} PROVE FALSE
    OBVIOUS
  <2>1. PICK r \in T : \A i \in DOMAIN r.children : r.children[i] \notin T
    BY Shallowest
  <2>2. ChildValues(r, value) \in [DOMAIN r.children -> Results]
    BY <2>1, ChildrenBelow DEF ChildValues
  <2> QED
    BY <1>7, <2>2, NodeType
<1> QED
  BY <1>7, <1>8 DEF EvaluateRule, value

--------------------------------------------------------------------------------
(* The inputs.                                                               *)

LEMMA RuleInputs ==
  Init /\ OnRule => question \in RuleTrees /\ answer \in AnswerDicts
BY FieldRulesAssumption DEF Init, OnRule

LEMMA FieldInputs ==
  Init /\ OnField =>
    /\ question \in FieldQuestions /\ answer \in Answers /\ question.type \in TypeNames
    /\ question.config # ListConfig
BY FieldRulesAssumption, RuleTreesAssumption DEF Init, OnField, OnRule

\* The combiners are all() and any() of their children, whichever raise.
THEOREM CombinersTheorem == Spec => []CombinersAreBoolean
<1>1. Init => CombinersAreBoolean
  <2> SUFFICES ASSUME Init, OnRule, question.node \in {"all", "any"}
               PROVE  CombinersAreBoolean
    BY DEF CombinersAreBoolean
  <2> DEFINE results == ChildValues(question, Evaluation(answer))
             values == {Value(question.children[i]) : i \in DOMAIN question.children}
             neutral == Verdict(question.node = "all")
  <2>1. question \in RuleTrees
    BY RuleInputs
  <2>2. Value(question) = FirstOther(results, neutral)
    BY <2>1, EvaluationTheorem DEF NodeValue, Value, Verdict
  <2>3. /\ DOMAIN results = DOMAIN question.children /\ DOMAIN results \subseteq Nat
        /\ \A i \in DOMAIN results : results[i] = Value(question.children[i])
    BY <2>1, RuleTreesAssumption DEF ChildValues, Value, EvaluateRule
  <2>4. values = {results[i] : i \in DOMAIN results}
    BY <2>3
  <2> HIDE DEF results, neutral, values
  <2>5. IF Value(question) = neutral THEN values \subseteq {neutral} ELSE Value(question) \in values
    BY <2>2, <2>3, <2>4, FirstOtherDecides
  <2> QED
    BY <2>5 DEF CombinersAreBoolean, values, neutral
<1>2. CombinersAreBoolean /\ [Next]_<<question, answer>> => CombinersAreBoolean'
  BY DEF CombinersAreBoolean, OnRule, Value, Next
<1> QED
  BY <1>1, <1>2, PTL DEF Spec

\* The ops come in pairs of opposites, also where they raise.
THEOREM OppositesTheorem == Spec => []NegatedOps
<1>1. Init => NegatedOps
  <2> SUFFICES ASSUME Init, OnRule, question.node = "leaf"
               PROVE  NegatedOps
    BY DEF NegatedOps
  <2> DEFINE on(op) == LeafValue(Leaf(question.field, op, question.value), answer)
             actual == answer[question.field]
             target == question.value
  <2>1. /\ target.n \in Int
        /\ question.field \in DOMAIN answer => actual.n \in Int
    BY RuleInputs, FieldRulesAssumption
  <2>2. CASE question.field \notin DOMAIN answer
    <3>1. \A op : on(op) = MissingLeaf(op, target)
      BY <2>2 DEF Leaf, LeafValue
    <3> HIDE DEF on, target
    <3>2. /\ on("neq") = Negation(on("eq")) /\ on("not_in") = Negation(on("in"))
          /\ on("is_not_set") = Negation(on("is_set"))
      BY <3>1 DEF MissingLeaf, Negation, Verdict, Ops
    <3>3. \A op \in OrderOps : on(op) = "false"
      BY <3>1 DEF MissingLeaf, Verdict, Ops, OrderOps
    <3>4. {on(op) : op \in OrderOps} = {"false"}
      BY <3>3 DEF OrderOps
    <3> QED
      BY <2>2, <3>2, <3>4 DEF NegatedOps, on, target
  <2>3. CASE question.field \in DOMAIN answer
    <3>0. actual.n \in Int /\ target.n \in Int
      BY <2>1, <2>3
    <3>1. \A op : on(op) = AnsweredLeaf(op, actual, target)
      BY <2>3 DEF Leaf, LeafValue
    <3> HIDE DEF on, target, actual
    <3>2. on("neq") = Negation(on("eq")) /\ on("is_not_set") = Negation(on("is_set"))
      BY <3>1 DEF AnsweredLeaf, Negation, Verdict, OrderOps
    <3>3. on("not_in") = Negation(on("in"))
      <4>1. /\ on("in") = IF IsList(target) THEN Verdict(Among(actual, target.items)) ELSE "error"
            /\ on("not_in") = IF IsList(target) THEN Verdict(~ Among(actual, target.items))
                                               ELSE "error"
        BY <3>1 DEF AnsweredLeaf, OrderOps, Verdict
      <4> QED
        BY <4>1 DEF Negation, Verdict
    <3>4. on("lte") = Negation(on("gt")) /\ on("gte") = Negation(on("lt"))
      <4>1. \A op \in OrderOps :
               on(op) = IF Comparable(actual, target) THEN Verdict(Compare(op, actual, target))
                        ELSE "error"
        BY <3>1 DEF AnsweredLeaf, OrderOps
      <4>2. /\ Compare("lte", actual, target) <=> ~ Compare("gt", actual, target)
            /\ Compare("gte", actual, target) <=> ~ Compare("lt", actual, target)
        BY <3>0 DEF Compare
      <4> QED
        BY <4>1, <4>2 DEF Negation, Verdict, OrderOps
    <3> QED
      BY <2>3, <3>2, <3>3, <3>4 DEF NegatedOps, on, target
  <2> QED
    BY <2>2, <2>3
<1>2. NegatedOps /\ [Next]_<<question, answer>> => NegatedOps'
  BY DEF NegatedOps, OnRule, Next
<1> QED
  BY <1>1, <1>2, PTL DEF Spec

--------------------------------------------------------------------------------
(* What the serializer's checks are worth.                                   *)

LEMMA PartsDefined ==
  ASSUME NEW rule \in RuleTrees
  PROVE  /\ Parts(rule) \subseteq RuleTrees
         /\ Parts(rule) = {rule} \cup UNION {Parts(rule.children[i]) : i \in DOMAIN rule.children}
<1> DEFINE below(r, g) == UNION {g[r.children[i]] : i \in DOMAIN r.children}
           step == [r \in RuleTrees |-> [g \in [RuleTrees -> SUBSET RuleTrees] |-> {r} \cup below(r, g)]]
           Right(g) == g = [r \in RuleTrees |->
                              {r} \cup UNION {g[r.children[i]] : i \in DOMAIN r.children}]
           parts == CHOOSE g : Right(g)
<1>1. ASSUME NEW r \in RuleTrees, NEW g \in [RuleTrees -> SUBSET RuleTrees]
      PROVE  {r} \cup below(r, g) \in SUBSET RuleTrees
  BY ChildrenBelow
<1>2. step \in [RuleTrees -> [[RuleTrees -> SUBSET RuleTrees] -> SUBSET RuleTrees]]
  <2> HIDE DEF below
  <2> QED
    BY <1>1
<1>3. LooksAtChildren(step, SUBSET RuleTrees)
  <2> SUFFICES ASSUME NEW r \in RuleTrees,
                      NEW g \in [RuleTrees -> SUBSET RuleTrees],
                      NEW h \in [RuleTrees -> SUBSET RuleTrees],
                      \A i \in DOMAIN r.children : g[r.children[i]] = h[r.children[i]]
               PROVE  step[r][g] = step[r][h]
    BY DEF LooksAtChildren
  <2>1. below(r, g) = below(r, h)
    OBVIOUS
  <2> HIDE DEF below
  <2> QED
    BY <2>1
<1>4. \A r \in RuleTrees, g \in [RuleTrees -> SUBSET RuleTrees] : step[r][g] = {r} \cup below(r, g)
  <2> HIDE DEF below
  <2> QED
    OBVIOUS
<1> HIDE DEF step
<1>5. PICK g \in [RuleTrees -> SUBSET RuleTrees] : \A r \in RuleTrees : g[r] = step[r][g]
  <2>1. Recursive(step, SUBSET RuleTrees)
    BY <1>2, <1>3 DEF Recursive
  <2> QED
    BY <2>1, Recursion DEF Solvable
<1>6. Right(g)
  BY <1>4, <1>5
<1>7. Right(parts)
  BY <1>6
<1>8. \A r \in RuleTrees : Parts(r) = parts[r]
  BY DEF Parts
<1> HIDE DEF parts
<1>9. \A r \in RuleTrees : parts[r] = {r} \cup UNION {parts[r.children[i]] : i \in DOMAIN r.children}
  BY <1>7
<1>10. \A r \in RuleTrees : parts[r] \subseteq RuleTrees
  <2> DEFINE T == {r \in RuleTrees : ~ (parts[r] \subseteq RuleTrees)}
  <2> SUFFICES ASSUME T # {} PROVE FALSE
    OBVIOUS
  <2>1. PICK r \in T : \A i \in DOMAIN r.children : r.children[i] \notin T
    BY Shallowest
  <2>2. \A i \in DOMAIN r.children : parts[r.children[i]] \subseteq RuleTrees
    BY <2>1, ChildrenBelow
  <2> QED
    BY <1>9, <2>2
<1>11. {Parts(rule.children[i]) : i \in DOMAIN rule.children}
         = {parts[rule.children[i]] : i \in DOMAIN rule.children}
  BY <1>8, ChildrenBelow
<1> QED
  BY <1>8, <1>9, <1>10, <1>11

\* The ordering ops on values without an order, on given answers.
NoOrder(part, answers) ==
  part.op \in OrderOps /\ part.field \in DOMAIN answers
    /\ ~ Comparable(answers[part.field], part.value)

LEMMA LeafRaises ==
  ASSUME NEW leaf, NEW answers,
         LeafValue(leaf, answers) = "error", LeafValue(leaf, NoAnswers) # "error"
  PROVE  NoOrder(leaf, answers)
<1>1. LeafValue(leaf, NoAnswers) = MissingLeaf(leaf.op, leaf.value)
  BY DEF LeafValue, NoAnswers
<1>2. leaf.op \in Ops /\ (leaf.op \in {"in", "not_in"} => IsList(leaf.value))
  BY <1>1 DEF MissingLeaf
<1>3. leaf.field \in DOMAIN answers
  BY <1>1 DEF LeafValue
<1>4. AnsweredLeaf(leaf.op, answers[leaf.field], leaf.value) = "error"
  BY <1>3 DEF LeafValue
<1>5. leaf.op \in OrderOps /\ ~ Comparable(answers[leaf.field], leaf.value)
  BY <1>2, <1>4 DEF AnsweredLeaf, Verdict, Ops, OrderOps
<1> QED
  BY <1>3, <1>5 DEF NoOrder

\* A rule that raises, and every part of which is accepted, holds an ordering op
\* on values without an order.
LEMMA AcceptedRaise ==
  ASSUME NEW answers
  PROVE  \A rule \in RuleTrees :
            EvaluateRule(rule, answers) = "error" /\ (\A part \in Parts(rule) : AcceptedRule(part)) =>
              \E part \in Parts(rule) : NoOrder(part, answers)
<1> DEFINE T == {rule \in RuleTrees :
                   /\ EvaluateRule(rule, answers) = "error"
                   /\ \A part \in Parts(rule) : AcceptedRule(part)
                   /\ ~ \E part \in Parts(rule) : NoOrder(part, answers)}
<1> SUFFICES ASSUME T # {} PROVE FALSE
  OBVIOUS
<1>1. PICK rule \in T : \A i \in DOMAIN rule.children : rule.children[i] \notin T
  BY Shallowest
<1> DEFINE values == ChildValues(rule, Evaluation(answers))
<1>2. rule \in Parts(rule)
  BY PartsDefined
<1>3. \A i \in DOMAIN rule.children :
         rule.children[i] \in RuleTrees /\ Parts(rule.children[i]) \subseteq Parts(rule)
  BY PartsDefined, ChildrenBelow
<1>4. \A i \in DOMAIN rule.children : EvaluateRule(rule.children[i], answers) # "error"
  BY <1>1, <1>3
<1>5. /\ DOMAIN values = DOMAIN rule.children
      /\ \A i \in DOMAIN values : values[i] = EvaluateRule(rule.children[i], answers)
  BY DEF ChildValues, EvaluateRule
<1>6. EvaluateRule(rule, answers) = NodeValue(rule, values, answers)
  BY EvaluationTheorem
<1>7. /\ EvaluateRule(rule, answers) = "error"
      /\ EvaluateRule(rule, NoAnswers) # "error"
      /\ EvaluateRule(rule, NoAnswers) =
           NodeValue(rule, ChildValues(rule, Evaluation(NoAnswers)), NoAnswers)
  BY <1>2, EvaluationTheorem DEF AcceptedRule
<1>8. DOMAIN values \subseteq Nat
  BY <1>5, RuleTreesAssumption
<1> HIDE DEF values
<1>9. CASE rule.node \in {"none", "malformed"}
  BY <1>6, <1>7, <1>9 DEF NodeValue
<1>10. CASE rule.node = "leaf"
  <2>1. LeafValue(rule, answers) = "error" /\ LeafValue(rule, NoAnswers) # "error"
    BY <1>6, <1>7, <1>10 DEF NodeValue
  <2> QED
    BY <1>1, <1>2, <2>1, LeafRaises
<1>11. CASE rule.node \in {"all", "any"}
  <2>1. \E neutral \in {"true", "false"} : EvaluateRule(rule, answers) = FirstOther(values, neutral)
    BY <1>6, <1>11 DEF NodeValue
  <2> QED
    BY <1>4, <1>5, <1>7, <1>8, <2>1, FirstOtherDecides
<1>12. CASE rule.node = "not"
  <2>1. 1 \in DOMAIN rule.children
    BY <1>12, RuleTreesAssumption
  <2>2. values[1] \in {"true", "false"}
    BY <1>3, <1>4, <1>5, <2>1, EvaluationTheorem DEF Results
  <2> QED
    BY <1>6, <1>7, <1>12, <2>2 DEF NodeValue, Negation
<1> QED
  BY <1>9, <1>10, <1>11, <1>12, RuleTreesAssumption

\* An accepted rule raises only for an ordering op between unordered values.
THEOREM AcceptedRulesTheorem == Spec => []AcceptedRaiseOnlyOnOrder
<1>1. Init => AcceptedRaiseOnlyOnOrder
  BY RuleInputs, AcceptedRaise DEF AcceptedRaiseOnlyOnOrder, Value, NoOrder
<1>2. AcceptedRaiseOnlyOnOrder /\ [Next]_<<question, answer>> => AcceptedRaiseOnlyOnOrder'
  BY DEF AcceptedRaiseOnlyOnOrder, OnRule, Value, Next
<1> QED
  BY <1>1, <1>2, PTL DEF Spec

--------------------------------------------------------------------------------
(* The field types.                                                          *)

\* The choices of an accepted config can be looked up.
LEMMA ChoicesAccepted ==
  ASSUME NEW config, ChoicesCheck(config) = "ok",
         DOMAIN config["choices"].items \subseteq Nat
  PROVE  ChoicesUsable(config)
<1> DEFINE choices == config["choices"].items
           checks == [i \in DOMAIN choices |-> ChoiceCheck(choices, i)]
<1>1. /\ Has(config, "choices") /\ IsList(config["choices"])
      /\ choices = <<>> \/ FirstOther(checks, "ok") = "ok"
  BY DEF ChoicesCheck
<1>2. choices # <<>>
  BY <1>1 DEF ChoicesCheck
<1>3. \A i \in DOMAIN checks : checks[i] = "ok"
  <2> HIDE DEF checks
  <2>1. DOMAIN checks \subseteq Nat
    BY DEF checks
  <2> QED
    BY <1>1, <1>2, <2>1, FirstOtherDecides
<1>4. \A i \in DOMAIN choices : ChoiceCheck(choices, i) = "ok"
  BY <1>3
<1> HIDE DEF choices
<1>5. \A i \in DOMAIN choices : choices[i].kind = "choice" /\ ~ Unhashable(choices[i].items[1])
  BY <1>4 DEF ChoiceCheck
<1> QED
  BY <1>1, <1>5 DEF ChoicesUsable, choices

\* Each answer to a choice is looked up, and fails only if it cannot be.
LEMMA ChoicesAnswered ==
  ASSUME NEW value, NEW config, NEW multi \in BOOLEAN, ChoicesUsable(config),
         DOMAIN value.items \subseteq Nat,
         ~ multi => IsList(value) \/ ~ Unhashable(value),
         multi => \A i \in DOMAIN value.items : ~ Unhashable(value.items[i])
  PROVE  ChoiceAnswer(value, config, multi) # "crash"
<1> DEFINE values == IF multi THEN value.items ELSE <<value>>
           checks == [i \in DOMAIN values |-> Chosen(values[i], config)]
<1>1. CASE IsList(value) # multi
  BY <1>1 DEF ChoiceAnswer
<1>2. CASE IsList(value) = multi
  <2>1. ChoiceAnswer(value, config, multi) = FirstOther(checks, "ok")
    BY <1>2 DEF ChoiceAnswer
  <2>2. DOMAIN values \subseteq Nat /\ \A i \in DOMAIN values : ~ Unhashable(values[i])
    BY <1>2
  <2>3. DOMAIN checks \subseteq Nat /\ \A i \in DOMAIN checks : checks[i] # "crash"
    <3> HIDE DEF values
    <3> QED
      BY <2>2 DEF Chosen, Ensure
  <2> HIDE DEF checks
  <2> QED
    BY <2>1, <2>3, FirstOtherDecides
<1> QED
  BY <1>1, <1>2

\* An accepted object makes no answer fail otherwise than with a
\* ValidationError, but for the two kinds of choices nobody can look up.
THEOREM AcceptedConfigsTheorem == Spec => []AcceptedConfigsUsable
<1>1. Init => AcceptedConfigsUsable
  <2> DEFINE config == question.config
             type == question.type
  <2> SUFFICES ASSUME Init, OnField, Usable,
                      type = "single_choice" => IsList(answer) \/ ~ Unhashable(answer),
                      type = "multi_choice" =>
                        \A i \in DOMAIN answer.items : ~ Unhashable(answer.items[i])
               PROVE  ValidateAnswer(type, answer, config) # "crash"
    BY DEF AcceptedConfigsUsable
  <2>1. /\ question \in FieldQuestions /\ answer \in Answers
        /\ type \in TypeNames /\ config # ListConfig
    BY FieldInputs
  <2>2. /\ Has(config, "choices") => DOMAIN config["choices"].items \subseteq Nat
        /\ DOMAIN answer.items \subseteq Nat
    BY <2>1, FieldRulesAssumption
  <2>3. ValidateConfig(type, config) = "ok"
    BY DEF Usable
  <2> HIDE DEF config, type
  <2>4. CASE type \in TextTypes
    <3>1. ValidateAnswer(type, answer, config) = TextAnswer(answer, config, HardMax(type))
      BY <2>4 DEF ValidateAnswer, TextTypes, ChoiceTypes
    <3>2. TextAnswer(answer, config, HardMax(type)) # "crash"
      BY DEF TextAnswer, Ensure
    <3> QED
      BY <3>1, <3>2
  <2>5. CASE type = "number"
    BY <2>1, <2>5 DEF ValidateAnswer, TextTypes, ChoiceTypes, NumberAnswer, Ensure
  <2>6. CASE type \in {"date", "email"}
    BY <2>6 DEF ValidateAnswer, TextTypes, ChoiceTypes, Ensure
  <2>7. CASE type \in ChoiceTypes
    <3> DEFINE checks == <<SensitiveFlagCheck(config)>> \o <<ChoicesCheck(config)>>
    <3>1. ValidateConfig(type, config) = FirstOther(checks, "ok")
      <4> DEFINE CheckTail == CASE type \in TextTypes ->
                                     <<LengthCheck(config, HardMax(type)), RegexCheck(config)>>
                                [] type = "number" -> <<NumberCheck(config)>>
                                [] type \in ChoiceTypes -> <<ChoicesCheck(config)>>
                                [] type \in {"date", "email"} -> <<>>
      <4>1. ValidateConfig(type, config) = FirstOther(<<SensitiveFlagCheck(config)>> \o CheckTail, "ok")
        BY DEF ValidateConfig
      <4>2. CheckTail = <<ChoicesCheck(config)>>
        BY <2>7 DEF TextTypes, ChoiceTypes
      <4> HIDE DEF CheckTail
      <4> QED
        BY <4>1, <4>2
    <3>2. DOMAIN checks \subseteq Nat /\ 2 \in DOMAIN checks /\ checks[2] = ChoicesCheck(config)
      OBVIOUS
    <3> HIDE DEF checks
    <3>3. ChoicesCheck(config) = "ok"
      BY <2>3, <3>1, <3>2, FirstOtherDecides
    <3>4. Has(config, "choices")
      BY <3>3 DEF ChoicesCheck
    <3>5. ChoicesUsable(config)
      BY <2>2, <3>3, <3>4, ChoicesAccepted
    <3>6. ValidateAnswer(type, answer, config) = ChoiceAnswer(answer, config, type = "multi_choice")
      BY <2>7 DEF ValidateAnswer, TextTypes, ChoiceTypes
    <3>7. CASE type = "single_choice"
      <4>1. ChoiceAnswer(answer, config, FALSE) # "crash"
        BY <2>2, <3>5, <3>7, ChoicesAnswered
      <4> QED
        BY <3>6, <3>7, <4>1
    <3>8. CASE type = "multi_choice"
      <4>1. ChoiceAnswer(answer, config, TRUE) # "crash"
        BY <2>2, <3>5, <3>8, ChoicesAnswered
      <4> QED
        BY <3>6, <3>8, <4>1
    <3> QED
      BY <2>7, <3>7, <3>8 DEF ChoiceTypes
  <2> QED
    BY <2>1, <2>4, <2>5, <2>6, <2>7 DEF TypeNames
<1>2. AcceptedConfigsUsable /\ [Next]_<<question, answer>> => AcceptedConfigsUsable'
  BY DEF AcceptedConfigsUsable, OnField, OnRule, Usable, Next
<1> QED
  BY <1>1, <1>2, PTL DEF Spec

================================================================================
