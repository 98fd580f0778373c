------------------------------- MODULE FieldRules ------------------------------
(***************************************************************************)
(* The logic engine and the field types, asked about one rule or one field *)
(* at a time: a state is one input, and nothing moves.                     *)
(***************************************************************************)
EXTENDS VisibilityLogic, FieldTypes

CONSTANTS
  Depth,            \* how deep a rule of RuleTrees is nested
  AnswerDicts,      \* the answers to evaluate rules on
  FieldQuestions,   \* types and configs of fields
  Answers           \* the answers to fields

\* A JSON document is finite, its lists are indexed by numbers, and its numbers
\* are ordered: there is no NaN in it.
ASSUME FieldRulesAssumption ==
  /\ Depth \in [RuleTrees -> Nat]
  /\ \A rule \in RuleTrees : \A i \in DOMAIN rule.children : Depth[rule.children[i]] < Depth[rule]
  /\ \A rule \in RuleTrees : rule.value.n \in Int
  /\ \A answers \in AnswerDicts : \A key \in DOMAIN answers : answers[key].n \in Int
  /\ \A field \in FieldQuestions :
        /\ DOMAIN field = {"type", "config"} /\ field.type \in TypeNames
        /\ Has(field.config, "choices") => DOMAIN field.config["choices"].items \subseteq Nat
  /\ \A value \in Answers : DOMAIN value.items \subseteq Nat

VARIABLES
  question,   \* a rule, or the type and config of a field
  answer      \* the answers to evaluate the rule on, or the answer to the field

Init ==
  \/ question \in RuleTrees /\ answer \in AnswerDicts
  \/ question \in FieldQuestions /\ answer \in Answers

Next == UNCHANGED <<question, answer>>

Spec == Init /\ [][Next]_<<question, answer>>

OnRule == "node" \in DOMAIN question

OnField == ~ OnRule /\ question.config # ListConfig

Value(rule) == EvaluateRule(rule, answer)

\* The rules a rule is made of, itself included.
Parts(rule) ==
  LET parts[r \in RuleTrees] == {r} \cup UNION {parts[r.children[i]] : i \in DOMAIN r.children}
  IN  parts[rule]

Fits(value) == ValidateAnswer(question.type, value, question.config) = "ok"

Usable == ValidateConfig(question.type, question.config) = "ok"

--------------------------------------------------------------------------------
(* Properties.                                                               *)

\* Whatever the children that raise and the order they come in, `all` is true
\* only if every child is, false only if some child is, and the other way round
\* for `any`; a combiner raises only if a child does.  With no child at all,
\* `all` shows the field and `any` hides it.
CombinersAreBoolean ==
  OnRule /\ question.node \in {"all", "any"} =>
    LET values == {Value(question.children[i]) : i \in DOMAIN question.children}
        neutral == Verdict(question.node = "all")
        result == Value(question)
    IN  IF result = neutral THEN values \subseteq {neutral} ELSE result \in values

\* The ops come in pairs of opposites, on a missing answer, on null and on
\* values of the wrong kind too: one is true exactly when the other is false,
\* and they raise together.  The ordering ops do so once there is an answer; on
\* a missing one all four are false.
NegatedOps ==
  OnRule /\ question.node = "leaf" =>
    LET on(op) == LeafValue(Leaf(question.field, op, question.value), answer)
    IN  /\ on("neq") = Negation(on("eq"))
        /\ on("not_in") = Negation(on("in"))
        /\ on("is_not_set") = Negation(on("is_set"))
        /\ IF question.field \in DOMAIN answer
           THEN on("lte") = Negation(on("gt")) /\ on("gte") = Negation(on("lt"))
           ELSE {on(op) : op \in OrderOps} = {"false"}

\* What the serializer's check of a rule is worth: a rule of which it accepts
\* every part raises, on any answers whatsoever, only for an ordering op between
\* values that have no order.
AcceptedRaiseOnlyOnOrder ==
  OnRule /\ Value(question) = "error" /\ (\A part \in Parts(question) : AcceptedRule(part)) =>
    \E part \in Parts(question) :
      /\ part.op \in OrderOps
      /\ part.field \in DOMAIN answer
      /\ ~ Comparable(answer[part.field], part.value)

\* An object that validate_config accepts never makes validate_answer fail
\* otherwise than with a ValidationError, unless an object is sent as the value of
\* a choice, or a list or an object as one of its values.
AcceptedConfigsUsable ==
  OnField /\ Usable
    /\ (question.type = "single_choice" => IsList(answer) \/ ~ Unhashable(answer))
    /\ (question.type = "multi_choice" =>
          \A i \in DOMAIN answer.items : ~ Unhashable(answer.items[i])) =>
      ValidateAnswer(question.type, answer, question.config) # "crash"

\* Marking a field as sensitive changes where its answers are stored, not which
\* answers it takes: what the field accepts when it is sent, it accepts when
\* submit_response reads it back.
SensitiveRoundTrip ==
  OnField /\ Usable /\ Fits(answer) =>
    Fits(ReadBack(answer, Has(question.config, "sensitive") /\ question.config["sensitive"] = Bool(TRUE)))

================================================================================
