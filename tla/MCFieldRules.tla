------------------------------ MODULE MCFieldRules -----------------------------
(***************************************************************************)
(* Small sets of rules, fields and answers for FieldRules.                 *)
(***************************************************************************)
EXTENDS FieldRules

--------------------------------------------------------------------------------
(* Rules: leaves about two fields, every combination of two of a few         *)
(* children, their negations, and one more level over these.                 *)

Targets == {Null, EmptyText, Bool(TRUE), Whole(1), Whole(2), Date(1), Word(2),
            List(<<Whole(1), Word(2)>>)}

Leaves == {Leaf("a", op, target) : op \in Ops \cup {"unknown"}, target \in Targets}

Children == {NoRule, Malformed, Leaf("a", "is_set", Null), Leaf("a", "neq", Whole(1)),
             Leaf("b", "gt", Whole(1)), Leaf("b", "in", Null)}

Combined == {Rule(node, children) : node \in {"all", "any"},
                                      children \in UNION {[1 .. n -> Children] : n \in 0 .. 2}}
Negated == {Rule("not", <<rule>>) : rule \in Children \cup Combined}

MCRuleTrees == Leaves \cup Children \cup Combined \cup Negated

MCDepth == [rule \in MCRuleTrees |-> IF rule \in Combined THEN 1 ELSE IF rule \in Negated THEN 2 ELSE 0]

AnswerValues == {Null, EmptyText, Bool(TRUE), Whole(1), Float(2), Date(2), Word(2), Object,
                 List(<<Bool(TRUE)>>), List(<<>>)}

MCAnswerDicts ==
  {NoAnswers} \cup [{"a"} -> AnswerValues]
    \cup [{"a", "b"} -> {EmptyText, Whole(1), Float(2), Date(2)}]

--------------------------------------------------------------------------------
(* Fields: per type, the configs made of a few values of each of its keys,   *)
(* with and without the sensitive flag, and an answer of each kind.          *)

Options == [
  sensitive |-> {Bool(TRUE), Whole(1)},
  min_length |-> {Whole(2), Whole(-1), Bool(TRUE)},
  max_length |-> {Whole(1), Whole(255), Whole(256), Float(3)},
  regex |-> {Word(2), Unbalanced, Null},
  min |-> {Whole(1), Null},
  max |-> {Whole(0), Float(2)},
  integer_only |-> {Bool(TRUE), Whole(1)},
  choices |-> {Null, Object} \cup
              {List(entries) : entries \in UNION {[1 .. n -> {Object, Choice(Whole(1)),
                  Choice(Bool(TRUE)), Choice(Word(2)), Choice(List(<<>>))}] : n \in 0 .. 2}}]

KeysOf(type) == CASE type \in TextTypes -> {"min_length", "max_length", "regex"}
                  [] type = "number" -> {"min", "max", "integer_only"}
                  [] type \in ChoiceTypes -> {"choices"}
                  [] type \in {"date", "email"} -> {}

\* Functions on S that take a key of Options to one of its values.
ConfigsOn(S) == {config \in [S -> UNION {Options[k] : k \in S}] :
                    \A k \in S : config[k] \in Options[k]}

Configs(type) == {ListConfig} \cup UNION {ConfigsOn(S) : S \in SUBSET (KeysOf(type) \cup {"sensitive"})}

MCFieldQuestions ==
  UNION {{[type |-> type, config |-> config] : config \in Configs(type)} : type \in TypeNames}

MCAnswers == {Null, Bool(TRUE), Whole(1), Whole(3), Float(1), Word(0), Word(2), Word(255), Word(256),
              Date(1), Email(1), Object, List(<<>>), List(<<Whole(1), Word(2)>>),
              List(<<Object, Word(9)>>), List(<<Word(9), Object>>)}

================================================================================
