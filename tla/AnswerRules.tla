------------------------------ MODULE AnswerRules ------------------------------
(***************************************************************************)
(* The pure part of apps/responses: which column an answer is stored in,   *)
(* what it reads back as, and what submit_response demands of a set of     *)
(* stored answers.                                                         *)
(*                                                                         *)
(* A value is a member of a small set: the rules only tell apart whether a *)
(* value is empty, whether a field accepts it, and what it becomes when it *)
(* is written as text.  A visible_when rule is a member of Rules, and      *)
(* Evaluate is the logic engine, which answers "true" or "false" or raises *)
(* a ValidationError ("error").                                            *)
(***************************************************************************)

CONSTANTS
  Keys,             \* field keys: those of the survey, and any others a client sends
  Values,           \* JSON values a client can send as an answer
  EmptyValues,      \* the values that count as unanswered: "" and the empty list
  AsText,           \* what a value becomes when coerced to a string
  Rules,            \* visible_when rules
  Evaluate(_, _),   \* apps.surveys.logic.evaluate(rule, answers)
  NoCell,           \* there is no Answer row for this response and key
  NoField           \* the survey has no field with this key

AnswerDicts == UNION {[S -> Values] : S \in SUBSET Keys}

ASSUME AnswerRulesAssumption ==
  /\ EmptyValues \subseteq Values
  /\ AsText \in [Values -> Values]
  /\ \A rule \in Rules, dict \in AnswerDicts :
        Evaluate(rule, dict) \in {"true", "false", "error"}

--------------------------------------------------------------------------------
(* Answer rows.  Exactly one of value_encrypted and value_json is set, so a  *)
(* row is the value it reads back as and which of the two columns holds it.  *)

Cell == [encrypted : BOOLEAN, value : Values]

\* Mutant of SetValue: every value goes to value_json.
SetValueInTheClear(value, sensitive) == [encrypted |-> FALSE, value |-> value]

\* Answer.set_value: a sensitive value is coerced to text before encryption,
\* and decrypt gives that text back.
SetValue(value, sensitive) ==
  [encrypted |-> sensitive, value |-> IF sensitive THEN AsText[value] ELSE value]

NoCells == [k \in Keys |-> NoCell]

StoredKeys(cells) == {k \in Keys : cells[k] # NoCell}

\* {a.field_key: a.value for a in answers_qs}
AnswerDict(cells) == [k \in StoredKeys(cells) |-> cells[k].value]

--------------------------------------------------------------------------------
(* The fields of a survey: what validation reads of each of them.            *)

FieldSpec == [required : BOOLEAN, sensitive : BOOLEAN, accepts : SUBSET Values,
              section_rule : Rules, rule : Rules]

Fields == [Keys -> FieldSpec \cup {NoField}]

\* sensitivity.get(key, False)
IsSensitive(fields, key) == fields[key] # NoField /\ fields[key].sensitive

\* The section's rule is evaluated first; the field's own rule only when the
\* section is visible, so an error in it can be hidden by the section.
FieldVisible(field, dict) ==
  LET section == Evaluate(field.section_rule, dict)
  IN  IF section = "true" THEN Evaluate(field.rule, dict) ELSE section

Answered(key, dict) == key \in DOMAIN dict /\ dict[key] \notin EmptyValues

FieldFails(field, key, dict) ==
  \/ FieldVisible(field, dict) = "error"
  \/ /\ FieldVisible(field, dict) = "true"
     /\ IF Answered(key, dict) THEN dict[key] \notin field.accepts
                               ELSE field.required

\* The keys of the error dictionary submit_response raises, {} when it accepts.
SubmitErrors(fields, cells) ==
  LET dict == AnswerDict(cells)
  IN  {k \in Keys : IF fields[k] = NoField THEN k \in DOMAIN dict
                                           ELSE FieldFails(fields[k], k, dict)}

================================================================================
