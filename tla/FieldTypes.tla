------------------------------- MODULE FieldTypes ------------------------------
(***************************************************************************)
(* apps.surveys.field_types: what a field type demands of the config of a  *)
(* field and of an answer to it, and apps.responses.models: what an answer *)
(* to a sensitive field reads back as.                                     *)
(*                                                                         *)
(* A config is a function from the keys it has to values, or ListConfig, a *)
(* list that has none of the keys: the serializer takes any JSON.  Each    *)
(* check ends "ok", "invalid" (a ValidationError) or "crash" (any other    *)
(* exception, which no caller catches).                                    *)
(***************************************************************************)
EXTENDS JsonValues

TextTypes == {"short_text", "long_text"}
ChoiceTypes == {"single_choice", "multi_choice"}
TypeNames == TextTypes \cup ChoiceTypes \cup {"number", "date", "email"}

ListConfig == [item |-> Null]

Has(config, key) == key \in DOMAIN config

Ensure(condition) == IF condition THEN "ok" ELSE "invalid"

HardMax(type) == IF type = "short_text" THEN 255 ELSE 10000

--------------------------------------------------------------------------------
(* validate_config.                                                          *)

SensitiveFlagCheck(config) ==
  Ensure(Has(config, "sensitive") => config["sensitive"].kind = "bool")

LengthCheck(config, hard_max) ==
  IF config = ListConfig THEN "crash"      \* config.get of a list
  ELSE Ensure(
    /\ \A key \in {"min_length", "max_length"} \cap DOMAIN config :
          IsInt(config[key]) /\ config[key].n >= 0
    /\ Has(config, "max_length") => config["max_length"].n <= hard_max
    /\ {"min_length", "max_length"} \subseteq DOMAIN config =>
          config["min_length"].n <= config["max_length"].n)

\* re.compile raises re.error, a ValidationError here, only for a string.
RegexCheck(config) ==
  IF ~ Has(config, "regex") THEN "ok"
  ELSE IF IsText(config["regex"]) THEN Ensure(config["regex"] # Unbalanced)
  ELSE "crash"

NumberCheck(config) ==
  Ensure(/\ \A key \in {"min", "max"} \cap DOMAIN config : IsNumber(config[key])
         /\ Has(config, "integer_only") => config["integer_only"].kind = "bool"
         /\ {"min", "max"} \subseteq DOMAIN config => config["min"].n <= config["max"].n)

\* Mutant of ChoiceCheck: an entry may be anything.
AnyChoice(choices, i) == "ok"

\* One entry of `choices`, given those before it.
ChoiceCheck(choices, i) ==
  LET value(j) == choices[j].items[1]
  IN  IF choices[i].kind # "choice" THEN "invalid"
      ELSE IF Unhashable(value(i)) THEN "crash"
      ELSE Ensure(\A j \in 1 .. i - 1 :
                    choices[j].kind = "choice" => ~ PyEq(value(i), value(j)))

ChoicesCheck(config) ==
  IF config = ListConfig THEN "crash"
  ELSE IF ~ Has(config, "choices") \/ ~ IsList(config["choices"]) THEN "invalid"
  ELSE LET choices == config["choices"].items
       IN  IF choices = <<>> THEN "invalid"
           ELSE FirstOther([i \in DOMAIN choices |-> ChoiceCheck(choices, i)], "ok")

ValidateConfig(type, config) ==
  FirstOther(
    <<SensitiveFlagCheck(config)>> \o
      CASE type \in TextTypes -> <<LengthCheck(config, HardMax(type)), RegexCheck(config)>>
        [] type = "number" -> <<NumberCheck(config)>>
        [] type \in ChoiceTypes -> <<ChoicesCheck(config)>>
        [] type \in {"date", "email"} -> <<>>,
    "ok")

--------------------------------------------------------------------------------
(* validate_answer, for a config that validate_config accepts.               *)

\* A pattern is taken as the literal text it is written as.
TextAnswer(value, config, hard_max) ==
  Ensure(/\ IsText(value)
         /\ TextLength(value) <= hard_max
         /\ Has(config, "max_length") => TextLength(value) <= config["max_length"].n
         /\ Has(config, "min_length") => TextLength(value) >= config["min_length"].n
         /\ Has(config, "regex") => value = config["regex"])

NumberAnswer(value, config) ==
  IF value.kind \notin {"int", "float"} THEN "invalid"
  ELSE IF config = ListConfig THEN "crash"
  ELSE Ensure(
    /\ (Has(config, "integer_only") /\ config["integer_only"] = Bool(TRUE)) => value.kind = "int"
    /\ Has(config, "min") => value.n >= config["min"].n
    /\ Has(config, "max") => value.n <= config["max"].n)

\* {c["value"] for c in config["choices"]} raises nothing.
ChoicesUsable(config) ==
  /\ Has(config, "choices")
  /\ IsList(config["choices"])
  /\ LET choices == config["choices"].items
     IN  \A i \in DOMAIN choices :
           choices[i].kind = "choice" /\ ~ Unhashable(choices[i].items[1])

\* v not in allowed
Chosen(value, config) ==
  IF Unhashable(value) THEN "crash"
  ELSE Ensure(LET choices == config["choices"].items
              IN  \E i \in DOMAIN choices : PyEq(value, choices[i].items[1]))

ChoiceAnswer(value, config, multi) ==
  IF ~ ChoicesUsable(config) THEN "crash"
  ELSE IF IsList(value) # multi THEN "invalid"
  ELSE LET values == IF multi THEN value.items ELSE <<value>>
       IN  FirstOther([i \in DOMAIN values |-> Chosen(values[i], config)], "ok")

ValidateAnswer(type, value, config) ==
  CASE type \in TextTypes -> TextAnswer(value, config, HardMax(type))
    [] type = "number" -> NumberAnswer(value, config)
    [] type \in {"date", "email"} -> Ensure(value.kind = type)
    [] type \in ChoiceTypes -> ChoiceAnswer(value, config, type = "multi_choice")

\* Answer.set_value and Answer.value: a sensitive value that is not a string is
\* written as JSON text, and that text is what decrypt gives back.
ReadBack(value, sensitive) ==
  IF sensitive /\ ~ IsText(value) THEN Dumped(value) ELSE value

================================================================================
