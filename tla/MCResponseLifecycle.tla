-------------------------- MODULE MCResponseLifecycle --------------------------
(***************************************************************************)
(* Small instances of ResponseLifecycle.                                   *)
(*                                                                         *)
(* The survey asks "consent", a required choice between "yes" and "no", and *)
(* "detail", a required and sensitive text shown when consent is "yes".    *)
(***************************************************************************)
EXTENDS ResponseLifecycle, TLC

MCKeys == {"consent", "detail"}
MCOneKey == {"detail"}
MCValues == {"yes", "no", "blank"}
MCTwoValues == {"yes", "no"}
MCOneValue == {"yes"}
MCBlank == {"blank"}
MCAsText == [v \in Values |-> v]

\* The two rules in use: none, and {"field": "consent", "op": "eq", "value": "yes"}.
MCRules == {"none", "consent_is_yes"}

MCEvaluate(rule, dict) ==
  IF rule = "none" \/ ("consent" \in DOMAIN dict /\ dict["consent"] = "yes")
  THEN "true" ELSE "false"

Consent == [required |-> TRUE, sensitive |-> FALSE, accepts |-> Values \cap {"yes", "no"},
            section_rule |-> "none", rule |-> "none"]
Detail == [required |-> TRUE, sensitive |-> TRUE, accepts |-> Values \cap {"yes"},
           section_rule |-> "consent_is_yes", rule |-> "none"]

TwoFields == [k \in MCKeys |-> IF k = "consent" THEN Consent ELSE Detail]
PlainDetail == [TwoFields EXCEPT !["detail"].sensitive = FALSE]
OnlyConsent == [TwoFields EXCEPT !["detail"] = NoField]

MCPublished == {TwoFields}
MCEitherPublished == {TwoFields, OnlyConsent}
MCEdited == {TwoFields, PlainDetail, OnlyConsent}
MCMadeSensitive == {TwoFields, PlainDetail}

\* One key and no rule, for the runs about time rather than validation.
MCOneField == {[k \in MCOneKey |-> [Detail EXCEPT !.section_rule = "none"]]}

Symmetry == Permutations(Workers) \cup Permutations(Users) \cup Permutations(ResponseIds)

================================================================================
