---------------------------- MODULE MCResponseReads ----------------------------
(***************************************************************************)
(* A small instance of ResponseReads: one question, sensitive or not.      *)
(***************************************************************************)
EXTENDS ResponseReads, TLC

MCKeys == {"detail"}
MCValues == {"yes", "no"}
MCAsText == [v \in Values |-> v]
MCRules == {"none"}
MCEvaluate(rule, dict) == "true"

Detail == [required |-> TRUE, sensitive |-> TRUE, accepts |-> Values,
           section_rule |-> "none", rule |-> "none"]
MCSchemas == {[k \in MCKeys |-> [Detail EXCEPT !.sensitive = s]] : s \in BOOLEAN}

Symmetry == Permutations(Workers) \cup Permutations(ResponseIds)

================================================================================
