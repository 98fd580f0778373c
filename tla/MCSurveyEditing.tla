---------------------------- MODULE MCSurveyEditing ----------------------------
(***************************************************************************)
(* Small instances of SurveyEditing: one or two keys, and bodies that hold  *)
(* none, some, or one of them twice.                                       *)
(***************************************************************************)
EXTENDS SurveyEditing, TLC

MCKeys == {"consent", "detail"}
MCBodies == {<<>>, <<"consent">>, <<"detail", "consent">>, <<"consent", "consent">>}
MCOneKeyBodies == {<<>>, <<"consent">>, <<"consent", "consent">>}

Symmetry == Permutations(Workers) \cup Permutations(SurveyIds) \cup Permutations(TreeIds)

================================================================================
