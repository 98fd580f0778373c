---------------------------- MODULE MCSurveyReads ----------------------------
(***************************************************************************)
(* A small instance of SurveyReads: bodies without fields, or with one.    *)
(***************************************************************************)
EXTENDS SurveyReads

MCKeys == {"consent"}
MCBodies == {<<>>, <<"consent">>}

================================================================================
