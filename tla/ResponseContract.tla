--------------------------- MODULE ResponseContract ----------------------------
(***************************************************************************)
(* What the responses API promises a respondent, one operation at a time:  *)
(* start a draft, save answers into it, submit it once it is valid, or     *)
(* discard it; a submitted response is immutable.  It is the lifecycle of  *)
(* README.md ("Submit flow") without requests, staleness or transactions.  *)
(***************************************************************************)
EXTENDS AnswerRules

CONSTANTS Users, ResponseIds, Stamps, NoRow, Gone, NoTime

VARIABLES
  fields,      \* the fields of the published survey
  responses,
  answers

contractVars == <<fields, responses, answers>>

IsOpen(r) == responses[r] \notin {NoRow, Gone} /\ responses[r].status = "draft"

Init ==
  /\ fields \in Fields
  /\ responses = [r \in ResponseIds |-> NoRow]
  /\ answers = [r \in ResponseIds |-> NoCells]

Start(u, r) ==
  /\ responses[r] = NoRow
  /\ \A s \in ResponseIds : ~ (IsOpen(s) /\ responses[s].respondent = u)
  /\ responses' = [responses EXCEPT ![r] =
        [respondent |-> u, status |-> "draft", submitted_at |-> NoTime]]
  /\ UNCHANGED <<fields, answers>>

\* The keys of the body replace those stored, each in the column of its field.
Save(r, body) ==
  /\ IsOpen(r)
  /\ answers' = [answers EXCEPT ![r] = [k \in Keys |->
        IF k \in DOMAIN body THEN SetValue(body[k], IsSensitive(fields, k)) ELSE @[k]]]
  /\ UNCHANGED <<fields, responses>>

Submit(r, stamp) ==
  /\ IsOpen(r)
  /\ SubmitErrors(fields, answers[r]) = {}
  /\ responses' = [responses EXCEPT ![r] =
        [@ EXCEPT !.status = "submitted", !.submitted_at = stamp]]
  /\ UNCHANGED <<fields, answers>>

Discard(r) ==
  /\ IsOpen(r)
  /\ responses' = [responses EXCEPT ![r] = Gone]
  /\ answers' = [answers EXCEPT ![r] = NoCells]
  /\ UNCHANGED fields

Next ==
  \E r \in ResponseIds :
    \/ \E u \in Users : Start(u, r)
    \/ \E body \in AnswerDicts : Save(r, body)
    \/ \E stamp \in Stamps : Submit(r, stamp)
    \/ Discard(r)

Spec == Init /\ [][Next]_contractVars

================================================================================
