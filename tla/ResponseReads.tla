----------------------------- MODULE ResponseReads -----------------------------
(***************************************************************************)
(* What is read of the responses while ResponseLifecycle changes them: the *)
(* background tasks of tasks.py, the lists, and the detail view with its   *)
(* permission and its redaction.                                           *)
(*                                                                         *)
(* None of them runs in a transaction: each query sees the rows committed  *)
(* when it runs, so that a report can combine several states.  One report  *)
(* is under way at a time; it changes nothing, so that another would not   *)
(* disturb it.                                                             *)
(***************************************************************************)
EXTENDS ResponseLifecycle

CONSTANTS
  Readers,    \* users who read; respondents or not
  Redacted    \* "[encrypted]"

Role == {"viewer", "analyst", "admin"}

Shown == [ResponseIds -> [Keys -> Values \cup {NoCell, Redacted}]]

ASSUME ReadsAssumption == Redacted \notin Values \cup {NoCell} /\ Nil \notin Readers

VARIABLE report   \* what the report has read so far

readVars == <<tree, frozen, responses, answers, request, report>>
rows == <<tree, frozen, responses, answers, request>>

--------------------------------------------------------------------------------
Report == [pc : {"none", "counting", "counted", "listing", "listed",
                 "export_list", "export_answers", "exported", "tallied",
                 "retrieving", "retrieved"},
           user : Readers \cup {Nil},       \* whose list, or who retrieves
           role : Role,                     \* retrieve: of his membership
           id : ResponseIds \cup {Nil},     \* retrieve: the response
           keys : SUBSET Keys,              \* export: the survey's fields
           first : SUBSET ResponseIds,      \* the rows of the first query on responses
           second : SUBSET ResponseIds,     \* and of the second
           owed : SUBSET ResponseIds,       \* history: see the properties
           shown : Shown]                   \* the answers in the result

NoReport == [pc |-> "none", user |-> Nil, role |-> "viewer", id |-> Nil, keys |-> {},
             first |-> {}, second |-> {}, owed |-> {},
             shown |-> [r \in ResponseIds |-> NoCells]]

ReadsTypeOK ==
  /\ TypeOK
  /\ report \in Report
  /\ report.pc \in {"retrieving", "retrieved"} => report.id \in ResponseIds /\ report.user \in Readers

\* Of a frozen survey: no administrator changes its fields any more.
ReadsInit == Init /\ frozen = TRUE /\ report = NoReport

Start(q) == report.pc = "none" /\ report' = q /\ UNCHANGED rows
Continue(step, q) == report.pc = step /\ report' = q /\ UNCHANGED rows

\* Answer.redacted_value, and the cells of the export, as for no role.
RedactedValue(cell, role) ==
  CASE cell = NoCell -> NoCell
    [] cell # NoCell /\ cell.encrypted /\ role # "admin" -> Redacted
    [] OTHER -> cell.value

AnswersShown(r, keys, role) ==
  [k \in Keys |-> IF k \in keys THEN RedactedValue(answers[r][k], role) ELSE NoCell]

--------------------------------------------------------------------------------
(* aggregate_response_counts                                                 *)

Existing == {r \in ResponseIds : Exists(r)}

\* Mutant of CountFirst: the submitted responses are counted first.
CountFirstSubmitted ==
  Start([NoReport EXCEPT !.pc = "counting", !.owed = Existing,
                         !.first = {r \in ResponseIds : Submitted(r)}])

\* The drafts are counted, and then the submitted responses.
CountFirst ==
  Start([NoReport EXCEPT !.pc = "counting", !.owed = Existing,
                         !.first = {r \in ResponseIds : Draft(r)}])

CountSecond ==
  Continue("counting", [report EXCEPT !.pc = "counted",
                                      !.second = {r \in ResponseIds : Submitted(r)}])

--------------------------------------------------------------------------------
(* GET .../responses/ and GET /responses/mine/                               *)

\* Mutant of Listed: the list for analysts is that of the drafts.
ListedDrafts(user) ==
  {r \in ResponseIds : IF user = Nil THEN Draft(r)
                                     ELSE Exists(r) /\ responses[r].respondent = user}

\* The submitted responses of the survey; or all those of the caller.
Listed(user) ==
  {r \in ResponseIds : IF user = Nil THEN Submitted(r)
                                     ELSE Exists(r) /\ responses[r].respondent = user}

\* qs.count(), and then ser.data: two queries.
ListCount ==
  \E user \in Readers \cup {Nil} :
    Start([NoReport EXCEPT !.pc = "listing", !.user = user, !.first = Listed(user)])

ListRows ==
  Continue("listing", [report EXCEPT !.pc = "listed", !.second = Listed(report.user)])

--------------------------------------------------------------------------------
(* export_survey_csv and per_field_answer_histogram                          *)

\* Mutant of ExportFields: the columns are the keys answered so far.
ExportAnsweredFields ==
  Start([NoReport EXCEPT !.pc = "export_list",
                         !.keys = {k \in Keys : \E r \in ResponseIds : answers[r][k] # NoCell}])

ExportFields ==
  Start([NoReport EXCEPT !.pc = "export_list",
                         !.keys = {k \in Keys : tree.fields[k] # NoField}])

ExportList ==
  Continue("export_list",
    [report EXCEPT !.pc = "export_answers",
                   !.second = {r \in ResponseIds : Submitted(r)},
                   !.owed = {r \in ResponseIds : Settled(r)}])

\* The answers of the responses listed, as they are now.
ExportAnswers ==
  Continue("export_answers",
    [report EXCEPT !.pc = "exported",
                   !.shown = [r \in ResponseIds |->
                      IF r \in report.second THEN AnswersShown(r, report.keys, "viewer")
                                             ELSE NoCells]])

\* One query: the values in the clear of one field, over the submitted responses.
Histogram ==
  \E key \in Keys :
    Start([NoReport EXCEPT !.pc = "tallied",
      !.shown = [r \in ResponseIds |->
         [k \in Keys |-> IF k = key /\ Submitted(r) /\ answers[r][k] # NoCell
                              /\ ~ answers[r][k].encrypted
                         THEN answers[r][k].value ELSE NoCell]]])

--------------------------------------------------------------------------------
(* GET .../responses/{id}/                                                   *)

\* Mutant of MayRead: the status of the row is not looked at.
MayReadDrafts(user, role, r) ==
  Exists(r) /\ (responses[r].respondent = user \/ role \in {"analyst", "admin"})

\* IsOwnerOrAnalystReader, for a GET.
MayRead(user, role, r) ==
  \/ Exists(r) /\ responses[r].respondent = user
  \/ Submitted(r) /\ role \in {"analyst", "admin"}

RetrieveLoad ==
  \E user \in Readers, role \in Role, r \in ResponseIds :
    /\ MayRead(user, role, r)
    /\ Start([NoReport EXCEPT !.pc = "retrieving", !.user = user, !.role = role, !.id = r,
                              !.owed = {s \in {r} : responses[s].respondent = user}])

\* obj.answers.all(), with each value as the role may see it.
RetrieveAnswers ==
  Continue("retrieving",
    [report EXCEPT !.pc = "retrieved",
                   !.shown = [report.shown EXCEPT ![report.id] =
                                AnswersShown(report.id, Keys, report.role)]])

--------------------------------------------------------------------------------
\* The result is sent, or the worker lost; a task that was lost starts again.
ReportEnds ==
  /\ report.pc # "none"
  /\ report' = NoReport
  /\ UNCHANGED rows

Read ==
  \/ CountFirst \/ CountSecond \/ ListCount \/ ListRows
  \/ ExportFields \/ ExportList \/ ExportAnswers \/ Histogram
  \/ RetrieveLoad \/ RetrieveAnswers \/ ReportEnds

\* A step of a respondent's request.
Respond(w) ==
  /\ NewRequest(w) \/ Proceed(w) \/ TakeRow(w) \/ DeadlockAbort(w) \/ Crash(w)
  /\ UNCHANGED report

ReadsNext == (\E w \in Workers : Respond(w)) \/ Read

ReadsSpec == ReadsInit /\ [][ReadsNext]_readVars

--------------------------------------------------------------------------------
\* A response that exists when the counting begins is counted, as a draft or as
\* submitted, unless it is deleted meanwhile: the drafts are counted first, and
\* a draft only ever becomes submitted (tasks.py 83-84).  It may be counted twice.
CountedAtLeastOnce ==
  report.pc = "counted" =>
    \A r \in report.owed : Exists(r) => r \in report.first \cup report.second

\* A response in the count of a list is in its rows, unless it was deleted
\* between the two queries (views.py 70 and 185).
ListComplete ==
  report.pc = "listed" => \A r \in report.first : Exists(r) => r \in report.second

\* The export shows a response that no request held as a draft when it was
\* listed with its answers to all of the survey's questions, as they are for
\* good; any other may have changed, or gone, between the list and the answers
\* (tasks.py 41-51).
ExportFaithful ==
  report.pc = "exported" =>
    \A r \in report.owed, k \in Keys :
      tree.fields[k] # NoField => report.shown[r][k] = RedactedValue(answers[r][k], "viewer")

\* A reader gets the answers of another only once submitted, and a sensitive
\* answer in the clear only as an admin; a task gets none of those
\* (permissions.py 15-29, models.py 106-113, tasks.py 65 and 111).
ReadersSeeTheirShare ==
  /\ report.pc = "retrieved" /\ report.owed = {} => responses[report.id] = Gone \/ Submitted(report.id)
  /\ report.pc \in {"exported", "tallied", "retrieved"} =>
       \A r \in ResponseIds, k \in Keys :
         IsSensitive(tree.fields, k) /\ report.shown[r][k] \notin {NoCell, Redacted} =>
           report.pc = "retrieved" /\ report.role = "admin"

================================================================================
