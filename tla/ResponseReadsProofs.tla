-------------------------- MODULE ResponseReadsProofs --------------------------
(***************************************************************************)
(* What the reports of ResponseReads are worth, for any number of readers, *)
(* respondents, responses and keys, while any number of workers changes    *)
(* the responses.                                                          *)
(***************************************************************************)
EXTENDS ResponseReads, ResponseLifecycleProofs

USE DEF At

--------------------------------------------------------------------------------
(* The reports change nothing.                                               *)

\* A step of ReadsNext is one of the respondents, which the report does not
\* notice, or one of the report, which changes no row.
LEMMA ReadsSteps ==
  ASSUME [ReadsNext]_readVars
  PROVE  \/ [Next]_vars /\ UNCHANGED report
         \/ Read /\ UNCHANGED vars
<1>1. ASSUME NEW w \in Workers, Respond(w) PROVE Next /\ UNCHANGED report
  BY <1>1 DEF Respond, Next
<1>2. ASSUME Read PROVE UNCHANGED vars
  BY <1>2 DEF Read, CountFirst, CountSecond, ListCount, ListRows, ExportFields, ExportList,
              ExportAnswers, Histogram, RetrieveLoad, RetrieveAnswers, ReportEnds,
              Start, Continue, rows, vars
<1> QED
  BY <1>1, <1>2 DEF ReadsNext, readVars, vars

\* The responses of a frozen survey with its reports behave as
\* ResponseLifecycle, so that what holds there holds here.
THEOREM ReadsRefineLifecycle == ReadsSpec => FrozenSpec
<1>1. ReadsInit => Init /\ frozen = TRUE
  BY DEF ReadsInit
<1>2. [ReadsNext]_readVars => [Next]_vars
  BY ReadsSteps
<1> QED
  BY <1>1, <1>2, PTL DEF ReadsSpec, FrozenSpec, Spec

--------------------------------------------------------------------------------
(* Types.                                                                    *)

\* The value shown of a cell is a value, a redacted one, or none.
LEMMA ShownType ==
  ASSUME TypeOK, NEW r \in ResponseIds, NEW keys \in SUBSET Keys, NEW role \in Role
  PROVE  AnswersShown(r, keys, role) \in [Keys -> Values \cup {NoCell, Redacted}]
<1> SUFFICES ASSUME NEW k \in Keys
             PROVE  RedactedValue(answers[r][k], role) \in Values \cup {NoCell, Redacted}
  BY DEF AnswersShown
<1>1. answers[r][k] \in Cell \cup {NoCell}
  BY DEF TypeOK
<1> QED
  BY <1>1 DEF RedactedValue, Cell

LEMMA NoReportType == NoReport \in Report
BY DEF NoReport, Report, Role, Shown, NoCells

ReportOK ==
  /\ report \in Report
  /\ report.pc \in {"retrieving", "retrieved"} => report.id \in ResponseIds /\ report.user \in Readers

LEMMA ReportStep ==
  ASSUME TypeOK, ReportOK, Read
  PROVE  ReportOK'
<1> USE NoReportType DEF ReportOK, Start, Continue
<1>1. CASE CountFirst \/ CountSecond
  <2> DEFINE drafts == {r \in ResponseIds : Draft(r)}
             submitted == {r \in ResponseIds : Submitted(r)}
  <2>1. Existing \in SUBSET ResponseIds /\ drafts \in SUBSET ResponseIds
          /\ submitted \in SUBSET ResponseIds
    BY DEF Existing
  <2>2. \/ report' = [NoReport EXCEPT !.pc = "counting", !.owed = Existing, !.first = drafts]
        \/ report' = [report EXCEPT !.pc = "counted", !.second = submitted]
    BY <1>1 DEF CountFirst, CountSecond
  <2> HIDE DEF drafts, submitted
  <2> QED
    BY <2>1, <2>2 DEF Report, NoReport
<1>2. CASE ListCount
  <2> PICK user \in Readers \cup {Nil} :
        report' = [NoReport EXCEPT !.pc = "listing", !.user = user, !.first = Listed(user)]
    BY <1>2 DEF ListCount
  <2>1. Listed(user) \in SUBSET ResponseIds
    BY DEF Listed
  <2> QED
    BY <2>1 DEF Report, NoReport
<1>3. CASE ListRows
  <2>1. Listed(report.user) \in SUBSET ResponseIds
    BY DEF Listed
  <2> QED
    BY <1>3, <2>1 DEF ListRows, Report
<1>4. CASE ExportFields \/ ExportList
  <2>1. CASE ExportFields
    <3> DEFINE keys == {k \in Keys : tree.fields[k] # NoField}
    <3>1. report' = [NoReport EXCEPT !.pc = "export_list", !.keys = keys] /\ keys \in SUBSET Keys
      BY <2>1 DEF ExportFields
    <3> HIDE DEF keys
    <3> QED
      BY <3>1 DEF Report, NoReport
  <2>2. CASE ExportList
    <3> DEFINE second == {r \in ResponseIds : Submitted(r)}
               owed == {r \in ResponseIds : Settled(r)}
    <3>1. /\ report' = [report EXCEPT !.pc = "export_answers", !.second = second, !.owed = owed]
          /\ second \in SUBSET ResponseIds /\ owed \in SUBSET ResponseIds
      BY <2>2 DEF ExportList
    <3> HIDE DEF second, owed
    <3> QED
      BY <3>1 DEF Report
  <2> QED
    BY <1>4, <2>1, <2>2
<1>5. CASE ExportAnswers
  <2> DEFINE shown == [r \in ResponseIds |->
                        IF r \in report.second THEN AnswersShown(r, report.keys, "viewer")
                                               ELSE NoCells]
  <2>1. shown \in Shown
    <3>1. report.keys \in SUBSET Keys /\ "viewer" \in Role
      BY DEF Report, Role
    <3> QED
      BY <3>1, ShownType DEF Shown, NoCells
  <2>2. report' = [report EXCEPT !.pc = "exported", !.shown = shown]
    BY <1>5 DEF ExportAnswers
  <2> HIDE DEF shown
  <2> QED
    BY <2>1, <2>2 DEF Report
<1>6. CASE Histogram
  <2> PICK key \in Keys :
        report' = [NoReport EXCEPT !.pc = "tallied",
          !.shown = [r \in ResponseIds |->
             [k \in Keys |-> IF k = key /\ Submitted(r) /\ answers[r][k] # NoCell
                                  /\ ~ answers[r][k].encrypted
                             THEN answers[r][k].value ELSE NoCell]]]
    BY <1>6 DEF Histogram
  <2> DEFINE shown == [r \in ResponseIds |->
             [k \in Keys |-> IF k = key /\ Submitted(r) /\ answers[r][k] # NoCell
                                  /\ ~ answers[r][k].encrypted
                             THEN answers[r][k].value ELSE NoCell]]
  <2>1. shown \in Shown
    BY DEF Shown, TypeOK, Cell
  <2>2. report' = [NoReport EXCEPT !.pc = "tallied", !.shown = shown]
    OBVIOUS
  <2> HIDE DEF shown
  <2> QED
    BY <2>1, <2>2 DEF Report, NoReport
<1>7. CASE RetrieveLoad
  <2> PICK user \in Readers, role \in Role, r \in ResponseIds :
        report' = [NoReport EXCEPT !.pc = "retrieving", !.user = user, !.role = role, !.id = r,
                              !.owed = {s \in {r} : responses[s].respondent = user}]
    BY <1>7 DEF RetrieveLoad
  <2> QED
    BY DEF Report, NoReport
<1>8. CASE RetrieveAnswers
  <2> DEFINE row == AnswersShown(report.id, Keys, report.role)
  <2>1. report.id \in ResponseIds /\ report.role \in Role
    BY <1>8 DEF RetrieveAnswers, Report
  <2>2. row \in [Keys -> Values \cup {NoCell, Redacted}]
    BY <2>1, ShownType
  <2>3. report' = [report EXCEPT !.pc = "retrieved", !.shown = [@ EXCEPT ![report.id] = row]]
    BY <1>8 DEF RetrieveAnswers
  <2> HIDE DEF row
  <2>4. [report.shown EXCEPT ![report.id] = row] \in Shown
    BY <2>2 DEF Report, Shown
  <2> QED
    BY <1>8, <2>1, <2>3, <2>4 DEF Report, RetrieveAnswers
<1>9. CASE ReportEnds
  BY <1>9 DEF ReportEnds, NoReport
<1> QED
  BY <1>1, <1>2, <1>3, <1>4, <1>5, <1>6, <1>7, <1>8, <1>9 DEF Read

\* Every reachable state of ResponseReads is well typed.
LEMMA ReadsTypeInvariant == ReadsSpec => []ReadsTypeOK
<1>1. ReadsInit => ReportOK
  BY NoReportType DEF ReadsInit, ReportOK, NoReport
<1>2. TypeOK /\ ReportOK /\ [ReadsNext]_readVars => ReportOK'
  BY ReadsSteps, ReportStep DEF ReportOK
<1>3. TypeOK /\ ReportOK => ReadsTypeOK
  BY DEF ReportOK, ReadsTypeOK
<1> QED
  BY <1>1, <1>2, <1>3, ReadsRefineLifecycle, TypeInvariant, PTL DEF ReadsSpec, FrozenSpec

--------------------------------------------------------------------------------
(* What a report has read.                                                   *)

\* What the properties below rest on.
ReadsBase ==
  TypeOK /\ ReportOK /\ InsertsFresh /\ frozen = TRUE /\ SensitiveAtRest

LEMMA ReadsInvariant == ReadsSpec => []ReadsBase
<1>1. ReadsInit => ReportOK /\ InsertsFresh /\ frozen = TRUE
  BY NoReportType DEF ReadsInit, ReportOK, NoReport, Init, InsertsFresh, Idle
<1>2. TypeOK /\ ReportOK /\ InsertsFresh /\ frozen = TRUE /\ [ReadsNext]_readVars =>
        ReportOK' /\ InsertsFresh' /\ (frozen = TRUE)'
  <2>1. ASSUME TypeOK, ReportOK, InsertsFresh, frozen = TRUE, [Next]_vars, UNCHANGED report
        PROVE  ReportOK' /\ InsertsFresh' /\ (frozen = TRUE)'
    BY <2>1, FreshStep, FrozenTree DEF ReportOK
  <2>2. ASSUME TypeOK, ReportOK, InsertsFresh, frozen = TRUE, Read, UNCHANGED vars
        PROVE  ReportOK' /\ InsertsFresh' /\ (frozen = TRUE)'
    BY <2>2, ReportStep DEF vars, InsertsFresh
  <2> QED
    BY <2>1, <2>2, ReadsSteps
<1> QED
  BY <1>1, <1>2, ReadsRefineLifecycle, TypeInvariant, SensitiveTheorem, PTL
  DEF ReadsSpec, FrozenSpec, ReadsBase

\* The action that leads to each step of a report.
LEMMA ReadSteps ==
  ASSUME ReportOK, Read
  PROVE  /\ report'.pc = "counting" => CountFirst
         /\ report'.pc = "counted" => CountSecond
         /\ report'.pc = "listing" => ListCount
         /\ report'.pc = "listed" => ListRows
         /\ report'.pc = "export_list" => ExportFields
         /\ report'.pc = "export_answers" => ExportList
         /\ report'.pc = "exported" => ExportAnswers
         /\ report'.pc = "tallied" => Histogram
         /\ report'.pc = "retrieving" => RetrieveLoad
         /\ report'.pc = "retrieved" => RetrieveAnswers
<1> USE DEF Start, Continue, ReportOK
<1>1. CountFirst => report'.pc = "counting"
  BY DEF CountFirst, NoReport
<1>2. CountSecond => report'.pc = "counted"
  BY DEF CountSecond, Report
<1>3. ListCount => report'.pc = "listing"
  BY DEF ListCount, NoReport
<1>4. ListRows => report'.pc = "listed"
  BY DEF ListRows, Report
<1>5. ExportFields => report'.pc = "export_list"
  BY DEF ExportFields, NoReport
<1>6. ExportList => report'.pc = "export_answers"
  BY DEF ExportList, Report
<1>7. ExportAnswers => report'.pc = "exported"
  BY DEF ExportAnswers, Report
<1>8. Histogram => report'.pc = "tallied"
  BY DEF Histogram, NoReport
<1>9. RetrieveLoad => report'.pc = "retrieving"
  BY DEF RetrieveLoad, NoReport
<1>10. RetrieveAnswers => report'.pc = "retrieved"
  BY DEF RetrieveAnswers, Report
<1>11. ReportEnds => report'.pc = "none"
  BY DEF ReportEnds, NoReport
<1> QED
  BY <1>1, <1>2, <1>3, <1>4, <1>5, <1>6, <1>7, <1>8, <1>9, <1>10, <1>11 DEF Read

--------------------------------------------------------------------------------
(* The counts and the lists.                                                 *)

CountInv ==
  /\ report.pc = "counting" =>
       \A r \in report.owed :
         responses[r] # NoRow /\ (Exists(r) => r \in report.first \/ Submitted(r))
  /\ report.pc = "counted" =>
       \A r \in report.owed :
         responses[r] # NoRow /\ (Exists(r) => r \in report.first \cup report.second)

\* A response that is there when the counting begins is counted unless it is
\* deleted meanwhile, for whoever is no draft any more is submitted by then.
THEOREM CountTheorem == ReadsSpec => []CountedAtLeastOnce
<1>1. ReadsInit => CountInv
  BY DEF ReadsInit, NoReport, CountInv
<1>2. ReadsBase /\ CountInv /\ [ReadsNext]_readVars => CountInv'
  <2>1. ASSUME ReadsBase, CountInv, [Next]_vars, UNCHANGED report PROVE CountInv'
    <3>1. \A r \in report.owed : RowMoves(r)
      BY <2>1, RowsMove DEF ReadsBase, ReportOK, Report
    <3> QED
      BY <2>1, <3>1 DEF CountInv, RowMoves
  <2>2. ASSUME ReadsBase, CountInv, Read, UNCHANGED vars PROVE CountInv'
    <3>1. CASE CountFirst
      <4>1. /\ report'.pc = "counting" /\ report'.owed = Existing
            /\ report'.first = {r \in ResponseIds : Draft(r)}
        BY <3>1 DEF CountFirst, Start, NoReport
      <4>2. \A r \in Existing : /\ r \in ResponseIds /\ responses[r] \in Row
                                /\ responses[r] # NoRow
        BY <2>2 DEF ReadsBase, TypeOK, Existing, Exists
      <4>3. \A r \in Existing : Draft(r) \/ Submitted(r)
        BY <4>2 DEF Existing, Draft, Submitted, Row
      <4> QED
        BY <2>2, <4>1, <4>2, <4>3 DEF CountInv, vars, Exists, Submitted
    <3>2. CASE CountSecond
      <4>1. /\ report'.pc = "counted" /\ report'.owed = report.owed
            /\ report'.first = report.first
            /\ report'.second = {r \in ResponseIds : Submitted(r)}
        BY <2>2, <3>2 DEF CountSecond, Continue, ReadsBase, ReportOK, Report
      <4>2. report.pc = "counting" /\ report.owed \subseteq ResponseIds
        BY <2>2, <3>2 DEF CountSecond, Continue, ReadsBase, ReportOK, Report
      <4> QED
        BY <2>2, <4>1, <4>2 DEF CountInv, vars, Exists, Submitted
    <3> QED
      BY <2>2, <3>1, <3>2, ReadSteps DEF CountInv, ReadsBase
  <2> QED
    BY <2>1, <2>2, ReadsSteps
<1>3. CountInv => CountedAtLeastOnce
  BY DEF CountInv, CountedAtLeastOnce
<1> QED
  BY <1>1, <1>2, <1>3, ReadsInvariant, PTL DEF ReadsSpec

ListInv ==
  /\ report.pc = "listing" =>
       \A r \in report.first :
         responses[r] # NoRow /\ (Exists(r) => r \in Listed(report.user))
  /\ report.pc = "listed" =>
       \A r \in report.first :
         responses[r] # NoRow /\ (Exists(r) => r \in report.second)

\* A response counted for a list is among its rows unless it is deleted between
\* the two queries: it can neither change hands nor become a draft again.
THEOREM ListTheorem == ReadsSpec => []ListComplete
<1>1. ReadsInit => ListInv
  BY DEF ReadsInit, NoReport, ListInv
<1>2. ReadsBase /\ ListInv /\ [ReadsNext]_readVars => ListInv'
  <2>1. ASSUME ReadsBase, ListInv, [Next]_vars, UNCHANGED report PROVE ListInv'
    <3>1. \A r \in report.first : r \in ResponseIds /\ RowMoves(r)
      BY <2>1, RowsMove DEF ReadsBase, ReportOK, Report
    <3> QED
      BY <2>1, <3>1 DEF ListInv, RowMoves, Listed
  <2>2. ASSUME ReadsBase, ListInv, Read, UNCHANGED vars PROVE ListInv'
    <3>0. \A user : Listed(user)' = Listed(user)
      BY <2>2 DEF vars, Listed, Submitted, Exists
    <3>1. CASE ListCount
      <4> PICK user \in Readers \cup {Nil} :
            report' = [NoReport EXCEPT !.pc = "listing", !.user = user, !.first = Listed(user)]
        BY <3>1 DEF ListCount, Start
      <4>1. /\ report'.pc = "listing" /\ report'.user = user /\ report'.first = Listed(user)
        BY DEF NoReport
      <4>2. \A r \in Listed(user) : responses[r] # NoRow
        BY DEF Listed, Submitted, Exists
      <4> QED
        BY <2>2, <3>0, <4>1, <4>2 DEF ListInv, vars
    <3>2. CASE ListRows
      <4>1. /\ report'.pc = "listed" /\ report'.first = report.first
            /\ report'.second = Listed(report.user)
        BY <2>2, <3>2 DEF ListRows, Continue, ReadsBase, ReportOK, Report
      <4> QED
        BY <2>2, <3>2, <4>1 DEF ListInv, vars, Exists, ListRows, Continue
    <3> QED
      BY <2>2, <3>1, <3>2, ReadSteps DEF ListInv, ReadsBase
  <2> QED
    BY <2>1, <2>2, ReadsSteps
<1>3. ListInv => ListComplete
  BY DEF ListInv, ListComplete
<1> QED
  BY <1>1, <1>2, <1>3, ReadsInvariant, PTL DEF ReadsSpec

--------------------------------------------------------------------------------
(* The export.                                                               *)

ExportInv ==
  /\ report.pc \in {"export_list", "export_answers", "exported"} =>
       report.keys = {k \in Keys : tree.fields[k] # NoField}
  /\ report.pc \in {"export_answers", "exported"} => \A r \in report.owed : Settled(r)
  /\ report.pc = "export_answers" => report.owed \subseteq report.second
  /\ ExportFaithful

LEMMA ExportRowStep ==
  ASSUME ReadsBase, ExportInv, [Next]_vars, UNCHANGED report
  PROVE  ExportInv'
<1>1. \A r \in report.owed : r \in ResponseIds
  BY DEF ReadsBase, ReportOK, Report
<1>2. report.pc \in {"export_answers", "exported"} =>
        \A r \in report.owed : answers'[r] = answers[r] /\ Settled(r)'
  BY <1>1, SettledStep DEF ReadsBase, ExportInv
<1>3. tree' = tree
  BY FrozenTree DEF ReadsBase
<1>4. ExportFaithful'
  <2> SUFFICES ASSUME report.pc = "exported", NEW r \in report.owed, NEW k \in Keys,
                      tree.fields[k] # NoField
               PROVE  report.shown[r][k] = RedactedValue(answers'[r][k], "viewer")
    BY <1>3 DEF ExportFaithful, RedactedValue
  <2>1. report.shown[r][k] = RedactedValue(answers[r][k], "viewer")
    BY DEF ExportInv, ExportFaithful
  <2> QED
    BY <1>2, <2>1
<1> QED
  BY <1>2, <1>3, <1>4 DEF ExportInv

LEMMA ExportReadStep ==
  ASSUME ReadsBase, ExportInv, Read, UNCHANGED vars
  PROVE  ExportInv'
<1> report \in Report
  BY DEF ReadsBase, ReportOK
<1> USE DEF Start, Continue
<1>s. \A r \in ResponseIds : Settled(r) => Settled(r)'
  BY DEF vars, Settled, Submitted, Exists
<1>1. CASE ExportFields
  <2> DEFINE keys == {k \in Keys : tree.fields[k] # NoField}
  <2>1. report' = [NoReport EXCEPT !.pc = "export_list", !.keys = keys]
    BY <1>1 DEF ExportFields
  <2>2. report'.pc = "export_list" /\ report'.keys = keys
    BY <2>1 DEF NoReport
  <2> QED
    BY <2>2 DEF ExportInv, ExportFaithful, vars
<1>2. CASE ExportList
  <2>1. report' = [report EXCEPT !.pc = "export_answers",
                                 !.second = {r \in ResponseIds : Submitted(r)},
                                 !.owed = {r \in ResponseIds : Settled(r)}]
    BY <1>2 DEF ExportList
  <2>2. /\ report'.pc = "export_answers" /\ report'.keys = report.keys
        /\ report'.second = {r \in ResponseIds : Submitted(r)}
        /\ report'.owed = {r \in ResponseIds : Settled(r)}
    BY <2>1 DEF Report
  <2>3. report.pc = "export_list"
    BY <1>2 DEF ExportList
  <2>4. \A r \in report'.owed : Settled(r)' /\ r \in report'.second
    BY <1>s, <2>2 DEF Settled
  <2> QED
    BY <2>2, <2>3, <2>4 DEF ExportInv, ExportFaithful, vars
<1>3. CASE ExportAnswers
  <2> DEFINE shown == [r \in ResponseIds |->
                        IF r \in report.second THEN AnswersShown(r, report.keys, "viewer")
                                               ELSE NoCells]
  <2>1. report' = [report EXCEPT !.pc = "exported", !.shown = shown]
    BY <1>3 DEF ExportAnswers
  <2>2. /\ report'.pc = "exported" /\ report'.keys = report.keys
        /\ report'.owed = report.owed /\ report'.shown = shown
    BY <2>1 DEF Report
  <2>3. report.pc = "export_answers" /\ report.owed \subseteq ResponseIds
    BY <1>3 DEF ExportAnswers, Report
  <2>4. ASSUME NEW r \in report.owed, NEW k \in Keys, tree.fields[k] # NoField
        PROVE  shown[r][k] = RedactedValue(answers[r][k], "viewer")
    <3>1. shown[r] = AnswersShown(r, report.keys, "viewer") /\ k \in report.keys
      BY <2>3, <2>4 DEF ExportInv
    <3> QED
      BY <3>1 DEF AnswersShown
  <2> HIDE DEF shown
  <2>5. ExportFaithful'
    BY <2>2, <2>4 DEF ExportFaithful, vars, RedactedValue
  <2> QED
    BY <1>s, <2>2, <2>3, <2>5 DEF ExportInv, vars
<1> QED
  BY <1>1, <1>2, <1>3, ReadSteps DEF ReadsBase, ExportInv, ExportFaithful

\* A response that was settled when it was listed is exported with all of its
\* answers, as they stay: neither it nor the fields change any more.
THEOREM ExportTheorem == ReadsSpec => []ExportFaithful
<1>1. ReadsInit => ExportInv
  BY DEF ReadsInit, NoReport, ExportInv, ExportFaithful
<1>2. ReadsBase /\ ExportInv /\ [ReadsNext]_readVars => ExportInv'
  BY ExportRowStep, ExportReadStep, ReadsSteps
<1>3. ExportInv => ExportFaithful
  BY DEF ExportInv
<1> QED
  BY <1>1, <1>2, <1>3, ReadsInvariant, PTL DEF ReadsSpec

--------------------------------------------------------------------------------
(* What readers get to see.                                                  *)

\* Nothing sensitive is in the clear, but for an admin.
Masked ==
  \A r \in ResponseIds, k \in Keys :
    IsSensitive(tree.fields, k) /\ report.shown[r][k] \notin {NoCell, Redacted} =>
      report.pc = "retrieved" /\ report.role = "admin"

ShareInv ==
  /\ report.pc \in {"retrieving", "retrieved"} /\ report.owed = {} =>
       responses[report.id] = Gone \/ Submitted(report.id)
  /\ report.pc = "retrieving" => report.shown = NoReport.shown
  /\ report.pc \in {"exported", "tallied", "retrieved"} => Masked

LEMMA CellMasked ==
  ASSUME SensitiveAtRest, NEW r \in ResponseIds, NEW k \in Keys,
         IsSensitive(tree.fields, k), NEW role \in Role, role # "admin"
  PROVE  RedactedValue(answers[r][k], role) \in {NoCell, Redacted}
BY DEF SensitiveAtRest, RedactedValue

LEMMA ShareRowStep ==
  ASSUME ReadsBase, ShareInv, [Next]_vars, UNCHANGED report
  PROVE  ShareInv'
<1>1. tree' = tree
  BY FrozenTree DEF ReadsBase
<1>2. Masked => Masked'
  BY <1>1 DEF Masked, IsSensitive
<1>3. ASSUME report.pc \in {"retrieving", "retrieved"}, report.owed = {}
      PROVE  responses'[report.id] = Gone \/ Submitted(report.id)'
  <2>1. report.id \in ResponseIds /\ RowMoves(report.id)
    BY <1>3, RowsMove DEF ReadsBase, ReportOK
  <2>2. responses[report.id] # NoRow
    BY <1>3, RowAssumption DEF ShareInv, Submitted, Exists
  <2> QED
    BY <1>3, <2>1, <2>2 DEF ShareInv, RowMoves, Exists
<1> QED
  BY <1>2, <1>3 DEF ShareInv, NoReport

LEMMA ShareReadStep ==
  ASSUME ReadsBase, ShareInv, Read, UNCHANGED vars
  PROVE  ShareInv'
<1> report \in Report /\ ReportOK
  BY DEF ReadsBase, ReportOK
<1> USE DEF Start, Continue
<1>r. \A r \in ResponseIds : (responses[r] = Gone \/ Submitted(r)) =>
                             (responses'[r] = Gone \/ Submitted(r)')
  BY DEF vars, Submitted, Exists
<1>1. CASE ExportAnswers
  <2> DEFINE shown == [r \in ResponseIds |->
                        IF r \in report.second THEN AnswersShown(r, report.keys, "viewer")
                                               ELSE NoCells]
  <2>1. report' = [report EXCEPT !.pc = "exported", !.shown = shown]
    BY <1>1 DEF ExportAnswers
  <2>2. report'.pc = "exported" /\ report'.shown = shown
    BY <2>1 DEF Report
  <2>3. ASSUME NEW r \in ResponseIds, NEW k \in Keys, IsSensitive(tree.fields, k)
        PROVE  shown[r][k] \in {NoCell, Redacted}
    <3>1. RedactedValue(answers[r][k], "viewer") \in {NoCell, Redacted}
      BY <2>3, CellMasked DEF ReadsBase, Role
    <3> QED
      BY <3>1 DEF AnswersShown, NoCells
  <2> HIDE DEF shown
  <2>4. Masked'
    BY <2>2, <2>3 DEF Masked, vars, IsSensitive
  <2> QED
    BY <2>2, <2>4 DEF ShareInv
<1>2. CASE Histogram
  <2> PICK key \in Keys :
        report' = [NoReport EXCEPT !.pc = "tallied",
          !.shown = [r \in ResponseIds |->
             [k \in Keys |-> IF k = key /\ Submitted(r) /\ answers[r][k] # NoCell
                                  /\ ~ answers[r][k].encrypted
                             THEN answers[r][k].value ELSE NoCell]]]
    BY <1>2 DEF Histogram
  <2> DEFINE shown == [r \in ResponseIds |->
             [k \in Keys |-> IF k = key /\ Submitted(r) /\ answers[r][k] # NoCell
                                  /\ ~ answers[r][k].encrypted
                             THEN answers[r][k].value ELSE NoCell]]
  <2>2. report'.pc = "tallied" /\ report'.shown = shown
    BY DEF NoReport
  <2>3. ASSUME NEW r \in ResponseIds, NEW k \in Keys, IsSensitive(tree.fields, k)
        PROVE  shown[r][k] \in {NoCell, Redacted}
    BY <2>3 DEF ReadsBase, SensitiveAtRest
  <2> HIDE DEF shown
  <2>4. Masked'
    BY <2>2, <2>3 DEF Masked, vars, IsSensitive
  <2> QED
    BY <2>2, <2>4 DEF ShareInv
<1>3. CASE RetrieveLoad
  <2> PICK user \in Readers, role \in Role, r \in ResponseIds :
        /\ MayRead(user, role, r)
        /\ report' = [NoReport EXCEPT !.pc = "retrieving", !.user = user, !.role = role, !.id = r,
                              !.owed = {s \in {r} : responses[s].respondent = user}]
    BY <1>3 DEF RetrieveLoad
  <2>1. /\ report'.pc = "retrieving" /\ report'.id = r /\ report'.shown = NoReport.shown
        /\ report'.owed = {s \in {r} : responses[s].respondent = user}
    BY DEF NoReport
  <2>2. report'.owed = {} => Submitted(r)
    BY <2>1 DEF MayRead
  <2> QED
    BY <1>r, <2>1, <2>2 DEF ShareInv, NoReport
<1>4. CASE RetrieveAnswers
  <2> DEFINE row == AnswersShown(report.id, Keys, report.role)
  <2>1. /\ report.pc = "retrieving" /\ report.id \in ResponseIds /\ report.role \in Role
        /\ report.shown = NoReport.shown
    BY <1>4 DEF RetrieveAnswers, Report, ReportOK, ShareInv
  <2>2. report' = [report EXCEPT !.pc = "retrieved", !.shown = [@ EXCEPT ![report.id] = row]]
    BY <1>4 DEF RetrieveAnswers
  <2>3. ASSUME NEW k \in Keys, IsSensitive(tree.fields, k), report.role # "admin"
        PROVE  row[k] \in {NoCell, Redacted}
    <3>1. RedactedValue(answers[report.id][k], report.role) \in {NoCell, Redacted}
      BY <2>1, <2>3, CellMasked DEF ReadsBase
    <3> QED
      BY <3>1 DEF AnswersShown
  <2> HIDE DEF row
  <2>4. /\ report'.pc = "retrieved" /\ report'.id = report.id /\ report'.role = report.role
        /\ report'.owed = report.owed
        /\ report'.shown = [report.shown EXCEPT ![report.id] = row]
    BY <2>2 DEF Report
  <2>5. ASSUME NEW r \in ResponseIds, NEW k \in Keys, IsSensitive(tree.fields, k),
               report.role # "admin"
        PROVE  report'.shown[r][k] \in {NoCell, Redacted}
    <3>1. report.shown[r] = NoCells
      BY <2>1 DEF NoReport
    <3>2. report.shown \in [ResponseIds -> [Keys -> Values \cup {NoCell, Redacted}]]
      BY DEF Report, Shown
    <3> QED
      BY <2>3, <2>4, <2>5, <3>1, <3>2 DEF NoCells
  <2>6. Masked'
    BY <2>4, <2>5 DEF Masked, vars, IsSensitive
  <2> QED
    BY <1>r, <2>1, <2>4, <2>6 DEF ShareInv
<1> QED
  BY <1>1, <1>2, <1>3, <1>4, ReadSteps DEF ReadsBase, ShareInv

\* A reader gets the answers of another only once they are submitted, and a
\* sensitive one in the clear only as an admin, whatever changes in between.
THEOREM ShareTheorem == ReadsSpec => []ReadersSeeTheirShare
<1>1. ReadsInit => ShareInv
  BY DEF ReadsInit, NoReport, ShareInv
<1>2. ReadsBase /\ ShareInv /\ [ReadsNext]_readVars => ShareInv'
  BY ShareRowStep, ShareReadStep, ReadsSteps
<1>3. ShareInv => ReadersSeeTheirShare
  BY DEF ShareInv, Masked, ReadersSeeTheirShare
<1> QED
  BY <1>1, <1>2, <1>3, ReadsInvariant, PTL DEF ReadsSpec

================================================================================
