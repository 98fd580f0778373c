----------------------- MODULE ResponseLifecycleProofs -------------------------
(***************************************************************************)
(* What holds of ResponseLifecycle for every number of users, workers,     *)
(* responses, keys and values, and every tree of fields.                   *)
(***************************************************************************)
EXTENDS ResponseLifecycle, TLAPS

USE DEF At

--------------------------------------------------------------------------------
(* Types.                                                                    *)

LEMMA NoCellsType == NoCells \in [Keys -> Cell \cup {NoCell}]
BY DEF NoCells

\* A worker that has answered its request is idle.
LEMMA IdleType ==
  ASSUME NEW outcome \in Outcomes
  PROVE  Idle(outcome) \in Request
BY NoCellsType DEF Idle, Request, Registers, Outcomes, Steps, WriteSteps

LEMMA StartedType ==
  ASSUME NEW u \in Users, NEW r \in ResponseIds, NEW step \in Steps,
         step \notin WriteSteps \cup {"submit_answers", "submit_valid", "submit_invalid"}
  PROVE  Started(u, r, step) \in Request
BY NoCellsType DEF Started, Idle, Request, Registers, Steps, WriteSteps

LEMMA FinishType ==
  ASSUME TypeOK, NEW w \in Workers, NEW outcome \in Outcomes, Finish(w, outcome)
  PROVE  request' \in [Workers -> Request]
<1>1. Idle(outcome) \in Request
  BY IdleType
<1> QED
  BY <1>1 DEF Finish, TypeOK

LEMMA SetValueType ==
  ASSUME NEW value \in Values, NEW sensitive \in BOOLEAN
  PROVE  SetValue(value, sensitive) \in Cell
BY AnswerRulesAssumption DEF SetValue, Cell

\* What PatchOpen prepares to write is a cell for each key of the body.
LEMMA PayloadType ==
  ASSUME NEW body \in AnswerDicts, NEW fields \in Fields
  PROVE  [k \in Keys |-> IF k \in DOMAIN body
                         THEN SetValue(body[k], IsSensitive(fields, k))
                         ELSE NoCell] \in [Keys -> Cell \cup {NoCell}]
<1> SUFFICES ASSUME NEW k \in Keys, k \in DOMAIN body
             PROVE  SetValue(body[k], IsSensitive(fields, k)) \in Cell
  OBVIOUS
<1>1. body[k] \in Values
  BY DEF AnswerDicts
<1>2. IsSensitive(fields, k) \in BOOLEAN
  BY DEF IsSensitive, Fields, FieldSpec
<1> QED
  BY <1>1, <1>2, SetValueType

LEMMA BodyKeys ==
  ASSUME NEW body \in AnswerDicts
  PROVE  DOMAIN body \subseteq Keys
BY DEF AnswerDicts

\* A step that leaves w with a request of the right type keeps the types.
LEMMA StepType ==
  ASSUME TypeOK, NEW w \in Workers, NEW q \in Request,
         request' = [request EXCEPT ![w] = q],
         UNCHANGED <<tree, frozen, responses, answers>>
  PROVE  TypeOK'
BY DEF TypeOK

LEMMA FinishStepType ==
  ASSUME TypeOK, NEW w \in Workers, NEW outcome \in Outcomes, Finish(w, outcome),
         UNCHANGED <<tree, frozen, responses, answers>>
  PROVE  TypeOK'
BY IdleType, StepType DEF Finish

\* Each step of a PATCH leaves its worker with a request of the right type.
LEMMA PatchStepType ==
  ASSUME TypeOK, NEW w \in Workers,
         \/ PatchOpen(w) \/ PatchSelect(w) \/ PatchWrite(w) \/ PatchCommit(w)
  PROVE  TypeOK'
<1> DEFINE q == request[w]
<1>q. q \in Request
  BY DEF TypeOK
<1>1. CASE PatchOpen(w)
  <2> PICK body \in AnswerDicts :
        request' = [request EXCEPT ![w] =
          [@ EXCEPT !.payload = [k \in Keys |->
                       IF k \in DOMAIN body
                       THEN SetValue(body[k], IsSensitive(tree.fields, k))
                       ELSE NoCell],
                    !.todo = DOMAIN body,
                    !.pc = NextPatchStep(DOMAIN body)]]
    BY <1>1 DEF PatchOpen
  <2> DEFINE payload == [k \in Keys |-> IF k \in DOMAIN body
                                        THEN SetValue(body[k], IsSensitive(tree.fields, k))
                                        ELSE NoCell]
             next == NextPatchStep(DOMAIN body)
  <2>1. payload \in [Keys -> Cell \cup {NoCell}]
    BY PayloadType, LifecycleAssumption DEF TypeOK, Tree
  <2>2. DOMAIN body \in SUBSET Keys
    BY BodyKeys
  <2>3. next \in {"patch_commit", "patch_select"}
    BY DEF NextPatchStep
  <2> HIDE DEF payload, next
  <2>4. [q EXCEPT !.payload = payload, !.todo = DOMAIN body, !.pc = next] \in Request
    BY <1>q, <1>1, <2>1, <2>2, <2>3
    DEF Request, Registers, PatchOpen, Steps, WriteSteps
  <2> QED
    BY <1>1, <2>4, StepType DEF PatchOpen, payload, next
<1>2. CASE PatchSelect(w)
  <2> PICK k \in q.todo :
        request' = [request EXCEPT ![w] =
          [q EXCEPT !.cur = k, !.todo = q.todo \ {k},
                    !.pc = IF answers[q.id][k] = NoCell
                           THEN "patch_insert" ELSE "patch_update"]]
    BY <1>2 DEF PatchSelect
  <2> DEFINE next == IF answers[q.id][k] = NoCell
                     THEN "patch_insert" ELSE "patch_update"
  <2>1. next \in {"patch_insert", "patch_update"}
    OBVIOUS
  <2> HIDE DEF next
  <2>2. [q EXCEPT !.cur = k, !.todo = q.todo \ {k}, !.pc = next] \in Request
    BY <1>q, <1>2, <2>1 DEF Request, Registers, PatchSelect, Steps, WriteSteps
  <2> QED
    BY <1>2, <2>2, StepType DEF PatchSelect, next
<1>3. CASE PatchWrite(w)
  <2>1. CASE Finish(w, "failed")
    BY <1>3, <2>1, FinishStepType DEF PatchWrite, Outcomes
  <2>2. CASE request' = [request EXCEPT ![w] =
                [q EXCEPT !.done = q.done \cup {q.cur}, !.cur = Nil,
                          !.pc = NextPatchStep(q.todo)]]
    <3>1. NextPatchStep(q.todo) \in {"patch_commit", "patch_select"}
      BY DEF NextPatchStep
    <3>2. [q EXCEPT !.done = q.done \cup {q.cur}, !.cur = Nil,
                    !.pc = NextPatchStep(q.todo)] \in Request
      BY <1>q, <1>3, <3>1 DEF Request, Registers, PatchWrite, Steps, WriteSteps
    <3> QED
      BY <1>3, <2>2, <3>2, StepType DEF PatchWrite
  <2> QED
    BY <1>3, <2>1, <2>2 DEF PatchWrite
<1>4. CASE PatchCommit(w)
  <2>1. request' \in [Workers -> Request]
    BY <1>4, FinishType DEF PatchCommit, Outcomes
  <2>2. answers' \in [ResponseIds -> [Keys -> Cell \cup {NoCell}]]
    <3>1. q.payload \in [Keys -> Cell \cup {NoCell}] /\ q.id \in ResponseIds
      BY <1>4, <1>q DEF PatchCommit, Request, Registers, Steps
    <3>2. [k \in Keys |-> IF k \in q.done THEN q.payload[k] ELSE answers[q.id][k]]
            \in [Keys -> Cell \cup {NoCell}]
      BY <3>1 DEF TypeOK
    <3> QED
      BY <1>4, <3>1, <3>2 DEF PatchCommit, TypeOK
  <2> QED
    BY <1>4, <2>1, <2>2 DEF PatchCommit, TypeOK
<1> QED
  BY <1>1, <1>2, <1>3, <1>4

LEMMA DestroyNextType ==
  ASSUME TypeOK, NEW w \in Workers, At(w, "destroy_scan") \/ At(w, "destroy_take"),
         NEW rest \in SUBSET Keys, NEW gone \in SUBSET Keys, DestroyNext(w, rest, gone),
         UNCHANGED <<tree, frozen, responses, answers>>
  PROVE  TypeOK'
<1> DEFINE q == request[w]
<1>q. q \in Request
  BY DEF TypeOK
<1>1. CASE rest = {} /\ request' = [request EXCEPT ![w] =
           [@ EXCEPT !.pc = "destroy_commit", !.todo = {}, !.cur = Nil, !.done = gone]]
  <2>1. [q EXCEPT !.pc = "destroy_commit", !.todo = {}, !.cur = Nil, !.done = gone] \in Request
    BY <1>q DEF Request, Registers, Steps, WriteSteps
  <2> QED
    BY <1>1, <2>1, StepType
<1>2. ASSUME NEW k \in rest,
             request' = [request EXCEPT ![w] =
               [@ EXCEPT !.pc = "destroy_take", !.todo = rest \ {k}, !.cur = k, !.done = gone]]
      PROVE  TypeOK'
  <2>1. [q EXCEPT !.pc = "destroy_take", !.todo = rest \ {k}, !.cur = k, !.done = gone] \in Request
    BY <1>q DEF Request, Registers, Steps, WriteSteps
  <2> QED
    BY <1>2, <2>1, StepType
<1> QED
  BY <1>1, <1>2 DEF DestroyNext

LEMMA DestroyStepType ==
  ASSUME TypeOK, NEW w \in Workers,
         \/ DestroyScan(w) \/ DestroyTake(w) \/ DestroyCommit(w)
  PROVE  TypeOK'
<1> DEFINE q == request[w]
<1>q. q \in Request
  BY DEF TypeOK
<1>1. CASE DestroyScan(w)
  BY <1>1, DestroyNextType DEF DestroyScan, StoredKeys
<1>2. CASE DestroyTake(w)
  <2>1. q.todo \in SUBSET Keys /\ q.done \cup {q.cur} \in SUBSET Keys
    BY <1>q, <1>2 DEF Request, Registers, DestroyTake, WriteSteps
  <2> QED
    BY <1>2, <2>1, DestroyNextType DEF DestroyTake
<1>3. CASE DestroyCommit(w)
  <2>1. request' \in [Workers -> Request]
    BY <1>3, FinishType DEF DestroyCommit, Outcomes
  <2> QED
    BY <1>3, <2>1, NoCellsType DEF DestroyCommit, TypeOK
<1> QED
  BY <1>1, <1>2, <1>3

LEMMA SubmitStepType ==
  ASSUME TypeOK, NEW w \in Workers,
         \/ SubmitFields(w) \/ SubmitAnswers(w) \/ SubmitSections(w)
         \/ SubmitLock(w) \/ SubmitRefresh(w)
  PROVE  TypeOK'
<1> DEFINE q == request[w]
<1>q. q \in Request
  BY DEF TypeOK
<1>1. CASE SubmitFields(w)
  <2>1. [q EXCEPT !.pc = "submit_answers", !.seen = tree] \in Request
    BY <1>q, <1>1 DEF TypeOK, Request, Registers, SubmitFields, Steps, WriteSteps
  <2> QED
    BY <1>1, <2>1, StepType DEF SubmitFields
<1>2. CASE SubmitAnswers(w)
  <2> DEFINE next == IF SubmitErrors(q.seen.fields, answers[q.id]) = {}
                     THEN "submit_valid" ELSE "submit_invalid"
  <2>1. next \in {"submit_valid", "submit_invalid"}
    OBVIOUS
  <2> HIDE DEF next
  <2>2. [q EXCEPT !.pc = next] \in Request
    BY <1>q, <1>2, <2>1 DEF Request, Registers, SubmitAnswers, Steps, WriteSteps
  <2> QED
    BY <1>2, <2>2, StepType DEF SubmitAnswers, next
<1>3. CASE SubmitSections(w)
  <2>1. [q EXCEPT !.pc = "submit_lock", !.seen = Nil] \in Request
    BY <1>q, <1>3 DEF Request, Registers, SubmitSections, Steps, WriteSteps
  <2> QED
    BY <1>3, <2>1, StepType, FinishStepType DEF SubmitSections, Outcomes
<1>4. CASE SubmitLock(w)
  <2>1. CASE Exists(q.id)
    <3>1. q.id \in ResponseIds
      BY <1>q, <1>4 DEF Request, SubmitLock, Steps
    <3>2. [responses[q.id] EXCEPT !.status = "submitted", !.submitted_at = w] \in Row
      BY <2>1, <3>1 DEF Exists, TypeOK, Row
    <3>3. [q EXCEPT !.pc = "submit_refresh"] \in Request
      BY <1>q, <1>4 DEF Request, Registers, SubmitLock, Steps, WriteSteps
    <3> QED
      BY <1>4, <2>1, <3>2, <3>3 DEF SubmitLock, TypeOK
  <2>2. CASE ~ Exists(q.id)
    BY <1>4, <2>2, FinishStepType DEF SubmitLock, Outcomes
  <2> QED
    BY <2>1, <2>2
<1>5. CASE SubmitRefresh(w)
  BY <1>5, FinishStepType DEF SubmitRefresh, Outcomes
<1> QED
  BY <1>1, <1>2, <1>3, <1>4, <1>5

LEMMA CreateStepType ==
  ASSUME TypeOK, NEW w \in Workers, NewRequest(w) \/ CreateInsert(w)
  PROVE  TypeOK'
<1>1. CASE CreateInsert(w)
  <2>1. request[w] \in Request
    BY DEF TypeOK
  <2>2. request' \in [Workers -> Request]
    BY <1>1, FinishType DEF CreateInsert, Outcomes
  <2> QED
    BY <1>1, <2>1, <2>2 DEF CreateInsert, TypeOK, Request, Steps, Row
<1>2. CASE NewRequest(w)
  <2> PICK u \in Users :
        \/ CreateResume(w, u)
        \/ CreateStart(w, u)
        \/ \E r \in ResponseIds :
              \/ Refuse(w, u, r)
              \/ PatchLoad(w, u, r)
              \/ DestroyLoad(w, u, r)
              \/ SubmitLoad(w, u, r)
    BY <1>2 DEF NewRequest
  <2>1. CASE CreateResume(w, u) \/ \E r \in ResponseIds : Refuse(w, u, r)
    BY <2>1, FinishStepType DEF CreateResume, Refuse, Outcomes
  <2>2. CASE CreateStart(w, u)
    <3>1. \A r \in ResponseIds : Started(u, r, "create_insert") \in Request
      BY StartedType DEF Steps, WriteSteps
    <3> QED
      BY <2>2, <3>1, StepType DEF CreateStart
  <2>3. ASSUME NEW r \in ResponseIds,
               NEW next \in {"patch_open", "destroy_scan", "submit_fields"},
               Load(w, u, r, next)
        PROVE  TypeOK'
    <3>1. Started(u, r, next) \in Request
      BY StartedType DEF Steps, WriteSteps
    <3> QED
      BY <2>3, <3>1, StepType DEF Load
  <2> QED
    BY <2>1, <2>2, <2>3 DEF PatchLoad, DestroyLoad, SubmitLoad
<1> QED
  BY <1>1, <1>2

\* Every variable keeps its type, and every worker has the registers its next
\* step reads, in every run.
THEOREM TypeInvariant == Spec => []TypeOK
<1>1. Init => TypeOK
  <2> SUFFICES ASSUME Init PROVE TypeOK
    OBVIOUS
  <2>1. tree \in Tree
    BY LifecycleAssumption DEF Init, Tree
  <2>2. \A w \in Workers : request[w] \in Request
    BY IdleType DEF Init, Outcomes
  <2> QED
    BY <2>1, <2>2, NoCellsType DEF Init, TypeOK
<1>2. TypeOK /\ [Next]_vars => TypeOK'
  <2> SUFFICES ASSUME TypeOK, [Next]_vars PROVE TypeOK'
    OBVIOUS
  <2>1. CASE UNCHANGED vars
    BY <2>1 DEF TypeOK, vars
  <2>2. CASE EditSurvey
    BY <2>2, LifecycleAssumption DEF EditSurvey, TypeOK, Tree
  <2>3. CASE FreezeSurvey
    BY <2>3 DEF FreezeSurvey, TypeOK
  <2>4. ASSUME NEW w \in Workers, DeadlockAbort(w) \/ Crash(w)
        PROVE  TypeOK'
    BY <2>4, FinishStepType DEF DeadlockAbort, Crash, Outcomes
  <2>5. ASSUME NEW w \in Workers, NewRequest(w) \/ Proceed(w) \/ TakeRow(w)
        PROVE  TypeOK'
    BY <2>5, CreateStepType, PatchStepType, DestroyStepType, SubmitStepType
    DEF Proceed, TakeRow
  <2> QED
    BY <2>1, <2>2, <2>3, <2>4, <2>5 DEF Next
<1> QED
  BY <1>1, <1>2, PTL DEF Spec

--------------------------------------------------------------------------------
(* The rows.  Four steps write them.                                         *)

Writes(w) == CreateInsert(w) \/ PatchCommit(w) \/ DestroyCommit(w) \/ SubmitLock(w)

LEMMA OnlyWritesChangeRows ==
  ASSUME [Next]_vars
  PROVE  UNCHANGED <<responses, answers>> \/ \E w \in Workers : Writes(w)
<1> SUFFICES ASSUME NEW w \in Workers, NewRequest(w) \/ Proceed(w) \/ TakeRow(w),
                    ~ Writes(w)
             PROVE  UNCHANGED <<responses, answers>>
  BY DEF Next, vars, DeadlockAbort, Crash, EditSurvey, FreezeSurvey
<1>1. CASE NewRequest(w)
  BY <1>1 DEF NewRequest, CreateResume, CreateStart, Refuse, Load,
              PatchLoad, DestroyLoad, SubmitLoad
<1>2. CASE Proceed(w)
  BY <1>2 DEF Writes, Proceed, PatchOpen, PatchSelect, DestroyScan,
              SubmitFields, SubmitAnswers, SubmitSections, SubmitRefresh
<1>3. CASE TakeRow(w)
  BY <1>3 DEF TakeRow, PatchWrite, DestroyTake
<1> QED
  BY <1>1, <1>2, <1>3

LEMMA RequestOf ==
  ASSUME TypeOK, NEW w \in Workers, At(w, "create_insert") \/ At(w, "patch_commit")
                                    \/ At(w, "destroy_commit") \/ At(w, "submit_lock")
  PROVE  request[w].id \in ResponseIds /\ request[w].user \in Users
BY DEF TypeOK, Request, Steps

\* A respondent never has two drafts: the INSERT is refused when a draft of the
\* same respondent exists by then, whatever the lookup before it saw.
THEOREM OneDraftInvariant == Spec => []OneDraft
<1>1. Init => OneDraft
  BY DEF Init, OneDraft, OpenDraft, Draft, Exists
<1>2. TypeOK /\ OneDraft /\ [Next]_vars => OneDraft'
  <2> SUFFICES ASSUME TypeOK, OneDraft, [Next]_vars,
                      NEW u \in Users, NEW r \in ResponseIds, NEW s \in ResponseIds,
                      OpenDraft(u, r)', OpenDraft(u, s)'
               PROVE  r = s
    BY DEF OneDraft
  <2>1. CASE UNCHANGED responses
    BY <2>1 DEF OneDraft, OpenDraft, Draft, Exists
  <2>2. ASSUME NEW w \in Workers, CreateInsert(w) PROVE r = s
    BY <2>2, RequestOf DEF CreateInsert, TypeOK, OneDraft, OpenDraft, Draft, Exists
  <2>3. ASSUME NEW w \in Workers, DestroyCommit(w) PROVE r = s
    BY <2>3, RequestOf DEF DestroyCommit, TypeOK, OneDraft, OpenDraft, Draft, Exists
  <2>4. ASSUME NEW w \in Workers, SubmitLock(w) PROVE r = s
    <3> DEFINE x == request[w].id
    <3>1. CASE Exists(x)
      <4>1. x \in ResponseIds /\ responses[x] \in Row
        BY <2>4, <3>1, RequestOf DEF SubmitLock, TypeOK, Exists
      <4>2. responses' = [responses EXCEPT ![x] =
                            [@ EXCEPT !.status = "submitted", !.submitted_at = w]]
        BY <2>4, <3>1 DEF SubmitLock
      <4>3. responses'[x].status = "submitted"
        BY <4>1, <4>2 DEF TypeOK, Row
      <4>4. \A y \in ResponseIds : y # x => responses'[y] = responses[y]
        BY <4>2 DEF TypeOK
      <4>5. r # x /\ s # x
        BY <4>3 DEF OpenDraft, Draft
      <4> QED
        BY <4>4, <4>5 DEF OneDraft, OpenDraft, Draft, Exists
    <3>2. CASE ~ Exists(x)
      BY <2>1, <2>4, <3>2 DEF SubmitLock
    <3> QED
      BY <3>1, <3>2
  <2> QED
    BY <2>1, <2>2, <2>3, <2>4, OnlyWritesChangeRows DEF Writes, PatchCommit
<1> QED
  BY <1>1, <1>2, TypeInvariant, PTL DEF Spec

\* No answer outlives its response, whichever of a PATCH and a DELETE commits
\* first.
THEOREM NoOrphanInvariant == Spec => []NoOrphanAnswers
<1>1. Init => NoOrphanAnswers
  BY DEF Init, NoOrphanAnswers
<1>2. TypeOK /\ NoOrphanAnswers /\ [Next]_vars => NoOrphanAnswers'
  <2> SUFFICES ASSUME TypeOK, NoOrphanAnswers, [Next]_vars,
                      NEW r \in ResponseIds, ~ Exists(r)'
               PROVE  answers'[r] = NoCells
    BY DEF NoOrphanAnswers
  <2>1. CASE UNCHANGED <<responses, answers>>
    BY <2>1 DEF NoOrphanAnswers, Exists
  <2>2. ASSUME NEW w \in Workers, CreateInsert(w) PROVE answers'[r] = NoCells
    <3>1. [respondent |-> request[w].user, status |-> "draft", submitted_at |-> NoTime]
            \in Row
      BY <2>2, RequestOf DEF CreateInsert, Row
    <3>2. ~ Exists(r)
      BY <2>2, <3>1, RowAssumption DEF CreateInsert, TypeOK, Exists
    <3> QED
      BY <2>2, <3>2 DEF CreateInsert, NoOrphanAnswers
  <2>3. ASSUME NEW w \in Workers, PatchCommit(w) PROVE answers'[r] = NoCells
    <3>1. answers[r] = NoCells
      BY <2>3 DEF PatchCommit, NoOrphanAnswers, Exists
    <3>2. CASE r = request[w].id /\ request[w].done = {}
      BY <2>3, <3>1, <3>2 DEF PatchCommit, TypeOK, NoCells
    <3>3. CASE ~ (r = request[w].id /\ request[w].done = {})
      BY <2>3, <3>1, <3>3 DEF PatchCommit, TypeOK, Exists
    <3> QED
      BY <3>2, <3>3
  <2>4. ASSUME NEW w \in Workers, DestroyCommit(w) PROVE answers'[r] = NoCells
    BY <2>4, RequestOf DEF DestroyCommit, TypeOK, NoOrphanAnswers, Exists
  <2>5. ASSUME NEW w \in Workers, SubmitLock(w) PROVE answers'[r] = NoCells
    <3>1. ~ Exists(r)
      <4>1. CASE r = request[w].id /\ Exists(r)
        <5>1. responses'[r] = [responses[r] EXCEPT !.status = "submitted", !.submitted_at = w]
          BY <2>5, <4>1 DEF SubmitLock, TypeOK
        <5>2. responses'[r] \in Row
          BY <4>1, <5>1 DEF TypeOK, Exists, Row
        <5> QED
          BY <5>2, RowAssumption DEF Exists
      <4>2. CASE ~ (r = request[w].id /\ Exists(r))
        BY <2>5, <4>2 DEF SubmitLock, TypeOK, Exists
      <4> QED
        BY <4>1, <4>2
    <3> QED
      BY <2>5, <3>1 DEF SubmitLock, NoOrphanAnswers
  <2> QED
    BY <2>1, <2>2, <2>3, <2>4, <2>5, OnlyWritesChangeRows DEF Writes
<1> QED
  BY <1>1, <1>2, TypeInvariant, PTL DEF Spec

--------------------------------------------------------------------------------
(* Immutability.                                                             *)

\* A worker changes no request but its own.
LEMMA OthersUnchanged ==
  ASSUME TypeOK, NEW w \in Workers, NEW v \in Workers, v # w,
         \/ NewRequest(w) \/ Proceed(w) \/ TakeRow(w) \/ DeadlockAbort(w) \/ Crash(w)
  PROVE  request'[v] = request[v]
<1>1. CASE NewRequest(w) \/ DeadlockAbort(w) \/ Crash(w)
  BY <1>1 DEF NewRequest, CreateResume, CreateStart, Refuse, PatchLoad, DestroyLoad,
              SubmitLoad, Load, DeadlockAbort, Crash, Finish, TypeOK
<1>2. CASE CreateInsert(w) \/ PatchOpen(w) \/ PatchSelect(w) \/ PatchWrite(w) \/ PatchCommit(w)
  BY <1>2 DEF CreateInsert, PatchOpen, PatchSelect, PatchWrite, PatchCommit, Finish, TypeOK
<1>3. CASE DestroyScan(w) \/ DestroyTake(w) \/ DestroyCommit(w)
  BY <1>3 DEF DestroyScan, DestroyTake, DestroyCommit, DestroyNext, Finish, TypeOK
<1>4. CASE \/ SubmitFields(w) \/ SubmitAnswers(w) \/ SubmitSections(w)
           \/ SubmitLock(w) \/ SubmitRefresh(w)
  BY <1>4 DEF SubmitFields, SubmitAnswers, SubmitSections, SubmitLock, SubmitRefresh,
              Finish, TypeOK
<1> QED
  BY <1>1, <1>2, <1>3, <1>4 DEF Proceed, TakeRow

\* The steps of a request keep its response, until it is answered.
LEMMA RequestKeepsId ==
  ASSUME TypeOK, NEW w \in Workers, Proceed(w) \/ TakeRow(w)
  PROVE  request'[w].id = request[w].id \/ \E outcome \in Outcomes : Finish(w, outcome)
<1> request[w] \in Registers
  BY DEF TypeOK, Request
<1> USE DEF Outcomes
<1>1. CASE CreateInsert(w) \/ PatchCommit(w) \/ DestroyCommit(w) \/ SubmitRefresh(w)
  BY <1>1 DEF CreateInsert, PatchCommit, DestroyCommit, SubmitRefresh
<1>2. CASE PatchOpen(w)
  BY <1>2 DEF PatchOpen, TypeOK, Registers
<1>3. CASE PatchSelect(w)
  BY <1>3 DEF PatchSelect, TypeOK, Registers
<1>4. CASE PatchWrite(w)
  <2> DEFINE q == request[w]
             next == [q EXCEPT !.done = q.done \cup {q.cur}, !.cur = Nil,
                               !.pc = NextPatchStep(q.todo)]
  <2>1. Finish(w, "failed") \/ request' = [request EXCEPT ![w] = next]
    BY <1>4 DEF PatchWrite
  <2>2. next.id = q.id
    BY DEF Registers
  <2>3. CASE request' = [request EXCEPT ![w] = next]
    <3>1. request'[w] = next
      BY <2>3 DEF TypeOK
    <3> QED
      BY <2>2, <3>1
  <2> QED
    BY <2>1, <2>3
<1>5. ASSUME NEW rest, NEW gone, DestroyNext(w, rest, gone)
      PROVE  request'[w].id = request[w].id
  BY <1>5 DEF DestroyNext, TypeOK, Registers
<1>6. CASE SubmitFields(w) \/ SubmitAnswers(w)
  <2>1. CASE SubmitFields(w)
    BY <2>1 DEF SubmitFields, TypeOK, Registers
  <2>2. ASSUME SubmitAnswers(w) PROVE request'[w].id = request[w].id
    BY <2>2 DEF SubmitAnswers, TypeOK, Registers
  <2> QED
    BY <1>6, <2>1, <2>2
<1>7. CASE SubmitSections(w)
  BY <1>7 DEF SubmitSections, TypeOK, Registers
<1>8. CASE SubmitLock(w)
  BY <1>8 DEF SubmitLock, TypeOK, Registers
<1> QED
  BY <1>1, <1>2, <1>3, <1>4, <1>5, <1>6, <1>7, <1>8
  DEF Proceed, TakeRow, DestroyScan, DestroyTake

\* Once no request holds a submitted response as a draft, none ever will.
LEMMA NoNewHolder ==
  ASSUME TypeOK, [Next]_vars, NEW r \in ResponseIds, Settled(r),
         NEW v \in Workers, request'[v].id = r
  PROVE  request'[v] = request[v] /\ At(v, "submit_refresh")
<1> USE LifecycleAssumption
<1>0. CASE request'[v] = request[v]
  BY <1>0 DEF Settled
<1> SUFFICES ASSUME request'[v] # request[v] PROVE FALSE
  BY <1>0
<1>1. \A outcome \in Outcomes : ~ Finish(v, outcome)
  BY DEF Finish, TypeOK, Idle
<1>2. ~ DeadlockAbort(v) /\ ~ Crash(v)
  BY <1>1 DEF DeadlockAbort, Crash, Outcomes
<1>3. ~ NewRequest(v)
  <2>1. \A u \in Users : ~ CreateResume(v, u) /\ \A s \in ResponseIds : ~ Refuse(v, u, s)
    BY <1>1 DEF CreateResume, Refuse, Outcomes
  <2>2. ASSUME NEW u \in Users, CreateStart(v, u) PROVE FALSE
    BY <2>2 DEF CreateStart, Started, Idle, TypeOK, FreshId, Settled, Submitted, Exists
  <2>3. ASSUME NEW u \in Users, NEW s \in ResponseIds, NEW step, Load(v, u, s, step)
        PROVE  FALSE
    BY <2>3 DEF Load, Started, Idle, TypeOK, Settled, Submitted, OpenDraft, Draft
  <2> QED
    BY <2>1, <2>2, <2>3 DEF NewRequest, PatchLoad, DestroyLoad, SubmitLoad
<1>4. ASSUME Proceed(v) \/ TakeRow(v) PROVE FALSE
  <2>1. At(v, "submit_refresh") => SubmitRefresh(v)
    BY <1>4 DEF Proceed, TakeRow, CreateInsert, PatchOpen, PatchSelect, PatchWrite,
                PatchCommit, DestroyScan, DestroyTake, DestroyCommit, SubmitFields,
                SubmitAnswers, SubmitSections, SubmitLock
  <2>2. ~ SubmitRefresh(v)
    BY <1>1 DEF SubmitRefresh, Outcomes
  <2>3. request'[v].id = request[v].id
    BY <1>1, <1>4, RequestKeepsId
  <2> QED
    BY <2>1, <2>2, <2>3 DEF Settled
<1> QED
  BY <1>2, <1>3, <1>4, OthersUnchanged DEF Next, EditSurvey, FreezeSurvey, vars

\* One step of it.
LEMMA SettledStep ==
  ASSUME TypeOK, [Next]_vars, NEW r \in ResponseIds, Settled(r)
  PROVE  /\ responses'[r] = responses[r]
         /\ answers'[r] = answers[r]
         /\ Settled(r)'
<1>1. \A w \in Workers : Writes(w) => request[w].id # r \/ CreateInsert(w)
  BY DEF Writes, Settled, PatchCommit, DestroyCommit, SubmitLock
<1>2. responses'[r] = responses[r] /\ answers'[r] = answers[r]
  <2>1. ASSUME NEW w \in Workers, CreateInsert(w)
        PROVE  responses'[r] = responses[r] /\ answers'[r] = answers[r]
    BY <2>1 DEF CreateInsert, Settled, TypeOK
  <2>2. ASSUME NEW w \in Workers, Writes(w), request[w].id # r
        PROVE  responses'[r] = responses[r] /\ answers'[r] = answers[r]
    BY <2>2, <2>1 DEF Writes, PatchCommit, DestroyCommit, SubmitLock, TypeOK
  <2> QED
    BY <1>1, <2>1, <2>2, OnlyWritesChangeRows
<1>3. Submitted(r)'
  BY <1>2 DEF Settled, Submitted, Exists
<1> QED
  BY <1>2, <1>3, NoNewHolder DEF Settled

\* A submitted response that no request holds as a draft keeps its row and its
\* answers for ever: every handler refuses a row it loads as submitted.
THEOREM SettledImmutableTheorem == Spec => SettledImmutable
<1>1. TypeOK /\ [Next]_vars =>
        [\A r \in ResponseIds :
           Settled(r) => /\ responses'[r] = responses[r]
                         /\ answers'[r] = answers[r]
                         /\ Settled(r)']_vars
  BY SettledStep
<1> QED
  BY <1>1, TypeInvariant, PTL DEF Spec, SettledImmutable

--------------------------------------------------------------------------------
(* How the rows move.                                                        *)

\* An id drawn for an INSERT is not that of a row, nor of another request.
InsertsFresh ==
  \A w \in Workers : At(w, "create_insert") =>
    /\ responses[request[w].id] = NoRow
    /\ \A v \in Workers : v # w => request[v].id # request[w].id

\* A request comes to its INSERT only by finding no draft.
LEMMA InsertStarts ==
  ASSUME TypeOK, NEW w \in Workers, At(w, "create_insert")',
         NewRequest(w) \/ Proceed(w) \/ TakeRow(w) \/ DeadlockAbort(w) \/ Crash(w)
  PROVE  \E u \in Users : CreateStart(w, u)
<1> request[w] \in Registers
  BY DEF TypeOK, Request
<1>f. ASSUME NEW outcome \in Outcomes, Finish(w, outcome) PROVE FALSE
  BY <1>f DEF Finish, Idle, TypeOK, Outcomes
<1> USE DEF Outcomes
<1>1. ASSUME NewRequest(w), \A u \in Users : ~ CreateStart(w, u) PROVE FALSE
  <2>1. ASSUME NEW u \in Users, NEW r \in ResponseIds, NEW step, step # "create_insert",
               Load(w, u, r, step)
        PROVE  FALSE
    BY <2>1 DEF Load, Started, Idle, TypeOK
  <2>2. ASSUME NEW u \in Users, CreateResume(w, u) \/ \E r \in ResponseIds : Refuse(w, u, r)
        PROVE  FALSE
    BY <2>2, <1>f DEF CreateResume, Refuse
  <2> QED
    BY <1>1, <2>1, <2>2 DEF NewRequest, PatchLoad, DestroyLoad, SubmitLoad
<1>2. CASE DeadlockAbort(w) \/ Crash(w) \/ CreateInsert(w) \/ PatchCommit(w)
           \/ DestroyCommit(w) \/ SubmitRefresh(w)
  BY <1>2, <1>f DEF DeadlockAbort, Crash, CreateInsert, PatchCommit, DestroyCommit, SubmitRefresh
<1>3. CASE PatchOpen(w)
  BY <1>3 DEF PatchOpen, NextPatchStep, TypeOK, Registers
<1>4. CASE PatchSelect(w)
  BY <1>4 DEF PatchSelect, TypeOK, Registers
<1>5. CASE PatchWrite(w)
  <2> DEFINE q == request[w]
             next == [q EXCEPT !.done = q.done \cup {q.cur}, !.cur = Nil,
                               !.pc = NextPatchStep(q.todo)]
  <2>1. Finish(w, "failed") \/ request' = [request EXCEPT ![w] = next]
    BY <1>5 DEF PatchWrite
  <2>2. next.pc # "create_insert"
    BY DEF Registers, NextPatchStep
  <2> HIDE DEF next
  <2> QED
    BY <1>f, <2>1, <2>2 DEF TypeOK
<1>6. ASSUME NEW rest, NEW gone, DestroyNext(w, rest, gone)
      PROVE  request'[w].pc # "create_insert"
  <2> DEFINE q == request[w]
             last == [q EXCEPT !.pc = "destroy_commit", !.todo = {}, !.cur = Nil, !.done = gone]
             Take(k) == [q EXCEPT !.pc = "destroy_take", !.todo = rest \ {k}, !.cur = k,
                                  !.done = gone]
  <2>1. request'[w] = last \/ \E k \in rest : request'[w] = Take(k)
    BY <1>6 DEF DestroyNext, TypeOK
  <2>2. last.pc = "destroy_commit" /\ \A k \in rest : Take(k).pc = "destroy_take"
    BY DEF Registers
  <2> HIDE DEF last, Take
  <2> QED
    BY <2>1, <2>2
<1>7. CASE SubmitFields(w) \/ SubmitAnswers(w) \/ SubmitLock(w)
  <2>1. CASE SubmitFields(w)
    BY <2>1 DEF SubmitFields, TypeOK, Registers
  <2>2. CASE SubmitAnswers(w)
    BY <2>2 DEF SubmitAnswers, TypeOK, Registers
  <2>3. CASE SubmitLock(w)
    BY <2>3, <1>f DEF SubmitLock, TypeOK, Registers
  <2> QED
    BY <1>7, <2>1, <2>2, <2>3
<1>8. CASE SubmitSections(w)
  <2> DEFINE next == [request[w] EXCEPT !.pc = "submit_lock", !.seen = Nil]
  <2>1. Finish(w, "failed") \/ Finish(w, "refused") \/ request' = [request EXCEPT ![w] = next]
    BY <1>8 DEF SubmitSections
  <2>2. next.pc # "create_insert"
    BY DEF Registers
  <2> HIDE DEF next
  <2> QED
    BY <1>f, <2>1, <2>2 DEF TypeOK
<1> QED
  BY <1>1, <1>2, <1>3, <1>4, <1>5, <1>6, <1>7, <1>8
  DEF Proceed, TakeRow, DestroyScan, DestroyTake

\* The row of an id that no other request of the step is about stays as it is.
LEMMA OtherRowsStay ==
  ASSUME TypeOK, [Next]_vars, NEW r \in ResponseIds,
         \A w \in Workers : Writes(w) => request[w].id # r
  PROVE  responses'[r] = responses[r]
<1>1. ASSUME NEW w \in Workers, Writes(w), request[w].id # r
      PROVE  responses'[r] = responses[r]
  BY <1>1 DEF Writes, CreateInsert, PatchCommit, DestroyCommit, SubmitLock, TypeOK
<1> QED
  BY <1>1, OnlyWritesChangeRows

\* The response a request of another worker is about, after a step of v.
LEMMA OtherIds ==
  ASSUME TypeOK, NEW v \in Workers, NEW r \in ResponseIds,
         NewRequest(v) \/ Proceed(v) \/ TakeRow(v) \/ DeadlockAbort(v) \/ Crash(v),
         responses[r] = NoRow, \E w \in Workers : request[w].id = r,
         request[v].id # r
  PROVE  request'[v].id # r
<1> USE DEF Outcomes
<1>f. ASSUME NEW outcome \in Outcomes, Finish(v, outcome) PROVE request'[v].id # r
  BY <1>f, LifecycleAssumption DEF Finish, Idle, TypeOK
<1>1. CASE NewRequest(v)
  <2>1. ASSUME NEW u \in Users, CreateStart(v, u) PROVE request'[v].id # r
    BY <2>1 DEF CreateStart, FreshId, Started, Idle, TypeOK
  <2>2. ASSUME NEW u \in Users, NEW s \in ResponseIds, NEW step, Load(v, u, s, step)
        PROVE  request'[v].id # r
    BY <2>2 DEF Load, OpenDraft, Draft, Exists, Started, Idle, TypeOK
  <2>3. ASSUME NEW u \in Users, CreateResume(v, u) \/ \E s \in ResponseIds : Refuse(v, u, s)
        PROVE  request'[v].id # r
    BY <2>3, <1>f DEF CreateResume, Refuse
  <2> QED
    BY <1>1, <2>1, <2>2, <2>3 DEF NewRequest, PatchLoad, DestroyLoad, SubmitLoad
<1>2. CASE DeadlockAbort(v) \/ Crash(v)
  BY <1>2, <1>f DEF DeadlockAbort, Crash
<1>3. CASE Proceed(v) \/ TakeRow(v)
  BY <1>3, <1>f, RequestKeepsId
<1> QED
  BY <1>1, <1>2, <1>3

LEMMA FreshStep ==
  ASSUME TypeOK, InsertsFresh, [Next]_vars
  PROVE  InsertsFresh'
<1> SUFFICES ASSUME NEW w \in Workers, At(w, "create_insert")'
             PROVE  /\ responses'[request'[w].id] = NoRow
                    /\ \A v \in Workers : v # w => request'[v].id # request'[w].id
  BY DEF InsertsFresh
<1>1. CASE request'[w] = request[w]
  <2> DEFINE r == request[w].id
  <2>1. At(w, "create_insert") /\ r \in ResponseIds
    BY <1>1, RequestOf
  <2>2. responses[r] = NoRow /\ \A v \in Workers : v # w => request[v].id # r
    BY <2>1 DEF InsertsFresh
  <2>3. ~ CreateInsert(w)
    BY <1>1, <2>1 DEF CreateInsert, Finish, Idle, TypeOK
  <2>4. ~ Writes(w)
    BY <2>1, <2>3 DEF Writes, PatchCommit, DestroyCommit, SubmitLock
  <2>5. responses'[r] = NoRow
    BY <2>1, <2>2, <2>4, OtherRowsStay
  <2>6. ASSUME NEW v \in Workers, v # w PROVE request'[v].id # r
    <3>1. CASE request'[v] = request[v]
      BY <2>2, <2>6, <3>1
    <3>2. CASE NewRequest(v) \/ Proceed(v) \/ TakeRow(v) \/ DeadlockAbort(v) \/ Crash(v)
      BY <2>1, <2>2, <2>6, <3>2, OtherIds
    <3> QED
      BY <3>1, <3>2, OthersUnchanged DEF Next, EditSurvey, FreezeSurvey, vars
  <2> QED
    BY <1>1, <2>5, <2>6
<1>2. CASE request'[w] # request[w]
  <2>1. NewRequest(w) \/ Proceed(w) \/ TakeRow(w) \/ DeadlockAbort(w) \/ Crash(w)
    BY <1>2, OthersUnchanged DEF Next, EditSurvey, FreezeSurvey, vars
  <2>2. PICK u \in Users : CreateStart(w, u)
    BY <2>1, InsertStarts
  <2>3. \A v \in Workers : v # w => request'[v] = request[v]
    BY <2>1, OthersUnchanged
  <2> QED
    BY <2>2, <2>3 DEF CreateStart, FreshId, Started, Idle, TypeOK
<1> QED
  BY <1>1, <1>2

\* A row never comes back, keeps its respondent, and once submitted stays so or
\* is deleted.
RowMoves(r) ==
  responses[r] # NoRow =>
    /\ responses'[r] # NoRow
    /\ Exists(r)' => /\ Exists(r)
                     /\ responses'[r].respondent = responses[r].respondent
                     /\ Submitted(r) => Submitted(r)'

LEMMA RowsMove ==
  ASSUME TypeOK, InsertsFresh, [Next]_vars, NEW r \in ResponseIds
  PROVE  RowMoves(r)
<1> SUFFICES ASSUME responses[r] # NoRow PROVE RowMoves(r)
  BY DEF RowMoves
<1> USE RowAssumption
<1>1. CASE responses'[r] = responses[r]
  BY <1>1 DEF RowMoves, Exists, Submitted
<1>2. ASSUME NEW w \in Workers, CreateInsert(w) PROVE responses'[r] = responses[r]
  <2>1. request[w].id # r
    BY <1>2 DEF CreateInsert, InsertsFresh
  <2> QED
    BY <1>2, <2>1 DEF CreateInsert, TypeOK
<1>3. ASSUME NEW w \in Workers, PatchCommit(w) PROVE responses'[r] = responses[r]
  BY <1>3 DEF PatchCommit
<1>4. ASSUME NEW w \in Workers, DestroyCommit(w) PROVE RowMoves(r)
  <2>1. responses'[r] \in {responses[r], Gone}
    BY <1>4 DEF DestroyCommit, TypeOK
  <2> QED
    BY <1>1, <2>1, Zenon DEF RowMoves, Exists
<1>5. ASSUME NEW w \in Workers, SubmitLock(w) PROVE RowMoves(r)
  <2>1. \/ responses'[r] = responses[r]
        \/ /\ Exists(r)
           /\ responses'[r] = [responses[r] EXCEPT !.status = "submitted", !.submitted_at = w]
    <3>1. CASE ~ Exists(request[w].id)
      BY <1>5, <3>1 DEF SubmitLock
    <3>2. CASE Exists(request[w].id) /\ request[w].id # r
      BY <1>5, <3>2 DEF SubmitLock, TypeOK
    <3>3. CASE Exists(request[w].id) /\ request[w].id = r
      <4>1. responses' = [responses EXCEPT ![r] =
              [responses[r] EXCEPT !.status = "submitted", !.submitted_at = w]]
        BY <1>5, <3>3 DEF SubmitLock
      <4> QED
        BY <3>3, <4>1, Zenon DEF TypeOK
    <3> QED
      BY <3>1, <3>2, <3>3
  <2>2. ASSUME Exists(r), responses'[r] =
          [responses[r] EXCEPT !.status = "submitted", !.submitted_at = w]
        PROVE  RowMoves(r)
    <3>1. responses[r] \in Row
      BY <2>2 DEF Exists, TypeOK
    <3>2. /\ responses'[r] \in Row
          /\ responses'[r].respondent = responses[r].respondent
          /\ responses'[r].status = "submitted"
      BY <2>2, <3>1 DEF Row
    <3> QED
      BY <2>2, <3>2 DEF RowMoves, Exists, Submitted
  <2> QED
    BY <1>1, <2>1, <2>2
<1> QED
  BY <1>1, <1>2, <1>3, <1>4, <1>5, OnlyWritesChangeRows DEF Writes

LEMMA FreshInvariant == Spec => []InsertsFresh
<1>1. Init => InsertsFresh
  BY DEF Init, Idle, InsertsFresh
<1>2. TypeOK /\ InsertsFresh /\ [Next]_vars => InsertsFresh'
  BY FreshStep
<1> QED
  BY <1>1, <1>2, TypeInvariant, PTL DEF Spec

\* A deleted response does not come back, a submitted one is not a draft again,
\* and none changes hands: the INSERT of a create is of a fresh id, and the UPDATE
\* of a submit finds the row or fails.
THEOREM RowsMoveTheorem == Spec => RowsMoveOn
<1>1. ASSUME NEW r \in ResponseIds, RowMoves(r)
      PROVE  /\ responses[r] = Gone => responses'[r] = Gone
             /\ Exists(r) =>
                   \/ responses'[r] = Gone
                   \/ /\ Exists(r)'
                      /\ responses'[r].respondent = responses[r].respondent
                      /\ Submitted(r) => Submitted(r)'
  BY <1>1, RowAssumption DEF RowMoves, Exists
<1>2. TypeOK /\ InsertsFresh /\ [Next]_vars =>
        [\A r \in ResponseIds :
           /\ responses[r] = Gone => responses'[r] = Gone
           /\ Exists(r) =>
                 \/ responses'[r] = Gone
                 \/ /\ Exists(r)'
                    /\ responses'[r].respondent = responses[r].respondent
                    /\ Submitted(r) => Submitted(r)']_vars
  BY <1>1, RowsMove
<1> QED
  BY <1>2, TypeInvariant, FreshInvariant, PTL DEF Spec, RowsMoveOn

--------------------------------------------------------------------------------
(* The sensitive answers, of a frozen survey.                                *)

\* What a request is about to write is encrypted where it has to be.
PayloadEncrypted ==
  \A w \in Workers, k \in Keys :
    request[w].payload[k] # NoCell /\ IsSensitive(tree.fields, k) =>
      request[w].payload[k].encrypted

\* The fields of a frozen survey stay.
LEMMA FrozenTree ==
  ASSUME frozen = TRUE, [Next]_vars
  PROVE  frozen' = TRUE /\ tree' = tree
<1>1. CASE \E w \in Workers : NewRequest(w) \/ DeadlockAbort(w) \/ Crash(w)
  BY <1>1 DEF NewRequest, CreateResume, CreateStart, Refuse, Load, PatchLoad, DestroyLoad,
              SubmitLoad, DeadlockAbort, Crash
<1>2. CASE \E w \in Workers : Proceed(w)
  BY <1>2 DEF Proceed, CreateInsert, PatchOpen, PatchSelect, PatchCommit, DestroyScan,
              DestroyCommit, SubmitFields, SubmitAnswers, SubmitSections, SubmitLock,
              SubmitRefresh
<1>3. CASE \E w \in Workers : TakeRow(w)
  BY <1>3 DEF TakeRow, PatchWrite, DestroyTake
<1> QED
  BY <1>1, <1>2, <1>3 DEF Next, EditSurvey, FreezeSurvey, vars

\* Only PatchOpen fills a payload; any other step keeps it or drops it.
LEMMA PayloadKept ==
  ASSUME TypeOK, NEW w \in Workers,
         NewRequest(w) \/ Proceed(w) \/ TakeRow(w) \/ DeadlockAbort(w) \/ Crash(w),
         ~ PatchOpen(w)
  PROVE  request'[w].payload \in {request[w].payload, NoCells}
<1> request[w] \in Registers
  BY DEF TypeOK, Request
<1>f. ASSUME NEW outcome, Finish(w, outcome) PROVE request'[w].payload = NoCells
  BY <1>f DEF Finish, Idle, TypeOK
<1>1. CASE NewRequest(w)
  <2>1. ASSUME NEW u, NEW r, NEW step, request' = [request EXCEPT ![w] = Started(u, r, step)]
        PROVE  request'[w].payload = NoCells
    BY <2>1 DEF Started, Idle, TypeOK
  <2>2. \/ \E outcome : Finish(w, outcome)
        \/ \E u, r, step : request' = [request EXCEPT ![w] = Started(u, r, step)]
    BY <1>1 DEF NewRequest, CreateResume, CreateStart, Refuse, Load, PatchLoad,
                DestroyLoad, SubmitLoad
  <2> QED
    BY <1>f, <2>1, <2>2
<1>2. CASE DeadlockAbort(w) \/ Crash(w) \/ CreateInsert(w) \/ PatchCommit(w)
           \/ DestroyCommit(w) \/ SubmitRefresh(w)
  BY <1>2, <1>f DEF DeadlockAbort, Crash, CreateInsert, PatchCommit, DestroyCommit, SubmitRefresh
<1>3. CASE PatchSelect(w)
  BY <1>3 DEF PatchSelect, TypeOK, Registers
<1>4. CASE PatchWrite(w)
  <2> DEFINE q == request[w]
             next == [q EXCEPT !.done = q.done \cup {q.cur}, !.cur = Nil,
                               !.pc = NextPatchStep(q.todo)]
  <2>1. Finish(w, "failed") \/ request' = [request EXCEPT ![w] = next]
    BY <1>4 DEF PatchWrite
  <2>2. next.payload = q.payload
    BY DEF Registers
  <2> HIDE DEF next
  <2> QED
    BY <1>f, <2>1, <2>2 DEF TypeOK
<1>5. ASSUME NEW rest, NEW gone, DestroyNext(w, rest, gone)
      PROVE  request'[w].payload = request[w].payload
  BY <1>5 DEF DestroyNext, TypeOK, Registers
<1>6. CASE SubmitFields(w)
  BY <1>6 DEF SubmitFields, TypeOK, Registers
<1>7. CASE SubmitAnswers(w)
  BY <1>7 DEF SubmitAnswers, TypeOK, Registers
<1>8. CASE SubmitSections(w)
  <2> DEFINE next == [request[w] EXCEPT !.pc = "submit_lock", !.seen = Nil]
  <2>1. (\E outcome : Finish(w, outcome)) \/ request' = [request EXCEPT ![w] = next]
    BY <1>8 DEF SubmitSections
  <2>2. next.payload = request[w].payload
    BY DEF Registers
  <2> HIDE DEF next
  <2> QED
    BY <1>f, <2>1, <2>2 DEF TypeOK
<1>9. CASE SubmitLock(w)
  BY <1>9, <1>f DEF SubmitLock, TypeOK, Registers
<1> QED
  BY <1>1, <1>2, <1>3, <1>4, <1>5, <1>6, <1>7, <1>8, <1>9
  DEF Proceed, TakeRow, DestroyScan, DestroyTake

LEMMA PatchOpenEncrypts ==
  ASSUME TypeOK, NEW w \in Workers, PatchOpen(w), NEW k \in Keys,
         request'[w].payload[k] # NoCell, IsSensitive(tree.fields, k)
  PROVE  request'[w].payload[k].encrypted
<1> PICK body \in AnswerDicts :
      request' = [request EXCEPT ![w] =
          [@ EXCEPT !.payload = [x \in Keys |->
                       IF x \in DOMAIN body
                       THEN SetValue(body[x], IsSensitive(tree.fields, x))
                       ELSE NoCell],
                    !.todo = DOMAIN body,
                    !.pc = NextPatchStep(DOMAIN body)]]
  BY DEF PatchOpen
<1>1. request'[w].payload = [x \in Keys |->
                       IF x \in DOMAIN body
                       THEN SetValue(body[x], IsSensitive(tree.fields, x))
                       ELSE NoCell]
  BY DEF TypeOK, Request, Registers
<1>2. request'[w].payload[k] = SetValue(body[k], IsSensitive(tree.fields, k))
  BY <1>1
<1> QED
  BY <1>2 DEF SetValue

\* The answers to the sensitive fields of a survey that was frozen before its
\* first response are stored encrypted, whatever PATCHes overlap.
THEOREM SensitiveTheorem == FrozenSpec => []SensitiveAtRest
<1> DEFINE Inv == frozen = TRUE /\ PayloadEncrypted /\ SensitiveAtRest
<1>1. Init /\ frozen = TRUE => Inv
  BY DEF Init, Idle, NoCells, PayloadEncrypted, SensitiveAtRest
<1>2. TypeOK /\ Inv /\ [Next]_vars => Inv'
  <2> SUFFICES ASSUME TypeOK, Inv, [Next]_vars PROVE Inv'
    OBVIOUS
  <2>1. frozen' = TRUE /\ tree' = tree
    BY FrozenTree
  <2>2. PayloadEncrypted'
    <3> SUFFICES ASSUME NEW w \in Workers, NEW k \in Keys,
                        request'[w].payload[k] # NoCell, IsSensitive(tree.fields, k)
                 PROVE  request'[w].payload[k].encrypted
      BY <2>1 DEF PayloadEncrypted
    <3>1. CASE request'[w] = request[w]
      BY <3>1 DEF PayloadEncrypted
    <3>2. CASE PatchOpen(w)
      BY <3>2, PatchOpenEncrypts
    <3>3. CASE /\ NewRequest(w) \/ Proceed(w) \/ TakeRow(w) \/ DeadlockAbort(w) \/ Crash(w)
               /\ ~ PatchOpen(w)
      BY <3>3, PayloadKept DEF PayloadEncrypted, NoCells
    <3> QED
      BY <3>1, <3>2, <3>3, OthersUnchanged DEF Next, EditSurvey, FreezeSurvey, vars
  <2>3. SensitiveAtRest'
    <3> SUFFICES ASSUME NEW r \in ResponseIds, NEW k \in Keys,
                        answers'[r][k] # NoCell, IsSensitive(tree.fields, k)
                 PROVE  answers'[r][k].encrypted
      BY <2>1 DEF SensitiveAtRest
    <3>1. CASE answers'[r][k] = answers[r][k]
      BY <3>1 DEF SensitiveAtRest
    <3>2. ASSUME NEW w \in Workers, DestroyCommit(w)
          PROVE  answers'[r][k] \in {answers[r][k], NoCell}
      BY <3>2 DEF DestroyCommit, TypeOK, NoCells
    <3>3. ASSUME NEW w \in Workers, PatchCommit(w)
          PROVE  answers'[r][k] \in {answers[r][k], request[w].payload[k]}
      BY <3>3 DEF PatchCommit, TypeOK
    <3>4. ASSUME NEW w \in Workers, CreateInsert(w) \/ SubmitLock(w)
          PROVE  answers' = answers
      BY <3>4 DEF CreateInsert, SubmitLock
    <3> QED
      BY <3>1, <3>2, <3>3, <3>4, OnlyWritesChangeRows DEF Writes, PayloadEncrypted
  <2> QED
    BY <2>1, <2>2, <2>3
<1> QED
  BY <1>1, <1>2, TypeInvariant, PTL DEF FrozenSpec, Spec

================================================================================
