------------------------- MODULE ResponseContractProofs ------------------------
(***************************************************************************)
(* The transactions of ResponseLifecycle, and the contract they implement  *)
(* when each respondent sends one request at a time: for every number of   *)
(* users, workers, responses, keys and values, and every tree of fields.   *)
(***************************************************************************)
EXTENDS ResponseLifecycleProofs

USE DEF At

--------------------------------------------------------------------------------
(* The registers of a worker after each of its steps.                        *)

\* The rows a PATCH with this body writes.
Written(body) == [k \in Keys |-> IF k \in DOMAIN body
                                 THEN SetValue(body[k], IsSensitive(tree.fields, k))
                                 ELSE NoCell]

LEMMA FinishRegisters ==
  ASSUME TypeOK, NEW w \in Workers, NEW outcome \in Outcomes, Finish(w, outcome)
  PROVE  request'[w] = Idle(outcome) /\ ~ Busy(w)'
BY DEF Finish, TypeOK, Idle, Busy, Outcomes, Steps

LEMMA OpenRegisters ==
  ASSUME TypeOK, NEW w \in Workers, PatchOpen(w)
  PROVE  \E body \in AnswerDicts :
           LET q == request[w]  p == request'[w]
           IN  /\ p.pc = NextPatchStep(DOMAIN body)
               /\ p.user = q.user /\ p.id = q.id /\ p.seen = q.seen
               /\ p.payload = Written(body)
               /\ p.todo = DOMAIN body /\ p.cur = q.cur /\ p.done = q.done
<1> DEFINE q == request[w]
<1> q \in Registers
  BY DEF TypeOK, Request
<1> PICK body \in AnswerDicts :
      request' = [request EXCEPT ![w] =
          [@ EXCEPT !.payload = [k \in Keys |->
                       IF k \in DOMAIN body
                       THEN SetValue(body[k], IsSensitive(tree.fields, k))
                       ELSE NoCell],
                    !.todo = DOMAIN body,
                    !.pc = NextPatchStep(DOMAIN body)]]
  BY DEF PatchOpen
<1> DEFINE payload == Written(body)
           step == NextPatchStep(DOMAIN body)
           next == [q EXCEPT !.payload = payload, !.todo = DOMAIN body, !.pc = step]
<1>1. request'[w] = next
  BY DEF TypeOK, Written
<1> HIDE DEF payload, step
<1>2. /\ next.pc = step /\ next.payload = payload /\ next.todo = DOMAIN body
      /\ next.user = q.user /\ next.id = q.id /\ next.seen = q.seen
      /\ next.cur = q.cur /\ next.done = q.done
  BY DEF Registers
<1> QED
  BY <1>1, <1>2 DEF payload, step

LEMMA SelectRegisters ==
  ASSUME TypeOK, NEW w \in Workers, PatchSelect(w)
  PROVE  \E k \in request[w].todo :
           LET q == request[w]  p == request'[w]
           IN  /\ p.pc \in {"patch_insert", "patch_update"}
               /\ p.user = q.user /\ p.id = q.id /\ p.seen = q.seen
               /\ p.payload = q.payload
               /\ p.todo = q.todo \ {k} /\ p.cur = k /\ p.done = q.done
               /\ p.pc = "patch_insert" => answers[q.id][k] = NoCell
<1> DEFINE q == request[w]
<1> q \in Registers
  BY DEF TypeOK, Request
<1> PICK k \in q.todo :
        request' = [request EXCEPT ![w] =
          [q EXCEPT !.cur = k, !.todo = q.todo \ {k},
                    !.pc = IF answers[q.id][k] = NoCell
                           THEN "patch_insert" ELSE "patch_update"]]
  BY DEF PatchSelect
<1> DEFINE step == IF answers[q.id][k] = NoCell THEN "patch_insert" ELSE "patch_update"
           next == [q EXCEPT !.cur = k, !.todo = q.todo \ {k}, !.pc = step]
<1>1. /\ request'[w] = next /\ step \in {"patch_insert", "patch_update"}
      /\ step = "patch_insert" => answers[q.id][k] = NoCell
  BY DEF TypeOK
<1> HIDE DEF step
<1>2. /\ next.pc = step /\ next.payload = q.payload /\ next.todo = q.todo \ {k}
      /\ next.user = q.user /\ next.id = q.id /\ next.seen = q.seen
      /\ next.cur = k /\ next.done = q.done
  BY DEF Registers
<1> QED
  BY <1>1, <1>2

LEMMA WriteRegisters ==
  ASSUME TypeOK, NEW w \in Workers, PatchWrite(w)
  PROVE  \/ Finish(w, "failed")
         \/ LET q == request[w]  p == request'[w]
            IN  /\ p.pc = NextPatchStep(q.todo)
                /\ p.user = q.user /\ p.id = q.id /\ p.seen = q.seen
                /\ p.payload = q.payload
                /\ p.todo = q.todo /\ p.cur = Nil /\ p.done = q.done \cup {q.cur}
<1> DEFINE q == request[w]
<1> q \in Registers
  BY DEF TypeOK, Request
<1> DEFINE step == NextPatchStep(q.todo)
           next == [q EXCEPT !.done = q.done \cup {q.cur}, !.cur = Nil, !.pc = step]
<1>1. Finish(w, "failed") \/ request' = [request EXCEPT ![w] = next]
  BY DEF PatchWrite
<1> HIDE DEF step
<1>2. /\ next.pc = step /\ next.payload = q.payload /\ next.todo = q.todo
      /\ next.user = q.user /\ next.id = q.id /\ next.seen = q.seen
      /\ next.cur = Nil /\ next.done = q.done \cup {q.cur}
  BY DEF Registers
<1> HIDE DEF next
<1>3. CASE request' = [request EXCEPT ![w] = next]
  <2>1. request'[w] = next
    BY <1>3 DEF TypeOK
  <2> QED
    BY <1>2, <2>1 DEF step
<1> QED
  BY <1>1, <1>3

LEMMA DestroyRegisters ==
  ASSUME TypeOK, NEW w \in Workers, NEW rest, NEW gone, DestroyNext(w, rest, gone)
  PROVE  LET q == request[w]  p == request'[w]
         IN  /\ p.pc \in {"destroy_take", "destroy_commit"}
             /\ p.user = q.user /\ p.id = q.id /\ p.seen = q.seen
             /\ p.payload = q.payload /\ p.done = gone
             /\ p.pc = "destroy_commit" => rest = {}
             /\ p.pc = "destroy_take" => p.todo = rest \ {p.cur}
<1> DEFINE q == request[w]
           last == [q EXCEPT !.pc = "destroy_commit", !.todo = {}, !.cur = Nil, !.done = gone]
           Take(k) == [q EXCEPT !.pc = "destroy_take", !.todo = rest \ {k}, !.cur = k,
                                !.done = gone]
<1> q \in Registers
  BY DEF TypeOK, Request
<1>1. \/ rest = {} /\ request'[w] = last
      \/ \E k \in rest : request'[w] = Take(k)
  BY DEF DestroyNext, TypeOK
<1>2. /\ last.pc = "destroy_commit" /\ last.user = q.user /\ last.id = q.id
      /\ last.seen = q.seen /\ last.payload = q.payload /\ last.done = gone
  BY DEF Registers
<1>3. ASSUME NEW k \in rest
      PROVE  /\ Take(k).pc = "destroy_take" /\ Take(k).user = q.user /\ Take(k).id = q.id
             /\ Take(k).seen = q.seen /\ Take(k).payload = q.payload /\ Take(k).done = gone
             /\ Take(k).todo = rest \ {k} /\ Take(k).cur = k
  BY DEF Registers
<1> HIDE DEF last, Take
<1> QED
  BY <1>1, <1>2, <1>3

LEMMA SubmitRegisters ==
  ASSUME TypeOK, NEW w \in Workers,
         SubmitFields(w) \/ SubmitAnswers(w) \/ SubmitSections(w) \/ SubmitLock(w)
  PROVE  \/ Finish(w, "failed") \/ Finish(w, "refused")
         \/ LET q == request[w]  p == request'[w]
            IN  /\ \/ SubmitFields(w) /\ p.pc = "submit_answers" /\ p.seen = tree
                   \/ /\ SubmitAnswers(w) /\ p.seen = q.seen
                      /\ p.pc \in {"submit_valid", "submit_invalid"}
                      /\ p.pc = "submit_valid" => SubmitErrors(q.seen.fields, answers[q.id]) = {}
                   \/ SubmitSections(w) /\ q.pc = "submit_valid" /\ p.pc = "submit_lock"
                   \/ SubmitLock(w) /\ p.pc = "submit_refresh"
                /\ p.user = q.user /\ p.id = q.id /\ p.payload = q.payload /\ p.done = q.done
<1> DEFINE q == request[w]
<1> q \in Registers
  BY DEF TypeOK, Request
<1>1. CASE SubmitFields(w)
  <2> DEFINE next == [q EXCEPT !.pc = "submit_answers", !.seen = tree]
  <2>1. request'[w] = next
    BY <1>1 DEF SubmitFields, TypeOK
  <2>2. /\ next.pc = "submit_answers" /\ next.seen = tree /\ next.user = q.user
        /\ next.id = q.id /\ next.payload = q.payload /\ next.done = q.done
    BY DEF Registers
  <2> QED
    BY <1>1, <2>1, <2>2
<1>2. CASE SubmitAnswers(w)
  <2> DEFINE errors == SubmitErrors(q.seen.fields, answers[q.id])
             step == IF errors = {} THEN "submit_valid" ELSE "submit_invalid"
             next == [q EXCEPT !.pc = step]
  <2>1. request'[w] = next
    BY <1>2 DEF SubmitAnswers, TypeOK
  <2>2. step \in {"submit_valid", "submit_invalid"} /\ (step = "submit_valid" => errors = {})
    OBVIOUS
  <2> HIDE DEF step, errors
  <2>3. /\ next.pc = step /\ next.seen = q.seen /\ next.user = q.user
        /\ next.id = q.id /\ next.payload = q.payload /\ next.done = q.done
    BY DEF Registers
  <2> QED
    BY <1>2, <2>1, <2>2, <2>3 DEF errors
<1>3. CASE SubmitSections(w)
  <2> DEFINE next == [q EXCEPT !.pc = "submit_lock", !.seen = Nil]
  <2>1. \/ Finish(w, "failed") \/ Finish(w, "refused")
        \/ q.pc = "submit_valid" /\ request' = [request EXCEPT ![w] = next]
    BY <1>3 DEF SubmitSections
  <2>2. /\ next.pc = "submit_lock" /\ next.user = q.user
        /\ next.id = q.id /\ next.payload = q.payload /\ next.done = q.done
    BY DEF Registers
  <2> HIDE DEF next
  <2> QED
    BY <1>3, <2>1, <2>2 DEF TypeOK
<1>4. CASE SubmitLock(w)
  <2> DEFINE next == [q EXCEPT !.pc = "submit_refresh"]
  <2>1. Finish(w, "failed") \/ request' = [request EXCEPT ![w] = next]
    BY <1>4 DEF SubmitLock
  <2>2. /\ next.pc = "submit_refresh" /\ next.user = q.user
        /\ next.id = q.id /\ next.payload = q.payload /\ next.done = q.done
    BY DEF Registers
  <2> HIDE DEF next
  <2> QED
    BY <1>4, <2>1, <2>2 DEF TypeOK
<1> QED
  BY <1>1, <1>2, <1>3, <1>4

\* The steps of worker w.
Moves(w) == NewRequest(w) \/ Proceed(w) \/ TakeRow(w) \/ DeadlockAbort(w) \/ Crash(w)

LEMMA StartedRegisters ==
  ASSUME NEW u, NEW r, NEW step
  PROVE  LET p == Started(u, r, step)
         IN  /\ p.pc = step /\ p.user = u /\ p.id = r /\ p.seen = Nil
             /\ p.payload = NoCells /\ p.todo = {} /\ p.cur = Nil /\ p.done = {}
BY DEF Started, Idle

\* A request begins at the INSERT of a respondent without a draft, or at the
\* first step about an open draft of the respondent, or it is answered at once.
LEMMA NewRegisters ==
  ASSUME TypeOK, NEW w \in Workers, NewRequest(w)
  PROVE  \/ \E outcome \in Outcomes : Finish(w, outcome)
         \/ \E u \in Users, r \in ResponseIds :
              \/ /\ \A s \in ResponseIds : ~ OpenDraft(u, s)
                 /\ FreshId(r)
                 /\ request'[w] = Started(u, r, "create_insert")
              \/ /\ OpenDraft(u, r)
                 /\ \E step \in {"patch_open", "destroy_scan", "submit_fields"} :
                      request'[w] = Started(u, r, step)
<1> PICK u \in Users :
      \/ CreateResume(w, u)
      \/ CreateStart(w, u)
      \/ \E r \in ResponseIds :
            Refuse(w, u, r) \/ PatchLoad(w, u, r) \/ DestroyLoad(w, u, r) \/ SubmitLoad(w, u, r)
  BY DEF NewRequest
<1>1. CASE CreateResume(w, u) \/ \E r \in ResponseIds : Refuse(w, u, r)
  BY <1>1 DEF CreateResume, Refuse, Outcomes
<1>2. CASE CreateStart(w, u)
  BY <1>2 DEF CreateStart, TypeOK
<1>3. ASSUME NEW r \in ResponseIds, NEW step, Load(w, u, r, step)
      PROVE  OpenDraft(u, r) /\ request'[w] = Started(u, r, step)
  BY <1>3 DEF Load, TypeOK
<1> QED
  BY <1>1, <1>2, <1>3 DEF PatchLoad, DestroyLoad, SubmitLoad

LEMMA EndingSteps ==
  ASSUME NEW w \in Workers,
         \/ CreateInsert(w) \/ PatchCommit(w) \/ DestroyCommit(w) \/ SubmitRefresh(w)
         \/ DeadlockAbort(w) \/ Crash(w)
  PROVE  \E outcome \in Outcomes : Finish(w, outcome)
BY DEF CreateInsert, PatchCommit, DestroyCommit, SubmitRefresh, DeadlockAbort, Crash, Outcomes

\* A step is one of w, and then changes no other request, or changes none.
LEMMA StepOf ==
  ASSUME TypeOK, [Next]_vars
  PROVE  \/ request' = request
         \/ \E w \in Workers :
              Moves(w) /\ \A v \in Workers \ {w} : request'[v] = request[v]
<1>1. ASSUME NEW w \in Workers, Moves(w)
      PROVE  \A v \in Workers \ {w} : request'[v] = request[v]
  BY <1>1, OthersUnchanged DEF Moves
<1> QED
  BY <1>1 DEF Next, EditSurvey, FreezeSurvey, vars, Moves

--------------------------------------------------------------------------------
(* Whole bodies.                                                             *)

PatchSteps == {"patch_select", "patch_insert", "patch_update", "patch_commit"}

\* The key a PATCH has selected and not yet written.
InHand(q) == IF q.pc \in {"patch_insert", "patch_update"} THEN {q.cur} ELSE {}

\* The rows of a PATCH under way are those it has written, the one it is
\* writing and those still to write; at its COMMIT it has written them all.
Accounted(q) ==
  /\ q.pc = "patch_open" => q.done = {}
  /\ q.pc \in PatchSteps => StoredKeys(q.payload) = q.todo \cup InHand(q) \cup q.done
  /\ q.pc = "patch_commit" => q.todo = {}

PatchAccounted == \A w \in Workers : Accounted(request[w])

LEMMA WrittenKeys ==
  ASSUME TypeOK, NEW body \in AnswerDicts
  PROVE  StoredKeys(Written(body)) = DOMAIN body
<1>1. DOMAIN body \subseteq Keys
  BY BodyKeys
<1>2. ASSUME NEW k \in DOMAIN body
      PROVE  SetValue(body[k], IsSensitive(tree.fields, k)) # NoCell
  <2>1. body[k] \in Values /\ k \in Keys
    BY <1>1 DEF AnswerDicts
  <2>2. IsSensitive(tree.fields, k) \in BOOLEAN
    BY <2>1, LifecycleAssumption DEF IsSensitive, Fields, FieldSpec, TypeOK, Tree
  <2> QED
    BY <2>1, <2>2, SetValueType, LifecycleAssumption
<1> QED
  BY <1>1, <1>2 DEF StoredKeys, Written

LEMMA AccountedStep ==
  ASSUME TypeOK, NEW w \in Workers, Moves(w), Accounted(request[w])
  PROVE  Accounted(request'[w])
<1> DEFINE q == request[w]  p == request'[w]
<1> USE DEF Outcomes
<1>f. ASSUME NEW outcome \in Outcomes, Finish(w, outcome) PROVE Accounted(p)
  <2>1. p.pc = outcome
    BY <1>f, FinishRegisters DEF Idle
  <2> QED
    BY <2>1 DEF Accounted, PatchSteps
<1>1. CASE NewRequest(w)
  <2> SUFFICES ASSUME NEW u \in Users, NEW r \in ResponseIds,
                      NEW step \in {"create_insert", "patch_open", "destroy_scan", "submit_fields"},
                      p = Started(u, r, step)
               PROVE  Accounted(p)
    BY <1>1, <1>f, NewRegisters
  <2>1. p.pc = step /\ p.done = {}
    BY StartedRegisters
  <2> QED
    BY <2>1 DEF Accounted, PatchSteps
<1>2. CASE CreateInsert(w) \/ PatchCommit(w) \/ DestroyCommit(w) \/ SubmitRefresh(w)
           \/ DeadlockAbort(w) \/ Crash(w)
  BY <1>2, <1>f, EndingSteps
<1>3. CASE PatchOpen(w)
  <2> PICK body \in AnswerDicts :
        /\ p.pc = NextPatchStep(DOMAIN body)
        /\ p.payload = Written(body)
        /\ p.todo = DOMAIN body /\ p.done = q.done
    BY <1>3, OpenRegisters
  <2>1. q.done = {}
    BY <1>3 DEF PatchOpen, Accounted
  <2>2. StoredKeys(p.payload) = DOMAIN body
    BY WrittenKeys
  <2>3. p.pc \in {"patch_select", "patch_commit"} /\ (p.pc = "patch_commit" => p.todo = {})
    BY DEF NextPatchStep
  <2> QED
    BY <2>1, <2>2, <2>3 DEF Accounted, InHand
<1>4. CASE PatchSelect(w)
  <2> PICK k \in q.todo :
        /\ p.pc \in {"patch_insert", "patch_update"}
        /\ p.payload = q.payload
        /\ p.todo = q.todo \ {k} /\ p.cur = k /\ p.done = q.done
    BY <1>4, SelectRegisters
  <2>1. StoredKeys(q.payload) = q.todo \cup q.done
    BY <1>4 DEF PatchSelect, Accounted, PatchSteps, InHand
  <2> QED
    BY <2>1 DEF Accounted, InHand
<1>5. CASE PatchWrite(w)
  <2> SUFFICES ASSUME p.pc = NextPatchStep(q.todo), p.payload = q.payload,
                      p.todo = q.todo, p.done = q.done \cup {q.cur}
               PROVE  Accounted(p)
    BY <1>5, <1>f, WriteRegisters
  <2>1. StoredKeys(q.payload) = q.todo \cup {q.cur} \cup q.done
    BY <1>5 DEF PatchWrite, Accounted, PatchSteps, InHand
  <2>2. p.pc \in {"patch_select", "patch_commit"} /\ (p.pc = "patch_commit" => p.todo = {})
    BY DEF NextPatchStep
  <2> QED
    BY <2>1, <2>2 DEF Accounted, InHand
<1>6. CASE DestroyScan(w) \/ DestroyTake(w)
  <2>1. p.pc \in {"destroy_take", "destroy_commit"}
    BY <1>6, DestroyRegisters DEF DestroyScan, DestroyTake
  <2> QED
    BY <2>1 DEF Accounted, PatchSteps
<1>7. CASE SubmitFields(w) \/ SubmitAnswers(w) \/ SubmitSections(w) \/ SubmitLock(w)
  <2> SUFFICES ASSUME p.pc \in {"submit_answers", "submit_valid", "submit_invalid",
                                "submit_lock", "submit_refresh"}
               PROVE  Accounted(p)
    BY <1>7, <1>f, SubmitRegisters
  <2> QED
    BY DEF Accounted, PatchSteps
<1> QED
  BY <1>1, <1>2, <1>3, <1>4, <1>5, <1>6, <1>7 DEF Moves, Proceed, TakeRow

LEMMA PatchInvariant == Spec => []PatchAccounted
<1>1. Init => PatchAccounted
  BY DEF Init, Idle, PatchAccounted, Accounted, PatchSteps
<1>2. TypeOK /\ PatchAccounted /\ [Next]_vars => PatchAccounted'
  BY StepOf, AccountedStep DEF PatchAccounted
<1> QED
  BY <1>1, <1>2, TypeInvariant, PTL DEF Spec

\* The answers of a response change by a whole PATCH body, of a request that is
\* then answered, or vanish with the response: a transaction that fails, is
\* chosen as the victim of a deadlock or is lost changes none of them.
THEOREM WholeWritesTheorem == Spec => WholeWrites
<1> DEFINE Whole ==
      \A r \in ResponseIds :
        answers'[r] # answers[r] =>
          \/ answers'[r] = NoCells /\ ~ Exists(r)'
          \/ \E w \in Workers :
                /\ request[w].id = r
                /\ ~ Busy(w)'
                /\ \A k \in Keys :
                      answers'[r][k] = IF request[w].payload[k] = NoCell
                                       THEN answers[r][k]
                                       ELSE request[w].payload[k]
<1>1. TypeOK /\ PatchAccounted /\ [Next]_vars => Whole
  <2> SUFFICES ASSUME TypeOK, PatchAccounted, [Next]_vars, NEW r \in ResponseIds,
                      answers'[r] # answers[r]
               PROVE  \/ answers'[r] = NoCells /\ ~ Exists(r)'
                      \/ \E w \in Workers :
                            /\ request[w].id = r
                            /\ ~ Busy(w)'
                            /\ \A k \in Keys :
                                  answers'[r][k] = IF request[w].payload[k] = NoCell
                                                   THEN answers[r][k]
                                                   ELSE request[w].payload[k]
    OBVIOUS
  <2> PICK w \in Workers : PatchCommit(w) \/ DestroyCommit(w)
    BY OnlyWritesChangeRows DEF Writes, CreateInsert, SubmitLock
  <2> DEFINE q == request[w]
  <2>1. q.id = r /\ q.id \in ResponseIds
    BY RequestOf DEF PatchCommit, DestroyCommit, TypeOK
  <2>2. CASE DestroyCommit(w)
    BY <2>1, <2>2 DEF DestroyCommit, TypeOK, Exists
  <2>3. CASE PatchCommit(w)
    <3>1. StoredKeys(q.payload) = q.done
      BY <2>3 DEF PatchCommit, PatchAccounted, Accounted, PatchSteps, InHand
    <3>2. Finish(w, "ok")
      BY <2>3 DEF PatchCommit
    <3>3. answers'[r] = [k \in Keys |-> IF k \in q.done THEN q.payload[k] ELSE answers[r][k]]
      BY <2>1, <2>3 DEF PatchCommit, TypeOK
    <3>4. ~ Busy(w)'
      BY <3>2, FinishRegisters DEF Outcomes
    <3> QED
      BY <2>1, <3>1, <3>3, <3>4 DEF StoredKeys
  <2> QED
    BY <2>2, <2>3
<1>2. TypeOK /\ PatchAccounted /\ [Next]_vars => [Whole]_vars
  BY <1>1
<1> QED
  BY <1>2, TypeInvariant, PatchInvariant, PTL DEF Spec, WholeWrites

--------------------------------------------------------------------------------
(* One request at a time for each respondent.                                *)

\* A PATCH, DELETE or submit that has not written the row of its response is
\* about an open draft of its own respondent.
OwnDraft ==
  \A w \in Workers :
    Busy(w) /\ request[w].pc \notin {"create_insert", "submit_refresh"} =>
      OpenDraft(request[w].user, request[w].id)

\* A request about to insert a draft was right to find none.
NoDraftYet ==
  \A w \in Workers : At(w, "create_insert") =>
    \A s \in ResponseIds : ~ OpenDraft(request[w].user, s)

\* The fields a submit has read are those of the survey, and the answers it
\* accepted are those stored.
SubmitUpToDate ==
  \A w \in Workers :
    LET q == request[w]
    IN  /\ q.pc \in {"submit_answers", "submit_valid", "submit_invalid"} => q.seen = tree
        /\ q.pc \in {"submit_valid", "submit_lock"} =>
              SubmitErrors(tree.fields, answers[q.id]) = {}

\* What a PATCH is about to write comes from a body, under the fields of the survey.
PayloadsWritten ==
  \A w \in Workers : \E body \in AnswerDicts : request[w].payload = Written(body)

SerialInv ==
  /\ TypeOK
  /\ frozen = TRUE
  /\ SerialClients
  /\ InsertsFresh
  /\ PatchAccounted
  /\ OwnDraft
  /\ NoDraftYet
  /\ SubmitUpToDate
  /\ PayloadsWritten
  /\ SubmittedValid

LEMMA StepUser ==
  ASSUME TypeOK, NEW w \in Workers, Proceed(w) \/ TakeRow(w)
  PROVE  \/ \E outcome \in Outcomes : Finish(w, outcome)
         \/ /\ request'[w].user = request[w].user /\ request'[w].id = request[w].id
            /\ request'[w].pc # "create_insert"
            /\ Busy(w) /\ request[w].pc \notin {"create_insert", "submit_refresh"}
<1> DEFINE q == request[w]  p == request'[w]
<1> USE DEF Outcomes
<1>2. CASE CreateInsert(w) \/ PatchCommit(w) \/ DestroyCommit(w) \/ SubmitRefresh(w)
  BY <1>2, EndingSteps
<1>3. CASE PatchOpen(w)
  BY <1>3, OpenRegisters DEF PatchOpen, NextPatchStep, Busy, Steps
<1>4. CASE PatchSelect(w)
  BY <1>4, SelectRegisters DEF PatchSelect, Busy, Steps
<1>5. CASE PatchWrite(w)
  BY <1>5, WriteRegisters DEF PatchWrite, NextPatchStep, Busy, Steps
<1>6. CASE DestroyScan(w)
  BY <1>6, DestroyRegisters DEF DestroyScan, Busy, Steps
<1>7. CASE DestroyTake(w)
  BY <1>7, DestroyRegisters DEF DestroyTake, Busy, Steps
<1>8. CASE SubmitFields(w) \/ SubmitAnswers(w) \/ SubmitSections(w) \/ SubmitLock(w)
  <2>1. Busy(w) /\ request[w].pc \notin {"create_insert", "submit_refresh"}
    BY <1>8 DEF SubmitFields, SubmitAnswers, SubmitSections, SubmitLock, Busy, Steps
  <2> QED
    BY <1>8, <2>1, SubmitRegisters DEF SubmitFields, SubmitAnswers
<1> QED
  BY <1>2, <1>3, <1>4, <1>5, <1>6, <1>7, <1>8 DEF Proceed, TakeRow

\* The request that writes a row is the only one about it, but for a request
\* that is about to read it back.
LEMMA OnlyWriter ==
  ASSUME SerialInv, NEW v \in Workers, Writes(v), NEW w \in Workers, w # v,
         Busy(w), request[w].pc # "submit_refresh"
  PROVE  request[w].id # request[v].id
<1> SUFFICES ASSUME request[w].id = request[v].id PROVE FALSE
  OBVIOUS
<1> USE DEF SerialInv
<1>1. CASE At(w, "create_insert")
  <2>1. request[v].id # request[w].id
    BY <1>1 DEF InsertsFresh
  <2> QED
    BY <2>1
<1>2. CASE ~ At(w, "create_insert")
  <2>1. OpenDraft(request[w].user, request[w].id)
    BY <1>2 DEF OwnDraft
  <2>2. ~ CreateInsert(v)
    BY <2>1 DEF CreateInsert, InsertsFresh, OpenDraft, Draft, Exists
  <2>3. Busy(v) /\ request[v].pc \notin {"create_insert", "submit_refresh"}
    BY <2>2 DEF Writes, PatchCommit, DestroyCommit, SubmitLock, Busy, Steps
  <2>4. OpenDraft(request[v].user, request[v].id)
    BY <2>3 DEF OwnDraft
  <2>5. request[w].user = request[v].user
    BY <2>1, <2>4 DEF OpenDraft
  <2> QED
    BY <2>3, <2>5 DEF SerialClients
<1> QED
  BY <1>1, <1>2

\* A step of others leaves the row and the answers a request is about alone.
LEMMA OwnRowStays ==
  ASSUME SerialInv, [Next]_vars, NEW w \in Workers, ~ Writes(w),
         Busy(w), request[w].pc # "submit_refresh"
  PROVE  /\ responses'[request[w].id] = responses[request[w].id]
         /\ answers'[request[w].id] = answers[request[w].id]
<1> DEFINE r == request[w].id
<1>1. r \in ResponseIds
  BY DEF SerialInv, TypeOK, Request, Busy
<1>2. CASE UNCHANGED <<responses, answers>>
  BY <1>2
<1>3. ASSUME NEW v \in Workers, Writes(v)
      PROVE  responses'[r] = responses[r] /\ answers'[r] = answers[r]
  <2>1. request[v].id # r
    BY <1>3, OnlyWriter
  <2> QED
    BY <1>1, <1>3, <2>1 DEF Writes, CreateInsert, PatchCommit, DestroyCommit, SubmitLock,
                            SerialInv, TypeOK
<1> QED
  BY <1>2, <1>3, OnlyWritesChangeRows

\* What the steps that write no row leave alone.
LEMMA MovesKeepRows ==
  ASSUME NEW w \in Workers, Moves(w), ~ Writes(w)
  PROVE  UNCHANGED <<responses, answers>>
<1>1. CASE NewRequest(w) \/ DeadlockAbort(w) \/ Crash(w)
  BY <1>1 DEF NewRequest, CreateResume, CreateStart, Refuse, Load, PatchLoad, DestroyLoad,
              SubmitLoad, DeadlockAbort, Crash
<1>2. CASE Proceed(w)
  BY <1>2 DEF Writes, Proceed, PatchOpen, PatchSelect, DestroyScan,
              SubmitFields, SubmitAnswers, SubmitSections, SubmitRefresh
<1>3. CASE TakeRow(w)
  BY <1>3 DEF TakeRow, PatchWrite, DestroyTake
<1> QED
  BY <1>1, <1>2, <1>3 DEF Moves

\* A worker that has written a row answers, or reads the row back.
LEMMA AfterWrite ==
  ASSUME TypeOK, NEW w \in Workers, Writes(w), Busy(w)'
  PROVE  SubmitLock(w) /\ request'[w].pc = "submit_refresh"
<1>1. ~ \E outcome \in Outcomes : Finish(w, outcome)
  BY FinishRegisters
<1>2. SubmitLock(w)
  BY <1>1, EndingSteps DEF Writes
<1>3. ~ Finish(w, "failed") /\ ~ Finish(w, "refused")
  BY <1>1 DEF Outcomes
<1> QED
  BY <1>2, <1>3, SubmitRegisters DEF SubmitLock, SubmitFields, SubmitAnswers, SubmitSections

LEMMA OwnDraftStep ==
  ASSUME SerialInv, [Next]_vars
  PROVE  OwnDraft'
<1> SUFFICES ASSUME NEW w \in Workers, Busy(w)',
                    request'[w].pc \notin {"create_insert", "submit_refresh"}
             PROVE  OpenDraft(request[w].user, request[w].id)'
  BY DEF OwnDraft
<1> USE DEF SerialInv
<1>1. ~ Writes(w)
  BY AfterWrite
<1>2. CASE request'[w] = request[w]
  <2>1. Busy(w) /\ request[w].pc \notin {"create_insert", "submit_refresh"}
    BY <1>2 DEF Busy
  <2>2. OpenDraft(request[w].user, request[w].id)
    BY <2>1 DEF OwnDraft
  <2>3. responses'[request[w].id] = responses[request[w].id]
    BY <1>1, <2>1, OwnRowStays
  <2> QED
    BY <1>2, <2>2, <2>3 DEF OpenDraft, Draft, Exists
<1>3. CASE Moves(w)
  <2>1. responses' = responses
    BY <1>1, <1>3, MovesKeepRows
  <2>2. ~ \E outcome \in Outcomes : Finish(w, outcome)
    BY FinishRegisters
  <2>3. OpenDraft(request'[w].user, request'[w].id)
    <3>1. CASE NewRequest(w)
      <4>1. PICK u \in Users, r \in ResponseIds :
              \/ request'[w] = Started(u, r, "create_insert")
              \/ OpenDraft(u, r) /\ \E step : request'[w] = Started(u, r, step)
        BY <2>2, <3>1, NewRegisters
      <4> QED
        BY <4>1, StartedRegisters
    <3>2. CASE Proceed(w) \/ TakeRow(w)
      <4>1. /\ request'[w].user = request[w].user /\ request'[w].id = request[w].id
            /\ Busy(w) /\ request[w].pc \notin {"create_insert", "submit_refresh"}
        BY <2>2, <3>2, StepUser
      <4> QED
        BY <4>1 DEF OwnDraft
    <3> QED
      BY <1>3, <2>2, <3>1, <3>2, EndingSteps DEF Moves
  <2> QED
    BY <2>1, <2>3 DEF OpenDraft, Draft, Exists
<1> QED
  BY <1>2, <1>3, StepOf

LEMMA NoDraftStep ==
  ASSUME SerialInv, [Next]_vars
  PROVE  NoDraftYet'
<1> SUFFICES ASSUME NEW w \in Workers, At(w, "create_insert")', NEW s \in ResponseIds,
                    OpenDraft(request[w].user, s)'
             PROVE  FALSE
  BY DEF NoDraftYet
<1> USE DEF SerialInv
<1>0. Busy(w)'
  BY DEF Busy, Steps
<1>1. ~ Writes(w)
  BY <1>0, AfterWrite
<1>2. CASE request'[w] = request[w]
  <2> DEFINE u == request[w].user
  <2>1. Busy(w) /\ At(w, "create_insert")
    BY <1>2 DEF Busy, Steps
  <2>2. ~ OpenDraft(u, s)
    BY <2>1 DEF NoDraftYet
  <2>3. CASE responses[s] # NoRow
    <3>1. RowMoves(s)
      BY RowsMove
    <3>2. Exists(s) => responses[s] \in Row
      BY DEF TypeOK, Exists
    <3> QED
      BY <1>2, <2>2, <2>3, <3>1, <3>2 DEF RowMoves, OpenDraft, Draft, Exists, Submitted, Row
  <2>4. CASE responses[s] = NoRow
    <3>1. PICK v \in Workers : Writes(v) /\ request[v].id = s
      BY <2>4, OtherRowsStay DEF OpenDraft, Draft, Exists
    <3>2. CreateInsert(v)
      BY <1>2, <2>4, <3>1 DEF Writes, PatchCommit, DestroyCommit, SubmitLock, TypeOK,
                              OpenDraft, Draft, Exists
    <3>3. v # w
      BY <1>1, <3>1
    <3>4. request[v].user = u /\ Busy(v)
      BY <1>2, <2>4, <3>1, <3>2 DEF CreateInsert, TypeOK, OpenDraft, Draft, Exists, Busy, Steps
    <3> QED
      BY <2>1, <3>3, <3>4 DEF SerialClients
  <2> QED
    BY <2>3, <2>4
<1>3. CASE Moves(w)
  <2>1. PICK u \in Users : CreateStart(w, u)
    BY <1>3, InsertStarts DEF Moves
  <2>2. request'[w].user = u
    BY <2>1, StartedRegisters DEF CreateStart, TypeOK
  <2> QED
    BY <2>1, <2>2 DEF CreateStart, OpenDraft, Draft, Exists
<1> QED
  BY <1>2, <1>3, StepOf

LEMMA UpToDateStep ==
  ASSUME SerialInv, [Next]_vars
  PROVE  SubmitUpToDate'
<1> SUFFICES ASSUME NEW w \in Workers,
                    request'[w].pc \in {"submit_answers", "submit_valid", "submit_invalid",
                                        "submit_lock"}
             PROVE  /\ request'[w].pc # "submit_lock" => request'[w].seen = tree'
                    /\ request'[w].pc \in {"submit_valid", "submit_lock"} =>
                          SubmitErrors(tree'.fields, answers'[request'[w].id]) = {}
  BY DEF SubmitUpToDate
<1> DEFINE q == request[w]  p == request'[w]
<1> USE DEF SerialInv
<1>0. tree' = tree /\ Busy(w)'
  BY FrozenTree DEF Busy, Steps
<1>1. ~ Writes(w)
  BY <1>0, AfterWrite
<1>2. CASE p = q
  <2>1. Busy(w) /\ q.pc # "submit_refresh"
    BY <1>2 DEF Busy, Steps
  <2>2. answers'[q.id] = answers[q.id]
    BY <1>1, <2>1, OwnRowStays
  <2> QED
    BY <1>0, <1>2, <2>2 DEF SubmitUpToDate
<1>3. CASE Moves(w)
  <2>1. answers' = answers
    BY <1>1, <1>3, MovesKeepRows
  <2>2. ~ \E outcome \in Outcomes : Finish(w, outcome)
    BY <1>0, FinishRegisters
  <2>3. ~ NewRequest(w)
    BY <2>2, NewRegisters, StartedRegisters
  <2>4. ~ PatchOpen(w) /\ ~ PatchSelect(w) /\ ~ PatchWrite(w)
    BY <2>2, OpenRegisters, SelectRegisters, WriteRegisters DEF NextPatchStep, Outcomes
  <2>5. ~ DestroyScan(w) /\ ~ DestroyTake(w)
    BY DestroyRegisters DEF DestroyScan, DestroyTake
  <2>6. SubmitFields(w) \/ SubmitAnswers(w) \/ SubmitSections(w) \/ SubmitLock(w)
    BY <1>3, <2>2, <2>3, <2>4, <2>5, EndingSteps DEF Moves, Proceed, TakeRow
  <2>7. \/ SubmitFields(w) /\ p.pc = "submit_answers" /\ p.seen = tree
        \/ /\ SubmitAnswers(w) /\ p.seen = q.seen
           /\ p.pc = "submit_valid" => SubmitErrors(q.seen.fields, answers[q.id]) = {}
           /\ p.pc # "submit_lock"
        \/ q.pc = "submit_valid" /\ p.pc = "submit_lock"
    BY <2>2, <2>6, SubmitRegisters DEF Outcomes
  <2>8. p.id = q.id
    BY <2>2, <2>6, SubmitRegisters DEF Outcomes
  <2>9. SubmitAnswers(w) => q.seen = tree
    BY DEF SubmitAnswers, SubmitUpToDate
  <2>10. q.pc = "submit_valid" => SubmitErrors(tree.fields, answers[q.id]) = {}
    BY DEF SubmitUpToDate
  <2> QED
    BY <1>0, <2>1, <2>7, <2>8, <2>9, <2>10
<1> QED
  BY <1>2, <1>3, StepOf

LEMMA PayloadsStep ==
  ASSUME SerialInv, [Next]_vars
  PROVE  PayloadsWritten'
<1> USE DEF SerialInv
<1>1. tree' = tree
  BY FrozenTree
<1> SUFFICES ASSUME NEW w \in Workers
             PROVE  \E body \in AnswerDicts : request'[w].payload = Written(body)
  BY <1>1 DEF PayloadsWritten, Written
<1>2. NoCells = Written([k \in {} |-> k]) /\ [k \in {} |-> k] \in AnswerDicts
  <2>1. [k \in {} |-> k] \in [{} -> Values]
    OBVIOUS
  <2> QED
    BY <2>1 DEF NoCells, Written, AnswerDicts
<1>3. CASE request'[w] = request[w]
  BY <1>3 DEF PayloadsWritten
<1>4. CASE PatchOpen(w)
  BY <1>4, OpenRegisters
<1>5. CASE Moves(w) /\ ~ PatchOpen(w)
  BY <1>2, <1>5, PayloadKept DEF Moves, PayloadsWritten
<1> QED
  BY <1>3, <1>4, <1>5, StepOf

LEMMA ValidStep ==
  ASSUME SerialInv, [Next]_vars
  PROVE  SubmittedValid'
<1> USE DEF SerialInv
<1>1. tree' = tree
  BY FrozenTree
<1> SUFFICES ASSUME NEW r \in ResponseIds, Submitted(r)'
             PROVE  SubmitErrors(tree.fields, answers'[r]) = {}
  BY <1>1 DEF SubmittedValid
<1>2. CASE responses'[r] = responses[r] /\ answers'[r] = answers[r]
  BY <1>2 DEF SubmittedValid, Submitted, Exists
<1>3. ASSUME NEW w \in Workers, Writes(w)
      PROVE  SubmitErrors(tree.fields, answers'[r]) = {}
  <2> DEFINE q == request[w]
  <2>0. q.id \in ResponseIds
    BY <1>3, RequestOf DEF Writes, CreateInsert, PatchCommit, DestroyCommit, SubmitLock
  <2>1. CASE q.id # r
    BY <1>2, <1>3, <2>0, <2>1
    DEF Writes, CreateInsert, PatchCommit, DestroyCommit, SubmitLock, TypeOK
  <2>2. CASE CreateInsert(w) /\ q.id = r
    BY <1>2, <2>2 DEF CreateInsert, TypeOK, Submitted, Exists
  <2>3. CASE PatchCommit(w) /\ q.id = r
    <3>1. Draft(r)
      BY <2>3 DEF PatchCommit, OwnDraft, OpenDraft, Busy, Steps
    <3> QED
      BY <2>3, <3>1 DEF PatchCommit, Draft, Submitted, Exists
  <2>4. CASE DestroyCommit(w) /\ q.id = r
    BY <1>2, <2>4 DEF DestroyCommit, TypeOK, Submitted, Exists
  <2>5. CASE SubmitLock(w) /\ q.id = r
    BY <2>5 DEF SubmitLock, SubmitUpToDate
  <2> QED
    BY <1>3, <2>1, <2>2, <2>3, <2>4, <2>5 DEF Writes
<1> QED
  BY <1>2, <1>3, OnlyWritesChangeRows

LEMMA SerialInit ==
  ASSUME Init, frozen = TRUE, TypeOK
  PROVE  SerialInv
<1>1. \A w \in Workers : request[w] = Idle("ok") /\ ~ Busy(w)
  BY DEF Init, Idle, Busy, Steps
<1>2. SerialClients /\ InsertsFresh /\ PatchAccounted /\ OwnDraft /\ NoDraftYet /\ SubmitUpToDate
  BY <1>1 DEF Idle, SerialClients, InsertsFresh, PatchAccounted, Accounted, PatchSteps,
              OwnDraft, NoDraftYet, SubmitUpToDate
<1>3. PayloadsWritten
  <2>1. [k \in {} |-> k] \in [{} -> Values]
    OBVIOUS
  <2>2. NoCells = Written([k \in {} |-> k]) /\ [k \in {} |-> k] \in AnswerDicts
    BY <2>1 DEF NoCells, Written, AnswerDicts
  <2> QED
    BY <1>1, <2>2 DEF Idle, PayloadsWritten
<1>4. SubmittedValid
  BY DEF Init, SubmittedValid, Submitted, Exists
<1> QED
  BY <1>2, <1>3, <1>4 DEF SerialInv

LEMMA SerialInvariant == SerialSpec => []SerialInv
<1>1. TypeOK' /\ SerialInv /\ [Next /\ SerialClients']_vars => SerialInv'
  <2> SUFFICES ASSUME TypeOK', SerialInv, [Next /\ SerialClients']_vars PROVE SerialInv'
    OBVIOUS
  <2> USE DEF SerialInv
  <2>1. [Next]_vars
    OBVIOUS
  <2>2. SerialClients'
    BY DEF vars, SerialClients, Busy
  <2>3. (frozen = TRUE)'
    BY <2>1, FrozenTree
  <2>4. InsertsFresh' /\ PatchAccounted'
    BY <2>1, FreshStep, StepOf, AccountedStep DEF PatchAccounted
  <2> QED
    BY <2>1, <2>2, <2>3, <2>4, OwnDraftStep, NoDraftStep, UpToDateStep, PayloadsStep, ValidStep
<1>2. [Next /\ SerialClients']_vars => [Next]_vars
  OBVIOUS
<1> QED
  BY <1>1, <1>2, SerialInit, TypeInvariant, PTL DEF SerialSpec, Spec

\* A submitted response satisfies the rules of the survey, when each respondent
\* sends one request at a time: the answers submit_response validated are those
\* stored when it writes the row, although it read them in another statement.
THEOREM SubmittedValidTheorem == SerialSpec => []SubmittedValid
BY SerialInvariant, PTL DEF SerialInv

--------------------------------------------------------------------------------
(* One request at a time meets no unhandled exception.                       *)

DestroySteps == {"destroy_take", "destroy_commit"}

\* What request w has found of the answers and the row it is about is still so,
\* and only a PATCH or a DELETE holds locks.
Undisturbed(w) ==
  LET q == request[w]
  IN  /\ q.done # {} => q.pc \in PatchSteps \cup DestroySteps
      /\ q.pc = "patch_insert" => answers[q.id][q.cur] = NoCell
      /\ q.pc = "destroy_take" => StoredKeys(answers[q.id]) \subseteq q.todo \cup {q.cur} \cup q.done
      /\ q.pc = "destroy_commit" => StoredKeys(answers[q.id]) \subseteq q.done
      /\ q.pc = "submit_refresh" => Submitted(q.id)

LEMMA SubmittedRowStays ==
  ASSUME SerialInv, [Next]_vars, NEW r \in ResponseIds, Submitted(r)
  PROVE  responses'[r] = responses[r]
<1> USE DEF SerialInv
<1> SUFFICES ASSUME NEW w \in Workers, Writes(w) PROVE request[w].id # r
  BY OtherRowsStay
<1>1. CASE CreateInsert(w)
  BY <1>1 DEF CreateInsert, InsertsFresh, Submitted, Exists
<1>2. CASE ~ CreateInsert(w)
  <2>1. OpenDraft(request[w].user, request[w].id)
    BY <1>2 DEF Writes, PatchCommit, DestroyCommit, SubmitLock, OwnDraft, Busy, Steps
  <2> QED
    BY <2>1 DEF OpenDraft, Draft, Submitted
<1> QED
  BY <1>1, <1>2

LEMMA UndisturbedByOthers ==
  ASSUME SerialInv, [Next]_vars, NEW w \in Workers, Undisturbed(w),
         request'[w] = request[w]
  PROVE  Undisturbed(w)'
<1> DEFINE q == request[w]
<1> USE DEF SerialInv
<1>1. CASE q.pc \in {"patch_insert", "destroy_take", "destroy_commit"}
  <2>1. Busy(w) /\ Busy(w)' /\ q.pc \notin {"submit_refresh", "submit_lock"}
    BY <1>1 DEF Busy, Steps
  <2>2. ~ Writes(w)
    BY <2>1, AfterWrite DEF SubmitLock
  <2>3. answers'[q.id] = answers[q.id]
    BY <2>1, <2>2, OwnRowStays
  <2> QED
    BY <1>1, <2>3 DEF Undisturbed
<1>2. CASE q.pc = "submit_refresh"
  <2>1. q.id \in ResponseIds /\ Submitted(q.id)
    BY <1>2 DEF Undisturbed, TypeOK, Request, Steps
  <2>2. responses'[q.id] = responses[q.id]
    BY <2>1, SubmittedRowStays
  <2> QED
    BY <1>2, <2>1, <2>2 DEF Undisturbed, Submitted, Exists
<1> QED
  BY <1>1, <1>2 DEF Undisturbed

LEMMA UndisturbedByOwnStep ==
  ASSUME SerialInv, NEW w \in Workers, Moves(w), Undisturbed(w)
  PROVE  Undisturbed(w)'
<1> DEFINE q == request[w]  p == request'[w]
<1> USE DEF SerialInv, Outcomes
<1>f. ASSUME NEW outcome \in Outcomes, Finish(w, outcome) PROVE Undisturbed(w)'
  <2>1. p.pc = outcome /\ p.done = {}
    BY <1>f, FinishRegisters DEF Idle
  <2> QED
    BY <2>1 DEF Undisturbed
<1>1. CASE NewRequest(w)
  <2> SUFFICES ASSUME NEW u \in Users, NEW r \in ResponseIds,
                      NEW step \in {"create_insert", "patch_open", "destroy_scan", "submit_fields"},
                      p = Started(u, r, step)
               PROVE  Undisturbed(w)'
    BY <1>1, <1>f, NewRegisters
  <2>1. p.pc = step /\ p.done = {}
    BY StartedRegisters
  <2> QED
    BY <2>1 DEF Undisturbed
<1>2. CASE CreateInsert(w) \/ PatchCommit(w) \/ DestroyCommit(w) \/ SubmitRefresh(w)
           \/ DeadlockAbort(w) \/ Crash(w)
  BY <1>2, <1>f, EndingSteps
<1>3. CASE PatchOpen(w)
  <2>1. p.pc \in {"patch_select", "patch_commit"}
    BY <1>3, OpenRegisters DEF NextPatchStep
  <2> QED
    BY <2>1 DEF Undisturbed, PatchSteps
<1>4. CASE PatchSelect(w)
  <2>1. /\ p.pc \in {"patch_insert", "patch_update"} /\ p.id = q.id
        /\ p.pc = "patch_insert" => answers[q.id][p.cur] = NoCell
    BY <1>4, SelectRegisters
  <2>2. answers' = answers
    BY <1>4 DEF PatchSelect
  <2> QED
    BY <2>1, <2>2 DEF Undisturbed, PatchSteps
<1>5. CASE PatchWrite(w)
  <2> SUFFICES ASSUME p.pc = NextPatchStep(q.todo) PROVE Undisturbed(w)'
    BY <1>5, <1>f, WriteRegisters
  <2>1. p.pc \in {"patch_select", "patch_commit"}
    BY DEF NextPatchStep
  <2> QED
    BY <2>1 DEF Undisturbed, PatchSteps
<1>6. CASE DestroyScan(w) \/ DestroyTake(w)
  <2>1. PICK rest, gone : /\ DestroyNext(w, rest, gone)
                          /\ StoredKeys(answers[q.id]) \subseteq rest \cup gone
    <3>1. CASE DestroyScan(w)
      BY <3>1 DEF DestroyScan
    <3>2. CASE DestroyTake(w)
      <4>1. StoredKeys(answers[q.id]) \subseteq q.todo \cup (q.done \cup {q.cur})
        BY <3>2 DEF DestroyTake, Undisturbed
      <4> QED
        BY <3>2, <4>1 DEF DestroyTake
    <3> QED
      BY <1>6, <3>1, <3>2
  <2>2. /\ p.pc \in DestroySteps /\ p.id = q.id /\ p.done = gone
        /\ p.pc = "destroy_commit" => rest = {}
        /\ p.pc = "destroy_take" => p.todo = rest \ {p.cur}
    BY <2>1, DestroyRegisters DEF DestroySteps
  <2>3. answers' = answers
    BY <1>6 DEF DestroyScan, DestroyTake
  <2> QED
    BY <2>1, <2>2, <2>3 DEF Undisturbed, DestroySteps
<1>7. CASE SubmitFields(w) \/ SubmitAnswers(w) \/ SubmitSections(w) \/ SubmitLock(w)
  <2>1. q.done = {}
    BY <1>7 DEF Undisturbed, PatchSteps, DestroySteps, SubmitFields, SubmitAnswers,
                SubmitSections, SubmitLock
  <2> SUFFICES ASSUME p.done = {}, p.id = q.id,
                      \/ p.pc \in {"submit_answers", "submit_valid", "submit_invalid", "submit_lock"}
                      \/ SubmitLock(w) /\ p.pc = "submit_refresh"
               PROVE  Undisturbed(w)'
    BY <1>7, <1>f, <2>1, SubmitRegisters
  <2>2. ASSUME SubmitLock(w)
        PROVE  /\ responses'[q.id] \notin {NoRow, Gone}
               /\ responses'[q.id].status = "submitted"
    <3>1. OpenDraft(q.user, q.id) /\ q.id \in ResponseIds
      BY <2>2, RequestOf DEF SubmitLock, OwnDraft, Busy, Steps
    <3>2. responses[q.id] \in Row /\ Exists(q.id)
      BY <3>1 DEF OpenDraft, Draft, Exists, TypeOK
    <3>3. responses'[q.id] = [responses[q.id] EXCEPT !.status = "submitted", !.submitted_at = w]
      BY <2>2, <3>1, <3>2 DEF SubmitLock, TypeOK
    <3>4. responses'[q.id] \in Row /\ responses'[q.id].status = "submitted"
      BY <3>2, <3>3 DEF Row
    <3> QED
      BY <3>4, RowAssumption
  <2> QED
    BY <2>2 DEF Undisturbed, Submitted, Exists
<1> QED
  BY <1>1, <1>2, <1>3, <1>4, <1>5, <1>6, <1>7 DEF Moves, Proceed, TakeRow

\* No request waits for a row of answers.
LEMMA NobodyWaits ==
  ASSUME SerialInv, \A w \in Workers : Undisturbed(w), NEW w \in Workers
  PROVE  Holders(w) = {}
<1> USE DEF SerialInv
<1> SUFFICES ASSUME NEW v \in Workers, v # w, request[v].id = request[w].id,
                    request[w].pc \in WriteSteps, request[v].done # {}
             PROVE  FALSE
  BY DEF Holders
<1>1. request[v].pc \in PatchSteps \cup DestroySteps
  BY DEF Undisturbed
<1>2. OpenDraft(request[v].user, request[v].id) /\ Busy(v)
  BY <1>1 DEF PatchSteps, DestroySteps, OwnDraft, Busy, Steps
<1>3. OpenDraft(request[w].user, request[w].id) /\ Busy(w)
  BY DEF WriteSteps, OwnDraft, Busy, Steps
<1> QED
  BY <1>2, <1>3 DEF OpenDraft, SerialClients

LEMMA NothingFails ==
  ASSUME SerialInv, \A w \in Workers : Undisturbed(w), NEW w \in Workers,
         Proceed(w) \/ TakeRow(w) \/ DeadlockAbort(w)
  PROVE  request'[w].pc # "failed"
<1> DEFINE q == request[w]  p == request'[w]
<1> USE DEF SerialInv
<1>f. ASSUME Finish(w, "ok") \/ Finish(w, "refused") PROVE p.pc # "failed"
  BY <1>f, FinishRegisters DEF Outcomes, Idle
<1>0. ASSUME q.pc \in Steps \ {"create_insert", "submit_refresh"} PROVE Exists(q.id)
  BY <1>0 DEF OwnDraft, OpenDraft, Draft, Busy
<1>1. CASE CreateInsert(w)
  <2>1. Finish(w, "ok")
    BY <1>1 DEF NoDraftYet, CreateInsert
  <2> QED
    BY <1>f, <2>1
<1>2. CASE PatchOpen(w) \/ PatchSelect(w)
  BY <1>2, OpenRegisters, SelectRegisters DEF NextPatchStep
<1>3. CASE PatchWrite(w)
  <2> DEFINE next == [q EXCEPT !.done = q.done \cup {q.cur}, !.cur = Nil,
                               !.pc = NextPatchStep(q.todo)]
  <2>1. request' = [request EXCEPT ![w] = next]
    BY <1>3 DEF PatchWrite, Undisturbed
  <2>2. next.pc # "failed"
    BY DEF TypeOK, Request, Registers, NextPatchStep
  <2> HIDE DEF next
  <2> QED
    BY <2>1, <2>2 DEF TypeOK
<1>4. CASE PatchCommit(w)
  <2>1. Finish(w, "ok")
    BY <1>0, <1>4 DEF PatchCommit, Steps
  <2> QED
    BY <1>f, <2>1
<1>5. CASE DestroyScan(w) \/ DestroyTake(w)
  BY <1>5, DestroyRegisters DEF DestroyScan, DestroyTake
<1>6. CASE DestroyCommit(w)
  <2>1. Finish(w, "ok")
    BY <1>6 DEF DestroyCommit, Undisturbed
  <2> QED
    BY <1>f, <2>1
<1>7. CASE SubmitFields(w)
  BY <1>7 DEF SubmitFields, TypeOK, Request, Registers
<1>8. CASE SubmitAnswers(w)
  BY <1>8 DEF SubmitAnswers, TypeOK, Request, Registers
<1>9. CASE SubmitSections(w)
  <2> DEFINE next == [q EXCEPT !.pc = "submit_lock", !.seen = Nil]
  <2>1. q.seen = tree
    BY <1>9 DEF SubmitSections, SubmitUpToDate
  <2>2. Finish(w, "refused") \/ request' = [request EXCEPT ![w] = next]
    BY <1>9, <2>1 DEF SubmitSections
  <2>3. next.pc # "failed"
    BY DEF TypeOK, Request, Registers
  <2> HIDE DEF next
  <2> QED
    BY <1>f, <2>2, <2>3 DEF TypeOK
<1>10. CASE SubmitLock(w)
  <2>1. Exists(q.id)
    BY <1>0, <1>10 DEF SubmitLock, Steps
  <2> QED
    BY <1>10, <2>1 DEF SubmitLock, TypeOK, Request, Registers
<1>11. CASE SubmitRefresh(w)
  <2>1. Finish(w, "ok")
    BY <1>11 DEF SubmitRefresh, Undisturbed, Submitted
  <2> QED
    BY <1>f, <2>1
<1>12. CASE DeadlockAbort(w)
  BY <1>12, NobodyWaits DEF DeadlockAbort, Deadlocked
<1> QED
  BY <1>1, <1>2, <1>3, <1>4, <1>5, <1>6, <1>7, <1>8, <1>9, <1>10, <1>11, <1>12
  DEF Proceed, TakeRow

\* A respondent who sends one request at a time never meets an unhandled exception,
\* unless the worker is lost: no unique index, foreign key, missing row or
\* deadlock, which the handlers leave uncaught, is in the way of that request.
THEOREM OneAtATimeTheorem == SerialSpec => OneAtATimeSucceeds
<1> DEFINE Smooth == \A w \in Workers : Undisturbed(w)
<1>1. Init => Smooth
  BY DEF Init, Idle, Undisturbed
<1>2. SerialInv /\ Smooth /\ [Next /\ SerialClients']_vars => Smooth'
  <2> SUFFICES ASSUME SerialInv, Smooth, [Next]_vars, NEW w \in Workers
               PROVE  Undisturbed(w)'
    OBVIOUS
  <2>1. CASE request'[w] = request[w]
    BY <2>1, UndisturbedByOthers
  <2>2. CASE Moves(w)
    BY <2>2, UndisturbedByOwnStep
  <2> QED
    BY <2>1, <2>2, StepOf DEF SerialInv
<1>3. SerialInv /\ Smooth /\ [Next /\ SerialClients']_vars =>
        [\A w \in Workers :
           Proceed(w) \/ TakeRow(w) \/ DeadlockAbort(w) => request'[w].pc # "failed"]_vars
  BY NothingFails
<1> QED
  BY <1>1, <1>2, <1>3, SerialInvariant, PTL DEF SerialSpec, OneAtATimeSucceeds

--------------------------------------------------------------------------------
(* The contract.                                                             *)

\* The contract reads answers as the handlers do.
LEMMA SameRules ==
  ASSUME NEW fields, NEW cells, NEW value, NEW sensitive, NEW k
  PROVE  /\ Contract!SubmitErrors(fields, cells) = SubmitErrors(fields, cells)
         /\ Contract!SetValue(value, sensitive) = SetValue(value, sensitive)
         /\ Contract!IsSensitive(fields, k) = IsSensitive(fields, k)
         /\ Contract!NoCells = NoCells
         /\ Contract!AnswerDicts = AnswerDicts
BY DEF Contract!SubmitErrors, SubmitErrors, Contract!SetValue, SetValue,
       Contract!IsSensitive, IsSensitive, Contract!NoCells, NoCells,
       Contract!AnswerDicts, AnswerDicts, Contract!AnswerDict, AnswerDict,
       Contract!StoredKeys, StoredKeys, Contract!FieldFails, FieldFails,
       Contract!FieldVisible, FieldVisible, Contract!Answered, Answered

LEMMA StartImplemented ==
  ASSUME SerialInv, NEW w \in Workers, CreateInsert(w)
  PROVE  Contract!Start(request[w].user, request[w].id)
BY DEF SerialInv, CreateInsert, InsertsFresh, NoDraftYet, OpenDraft, Draft, Exists,
       Contract!Start, Contract!IsOpen

LEMMA SaveImplemented ==
  ASSUME SerialInv, NEW w \in Workers, PatchCommit(w)
  PROVE  \E body \in AnswerDicts : Contract!Save(request[w].id, body)
<1> DEFINE q == request[w]
<1> USE DEF SerialInv
<1>1. Exists(q.id) /\ Contract!IsOpen(q.id)
  BY DEF PatchCommit, OwnDraft, OpenDraft, Draft, Exists, Busy, Steps, Contract!IsOpen
<1> PICK body \in AnswerDicts : q.payload = Written(body)
  BY DEF PayloadsWritten
<1>2. q.done = DOMAIN body
  <2>1. StoredKeys(q.payload) = q.done
    BY DEF PatchCommit, PatchAccounted, Accounted, PatchSteps, InHand
  <2> QED
    BY <2>1, WrittenKeys
<1>3. answers' = [answers EXCEPT ![q.id] =
                    [k \in Keys |-> IF k \in q.done THEN q.payload[k] ELSE @[k]]]
  BY <1>1 DEF PatchCommit
<1>4. ASSUME NEW cells
      PROVE  [k \in Keys |-> IF k \in q.done THEN q.payload[k] ELSE cells[k]]
               = [k \in Keys |-> IF k \in DOMAIN body
                                 THEN SetValue(body[k], IsSensitive(tree.fields, k))
                                 ELSE cells[k]]
  BY <1>2 DEF Written
<1>5. answers' = [answers EXCEPT ![q.id] =
                    [k \in Keys |-> IF k \in DOMAIN body
                                    THEN SetValue(body[k], IsSensitive(tree.fields, k))
                                    ELSE @[k]]]
  BY <1>3, <1>4
<1>6. Contract!Save(q.id, body)
  BY <1>1, <1>5 DEF PatchCommit, Contract!Save, Contract!SetValue, SetValue,
                    Contract!IsSensitive, IsSensitive
<1> QED
  BY <1>6

LEMMA SubmitImplemented ==
  ASSUME SerialInv, NEW w \in Workers, SubmitLock(w)
  PROVE  Contract!Submit(request[w].id, w)
<1> USE DEF SerialInv
<1>1. Exists(request[w].id) /\ Contract!IsOpen(request[w].id)
  BY DEF SubmitLock, OwnDraft, OpenDraft, Draft, Exists, Busy, Steps, Contract!IsOpen
<1>2. SubmitErrors(tree.fields, answers[request[w].id]) = {}
  BY DEF SubmitLock, SubmitUpToDate
<1> QED
  BY <1>1, <1>2, SameRules DEF SubmitLock, Contract!Submit

LEMMA DiscardImplemented ==
  ASSUME SerialInv, NEW w \in Workers, DestroyCommit(w)
  PROVE  Contract!Discard(request[w].id) \/ UNCHANGED <<tree, responses, answers>>
<1>1. Contract!IsOpen(request[w].id)
  BY DEF SerialInv, DestroyCommit, OwnDraft, OpenDraft, Draft, Exists, Busy, Steps,
         Contract!IsOpen
<1> QED
  BY <1>1, SameRules DEF DestroyCommit, Contract!Discard

\* The handlers implement the contract: the INSERT of a draft is its start, the
\* COMMIT of a PATCH its save of the whole body, the UPDATE of submit its
\* submission, the COMMIT of a DELETE its removal, and nothing else is noticed.
THEOREM ContractTheorem == SerialSpec => ImplementsContract
<1>1. Init => Contract!Init
  BY LifecycleAssumption, SameRules DEF Init, Contract!Init, Contract!Fields, Fields,
     Contract!FieldSpec, FieldSpec
<1>2. SerialInv /\ [Next /\ SerialClients']_vars => [Contract!Next]_(Contract!contractVars)
  <2> SUFFICES ASSUME SerialInv, [Next]_vars
               PROVE  Contract!Next \/ UNCHANGED <<tree.fields, responses, answers>>
    BY DEF Contract!contractVars
  <2>1. tree' = tree
    BY FrozenTree DEF SerialInv
  <2>2. ASSUME NEW w \in Workers, Writes(w)
        PROVE  Contract!Next \/ UNCHANGED <<tree.fields, responses, answers>>
    <3>1. request[w].id \in ResponseIds /\ request[w].user \in Users
      BY <2>2, RequestOf DEF SerialInv, Writes, CreateInsert, PatchCommit, DestroyCommit, SubmitLock
    <3>2. CASE CreateInsert(w)
      BY <3>1, <3>2, StartImplemented DEF Contract!Next
    <3>3. CASE PatchCommit(w)
      BY <3>1, <3>3, SaveImplemented, SameRules DEF Contract!Next
    <3>4. CASE SubmitLock(w)
      BY <3>1, <3>4, SubmitImplemented DEF Contract!Next
    <3>5. CASE DestroyCommit(w)
      BY <3>1, <3>5, DiscardImplemented DEF Contract!Next
    <3> QED
      BY <2>2, <3>2, <3>3, <3>4, <3>5 DEF Writes
  <2> QED
    BY <2>1, <2>2, OnlyWritesChangeRows
<1> QED
  BY <1>1, <1>2, SerialInvariant, PTL DEF SerialSpec, ImplementsContract, Contract!Spec

================================================================================
