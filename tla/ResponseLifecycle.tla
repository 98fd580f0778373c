--------------------------- MODULE ResponseLifecycle ---------------------------
(***************************************************************************)
(* The life of the responses to one survey: ResponseViewSet and the        *)
(* services behind it, run by several synchronous web workers against one  *)
(* PostgreSQL database at READ COMMITTED.                                  *)
(*                                                                         *)
(* A worker serves one request at a time and keeps what it has read in     *)
(* request[w]; every step is one database statement or one commit, so that *)
(* what a handler read may be stale when it acts.  Of the database this    *)
(* models what the handlers rely on: statements and commits are atomic, a  *)
(* row written by an open transaction is locked until that transaction     *)
(* ends, unique constraints are checked by the write (after waiting for    *)
(* the lock), foreign keys are checked at commit, and one transaction of a *)
(* deadlock is aborted.                                                    *)
(***************************************************************************)
EXTENDS AnswerRules, Naturals

CONSTANTS
  Users,        \* respondents, members of the survey's organization
  Workers,      \* web workers
  ResponseIds,  \* primary keys; a finite supply bounds the responses created
  Schemas,      \* the trees of fields the survey can have
  MaxEdits,     \* bound on the edits of the survey while it is a draft
  NoRow,        \* no response has been created with this id
  Gone,         \* the response with this id has been deleted
  NoTime,       \* submitted_at is NULL
  Nil           \* a register an idle worker does not use

ASSUME LifecycleAssumption ==
  /\ Schemas \subseteq Fields
  /\ MaxEdits \in Nat
  /\ NoCell \notin Cell
  /\ NoTime \notin Workers
  /\ Nil \notin ResponseIds \cup Keys

VARIABLES
  tree,       \* the survey's sections and fields; every edit makes new rows
  frozen,     \* the survey has left the draft status, and no update or
              \* publication that loaded it as a draft is under way: the
              \* state that Frozen of SurveyEditing describes
  responses,  \* responses_response: id -> row
  answers,    \* responses_answer: id -> key -> cell
  request     \* what each worker is doing, and what it has read

vars == <<tree, frozen, responses, answers, request>>

--------------------------------------------------------------------------------
Row == [respondent : Users, status : {"draft", "submitted"},
        submitted_at : Workers \cup {NoTime}]

ASSUME RowAssumption == NoRow \notin Row /\ Gone \notin Row /\ NoRow # Gone

Tree == [id : 0 .. MaxEdits, fields : Schemas]

\* How the last request of an idle worker ended: HTTP 2xx, 4xx, or an
\* unhandled exception (5xx) or lost connection.
Outcomes == {"ok", "refused", "failed"}

Steps == {"create_insert",
          "patch_open", "patch_select", "patch_insert", "patch_update", "patch_commit",
          "destroy_scan", "destroy_take", "destroy_commit",
          "submit_fields", "submit_answers", "submit_valid", "submit_invalid",
          "submit_lock", "submit_refresh"}

WriteSteps == {"patch_insert", "patch_update", "destroy_take"}

Registers == [pc : Outcomes \cup Steps,
              user : Users \cup {Nil},
              id : ResponseIds \cup {Nil},
              seen : Tree \cup {Nil},                \* submit: the fields as read
              payload : [Keys -> Cell \cup {NoCell}], \* patch: the rows to write
              todo : SUBSET Keys,                    \* keys still to write or delete
              cur : Keys \cup {Nil},                 \* the key being written or deleted
              done : SUBSET Keys]                    \* keys written, hence locked

\* The registers a step reads are in use when it is reached.
Request ==
  {q \in Registers :
     /\ q.pc \in Steps => q.user \in Users /\ q.id \in ResponseIds
     /\ q.pc \in WriteSteps => q.cur \in Keys
     /\ q.pc \in {"submit_answers", "submit_valid", "submit_invalid"} => q.seen \in Tree}

Idle(outcome) == [pc |-> outcome, user |-> Nil, id |-> Nil, seen |-> Nil,
                  payload |-> NoCells, todo |-> {}, cur |-> Nil, done |-> {}]

TypeOK ==
  /\ tree \in Tree
  /\ frozen \in BOOLEAN
  /\ responses \in [ResponseIds -> Row \cup {NoRow, Gone}]
  /\ answers \in [ResponseIds -> [Keys -> Cell \cup {NoCell}]]
  /\ request \in [Workers -> Request]

Init ==
  /\ tree \in [id : {0}, fields : Schemas]
  /\ frozen \in BOOLEAN
  /\ responses = [r \in ResponseIds |-> NoRow]
  /\ answers = [r \in ResponseIds |-> NoCells]
  /\ request = [w \in Workers |-> Idle("ok")]

--------------------------------------------------------------------------------
Exists(r) == responses[r] \notin {NoRow, Gone}
Draft(r) == Exists(r) /\ responses[r].status = "draft"
Submitted(r) == Exists(r) /\ responses[r].status = "submitted"
OpenDraft(u, r) == Draft(r) /\ responses[r].respondent = u

Busy(w) == request[w].pc \in Steps
At(w, step) == request[w].pc = step

Finish(w, outcome) == request' = [request EXCEPT ![w] = Idle(outcome)]

\* A request of user u about response r, at its first step.
Started(u, r, step) == [Idle("ok") EXCEPT !.pc = step, !.user = u, !.id = r]

\* uuid4: an id that no row has had and no pending INSERT has drawn.
FreshId(r) == responses[r] = NoRow /\ \A w \in Workers : request[w].id # r

\* The transactions that hold the lock on the Answer row w needs next.
Holders(w) ==
  IF request[w].pc \in WriteSteps
  THEN {v \in Workers \ {w} : /\ request[v].id = request[w].id
                              /\ request[w].cur \in request[v].done}
  ELSE {}

\* Each member waits for a member and is waited for by one: a union of cycles,
\* because a row lock has one holder.
Deadlocked(D) ==
  /\ D # {}
  /\ \A w \in D : Holders(w) \cap D # {}
  /\ \A v \in D : \E w \in D : v \in Holders(w)

--------------------------------------------------------------------------------
(* POST /surveys/{survey_id}/responses/                                      *)

\* .first() finds a draft of this respondent: 200.
CreateResume(w, u) ==
  /\ ~ Busy(w)
  /\ \E r \in ResponseIds : OpenDraft(u, r)
  /\ Finish(w, "ok")
  /\ UNCHANGED <<tree, frozen, responses, answers>>

\* Mutant of CreateStart: no draft is looked for.
CreateStartBlind(w, u) ==
  /\ ~ Busy(w)
  /\ \E r \in ResponseIds :
        /\ FreshId(r)
        /\ request' = [request EXCEPT ![w] = Started(u, r, "create_insert")]
  /\ UNCHANGED <<tree, frozen, responses, answers>>

\* .first() finds none.
CreateStart(w, u) ==
  /\ ~ Busy(w)
  /\ \A r \in ResponseIds : ~ OpenDraft(u, r)
  /\ \E r \in ResponseIds :
        /\ FreshId(r)
        /\ request' = [request EXCEPT ![w] = Started(u, r, "create_insert")]
  /\ UNCHANGED <<tree, frozen, responses, answers>>

\* Mutant of CreateInsert: the model has no constraint on drafts.
CreateInsertUnconstrained(w) ==
  /\ At(w, "create_insert")
  /\ Finish(w, "ok")
  /\ responses' = [responses EXCEPT ![request[w].id] =
        [respondent |-> request[w].user, status |-> "draft", submitted_at |-> NoTime]]
  /\ UNCHANGED <<tree, frozen, answers>>

\* The INSERT, with the partial unique index on (organization, survey,
\* respondent) for drafts; nothing catches its IntegrityError.
CreateInsert(w) ==
  LET u == request[w].user  r == request[w].id
  IN  /\ At(w, "create_insert")
      /\ IF \E s \in ResponseIds : OpenDraft(u, s)
         THEN Finish(w, "failed") /\ UNCHANGED responses
         ELSE /\ Finish(w, "ok")
              /\ responses' = [responses EXCEPT ![r] =
                    [respondent |-> u, status |-> "draft", submitted_at |-> NoTime]]
      /\ UNCHANGED <<tree, frozen, answers>>

--------------------------------------------------------------------------------
(* PATCH, DELETE and POST .../submit/ begin alike: the row is loaded, and    *)
(* ownership and status are checked on that copy, never again.               *)

\* 404 when there is no row, 403 for another's, 400 or 403 when submitted.
Refuse(w, u, r) ==
  /\ ~ Busy(w)
  /\ ~ OpenDraft(u, r)
  /\ Finish(w, "refused")
  /\ UNCHANGED <<tree, frozen, responses, answers>>

\* Mutant of Load: the status is not checked.
LoadAnyStatus(w, u, r, next) ==
  /\ ~ Busy(w)
  /\ Exists(r) /\ responses[r].respondent = u
  /\ request' = [request EXCEPT ![w] = Started(u, r, next)]
  /\ UNCHANGED <<tree, frozen, responses, answers>>

Load(w, u, r, next) ==
  /\ ~ Busy(w)
  /\ OpenDraft(u, r)
  /\ request' = [request EXCEPT ![w] = Started(u, r, next)]
  /\ UNCHANGED <<tree, frozen, responses, answers>>

PatchLoad(w, u, r) == Load(w, u, r, "patch_open")
DestroyLoad(w, u, r) == Load(w, u, r, "destroy_scan")
SubmitLoad(w, u, r) == Load(w, u, r, "submit_fields")

--------------------------------------------------------------------------------
(* PATCH: upsert_draft_answers                                               *)

\* Mutant of NextPatchStep: INSERT without looking for the row.
NextPatchInsert(rest) == IF rest = {} THEN "patch_commit" ELSE "patch_insert"

NextPatchStep(rest) == IF rest = {} THEN "patch_commit" ELSE "patch_select"

\* The sensitivity map is read, and the transaction opened.  The body of the
\* request matters only from here on, so it is chosen here; the order of its
\* keys is chosen by PatchSelect.
PatchOpen(w) ==
  /\ At(w, "patch_open")
  /\ \E body \in AnswerDicts :
        request' = [request EXCEPT ![w] =
          [@ EXCEPT !.payload = [k \in Keys |->
                       IF k \in DOMAIN body
                       THEN SetValue(body[k], IsSensitive(tree.fields, k))
                       ELSE NoCell],
                    !.todo = DOMAIN body,
                    !.pc = NextPatchStep(DOMAIN body)]]
  /\ UNCHANGED <<tree, frozen, responses, answers>>

\* filter(response=response, field_key=key).first() decides between INSERT
\* and UPDATE.
PatchSelect(w) ==
  LET q == request[w]
  IN  /\ At(w, "patch_select")
      /\ \E k \in q.todo :
            request' = [request EXCEPT ![w] =
              [q EXCEPT !.cur = k, !.todo = q.todo \ {k},
                        !.pc = IF answers[q.id][k] = NoCell
                               THEN "patch_insert" ELSE "patch_update"]]
      /\ UNCHANGED <<tree, frozen, responses, answers>>

\* row.save(), once no other transaction holds the row.  An INSERT that finds
\* a row committed since the SELECT breaks uniq_answer_per_response_key, and
\* the transaction rolls back.  An UPDATE whose row has gone inserts instead.
PatchWrite(w) ==
  LET q == request[w]
  IN  /\ q.pc \in {"patch_insert", "patch_update"}
      /\ Holders(w) = {}
      /\ IF q.pc = "patch_insert" /\ answers[q.id][q.cur] # NoCell
         THEN Finish(w, "failed")
         ELSE request' = [request EXCEPT ![w] =
                [q EXCEPT !.done = q.done \cup {q.cur}, !.cur = Nil,
                          !.pc = NextPatchStep(q.todo)]]
      /\ UNCHANGED <<tree, frozen, responses, answers>>

\* Mutants of PatchCommit: no foreign key; or a PATCH that, like a PUT, drops
\* the answers its body leaves out.
PatchCommitWithoutKey(w) ==
  LET q == request[w]
  IN  /\ At(w, "patch_commit")
      /\ Finish(w, "ok")
      /\ answers' = [answers EXCEPT ![q.id] =
            [k \in Keys |-> IF k \in q.done THEN q.payload[k] ELSE @[k]]]
      /\ UNCHANGED <<tree, frozen, responses>>

PatchCommitReplacing(w) ==
  LET q == request[w]
  IN  /\ At(w, "patch_commit")
      /\ Exists(q.id)
      /\ Finish(w, "ok")
      /\ answers' = [answers EXCEPT ![q.id] = q.payload]
      /\ UNCHANGED <<tree, frozen, responses>>

\* COMMIT, with the deferred foreign key from the answers to the response.
PatchCommit(w) ==
  LET q == request[w]
  IN  /\ At(w, "patch_commit")
      /\ IF q.done # {} /\ ~ Exists(q.id)
         THEN Finish(w, "failed") /\ UNCHANGED answers
         ELSE /\ Finish(w, "ok")
              /\ answers' = [answers EXCEPT ![q.id] =
                    [k \in Keys |-> IF k \in q.done THEN q.payload[k] ELSE @[k]]]
      /\ UNCHANGED <<tree, frozen, responses>>

--------------------------------------------------------------------------------
(* DELETE: obj.delete(), which deletes the answers and then the response in  *)
(* one transaction.                                                          *)

\* The rows left to delete, and which of them comes next.
DestroyNext(w, rest, gone) ==
  \/ /\ rest = {}
     /\ request' = [request EXCEPT ![w] =
           [@ EXCEPT !.pc = "destroy_commit", !.todo = {}, !.cur = Nil, !.done = gone]]
  \/ \E k \in rest :
        request' = [request EXCEPT ![w] =
           [@ EXCEPT !.pc = "destroy_take", !.todo = rest \ {k}, !.cur = k, !.done = gone]]

\* DELETE FROM responses_answer begins: it will delete the rows it sees now.
DestroyScan(w) ==
  /\ At(w, "destroy_scan")
  /\ DestroyNext(w, StoredKeys(answers[request[w].id]), {})
  /\ UNCHANGED <<tree, frozen, responses, answers>>

\* It locks and deletes one of them.
DestroyTake(w) ==
  LET q == request[w]
  IN  /\ At(w, "destroy_take")
      /\ Holders(w) = {}
      /\ DestroyNext(w, q.todo, q.done \cup {q.cur})
      /\ UNCHANGED <<tree, frozen, responses, answers>>

\* Mutant of DestroyCommit: only the answers scanned are deleted.
DestroyCommitScanned(w) ==
  LET q == request[w]
  IN  /\ At(w, "destroy_commit")
      /\ Finish(w, "ok")
      /\ responses' = [responses EXCEPT ![q.id] = Gone]
      /\ answers' = [answers EXCEPT ![q.id] =
            [k \in Keys |-> IF k \in q.done THEN NoCell ELSE @[k]]]
      /\ UNCHANGED <<tree, frozen>>

\* DELETE FROM responses_response and COMMIT: the foreign key fails when an
\* answer was committed after the scan.  A row already gone is no error.
DestroyCommit(w) ==
  LET q == request[w]
  IN  /\ At(w, "destroy_commit")
      /\ IF StoredKeys(answers[q.id]) \subseteq q.done
         THEN /\ Finish(w, "ok")
              /\ responses' = [responses EXCEPT ![q.id] = Gone]
              /\ answers' = [answers EXCEPT ![q.id] = NoCells]
         ELSE Finish(w, "failed") /\ UNCHANGED <<responses, answers>>
      /\ UNCHANGED <<tree, frozen>>

--------------------------------------------------------------------------------
(* POST .../submit/: submit_response                                         *)

SubmitFields(w) ==
  /\ At(w, "submit_fields")
  /\ request' = [request EXCEPT ![w] =
        [@ EXCEPT !.pc = "submit_answers", !.seen = tree]]
  /\ UNCHANGED <<tree, frozen, responses, answers>>

\* Mutant of SubmitAnswers: only the answers given are validated.
SubmitAnswersGiven(w) ==
  LET q == request[w]
  IN  /\ At(w, "submit_answers")
      /\ request' = [request EXCEPT ![w] =
            [@ EXCEPT !.pc = IF SubmitErrors(q.seen.fields, answers[q.id])
                                  \cap StoredKeys(answers[q.id]) = {}
                             THEN "submit_valid" ELSE "submit_invalid"]]
      /\ UNCHANGED <<tree, frozen, responses, answers>>

\* The answers are read, in a query of its own, and validated.
SubmitAnswers(w) ==
  LET q == request[w]
  IN  /\ At(w, "submit_answers")
      /\ request' = [request EXCEPT ![w] =
            [@ EXCEPT !.pc = IF SubmitErrors(q.seen.fields, answers[q.id]) = {}
                             THEN "submit_valid" ELSE "submit_invalid"]]
      /\ UNCHANGED <<tree, frozen, responses, answers>>

\* field.section is a query per field: when an edit has replaced the sections
\* by the last of them, it raises Section.DoesNotExist.
SubmitSections(w) ==
  LET q == request[w]
  IN  /\ q.pc \in {"submit_valid", "submit_invalid"}
      /\ IF q.seen.id # tree.id /\ \E k \in Keys : q.seen.fields[k] # NoField
         THEN Finish(w, "failed")
         ELSE IF q.pc = "submit_invalid"
              THEN Finish(w, "refused")
              ELSE request' = [request EXCEPT ![w] =
                      [@ EXCEPT !.pc = "submit_lock", !.seen = Nil]]
      /\ UNCHANGED <<tree, frozen, responses, answers>>

\* Mutant of SubmitLock: save() without update_fields, which inserts a row that
\* has gone.
SubmitLockInserting(w) ==
  LET r == request[w].id
  IN  /\ At(w, "submit_lock")
      /\ request' = [request EXCEPT ![w] = [@ EXCEPT !.pc = "submit_refresh"]]
      /\ responses' = [responses EXCEPT ![r] =
            [respondent |-> request[w].user, status |-> "submitted", submitted_at |-> w]]
      /\ UNCHANGED <<tree, frozen, answers>>

\* save(update_fields=...): UPDATE by primary key, whatever the row's status
\* is by now; it raises when the row has gone.  The request that took the
\* timestamp stands for it.
SubmitLock(w) ==
  LET r == request[w].id
  IN  /\ At(w, "submit_lock")
      /\ IF Exists(r)
         THEN /\ request' = [request EXCEPT ![w] = [@ EXCEPT !.pc = "submit_refresh"]]
              /\ responses' = [responses EXCEPT ![r] =
                    [@ EXCEPT !.status = "submitted", !.submitted_at = w]]
         ELSE Finish(w, "failed") /\ UNCHANGED responses
      /\ UNCHANGED <<tree, frozen, answers>>

\* Mutant of SubmitRefresh: it is tried again until the row is found.
SubmitRefreshRetried(w) ==
  /\ At(w, "submit_refresh")
  /\ Exists(request[w].id)
  /\ Finish(w, "ok")
  /\ UNCHANGED <<tree, frozen, responses, answers>>

\* refresh_from_db
SubmitRefresh(w) ==
  /\ At(w, "submit_refresh")
  /\ Finish(w, IF Exists(request[w].id) THEN "ok" ELSE "failed")
  /\ UNCHANGED <<tree, frozen, responses, answers>>

--------------------------------------------------------------------------------
(* What may end any request, and the survey's own administrators.            *)

\* PostgreSQL aborts one transaction of a deadlock.
DeadlockAbort(w) ==
  /\ \E D \in SUBSET Workers : w \in D /\ Deadlocked(D)
  /\ Finish(w, "failed")
  /\ UNCHANGED <<tree, frozen, responses, answers>>

\* Mutant of Crash: no transaction.atomic, so what was written stays.
CrashMidway(w) ==
  LET q == request[w]
  IN  /\ Busy(w)
      /\ Finish(w, "failed")
      /\ answers' = [answers EXCEPT ![q.id] =
            [k \in Keys |-> IF k \in q.done /\ Exists(q.id) THEN q.payload[k] ELSE @[k]]]
      /\ UNCHANGED <<tree, frozen, responses>>

\* The worker is killed, or loses its connection: its transaction rolls back.
Crash(w) ==
  /\ Busy(w)
  /\ Finish(w, "failed")
  /\ UNCHANGED <<tree, frozen, responses, answers>>

\* PUT /surveys/{id}/: an update that loaded the draft replaces the sections and
\* fields.  It checks the status of its copy, so that it may commit after a
\* publication, and make the survey a draft again; it is under way, hence not
\* frozen, until then.
EditSurvey ==
  /\ ~ frozen
  /\ tree.id < MaxEdits
  /\ \E fields \in Schemas : tree' = [id |-> tree.id + 1, fields |-> fields]
  /\ UNCHANGED <<frozen, responses, answers, request>>

\* The survey is published or archived, and the last request that loaded it as a
\* draft ends.  From then on nothing changes its tree (FrozenForGood of
\* SurveyEditing, which has these requests step by step).
FreezeSurvey ==
  /\ ~ frozen
  /\ frozen' = TRUE
  /\ UNCHANGED <<tree, responses, answers, request>>

NewRequest(w) ==
  \E u \in Users :
    \/ CreateResume(w, u)
    \/ CreateStart(w, u)
    \/ \E r \in ResponseIds :
          \/ Refuse(w, u, r)
          \/ PatchLoad(w, u, r)
          \/ DestroyLoad(w, u, r)
          \/ SubmitLoad(w, u, r)

\* The steps of a request that never wait.
Proceed(w) ==
  \/ CreateInsert(w)
  \/ PatchOpen(w) \/ PatchSelect(w) \/ PatchCommit(w)
  \/ DestroyScan(w) \/ DestroyCommit(w)
  \/ SubmitFields(w) \/ SubmitAnswers(w) \/ SubmitSections(w)
  \/ SubmitLock(w) \/ SubmitRefresh(w)

\* The steps that wait for a row lock.
TakeRow(w) == PatchWrite(w) \/ DestroyTake(w)

Next ==
  \/ \E w \in Workers : \/ NewRequest(w)
                        \/ Proceed(w)
                        \/ TakeRow(w)
                        \/ DeadlockAbort(w)
                        \/ Crash(w)
  \/ EditSurvey
  \/ FreezeSurvey

Spec == Init /\ [][Next]_vars

\* A worker that can go on does; a lock queue is first come, first served, so
\* that a lock that is free again and again is taken in the end; and the
\* deadlock detector runs.  Nobody has to send a request, edit or crash.
Fairness ==
  \A w \in Workers :
    WF_vars(Proceed(w)) /\ SF_vars(TakeRow(w)) /\ WF_vars(DeadlockAbort(w))

FairSpec == Spec /\ Fairness

\* The survey was frozen before the first response was started.
FrozenSpec == Spec /\ frozen = TRUE

\* Every respondent has at most one request in progress.
SerialClients ==
  \A v, w \in Workers : Busy(v) /\ Busy(w) /\ request[v].user = request[w].user => v = w

SerialSpec == Init /\ frozen = TRUE /\ [][Next /\ SerialClients']_vars

--------------------------------------------------------------------------------
(* What the code guarantees whatever the interleaving.                       *)

\* A respondent never has two drafts, although create looks for a draft and
\* inserts one in two statements (views.py create, uniq_draft_per_survey_respondent).
OneDraft ==
  \A u \in Users, r, s \in ResponseIds : OpenDraft(u, r) /\ OpenDraft(u, s) => r = s

\* No answer outlives its response: a PATCH that commits around a DELETE either
\* makes the DELETE fail or fails itself.
NoOrphanAnswers == \A r \in ResponseIds : ~ Exists(r) => answers[r] = NoCells

\* A deleted response does not come back, a submitted one does not become a draft
\* again, and none changes its respondent, although submit and DELETE act on rows
\* they loaded before another request deleted or submitted them (services.py 111,
\* views.py 147).
RowsMoveOn ==
  [][\A r \in ResponseIds :
        /\ responses[r] = Gone => responses'[r] = Gone
        /\ Exists(r) =>
              \/ responses'[r] = Gone
              \/ /\ Exists(r)'
                 /\ responses'[r].respondent = responses[r].respondent
                 /\ Submitted(r) => Submitted(r)']_vars

\* No request still in progress loaded r as a draft.
Settled(r) ==
  /\ Submitted(r)
  /\ \A w \in Workers : request[w].id = r => At(w, "submit_refresh")

\* A submitted response that no request still holds as a draft never changes
\* again, in its row, its timestamp or its answers: every write path checks the
\* status of the row it loaded (services.py 33 and 65, views.py 145).
SettledImmutable ==
  [][\A r \in ResponseIds :
        Settled(r) => /\ responses'[r] = responses[r]
                      /\ answers'[r] = answers[r]
                      /\ Settled(r)']_vars

\* The requests that hold a submitted response as a draft come to an end, so
\* that it becomes immutable for good or is deleted by one of them.
EventuallySettled ==
  \A r \in ResponseIds : Submitted(r) ~> (Settled(r) \/ responses[r] = Gone)

\* The answers of a response change by a whole PATCH body or by the deletion of
\* all of them, never by part of either (transaction.atomic in services.py 39
\* and in Model.delete).
WholeWrites ==
  [][\A r \in ResponseIds :
        answers'[r] # answers[r] =>
          \/ answers'[r] = NoCells /\ ~ Exists(r)'
          \/ \E w \in Workers :
                /\ request[w].id = r
                /\ ~ Busy(w)'
                /\ \A k \in Keys :
                      answers'[r][k] = IF request[w].payload[k] = NoCell
                                       THEN answers[r][k]
                                       ELSE request[w].payload[k]]_vars

\* Every request is answered: neither the row locks of two PATCHes, nor those
\* of a PATCH and a DELETE, block a worker for ever.
EveryRequestAnswered == \A w \in Workers : Busy(w) ~> ~ Busy(w)

\* An answer to a sensitive field is stored encrypted (services.py 36-49).
SensitiveAtRest ==
  \A r \in ResponseIds, k \in Keys :
    answers[r][k] # NoCell /\ IsSensitive(tree.fields, k) => answers[r][k].encrypted

--------------------------------------------------------------------------------
(* What the code guarantees a respondent who sends one request at a time.    *)

\* No request of theirs ends in an unhandled exception, unless the worker itself
\* is lost: the unique indexes (views.py 89, services.py 50), the foreign key, the
\* row locks and the rows that can have gone (services.py 111, 113 and 147) are
\* met by overlapping requests only.
OneAtATimeSucceeds ==
  [][\A w \in Workers :
        Proceed(w) \/ TakeRow(w) \/ DeadlockAbort(w) => request'[w].pc # "failed"]_vars

Contract == INSTANCE ResponseContract WITH fields <- tree.fields, Stamps <- Workers

\* The handlers implement the contract: each request is one of its operations,
\* or changes nothing (services.py and views.py, as a whole).
ImplementsContract == Contract!Spec

--------------------------------------------------------------------------------
(* What the docs and comments promise of a submitted response.               *)

\* Every submitted response satisfies the validation rules ("all must pass
\* before anything persists", services.py 56).
SubmittedValid ==
  \A r \in ResponseIds : Submitted(r) => SubmitErrors(tree.fields, answers[r]) = {}

\* No request changes a submitted response, its row or its answers, nor deletes
\* it ("The row is now immutable -- further PATCH/DELETE return 409",
\* docs/cookbook.md 125; "response already submitted", services.py 66).
SubmittedImmutable ==
  [][\A r \in ResponseIds :
        Submitted(r) => responses'[r] = responses[r] /\ answers'[r] = answers[r]]_vars

================================================================================
