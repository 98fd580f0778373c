# Formal model of the survey platform

TLA+ specifications of the survey back end in `src/`: a Django REST service
where administrators build and version surveys and respondents fill them in.
The interesting part of the code is not any one function. It is what happens
when several web workers run these handlers against one PostgreSQL database, in
autocommit mode and at READ COMMITTED, which is how the settings and
`docker/entrypoint.sh` run them. TLC checks the models on small instances;
TLAPS proves every safety and action property of the passing runs for every value
of the constants.

## The system

| component | state | operations | interacts with |
| --- | --- | --- | --- |
| **Responses** `apps/responses/{views,services,models}.py` | `responses_response` (respondent, status, submitted_at), `responses_answer` (key, one of two value columns) | `create` (start or resume), `partial_update` (PATCH), `destroy`, `submit`; `list`, `retrieve`, `mine` | reads the survey's fields; the logic engine and field types on submit; encryption on PATCH |
| **Surveys** `apps/surveys/{views,serializers,models}.py` | `surveys_survey` (group, version, status, published_at), sections, fields | `create`, `update`, `publish`, `destroy` (archive), `new_version` (fork); `list`, `retrieve`, `latest` | signals invalidate the cache on every save |
| **Logic engine** `apps/surveys/logic.py` | none | `evaluate(rule, answers)` | rules are validated when a survey is saved, used by submit |
| **Field types** `apps/surveys/field_types.py` | none | `validate_config`, `validate_answer` | serializers, submit |
| **Cache** `apps/responses/signals.py`, `services.py` 120-134 | one entry per survey, 60 s | get, set, invalidate | deleted on every save of a survey, section or field; only the tests read and fill it |
| **Encryption** `apps/responses/crypto.py` | the process's key | `encrypt`, `decrypt` | `Answer.set_value`, `Answer.value` |
| **Tasks** `apps/responses/tasks.py` | none | CSV export, counts, histogram, invitations | read responses across tenants |
| **Accounts** `apps/accounts/` | users, memberships, blacklisted tokens | login, org-scoped token, logout; authentication of each request | sets the tenant context |
| **Tenant context** `apps/core/{context,managers}.py`, `apps/organizations/middleware.py` | a context variable per worker | set by authentication, reset by the middleware, read by every manager | every query |
| **Permissions** `apps/core/permissions.py`, `apps/responses/permissions.py` | none | role and owner checks | every view |
| **Audit** `apps/audit/` | one row per API request | written after the view | tenant context, request id |
| **Request ids, error envelope, logging, settings, admin, seeds, load test** | none of their own | formatting, declaration, tooling | |

What is hard here:

- **Checks on stale copies.** Every handler loads a row, checks its status on
  that copy, and writes by primary key later. Nothing locks the row in between
  (no `select_for_update`), so two requests interleave freely.
- **Look, then insert.** `create` looks for a draft, `upsert_draft_answers` for
  an answer row, `new_version` for the last version, each before inserting; only
  a unique index stands behind them.
- **Row locks in client order.** A PATCH writes its answers in the order of the
  request body, in one transaction: two PATCHes, or a PATCH and a DELETE, can
  deadlock.
- **Transactions that are too small.** Validation is outside the transaction
  that submits; sections and fields are read by two queries.
- **Reads of several queries.** A detail read, a list, a count and an export are
  two or three queries without a snapshot, and may combine several states.
- **Signals inside transactions.** The cache entry is deleted before the commit
  that makes it stale; for an archival after it, by a worker that may be gone.
- **A context that outlives the request.** The tenant is a variable of the
  worker process, set while a request is authenticated, to be given back whatever
  happens to it.
- **Standing that changes under a live token.** A user, a membership or an
  organization is deactivated, or a role changed, while requests run and access
  tokens issued before are still valid.
- **Crashes.** A worker can die between any two statements.

What makes each part correct: a respondent has one draft; answers belong to a
response; the answers change by whole requests; a submitted response is valid
and immutable; sensitive answers are encrypted; every request ends. Versions of
a group are 1 to n; field keys are unique; a published survey is dated and its
tree is frozen; a clone is a copy of its source. A view reads only rows of the
organization of its token, for a caller who is a member in a sufficient role; an
audit row says who that was; a logout ends in no access. A published survey is
read whole; a cache entry is fresh in the end; a report forgets no response, and
nobody reads more than his share.

## Modules

### `AnswerRules`: the pure part of responses

`SetValue`/`Cell`/`AnswerDict` are `Answer.set_value` and `Answer.value`: a
cell is the value it reads back as and which column holds it. `SubmitErrors` is
the validation of `submit_response` (unknown keys, then each field gated by the
visibility of its section and then its own). Values are a small set: the rules
only tell apart which values are empty and which a field accepts. `Evaluate`,
the logic engine, is a constant operator that answers `"true"`, `"false"` or
`"error"` (a `ValidationError`).

### `ResponseLifecycle`: the core

| variable | code |
| --- | --- |
| `responses` | the rows of `responses_response`, for one survey; `NoRow` before, `Gone` after |
| `answers` | the committed rows of `responses_answer`, per response and key |
| `tree`, `frozen` | the survey's fields (its rows get a new `id` with every edit), and whether they are final: the survey has left the draft status and no update or publication that loaded it as a draft is under way (`Frozen` of `SurveyEditing`) |
| `request` | per worker: the statement it is about to execute and what it has read |

One action is one database statement, or one commit, of a handler:

| handler | actions |
| --- | --- |
| `create` | `CreateResume` / `CreateStart`, `CreateInsert` |
| `partial_update`, `upsert_draft_answers` | `PatchLoad`, `PatchOpen`, then per key `PatchSelect`, `PatchWrite`, and `PatchCommit` |
| `destroy` | `DestroyLoad`, `DestroyScan`, `DestroyTake` per answer, `DestroyCommit` |
| `submit`, `submit_response` | `SubmitLoad`, `SubmitFields`, `SubmitAnswers`, `SubmitSections`, `SubmitLock`, `SubmitRefresh` |
| 404, 403 and status errors | `Refuse` |
| the survey's administrators | `EditSurvey`, `FreezeSurvey` |
| PostgreSQL and the process | `DeadlockAbort`, `Crash` |

Of PostgreSQL the model has what the handlers lean on: a row written by an open
transaction stays locked until it ends (`done`, `Holders`); a unique index is
checked by the write, after waiting for the lock; the foreign key from answers
to responses is deferred to the commit (`PatchCommit`, `DestroyCommit`);
uncommitted writes are invisible to other workers; one member of a deadlock is
aborted. The body of a PATCH is chosen where it is first used (`PatchOpen`),
which gives the same behaviours with fewer states.

Of the survey's administrators the model has what the respondents can notice: the
tree changes (`EditSurvey`) until it is final (`FreezeSurvey`). Not being frozen is
more than being a draft. An update checks the status of the copy it loaded, so it
may commit after a publication, and it then makes the survey a draft again; that
is why `frozen` becomes true only when the last such request has ended. That it
stays true is `FrozenForGood`, proved of `SurveyEditing`, which has these requests
statement by statement.

### `ResponseContract`: what the API promises

Four atomic operations, `Start`, `Save`, `Submit`, `Discard`, of which the
first needs that there is no other draft and the rest an open one. With the
mapping `fields <- tree.fields, Stamps <- Workers` (a timestamp is named by the
worker that took it) `ResponseLifecycle` implements it when each respondent
sends one request at a time. With overlapping requests it does not: see the
divergences below.

### `SurveyEditing`: surveys, versions, trees

`surveys` holds the rows with their sections (`trees`: all sections written by
one request share an id and the keys of their fields, in order); `request` is
as above.

| handler | actions |
| --- | --- |
| `create` | `CreateSurvey` (one transaction, nothing else reads what it writes before the commit) |
| `update` | `UpdateLoad`, `UpdateSave` (locks the row), `UpdateSections`, `UpdateCommit` |
| `publish`, `destroy` | `PublishLoad`, `PublishSave`; `ArchiveLoad`, `ArchiveSave` |
| `new_version` | `ForkLoad`, `ForkVersion`, `ForkInsert`, `ForkSections`, `ForkCommit` |
| 400, 409 | `Refuse` |

`UpdateCommit` writes back the draft status and the empty date of the copy
loaded, as `instance.save()` does. `Claims` is the wait of an INSERT for another
pending INSERT of the same version.

### `JsonValues`, `VisibilityLogic`, `FieldTypes`: the pure rules

`JsonValues` is what Python makes of JSON: the kinds of values, `==` across
numbers (`True == 1 == 1.0`), `in`, what cannot be put in a set. Of a word only
the length matters; dates are numbered; an object is opaque unless it is a
choice.

`VisibilityLogic` is `apps/surveys/logic.py`: `Evaluation` goes down the tree of
a rule, `NodeValue` is one call of `evaluate` given what its recursive calls
return, `FirstOther` is the early stop of `all` and `any`, `MissingLeaf` and
`AnsweredLeaf` are the ops on the sentinel and on a value. The result is
`"true"`, `"false"` or `"error"`. `AcceptedRule` is what `_RuleField` checks when
a survey is saved. Field keys and ops are strings.

`FieldTypes` is `apps/surveys/field_types.py`: `ValidateConfig` and
`ValidateAnswer` end `"ok"`, `"invalid"` (a `ValidationError`) or `"crash"` (any
other exception: nothing catches it, so the request ends in a 500). A pattern
stands for the literal text it is. A config is an object with some of the keys
of its type, or a list, which the serializer takes too. `ReadBack` is
`Answer.set_value` followed by `Answer.value`. `AnswerRules` is about any logic
engine and any field types (`Evaluate`, `accepts`, `AsText`); these modules are
the ones the code has.

### `TenantAccess`: tokens, tenant context, audit

One worker process serves one request at a time, query by query.

| variable | code |
| --- | --- |
| `users`, `orgs`, `member` | `is_active` of users and organizations, and the role of each active membership |
| `issued`, `ended` | refresh tokens, and those that are blacklisted or expired |
| `access` | access tokens not expired: user, organization, role claim, and the refresh token each came from |
| `context` | the context variable of `core/context.py`, per worker |
| `request` | per worker: the next query, what was read, `request.membership`, `_tenant_token`, the response status, the audit row |
| `since` | history: the standing of the caller at every moment since the request began |

| code | actions |
| --- | --- |
| `LoginView` | `Login`, `LoginIssue` |
| `TokenView` | `TokenRequest`, `TokenUser`, `TokenOrg`, `TokenMember` |
| `LogoutView` | `Logout`, `LogoutBlacklist` |
| `TenantAuthentication`, permission, view | `Authenticate`, `AuthOrg`, `AuthMember`, `View` |
| the two middlewares | `Audit`, `Reset` |
| throttled, malformed, no credentials | `RefuseAtOnce` |
| the Django admin, time, the process | `ChangeAccounts`, `ExpireAccess`, `ExpireRefresh`, `Crash` |

A view is one step: it reads rows through `TenantManager`, that is, of the
organization in `context`. What it does with them is in the other modules.

### `SurveyReads`: the detail read and the cache, over `SurveyEditing`

It adds `cache`, `reader` (what each reader has read of the three queries) and
the signals that have not been sent yet: `sent` (a publication that is saved,
hence locked and signalled, but not committed) and `due` (an archival that is
committed and not signalled). Each administrator's step is a step of
`SurveyEditing` with its signal (`UpdateSignal`, `PublishSignal`, ...), or a
signal alone; so a behaviour of `SurveyReads`, without the variables it adds, is
one of `SurveyEditing`. The cached read has no caller in `src/` other than the
tests: a reader is `retrieve` followed, or not, by `cache_survey_payload`, as the
docs describe it.

### `ResponseReads`: lists, tasks and the detail of a response, over `ResponseLifecycle`

It adds one `report`, a read under way, query by query: `aggregate_response_counts`
(`CountFirst`, `CountSecond`), `list` and `mine` (`ListCount`, `ListRows`),
`export_survey_csv` (`ExportFields`, `ExportList`, `ExportAnswers`),
`per_field_answer_histogram` (`Histogram`), `retrieve` (`RetrieveLoad`,
`RetrieveAnswers`). A report changes nothing, so one at a time is enough. The
survey is frozen from the start: `ReadsNext` has the respondents' requests
(`Respond`) and the reads, and no edit of the survey.

### `FieldRules`: the properties of the pure rules

It has no behaviour: a state is one input, a rule with answers or a field with an
answer, and `Next` changes nothing. The inputs are constants: any set of rules
that is closed under taking children, each of a finite `Depth`; any answers, types
and configs. `FieldRulesAssumption` says what JSON guarantees: documents are
finite, lists are indexed by numbers, and numbers are ordered (the parser of the
API refuses NaN).

The `MC` modules define the instances. Operators
introduced as "Mutant of X" are X with a plausible bug; they are used by no
specification, and replacing X by one of them makes TLC find the corresponding
property violated. They show that the property depends on that code.

## What is checked

Deadlock checking is on in every run.

| run | what it asks | instance |
| --- | --- | --- |
| `concurrent` | `TypeOK`, `OneDraft`, `NoOrphanAnswers`, `SensitiveAtRest`, `RowsMoveOn`, `SettledImmutable`, `WholeWrites` whatever the interleaving | 2 workers, 1 respondent, 2 ids, 2 keys, 2 values |
| `liveness` | `EveryRequestAnswered`, `EventuallySettled` under `FairSpec`, while the survey is edited and frozen | 2 workers, 1 id, 2 keys, 3 trees, 1 edit |
| `serial` | `SubmittedValid`, `OneAtATimeSucceeds`, and `ImplementsContract` (refinement of `ResponseContract`) with one request per respondent | 2 workers, 2 respondents, 2 ids, 2 keys, 2 values, 2 surveys |
| `surveys` | `TypeOK`, `VersionsUnique`, `VersionsContiguous`, `PublishedIsDated`, `KeysUnique`, `FrozenForGood` whatever the interleaving | 2 workers, 3 surveys, 4 section ids |
| `surveys_serial` | `StatusMoves`, `PublishedTreeFrozen`, `WholeTreeCloned` with one request per survey | 2 workers, 3 surveys, bodies of 0 to 2 fields |
| `rules` | `CombinersAreBoolean`, `NegatedOps`, `AcceptedRaiseOnlyOnOrder`, `AcceptedConfigsUsable` on every input | about 270 rules on 27 answer dictionaries, 800 fields on 16 answers |
| `access` | `TypeOK`, `ContextInTenant`, `ServedAsMember`, `AuditFaithful`, `LogoutEnds`, `LoggedOut` under `FairSpec` | 2 workers, 1 user, 2 organizations, 1 login, 1 change |
| `reads` | `ReadsTypeOK`, `PublishedReadIsFinal`, `QuietEntryFresh`, `EventuallyFresh` | 1 administrator, 2 readers, 1 survey, 4 section ids |
| `reports` | `CountedAtLeastOnce`, `ListComplete`, `ExportFaithful`, `ReadersSeeTheirShare` | 2 workers, 1 respondent, 2 ids, 2 readers, 2 surveys |

Three more runs show a divergence between what the docs or comments say and what
the code does; TLC must find the property violated.

| run | property | the behaviour found |
| --- | --- | --- |
| `submitted_immutable` | `SubmittedImmutable` | a DELETE loads the draft, a submit commits, the DELETE removes the submitted response. The same window lets a PATCH change its answers, and a second submit its timestamp |
| `sensitivity_edit` | `SensitiveAtRest` | a response to a draft survey is answered in the clear, then an edit makes the field sensitive |
| `sensitive_roundtrip` | `SensitiveRoundTrip` | a number, or a choice that is not text, is accepted as sent and refused as read back from the encrypted column |

The properties of `serial` and `surveys_serial` need their restriction, and each
names a divergence as well. Without it a PATCH commits between the validation of
a submit and the status update, which leaves a submitted response that is not
valid (`SubmittedValid`; services.py 56 says all rules must pass "before anything
persists"); two creates find no draft, and the second INSERT raises an
`IntegrityError` that nothing handles (`OneAtATimeSucceeds`; views.py 74 says
"Idempotent per respondent"); an update that loaded the draft replaces the tree
of a published survey (`PublishedTreeFrozen`; README.md 242 says "Publishing
freezes a survey").

`submitted_immutable` and the violation of `SubmittedValid` have one cause, and
one repair: load the response with `select_for_update` inside the transaction
that writes. The same repair in `update` and `publish` freezes the tree. `StatusMoves` and
`WholeTreeCloned` hold in `surveys_serial`; under `Spec` a stale publish or
update revives an archived or published survey, and a stale update between the
two queries of a fork breaks the clone. The opposite of `SensitiveRoundTrip` does
not hold either: a number sent to a sensitive text field is refused by nobody,
for submit sees text.

What `rules` leaves open is as telling as what it shows. A rule is accepted if
evaluating it on no answers raises nothing, which stops at the first child that
decides: `AcceptedRaiseOnlyOnOrder` needs *every part* of the rule to be
accepted, since a malformed child behind one that decides is not seen until
answers reach it. `AcceptedConfigsUsable` needs the config to be an object, that
no object is sent to a single choice, and no list or object among the values of
a multiple one: the code raises `AttributeError` or `TypeError` there. A list sent
to a single choice, and anything but a list sent to a multiple one, is refused
before it is looked up.

`CountedAtLeastOnce` holds because the drafts are counted before the submitted
responses; the other order forgets a response that is submitted in between. The
sum can exceed the number of responses. `PublishedReadIsFinal` holds because the
row is read before the sections: whoever reads `published` reads the sections
later than that, when they change no more. `ExportFaithful` promises only the
responses that no request held as a draft: for the others the export may show
answers the submit never saw. `QuietEntryFresh` says what the signals are worth:
an entry filled while nobody edits is removed by the next edit; one filled
*during* an edit may stay stale, until it expires (`EventuallyFresh`). An archival
is the exception to the first: its signal comes after the commit, and not at all
if the worker dies.

`LogoutEnds` and `LoggedOut` say what a logout is: no exchange that begins later
succeeds, one that had found the token valid does, and the access tokens issued
go on for their lifetime, for no request looks the refresh token up.
`ServedAsMember` is about a caller whose standing changes while he is
authenticated: each of the three lookups found him in order at some moment of
the request, not necessarily the same. `AuditFaithful` needs that the INSERT does
not fail.

Other differences between docs and code that no run is about: detail reads are
said to be served from Redis (README.md 246 and 296, docs/architecture.md 129),
but no view reads the cache; the JWT blacklist is said to be in Redis
(docs/architecture.md 132), and is a database table (`token_blacklist` in
`INSTALLED_APPS`); the audit log "persists every request" (README.md 311), but
leaves out those without a user outside `/api/v1/auth/` and those whose INSERT
fails, which is suppressed. A respondent below admin sees `[encrypted]` for the
sensitive answers he gave himself: `redacted_value` looks at the role alone.

What the code does guarantee under any interleaving is `SettledImmutable` and
`FrozenForGood`: once no request *still in progress* loaded the row as a draft,
the response, or the survey and its tree, is immutable. `EventuallySettled` says
that under fairness this comes about, or that one of the stale requests deletes
the response.

### Bounds

- *Workers.* Every hazard found here is between two requests. Lock cycles need
  two keys, which `concurrent` and `liveness` have. For more
  workers there are the proofs.
- *Ids.* `ResponseIds` and `SurveyIds` are finite supplies, so the number of
  creations is bounded; two responses are needed for a submitted one next to a
  draft, three surveys for two forks of one or a fork of a fork. `TreeIds` are
  reused when the sections that had them are gone.
- *Values and fields.* `consent` is a required choice, `detail` a required
  sensitive text shown when consent is `yes`: unknown key (`OnlyConsent`),
  hidden, missing, refused and accepted answers all occur. Runs about time use
  one value or one key.
- *Rules.* Every op with every kind of target on every kind of answer; `all` and
  `any` of none to two children that are true, false, malformed or raise only
  once answered, and the negations of these. A third child adds no new order of
  the one that decides and the one that raises.
- *Fields.* Every subset of the keys of a type, each with values on both sides
  of its checks; choices of up to two entries.
- *Tenants and tokens.* Two organizations, for a context can only leak from one to
  another; two workers, for a logout and an exchange to overlap; the user is
  admin of one and viewer of the other, and views require an analyst, so that
  the same token is enough in one organization and not in the other, until
  `ChangeAccounts`. *`MaxChanges`* is 1: one change between any two lookups.
- *Readers.* Two, so that one can store after another; section ids are not given
  out again while a reader or the cache still holds them. Of administrators one,
  for `ReadsSpec` has one request at a time about a survey.
- *`MaxEdits`* bounds the edits of a draft survey under its responses.
- *Symmetry* over workers, respondents, response ids, survey ids and section
  ids, which the specifications treat alike; it is off in `liveness`, where it
  would be unsound.

### Fairness

In `liveness`, `WF(Proceed(w))`: a worker executes its
next statement, for nothing but the end of its process stops it. `SF(TakeRow(w))`:
a waiter for a row lock gets it in the end even if others take it in between,
for PostgreSQL's lock queue is first come, first served. `WF(DeadlockAbort(w))`:
the detector runs after `deadlock_timeout`. In `access`, `WF(Proceed(w))` again, and weak fairness of the expiry
of the access tokens of each login: they live for 15 minutes. In `reads`, weak
fairness of the expiry of each cache entry alone (60 s); no reader or
administrator has to go on. Nothing is assumed of clients, administrators or
crashes: no request has to be sent.

`SerialSpec` restricts the environment, not the code: a respondent (an
administrator, for a survey) waits for an answer before the next request.
`ReadsSpec` of `SurveyReads` has the latter restriction, `ReadsSpec` of
`ResponseReads` none but that the survey is frozen.

## What is proved

The proofs are for any number of workers, users, ids, keys and values, and any
rules and bodies that satisfy the named assumptions (`AnswerRulesAssumption`,
`LifecycleAssumption`, `RowAssumption`, `SurveyAssumption`,
`NoSurveyAssumption`, `AccessAssumption`, `ReadsAssumption`,
`RuleTreesAssumption`, `FieldRulesAssumption`), which say only that
the constants have the right kind and that the markers for "no row" are not rows.

`ResponseLifecycleProofs`:

- `TypeInvariant`: `Spec => []TypeOK`. `TypeOK` includes that a request at a
  step has in its registers what that step reads.
- `OneDraftInvariant`: `Spec => []OneDraft`. Inductive given the types: only
  `CreateInsert` makes a draft, and no step turns a submitted row into one.
- `NoOrphanInvariant`: `Spec => []NoOrphanAnswers`. By the two checks of the
  deferred foreign key: `PatchCommit` writes only if the response is there,
  `DestroyCommit` removes it only with every answer stored by then.
- `RowsMoveTheorem`: `Spec => RowsMoveOn`, from `RowsMove`: a row never comes back,
  keeps its respondent, and once submitted stays so or is deleted. That needs
  `InsertsFresh`: the id of a pending INSERT is that of no row and of no other
  request.
- `SettledImmutableTheorem`: `Spec => SettledImmutable`. An action property:
  with `TypeOK`, every step either is not about a settled response or finds it
  not open; that nobody holds it as a draft is kept because a load needs a draft.
- `SensitiveTheorem`: `FrozenSpec => []SensitiveAtRest`. Not inductive alone,
  for a commit writes cells that were made several steps before:
  `PayloadEncrypted` says it of those, and `FrozenTree` that the fields they were
  made for are still the survey's.

`ResponseContractProofs`, whatever the interleaving:

- `WholeWritesTheorem`: `Spec => WholeWrites`. What a COMMIT writes was split over
  the steps before it: `PatchAccounted` says that the keys of the body are at each
  step those written, the one in hand and those still to do, and that at
  the COMMIT none is left.

and with one request at a time for each respondent (`SerialSpec`), from one
inductive invariant, `SerialInv`: a request that has not yet written its row is
about an open draft of its own respondent (`OwnDraft`), who has none if it is
about to insert one (`NoDraftYet`); the fields a submit has read are the survey's,
and the answers it accepted are those still stored (`SubmitUpToDate`); what a PATCH
holds comes from a body (`PayloadsWritten`). `OwnRowStays` is where the
restriction is used: no step of another request touches that row or its answers.

- `SubmittedValidTheorem`: `SerialSpec => []SubmittedValid`.
- `OneAtATimeTheorem`: `SerialSpec => OneAtATimeSucceeds`. `SerialInv` is
  strengthened by `Undisturbed`: what a request has found is still so (the answer
  that was missing is missing, the answers still stored are among those the DELETE
  has scanned, the response it submitted is there), and only a PATCH or a DELETE
  holds locks, so that nobody waits for one (`NobodyWaits`).
- `ContractTheorem`: `SerialSpec => ImplementsContract`, the refinement. The INSERT
  of a draft is `Start`, the COMMIT of a PATCH `Save` of the whole body, the UPDATE
  of a submit `Submit`, the COMMIT of a DELETE `Discard`; every other step stutters.
  One lemma for each of the four.

`ResponseReadsProofs`:

- `ReadsRefineLifecycle`: `ReadsSpec => FrozenSpec`, so the theorems above hold
  with reports under way.
- `CountTheorem`, `ListTheorem`: `CountedAtLeastOnce` and `ListComplete`. Both
  rest on `RowsMove`.
- `ExportTheorem`: `ExportFaithful`, from `SettledStep` (a settled response stays
  as it is) and `FrozenTree` (the columns stay the survey's fields).
- `ShareTheorem`: `ReadersSeeTheirShare`, from `SensitiveTheorem` at the moment the
  answers are read, and `RowsMove` for the permission that was checked before.

`SurveyEditingProofs`:

- `TypeInvariant`: `Spec => []TypeOK`.
- `VersionInvariant`, `ContiguousTheorem`: `Spec => []VersionsUnique`,
  `Spec => []VersionsContiguous`. Neither
  is inductive: a fork inserts a version it computed several steps earlier. The
  invariant `VersionInv` adds that a fork that knows its version `n` has `n - 1`
  taken in its group (versions are never removed, so it stays so), that `n` is
  not taken once the INSERT is pending, that two pending INSERTs of a group have
  different versions, and that the group of a survey is the id of an existing
  one, so that a new survey starts a new group. One lemma per kind of step.
- `DatedTheorem`: `Spec => []PublishedIsDated`. Inductive given the types.
- `FrozenTheorem`: `Spec => FrozenForGood`. `DraftHolders` says how a request comes
  to hold a survey as a draft: only by loading one.
- `KeysTheorem`: `Spec => []KeysUnique`. Not inductive: an update that has read the
  sections of a survey replaces just those at its COMMIT, and would leave next to
  its own any that were added since. `EditsAlone` says that there are none: of the
  updates of a survey only one is past its first UPDATE, whose lock it holds, and
  the sections it read are still all. A fork copies each section whole or empty
  (`CopyDistinct`).
- With one request at a time about each survey (`SerialSpec`), `StatusTheorem`
  (`StatusMoves`), `PublishedTreeTheorem` (`PublishedTreeFrozen`) and `CloneTheorem`
  (`WholeTreeCloned`), from the invariant `Loaded`: what a request has loaded of
  its survey, the draft status or the sections to copy, is still true of it.

`SurveyReadsProofs`:

- `ReadsRefineEditing`: `ReadsSpec => SerialSpec` of `SurveyEditing`, so the theorems
  above hold with readers and a cache. Each step of an administrator with its
  signal is a step of `SurveyEditing` or changes no survey and no request;
  readers and expiry change neither. `ReadsTypeInvariant`: `ReadsSpec => []ReadsTypeOK`.
- `FinalReadTheorem`: `ReadsSpec => []PublishedReadIsFinal`. The invariant
  `FinalReads` follows a reader through its queries: once it has read a status
  other than draft the survey has left that status, so that the sections, and
  then the fields, are those it keeps (`FinalSurvey`); and so in the cache.
- `QuietTheorem`: `ReadsSpec => []QuietEntryFresh`. `QuietReads` adds that a reader
  which has seen no administrator at work has read the survey of now, and that
  from the signal of a transaction to its COMMIT the cache holds no entry of such a
  reader: the signal deletes it, and whoever stores one later saw that transaction.

`TenantAccessProofs`: `TypeInvariant`, and the three safety invariants
`TenantTheorem` (`ContextInTenant`), `MemberTheorem` (`ServedAsMember`) and
`AuditTheorem` (`AuditFaithful`). None is inductive: `AuthMember` sets the context
and checks the role several steps before the view reads and the middleware
writes the audit row. The invariant `AccessInv` says of each worker
(`CallerInOrder`) what holds at every step between: the context a request found
is empty; the context is the organization of the token exactly while a membership
is attached; the standing found by each lookup is in `since`, which only grows
while the request runs; and what the audit row was made of is still there. `LogoutTheorem`:
`Spec => LogoutEnds`, for no exchange begins of a token that has ended
(`NoExchangeBegins`).

`FieldRulesProofs`, about rules nested to any depth, fields of any config and
answers of any kind. The library's induction theorems cannot be used, for they
take an operator as a parameter; induction is done here as the existence of a
least counterexample. `Smallest`: a set of numbers has a least element, as `<` is
well founded; `Shallowest`: a set of rules has one none of whose children is in it.

- `EvaluationTheorem`: `Evaluation`, a recursive function, satisfies its equation, and
  its values are `"true"`, `"false"` and `"error"`: `evaluate` ends on every finite
  rule. It rests on `Recursion`, which is about any function defined over rules from
  its values at the children: there is one up to every depth (`RightSomewhere`), any
  two agree (`RightOnce`), and they join. The constant operator `Evaluate` of
  `AnswerRules` is assumed to have just these values.
- `CombinersTheorem`: `Spec => []CombinersAreBoolean`, from `FirstOtherDecides`, which
  is about the early stop over any sequence of results.
- `OppositesTheorem`: `Spec => []NegatedOps`, op by op.
- `AcceptedRulesTheorem`: `Spec => []AcceptedRaiseOnlyOnOrder`. A shallowest rule that
  contradicts it is a leaf, and `LeafRaises` says of a leaf that is accepted what can
  make it raise; or it raises because a child does, whose parts are its own
  (`PartsDefined`, by `Recursion` again).
- `AcceptedConfigsTheorem`: `Spec => []AcceptedConfigsUsable`. Choices that
  `validate_config` accepts can all be put in a set (`ChoicesAccepted`), and then each
  value of an answer is looked up unless it is itself unhashable (`ChoicesAnswered`).

Only model-checked are the liveness properties `EveryRequestAnswered`,
`EventuallySettled`, `LoggedOut` and `EventuallyFresh`: they rest on fairness, hence
on `ENABLED`, which is out of the prover's reach.

## What is not modelled

- `latest`, and lists of surveys: they read `version` and the group, which never
  change, of rows that never go. Lists of audit rows: append-only.
- Pagination, and the `select_related` rows that come with a query.
- What a view does inside `TenantAccess`: the other modules have it.
- Python's recursion limit, for rules nested hundreds deep.
- Rules whose `field` or `op` is not a string, regular expressions other than
  literal text, and comparisons of lists nested in lists.
- Titles, labels, positions, help texts: no handler decides anything on them.
  A body with two sections in one position is refused by a constraint and
  changes nothing.
- Users being deleted (the respondent of a response becomes NULL).
- Other organizations, outside `TenantAccess`: every query of these handlers is
  filtered by the tenant, and `ContextInTenant` is what that rests on.
- Rate-limit counters: throttled requests are refused at any time (`RefuseAtOnce`).
- Creation and deletion of users, memberships and organizations: only the flags
  and roles change.
- `send_bulk_invitations` (it logs), request ids, the error envelope, logging,
  settings, the admin's own screens, the seed commands and the load test: no
  state that a property could be about.

## Plan

Done: 1 `AnswerRules`, 2 `ResponseLifecycle`, 3 `ResponseContract`, 4
`SurveyEditing`, 5 `VisibilityLogic`, 6 `FieldTypes`, 7 `TenantAccess`, 8
`SurveyReads`, 9 `ResponseReads`, and the proofs above.

Next: lemmas about `AnswerRules` for any rules (that `SubmitErrors` is decided by
the visible fields alone), and the promises of `SurveyEditing` as an abstract
specification of its own, like `ResponseContract`.
