----------------------------- MODULE SurveyEditing -----------------------------
(***************************************************************************)
(* The surveys of one organization and their administrators: create,       *)
(* replace, publish, archive and fork a survey (SurveyViewSet and          *)
(* SurveySerializer), run by several web workers against one PostgreSQL    *)
(* database at READ COMMITTED.                                             *)
(*                                                                         *)
(* A worker keeps the copy of the survey it loaded in request[w] and acts  *)
(* on it later.  A survey row that an open transaction has updated stays   *)
(* locked until that transaction ends; what it wrote is seen by others     *)
(* when it commits.                                                        *)
(***************************************************************************)
EXTENDS Naturals, Sequences, Functions

CONSTANTS
  Keys,        \* field keys
  Bodies,      \* field keys of a request body, in order, over all its sections
  SurveyIds,   \* primary keys; a finite supply bounds the surveys created
  TreeIds,     \* primary keys of the sections, one for all those of one write
  Workers,     \* web workers
  NoSurvey,    \* no survey has been created with this id
  Nil          \* a register an idle worker does not use

ASSUME SurveyAssumption ==
  /\ Bodies \subseteq Seq(Keys)
  /\ <<>> \in Bodies
  /\ Nil \notin SurveyIds

VARIABLES
  surveys,   \* surveys_survey, with its sections and fields: id -> row
  request    \* what each worker is doing, and what it has read

vars == <<surveys, request>>

--------------------------------------------------------------------------------
\* The sections written by one request and the keys of the fields in them.
Tree == [id : TreeIds, keys : Bodies]

Survey == [group : SurveyIds, version : Nat \ {0},
           status : {"draft", "published", "archived"},
           dated : BOOLEAN,            \* published_at is not NULL
           trees : SUBSET Tree]        \* the sections that point to it

ASSUME NoSurveyAssumption == NoSurvey \notin Survey

Steps == {"update_save", "update_sections", "update_write",
          "publish_save", "archive_save",
          "fork_version", "fork_insert", "fork_sections", "fork_fields"}

Registers == [pc : {"idle"} \cup Steps,
              id : SurveyIds \cup {Nil},   \* the survey loaded
              seen : SUBSET Tree,          \* the sections it has read
              version : Nat]               \* fork: the version of the clone

Idle == [pc |-> "idle", id |-> Nil, seen |-> {}, version |-> 0]

Exists(s) == surveys[s] # NoSurvey

\* A request under way is about a survey that exists, and a fork that inserts
\* knows its version.
TypeOK ==
  /\ surveys \in [SurveyIds -> Survey \cup {NoSurvey}]
  /\ request \in [Workers -> Registers]
  /\ \A w \in Workers :
        /\ request[w].pc \in Steps => request[w].id \in SurveyIds /\ Exists(request[w].id)
        /\ request[w].pc \in {"fork_insert", "fork_sections", "fork_fields"} =>
              request[w].version > 0

Init ==
  /\ surveys = [s \in SurveyIds |-> NoSurvey]
  /\ request = [w \in Workers |-> Idle]

--------------------------------------------------------------------------------
At(w, step) == request[w].pc = step
Busy(w) == ~ At(w, "idle")

Finish(w) == request' = [request EXCEPT ![w] = Idle]
Begin(w, s, step) == request' = [request EXCEPT ![w] = [Idle EXCEPT !.pc = step, !.id = s]]
Advance(w, step) == request' = [request EXCEPT ![w].pc = step]

\* The keys of a body must be unique over the whole survey (SurveySerializer.validate).
ValidBody(body) == IsInjective(body)

\* The transaction of v has updated the row of survey s.
Locks(v, s) == request[v].pc \in {"update_sections", "update_write"} /\ request[v].id = s
Unlocked(s) == \A v \in Workers : ~ Locks(v, s)

FreshTree(t) ==
  /\ \A s \in SurveyIds : Exists(s) => \A tree \in surveys[s].trees : tree.id # t
  /\ \A v \in Workers : \A tree \in request[v].seen : tree.id # t

Group(g) == {s \in SurveyIds : Exists(s) /\ surveys[s].group = g}
Versions(g) == {surveys[s].version : s \in Group(g)}

--------------------------------------------------------------------------------
(* POST /surveys/: the survey and its tree, in one transaction.              *)

CreateSurvey(w) ==
  /\ ~ Busy(w)
  /\ \E s \in SurveyIds, t \in TreeIds, body \in {b \in Bodies : ValidBody(b)} :
        /\ ~ Exists(s)
        /\ FreshTree(t)
        /\ surveys' = [surveys EXCEPT ![s] =
              [group |-> s, version |-> 1, status |-> "draft", dated |-> FALSE,
               trees |-> {[id |-> t, keys |-> body]}]]
  /\ UNCHANGED request

\* An invalid body, or a survey loaded in the wrong status: 400 or 409.
Refuse(w) ==
  /\ ~ Busy(w)
  /\ UNCHANGED vars

--------------------------------------------------------------------------------
(* PUT and PATCH /surveys/{id}/                                              *)

\* Mutant of UpdateLoad: the status is not checked.
UpdateLoadAnyStatus(w, s) ==
  /\ ~ Busy(w)
  /\ Exists(s)
  /\ Begin(w, s, "update_save")
  /\ UNCHANGED surveys

\* get_object; update() then checks the status of that copy.
UpdateLoad(w, s) ==
  /\ ~ Busy(w)
  /\ Exists(s) /\ surveys[s].status = "draft"
  /\ Begin(w, s, "update_save")
  /\ UNCHANGED surveys

\* Mutant of UpdateSave: the row is not written, hence not locked.
UpdateSaveNothing(w) ==
  /\ At(w, "update_save")
  /\ Advance(w, "update_sections")
  /\ UNCHANGED surveys

\* instance.save(): UPDATE of every column, which takes the lock on the row.
UpdateSave(w) ==
  /\ At(w, "update_save")
  /\ Unlocked(request[w].id)
  /\ Advance(w, "update_sections")
  /\ UNCHANGED surveys

\* Section.filter(survey=instance).delete() reads the sections to delete.
UpdateSections(w) ==
  /\ At(w, "update_sections")
  /\ request' = [request EXCEPT ![w] =
        [@ EXCEPT !.pc = "update_write", !.seen = surveys[request[w].id].trees]]
  /\ UNCHANGED surveys

\* Mutant of UpdateCommit: the update saves every column but the status.
UpdateCommitKeepingStatus(w) ==
  /\ At(w, "update_sections")
  /\ surveys' = [surveys EXCEPT ![request[w].id].dated = FALSE]
  /\ Finish(w)

\* The sections read are deleted, those of the body written, and COMMIT.  The
\* row now has every column of the copy loaded: its status, and no date.
UpdateCommit(w) ==
  LET s == request[w].id
      Saved(trees) == surveys' = [surveys EXCEPT ![s] =
                        [@ EXCEPT !.status = "draft", !.dated = FALSE, !.trees = trees]]
  IN  /\ \/ /\ At(w, "update_write")
            /\ \E t \in TreeIds, body \in {b \in Bodies : ValidBody(b)} :
                  /\ FreshTree(t)
                  /\ Saved((surveys[s].trees \ request[w].seen)
                             \cup {[id |-> t, keys |-> body]})
         \/ /\ At(w, "update_sections")      \* a body without sections
            /\ Saved(surveys[s].trees)
      /\ Finish(w)

--------------------------------------------------------------------------------
(* POST .../publish/ and DELETE                                              *)

\* Mutant of PublishLoad: the status is not checked.
PublishLoadAnyStatus(w, s) ==
  /\ ~ Busy(w)
  /\ Exists(s)
  /\ Begin(w, s, "publish_save")
  /\ UNCHANGED surveys

PublishLoad(w, s) ==
  /\ ~ Busy(w)
  /\ Exists(s) /\ surveys[s].status = "draft"
  /\ Begin(w, s, "publish_save")
  /\ UNCHANGED surveys

\* UPDATE of status and published_at, and COMMIT.
PublishSave(w) ==
  LET s == request[w].id
  IN  /\ At(w, "publish_save")
      /\ Unlocked(s)
      /\ surveys' = [surveys EXCEPT ![s] = [@ EXCEPT !.status = "published", !.dated = TRUE]]
      /\ Finish(w)

\* destroy() checks nothing of the survey it loads.
ArchiveLoad(w, s) ==
  /\ ~ Busy(w)
  /\ Exists(s)
  /\ Begin(w, s, "archive_save")
  /\ UNCHANGED surveys

ArchiveSave(w) ==
  LET s == request[w].id
  IN  /\ At(w, "archive_save")
      /\ Unlocked(s)
      /\ surveys' = [surveys EXCEPT ![s] = [@ EXCEPT !.status = "archived"]]
      /\ Finish(w)

--------------------------------------------------------------------------------
(* POST .../new_version/, in one transaction                                 *)

\* Mutant of ForkLoad: the clone is inserted before its version is known.
ForkLoadUnnumbered(w, s) ==
  /\ ~ Busy(w)
  /\ Exists(s) /\ surveys[s].status = "published"
  /\ Begin(w, s, "fork_insert")
  /\ UNCHANGED surveys

ForkLoad(w, s) ==
  /\ ~ Busy(w)
  /\ Exists(s) /\ surveys[s].status = "published"
  /\ Begin(w, s, "fork_version")
  /\ UNCHANGED surveys

\* Mutant of ForkVersion: the next version but one.
ForkVersionSkipping(w) ==
  /\ At(w, "fork_version")
  /\ \E n \in Versions(surveys[request[w].id].group) :
        /\ \A m \in Versions(surveys[request[w].id].group) : m <= n
        /\ request' = [request EXCEPT ![w] = [@ EXCEPT !.pc = "fork_insert", !.version = n + 2]]
  /\ UNCHANGED surveys

\* aggregate(Max("version")) + 1 over the committed versions of the group.
ForkVersion(w) ==
  /\ At(w, "fork_version")
  /\ \E n \in Versions(surveys[request[w].id].group) :
        /\ \A m \in Versions(surveys[request[w].id].group) : m <= n
        /\ request' = [request EXCEPT ![w] = [@ EXCEPT !.pc = "fork_insert", !.version = n + 1]]
  /\ UNCHANGED surveys

\* v has inserted, and not yet committed, the version of the group that w is to insert.
Claims(v, w) ==
  /\ request[v].pc \in {"fork_sections", "fork_fields"}
  /\ request[v].version = request[w].version
  /\ surveys[request[v].id].group = surveys[request[w].id].group

\* Mutant of ForkInsert: no constraint on the versions of a group.
ForkInsertUnconstrained(w) ==
  /\ At(w, "fork_insert")
  /\ Advance(w, "fork_sections")
  /\ UNCHANGED surveys

\* INSERT of the clone under uniq_survey_group_version: it waits for another
\* pending INSERT of that version, and fails when one has committed.
ForkInsert(w) ==
  /\ At(w, "fork_insert")
  /\ \A v \in Workers : ~ Claims(v, w)
  /\ IF request[w].version \in Versions(surveys[request[w].id].group)
     THEN Finish(w)
     ELSE Advance(w, "fork_sections")
  /\ UNCHANGED surveys

\* source.sections.all()
ForkSections(w) ==
  /\ At(w, "fork_sections")
  /\ request' = [request EXCEPT ![w] =
        [@ EXCEPT !.pc = "fork_fields", !.seen = surveys[request[w].id].trees]]
  /\ UNCHANGED surveys

\* Mutant of ForkCommit: the sections are copied without their fields.
ForkCommitBare(w) ==
  LET q == request[w]
  IN  /\ At(w, "fork_fields")
      /\ \E c \in SurveyIds, copy \in Injection(q.seen, {t \in TreeIds : FreshTree(t)}) :
            /\ ~ Exists(c)
            /\ surveys' = [surveys EXCEPT ![c] =
                  [group |-> surveys[q.id].group, version |-> q.version,
                   status |-> "draft", dated |-> FALSE,
                   trees |-> {[id |-> copy[tree], keys |-> <<>>] : tree \in q.seen}]]
      /\ Finish(w)

\* prefetch_related("fields") is a second query, which finds no fields for a
\* section deleted in between; then the copies are written, and COMMIT.
ForkCommit(w) ==
  LET q == request[w]
      source == surveys[q.id]
      KeysOf(tree) == IF tree \in source.trees THEN tree.keys ELSE <<>>
  IN  /\ At(w, "fork_fields")
      /\ \E c \in SurveyIds, copy \in Injection(q.seen, {t \in TreeIds : FreshTree(t)}) :
            /\ ~ Exists(c)
            /\ surveys' = [surveys EXCEPT ![c] =
                  [group |-> source.group, version |-> q.version,
                   status |-> "draft", dated |-> FALSE,
                   trees |-> {[id |-> copy[tree], keys |-> KeysOf(tree)] : tree \in q.seen}]]
      /\ Finish(w)

--------------------------------------------------------------------------------
\* The worker is killed, or loses its connection: its transaction rolls back.
Crash(w) ==
  /\ Busy(w)
  /\ Finish(w)
  /\ UNCHANGED surveys

NewRequest(w) ==
  \/ CreateSurvey(w)
  \/ Refuse(w)
  \/ \E s \in SurveyIds : UpdateLoad(w, s) \/ PublishLoad(w, s) \/ ArchiveLoad(w, s) \/ ForkLoad(w, s)

Proceed(w) ==
  \/ UpdateSave(w) \/ UpdateSections(w) \/ UpdateCommit(w)
  \/ PublishSave(w) \/ ArchiveSave(w)
  \/ ForkVersion(w) \/ ForkInsert(w) \/ ForkSections(w) \/ ForkCommit(w)

Next == \E w \in Workers : NewRequest(w) \/ Proceed(w) \/ Crash(w)

Spec == Init /\ [][Next]_vars

\* At most one request in progress about each survey.
SerialAdmins ==
  \A v, w \in Workers : Busy(v) /\ Busy(w) /\ request[v].id = request[w].id => v = w

SerialSpec == Init /\ [][Next /\ SerialAdmins']_vars

--------------------------------------------------------------------------------
(* What the code guarantees whatever the interleaving.                       *)

\* Two surveys of a group have different versions, although new_version reads
\* the last version and inserts the next in two statements (views.py 167-183).
VersionsUnique ==
  \A s, t \in SurveyIds :
    Exists(s) /\ Exists(t) /\ surveys[s].group = surveys[t].group
      /\ surveys[s].version = surveys[t].version => s = t

\* The versions of a group are 1 .. n: a fork that fails leaves no gap.
VersionsContiguous ==
  \A s \in SurveyIds :
    Exists(s) /\ surveys[s].version > 1 =>
      surveys[s].version - 1 \in Versions(surveys[s].group)

\* The keys of a survey's fields are unique, over all its sections, whoever
\* replaces them at the same time: no constraint of the database says so.
KeysUnique ==
  \A s \in SurveyIds : Exists(s) =>
    \A a, b \in surveys[s].trees : \A i \in DOMAIN a.keys, j \in DOMAIN b.keys :
      a.keys[i] = b.keys[j] => a = b /\ i = j

\* A published survey has a publication date, also when an update that loaded
\* it as a draft overwrites every column of it.
PublishedIsDated ==
  \A s \in SurveyIds : Exists(s) /\ surveys[s].status = "published" => surveys[s].dated

\* No request still in progress loaded s as a draft.
Frozen(s) ==
  /\ Exists(s) /\ surveys[s].status # "draft"
  /\ \A w \in Workers :
        request[w].id = s => request[w].pc \notin {"update_save", "update_sections",
                                                   "update_write", "publish_save"}

\* A survey that has left the draft status, and that no request still holds as
\* a draft, keeps its tree, its version and its date; it can only be archived.
FrozenForGood ==
  [][\A s \in SurveyIds :
        Frozen(s) =>
          /\ Frozen(s)'
          /\ surveys'[s] \in {surveys[s], [surveys[s] EXCEPT !.status = "archived"]}]_vars

--------------------------------------------------------------------------------
(* What the docs promise; with one request per survey at a time it is kept.  *)

\* "Only draft -> published is allowed" (docs/cookbook.md 75), besides archival.
StatusMoves ==
  [][\A s \in SurveyIds :
        Exists(s) /\ surveys'[s].status # surveys[s].status =>
          \/ surveys[s].status = "draft" /\ surveys'[s].status = "published"
          \/ surveys'[s].status = "archived"]_vars

\* "Publishing freezes a survey" (README.md 242).
PublishedTreeFrozen ==
  [][\A s \in SurveyIds :
        Exists(s) /\ surveys[s].status = "published" => surveys'[s].trees = surveys[s].trees]_vars

\* new_version "clones the whole tree into a new row" (docs/cookbook.md 75).
WholeTreeCloned ==
  [][\A w \in Workers, c \in SurveyIds :
        At(w, "fork_fields") /\ ~ Exists(c) /\ Exists(c)' /\ ~ Busy(w)' =>
          {tree.keys : tree \in surveys'[c].trees} = {tree.keys : tree \in request[w].seen}]_vars

================================================================================
