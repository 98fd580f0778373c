------------------------- MODULE SurveyEditingProofs ---------------------------
(***************************************************************************)
(* What holds of SurveyEditing for every number of surveys, workers and    *)
(* keys, and every set of bodies.                                          *)
(***************************************************************************)
EXTENDS SurveyEditing, TLAPS

USE DEF At

ForkWrites == {"fork_insert", "fork_sections", "fork_fields"}

\* The steps of w that write a survey.
Writes(w) ==
  CreateSurvey(w) \/ UpdateCommit(w) \/ PublishSave(w) \/ ArchiveSave(w) \/ ForkCommit(w)

\* What a survey is about never changes: its group and its version.
KeepsSurveys ==
  \A s \in SurveyIds : Exists(s) =>
    /\ Exists(s)'
    /\ surveys'[s].group = surveys[s].group
    /\ surveys'[s].version = surveys[s].version

--------------------------------------------------------------------------------
(* Types.                                                                    *)

LEMMA IdleType == Idle \in Registers
BY DEF Idle, Registers

\* A worker about to act on a survey knows which.
LEMMA SurveyOf ==
  ASSUME TypeOK, NEW w \in Workers, Busy(w)
  PROVE  /\ request[w].id \in SurveyIds
         /\ surveys[request[w].id] \in Survey
BY DEF TypeOK, Busy, Registers, Exists

LEMMA SurveysType ==
  ASSUME TypeOK, NEW w \in Workers, Writes(w)
  PROVE  surveys' \in [SurveyIds -> Survey \cup {NoSurvey}] /\ KeepsSurveys
<1> USE NoSurveyAssumption
<1>1. CASE CreateSurvey(w)
  <2> PICK s \in SurveyIds, t \in TreeIds, body \in Bodies :
        /\ ~ Exists(s)
        /\ surveys' = [surveys EXCEPT ![s] =
              [group |-> s, version |-> 1, status |-> "draft", dated |-> FALSE,
               trees |-> {[id |-> t, keys |-> body]}]]
    BY <1>1 DEF CreateSurvey
  <2>1. [group |-> s, version |-> 1, status |-> "draft", dated |-> FALSE,
         trees |-> {[id |-> t, keys |-> body]}] \in Survey
    BY DEF Survey, Tree
  <2> QED
    BY <2>1 DEF TypeOK, KeepsSurveys, Exists
<1>2. CASE UpdateCommit(w)
  <2> DEFINE s == request[w].id
  <2>1. s \in SurveyIds /\ surveys[s] \in Survey
    BY <1>2, SurveyOf DEF UpdateCommit, Busy
  <2> PICK trees \in SUBSET Tree : surveys' = [surveys EXCEPT ![s] =
              [@ EXCEPT !.status = "draft", !.dated = FALSE, !.trees = trees]]
    <3>1. surveys[s].trees \in SUBSET Tree
      BY <2>1 DEF Survey
    <3>2. \A t \in TreeIds, body \in Bodies :
             (surveys[s].trees \ request[w].seen) \cup {[id |-> t, keys |-> body]} \in SUBSET Tree
      BY <3>1 DEF Tree
    <3> QED
      BY <1>2, <3>1, <3>2 DEF UpdateCommit
  <2>2. [surveys[s] EXCEPT !.status = "draft", !.dated = FALSE, !.trees = trees] \in Survey
    BY <2>1 DEF Survey
  <2> QED
    BY <2>1, <2>2 DEF TypeOK, KeepsSurveys, Exists, Survey
<1>3. CASE PublishSave(w)
  <2> DEFINE s == request[w].id
  <2>1. s \in SurveyIds /\ surveys[s] \in Survey
    BY <1>3, SurveyOf DEF PublishSave, Busy
  <2>2. [surveys[s] EXCEPT !.status = "published", !.dated = TRUE] \in Survey
    BY <2>1 DEF Survey
  <2> QED
    BY <1>3, <2>1, <2>2 DEF PublishSave, TypeOK, KeepsSurveys, Exists, Survey
<1>4. CASE ArchiveSave(w)
  <2> DEFINE s == request[w].id
  <2>1. s \in SurveyIds /\ surveys[s] \in Survey
    BY <1>4, SurveyOf DEF ArchiveSave, Busy
  <2>2. [surveys[s] EXCEPT !.status = "archived"] \in Survey
    BY <2>1 DEF Survey
  <2> QED
    BY <1>4, <2>1, <2>2 DEF ArchiveSave, TypeOK, KeepsSurveys, Exists, Survey
<1>5. CASE ForkCommit(w)
  <2> DEFINE q == request[w]
             source == surveys[q.id]
             CopiedKeys(tree) == IF tree \in source.trees THEN tree.keys ELSE <<>>
  <2>1. source \in Survey
    BY <1>5, SurveyOf DEF ForkCommit, Busy
  <2>2. q.seen \in SUBSET Tree /\ q.version \in Nat \ {0}
    BY <1>5 DEF ForkCommit, TypeOK, Registers
  <2> PICK c \in SurveyIds, copy \in Injection(q.seen, {t \in TreeIds : FreshTree(t)}) :
        /\ ~ Exists(c)
        /\ surveys' = [surveys EXCEPT ![c] =
              [group |-> source.group, version |-> q.version, status |-> "draft",
               dated |-> FALSE,
               trees |-> {[id |-> copy[tree], keys |-> CopiedKeys(tree)] : tree \in q.seen}]]
    BY <1>5 DEF ForkCommit
  <2>0. copy \in [q.seen -> TreeIds]
    BY DEF Injection
  <2>3. \A tree \in q.seen : CopiedKeys(tree) \in Bodies
    BY <2>2, SurveyAssumption DEF Tree
  <2>4. \A tree \in q.seen : [id |-> copy[tree], keys |-> CopiedKeys(tree)] \in Tree
    BY <2>0, <2>3 DEF Tree
  <2>5. [group |-> source.group, version |-> q.version, status |-> "draft", dated |-> FALSE,
         trees |-> {[id |-> copy[tree], keys |-> CopiedKeys(tree)] : tree \in q.seen}] \in Survey
    BY <2>1, <2>2, <2>4 DEF Survey
  <2> QED
    BY <2>5 DEF TypeOK, KeepsSurveys, Exists
<1> QED
  BY <1>1, <1>2, <1>3, <1>4, <1>5 DEF Writes

LEMMA QuietStep ==
  ASSUME [Next]_vars, \A w \in Workers : ~ Writes(w)
  PROVE  UNCHANGED surveys
BY DEF Next, vars, NewRequest, Proceed, Crash, Writes, Refuse, UpdateLoad, UpdateSave,
       UpdateSections, PublishLoad, ArchiveLoad, ForkLoad, ForkVersion, ForkInsert, ForkSections

LEMMA StepKeepsSurveys ==
  ASSUME TypeOK, [Next]_vars
  PROVE  surveys' \in [SurveyIds -> Survey \cup {NoSurvey}] /\ KeepsSurveys
BY SurveysType, QuietStep DEF TypeOK, KeepsSurveys, Exists

\* How the registers of a worker may change: it answers, begins a request about
\* a survey that exists, or takes the next step of the one it has.
RequestMoves(w) ==
  \/ request'[w] = request[w]
  \/ request'[w] = Idle
  \/ /\ request'[w].id \in SurveyIds /\ Exists(request'[w].id)
     /\ request'[w].pc \notin ForkWrites
     /\ ~ Busy(w)
  \/ /\ request'[w].id = request[w].id
     /\ request'[w].pc \in ForkWrites => request'[w].version > 0
     /\ Busy(w)

LEMMA RequestType ==
  ASSUME TypeOK, [Next]_vars
  PROVE  /\ request' \in [Workers -> Registers]
         /\ \A w \in Workers : RequestMoves(w)
<1> USE DEF RequestMoves, ForkWrites
<1>0. CASE UNCHANGED request
  BY <1>0 DEF TypeOK
<1> SUFFICES ASSUME NEW w \in Workers, NewRequest(w) \/ Proceed(w) \/ Crash(w),
                    ~ UNCHANGED request
             PROVE  /\ request' \in [Workers -> Registers]
                    /\ \A v \in Workers : RequestMoves(v)
  BY <1>0 DEF Next, vars
<1>q. request[w] \in Registers
  BY DEF TypeOK
<1>1. CASE Finish(w)
  BY <1>1, IdleType DEF Finish, TypeOK
<1>2. ASSUME NEW s \in SurveyIds, Exists(s), ~ Busy(w),
             NEW step \in {"update_save", "publish_save", "archive_save", "fork_version"},
             Begin(w, s, step)
      PROVE  /\ request' \in [Workers -> Registers]
             /\ \A v \in Workers : RequestMoves(v)
  <2>1. [Idle EXCEPT !.pc = step, !.id = s] \in Registers
    BY DEF Idle, Registers, Steps
  <2>2. [Idle EXCEPT !.pc = step, !.id = s].id = s
    BY DEF Idle
  <2>3. [Idle EXCEPT !.pc = step, !.id = s].pc = step
    BY DEF Idle
  <2> QED
    BY <1>2, <2>1, <2>2, <2>3 DEF Begin, TypeOK
<1>3. CASE UpdateSave(w) \/ ForkInsert(w)
  BY <1>1, <1>3, <1>q DEF UpdateSave, ForkInsert, Advance, TypeOK, Busy, Registers, Steps
<1>4. CASE UpdateSections(w) \/ ForkSections(w)
  <2>1. surveys[request[w].id].trees \in SUBSET Tree
    BY <1>4, SurveyOf DEF UpdateSections, ForkSections, Busy, Survey
  <2>2. \A step \in {"update_write", "fork_fields"} :
          /\ [request[w] EXCEPT !.pc = step, !.seen = surveys[request[w].id].trees] \in Registers
          /\ [request[w] EXCEPT !.pc = step, !.seen = surveys[request[w].id].trees].id
               = request[w].id
          /\ [request[w] EXCEPT !.pc = step, !.seen = surveys[request[w].id].trees].version
               = request[w].version
          /\ [request[w] EXCEPT !.pc = step, !.seen = surveys[request[w].id].trees].pc = step
    BY <1>q, <2>1 DEF Registers, Steps
  <2> QED
    BY <1>4, <2>2 DEF UpdateSections, ForkSections, TypeOK, Busy
<1>5. CASE ForkVersion(w)
  <2> PICK n \in Versions(surveys[request[w].id].group) :
        request' = [request EXCEPT ![w] = [@ EXCEPT !.pc = "fork_insert", !.version = n + 1]]
    BY <1>5 DEF ForkVersion
  <2>1. n \in Nat
    BY DEF Versions, Group, TypeOK, Survey, Exists
  <2>2. \A m \in Nat :
          /\ [request[w] EXCEPT !.pc = "fork_insert", !.version = m] \in Registers
          /\ [request[w] EXCEPT !.pc = "fork_insert", !.version = m].id = request[w].id
          /\ [request[w] EXCEPT !.pc = "fork_insert", !.version = m].version = m
    BY <1>q DEF Registers, Steps
  <2>3. n + 1 \in Nat /\ n + 1 > 0
    BY <2>1
  <2> QED
    BY <1>5, <2>2, <2>3 DEF ForkVersion, TypeOK, Busy
<1> QED
  BY <1>0, <1>1, <1>2, <1>3, <1>4, <1>5
  DEF NewRequest, Proceed, Crash, CreateSurvey, Refuse, vars, UpdateLoad, PublishLoad,
      ArchiveLoad, ForkLoad, UpdateCommit, PublishSave, ArchiveSave, ForkCommit

THEOREM TypeInvariant == Spec => []TypeOK
<1>1. Init => TypeOK
  BY IdleType DEF Init, TypeOK, Idle, Steps
<1>2. TypeOK /\ [Next]_vars => TypeOK'
  <2> SUFFICES ASSUME TypeOK, [Next]_vars, NEW w \in Workers
               PROVE  /\ request'[w].pc \in Steps =>
                           request'[w].id \in SurveyIds /\ Exists(request[w].id)'
                      /\ request'[w].pc \in ForkWrites => request'[w].version > 0
    BY StepKeepsSurveys, RequestType DEF TypeOK, ForkWrites
  <2>1. KeepsSurveys /\ RequestMoves(w) /\ request'[w] \in Registers
    BY StepKeepsSurveys, RequestType
  <2>2. CASE Busy(w)
    <3>1. request[w].id \in SurveyIds /\ Exists(request[w].id)
      BY <2>2, SurveyOf, NoSurveyAssumption DEF Exists
    <3> QED
      BY <2>1, <3>1 DEF RequestMoves, KeepsSurveys, TypeOK, Idle, Steps, ForkWrites, Exists
  <2>3. CASE ~ Busy(w)
    BY <2>1, <2>3 DEF RequestMoves, KeepsSurveys, Busy, Idle, Steps, ForkWrites, Exists
  <2> QED
    BY <2>2, <2>3
<1> QED
  BY <1>1, <1>2, PTL DEF Spec

--------------------------------------------------------------------------------
(* Versions.  A fork that has read the last version n of its group is to     *)
(* insert n + 1, and versions are never removed: so n stays a version of the *)
(* group, and n + 1 leaves no gap.  The unique index does the rest.          *)

GroupOf(w) == surveys[request[w].id].group
Claiming(w) == request[w].pc \in {"fork_sections", "fork_fields"}

\* n is a version of the group w is forking.
Taken(w, n) ==
  \E s \in SurveyIds : Exists(s) /\ surveys[s].group = GroupOf(w) /\ surveys[s].version = n

VersionInv ==
  /\ VersionsUnique
  /\ VersionsContiguous
  /\ \A s \in SurveyIds : Exists(s) => Exists(surveys[s].group)
  /\ \A w \in Workers : request[w].pc \in ForkWrites => Taken(w, request[w].version - 1)
  /\ \A w \in Workers : Claiming(w) => ~ Taken(w, request[w].version)
  /\ \A v, w \in Workers :
        Claiming(v) /\ Claiming(w) /\ GroupOf(v) = GroupOf(w)
          /\ request[v].version = request[w].version => v = w

LEMMA TakenVersions ==
  ASSUME NEW w \in Workers, NEW n
  PROVE  Taken(w, n) <=> n \in Versions(GroupOf(w))
BY DEF Taken, Versions, Group

\* The group a busy worker forks stays the same, as long as its request does.
LEMMA GroupStays ==
  ASSUME TypeOK, KeepsSurveys, NEW w \in Workers, Busy(w), request'[w].id = request[w].id
  PROVE  GroupOf(w)' = GroupOf(w)
BY SurveyOf, NoSurveyAssumption DEF KeepsSurveys, GroupOf, Exists

\* Contiguity, and the group of each survey, survive any step that adds nothing.
LEMMA SameSurveys ==
  ASSUME TypeOK, KeepsSurveys, \A s \in SurveyIds : Exists(s)' => Exists(s), VersionInv
  PROVE  /\ VersionsUnique' /\ VersionsContiguous'
         /\ (\A s \in SurveyIds : Exists(s) => Exists(surveys[s].group))'
<1>1. VersionsUnique'
  BY DEF VersionsUnique, KeepsSurveys, VersionInv
<1>2. VersionsContiguous'
  BY DEF VersionsContiguous, KeepsSurveys, VersionInv, Versions, Group
<1>3. (\A s \in SurveyIds : Exists(s) => Exists(surveys[s].group))'
  BY DEF KeepsSurveys, TypeOK, Survey, VersionInv, Exists
<1> QED
  BY <1>1, <1>2, <1>3

\* A step that adds no survey and leaves no worker with a fork it had not.
LEMMA NoNewFork ==
  ASSUME TypeOK, VersionInv, KeepsSurveys, \A s \in SurveyIds : Exists(s)' => Exists(s),
         \A w \in Workers : \/ request'[w].pc \notin ForkWrites
                            \/ request'[w] = request[w]
  PROVE  VersionInv'
<1>1. \A w \in Workers : request'[w].pc \in ForkWrites => GroupOf(w)' = GroupOf(w)
  BY GroupStays DEF Busy, ForkWrites
<1>2. ASSUME NEW w \in Workers, request'[w].pc \in ForkWrites
      PROVE  Taken(w, request[w].version - 1)'
  BY <1>1, <1>2 DEF VersionInv, Taken, KeepsSurveys
<1>3. ASSUME NEW w \in Workers, Claiming(w)'
      PROVE  ~ Taken(w, request[w].version)'
  BY <1>1, <1>3 DEF VersionInv, Taken, KeepsSurveys, Claiming, ForkWrites
<1>4. ASSUME NEW v \in Workers, NEW w \in Workers, Claiming(v)', Claiming(w)',
             GroupOf(v)' = GroupOf(w)', request'[v].version = request'[w].version
      PROVE  v = w
  BY <1>1, <1>4 DEF VersionInv, Claiming, ForkWrites
<1> QED
  BY <1>2, <1>3, <1>4, SameSurveys DEF VersionInv

LEMMA OthersUnchanged ==
  ASSUME TypeOK, NEW w \in Workers, NewRequest(w) \/ Proceed(w) \/ Crash(w),
         NEW v \in Workers, v # w
  PROVE  request'[v] = request[v]
<1>1. CASE NewRequest(w) \/ Crash(w)
  BY <1>1 DEF NewRequest, Crash, CreateSurvey, Refuse, vars, UpdateLoad, PublishLoad,
              ArchiveLoad, ForkLoad, Begin, Finish, TypeOK
<1>2. CASE Proceed(w)
  BY <1>2 DEF Proceed, UpdateSave, UpdateSections, UpdateCommit, PublishSave, ArchiveSave,
              ForkVersion, ForkInsert, ForkSections, ForkCommit, Advance, Finish, TypeOK
<1> QED
  BY <1>1, <1>2

\* The steps that read or claim a version.
ForkStep(w) == ForkVersion(w) \/ ForkInsert(w) \/ ForkSections(w) \/ ForkCommit(w)

\* Any other step leaves its worker without one.
LEMMA OtherSteps ==
  ASSUME TypeOK, NEW w \in Workers, NewRequest(w) \/ Proceed(w) \/ Crash(w), ~ ForkStep(w)
  PROVE  request'[w].pc \notin ForkWrites \/ request'[w] = request[w]
<1> request[w] \in Registers
  BY DEF TypeOK
<1>1. CASE NewRequest(w)
  <2>1. ASSUME NEW s, NEW step, Begin(w, s, step) PROVE request'[w].pc = step
    BY <2>1 DEF Begin, Idle, TypeOK
  <2> QED
    BY <1>1, <2>1 DEF NewRequest, CreateSurvey, Refuse, vars, UpdateLoad, PublishLoad,
                      ArchiveLoad, ForkLoad, ForkWrites
<1>2. CASE Crash(w) \/ UpdateCommit(w) \/ PublishSave(w) \/ ArchiveSave(w)
  <2>1. Finish(w)
    BY <1>2 DEF Crash, UpdateCommit, PublishSave, ArchiveSave
  <2> QED
    BY <2>1 DEF Finish, Idle, ForkWrites, TypeOK
<1>3. CASE UpdateSave(w)
  BY <1>3 DEF UpdateSave, Advance, ForkWrites, TypeOK, Registers
<1>4. CASE UpdateSections(w)
  BY <1>4 DEF UpdateSections, ForkWrites, TypeOK, Registers
<1> QED
  BY <1>1, <1>2, <1>3, <1>4 DEF Proceed, ForkStep

LEMMA ForkVersionStep ==
  ASSUME TypeOK, VersionInv, NEW w \in Workers, ForkVersion(w)
  PROVE  VersionInv'
<1> PICK n \in Versions(GroupOf(w)) :
      request' = [request EXCEPT ![w] = [@ EXCEPT !.pc = "fork_insert", !.version = n + 1]]
  BY DEF ForkVersion, GroupOf
<1>1. n \in Nat
  BY DEF Versions, Group, TypeOK, Survey, Exists
<1>2. /\ request'[w].pc = "fork_insert" /\ request'[w].version = n + 1
      /\ request'[w].id = request[w].id
  BY DEF TypeOK, Registers
<1>3. \A v \in Workers : v # w => request'[v] = request[v]
  BY OthersUnchanged DEF Proceed
<1>4. UNCHANGED surveys
  BY DEF ForkVersion
<1>5. Taken(w, request[w].version - 1)'
  <2>1. Taken(w, n)
    BY TakenVersions
  <2>2. request'[w].version - 1 = n
    BY <1>1, <1>2
  <2> QED
    BY <1>2, <1>4, <2>1, <2>2 DEF Taken, GroupOf, Exists
<1>6. ~ Claiming(w)'
  BY <1>2 DEF Claiming
<1>7. ASSUME NEW v \in Workers, request'[v].pc \in ForkWrites
      PROVE  Taken(v, request[v].version - 1)'
  BY <1>3, <1>4, <1>5, <1>7 DEF VersionInv, Taken, GroupOf, Exists
<1>8. ASSUME NEW v \in Workers, Claiming(v)'
      PROVE  ~ Taken(v, request[v].version)'
  BY <1>3, <1>4, <1>6, <1>8 DEF VersionInv, Taken, GroupOf, Exists, Claiming
<1>9. ASSUME NEW u \in Workers, NEW v \in Workers, Claiming(u)', Claiming(v)',
             GroupOf(u)' = GroupOf(v)', request'[u].version = request'[v].version
      PROVE  u = v
  BY <1>3, <1>4, <1>6, <1>9 DEF VersionInv, GroupOf, Claiming
<1> QED
  BY <1>4, <1>7, <1>8, <1>9
  DEF VersionInv, VersionsUnique, VersionsContiguous, Versions, Group, Exists

\* The INSERT: its version is not taken, and nobody else has claimed it.
LEMMA ForkInsertStep ==
  ASSUME TypeOK, VersionInv, NEW w \in Workers, ForkInsert(w)
  PROVE  VersionInv'
<1>4. UNCHANGED surveys
  BY DEF ForkInsert
<1>3. \A v \in Workers : v # w => request'[v] = request[v]
  BY OthersUnchanged DEF Proceed
<1>1. CASE Finish(w)
  <2>1. request'[w].pc \notin ForkWrites
    BY <1>1 DEF Finish, Idle, ForkWrites, TypeOK
  <2>2. KeepsSurveys /\ \A s \in SurveyIds : Exists(s)' => Exists(s)
    BY <1>4 DEF KeepsSurveys, Exists
  <2> QED
    BY <1>3, <2>1, <2>2, NoNewFork
<1>2. CASE ~ Finish(w)
  <2>1. request' = [request EXCEPT ![w].pc = "fork_sections"]
    BY <1>2 DEF ForkInsert, Advance
  <2>2. /\ request'[w].pc = "fork_sections" /\ request'[w].version = request[w].version
        /\ request'[w].id = request[w].id
    BY <2>1 DEF TypeOK, Registers
  <2>3. ~ Taken(w, request[w].version)
    BY <1>2, TakenVersions DEF ForkInsert, GroupOf
  <2>4. \A v \in Workers : ~ Claims(v, w)
    BY DEF ForkInsert
  <2>5. request[w].pc \in ForkWrites
    BY DEF ForkInsert, ForkWrites
  <2>6. ASSUME NEW v \in Workers, request'[v].pc \in ForkWrites
        PROVE  Taken(v, request[v].version - 1)'
    BY <1>3, <1>4, <2>2, <2>5, <2>6 DEF VersionInv, Taken, GroupOf, Exists
  <2>7. ASSUME NEW v \in Workers, Claiming(v)'
        PROVE  ~ Taken(v, request[v].version)'
    BY <1>3, <1>4, <2>2, <2>3, <2>7 DEF VersionInv, Taken, GroupOf, Exists, Claiming
  <2>8. ASSUME NEW u \in Workers, NEW v \in Workers, Claiming(u)', Claiming(v)',
               GroupOf(u)' = GroupOf(v)', request'[u].version = request'[v].version
        PROVE  u = v
    BY <1>3, <1>4, <2>2, <2>4, <2>8 DEF VersionInv, GroupOf, Claiming, Claims
  <2> QED
    BY <1>4, <2>6, <2>7, <2>8
    DEF VersionInv, VersionsUnique, VersionsContiguous, Versions, Group, Exists
<1> QED
  BY <1>1, <1>2

LEMMA ForkSectionsStep ==
  ASSUME TypeOK, VersionInv, NEW w \in Workers, ForkSections(w)
  PROVE  VersionInv'
<1>1. UNCHANGED surveys
  BY DEF ForkSections
<1>2. /\ Claiming(w) /\ Claiming(w)' /\ request'[w].version = request[w].version
      /\ request'[w].id = request[w].id
  BY DEF ForkSections, Claiming, TypeOK, Registers
<1>3. \A v \in Workers : v # w => request'[v] = request[v]
  BY OthersUnchanged DEF Proceed
<1>4. ASSUME NEW v \in Workers, request'[v].pc \in ForkWrites
      PROVE  Taken(v, request[v].version - 1)'
  BY <1>1, <1>2, <1>3, <1>4 DEF VersionInv, Taken, GroupOf, Exists, Claiming, ForkWrites
<1>5. ASSUME NEW v \in Workers, Claiming(v)'
      PROVE  ~ Taken(v, request[v].version)'
  BY <1>1, <1>2, <1>3, <1>5 DEF VersionInv, Taken, GroupOf, Exists, Claiming
<1>6. ASSUME NEW u \in Workers, NEW v \in Workers, Claiming(u)', Claiming(v)',
             GroupOf(u)' = GroupOf(v)', request'[u].version = request'[v].version
      PROVE  u = v
  BY <1>1, <1>2, <1>3, <1>6 DEF VersionInv, GroupOf, Claiming
<1> QED
  BY <1>1, <1>4, <1>5, <1>6
  DEF VersionInv, VersionsUnique, VersionsContiguous, Versions, Group, Exists

\* Only a creation and a fork add a survey.
LEMMA NoSurveyAdded ==
  ASSUME TypeOK, NEW w \in Workers, NewRequest(w) \/ Proceed(w) \/ Crash(w),
         ~ ForkStep(w), ~ CreateSurvey(w), NEW s \in SurveyIds, Exists(s)'
  PROVE  Exists(s)
<1>1. CASE UpdateCommit(w) \/ PublishSave(w) \/ ArchiveSave(w)
  <2>1. request[w].id \in SurveyIds /\ Exists(request[w].id)
    BY <1>1, SurveyOf, NoSurveyAssumption DEF UpdateCommit, PublishSave, ArchiveSave, Busy, Exists
  <2>2. \E row : surveys' = [surveys EXCEPT ![request[w].id] = row]
    BY <1>1 DEF UpdateCommit, PublishSave, ArchiveSave
  <2> QED
    BY <2>1, <2>2 DEF TypeOK, Exists
<1>2. CASE ~ (UpdateCommit(w) \/ PublishSave(w) \/ ArchiveSave(w))
  BY <1>2 DEF ForkStep, NewRequest, Proceed, Crash, Refuse, vars, UpdateLoad, UpdateSave,
              UpdateSections, PublishLoad, ArchiveLoad, ForkLoad, Exists
<1> QED
  BY <1>1, <1>2

\* The row a fork commits.
LEMMA ForkedRow ==
  ASSUME TypeOK, NEW w \in Workers, ForkCommit(w)
  PROVE  \E c \in SurveyIds, row \in Survey :
            /\ ~ Exists(c)
            /\ surveys' = [surveys EXCEPT ![c] = row]
            /\ row.group = GroupOf(w) /\ row.version = request[w].version
            /\ row.status = "draft" /\ row.dated = FALSE
<1> USE NoSurveyAssumption
<1> DEFINE q == request[w]
           source == surveys[q.id]
           CopiedKeys(tree) == IF tree \in source.trees THEN tree.keys ELSE <<>>
<1>1. source \in Survey
  BY SurveyOf DEF ForkCommit, Busy
<1>2. q.seen \in SUBSET Tree /\ q.version \in Nat \ {0}
  BY DEF ForkCommit, TypeOK, Registers
<1> PICK c \in SurveyIds, copy \in Injection(q.seen, {t \in TreeIds : FreshTree(t)}) :
      /\ ~ Exists(c)
      /\ surveys' = [surveys EXCEPT ![c] =
            [group |-> source.group, version |-> q.version, status |-> "draft",
             dated |-> FALSE,
             trees |-> {[id |-> copy[tree], keys |-> CopiedKeys(tree)] : tree \in q.seen}]]
  BY DEF ForkCommit
<1>3. copy \in [q.seen -> TreeIds]
  BY DEF Injection
<1>4. \A tree \in q.seen : [id |-> copy[tree], keys |-> CopiedKeys(tree)] \in Tree
  BY <1>2, <1>3, SurveyAssumption DEF Tree
<1> DEFINE row == [group |-> source.group, version |-> q.version, status |-> "draft",
                   dated |-> FALSE,
                   trees |-> {[id |-> copy[tree], keys |-> CopiedKeys(tree)] : tree \in q.seen}]
<1>5. row \in Survey
  BY <1>1, <1>2, <1>4 DEF Survey
<1>6. row.group = GroupOf(w) /\ row.version = q.version /\ row.status = "draft" /\ row.dated = FALSE
  BY DEF GroupOf
<1>7. surveys' = [surveys EXCEPT ![c] = row]
  OBVIOUS
<1> HIDE DEF row
<1> QED
  BY <1>5, <1>6, <1>7

\* A step that adds a survey with a version its group has not, after one it has.
LEMMA AddSurvey ==
  ASSUME TypeOK, VersionInv, KeepsSurveys,
         NEW s \in SurveyIds, ~ Exists(s), Exists(s)',
         \A t \in SurveyIds : t # s => surveys'[t] = surveys[t],
         NEW g \in SurveyIds, NEW n \in Nat \ {0},
         surveys'[s].group = g, surveys'[s].version = n,
         \A t \in SurveyIds : ~ (Exists(t) /\ surveys[t].group = g /\ surveys[t].version = n),
         n = 1 \/ \E t \in SurveyIds :
                     Exists(t) /\ surveys[t].group = g /\ surveys[t].version = n - 1,
         Exists(g)',
         \A v \in Workers : request'[v].pc \in ForkWrites =>
            /\ request'[v] = request[v]
            /\ GroupOf(v) = g /\ Claiming(v) => request[v].version # n
  PROVE  VersionInv'
<1>1. \A v \in Workers : request'[v].pc \in ForkWrites => GroupOf(v)' = GroupOf(v)
  BY GroupStays DEF Busy, ForkWrites
<1>2. \A t \in SurveyIds : Exists(t)' => t = s \/ (Exists(t) /\ surveys'[t] = surveys[t])
  BY DEF Exists
<1>3. VersionsUnique'
  BY <1>2 DEF VersionInv, VersionsUnique
<1>4. VersionsContiguous'
  <2> SUFFICES ASSUME NEW t \in SurveyIds, Exists(t)', surveys'[t].version > 1
               PROVE  \E x \in SurveyIds : /\ Exists(x)'
                                           /\ surveys'[x].group = surveys'[t].group
                                           /\ surveys'[x].version = surveys'[t].version - 1
    BY DEF VersionsContiguous, Versions, Group
  <2>1. CASE t = s
    BY <2>1 DEF KeepsSurveys
  <2>2. CASE t # s
    <3>1. Exists(t) /\ surveys'[t] = surveys[t]
      BY <1>2, <2>2
    <3>2. PICK x \in SurveyIds : /\ Exists(x) /\ surveys[x].group = surveys[t].group
                                 /\ surveys[x].version = surveys[t].version - 1
      BY <3>1 DEF VersionInv, VersionsContiguous, Versions, Group
    <3> QED
      BY <3>1, <3>2 DEF KeepsSurveys
  <2> QED
    BY <2>1, <2>2
<1>5. (\A t \in SurveyIds : Exists(t) => Exists(surveys[t].group))'
  <2> SUFFICES ASSUME NEW t \in SurveyIds, Exists(t)' PROVE Exists(surveys[t].group)'
    OBVIOUS
  <2>1. CASE t = s
    BY <2>1 DEF Exists
  <2>2. CASE t # s
    BY <1>2, <2>2 DEF VersionInv, KeepsSurveys, TypeOK, Survey, Exists
  <2> QED
    BY <2>1, <2>2
<1>6. ASSUME NEW v \in Workers, request'[v].pc \in ForkWrites
      PROVE  Taken(v, request[v].version - 1)'
  BY <1>1, <1>6 DEF VersionInv, Taken, KeepsSurveys
<1>7. ASSUME NEW v \in Workers, Claiming(v)'
      PROVE  ~ Taken(v, request[v].version)'
  <2>1. request'[v] = request[v] /\ Claiming(v) /\ GroupOf(v)' = GroupOf(v)
    BY <1>1, <1>7 DEF Claiming, ForkWrites
  <2>2. ~ Taken(v, request[v].version)
    BY <2>1 DEF VersionInv
  <2>3. GroupOf(v) = g => request[v].version # n
    BY <1>7, <2>1 DEF Claiming, ForkWrites
  <2> QED
    BY <1>2, <2>1, <2>2, <2>3 DEF Taken
<1>8. ASSUME NEW u \in Workers, NEW v \in Workers, Claiming(u)', Claiming(v)',
             GroupOf(u)' = GroupOf(v)', request'[u].version = request'[v].version
      PROVE  u = v
  BY <1>1, <1>8 DEF VersionInv, Claiming, ForkWrites
<1> QED
  BY <1>3, <1>4, <1>5, <1>6, <1>7, <1>8 DEF VersionInv

LEMMA CreateSurveyStep ==
  ASSUME TypeOK, VersionInv, NEW w \in Workers, CreateSurvey(w)
  PROVE  VersionInv'
<1> PICK s \in SurveyIds, t \in TreeIds, body \in Bodies :
      /\ ~ Exists(s)
      /\ surveys' = [surveys EXCEPT ![s] =
            [group |-> s, version |-> 1, status |-> "draft", dated |-> FALSE,
             trees |-> {[id |-> t, keys |-> body]}]]
  BY DEF CreateSurvey
<1>1. KeepsSurveys /\ surveys' \in [SurveyIds -> Survey \cup {NoSurvey}]
  BY SurveysType DEF Writes
<1>2. surveys'[s].group = s /\ surveys'[s].version = 1
  BY DEF TypeOK
<1>3. Exists(s)'
  <2>1. surveys'[s] \in Survey
    BY DEF TypeOK, Survey, Tree
  <2> QED
    BY <2>1, NoSurveyAssumption DEF Exists
<1>4. \A x \in SurveyIds : x # s => surveys'[x] = surveys[x]
  BY DEF TypeOK
<1>5. \A x \in SurveyIds : Exists(x) => surveys[x].group # s
  BY DEF VersionInv
<1>6. UNCHANGED request
  BY DEF CreateSurvey
<1>7. ASSUME NEW v \in Workers, request'[v].pc \in ForkWrites
      PROVE  GroupOf(v) # s
  <2>1. Taken(v, request[v].version - 1)
    BY <1>6, <1>7 DEF VersionInv
  <2> QED
    BY <1>5, <2>1 DEF Taken
<1> QED
  BY <1>1, <1>2, <1>3, <1>4, <1>5, <1>6, <1>7, AddSurvey

LEMMA ForkCommitStep ==
  ASSUME TypeOK, VersionInv, NEW w \in Workers, ForkCommit(w)
  PROVE  VersionInv'
<1>0. Claiming(w) /\ GroupOf(w) \in SurveyIds /\ request[w].version \in Nat \ {0}
  BY SurveyOf DEF ForkCommit, Claiming, Busy, TypeOK, Registers, Survey, GroupOf
<1> PICK g \in SurveyIds, n \in Nat \ {0} : g = GroupOf(w) /\ n = request[w].version
  BY <1>0
<1>1. KeepsSurveys /\ surveys' \in [SurveyIds -> Survey \cup {NoSurvey}]
  BY SurveysType DEF Writes
<1>2. PICK c \in SurveyIds, row \in Survey :
        /\ ~ Exists(c)
        /\ surveys' = [surveys EXCEPT ![c] = row]
        /\ row.group = g /\ row.version = n
  BY ForkedRow
<1>3. Exists(c)' /\ surveys'[c].group = g /\ surveys'[c].version = n
  BY <1>2, NoSurveyAssumption DEF TypeOK, Exists
<1>4. \A t \in SurveyIds : t # c => surveys'[t] = surveys[t]
  BY <1>2 DEF TypeOK
<1>6. \A t \in SurveyIds : ~ (Exists(t) /\ surveys[t].group = g /\ surveys[t].version = n)
  BY <1>0 DEF VersionInv, Taken
<1>7. \E t \in SurveyIds : Exists(t) /\ surveys[t].group = g /\ surveys[t].version = n - 1
  BY <1>0 DEF VersionInv, Taken, Claiming, ForkWrites
<1>8. Exists(g)'
  BY <1>1, <1>7 DEF VersionInv, KeepsSurveys
<1>9. request'[w].pc \notin ForkWrites
  BY DEF ForkCommit, Finish, Idle, ForkWrites, TypeOK
<1>10. \A v \in Workers : v # w => request'[v] = request[v]
  BY OthersUnchanged DEF Proceed
<1>11. \A v \in Workers : request'[v].pc \in ForkWrites =>
          /\ request'[v] = request[v]
          /\ GroupOf(v) = g /\ Claiming(v) => request[v].version # n
  BY <1>0, <1>9, <1>10 DEF VersionInv
<1> QED
  BY <1>1, <1>2, <1>3, <1>4, <1>6, <1>7, <1>8, <1>11, AddSurvey

LEMMA NumberingInvariant == Spec => []VersionInv
<1>1. Init => VersionInv
  BY DEF Init, VersionInv, VersionsUnique, VersionsContiguous, Exists, Idle, Claiming, ForkWrites
<1>2. TypeOK /\ VersionInv /\ [Next]_vars => VersionInv'
  <2> SUFFICES ASSUME TypeOK, VersionInv, [Next]_vars PROVE VersionInv'
    OBVIOUS
  <2>1. CASE UNCHANGED vars
    BY <2>1, NoNewFork DEF vars, KeepsSurveys, Exists
  <2> SUFFICES ASSUME NEW w \in Workers, NewRequest(w) \/ Proceed(w) \/ Crash(w)
               PROVE  VersionInv'
    BY <2>1 DEF Next
  <2>2. CASE ForkStep(w)
    BY <2>2, ForkVersionStep, ForkInsertStep, ForkSectionsStep, ForkCommitStep DEF ForkStep
  <2>3. CASE CreateSurvey(w)
    BY <2>3, CreateSurveyStep
  <2>4. CASE ~ ForkStep(w) /\ ~ CreateSurvey(w)
    <3>1. \A v \in Workers : request'[v].pc \notin ForkWrites \/ request'[v] = request[v]
      BY <2>4, OtherSteps, OthersUnchanged
    <3>2. \A s \in SurveyIds : Exists(s)' => Exists(s)
      BY <2>4, NoSurveyAdded
    <3> QED
      BY <3>1, <3>2, StepKeepsSurveys, NoNewFork
  <2> QED
    BY <2>2, <2>3, <2>4
<1> QED
  BY <1>1, <1>2, TypeInvariant, PTL DEF Spec

\* The versions of a group of surveys are unique, for any number of forks at once.
THEOREM VersionInvariant == Spec => []VersionsUnique
<1>1. VersionInv => VersionsUnique
  BY DEF VersionInv
<1> QED
  BY <1>1, NumberingInvariant, PTL

\* They are 1 to n without a gap: a fork that fails, or is killed after it has
\* taken its number, leaves that number to the next one.
THEOREM ContiguousTheorem == Spec => []VersionsContiguous
<1>1. VersionInv => VersionsContiguous
  BY DEF VersionInv
<1> QED
  BY <1>1, NumberingInvariant, PTL

--------------------------------------------------------------------------------
(* Publication.                                                              *)

\* A published survey has a date: the one step that publishes dates it, and the
\* steps that overwrite the date overwrite the status as well.
THEOREM DatedTheorem == Spec => []PublishedIsDated
<1>1. Init => PublishedIsDated
  BY DEF Init, PublishedIsDated, Exists
<1>2. TypeOK /\ PublishedIsDated /\ [Next]_vars => PublishedIsDated'
  <2> SUFFICES ASSUME TypeOK, PublishedIsDated, [Next]_vars, NEW s \in SurveyIds,
                      Exists(s)', surveys'[s].status = "published"
               PROVE  surveys'[s].dated
    BY DEF PublishedIsDated
  <2>1. CASE surveys'[s] = surveys[s]
    BY <2>1 DEF PublishedIsDated, Exists
  <2>2. ASSUME NEW w \in Workers, CreateSurvey(w), surveys'[s] # surveys[s]
        PROVE  surveys'[s].status = "draft"
    BY <2>2 DEF CreateSurvey, TypeOK
  <2>3. ASSUME NEW w \in Workers, ForkCommit(w), surveys'[s] # surveys[s]
        PROVE  surveys'[s].status = "draft"
    BY <2>3 DEF ForkCommit, TypeOK
  <2>4. ASSUME NEW w \in Workers, UpdateCommit(w) \/ PublishSave(w) \/ ArchiveSave(w),
               surveys'[s] # surveys[s]
        PROVE  surveys'[s].dated
    <3>1. s = request[w].id /\ surveys[s] \in Survey
      BY <2>4, SurveyOf DEF UpdateCommit, PublishSave, ArchiveSave, Busy, TypeOK
    <3>2. ASSUME UpdateCommit(w) PROVE surveys'[s].status = "draft"
      <4>1. PICK trees : surveys' = [surveys EXCEPT ![s] =
                  [@ EXCEPT !.status = "draft", !.dated = FALSE, !.trees = trees]]
        BY <3>1, <3>2 DEF UpdateCommit
      <4> QED
        BY <3>1, <4>1 DEF TypeOK, Survey
    <3>3. ASSUME PublishSave(w) PROVE surveys'[s].dated
      BY <3>1, <3>3 DEF PublishSave, TypeOK, Survey
    <3>4. ASSUME ArchiveSave(w) PROVE surveys'[s].status = "archived"
      BY <3>1, <3>4 DEF ArchiveSave, TypeOK, Survey
    <3> QED
      BY <2>4, <3>2, <3>3, <3>4
  <2> QED
    BY <2>1, <2>2, <2>3, <2>4, QuietStep DEF Writes
<1> QED
  BY <1>1, <1>2, TypeInvariant, PTL DEF Spec

\* The steps of a request that loaded a draft and is still to write it.
DraftSteps == {"update_save", "update_sections", "update_write", "publish_save"}

\* A request comes to one of them only from another of them, or by loading a draft.
LEMMA DraftHolders ==
  ASSUME TypeOK, NEW w \in Workers, NewRequest(w) \/ Proceed(w) \/ Crash(w),
         NEW s \in SurveyIds, request'[w].id = s, request'[w].pc \in DraftSteps
  PROVE  \/ request[w].id = s /\ request[w].pc \in DraftSteps
         \/ Exists(s) /\ surveys[s].status = "draft"
<1> request[w] \in Registers
  BY DEF TypeOK
<1>f. ~ Finish(w)
  BY DEF Finish, Idle, DraftSteps, TypeOK
<1>b. ASSUME NEW t, NEW step, Begin(w, t, step)
      PROVE  request'[w].id = t /\ request'[w].pc = step
  BY <1>b DEF Begin, Idle, TypeOK
<1>1. CASE NewRequest(w)
  BY <1>1, <1>b DEF NewRequest, CreateSurvey, Refuse, vars, UpdateLoad, PublishLoad,
                    ArchiveLoad, ForkLoad, DraftSteps
<1>2. CASE Crash(w) \/ UpdateCommit(w) \/ PublishSave(w) \/ ArchiveSave(w) \/ ForkCommit(w)
  BY <1>2, <1>f DEF Crash, UpdateCommit, PublishSave, ArchiveSave, ForkCommit
<1>3. CASE UpdateSave(w)
  BY <1>3 DEF UpdateSave, Advance, DraftSteps, TypeOK, Registers
<1>4. CASE UpdateSections(w)
  BY <1>4 DEF UpdateSections, DraftSteps, TypeOK, Registers
<1>5. ASSUME ForkStep(w) PROVE request'[w].pc \notin DraftSteps
  <2>1. CASE ForkVersion(w)
    <3> PICK n : request' = [request EXCEPT ![w] = [@ EXCEPT !.pc = "fork_insert", !.version = n + 1]]
      BY <2>1 DEF ForkVersion
    <3> QED
      BY DEF DraftSteps, TypeOK, Registers
  <2>2. CASE ForkInsert(w)
    BY <2>2, <1>f DEF ForkInsert, Advance, DraftSteps, TypeOK, Registers
  <2>3. CASE ForkSections(w)
    BY <2>3 DEF ForkSections, DraftSteps, TypeOK, Registers
  <2>4. CASE ForkCommit(w)
    BY <2>4, <1>f DEF ForkCommit
  <2> QED
    BY <1>5, <2>1, <2>2, <2>3, <2>4 DEF ForkStep
<1> QED
  BY <1>1, <1>2, <1>3, <1>4, <1>5 DEF Proceed, ForkStep

\* One step of a survey that has left the draft status and that no request
\* still holds as a draft.
LEMMA FrozenStep ==
  ASSUME TypeOK, [Next]_vars, NEW s \in SurveyIds, Frozen(s)
  PROVE  /\ Frozen(s)'
         /\ surveys'[s] \in {surveys[s], [surveys[s] EXCEPT !.status = "archived"]}
<1>1. surveys'[s] \in {surveys[s], [surveys[s] EXCEPT !.status = "archived"]}
  <2>1. ASSUME NEW w \in Workers, CreateSurvey(w) \/ ForkCommit(w)
        PROVE  surveys'[s] = surveys[s]
    BY <2>1 DEF CreateSurvey, ForkCommit, Frozen, TypeOK
  <2>2. ASSUME NEW w \in Workers, UpdateCommit(w) \/ PublishSave(w)
        PROVE  surveys'[s] = surveys[s]
    <3>1. request[w].id # s
      BY <2>2 DEF UpdateCommit, PublishSave, Frozen
    <3> QED
      BY <2>2, <3>1 DEF UpdateCommit, PublishSave, TypeOK
  <2>3. ASSUME NEW w \in Workers, ArchiveSave(w)
        PROVE  surveys'[s] \in {surveys[s], [surveys[s] EXCEPT !.status = "archived"]}
    BY <2>3 DEF ArchiveSave, TypeOK
  <2> QED
    BY <2>1, <2>2, <2>3, QuietStep DEF Writes
<1>2. Exists(s)' /\ surveys'[s].status # "draft"
  <2>1. surveys[s] \in Survey
    BY DEF Frozen, TypeOK, Exists
  <2>2. /\ [surveys[s] EXCEPT !.status = "archived"] \in Survey
        /\ [surveys[s] EXCEPT !.status = "archived"].status = "archived"
    BY <2>1 DEF Survey
  <2> QED
    BY <1>1, <2>1, <2>2, NoSurveyAssumption DEF Frozen, Exists
<1>3. ASSUME NEW w \in Workers, request'[w].id = s
      PROVE  request'[w].pc \notin DraftSteps
  <2>1. CASE request'[w] = request[w]
    BY <1>3, <2>1 DEF Frozen, DraftSteps
  <2>2. CASE NewRequest(w) \/ Proceed(w) \/ Crash(w)
    BY <1>3, <2>2, DraftHolders DEF Frozen, DraftSteps
  <2> QED
    BY <2>1, <2>2, OthersUnchanged DEF Next, vars
<1> QED
  BY <1>1, <1>2, <1>3 DEF Frozen, DraftSteps

\* Such a survey keeps its tree, its version and its date for ever.
THEOREM FrozenTheorem == Spec => FrozenForGood
<1>1. TypeOK /\ [Next]_vars =>
        [\A s \in SurveyIds :
           Frozen(s) =>
             /\ Frozen(s)'
             /\ surveys'[s] \in {surveys[s], [surveys[s] EXCEPT !.status = "archived"]}]_vars
  BY FrozenStep
<1> QED
  BY <1>1, TypeInvariant, PTL DEF Spec, FrozenForGood

--------------------------------------------------------------------------------
(* The trees of a survey, and the keys in them.                              *)

\* The registers of w after a step that leads to one of its later steps.
LEMMA NextStep ==
  ASSUME TypeOK, NEW w \in Workers, NewRequest(w) \/ Proceed(w) \/ Crash(w),
         request'[w] # request[w]
  PROVE  \/ request'[w] = Idle
         \/ /\ ~ Busy(w)
            /\ request'[w].pc \in {"update_save", "publish_save", "archive_save", "fork_version"}
         \/ UpdateSave(w) /\ request'[w].pc = "update_sections" /\ request'[w].id = request[w].id
         \/ /\ UpdateSections(w) /\ request'[w].pc = "update_write"
            /\ request'[w].id = request[w].id
            /\ request'[w].seen = surveys[request[w].id].trees
         \/ ForkVersion(w) /\ request'[w].pc = "fork_insert"
         \/ ForkInsert(w) /\ request'[w].pc = "fork_sections"
         \/ /\ ForkSections(w) /\ request'[w].pc = "fork_fields"
            /\ request'[w].id = request[w].id
            /\ request'[w].seen = surveys[request[w].id].trees
<1> request[w] \in Registers
  BY DEF TypeOK
<1>f. Finish(w) => request'[w] = Idle
  BY DEF Finish, TypeOK
<1>b. ASSUME NEW s, NEW step, Begin(w, s, step) PROVE request'[w].pc = step
  BY <1>b DEF Begin, Idle, TypeOK
<1>1. CASE NewRequest(w)
  <2>1. \E s \in SurveyIds : UpdateLoad(w, s) \/ PublishLoad(w, s) \/ ArchiveLoad(w, s) \/ ForkLoad(w, s)
    BY <1>1 DEF NewRequest, CreateSurvey, Refuse, vars
  <2> QED
    BY <1>b, <2>1 DEF UpdateLoad, PublishLoad, ArchiveLoad, ForkLoad
<1>2. CASE Crash(w) \/ UpdateCommit(w) \/ PublishSave(w) \/ ArchiveSave(w) \/ ForkCommit(w)
  BY <1>2, <1>f DEF Crash, UpdateCommit, PublishSave, ArchiveSave, ForkCommit
<1>3. CASE UpdateSave(w)
  BY <1>3 DEF UpdateSave, Advance, TypeOK, Registers
<1>4. CASE UpdateSections(w)
  BY <1>4 DEF UpdateSections, TypeOK, Registers
<1>5. CASE ForkVersion(w)
  <2> PICK n : request' = [request EXCEPT ![w] = [@ EXCEPT !.pc = "fork_insert", !.version = n + 1]]
    BY <1>5 DEF ForkVersion
  <2> QED
    BY <1>5 DEF TypeOK, Registers
<1>6. CASE ForkInsert(w)
  BY <1>6, <1>f DEF ForkInsert, Advance, TypeOK, Registers
<1>7. CASE ForkSections(w)
  BY <1>7 DEF ForkSections, TypeOK, Registers
<1> QED
  BY <1>1, <1>2, <1>3, <1>4, <1>5, <1>6, <1>7 DEF Proceed

\* An update replaces the sections it has read by those of its body, or keeps them.
LEMMA UpdatedRow ==
  ASSUME TypeOK, NEW w \in Workers, UpdateCommit(w)
  PROVE  LET s == request[w].id
         IN  /\ s \in SurveyIds /\ Exists(s)
             /\ surveys'[s].status = "draft"
             /\ \A t \in SurveyIds \ {s} : surveys'[t] = surveys[t]
             /\ \/ At(w, "update_sections") /\ surveys'[s].trees = surveys[s].trees
                \/ /\ At(w, "update_write")
                   /\ \E t \in TreeIds, body \in Bodies :
                        /\ ValidBody(body)
                        /\ surveys'[s].trees = (surveys[s].trees \ request[w].seen)
                                                 \cup {[id |-> t, keys |-> body]}
<1> DEFINE s == request[w].id
<1>1. s \in SurveyIds /\ surveys[s] \in Survey /\ Exists(s)
  BY SurveyOf, NoSurveyAssumption DEF UpdateCommit, Busy, Exists
<1>2. ASSUME NEW trees, surveys' = [surveys EXCEPT ![s] =
                    [@ EXCEPT !.status = "draft", !.dated = FALSE, !.trees = trees]]
      PROVE  /\ surveys'[s].status = "draft" /\ surveys'[s].trees = trees
             /\ \A t \in SurveyIds \ {s} : surveys'[t] = surveys[t]
  BY <1>1, <1>2 DEF TypeOK, Survey
<1>3. CASE At(w, "update_sections") /\ surveys' = [surveys EXCEPT ![s] =
              [@ EXCEPT !.status = "draft", !.dated = FALSE, !.trees = surveys[s].trees]]
  BY <1>1, <1>2, <1>3
<1>4. CASE At(w, "update_write") /\ \E t \in TreeIds, body \in {b \in Bodies : ValidBody(b)} :
            surveys' = [surveys EXCEPT ![s] =
              [@ EXCEPT !.status = "draft", !.dated = FALSE,
                        !.trees = (surveys[s].trees \ request[w].seen)
                                    \cup {[id |-> t, keys |-> body]}]]
  <2> PICK t \in TreeIds, body \in {b \in Bodies : ValidBody(b)} :
        surveys' = [surveys EXCEPT ![s] =
          [@ EXCEPT !.status = "draft", !.dated = FALSE,
                    !.trees = (surveys[s].trees \ request[w].seen)
                                \cup {[id |-> t, keys |-> body]}]]
    BY <1>4
  <2> DEFINE trees == (surveys[s].trees \ request[w].seen) \cup {[id |-> t, keys |-> body]}
  <2>1. surveys' = [surveys EXCEPT ![s] =
          [@ EXCEPT !.status = "draft", !.dated = FALSE, !.trees = trees]]
    OBVIOUS
  <2> HIDE DEF trees
  <2>2. /\ surveys'[s].status = "draft" /\ surveys'[s].trees = trees
        /\ \A x \in SurveyIds \ {s} : surveys'[x] = surveys[x]
    BY <1>2, <2>1
  <2> QED
    BY <1>1, <1>4, <2>2 DEF trees
<1> QED
  BY <1>3, <1>4 DEF UpdateCommit

LEMMA MarkedRow ==
  ASSUME TypeOK, NEW w \in Workers, PublishSave(w) \/ ArchiveSave(w)
  PROVE  LET s == request[w].id
         IN  /\ s \in SurveyIds /\ Exists(s)
             /\ surveys'[s].trees = surveys[s].trees
             /\ surveys'[s].status = IF PublishSave(w) THEN "published" ELSE "archived"
             /\ \A t \in SurveyIds \ {s} : surveys'[t] = surveys[t]
<1> DEFINE s == request[w].id
<1>1. s \in SurveyIds /\ surveys[s] \in Survey /\ Exists(s)
  BY SurveyOf, NoSurveyAssumption DEF PublishSave, ArchiveSave, Busy, Exists
<1>2. CASE PublishSave(w)
  BY <1>1, <1>2 DEF PublishSave, TypeOK, Survey
<1>3. CASE ~ PublishSave(w)
  BY <1>1, <1>3 DEF ArchiveSave, TypeOK, Survey
<1> QED
  BY <1>2, <1>3

\* What a fork finds of a section it has read.
KeysFound(w, tree) == IF tree \in surveys[request[w].id].trees THEN tree.keys ELSE <<>>

LEMMA ForkedTrees ==
  ASSUME TypeOK, NEW w \in Workers, ForkCommit(w)
  PROVE  \E c \in SurveyIds, copy \in Injection(request[w].seen, TreeIds) :
            /\ ~ Exists(c)
            /\ \A t \in SurveyIds \ {c} : surveys'[t] = surveys[t]
            /\ surveys'[c].status = "draft"
            /\ surveys'[c].trees =
                 {[id |-> copy[tree], keys |-> KeysFound(w, tree)] : tree \in request[w].seen}
<1> DEFINE q == request[w]
<1> PICK c \in SurveyIds, copy \in Injection(q.seen, {t \in TreeIds : FreshTree(t)}) :
      /\ ~ Exists(c)
      /\ surveys' = [surveys EXCEPT ![c] =
            [group |-> surveys[q.id].group, version |-> q.version, status |-> "draft",
             dated |-> FALSE,
             trees |-> {[id |-> copy[tree], keys |-> KeysFound(w, tree)] : tree \in q.seen}]]
  BY DEF ForkCommit, KeysFound
<1>1. copy \in Injection(q.seen, TreeIds)
  BY DEF Injection, IsInjective
<1> DEFINE trees == {[id |-> copy[tree], keys |-> KeysFound(w, tree)] : tree \in q.seen}
<1>2. surveys' = [surveys EXCEPT ![c] =
            [group |-> surveys[q.id].group, version |-> q.version, status |-> "draft",
             dated |-> FALSE, trees |-> trees]]
  OBVIOUS
<1> HIDE DEF trees
<1>3. /\ surveys'[c].trees = trees /\ surveys'[c].status = "draft"
      /\ \A t \in SurveyIds \ {c} : surveys'[t] = surveys[t]
  BY <1>2 DEF TypeOK
<1> QED
  BY <1>1, <1>3 DEF trees

LEMMA CreatedTrees ==
  ASSUME TypeOK, NEW w \in Workers, CreateSurvey(w)
  PROVE  \E s \in SurveyIds, t \in TreeIds, body \in Bodies :
            /\ ~ Exists(s)
            /\ ValidBody(body)
            /\ \A x \in SurveyIds \ {s} : surveys'[x] = surveys[x]
            /\ surveys'[s].status = "draft"
            /\ surveys'[s].trees = {[id |-> t, keys |-> body]}
BY DEF CreateSurvey, TypeOK

UpdateLocks == {"update_sections", "update_write"}

\* Two updates are never between their UPDATE of a survey's row and their
\* COMMIT, and the sections read there are still those of the survey.
EditsAlone ==
  /\ \A v, w \in Workers :
        request[v].pc \in UpdateLocks /\ request[w].pc \in UpdateLocks
          /\ request[v].id = request[w].id => v = w
  /\ \A w \in Workers : At(w, "update_write") => request[w].seen = surveys[request[w].id].trees

LEMMA OthersWriteNothing ==
  ASSUME NEW w \in Workers, NewRequest(w) \/ Proceed(w) \/ Crash(w), ~ Writes(w)
  PROVE  UNCHANGED surveys
BY DEF NewRequest, Proceed, Crash, Writes, Refuse, vars, UpdateLoad, UpdateSave,
       UpdateSections, PublishLoad, ArchiveLoad, ForkLoad, ForkVersion, ForkInsert, ForkSections

\* The sections of a survey that no update commits stay.
LEMMA TreesStay ==
  ASSUME TypeOK, NEW v \in Workers, NewRequest(v) \/ Proceed(v) \/ Crash(v),
         NEW s \in SurveyIds, Exists(s), UpdateCommit(v) => request[v].id # s
  PROVE  surveys'[s].trees = surveys[s].trees
<1>1. CASE CreateSurvey(v)
  BY <1>1, CreatedTrees
<1>2. CASE UpdateCommit(v)
  BY <1>2, UpdatedRow
<1>3. CASE PublishSave(v) \/ ArchiveSave(v)
  BY <1>3, MarkedRow
<1>4. CASE ForkCommit(v)
  BY <1>4, ForkedTrees
<1>5. CASE ~ Writes(v)
  BY <1>5, OthersWriteNothing
<1> QED
  BY <1>1, <1>2, <1>3, <1>4, <1>5 DEF Writes

LEMMA EditsAloneStep ==
  ASSUME TypeOK, EditsAlone, NEW w \in Workers, NewRequest(w) \/ Proceed(w) \/ Crash(w)
  PROVE  EditsAlone'
<1>o. \A v \in Workers : v # w => request'[v] = request[v]
  BY OthersUnchanged
<1>1. ASSUME NEW v \in Workers, v # w, request'[v].pc \in UpdateLocks,
             request'[w].pc \in UpdateLocks, request'[v].id = request'[w].id
      PROVE  FALSE
  <2>1. request[v].pc \in UpdateLocks
    BY <1>1, <1>o
  <2>2. ~ (request[w].pc \in UpdateLocks /\ request[w].id = request[v].id)
    BY <1>1, <2>1 DEF EditsAlone
  <2>3. UpdateSave(w) /\ request'[w].id = request[w].id
    <3>1. request'[w] # request[w]
      BY <1>1, <1>o, <2>2
    <3>2. request'[w] # Idle
      BY <1>1 DEF Idle, UpdateLocks
    <3>3. UpdateSections(w) => request[w].pc \in UpdateLocks
      BY DEF UpdateSections, UpdateLocks
    <3>4. request[v].id = request'[w].id
      BY <1>1, <1>o
    <3> QED
      BY <1>1, <2>2, <3>1, <3>2, <3>3, <3>4, NextStep DEF UpdateLocks
  <2> QED
    BY <1>1, <1>o, <2>1, <2>3 DEF UpdateSave, Unlocked, Locks, UpdateLocks
<1>2. ASSUME NEW v \in Workers, request'[v].pc = "update_write"
      PROVE  request'[v].seen = surveys'[request'[v].id].trees
  <2>1. CASE request'[v] = request[v]
    <3>1. At(v, "update_write")
      BY <1>2, <2>1
    <3>2. request[v].id \in SurveyIds /\ Exists(request[v].id)
      BY <3>1, SurveyOf, NoSurveyAssumption DEF Busy, Exists
    <3>3. UpdateCommit(w) => request[w].id # request[v].id
      <4>1. SUFFICES ASSUME UpdateCommit(w), request[w].id = request[v].id PROVE FALSE
        OBVIOUS
      <4>2. request[w].pc \in UpdateLocks
        BY <4>1 DEF UpdateCommit, UpdateLocks
      <4>3. v = w
        BY <3>1, <4>1, <4>2 DEF EditsAlone, UpdateLocks
      <4>4. request'[w] = Idle
        BY <4>1 DEF UpdateCommit, Finish, TypeOK
      <4> QED
        BY <1>2, <4>3, <4>4 DEF Idle
    <3>4. surveys'[request[v].id].trees = surveys[request[v].id].trees
      BY <3>2, <3>3, TreesStay
    <3> QED
      BY <2>1, <3>1, <3>4 DEF EditsAlone
  <2>2. CASE request'[v] # request[v]
    <3>1. v = w
      BY <2>2, <1>o
    <3>2. UpdateSections(w) /\ request'[w].id = request[w].id
            /\ request'[w].seen = surveys[request[w].id].trees
      BY <1>2, <2>2, <3>1, NextStep DEF Idle
    <3> QED
      BY <3>1, <3>2 DEF UpdateSections
  <2> QED
    BY <2>1, <2>2
<1> QED
  BY <1>1, <1>2, <1>o DEF EditsAlone

\* Two fields of one set of trees have different keys.
DistinctKeys(trees) ==
  \A a, b \in trees : \A i \in DOMAIN a.keys, j \in DOMAIN b.keys :
    a.keys[i] = b.keys[j] => a = b /\ i = j

LEMMA BodyDistinct ==
  ASSUME NEW t, NEW body, ValidBody(body)
  PROVE  DistinctKeys({[id |-> t, keys |-> body]})
BY DEF DistinctKeys, ValidBody, IsInjective

\* A copy of sections with their keys, or some of them without any.
LEMMA CopyDistinct ==
  ASSUME TypeOK, NEW w \in Workers, DistinctKeys(surveys[request[w].id].trees),
         NEW copy \in Injection(request[w].seen, TreeIds)
  PROVE  DistinctKeys({[id |-> copy[tree], keys |-> KeysFound(w, tree)]
                         : tree \in request[w].seen})
<1> DEFINE source == surveys[request[w].id].trees
<1> SUFFICES ASSUME NEW a \in request[w].seen, NEW b \in request[w].seen,
                    NEW i \in DOMAIN KeysFound(w, a), NEW j \in DOMAIN KeysFound(w, b),
                    KeysFound(w, a)[i] = KeysFound(w, b)[j]
             PROVE  a = b /\ i = j
  BY DEF DistinctKeys
<1>1. a \in source /\ b \in source
  BY DEF KeysFound
<1> QED
  BY <1>1 DEF KeysFound, DistinctKeys

\* The keys of a survey's fields are unique, whoever edits or forks it at the
\* same time: an update replaces the very sections it read, because it holds
\* the lock on the survey's row, and a fork copies each section at most whole.
THEOREM KeysTheorem == Spec => []KeysUnique
<1>1. Init => EditsAlone /\ KeysUnique
  BY DEF Init, Idle, EditsAlone, KeysUnique, UpdateLocks, Exists
<1>2. TypeOK /\ EditsAlone /\ KeysUnique /\ [Next]_vars => EditsAlone' /\ KeysUnique'
  <2> SUFFICES ASSUME TypeOK, EditsAlone, KeysUnique, [Next]_vars
               PROVE  EditsAlone' /\ KeysUnique'
    OBVIOUS
  <2>1. CASE UNCHANGED vars
    BY <2>1 DEF vars, EditsAlone, KeysUnique, Exists
  <2>2. ASSUME NEW w \in Workers, NewRequest(w) \/ Proceed(w) \/ Crash(w)
        PROVE  KeysUnique'
    <3> SUFFICES ASSUME NEW s \in SurveyIds, Exists(s)' PROVE DistinctKeys(surveys'[s].trees)
      BY DEF KeysUnique, DistinctKeys
    <3>k. \A x \in SurveyIds : Exists(x) => DistinctKeys(surveys[x].trees)
      BY DEF KeysUnique, DistinctKeys
    <3>1. CASE CreateSurvey(w)
      <4>1. PICK x \in SurveyIds, t \in TreeIds, body \in Bodies :
              /\ ValidBody(body)
              /\ \A y \in SurveyIds \ {x} : surveys'[y] = surveys[y]
              /\ surveys'[x].trees = {[id |-> t, keys |-> body]}
        BY <3>1, CreatedTrees
      <4>2. DistinctKeys(surveys'[x].trees)
        BY <4>1, BodyDistinct
      <4> QED
        BY <3>k, <4>1, <4>2 DEF Exists
    <3>2. CASE UpdateCommit(w) /\ request[w].id = s
      <4>1. CASE At(w, "update_write")
        <5>1. PICK t \in TreeIds, body \in Bodies :
                /\ ValidBody(body)
                /\ surveys'[s].trees = (surveys[s].trees \ request[w].seen)
                                          \cup {[id |-> t, keys |-> body]}
          BY <3>2, <4>1, UpdatedRow
        <5>2. request[w].seen = surveys[s].trees
          BY <3>2, <4>1 DEF EditsAlone
        <5>3. surveys'[s].trees = {[id |-> t, keys |-> body]}
          BY <5>1, <5>2
        <5>4. DistinctKeys({[id |-> t, keys |-> body]})
          BY <5>1, BodyDistinct
        <5> QED
          BY <5>3, <5>4
      <4>2. CASE ~ At(w, "update_write")
        BY <3>k, <3>2, <4>2, UpdatedRow
      <4> QED
        BY <4>1, <4>2
    <3>3. CASE ForkCommit(w)
      <4>1. PICK c \in SurveyIds, copy \in Injection(request[w].seen, TreeIds) :
              /\ ~ Exists(c)
              /\ \A t \in SurveyIds \ {c} : surveys'[t] = surveys[t]
              /\ surveys'[c].trees = {[id |-> copy[tree], keys |-> KeysFound(w, tree)]
                                        : tree \in request[w].seen}
        BY <3>3, ForkedTrees
      <4>2. DistinctKeys(surveys[request[w].id].trees)
        BY <3>k, <3>3, SurveyOf, NoSurveyAssumption DEF ForkCommit, Busy, Exists
      <4>3. DistinctKeys(surveys'[c].trees)
        BY <4>1, <4>2, CopyDistinct
      <4>4. CASE s = c
        BY <4>3, <4>4
      <4>5. CASE s # c
        BY <3>k, <4>1, <4>5 DEF Exists
      <4> QED
        BY <4>4, <4>5
    <3>4. CASE ~ CreateSurvey(w) /\ ~ ForkCommit(w) /\ ~ (UpdateCommit(w) /\ request[w].id = s)
      <4>1. Exists(s)
        <5>1. CASE Writes(w)
          BY <3>4, <5>1, UpdatedRow, MarkedRow DEF Writes, Exists
        <5>2. CASE ~ Writes(w)
          BY <2>2, <5>2, OthersWriteNothing DEF Exists
        <5> QED
          BY <5>1, <5>2
      <4> QED
        BY <2>2, <3>k, <3>4, <4>1, TreesStay
    <3> QED
      BY <3>1, <3>2, <3>3, <3>4
  <2> QED
    BY <2>1, <2>2, EditsAloneStep DEF Next
<1> QED
  BY <1>1, <1>2, TypeInvariant, PTL DEF Spec

--------------------------------------------------------------------------------
(* One request at a time about each survey: what the docs promise.           *)

\* What a request has loaded is still true of its survey.
Loaded ==
  /\ SerialAdmins
  /\ \A w \in Workers :
        /\ request[w].pc \in DraftSteps => surveys[request[w].id].status = "draft"
        /\ At(w, "fork_fields") => request[w].seen = surveys[request[w].id].trees

\* A row that changes is that of the survey its writer's request is about.
LEMMA RowWritten ==
  ASSUME TypeOK, NEW w \in Workers, NewRequest(w) \/ Proceed(w) \/ Crash(w),
         NEW s \in SurveyIds, Exists(s), surveys'[s] # surveys[s]
  PROVE  /\ UpdateCommit(w) \/ PublishSave(w) \/ ArchiveSave(w)
         /\ request[w].id = s /\ Busy(w)
<1>1. ~ CreateSurvey(w)
  BY CreatedTrees
<1>2. ~ ForkCommit(w)
  BY ForkedTrees
<1>3. UpdateCommit(w) \/ PublishSave(w) \/ ArchiveSave(w)
  BY <1>1, <1>2, OthersWriteNothing DEF Writes
<1> QED
  BY <1>3, UpdatedRow, MarkedRow DEF UpdateCommit, PublishSave, ArchiveSave, Busy

\* No step of another worker writes the survey that a request is about.
LEMMA SurveyHeld ==
  ASSUME TypeOK, SerialAdmins, NEW w \in Workers, Busy(w),
         NEW v \in Workers, v # w, NewRequest(v) \/ Proceed(v) \/ Crash(v)
  PROVE  surveys'[request[w].id] = surveys[request[w].id]
<1>1. request[w].id \in SurveyIds /\ Exists(request[w].id)
  BY SurveyOf, NoSurveyAssumption DEF Exists
<1> QED
  BY <1>1, RowWritten DEF SerialAdmins

\* After a step that writes a survey its worker is idle.
LEMMA WritesEnd ==
  ASSUME TypeOK, NEW w \in Workers, Writes(w)
  PROVE  ~ Busy(w)'
<1>1. CASE CreateSurvey(w)
  BY <1>1 DEF CreateSurvey, Busy
<1>2. ASSUME Finish(w) PROVE ~ Busy(w)'
  BY <1>2 DEF Finish, Idle, Busy, TypeOK
<1>3. CASE UpdateCommit(w) \/ PublishSave(w) \/ ArchiveSave(w) \/ ForkCommit(w)
  BY <1>2, <1>3 DEF UpdateCommit, PublishSave, ArchiveSave, ForkCommit
<1> QED
  BY <1>1, <1>3 DEF Writes

LEMMA LoadedStep ==
  ASSUME TypeOK, Loaded, NEW v \in Workers, NewRequest(v) \/ Proceed(v) \/ Crash(v),
         TypeOK', SerialAdmins'
  PROVE  Loaded'
<1>o. \A w \in Workers : w # v => request'[w] = request[w]
  BY OthersUnchanged
<1>1. ASSUME NEW w \in Workers, w # v, Busy(w)
      PROVE  surveys'[request[w].id] = surveys[request[w].id]
  BY <1>1, SurveyHeld DEF Loaded
<1>2. ASSUME Busy(v)' PROVE UNCHANGED surveys
  BY <1>2, WritesEnd, OthersWriteNothing
<1>3. ASSUME NEW w \in Workers, request'[w].pc \in DraftSteps
      PROVE  surveys'[request'[w].id].status = "draft"
  <2>1. CASE w # v
    BY <1>3, <1>o, <1>1, <2>1 DEF Loaded, Busy, DraftSteps
  <2>2. CASE w = v
    <3>1. UNCHANGED surveys
      BY <1>2, <1>3, <2>2 DEF Busy, DraftSteps
    <3>2. request'[v].id \in SurveyIds
      BY <1>3, <2>2 DEF TypeOK, Steps, DraftSteps
    <3>3. \/ request[v].id = request'[v].id /\ request[v].pc \in DraftSteps
          \/ surveys[request'[v].id].status = "draft"
      BY <1>3, <2>2, <3>2, DraftHolders
    <3> QED
      BY <2>2, <3>1, <3>3 DEF Loaded
  <2> QED
    BY <2>1, <2>2
<1>4. ASSUME NEW w \in Workers, request'[w].pc = "fork_fields"
      PROVE  request'[w].seen = surveys'[request'[w].id].trees
  <2>1. CASE w # v
    BY <1>4, <1>o, <1>1, <2>1 DEF Loaded, Busy
  <2>2. CASE w = v
    <3>1. UNCHANGED surveys
      BY <1>2, <1>4, <2>2 DEF Busy
    <3>2. \/ request'[v] = request[v]
          \/ /\ request'[v].id = request[v].id
             /\ request'[v].seen = surveys[request[v].id].trees
      BY <1>4, <2>2, NextStep DEF Idle
    <3> QED
      BY <1>4, <2>2, <3>1, <3>2 DEF Loaded
  <2> QED
    BY <2>1, <2>2
<1> QED
  BY <1>3, <1>4 DEF Loaded

LEMMA SerialIsSpec == SerialSpec => Spec
<1>1. [Next /\ SerialAdmins']_vars => [Next]_vars
  OBVIOUS
<1> QED
  BY <1>1, PTL DEF SerialSpec, Spec

LEMMA LoadedInvariant == SerialSpec => [](TypeOK /\ Loaded)
<1>1. Init => Loaded
  BY DEF Init, Loaded, SerialAdmins, Busy, Idle, DraftSteps
<1>2. TypeOK /\ TypeOK' /\ Loaded /\ [Next /\ SerialAdmins']_vars => Loaded'
  <2>1. CASE UNCHANGED vars
    BY <2>1 DEF vars, Loaded, SerialAdmins, Busy
  <2>2. CASE Next /\ SerialAdmins'
    BY <2>2, LoadedStep DEF Next
  <2> QED
    BY <2>1, <2>2
<1> QED
  BY <1>1, <1>2, SerialIsSpec, TypeInvariant, PTL DEF SerialSpec

\* Only draft becomes published, besides archival: the request that publishes,
\* or that saves its copy over the row, holds a survey that is still a draft.
THEOREM StatusTheorem == SerialSpec => StatusMoves
<1>1. TypeOK /\ Loaded /\ [Next /\ SerialAdmins']_vars =>
        [\A s \in SurveyIds :
           Exists(s) /\ surveys'[s].status # surveys[s].status =>
             \/ surveys[s].status = "draft" /\ surveys'[s].status = "published"
             \/ surveys'[s].status = "archived"]_vars
  <2> SUFFICES ASSUME TypeOK, Loaded, NEW w \in Workers,
                      NewRequest(w) \/ Proceed(w) \/ Crash(w),
                      NEW s \in SurveyIds, Exists(s), surveys'[s].status # surveys[s].status
               PROVE  \/ surveys[s].status = "draft" /\ surveys'[s].status = "published"
                      \/ surveys'[s].status = "archived"
    BY DEF Next
  <2>1. CASE CreateSurvey(w) \/ ForkCommit(w)
    BY <2>1, CreatedTrees, ForkedTrees
  <2>2. CASE UpdateCommit(w)
    BY <2>2, UpdatedRow DEF Loaded, DraftSteps
  <2>3. CASE PublishSave(w)
    BY <2>3, MarkedRow DEF Loaded, DraftSteps, PublishSave
  <2>4. CASE ArchiveSave(w)
    BY <2>4, MarkedRow DEF PublishSave, ArchiveSave
  <2> QED
    BY <2>1, <2>2, <2>3, <2>4, OthersWriteNothing DEF Writes
<1> QED
  BY <1>1, LoadedInvariant, PTL DEF SerialSpec, StatusMoves

\* A survey that has left the draft status does not come back to it, and keeps
\* its tree.
LEMMA FinalSurvey ==
  ASSUME TypeOK, Loaded, NEW w \in Workers, NewRequest(w) \/ Proceed(w) \/ Crash(w),
         NEW s \in SurveyIds, Exists(s), surveys[s].status # "draft"
  PROVE  surveys'[s].status # "draft" /\ surveys'[s].trees = surveys[s].trees
<1>1. UpdateCommit(w) => request[w].id # s
  BY DEF UpdateCommit, Loaded, DraftSteps
<1>2. surveys'[s] = surveys[s] \/ surveys'[s].status # "draft"
  BY <1>1, RowWritten, MarkedRow
<1> QED
  BY <1>1, <1>2, TreesStay

\* The tree of a published survey never changes.
THEOREM PublishedTreeTheorem == SerialSpec => PublishedTreeFrozen
<1>1. TypeOK /\ Loaded /\ [Next /\ SerialAdmins']_vars =>
        [\A s \in SurveyIds :
           Exists(s) /\ surveys[s].status = "published"
             => surveys'[s].trees = surveys[s].trees]_vars
  BY FinalSurvey DEF Next
<1> QED
  BY <1>1, LoadedInvariant, PTL DEF SerialSpec, PublishedTreeFrozen

\* A new version has, section by section, the fields of the sections its fork
\* read: the sections are still those of the source when their fields are read.
THEOREM CloneTheorem == SerialSpec => WholeTreeCloned
<1>1. TypeOK /\ Loaded /\ [Next /\ SerialAdmins']_vars =>
        [\A w \in Workers, c \in SurveyIds :
           At(w, "fork_fields") /\ ~ Exists(c) /\ Exists(c)' /\ ~ Busy(w)' =>
             {tree.keys : tree \in surveys'[c].trees} = {tree.keys : tree \in request[w].seen}]_vars
  <2> SUFFICES ASSUME TypeOK, Loaded, NEW v \in Workers,
                      NewRequest(v) \/ Proceed(v) \/ Crash(v),
                      NEW w \in Workers, NEW c \in SurveyIds,
                      At(w, "fork_fields"), ~ Exists(c), Exists(c)', ~ Busy(w)'
               PROVE  {tree.keys : tree \in surveys'[c].trees} = {tree.keys : tree \in request[w].seen}
    BY DEF Next
  <2>1. v = w
    BY OthersUnchanged DEF Busy
  <2>2. Writes(w)
    BY <2>1, OthersWriteNothing DEF Exists
  <2>3. ForkCommit(w)
    BY <2>2 DEF Writes, CreateSurvey, UpdateCommit, PublishSave, ArchiveSave, Busy
  <2>4. PICK d \in SurveyIds, copy \in Injection(request[w].seen, TreeIds) :
          /\ \A t \in SurveyIds \ {d} : surveys'[t] = surveys[t]
          /\ surveys'[d].trees =
               {[id |-> copy[tree], keys |-> KeysFound(w, tree)] : tree \in request[w].seen}
    BY <2>3, ForkedTrees
  <2>5. d = c
    BY <2>4 DEF Exists
  <2>6. \A tree \in request[w].seen : KeysFound(w, tree) = tree.keys
    BY DEF Loaded, KeysFound
  <2> DEFINE clone == {[id |-> copy[tree], keys |-> KeysFound(w, tree)] : tree \in request[w].seen}
  <2>7. {tree.keys : tree \in clone} = {tree.keys : tree \in request[w].seen}
    <3>1. \A tree \in request[w].seen : [id |-> copy[tree], keys |-> KeysFound(w, tree)].keys = tree.keys
      BY <2>6
    <3> QED
      BY <3>1
  <2> HIDE DEF clone
  <2>8. surveys'[c].trees = clone
    BY <2>4, <2>5 DEF clone
  <2> QED
    BY <2>7, <2>8
<1> QED
  BY <1>1, LoadedInvariant, PTL DEF SerialSpec, WholeTreeCloned

================================================================================
