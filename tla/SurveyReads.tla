------------------------------ MODULE SurveyReads ------------------------------
(***************************************************************************)
(* Reading a survey while SurveyEditing changes it: GET /surveys/{id}/,    *)
(* and the cache of nested surveys with the signals that delete its        *)
(* entries.                                                                *)
(*                                                                         *)
(* A read takes three queries, none in a transaction: the survey, its      *)
(* sections, their fields.  The signals fire on each save and delete, so   *)
(* those of a transaction fire before its commit.                          *)
(*                                                                         *)
(* In the repository the functions that read and fill the cache have no    *)
(* caller besides the tests: a reader here is the detail view with the     *)
(* fill that README.md 246 and docs/architecture.md 129 describe after it. *)
(***************************************************************************)
EXTENDS SurveyEditing

CONSTANTS
  Readers,    \* requests that read a survey
  NoEntry     \* the cache has no entry, or it has expired

VARIABLES
  cache,    \* survey:nested:{id} -> entry
  sent,     \* the workers whose publication is saved, signalled, not committed
  due,      \* worker -> the survey it has archived and not yet signalled
  reader    \* what each reader is doing, and what it has read

readVars == <<surveys, request, cache, sent, due, reader>>

--------------------------------------------------------------------------------
\* What the serializer makes of a survey.
Payload == [status : {"draft", "published", "archived"}, dated : BOOLEAN, trees : SUBSET Tree]

\* quiet is history: no request of an administrator about the survey was under
\* way during the fetch.
Entry == [payload : Payload, quiet : BOOLEAN]

ASSUME NoEntryAssumption == NoEntry \notin Entry

ReaderRegisters == [pc : {"idle", "sections", "fields", "store"},
                    id : SurveyIds \cup {Nil},
                    payload : Payload,
                    quiet : BOOLEAN]

NotReading == [pc |-> "idle", id |-> Nil, quiet |-> TRUE,
               payload |-> [status |-> "draft", dated |-> FALSE, trees |-> {}]]

ReadsTypeOK ==
  /\ TypeOK
  /\ cache \in [SurveyIds -> Entry \cup {NoEntry}]
  /\ sent \subseteq {w \in Workers : At(w, "publish_save")}
  /\ due \in [Workers -> SurveyIds \cup {Nil}]
  /\ reader \in [Readers -> ReaderRegisters]
  /\ \A r \in Readers : reader[r].pc # "idle" => reader[r].id \in SurveyIds /\ Exists(reader[r].id)

ReadsInit ==
  /\ Init
  /\ cache = [s \in SurveyIds |-> NoEntry]
  /\ sent = {}
  /\ due = [w \in Workers |-> Nil]
  /\ reader = [r \in Readers |-> NotReading]

--------------------------------------------------------------------------------
PayloadOf(s) == [status |-> surveys[s].status, dated |-> surveys[s].dated,
                 trees |-> surveys[s].trees]

UnderWay(s) == \E w \in Workers : (Busy(w) /\ request[w].id = s) \/ due[w] = s

Invalidate(s) == cache' = [cache EXCEPT ![s] = NoEntry]

\* The history of the fetches, after a step of an administrator.
NoteFetches ==
  reader' = [r \in Readers |->
    [reader[r] EXCEPT !.quiet = @ /\ \A s \in SurveyIds : reader[r].id = s => ~ UnderWay(s)']]

\* Section ids are not used again while somebody holds them.
NewIdsUnheld ==
  LET held == UNION {reader[r].payload.trees : r \in Readers}
                \cup UNION {cache[s].payload.trees : s \in {x \in SurveyIds : cache[x] # NoEntry}}
  IN  \A s \in SurveyIds : surveys'[s] # NoSurvey =>
        \A tree \in surveys'[s].trees :
          (Exists(s) /\ tree \in surveys[s].trees) \/ \A h \in held : h.id # tree.id

--------------------------------------------------------------------------------
(* The administrators' steps, with their signals.                            *)

\* A publication that has updated the row holds its lock as well.
RowFree(w) == \A v \in sent \ {w} : request[v].id # request[w].id

\* Steps that save no row of a survey that can have an entry.
EditQuietly(w) ==
  /\ \/ NewRequest(w)
     \/ ForkVersion(w) \/ ForkInsert(w) \/ ForkSections(w) \/ ForkCommit(w)
  /\ UNCHANGED <<cache, sent, due>>

\* Mutant of UpdateSignal: no receiver for the sections and fields, nor the survey.
UpdateUnsignalled(w) ==
  /\ (RowFree(w) /\ UpdateSave(w)) \/ UpdateSections(w)
  /\ UNCHANGED <<cache, sent, due>>

\* The signal of instance.save(), and the last of those of the sections and
\* fields deleted and written.
UpdateSignal(w) ==
  /\ (RowFree(w) /\ UpdateSave(w)) \/ UpdateSections(w)
  /\ Invalidate(request[w].id)
  /\ UNCHANGED <<sent, due>>

UpdateEnds(w) == UpdateCommit(w) /\ NewIdsUnheld /\ UNCHANGED <<cache, sent, due>>

\* survey.save() in publish: the row is updated, hence locked, and the signal sent.
PublishSignal(w) ==
  LET s == request[w].id
  IN  /\ At(w, "publish_save") /\ w \notin sent
      /\ Unlocked(s) /\ RowFree(w)
      /\ Invalidate(s)
      /\ sent' = sent \cup {w}
      /\ UNCHANGED <<surveys, request, due>>

PublishEnds(w) ==
  /\ w \in sent /\ PublishSave(w)
  /\ sent' = sent \ {w}
  /\ UNCHANGED <<cache, due>>

\* destroy has no transaction: the save commits, and then the signal is sent.
ArchiveEnds(w) ==
  /\ RowFree(w) /\ ArchiveSave(w)
  /\ due' = [due EXCEPT ![w] = request[w].id]
  /\ UNCHANGED <<cache, sent>>

ArchiveSignal(w) ==
  /\ due[w] # Nil
  /\ Invalidate(due[w])
  /\ due' = [due EXCEPT ![w] = Nil]
  /\ UNCHANGED <<surveys, request, sent>>

\* Mutant of Lost: the lock of a publication outlives its worker.
LostLocked(w) ==
  /\ Crash(w) \/ (due[w] # Nil /\ UNCHANGED <<surveys, request>>)
  /\ due' = [due EXCEPT ![w] = Nil]
  /\ UNCHANGED <<cache, sent>>

\* A worker lost after an archival leaves its signal unsent.
Lost(w) ==
  /\ Crash(w) \/ (due[w] # Nil /\ UNCHANGED <<surveys, request>>)
  /\ sent' = sent \ {w}
  /\ due' = [due EXCEPT ![w] = Nil]
  /\ UNCHANGED cache

Administer(w) ==
  /\ \/ /\ due[w] = Nil
        /\ \/ EditQuietly(w) \/ UpdateSignal(w) \/ UpdateEnds(w)
           \/ PublishSignal(w) \/ PublishEnds(w) \/ ArchiveEnds(w)
     \/ ArchiveSignal(w)
     \/ Lost(w)
  /\ NoteFetches

--------------------------------------------------------------------------------
(* GET /surveys/{id}/                                                        *)

Reading(r, q) == reader' = [reader EXCEPT ![r] = q] /\ UNCHANGED <<surveys, request, sent, due>>

ReadRow(r, s) ==
  /\ reader[r].pc = "idle" /\ Exists(s)
  /\ Reading(r, [pc |-> "sections", id |-> s, quiet |-> ~ UnderWay(s),
                 payload |-> [PayloadOf(s) EXCEPT !.trees = {}]])
  /\ UNCHANGED cache

ReadSections(r) ==
  LET q == reader[r]
  IN  /\ q.pc = "sections"
      /\ Reading(r, [q EXCEPT !.pc = "fields", !.payload.trees = surveys[q.id].trees])
      /\ UNCHANGED cache

\* Mutant of ReadFields: the status is that of the row by then.
ReadFieldsAndStatus(r) ==
  LET q == reader[r]
      KeysOf(tree) == IF tree \in surveys[q.id].trees THEN tree.keys ELSE <<>>
  IN  /\ q.pc = "fields"
      /\ Reading(r, [q EXCEPT !.pc = "store", !.payload.status = surveys[q.id].status,
                       !.payload.trees = {[tree EXCEPT !.keys = KeysOf(tree)] : tree \in @}])
      /\ UNCHANGED cache

\* The fields of the sections read: none for a section deleted since.
ReadFields(r) ==
  LET q == reader[r]
      KeysOf(tree) == IF tree \in surveys[q.id].trees THEN tree.keys ELSE <<>>
  IN  /\ q.pc = "fields"
      /\ Reading(r, [q EXCEPT !.pc = "store",
                       !.payload.trees = {[tree EXCEPT !.keys = KeysOf(tree)] : tree \in @}])
      /\ UNCHANGED cache

\* The answer is sent, and cache_survey_payload called or not.
Store(r) ==
  LET q == reader[r]
  IN  /\ q.pc = "store"
      /\ Reading(r, NotReading)
      /\ cache' \in {cache, [cache EXCEPT ![q.id] = [payload |-> q.payload, quiet |-> q.quiet]]}

\* Mutant of Expire: cache.set without a timeout.
ExpireNever(s) == cache[s] = NoEntry /\ UNCHANGED readVars

\* SURVEY_CACHE_TTL
Expire(s) ==
  /\ cache[s] # NoEntry
  /\ Invalidate(s)
  /\ UNCHANGED <<surveys, request, sent, due, reader>>

Read(r) ==
  \/ \E s \in SurveyIds : ReadRow(r, s)
  \/ ReadSections(r) \/ ReadFields(r) \/ Store(r)

ReadsNext ==
  \/ \E w \in Workers : Administer(w)
  \/ \E r \in Readers : Read(r)
  \/ \E s \in SurveyIds : Expire(s)

\* One request of an administrator at a time about each survey; entries expire.
ReadsSpec ==
  /\ ReadsInit
  /\ [][ReadsNext /\ SerialAdmins']_readVars
  /\ \A s \in SurveyIds : WF_readVars(Expire(s))

--------------------------------------------------------------------------------
\* What a reader is about to send, or finds in the cache, as published or
\* archived has the survey's final tree, though it took three queries, and the
\* entry may be stale (views.py 98-103: the row is read before the sections).
PublishedReadIsFinal ==
  /\ \A r \in Readers :
        LET q == reader[r]
        IN  q.pc = "store" /\ q.payload.status # "draft" =>
              q.payload.trees = surveys[q.id].trees
  /\ \A s \in SurveyIds :
        cache[s] # NoEntry /\ cache[s].payload.status # "draft" =>
          cache[s].payload.trees = surveys[s].trees

\* An entry filled while no administrator was at work on the survey is never
\* stale, however long it lives, but for an archival: there the signal comes
\* after the commit, and can be lost ("TTL is a safety net, not the primary
\* correctness mechanism", docs/architecture.md 140).
QuietEntryFresh ==
  \A s \in SurveyIds : cache[s] # NoEntry /\ cache[s].quiet =>
    \/ cache[s].payload = PayloadOf(s)
    \/ /\ surveys[s].status = "archived"
       /\ [cache[s].payload EXCEPT !.status = "archived"] = PayloadOf(s)

\* Once the administrators leave a survey alone, its entry is in the end fresh,
\* or absent, whatever was stored around the last commit.
EventuallyFresh ==
  \A s \in SurveyIds :
    <>[](~ UnderWay(s)) =>
      <>[](cache[s] = NoEntry \/ (Exists(s) /\ cache[s].payload = PayloadOf(s)))

================================================================================
