--------------------------- MODULE SurveyReadsProofs ---------------------------
(***************************************************************************)
(* What is read of the surveys, and when the cache is told, changes        *)
(* nothing of what happens to them; and what holds of the reads and of the *)
(* cache for every number of surveys, administrators and readers.          *)
(***************************************************************************)
EXTENDS SurveyReads, SurveyEditingProofs

USE DEF At

\* A step of an administrator with its signal is a step of the same worker in
\* SurveyEditing, or it leaves the surveys and the requests alone.
LEMMA AdministersAsEdited ==
  ASSUME NEW w \in Workers, Administer(w)
  PROVE  (NewRequest(w) \/ Proceed(w) \/ Crash(w)) \/ UNCHANGED vars
<1>1. CASE EditQuietly(w)
  BY <1>1 DEF EditQuietly, Proceed
<1>2. CASE UpdateSignal(w) \/ UpdateEnds(w)
  BY <1>2 DEF UpdateSignal, UpdateEnds, Proceed
<1>3. CASE PublishSignal(w)
  BY <1>3 DEF PublishSignal, vars
<1>4. CASE PublishEnds(w) \/ ArchiveEnds(w)
  BY <1>4 DEF PublishEnds, ArchiveEnds, Proceed
<1>5. CASE ArchiveSignal(w)
  BY <1>5 DEF ArchiveSignal, vars
<1>6. CASE Lost(w)
  BY <1>6 DEF Lost, vars
<1> QED
  BY <1>1, <1>2, <1>3, <1>4, <1>5, <1>6 DEF Administer

\* A reader, and the expiry of an entry, leave the surveys and the requests alone.
LEMMA ReadersOnlyRead ==
  ASSUME \/ \E r \in Readers : Read(r)
         \/ \E s \in SurveyIds : Expire(s)
  PROVE  UNCHANGED vars
BY DEF Read, ReadRow, ReadSections, ReadFields, Store, Reading, Expire, vars

LEMMA ReadsStepEdits ==
  ASSUME [ReadsNext /\ SerialAdmins']_readVars
  PROVE  [Next /\ SerialAdmins']_vars
<1>1. CASE UNCHANGED readVars
  BY <1>1 DEF readVars, vars
<1>2. CASE ReadsNext /\ SerialAdmins'
  BY <1>2, AdministersAsEdited, ReadersOnlyRead DEF ReadsNext, Next
<1> QED
  BY <1>1, <1>2

\* Every behaviour of the surveys with their readers and their cache is one of
\* SurveyEditing under the restriction of its own serial runs: a signal sent
\* inside a transaction, or after it, is no part of what is stored
\* (signals.py 23-38).
THEOREM ReadsRefineEditing == ReadsSpec => SerialSpec
<1>1. ReadsInit => Init
  BY DEF ReadsInit
<1> QED
  BY <1>1, ReadsStepEdits, PTL DEF ReadsSpec, SerialSpec

--------------------------------------------------------------------------------
(* The steps of the administrators, as their readers and the cache see them. *)

\* A reader keeps what it has read; only the history of its fetch is noted.
LEMMA FetchesNoted ==
  ASSUME reader \in [Readers -> ReaderRegisters], NoteFetches
  PROVE  /\ reader' \in [Readers -> ReaderRegisters]
         /\ \A r \in Readers :
              /\ reader'[r].pc = reader[r].pc /\ reader'[r].id = reader[r].id
              /\ reader'[r].payload = reader[r].payload
              /\ reader'[r].quiet <=>
                   reader[r].quiet /\ \A s \in SurveyIds : reader[r].id = s => ~ UnderWay(s)'
<1> SUFFICES ASSUME NEW r \in Readers
             PROVE  /\ reader'[r] \in ReaderRegisters
                    /\ reader'[r].pc = reader[r].pc /\ reader'[r].id = reader[r].id
                    /\ reader'[r].payload = reader[r].payload
                    /\ reader'[r].quiet <=>
                         reader[r].quiet /\ \A s \in SurveyIds : reader[r].id = s => ~ UnderWay(s)'
  BY DEF NoteFetches
<1> DEFINE quiet == reader[r].quiet /\ \A s \in SurveyIds : reader[r].id = s => ~ UnderWay(s)'
<1>1. reader'[r] = [reader[r] EXCEPT !.quiet = quiet]
  BY DEF NoteFetches
<1>2. quiet \in BOOLEAN
  OBVIOUS
<1>3. reader[r] \in ReaderRegisters
  OBVIOUS
<1> HIDE DEF quiet
<1>4. /\ reader'[r] \in ReaderRegisters /\ reader'[r].quiet = quiet
      /\ reader'[r].pc = reader[r].pc /\ reader'[r].id = reader[r].id
      /\ reader'[r].payload = reader[r].payload
  BY <1>1, <1>2, <1>3 DEF ReaderRegisters
<1> QED
  BY <1>4 DEF quiet

\* What the steps of the administrators share: an entry stays or goes, and the
\* signals that are sent, or due, are those of the worker that steps.
LEMMA SignalsMove ==
  ASSUME TypeOK, cache \in [SurveyIds -> Entry \cup {NoEntry}],
         due \in [Workers -> SurveyIds \cup {Nil}],
         sent \subseteq {w \in Workers : At(w, "publish_save")},
         NEW w \in Workers, Administer(w)
  PROVE  /\ cache' \in [SurveyIds -> Entry \cup {NoEntry}]
         /\ \A s \in SurveyIds : cache'[s] \in {cache[s], NoEntry}
         /\ due' \in [Workers -> SurveyIds \cup {Nil}]
         /\ sent' \subseteq Workers
         /\ \A v \in sent' :
              /\ request'[v] = request[v] /\ At(v, "publish_save")
              /\ v \in sent \/ cache'[request[v].id] = NoEntry
<1>o. ASSUME NewRequest(w) \/ Proceed(w) \/ Crash(w), ~ At(w, "publish_save")
      PROVE  \A v \in sent : request'[v] = request[v]
  BY <1>o, OthersUnchanged
<1>1. CASE EditQuietly(w)
  <2>1. ~ At(w, "publish_save")
    BY <1>1 DEF EditQuietly, NewRequest, CreateSurvey, Refuse, UpdateLoad, PublishLoad,
                ArchiveLoad, ForkLoad, Busy, ForkVersion, ForkInsert, ForkSections, ForkCommit
  <2> QED
    BY <1>1, <1>o, <2>1 DEF EditQuietly, Proceed
<1>2. CASE UpdateSignal(w) \/ UpdateEnds(w)
  <2>1. ~ At(w, "publish_save") /\ Proceed(w)
    BY <1>2 DEF UpdateSignal, UpdateEnds, UpdateSave, UpdateSections, UpdateCommit, Proceed
  <2> QED
    BY <1>2, <1>o, <2>1, SurveyOf DEF UpdateSignal, UpdateEnds, Invalidate, Busy, UpdateSave, UpdateSections
<1>3. CASE PublishSignal(w)
  <2>1. request[w].id \in SurveyIds
    BY <1>3, SurveyOf DEF PublishSignal, Busy
  <2> QED
    BY <1>3, <2>1 DEF PublishSignal, Invalidate
<1>4. CASE PublishEnds(w)
  BY <1>4, OthersUnchanged DEF PublishEnds, Proceed
<1>5. CASE ArchiveEnds(w)
  <2>1. request[w].id \in SurveyIds /\ ~ At(w, "publish_save") /\ Proceed(w)
    BY <1>5, SurveyOf DEF ArchiveEnds, ArchiveSave, Busy, Proceed
  <2> QED
    BY <1>5, <1>o, <2>1 DEF ArchiveEnds
<1>6. CASE ArchiveSignal(w)
  BY <1>6 DEF ArchiveSignal, Invalidate
<1>7. CASE Lost(w)
  BY <1>7, OthersUnchanged DEF Lost
<1> QED
  BY <1>1, <1>2, <1>3, <1>4, <1>5, <1>6, <1>7 DEF Administer

--------------------------------------------------------------------------------
(* The steps of the readers.                                                 *)

\* The fields a reader finds of a section it has read.
FieldsFound(s, tree) == IF tree \in surveys[s].trees THEN tree.keys ELSE <<>>

\* What one query of a reader reads, and what it keeps of the queries before it.
ReadMoves(r) ==
  LET q == reader[r]  n == reader'[r]
      Keeps == n.id = q.id /\ n.quiet = q.quiet
                 /\ n.payload.status = q.payload.status /\ n.payload.dated = q.payload.dated
  IN  \/ /\ n.pc = "sections"
         /\ n.id \in SurveyIds /\ Exists(n.id) /\ (n.quiet => ~ UnderWay(n.id))
         /\ n.payload.status = surveys[n.id].status
         /\ n.payload.dated = surveys[n.id].dated
         /\ cache' = cache
      \/ /\ q.pc = "sections" /\ n.pc = "fields" /\ Keeps
         /\ n.payload.trees = surveys[q.id].trees
         /\ cache' = cache
      \/ /\ q.pc = "fields" /\ n.pc = "store" /\ Keeps
         /\ n.payload.trees =
              {[tree EXCEPT !.keys = FieldsFound(q.id, tree)] : tree \in q.payload.trees}
         /\ cache' = cache
      \/ /\ q.pc = "store" /\ n = NotReading
         /\ cache' \in {cache, [cache EXCEPT ![q.id] = [payload |-> q.payload, quiet |-> q.quiet]]}

LEMMA ReaderSteps ==
  ASSUME ReadsTypeOK, NEW r \in Readers, Read(r)
  PROVE  /\ reader' \in [Readers -> ReaderRegisters]
         /\ \A x \in Readers \ {r} : reader'[x] = reader[x]
         /\ ReadMoves(r)
         /\ UNCHANGED <<surveys, request, sent, due>>
<1> DEFINE q == reader[r]
<1>q. q \in ReaderRegisters
  BY DEF ReadsTypeOK
<1>k. ASSUME NEW n \in ReaderRegisters, Reading(r, n)
      PROVE  /\ reader' \in [Readers -> ReaderRegisters]
             /\ \A x \in Readers \ {r} : reader'[x] = reader[x]
             /\ reader'[r] = n
             /\ UNCHANGED <<surveys, request, sent, due>>
  BY <1>k DEF Reading, ReadsTypeOK
<1>1. ASSUME NEW s \in SurveyIds, ReadRow(r, s)
      PROVE  /\ reader' \in [Readers -> ReaderRegisters]
             /\ \A x \in Readers \ {r} : reader'[x] = reader[x]
             /\ ReadMoves(r)
             /\ UNCHANGED <<surveys, request, sent, due>>
  <2> DEFINE payload == [PayloadOf(s) EXCEPT !.trees = {}]
             n == [pc |-> "sections", id |-> s, quiet |-> ~ UnderWay(s), payload |-> payload]
  <2>1. surveys[s] \in Survey
    BY <1>1 DEF ReadRow, Exists, ReadsTypeOK, TypeOK
  <2>2. /\ payload \in Payload
        /\ payload.status = surveys[s].status /\ payload.dated = surveys[s].dated
    BY <2>1 DEF PayloadOf, Payload, Survey
  <2> HIDE DEF payload
  <2>3. n \in ReaderRegisters
    BY <2>2 DEF ReaderRegisters
  <2>4. Reading(r, n) /\ Exists(s) /\ cache' = cache
    BY <1>1 DEF ReadRow, payload
  <2> HIDE DEF n
  <2>5. /\ reader' \in [Readers -> ReaderRegisters]
        /\ \A x \in Readers \ {r} : reader'[x] = reader[x]
        /\ reader'[r] = n
        /\ UNCHANGED <<surveys, request, sent, due>>
    BY <1>k, <2>3, <2>4
  <2>6. /\ n.pc = "sections" /\ n.id = s /\ (n.quiet => ~ UnderWay(s))
        /\ n.payload = payload
    BY DEF n
  <2> QED
    BY <2>2, <2>4, <2>5, <2>6 DEF ReadMoves
<1>2. CASE ReadSections(r)
  <2> DEFINE n == [q EXCEPT !.pc = "fields", !.payload.trees = surveys[q.id].trees]
  <2>1. surveys[q.id] \in Survey
    BY <1>2 DEF ReadSections, Exists, ReadsTypeOK, TypeOK
  <2>2. /\ n \in ReaderRegisters /\ n.pc = "fields" /\ n.id = q.id /\ n.quiet = q.quiet
        /\ n.payload.status = q.payload.status /\ n.payload.dated = q.payload.dated
        /\ n.payload.trees = surveys[q.id].trees
    BY <1>q, <2>1 DEF ReaderRegisters, Payload, Survey
  <2>3. Reading(r, n) /\ q.pc = "sections" /\ cache' = cache
    BY <1>2 DEF ReadSections
  <2> HIDE DEF n
  <2> QED
    BY <1>k, <2>2, <2>3 DEF ReadMoves
<1>3. CASE ReadFields(r)
  <2> DEFINE found == {[tree EXCEPT !.keys = FieldsFound(q.id, tree)] : tree \in q.payload.trees}
             n == [q EXCEPT !.pc = "store", !.payload.trees = found]
  <2>1. found \in SUBSET Tree
    <3>1. ASSUME NEW tree \in q.payload.trees
          PROVE  [tree EXCEPT !.keys = FieldsFound(q.id, tree)] \in Tree
      BY <1>q, SurveyAssumption DEF ReaderRegisters, Payload, Tree, FieldsFound
    <3> QED
      BY <3>1
  <2>3. Reading(r, n) /\ q.pc = "fields" /\ cache' = cache
    BY <1>3 DEF ReadFields, FieldsFound
  <2> HIDE DEF found
  <2>2. /\ n \in ReaderRegisters /\ n.pc = "store" /\ n.id = q.id /\ n.quiet = q.quiet
        /\ n.payload.status = q.payload.status /\ n.payload.dated = q.payload.dated
        /\ n.payload.trees = found
    BY <1>q, <2>1 DEF ReaderRegisters, Payload
  <2> HIDE DEF n
  <2> QED
    BY <1>k, <2>2, <2>3 DEF ReadMoves, found
<1>4. CASE Store(r)
  <2>1. NotReading \in ReaderRegisters
    BY DEF NotReading, ReaderRegisters, Payload
  <2>2. Reading(r, NotReading)
    BY <1>4 DEF Store
  <2>3. /\ reader' \in [Readers -> ReaderRegisters]
        /\ \A x \in Readers \ {r} : reader'[x] = reader[x]
        /\ reader'[r] = NotReading
        /\ UNCHANGED <<surveys, request, sent, due>>
    BY <1>k, <2>1, <2>2
  <2> QED
    BY <1>4, <2>3 DEF Store, ReadMoves
<1> QED
  BY <1>1, <1>2, <1>3, <1>4 DEF Read

\* With the sections still in place, their fields are all found.
LEMMA AllFieldsFound ==
  ASSUME NEW s, surveys[s].trees \in SUBSET Tree
  PROVE  {[tree EXCEPT !.keys = FieldsFound(s, tree)] : tree \in surveys[s].trees} = surveys[s].trees
<1>1. \A tree \in surveys[s].trees : [tree EXCEPT !.keys = FieldsFound(s, tree)] = tree
  BY DEF FieldsFound, Tree
<1> QED
  BY <1>1

--------------------------------------------------------------------------------
(* Types.                                                                    *)

\* The types of what SurveyReads adds to SurveyEditing, after a step.
LEMMA ReadsTypeStep ==
  ASSUME ReadsTypeOK, TypeOK', [ReadsNext /\ SerialAdmins']_readVars
  PROVE  ReadsTypeOK'
<1> USE DEF ReadsTypeOK
<1>k. KeepsSurveys
  BY ReadsStepEdits, StepKeepsSurveys
<1>1. CASE UNCHANGED readVars
  BY <1>1 DEF readVars, Exists
<1>2. ASSUME NEW w \in Workers, Administer(w) PROVE ReadsTypeOK'
  <2>1. /\ cache' \in [SurveyIds -> Entry \cup {NoEntry}]
        /\ due' \in [Workers -> SurveyIds \cup {Nil}]
        /\ sent' \subseteq {v \in Workers : At(v, "publish_save")'}
    BY <1>2, SignalsMove
  <2>2. /\ reader' \in [Readers -> ReaderRegisters]
        /\ \A r \in Readers : reader'[r].pc = reader[r].pc /\ reader'[r].id = reader[r].id
    BY <1>2, FetchesNoted DEF Administer
  <2> QED
    BY <1>k, <2>1, <2>2 DEF KeepsSurveys
<1>3. ASSUME NEW r \in Readers, Read(r) PROVE ReadsTypeOK'
  <2>1. /\ reader' \in [Readers -> ReaderRegisters]
        /\ \A x \in Readers \ {r} : reader'[x] = reader[x]
        /\ ReadMoves(r)
        /\ UNCHANGED <<surveys, request, sent, due>>
    BY <1>3, ReaderSteps
  <2>2. cache' \in [SurveyIds -> Entry \cup {NoEntry}]
    <3>1. [payload |-> reader[r].payload, quiet |-> reader[r].quiet] \in Entry
      BY DEF ReaderRegisters, Entry
    <3> QED
      BY <2>1, <3>1 DEF ReadMoves
  <2>3. reader'[r].pc # "idle" => reader'[r].id \in SurveyIds /\ Exists(reader'[r].id)
    BY <2>1 DEF ReadMoves, NotReading
  <2> QED
    BY <2>1, <2>2, <2>3 DEF Exists
<1>4. ASSUME NEW s \in SurveyIds, Expire(s) PROVE ReadsTypeOK'
  BY <1>4 DEF Expire, Invalidate, Exists
<1> QED
  BY <1>1, <1>2, <1>3, <1>4 DEF ReadsNext

\* A publication that has been signalled is one that is still to commit, and a
\* reader is about a survey that exists.
THEOREM ReadsTypeInvariant == ReadsSpec => []ReadsTypeOK
<1>1. ReadsInit /\ TypeOK => ReadsTypeOK
  BY DEF ReadsInit, ReadsTypeOK, NotReading, ReaderRegisters, Payload
<1>2. ReadsTypeOK /\ TypeOK' /\ [ReadsNext /\ SerialAdmins']_readVars => ReadsTypeOK'
  BY ReadsTypeStep
<1> QED
  BY <1>1, <1>2, ReadsRefineEditing, LoadedInvariant, PTL DEF ReadsSpec

--------------------------------------------------------------------------------
(* A read takes its row first: what it says has left the draft status had,   *)
(* by the time the sections and the fields were read, its final tree.        *)

FinalReads ==
  /\ \A r \in Readers :
        LET q == reader[r]
        IN  q.pc # "idle" /\ q.payload.status # "draft" =>
              /\ surveys[q.id].status # "draft"
              /\ q.pc # "sections" => q.payload.trees = surveys[q.id].trees
  /\ \A s \in SurveyIds :
        cache[s] # NoEntry /\ cache[s].payload.status # "draft" =>
          /\ Exists(s) /\ surveys[s].status # "draft"
          /\ cache[s].payload.trees = surveys[s].trees

LEMMA FinalReadsStep ==
  ASSUME ReadsTypeOK, Loaded, FinalReads, [ReadsNext /\ SerialAdmins']_readVars
  PROVE  FinalReads'
<1>t. TypeOK
  BY DEF ReadsTypeOK
<1>1. CASE UNCHANGED readVars
  BY <1>1 DEF readVars, FinalReads, Exists
<1>2. ASSUME NEW w \in Workers, Administer(w) PROVE FinalReads'
  <2>1. ASSUME NEW s \in SurveyIds, Exists(s), surveys[s].status # "draft"
        PROVE  Exists(s)' /\ surveys'[s].status # "draft" /\ surveys'[s].trees = surveys[s].trees
    <3>1. CASE UNCHANGED vars
      BY <2>1, <3>1 DEF vars, Exists
    <3>2. CASE NewRequest(w) \/ Proceed(w) \/ Crash(w)
      <4>1. KeepsSurveys
        BY <1>t, <3>2, StepKeepsSurveys DEF Next
      <4> QED
        BY <1>t, <2>1, <3>2, <4>1, FinalSurvey DEF KeepsSurveys
    <3> QED
      BY <1>2, <3>1, <3>2, AdministersAsEdited
  <2>2. \A r \in Readers : /\ reader'[r].pc = reader[r].pc /\ reader'[r].id = reader[r].id
                           /\ reader'[r].payload = reader[r].payload
    BY <1>2, FetchesNoted DEF Administer, ReadsTypeOK
  <2>3. \A s \in SurveyIds : cache'[s] \in {cache[s], NoEntry}
    BY <1>2, SignalsMove DEF ReadsTypeOK
  <2>4. \A r \in Readers : reader[r].pc # "idle" => reader[r].id \in SurveyIds /\ Exists(reader[r].id)
    BY DEF ReadsTypeOK
  <2> QED
    BY <2>1, <2>2, <2>3, <2>4 DEF FinalReads
<1>3. ASSUME NEW r \in Readers, Read(r) PROVE FinalReads'
  <2>1. /\ \A x \in Readers \ {r} : reader'[x] = reader[x]
        /\ ReadMoves(r)
        /\ UNCHANGED <<surveys, request, sent, due>>
    BY <1>3, ReaderSteps
  <2>2. reader[r].pc # "idle" =>
          /\ reader[r].id \in SurveyIds /\ Exists(reader[r].id)
          /\ surveys[reader[r].id].trees \in SUBSET Tree
    BY <1>t DEF ReadsTypeOK, TypeOK, Exists, Survey
  <2>3. ASSUME reader'[r].pc # "idle", reader'[r].payload.status # "draft"
        PROVE  /\ surveys[reader'[r].id].status # "draft"
               /\ reader'[r].pc # "sections" =>
                    reader'[r].payload.trees = surveys[reader'[r].id].trees
    <3> DEFINE q == reader[r]
               found == {[tree EXCEPT !.keys = FieldsFound(q.id, tree)] : tree \in surveys[q.id].trees}
    <3>1. CASE q.pc = "fields" /\ reader'[r].pc = "store"
      <4>1. /\ surveys[q.id].status # "draft" /\ q.payload.trees = surveys[q.id].trees
            /\ reader'[r].id = q.id
        BY <2>1, <2>3, <3>1 DEF ReadMoves, FinalReads
      <4>2. reader'[r].payload.trees = found
        BY <2>1, <3>1, <4>1 DEF ReadMoves
      <4>3. found = surveys[q.id].trees
        BY <2>2, <3>1, AllFieldsFound
      <4> HIDE DEF found
      <4> QED
        BY <4>1, <4>2, <4>3
    <3>2. CASE ~ (q.pc = "fields" /\ reader'[r].pc = "store")
      BY <2>1, <2>3, <3>2 DEF ReadMoves, FinalReads, NotReading
    <3> QED
      BY <3>1, <3>2
  <2>4. ASSUME NEW s \in SurveyIds, cache'[s] # NoEntry, cache'[s].payload.status # "draft"
        PROVE  /\ Exists(s) /\ surveys[s].status # "draft"
               /\ cache'[s].payload.trees = surveys[s].trees
    <3>1. CASE cache'[s] = cache[s]
      BY <2>4, <3>1 DEF FinalReads
    <3>2. CASE cache'[s] # cache[s]
      <4>1. /\ reader[r].pc = "store" /\ s = reader[r].id
            /\ cache'[s].payload = reader[r].payload
        BY <2>1, <3>2 DEF ReadMoves, ReadsTypeOK
      <4> QED
        BY <2>2, <2>4, <4>1 DEF FinalReads
    <3> QED
      BY <3>1, <3>2
  <2> QED
    BY <2>1, <2>3, <2>4 DEF FinalReads, Exists
<1>4. ASSUME NEW s \in SurveyIds, Expire(s) PROVE FinalReads'
  BY <1>4 DEF Expire, Invalidate, ReadsTypeOK, FinalReads, Exists
<1> QED
  BY <1>1, <1>2, <1>3, <1>4 DEF ReadsNext

\* What is answered, or kept in the cache, as published or archived has the
\* survey's final tree, though it was read in three queries while the survey
\* may have been published, and whatever the age of the entry.
THEOREM FinalReadTheorem == ReadsSpec => []PublishedReadIsFinal
<1>1. ReadsInit => FinalReads
  BY DEF ReadsInit, FinalReads, NotReading
<1>2. ReadsTypeOK /\ Loaded /\ FinalReads /\ [ReadsNext /\ SerialAdmins']_readVars => FinalReads'
  BY FinalReadsStep
<1>3. FinalReads => PublishedReadIsFinal
  BY DEF FinalReads, PublishedReadIsFinal
<1> QED
  BY <1>1, <1>2, <1>3, ReadsTypeInvariant, ReadsRefineEditing, LoadedInvariant, PTL DEF ReadsSpec

--------------------------------------------------------------------------------
(* An entry filled while no administrator was at work.  Its reader saw one    *)
(* state of the survey; a request that begins later and writes the row has    *)
(* sent its signal before its commit, and whoever stores an entry in between  *)
(* was reading while that request was under way.                              *)

QuietReads ==
  /\ \A r \in Readers :
        LET q == reader[r]
        IN  q.pc # "idle" /\ q.quiet =>
              /\ ~ UnderWay(q.id)
              /\ q.payload.status = surveys[q.id].status
              /\ q.payload.dated = surveys[q.id].dated
              /\ q.pc # "sections" => q.payload.trees = surveys[q.id].trees
  /\ \A s \in SurveyIds : cache[s] # NoEntry => Exists(s)
  /\ \A w \in Workers :
        (request[w].pc \in UpdateLocks \/ w \in sent) /\ cache[request[w].id] # NoEntry =>
          ~ cache[request[w].id].quiet
  /\ QuietEntryFresh

\* An update that holds its row has deleted the entry since it began.
LEMMA UpdatesSignalled ==
  ASSUME ReadsTypeOK, NEW w \in Workers, Administer(w),
         NEW v \in Workers, request'[v].pc \in UpdateLocks
  PROVE  request'[v] = request[v] \/ cache'[request'[v].id] = NoEntry
<1>t. TypeOK
  BY DEF ReadsTypeOK
<1> SUFFICES ASSUME request'[v] # request[v] PROVE cache'[request'[v].id] = NoEntry
  OBVIOUS
<1>1. NewRequest(w) \/ Proceed(w) \/ Crash(w)
  BY AdministersAsEdited DEF vars
<1>2. v = w
  BY <1>t, <1>1, OthersUnchanged
<1>3. /\ UpdateSave(w) \/ UpdateSections(w)
      /\ request'[w].id = request[w].id
  BY <1>t, <1>1, <1>2, NextStep DEF Idle, UpdateLocks
<1>4. request[w].id \in SurveyIds /\ request[w].pc \in {"update_save", "update_sections"}
  BY <1>t, <1>3, SurveyOf DEF UpdateSave, UpdateSections, Busy
<1>5. ~ EditQuietly(w) /\ ~ PublishSignal(w) /\ ~ PublishEnds(w) /\ ~ ArchiveEnds(w)
  BY <1>4 DEF EditQuietly, NewRequest, CreateSurvey, Refuse, UpdateLoad, PublishLoad,
              ArchiveLoad, ForkLoad, Busy, ForkVersion, ForkInsert, ForkSections, ForkCommit,
              PublishSignal, PublishEnds, PublishSave, ArchiveEnds, ArchiveSave
<1>6. request'[w] # Idle
  BY <1>2 DEF Idle, UpdateLocks
<1>7. ~ UpdateEnds(w) /\ ~ Crash(w)
  BY <1>t, <1>6 DEF UpdateEnds, UpdateCommit, Crash, Finish, TypeOK
<1>8. UpdateSignal(w)
  BY <1>2, <1>5, <1>7 DEF Administer, ArchiveSignal, Lost
<1> QED
  BY <1>2, <1>3, <1>4, <1>8 DEF UpdateSignal, Invalidate, ReadsTypeOK

\* The row of a survey changes in a transaction that has signalled it, or it is archived.
LEMMA RowsSignalled ==
  ASSUME ReadsTypeOK, NEW w \in Workers, Administer(w),
         NEW s \in SurveyIds, Exists(s), surveys'[s] # surveys[s]
  PROVE  /\ request[w].id = s /\ UnderWay(s)
         /\ \/ request[w].pc \in UpdateLocks \/ w \in sent
            \/ surveys'[s] = [surveys[s] EXCEPT !.status = "archived"]
<1>t. TypeOK
  BY DEF ReadsTypeOK
<1>1. /\ UpdateCommit(w) \/ PublishSave(w) \/ ArchiveSave(w)
      /\ request[w].id = s /\ Busy(w)
  BY <1>t, AdministersAsEdited, RowWritten DEF vars
<1>2. CASE UpdateCommit(w)
  BY <1>1, <1>2 DEF UpdateCommit, UpdateLocks, UnderWay
<1>3. CASE ArchiveSave(w)
  BY <1>t, <1>1, <1>3 DEF ArchiveSave, UnderWay, TypeOK
<1>4. CASE PublishSave(w)
  <2>1. At(w, "publish_save") /\ Busy(w)
    BY <1>1, <1>4 DEF PublishSave
  <2>2. ~ EditQuietly(w) /\ ~ UpdateSignal(w) /\ ~ UpdateEnds(w) /\ ~ ArchiveEnds(w)
    BY <2>1 DEF EditQuietly, NewRequest, CreateSurvey, Refuse, UpdateLoad, PublishLoad,
                ArchiveLoad, ForkLoad, Busy, ForkVersion, ForkInsert, ForkSections, ForkCommit,
                UpdateSignal, UpdateSave, UpdateSections, UpdateEnds, UpdateCommit,
                ArchiveEnds, ArchiveSave
  <2>3. ~ PublishSignal(w) /\ ~ ArchiveSignal(w) /\ ~ Lost(w)
    BY DEF PublishSignal, ArchiveSignal, Lost, Crash
  <2>4. w \in sent
    BY <2>2, <2>3 DEF Administer, PublishEnds
  <2> QED
    BY <1>1, <2>4 DEF UnderWay
<1> QED
  BY <1>1, <1>2, <1>3, <1>4

LEMMA QuietAdminStep ==
  ASSUME ReadsTypeOK, QuietReads, NEW w \in Workers, Administer(w)
  PROVE  QuietReads'
<1>t. TypeOK
  BY DEF ReadsTypeOK
<1>1. \A s \in SurveyIds : Exists(s) => Exists(s)'
  BY <1>t, AdministersAsEdited, StepKeepsSurveys DEF KeepsSurveys, Next, vars, Exists
<1>2. \A s \in SurveyIds : cache'[s] \in {cache[s], NoEntry}
  BY <1>t, SignalsMove DEF ReadsTypeOK
<1>3. ASSUME NEW r \in Readers, reader'[r].pc # "idle", reader'[r].quiet
      PROVE  /\ ~ UnderWay(reader[r].id)'
             /\ reader'[r].payload.status = surveys'[reader'[r].id].status
             /\ reader'[r].payload.dated = surveys'[reader'[r].id].dated
             /\ reader'[r].pc # "sections" =>
                  reader'[r].payload.trees = surveys'[reader'[r].id].trees
  <2>1. /\ reader'[r].pc = reader[r].pc /\ reader'[r].id = reader[r].id
        /\ reader'[r].payload = reader[r].payload
        /\ reader[r].quiet /\ \A s \in SurveyIds : reader[r].id = s => ~ UnderWay(s)'
    BY <1>3, FetchesNoted DEF Administer, ReadsTypeOK
  <2>2. reader[r].id \in SurveyIds /\ Exists(reader[r].id) /\ ~ UnderWay(reader[r].id)
    BY <1>3, <2>1 DEF ReadsTypeOK, QuietReads
  <2>3. surveys'[reader[r].id] = surveys[reader[r].id]
    BY <2>2, RowsSignalled
  <2> QED
    BY <1>3, <2>1, <2>2, <2>3 DEF QuietReads
<1>4. ASSUME NEW v \in Workers, request'[v].pc \in UpdateLocks \/ v \in sent',
             cache'[request'[v].id] # NoEntry
      PROVE  ~ cache'[request'[v].id].quiet
  <2>1. request'[v] = request[v] /\ (request[v].pc \in UpdateLocks \/ v \in sent)
    BY <1>4, <1>t, UpdatesSignalled, SignalsMove DEF ReadsTypeOK
  <2>2. request[v].id \in SurveyIds
    BY <1>t, <2>1, SurveyOf DEF Busy, UpdateLocks, ReadsTypeOK
  <2> QED
    BY <1>2, <1>4, <2>1, <2>2 DEF QuietReads
<1>5. ASSUME NEW s \in SurveyIds, cache'[s] # NoEntry, cache'[s].quiet
      PROVE  \/ cache'[s].payload = PayloadOf(s)'
             \/ /\ surveys'[s].status = "archived"
                /\ [cache'[s].payload EXCEPT !.status = "archived"] = PayloadOf(s)'
  <2>1. cache'[s] = cache[s] /\ cache[s] # NoEntry /\ Exists(s)
    BY <1>2, <1>5 DEF QuietReads
  <2>2. \/ cache[s].payload = PayloadOf(s)
        \/ /\ surveys[s].status = "archived"
           /\ [cache[s].payload EXCEPT !.status = "archived"] = PayloadOf(s)
    BY <1>5, <2>1 DEF QuietReads, QuietEntryFresh
  <2>3. CASE surveys'[s] = surveys[s]
    BY <2>1, <2>2, <2>3 DEF PayloadOf
  <2>4. CASE surveys'[s] # surveys[s]
    <3>1. surveys'[s] = [surveys[s] EXCEPT !.status = "archived"]
      BY <1>5, <2>1, <2>4, RowsSignalled DEF QuietReads
    <3>2. surveys[s] \in Survey
      BY <1>t, <2>1 DEF TypeOK, Exists
    <3>3. /\ surveys'[s].status = "archived" /\ surveys'[s].dated = surveys[s].dated
          /\ surveys'[s].trees = surveys[s].trees
      BY <3>1, <3>2 DEF Survey
    <3>4. [PayloadOf(s) EXCEPT !.status = "archived"] = PayloadOf(s)'
      BY <3>3 DEF PayloadOf
    <3>5. CASE cache[s].payload = PayloadOf(s)
      BY <2>1, <3>3, <3>4, <3>5
    <3>6. CASE [cache[s].payload EXCEPT !.status = "archived"] = PayloadOf(s)
      <4>1. PayloadOf(s)' = PayloadOf(s)
        <5>1. surveys[s].status = "archived"
          BY <2>2, <3>6, <3>5 DEF PayloadOf
        <5> QED
          BY <3>3, <5>1 DEF PayloadOf
      <4> QED
        BY <2>1, <3>3, <3>6, <4>1
    <3> QED
      BY <2>2, <3>5, <3>6
  <2> QED
    BY <2>3, <2>4
<1> QED
  BY <1>1, <1>2, <1>3, <1>4, <1>5 DEF QuietReads, QuietEntryFresh

LEMMA QuietReaderStep ==
  ASSUME ReadsTypeOK, QuietReads, NEW r \in Readers, Read(r)
  PROVE  QuietReads'
<1> DEFINE q == reader[r]
<1>t. TypeOK
  BY DEF ReadsTypeOK
<1>1. /\ reader' \in [Readers -> ReaderRegisters]
      /\ \A x \in Readers \ {r} : reader'[x] = reader[x]
      /\ ReadMoves(r)
      /\ UNCHANGED <<surveys, request, sent, due>>
  BY ReaderSteps
<1>2. \A s : UnderWay(s)' <=> UnderWay(s)
  BY <1>1 DEF UnderWay, Busy
<1>3. q.pc # "idle" =>
        /\ q.id \in SurveyIds /\ Exists(q.id)
        /\ surveys[q.id].trees \in SUBSET Tree
  BY <1>t DEF ReadsTypeOK, TypeOK, Exists, Survey
<1>4. ASSUME reader'[r].pc # "idle", reader'[r].quiet
      PROVE  /\ ~ UnderWay(reader'[r].id)
             /\ reader'[r].payload.status = surveys[reader'[r].id].status
             /\ reader'[r].payload.dated = surveys[reader'[r].id].dated
             /\ reader'[r].pc # "sections" =>
                  reader'[r].payload.trees = surveys[reader'[r].id].trees
  <2> DEFINE found == {[tree EXCEPT !.keys = FieldsFound(q.id, tree)] : tree \in surveys[q.id].trees}
  <2> HIDE DEF found
  <2>1. CASE q.pc = "fields" /\ reader'[r].pc = "store"
    <3> USE DEF found
    <3>1. /\ ~ UnderWay(q.id)
          /\ q.payload.status = surveys[q.id].status /\ q.payload.dated = surveys[q.id].dated
          /\ q.payload.trees = surveys[q.id].trees
          /\ reader'[r].id = q.id
          /\ reader'[r].payload.status = q.payload.status
          /\ reader'[r].payload.dated = q.payload.dated
      BY <1>1, <1>4, <2>1 DEF ReadMoves, QuietReads
    <3>2. reader'[r].payload.trees = found
      BY <1>1, <2>1, <3>1 DEF ReadMoves
    <3>3. found = surveys[q.id].trees
      BY <1>3, <2>1, AllFieldsFound
    <3> HIDE DEF found
    <3> QED
      BY <3>1, <3>2, <3>3
  <2>2. CASE reader'[r].pc = "sections"
    BY <1>1, <1>4, <2>2 DEF ReadMoves, NotReading
  <2>3. CASE q.pc = "sections" /\ reader'[r].pc = "fields"
    BY <1>1, <1>4, <2>3 DEF ReadMoves, QuietReads
  <2>4. reader'[r] # NotReading
    BY <1>4 DEF NotReading
  <2> QED
    BY <1>1, <2>1, <2>2, <2>3, <2>4 DEF ReadMoves
<1>5. ASSUME NEW s \in SurveyIds, cache'[s] # cache[s]
      PROVE  /\ q.pc = "store" /\ s = q.id
             /\ cache'[s].payload = q.payload /\ cache'[s].quiet = q.quiet
  BY <1>1, <1>5 DEF ReadMoves, ReadsTypeOK
<1>6. ASSUME NEW s \in SurveyIds, cache'[s] # cache[s], cache'[s].quiet
      PROVE  ~ UnderWay(s) /\ cache'[s].payload = PayloadOf(s)
  <2>1. /\ q.payload \in Payload /\ q.quiet /\ q.pc = "store" /\ s = q.id
        /\ cache'[s].payload = q.payload
    BY <1>5, <1>6 DEF ReadsTypeOK, ReaderRegisters
  <2>2. /\ q.payload.status = surveys[s].status /\ q.payload.dated = surveys[s].dated
        /\ q.payload.trees = surveys[s].trees /\ ~ UnderWay(s)
    BY <2>1 DEF QuietReads
  <2> QED
    BY <2>1, <2>2 DEF Payload, PayloadOf
<1>7. ASSUME NEW w \in Workers, request[w].pc \in UpdateLocks \/ w \in sent,
             cache'[request[w].id] # NoEntry
      PROVE  ~ cache'[request[w].id].quiet
  <2>1. request[w].id \in SurveyIds /\ UnderWay(request[w].id)
    BY <1>t, <1>7, SurveyOf DEF Busy, UpdateLocks, ReadsTypeOK, UnderWay
  <2> QED
    BY <1>6, <1>7, <2>1 DEF QuietReads
<1>8. ASSUME NEW s \in SurveyIds, cache'[s] # NoEntry PROVE Exists(s)
  BY <1>3, <1>5, <1>8 DEF QuietReads
<1>9. QuietEntryFresh'
  <2> SUFFICES ASSUME NEW s \in SurveyIds, cache'[s] # NoEntry, cache'[s].quiet
               PROVE  \/ cache'[s].payload = PayloadOf(s)
                      \/ /\ surveys[s].status = "archived"
                         /\ [cache'[s].payload EXCEPT !.status = "archived"] = PayloadOf(s)
    BY <1>1 DEF QuietEntryFresh, PayloadOf
  <2> QED
    BY <1>6 DEF QuietReads, QuietEntryFresh
<1>10. \A x \in Readers : reader'[x].pc # "idle" /\ reader'[x].quiet =>
         /\ ~ UnderWay(reader'[x].id)
         /\ reader'[x].payload.status = surveys[reader'[x].id].status
         /\ reader'[x].payload.dated = surveys[reader'[x].id].dated
         /\ reader'[x].pc # "sections" =>
              reader'[x].payload.trees = surveys[reader'[x].id].trees
  BY <1>1, <1>4 DEF QuietReads
<1>11. \A x \in Readers : UnderWay(reader[x].id)' <=> UnderWay(reader'[x].id)
  BY <1>1 DEF UnderWay, Busy
<1> QED
  BY <1>1, <1>7, <1>8, <1>9, <1>10, <1>11 DEF QuietReads, Exists

\* An entry filled while no administrator was at work on the survey is fresh
\* until it goes, but for an archival.
THEOREM QuietTheorem == ReadsSpec => []QuietEntryFresh
<1>1. ReadsInit => QuietReads
  BY DEF ReadsInit, Init, Idle, UpdateLocks, QuietReads, QuietEntryFresh, NotReading
<1>2. ReadsTypeOK /\ QuietReads /\ [ReadsNext /\ SerialAdmins']_readVars => QuietReads'
  <2> SUFFICES ASSUME ReadsTypeOK, QuietReads, [ReadsNext /\ SerialAdmins']_readVars
               PROVE  QuietReads'
    OBVIOUS
  <2>1. CASE UNCHANGED readVars
    BY <2>1 DEF readVars, QuietReads, QuietEntryFresh, PayloadOf, UnderWay, Busy, Exists
  <2>2. ASSUME NEW s \in SurveyIds, Expire(s) PROVE QuietReads'
    BY <2>2 DEF Expire, Invalidate, ReadsTypeOK, QuietReads, QuietEntryFresh, PayloadOf,
                UnderWay, Busy, Exists
  <2> QED
    BY <2>1, <2>2, QuietAdminStep, QuietReaderStep DEF ReadsNext
<1>3. QuietReads => QuietEntryFresh
  BY DEF QuietReads
<1> QED
  BY <1>1, <1>2, <1>3, ReadsTypeInvariant, PTL DEF ReadsSpec

================================================================================
