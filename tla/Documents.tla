------------------------------ MODULE Documents ------------------------------
(***************************************************************************)
(* The documents of one user: the Qdrant collection that is searched, the  *)
(* table that is listed and the cache of retrievals, as uploads (in the    *)
(* request or as a job), questions and wipes change them one command at a  *)
(* time.  The chunks of an upload are written by one call and stand here   *)
(* as one point, the upload itself.                                        *)
(***************************************************************************)
EXTENDS Integers

CONSTANTS
  Uploads,                  \* uploads, each made once
  Queries, Wipes,           \* clients that ask and wipe, again and again
  Names,                    \* file names
  Containing,               \* of a name, the names it is a substring of
  CacheTTL,                 \* _RAG_CACHE_TTL, in ticks
  SearchTicks,              \* longest time from a search to the SETEX of its text
  MaxFaults                 \* commands that fail, a bound of the model

VARIABLES
  exists,    \* the collection exists
  points,    \* the uploads it holds
  rows,      \* user_documents, by upload
  cached,    \* rag_cache of the question asked: the uploads its text is from
  cacheTTL,  \* its time to live, 0 when it is not there
  job,       \* ingest_job:<id> of an upload made as a job
  pc,        \* the next command of each request
  found,     \* what the search of a question returned: the uploads its text is from
  since,     \* the time since that search
  name,      \* the file name of an upload
  old,       \* the points its versioning has found
  faults,
  \* history
  told,      \* what the client of an upload was told
  why,       \* why a point is no longer there
  goneFor    \* and, while a text of it is around, for how long; Long without such

store == <<exists, points, rows, cached, cacheTTL>>
asking == <<found, since>>
vars == <<store, asking, job, pc, name, old, faults, told, why, goneFor>>

Clients == Uploads \cup Queries \cup Wipes

Openers == Uploads \cup Queries

Long == CacheTTL + SearchTicks + 1

TypeOK ==
  /\ exists \in BOOLEAN
  /\ points \subseteq Uploads
  /\ rows \subseteq Uploads
  /\ cached \subseteq Uploads
  /\ cacheTTL \in 0..CacheTTL
  /\ job \in [Uploads -> {"none", "queued", "processing", "completed", "failed"}]
  /\ pc \in [Clients -> {"new", "queued", "scroll", "deleteOld", "lookup", "open",
                          "check", "drop", "create", "add", "search", "store", "row",
                          "wipeCheck", "wipe", "wipeRows", "end"}]
  /\ found \in [Queries -> SUBSET Uploads]
  /\ since \in [Queries -> 0..SearchTicks]
  /\ name \in [Uploads -> Names]
  /\ old \in [Uploads -> SUBSET Uploads]
  /\ faults \in 0..MaxFaults
  /\ told \in [Uploads -> {"none", "accepted", "done", "failed"}]
  /\ why \in [Uploads -> {"", "versioned", "wiped", "recreated"}]
  /\ goneFor \in [Uploads -> 0..Long]

Init ==
  /\ exists = FALSE
  /\ points = {}
  /\ rows = {}
  /\ cached = {}
  /\ cacheTTL = 0
  /\ job = [u \in Uploads |-> "none"]
  /\ pc = [r \in Clients |-> "new"]
  /\ found = [q \in Queries |-> {}]
  /\ since = [q \in Queries |-> 0]
  /\ name \in [Uploads -> Names]
  /\ old = [u \in Uploads |-> {}]
  /\ faults = 0
  /\ told = [u \in Uploads |-> "none"]
  /\ why = [u \in Uploads |-> ""]
  /\ goneFor = [u \in Uploads |-> Long]

-----------------------------------------------------------------------------
Goto(r, label) == pc' = [pc EXCEPT ![r] = label]

Told(r, what) == told' = [told EXCEPT ![r] = what]

\* The uploads of which a text is cached or will be.
Around == cached \cup UNION {found[q] : q \in Queries}

Remove(set, reason) ==
  /\ points' = points \ set
  /\ why' = [u \in Uploads |-> IF u \in set \cap points THEN reason ELSE why[u]]
  /\ goneFor' = [u \in Uploads |-> IF u \in set \cap points \cap Around THEN 0 ELSE goneFor[u]]

IsJob(u) == job[u] # "none"

\* An upload ends: the status of the job is written, or the client is told.
Finish(u, what) ==
  /\ Goto(u, "end")
  /\ IF IsJob(u)
     THEN /\ job' = [job EXCEPT ![u] = IF what = "done" THEN "completed" ELSE "failed"]
          /\ UNCHANGED told
     ELSE Told(u, what) /\ UNCHANGED job

\* A question or a wipe ends and may be made again.
Return(r) == Goto(r, "new") /\ UNCHANGED <<told, job>>

\* POST /api/ingest: after the extraction of the text, which may refuse it.
Upload(u) ==
  /\ pc[u] = "new"
  /\ \/ Goto(u, "scroll") /\ UNCHANGED <<told, job>>
     \/ Finish(u, "failed")
  /\ UNCHANGED <<store, asking, name, old, faults, why, goneFor>>

\* POST /api/ingest/async: the job is queued and the client told so.
UploadAsync(u) ==
  /\ pc[u] = "new"
  /\ job' = [job EXCEPT ![u] = "queued"]
  /\ Goto(u, "queued")
  /\ Told(u, "accepted")
  /\ UNCHANGED <<store, asking, name, old, faults, why, goneFor>>

\* _run_ingest_job up to the extraction; it has no versioning.
StartJob(u) ==
  /\ pc[u] = "queued"
  /\ \/ /\ job' = [job EXCEPT ![u] = "processing"]
        /\ Goto(u, "open")
        /\ UNCHANGED told
     \/ Finish(u, "failed")
  /\ UNCHANGED <<store, asking, name, old, faults, why, goneFor>>

\* Versioning: scroll, and the points whose file name contains this one.
ScrollOld(u) ==
  /\ pc[u] = "scroll"
  /\ old' = [old EXCEPT ![u] = {v \in points : name[v] \in Containing[name[u]]}]
  /\ Goto(u, "deleteOld")
  /\ UNCHANGED <<store, asking, job, name, faults, told, why, goneFor>>

\* Versioning: the points found are deleted, by their ids; a failure of it is
\* only logged.
DeleteOld(u) ==
  /\ pc[u] = "deleteOld"
  /\ \/ Remove(old[u], "versioned") /\ UNCHANGED faults
     \/ faults < MaxFaults /\ faults' = faults + 1 /\ UNCHANGED <<points, why, goneFor>>
  /\ old' = [old EXCEPT ![u] = {}]
  /\ Goto(u, "open")
  /\ UNCHANGED <<exists, rows, cached, cacheTTL, job, name, told, asking>>

-----------------------------------------------------------------------------
(* get_user_vectorstore                                                    *)

Opened(r) == IF r \in Uploads THEN "add" ELSE "search"

\* from_existing_collection raises without a collection, with one of another
\* dimension, and when Qdrant or the embedding model does not answer.
Open(r) ==
  /\ pc[r] = "open"
  /\ Goto(r, IF exists THEN Opened(r) ELSE "check")
  /\ UNCHANGED <<store, asking, job, name, old, faults, told, why, goneFor>>

OpenFails(r) ==
  /\ pc[r] = "open"
  /\ faults < MaxFaults
  /\ faults' = faults + 1
  /\ Goto(r, "check")
  /\ UNCHANGED <<store, asking, job, name, old, told, why, goneFor>>

\* collection_exists.
CheckCollection(r) ==
  /\ pc[r] = "check"
  /\ Goto(r, IF exists THEN "drop" ELSE "create")
  /\ UNCHANGED <<store, asking, job, name, old, faults, told, why, goneFor>>

\* delete_collection, with whatever the collection holds by now.
DropCollection(r) ==
  /\ pc[r] = "drop"
  /\ exists' = FALSE
  /\ Remove(points, "recreated")
  /\ Goto(r, "create")
  /\ UNCHANGED <<rows, cached, cacheTTL, job, name, old, faults, told, asking>>

\* create_collection raises when somebody else has created it meanwhile; then
\* an upload fails and a retrieval finds nothing.
CreateCollection(r) ==
  /\ pc[r] = "create"
  /\ IF exists
     THEN /\ IF r \in Uploads THEN Finish(r, "failed") ELSE Return(r)
          /\ UNCHANGED exists
     ELSE exists' = TRUE /\ Goto(r, Opened(r)) /\ UNCHANGED <<told, job>>
  /\ UNCHANGED <<points, rows, cached, cacheTTL, name, old, faults, why, goneFor, asking>>

\* Mutant: a failing index is taken for a summary that failed.
AddQuietly(u) ==
  /\ pc[u] = "add"
  /\ \/ exists /\ points' = points \cup {u}
     \/ UNCHANGED points
  /\ Goto(u, "row")
  /\ UNCHANGED <<exists, rows, cached, cacheTTL, asking, job, name, old, faults, told, why,
                 goneFor>>

\* add_documents: embeds and writes the chunks.
AddDocuments(u) ==
  /\ pc[u] = "add"
  /\ IF exists
     THEN points' = points \cup {u} /\ Goto(u, "row") /\ UNCHANGED <<told, job>>
     ELSE Finish(u, "failed") /\ UNCHANGED points
  /\ UNCHANGED <<exists, rows, cached, cacheTTL, name, old, faults, why, goneFor, asking>>

AddFails(u) ==
  /\ pc[u] = "add"
  /\ faults < MaxFaults
  /\ faults' = faults + 1
  /\ Finish(u, "failed")
  /\ UNCHANGED <<store, asking, name, old, why, goneFor>>

\* INSERT INTO user_documents, whose failure is only logged; the summary before
\* it and the backup after it change nothing that is read again.
InsertRow(u) ==
  /\ pc[u] = "row"
  /\ \/ rows' = rows \cup {u} /\ UNCHANGED faults
     \/ faults < MaxFaults /\ faults' = faults + 1 /\ UNCHANGED rows
  /\ Finish(u, "done")
  /\ UNCHANGED <<exists, points, cached, cacheTTL, name, old, why, goneFor, asking>>

-----------------------------------------------------------------------------
(* Questions and wipes                                                     *)

\* A question of the user reaches the tool rag.
Ask(r) ==
  /\ pc[r] = "new"
  /\ Goto(r, "lookup")
  /\ UNCHANGED <<store, asking, job, name, old, faults, told, why, goneFor>>

\* Mutant: every question renews the cached text.
LookupRenewing(r) ==
  /\ pc[r] = "lookup"
  /\ IF cacheTTL > 0
     THEN Return(r) /\ cacheTTL' = CacheTTL
     ELSE Goto(r, "open") /\ UNCHANGED <<told, job, cacheTTL>>
  /\ UNCHANGED <<exists, points, rows, cached, name, old, faults, why, goneFor, asking>>

\* retrieve_documents: the text of an earlier retrieval, without a look at the
\* documents; else the collection is opened.
LookupCache(r) ==
  /\ pc[r] = "lookup"
  /\ IF cacheTTL > 0 THEN Return(r) ELSE Goto(r, "open") /\ UNCHANGED <<told, job>>
  /\ UNCHANGED <<store, asking, name, old, faults, why, goneFor>>

\* The search in Qdrant, by file name or by similarity.  An empty result ends the
\* question, and so does an error in it or in the ranking of what it found.
Search(q) ==
  /\ pc[q] = "search"
  /\ \/ Return(q) /\ UNCHANGED asking
     \/ \E docs \in SUBSET points \ {{}} :
          /\ found' = [found EXCEPT ![q] = docs]
          /\ since' = [since EXCEPT ![q] = 0]
          /\ Goto(q, "store")
          /\ UNCHANGED <<told, job>>
  /\ UNCHANGED <<store, name, old, faults, why, goneFor>>

\* SETEX of the text, which is the answer also when that fails.
Store(q) ==
  /\ pc[q] = "store"
  /\ \/ cached' = found[q] /\ cacheTTL' = CacheTTL /\ UNCHANGED faults
     \/ faults < MaxFaults /\ faults' = faults + 1 /\ UNCHANGED <<cached, cacheTTL>>
  /\ found' = [found EXCEPT ![q] = {}]
  /\ since' = [since EXCEPT ![q] = 0]
  /\ goneFor' = [u \in Uploads |-> IF u \in Around' THEN goneFor[u] ELSE Long]
  /\ Return(q)
  /\ UNCHANGED <<exists, points, rows, name, old, why>>

\* DELETE /api/documents.
Wipe(w) ==
  /\ pc[w] = "new"
  /\ Goto(w, "wipeCheck")
  /\ UNCHANGED <<store, asking, job, name, old, faults, told, why, goneFor>>

\* delete_user_collection: an exception is logged and its result not looked at.
WipeCheck(w) ==
  /\ pc[w] = "wipeCheck"
  /\ \/ Goto(w, IF exists THEN "wipe" ELSE "wipeRows") /\ UNCHANGED faults
     \/ faults < MaxFaults /\ faults' = faults + 1 /\ Goto(w, "wipeRows")
  /\ UNCHANGED <<store, asking, job, name, old, told, why, goneFor>>

WipeCollection(w) ==
  /\ pc[w] = "wipe"
  /\ exists' = FALSE
  /\ Remove(points, "wiped")
  /\ Goto(w, "wipeRows")
  /\ UNCHANGED <<rows, cached, cacheTTL, job, name, old, faults, told, asking>>

\* DELETE FROM user_documents: only its failure is told.
WipeRows(w) ==
  /\ pc[w] = "wipeRows"
  /\ \/ rows' = {} /\ UNCHANGED faults
     \/ faults < MaxFaults /\ faults' = faults + 1 /\ UNCHANGED rows
  /\ Return(w)
  /\ UNCHANGED <<exists, points, cached, cacheTTL, name, old, why, goneFor, asking>>

\* Time passes; the cached text expires.
Tick ==
  /\ cacheTTL > 0 \/ \E q \in Queries : pc[q] = "store"
  /\ \A q \in Queries : pc[q] = "store" => since[q] < SearchTicks
  /\ cacheTTL' = IF cacheTTL > 0 THEN cacheTTL - 1 ELSE 0
  /\ cached' = IF cacheTTL <= 1 THEN {} ELSE cached
  /\ since' = [q \in Queries |-> IF pc[q] = "store" THEN since[q] + 1 ELSE since[q]]
  /\ UNCHANGED <<exists, points, rows, found, job, pc, name, old, faults, told, why>>
  /\ goneFor' = [u \in Uploads |-> IF u \in Around' /\ goneFor[u] < Long
                                  THEN goneFor[u] + 1 ELSE Long]

GetVectorstore(r) == Open(r) \/ CheckCollection(r) \/ DropCollection(r) \/ CreateCollection(r)

Step(u) ==
  \/ StartJob(u) \/ ScrollOld(u) \/ DeleteOld(u) \/ GetVectorstore(u)
  \/ AddDocuments(u) \/ InsertRow(u)

Next ==
  \/ \E u \in Uploads : Upload(u) \/ UploadAsync(u) \/ Step(u) \/ AddFails(u)
  \/ \E q \in Queries : Ask(q) \/ LookupCache(q) \/ GetVectorstore(q) \/ Search(q) \/ Store(q)
  \/ \E r \in Openers : OpenFails(r)
  \/ \E w \in Wipes : Wipe(w) \/ WipeCheck(w) \/ WipeCollection(w) \/ WipeRows(w)
  \/ Tick

Spec == Init /\ [][Next]_vars

-----------------------------------------------------------------------------
\* An upload that was reported as indexed can be searched, until the user wipes
\* the documents or uploads a name it contains, or a collection that could not
\* be opened is recreated.
IndexedIsSearchable ==
  \A u \in Uploads : told[u] = "done" \/ job[u] = "completed" => u \in points \/ why[u] # ""

\* A question is answered with a document that is gone for no longer than its own
\* search takes, and from the cache for no longer than the cache keeps a text that
\* was searched just before: however often it is asked, and although a wipe between
\* a search and its SETEX stores what is gone already.
StaleTextExpires ==
  [][ \A q \in Queries : pc'[q] = "new" =>
        /\ pc[q] = "store" => \A u \in found[q] \ points : goneFor[u] <= SearchTicks
        /\ pc[q] = "lookup" =>
             \A u \in cached \ points : goneFor[u] < CacheTTL + SearchTicks ]_vars

\* "Si la colección tiene un error de dimensiones (mismatch), la elimina y
\* recrea": a question never removes documents from a sound collection.
QuestionKeepsDocuments ==
  [][ \A q \in Queries : pc'[q] # pc[q] => points \subseteq points' ]_vars

\* "eliminar chunks previos del mismo filename".
VersioningKeepsOthers ==
  [][ \A u \in Uploads : pc[u] = "deleteOld" /\ pc'[u] # "deleteOld" =>
        \A v \in points \ points' : name[v] = name[u] ]_vars
=============================================================================
