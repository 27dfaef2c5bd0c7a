-------------------------- MODULE DocumentIngestion --------------------------
(***************************************************************************)
(* DocumentIngestionWorkflow and RAGQueryWorkflow over the documents and   *)
(* document_chunks tables, the vector store and the one client in front of *)
(* it.  Runs of both kinds share a worker, its tables and its breaker.     *)
(*                                                                         *)
(* An activity is attempted at most MaxAttempts times.  A lost attempt may *)
(* have written a part of what it writes, or all of it.  An attempt that   *)
(* the breaker refuses is used up, too.                                    *)
(***************************************************************************)
EXTENDS CircuitBreaker, Integers, FiniteSets

CONSTANTS
    Runs,         \* ingestions
    Queries,      \* retrievals
    Contents,     \* texts, told apart by their hash, of one tenant
    Size,         \* [Contents -> Nat]: chunks ChunkText makes; none of a blank text
    BatchSize,    \* points in one Upsert: 20
    TopK,         \* hits of one search
    MaxAttempts,  \* RetryPolicy.MaximumAttempts: 3
    MaxFaults     \* bound: lost attempts, failed calls and restarts

ASSUME IngestionAssumption ==
    /\ Runs \cap Queries = {} /\ Size \in [Contents -> Nat]
    /\ BatchSize \in Nat \ {0} /\ MaxAttempts \in Nat \ {0} /\ TopK \in Nat /\ MaxFaults \in Nat

VARIABLES
    content,   \* what each run ingests
    status,    \* documents.status of a content, "none" without a row
    chunks,    \* document_chunks: the rows; a row is <<content, run, attempt, chunk_index>>
    indexed,   \* the rows with status 'indexed', the others are 'pending'
    points,    \* points of the vector store, by the id of their row
    stage,     \* where a workflow is
    tries,     \* failed attempts of its current activity
    listed,    \* pending chunks the attempt of a run works on
    todo,      \* those not yet upserted
    flying,    \* runs and queries whose call is on its way to the vector store
    hits,      \* chunk ids a query has found
    cited,     \* chunk ids whose text the query returns
    result,    \* what a workflow returned
    faults

tables  == <<status, chunks, indexed>>
attempt == <<listed, todo>>
answer  == <<hits, cited>>
vars    == <<breakerVars, content, tables, points, stage, tries, attempt, flying, answer, result,
             faults>>

-----------------------------------------------------------------------------
Clients  == Runs \cup Queries
Stages   == {"save", "create", "chunk", "embed", "upsert", "mark", "status", "mark_failed",
             "search", "fetch", "pack", "ended"}
Statuses == {"none", "pending", "chunked", "indexed"}
Results  == {"none", "duplicate", "indexed", "unsaved", "empty", "answered", "error"}

Doc(row)   == row[1]
Maker(row) == row[2]
Index(row) == row[4]
NewRows(r) == {<<content[r], r, tries[r], i>> : i \in 1..Size[content[r]]}

\* The parts of S that a loop in the order of chunk_index may have got through.
Leading(S) == {P \in SUBSET S : \A x \in P, y \in S \ P : Index(x) <= Index(y)}

Init ==
    /\ BreakerInit
    /\ content \in [Runs -> Contents]
    /\ status = [c \in Contents |-> "none"] /\ chunks = {} /\ indexed = {} /\ points = {}
    /\ stage = [c \in Clients |-> IF c \in Runs THEN "save" ELSE "search"]
    /\ tries = [c \in Clients |-> 0] /\ result = [c \in Clients |-> "none"]
    /\ listed = [r \in Runs |-> {}] /\ todo = [r \in Runs |-> {}]
    /\ hits = [q \in Queries |-> {}] /\ cited = [q \in Queries |-> {}]
    /\ flying = {} /\ faults = 0

-----------------------------------------------------------------------------
(* The end of an attempt *)

\* Where the next attempt of the activity starts.
FirstStage(s) ==
    CASE s = "create" -> "save"
      [] s \in {"upsert", "mark"} -> "embed"
      [] OTHER -> s

\* Where the workflow goes when an activity has failed for good.
AfterFailure(s) == IF s \in {"chunk", "embed", "upsert", "mark"} THEN "mark_failed" ELSE "ended"

\* Mutant: without MaximumAttempts a failed attempt is followed by another one.
Uncounted(c) == tries[c]

Tried(c) == tries[c] + 1

LastTry(c) == Tried(c) = MaxAttempts

\* The error of the last status update is only logged.
Fails(C) ==
    /\ stage' = [c \in Clients |->
          IF c \notin C THEN stage[c]
          ELSE IF LastTry(c) THEN AfterFailure(stage[c]) ELSE FirstStage(stage[c])]
    /\ tries' = [c \in Clients |->
          IF c \notin C THEN tries[c] ELSE IF LastTry(c) THEN 0 ELSE Tried(c)]
    /\ result' = [c \in Clients |->
          IF c \notin C \/ ~LastTry(c) \/ stage[c] = "mark_failed" THEN result[c]
          ELSE IF stage[c] = "status" THEN "unsaved" ELSE "error"]

Fault == faults < MaxFaults /\ faults' = faults + 1

GoTo(c, s) == stage' = [stage EXCEPT ![c] = s] /\ UNCHANGED tries
Succeeds(c, s) == stage' = [stage EXCEPT ![c] = s] /\ tries' = [tries EXCEPT ![c] = 0]
Returns(c, v) == Succeeds(c, "ended") /\ result' = [result EXCEPT ![c] = v]

-----------------------------------------------------------------------------
(* Ingestion: SaveDocumentMetadataActivity *)

\* FindByContentHash: also a row that an earlier attempt of this run has left.
SaveDocumentMetadata(r) ==
    /\ stage[r] = "save"
    /\ \/ /\ status[content[r]] # "none" /\ Returns(r, "duplicate") /\ UNCHANGED faults
       \/ /\ status[content[r]] = "none" /\ GoTo(r, "create") /\ UNCHANGED <<result, faults>>
       \/ Fault /\ Fails({r})
    /\ UNCHANGED <<breakerVars, content, tables, points, attempt, flying, answer>>

\* Mutant: the insert ignores the unique index.
NoConflict(c) == TRUE

IsNew(c) == status[c] = "none"

InsertDocument(c) == status' = [status EXCEPT ![c] = "pending"]

\* The row may be there by now: idx_documents_content_hash.
CreateDocument(r) ==
    /\ stage[r] = "create"
    /\ \/ /\ IsNew(content[r]) /\ InsertDocument(content[r])
          /\ Succeeds(r, "chunk") /\ UNCHANGED <<result, faults>>
       \/ ~IsNew(content[r]) /\ Fails({r}) /\ UNCHANGED <<status, faults>>
       \/ /\ Fault /\ Fails({r})
          /\ UNCHANGED status \/ (IsNew(content[r]) /\ InsertDocument(content[r]))
    /\ UNCHANGED <<breakerVars, content, chunks, indexed, points, attempt, flying, answer>>

-----------------------------------------------------------------------------
(* ChunkDocumentActivity: rows are inserted one by one, without a           *)
(* transaction, and again by the next attempt.                              *)

ChunkDocument(r) ==
    /\ stage[r] = "chunk"
    /\ \/ /\ chunks' = chunks \cup NewRows(r)
          /\ status' = [status EXCEPT ![content[r]] = "chunked"]
          /\ Succeeds(r, "embed") /\ UNCHANGED <<result, faults>>
       \/ /\ Fault /\ Fails({r})
          /\ \E rows \in Leading(NewRows(r)) :
                /\ chunks' = chunks \cup rows
                /\ status' \in {status} \cup
                      (IF rows = NewRows(r) THEN {[status EXCEPT ![content[r]] = "chunked"]} ELSE {})
    /\ UNCHANGED <<breakerVars, content, indexed, points, attempt, flying, answer>>

-----------------------------------------------------------------------------
(* EmbedAndUpsertChunksActivity *)

Pending(r) == {row \in chunks : Doc(row) = content[r] /\ row \notin indexed}

\* ListPendingChunks, and an embedding for each.
EmbedChunks(r) ==
    /\ stage[r] = "embed"
    /\ \/ /\ Pending(r) = {} /\ Succeeds(r, "status") /\ UNCHANGED <<attempt, result, faults>>
       \/ /\ Pending(r) # {} /\ GoTo(r, "upsert")
          /\ listed' = [listed EXCEPT ![r] = Pending(r)]
          /\ todo' = [todo EXCEPT ![r] = Pending(r)]
          /\ UNCHANGED <<result, faults>>
       \/ Fault /\ Fails({r}) /\ UNCHANGED attempt
    /\ UNCHANGED <<breakerVars, content, tables, points, flying, answer>>

\* Client.Upsert of the next batch, or the refusal of the breaker.
UpsertBatch(r) ==
    /\ stage[r] = "upsert" /\ r \notin flying
    /\ \/ Allow /\ flying' = flying \cup {r} /\ UNCHANGED <<stage, tries, result>>
       \/ ~MayPass /\ Fails({r}) /\ UNCHANGED <<breakerVars, flying>>
    /\ UNCHANGED <<content, tables, points, attempt, answer, faults>>

\* points[i:end]
Batches(r) ==
    {B \in Leading(todo[r]) :
        Cardinality(B) = IF Cardinality(todo[r]) < BatchSize THEN Cardinality(todo[r]) ELSE BatchSize}

\* Mutant: the loop stops before a batch that is not full.
OnlyFullBatches(rest) == Cardinality(rest) < BatchSize

AllUpserted(rest) == rest = {}

\* The call returns and its result is recorded.  A failed one may have stored the batch.
Upserted(r) == \E B \in Batches(r) :
    /\ r \in flying /\ flying' = flying \ {r}
    /\ \/ /\ RecordSuccess /\ points' = points \cup B
          /\ todo' = [todo EXCEPT ![r] = @ \ B]
          /\ GoTo(r, IF AllUpserted(todo[r] \ B) THEN "mark" ELSE "upsert")
          /\ UNCHANGED <<result, faults>>
       \/ /\ Fault /\ RecordFailure /\ points' \in {points, points \cup B}
          /\ Fails({r}) /\ UNCHANGED todo
    /\ UNCHANGED <<content, tables, listed, answer>>

\* UpdateChunkStatus for each chunk of the list.
MarkIndexed(r) ==
    /\ stage[r] = "mark"
    /\ \/ indexed' = indexed \cup listed[r] /\ Succeeds(r, "status") /\ UNCHANGED <<result, faults>>
       \/ Fault /\ Fails({r}) /\ \E rows \in Leading(listed[r]) : indexed' = indexed \cup rows
    /\ UNCHANGED <<breakerVars, content, status, chunks, points, attempt, flying, answer>>

-----------------------------------------------------------------------------
(* UpdateDocumentIndexStatusActivity has no Status in its input: it writes  *)
(* 'indexed' also where the workflow asks for 'failed'.                     *)

SetIndexed(r) == status' = [status EXCEPT ![content[r]] = "indexed"]

UpdateDocumentIndexStatus(r) ==
    /\ stage[r] \in {"status", "mark_failed"}
    /\ \/ /\ SetIndexed(r) /\ UNCHANGED faults
          /\ Returns(r, IF stage[r] = "status" THEN "indexed" ELSE result[r])
       \/ Fault /\ Fails({r}) /\ (SetIndexed(r) \/ UNCHANGED status)
    /\ UNCHANGED <<breakerVars, content, chunks, indexed, points, attempt, flying, answer>>

-----------------------------------------------------------------------------
(* Retrieval *)

\* EmbedAndSearchChunksActivity: the embedding, then Client.Search.
EmbedAndSearch(q) ==
    /\ stage[q] = "search" /\ q \notin flying
    /\ \/ Allow /\ flying' = flying \cup {q} /\ UNCHANGED <<stage, tries, result, faults>>
       \/ ~MayPass /\ Fails({q}) /\ UNCHANGED <<breakerVars, flying, faults>>
       \/ Fault /\ Fails({q}) /\ UNCHANGED <<breakerVars, flying>>
    /\ UNCHANGED <<content, tables, points, attempt, answer>>

\* The similar points are any points.  Without a hit the workflow returns at once.
Searched(q) ==
    /\ q \in flying /\ flying' = flying \ {q}
    /\ \/ /\ RecordSuccess /\ UNCHANGED faults
          /\ \E found \in SUBSET points :
                /\ Cardinality(found) <= TopK /\ hits' = [hits EXCEPT ![q] = found]
                /\ IF found = {} THEN Returns(q, "empty")
                   ELSE Succeeds(q, "fetch") /\ UNCHANGED result
       \/ Fault /\ RecordFailure /\ Fails({q}) /\ UNCHANGED hits
    /\ UNCHANGED <<content, tables, points, attempt, cited>>

\* FetchChunkContentActivity passes over an id without a row.
FetchChunkContent(q) ==
    /\ stage[q] = "fetch"
    /\ \/ /\ cited' = [cited EXCEPT ![q] = hits[q] \cap chunks]
          /\ Succeeds(q, "pack") /\ UNCHANGED <<result, faults>>
       \/ Fault /\ Fails({q}) /\ UNCHANGED cited
    /\ UNCHANGED <<breakerVars, content, tables, points, attempt, flying, hits>>

PackContext(q) ==
    /\ stage[q] = "pack"
    /\ \/ Returns(q, "answered") /\ UNCHANGED faults
       \/ Fault /\ Fails({q})
    /\ UNCHANGED <<breakerVars, content, tables, points, attempt, flying, answer>>

-----------------------------------------------------------------------------
(* The worker *)

\* A restart ends every call under way, whose batch may have been stored, and
\* begins with a new breaker.
RestartWorker ==
    /\ flying # {} /\ Fault /\ Fails(flying) /\ flying' = {}
    /\ circuit' = "closed" /\ failures' = 0 /\ cooled' = FALSE
    /\ \E stored \in SUBSET UNION {todo[r] : r \in Runs \cap flying} :
          /\ \A r \in Runs \cap flying : stored \cap todo[r] \in Batches(r) \cup {{}}
          /\ points' = points \cup stored
    /\ UNCHANGED <<content, tables, attempt, answer>>

PassTime == OpenTimeout /\ UNCHANGED <<content, tables, points, stage, tries, attempt, flying,
                                       answer, result, faults>>

Ingest(r) ==
    \/ SaveDocumentMetadata(r) \/ CreateDocument(r) \/ ChunkDocument(r) \/ EmbedChunks(r)
    \/ UpsertBatch(r) \/ Upserted(r) \/ MarkIndexed(r) \/ UpdateDocumentIndexStatus(r)

Retrieve(q) == EmbedAndSearch(q) \/ Searched(q) \/ FetchChunkContent(q) \/ PackContext(q)

Next ==
    \/ \E r \in Runs : Ingest(r)
    \/ \E q \in Queries : Retrieve(q)
    \/ RestartWorker \/ PassTime

\* Temporal schedules the attempts of every open run.
Spec ==
    /\ Init /\ [][Next]_vars
    /\ \A r \in Runs : WF_vars(Ingest(r))
    /\ \A q \in Queries : WF_vars(Retrieve(q))

-----------------------------------------------------------------------------
TypeOK ==
    /\ BreakerTypeOK
    /\ content \in [Runs -> Contents] /\ status \in [Contents -> Statuses]
    /\ chunks \subseteq Contents \X Runs \X Nat \X Nat
    /\ indexed \subseteq chunks /\ points \subseteq chunks
    /\ stage \in [Clients -> Stages] /\ tries \in [Clients -> 0..(MaxAttempts - 1)]
    /\ listed \in [Runs -> SUBSET chunks] /\ todo \in [Runs -> SUBSET chunks]
    /\ flying \subseteq Clients
    /\ hits \in [Queries -> SUBSET points] /\ cited \in [Queries -> SUBSET chunks]
    /\ result \in [Clients -> Results] /\ faults \in 0..MaxFaults

\* The vector store has a point for every chunk of the text.
Complete(c) == \A i \in 1..Size[c] : \E row \in points : Doc(row) = c /\ Index(row) = i

Over == \A c \in Clients : stage[c] = "ended"

\* Tables and vector store agree, whatever was repeated or lost on the way: a chunk
\* is marked as indexed only with its point, a point has its row, a run that says
\* indexed has all of its text there, a query that answers has the text of every
\* hit, and when nothing was lost every text is searchable in the end.
StoresAgree ==
    /\ indexed \subseteq points /\ points \subseteq chunks
    /\ \A r \in Runs : result[r] = "indexed" => status[content[r]] = "indexed" /\ Complete(content[r])
    /\ \A q \in Queries : result[q] = "answered" => cited[q] = hits[q] /\ hits[q] # {}
    /\ Over /\ faults = 0 =>
          \A r \in Runs : status[content[r]] = "indexed" /\ Complete(content[r])

\* Two runs that find no row for the same text race for its insert, and only one
\* of them cuts the text into chunks.
OneIngester == \A x, y \in chunks : Doc(x) = Doc(y) => Maker(x) = Maker(y)

\* After MaxFailures failures without a success between them no call reaches the
\* vector store before the open timeout has passed, however the calls overlap.
NoCallWhileOpen ==
    [][flying' \subseteq flying \/ failures < MaxFailures \/ cooled]_vars

\* Every ingestion and every query returns: attempts end, also those a breaker
\* that stays open uses up.
RunsEnd == <>Over

\* What the activity says of itself: it updates the status to "indexed" after all
\* chunks have been successfully embedded and upserted.
IndexedMeansEmbedded == \A c \in Contents : status[c] = "indexed" => Complete(c)
=============================================================================
