---------------------------- MODULE SubgraphSync ----------------------------
(***************************************************************************)
(* The cursor sync of one subgraph entity: the jobs in jobs_subgraph.go    *)
(* and jobs_whale.go (runAccountSync), the GraphQL request with its        *)
(* retries and the page limit of the fetcher, processSubgraph, the         *)
(* router's cursor, and the rows and the sync_state row the saver writes.  *)
(*                                                                         *)
(* "accounts" pages carry their rows; "fpmms" pages carry none: each gives *)
(* rise to requests for the markets of its conditions, in chunks.  An item *)
(* is its id, a condition the number CondOf of its fpmm.  Queues, worker   *)
(* pools and the idle poll are in Pipeline.  A graceful stop drains for    *)
(* two minutes; being cut off later is a Crash.  Ids of new items are      *)
(* hashes, so an item may appear anywhere in the order.                    *)
(***************************************************************************)
EXTENDS Integers, FiniteSets

CONSTANTS
  LastId,      \* items are 1..LastId, in the order of their ids
  CondOf,      \* the condition of each fpmm
  FullPage,    \* page size asked for, and the size that means "more" (1000)
  MinLimit,    \* the least the fetcher lowers its page limit to (10)
  ChunkSize,   \* conditions of one market request (100)
  MaxRetries,  \* retries of one request (3)
  MaxPages     \* cap on the pages of an accounts sync (20)

Ids == 1..LastId

ASSUME SyncAssumption ==
  /\ LastId \in Nat
  /\ CondOf \in [Ids -> Ids]
  /\ FullPage \in Nat \ {0} /\ MinLimit \in 1..FullPage
  /\ ChunkSize \in Nat \ {0} /\ MaxRetries \in Nat /\ MaxPages \in Nat \ {0}

VARIABLES
  entity,      \* what this deployment syncs
  remote,      \* items the subgraph has
  row,         \* the sync_state row
  stored,      \* keys of the durable rows
  up,          \* the process: not running, in RunBatch, or past it
  limit,       \* Fetcher.globalLimit
  page,        \* the entity request, or NoPage
  out,         \* the processor's output in the router's hands, or NoOut
  markets,     \* market requests not answered yet: sets of conditions
  queue,       \* row batches submitted to the saver
  processed,   \* Processor.processedConditions
  lastCursor,  \* the router's cursor of this entity
  start, goal, seen, clean  \* this run: its start id, what was there to read, what
                            \* it has read, and that no request, batch or write failed

durable == <<entity, remote, row, stored>>
memory  == <<limit, page, out, markets, queue, processed, lastCursor>>
history == <<start, goal, seen, clean>>
vars    == <<durable, up, memory, history>>

NoPage == [at |-> "none"]
NoOut  == [at |-> "none"]
PageRequest == [at : {"asked"}, first : 1..FullPage, after : 0..LastId,
                no : Nat \ {0}, tries : 0..MaxRetries]
PageAnswer  == [at : {"fetched"}, first : 1..FullPage, after : 0..LastId,
                no : Nat \ {0}, items : SUBSET Ids]
Output == [at : {"saving", "cursor", "follow"}, rows : SUBSET Ids, cursor : 0..LastId,
           derived : SUBSET (SUBSET Ids), next : {NoPage} \cup PageRequest]
Row == [cursor : 0..LastId, status : {"absent", "running", "completed"}]

TypeOK ==
  /\ entity \in {"fpmms", "accounts"} /\ remote \in SUBSET Ids
  /\ row \in Row /\ stored \in SUBSET Ids
  /\ up \in {"down", "running", "stopping"}
  /\ limit \in 1..FullPage
  /\ page \in {NoPage} \cup PageRequest \cup PageAnswer
  /\ out \in {NoOut} \cup Output
  /\ markets \in SUBSET (SUBSET Ids) /\ queue \in SUBSET (SUBSET Ids)
  /\ processed \in SUBSET Ids /\ lastCursor \in 0..LastId
  /\ start \in 0..LastId /\ goal \in SUBSET Ids /\ seen \in SUBSET Ids
  /\ clean \in BOOLEAN

\* The row an item ends up in: its own, or its condition's market.
Key(i) == IF entity = "fpmms" THEN CondOf[i] ELSE i
Keys(S) == {Key(i) : i \in S}

Init ==
  /\ entity \in {"fpmms", "accounts"} /\ remote \in SUBSET Ids
  /\ row = [cursor |-> 0, status |-> "absent"] /\ stored = {}
  /\ up = "down"
  /\ limit = FullPage /\ page = NoPage /\ out = NoOut
  /\ markets = {} /\ queue = {} /\ processed = {} /\ lastCursor = 0
  /\ start = 0 /\ goal = {} /\ seen = {} /\ clean = TRUE

\* Something of this run is lost: its history is of no more use.
Fault == clean' = FALSE /\ goal' = {} /\ seen' = {}
NoFault == UNCHANGED <<clean, goal, seen>>

-----------------------------------------------------------------------------
(* The job.                                                                *)

\* GetSubgraphReqs: the first page, after the id the job resumes from.
FirstPage(id) ==
  [at |-> "asked", first |-> FullPage, after |-> id, no |-> 1, tries |-> 0]

\* A new process, with nothing in its memory but the first request.
Launch(id) ==
  /\ up = "down" /\ up' = "running" /\ page' = FirstPage(id)
  /\ start' = id /\ goal' = {i \in remote : i > id} /\ clean' = TRUE
  /\ UNCHANGED <<entity, remote, stored, limit, out, markets, queue, processed,
                 lastCursor, seen>>

\* SetSyncStatus "running", which the accounts job starts with: it makes the row.
Announced == IF entity = "accounts" THEN [row EXCEPT !.status = "running"] ELSE row

\* GetAllSyncCursors or GetSyncCursor: resume from the durable cursor.
Resume == Launch(row.cursor) /\ row' = Announced

\* The cursors could not be read: a warning, and start fresh.
StartFresh == Launch(0) /\ row' = Announced

\* fullSync: ResetSyncCursor, whose failure is only a warning.
FullSync ==
  /\ entity = "fpmms" /\ Launch(0)
  /\ row' \in {row, [cursor |-> 0, status |-> "absent"]}

Idle == page = NoPage /\ out = NoOut /\ markets = {} /\ queue = {}

\* RunBatch returned, whatever became of its requests: MarkSyncComplete, an UPDATE
\* that finds no row when nothing was ever recorded.
Complete ==
  /\ up = "running" /\ Idle /\ up' = "stopping"
  /\ row' = IF row.status = "absent" THEN row ELSE [row EXCEPT !.status = "completed"]
  /\ UNCHANGED <<entity, remote, stored, memory, history>>

\* RunBatch returned early, its context done (a signal, or the two minutes of the
\* accounts job): MarkSyncComplete fails on the same context, or is not called.
GiveUp ==
  /\ up = "running" /\ ~Idle /\ up' = "stopping" /\ Fault
  /\ UNCHANGED <<durable, memory, start>>

\* The process ends, and its memory and this run's history with it.
End ==
  /\ up' = "down"
  /\ limit' = FullPage /\ page' = NoPage /\ out' = NoOut
  /\ markets' = {} /\ queue' = {} /\ processed' = {} /\ lastCursor' = 0
  /\ start' = 0 /\ goal' = {} /\ seen' = {} /\ clean' = TRUE
  /\ UNCHANGED durable

\* Stop returns once the pipeline is idle.
Exit == up = "stopping" /\ Idle /\ End

\* The process dies at any point.
Crash == up # "down" /\ End

\* The subgraph indexes one more item (external).
Appear(i) ==
  /\ i \notin remote /\ remote' = remote \cup {i}
  /\ UNCHANGED <<entity, row, stored, up, memory, history>>

-----------------------------------------------------------------------------
(* Fetcher.Fetch of the page request: each attempt reads the page limit    *)
(* and clamps the request to it, for good.                                 *)

SmallerOf(a, b) == IF a < b THEN a ELSE b
Clamped == [page EXCEPT !.first = SmallerOf(@, limit)]

\* The subgraph's answer: the first items after an id, in the order of their ids.
Rank(i, S) == Cardinality({j \in S : j <= i})
FirstOf(n, S) == {i \in S : Rank(i, S) <= n}
After(id) == {i \in remote : i > id}

PageFetched ==
  /\ page.at = "asked"
  /\ LET items == FirstOf(Clamped.first, After(page.after)) IN
       /\ page' = [at |-> "fetched", first |-> Clamped.first, after |-> page.after,
                   no |-> page.no, items |-> items]
       /\ seen' = IF clean THEN seen \cup items ELSE seen
  /\ UNCHANGED <<durable, up, limit, out, markets, queue, processed, lastCursor,
                 start, goal, clean>>

\* After a failed attempt: the next one, or the request is given up and with it the
\* rest of the pages.
Retry ==
  IF page.tries < MaxRetries
  THEN page' = [Clamped EXCEPT !.tries = @ + 1] /\ NoFault
  ELSE page' = NoPage /\ Fault

\* A transport error, or a status of 500 and above.
AttemptFails ==
  /\ page.at = "asked" /\ Retry
  /\ UNCHANGED <<durable, up, limit, out, markets, queue, processed, lastCursor,
                 start>>

\* "bad indexers": back off, and halve the page limit of the whole process.
IndexerUnavailable ==
  /\ page.at = "asked" /\ Retry
  /\ limit' = IF limit \div 2 < MinLimit THEN MinLimit ELSE limit \div 2
  /\ UNCHANGED <<durable, up, out, markets, queue, processed, lastCursor,
                 start>>

-----------------------------------------------------------------------------
(* processSubgraph.                                                        *)

\* The market requests of conditions, ChunkSize to a request.
Chunks_MutantDropsTail(conds) ==
  {{c \in conds : (Rank(c, conds) - 1) \div ChunkSize = k} :
     k \in 0..((Cardinality(conds) - 1) \div ChunkSize) - 1}

Chunks(conds) ==
  {{c \in conds : (Rank(c, conds) - 1) \div ChunkSize = (Rank(d, conds) - 1) \div ChunkSize} :
     d \in conds}

LastOf(items) == CHOOSE i \in items : \A j \in items : j <= i

MorePages_MutantShort == Cardinality(page.items) > FullPage

\* Another page follows a full one, however long a page was asked for.
MorePages == Cardinality(page.items) >= FullPage

Capped == MorePages /\ entity = "accounts" /\ page.no >= MaxPages

NextPage_MutantSameCursor ==
  IF MorePages /\ ~Capped
  THEN [at |-> "asked", first |-> page.first, after |-> page.after,
        no |-> 1, tries |-> 0]
  ELSE NoPage

\* The next page keeps the request's page size.  Page numbers matter only to the cap.
NextPage ==
  IF MorePages /\ ~Capped
  THEN [at |-> "asked", first |-> page.first, after |-> LastOf(page.items),
        no |-> IF entity = "accounts" THEN page.no + 1 ELSE 1, tries |-> 0]
  ELSE NoPage

NewConditions ==
  IF entity = "fpmms" THEN Keys(page.items) \ processed ELSE {}

\* The capped page records no cursor; the empty page has none.
PageProcessed ==
  /\ page.at = "fetched" /\ out = NoOut
  /\ out' = [at      |-> "saving",
             rows    |-> IF entity = "accounts" THEN page.items ELSE {},
             cursor  |-> IF page.items = {} \/ Capped THEN 0 ELSE LastOf(page.items),
             derived |-> Chunks(NewConditions),
             next    |-> NextPage]
  /\ processed' = processed \cup NewConditions
  /\ page' = NoPage
  /\ UNCHANGED <<durable, up, limit, markets, queue, lastCursor, history>>

\* Errors in the answer, or a body that does not parse: the page and its successors
\* are lost.
PageRejected ==
  /\ page.at = "fetched" /\ page' = NoPage /\ Fault
  /\ UNCHANGED <<durable, up, limit, out, markets, queue, processed, lastCursor,
                 start>>

-----------------------------------------------------------------------------
(* routeProcessorOutput: rows to the saver, then the cursor to the         *)
(* database, then the follow-up requests.                                  *)

RouteRows ==
  /\ out.at = "saving" /\ out' = [out EXCEPT !.at = "cursor"]
  /\ queue' = IF out.rows = {} THEN queue ELSE queue \cup {out.rows}
  /\ UNCHANGED <<durable, up, limit, page, markets, processed, lastCursor, history>>

\* SetSyncCursor, for a cursor beyond the router's own; its failure is a warning.
RouteCursor ==
  /\ out.at = "cursor" /\ out' = [out EXCEPT !.at = "follow"]
  /\ IF out.cursor > lastCursor
     THEN /\ lastCursor' = out.cursor
          /\ \/ row' = [cursor |-> out.cursor, status |-> "running"] /\ NoFault
             \/ Fault /\ UNCHANGED row
     ELSE UNCHANGED <<lastCursor, row>> /\ NoFault
  /\ UNCHANGED <<entity, remote, stored, up, limit, page, markets, queue, processed,
                 start>>

RouteFollowUps ==
  /\ out.at = "follow" /\ page = NoPage
  /\ markets' = markets \cup out.derived /\ page' = out.next
  /\ out' = NoOut
  /\ UNCHANGED <<durable, up, limit, queue, processed, lastCursor, history>>

-----------------------------------------------------------------------------
(* The market requests and the saver's batches.                            *)

MarketsFetched(conds) ==
  /\ conds \in markets /\ markets' = markets \ {conds} /\ queue' = queue \cup {conds}
  /\ UNCHANGED <<durable, up, limit, page, out, processed, lastCursor, history>>

MarketsFail(conds) ==
  /\ conds \in markets /\ markets' = markets \ {conds} /\ Fault
  /\ UNCHANGED <<durable, up, limit, page, out, queue, processed, lastCursor,
                 start>>

\* batchInsertMarkets, batchInsertAccounts: one implicit transaction.
Save(batch) ==
  /\ batch \in queue /\ queue' = queue \ {batch} /\ stored' = stored \cup batch
  /\ UNCHANGED <<entity, remote, row, up, limit, page, out, markets, processed,
                 lastCursor, history>>

SaveFails(batch) ==
  /\ batch \in queue /\ queue' = queue \ {batch} /\ Fault
  /\ UNCHANGED <<durable, up, limit, page, out, markets, processed, lastCursor,
                 start>>

-----------------------------------------------------------------------------
Job == Resume \/ StartFresh \/ FullSync \/ GiveUp \/ Crash
Fetching == PageFetched \/ AttemptFails \/ IndexerUnavailable
Processing == PageProcessed \/ PageRejected
Routing == RouteRows \/ RouteCursor \/ RouteFollowUps
Follow == \E conds \in markets : MarketsFetched(conds) \/ MarketsFail(conds)
Saving == \E batch \in queue : Save(batch) \/ SaveFails(batch)

Next ==
  \/ Job \/ Complete \/ Exit \/ Fetching \/ Processing \/ Routing \/ Follow \/ Saving
  \/ \E i \in Ids : Appear(i)

Spec == Init /\ [][Next]_vars

\* Each goroutine of the process is eventually scheduled; a request ends within its
\* 30 s time limit and its retries.
FairSpec ==
  /\ Spec
  /\ WF_vars(Fetching) /\ WF_vars(Processing) /\ WF_vars(Routing)
  /\ WF_vars(Follow) /\ WF_vars(Saving) /\ WF_vars(Complete) /\ WF_vars(Exit)

-----------------------------------------------------------------------------
(* Properties.                                                             *)

InRouter ==
  IF out = NoOut THEN {}
  ELSE (UNION out.derived) \cup (IF out.at = "saving" THEN out.rows ELSE {})
InPage == IF page.at = "fetched" THEN Keys(page.items) ELSE {}

\* The durable cursor runs ahead of the rows, never of the process: until something
\* fails, whatever this run has read is stored or still in its hands, through the
\* chunking, the processed-conditions filter and the three hand-overs.
ReadIsKept ==
  clean => Keys(seen) \subseteq
             stored \cup (UNION queue) \cup (UNION markets) \cup InRouter \cup InPage

\* A run that ends without a failure has stored everything that was there, after its
\* start id, when it began; but for the pages that follow one cut short by the lowered
\* page limit, and those beyond the cap of an accounts sync.
CompleteUnlessCut ==
  up = "stopping" /\ clean =>
    \/ Keys(goal) \subseteq stored
    \/ limit < FullPage
    \/ entity = "accounts" /\ Cardinality(seen) >= MaxPages * FullPage

\* Every run comes to an end: page requests advance, retries are bounded, and the
\* follow-up requests of one page are finite.
RunEnds == up # "down" ~> up = "down"

=============================================================================
