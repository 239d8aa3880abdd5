---------------------------- MODULE OutboxWorker ----------------------------
(***************************************************************************)
(* infrastructure/worker/outbox.go: the table of outbox events and the     *)
(* workers of one process that hand them to the handlers of their topics.  *)
(* The program registers no worker yet.  The handler modelled here sends   *)
(* the event with HttpClient, one client for all workers.                  *)
(*                                                                         *)
(* The process may be told to stop, which cancels the context of every     *)
(* call, or crash, and is started again.  The remote side may not answer.  *)
(***************************************************************************)
EXTENDS HttpClient, FiniteSets

CONSTANTS
    Events,        \* numbered in order of created_at
    batchSize,     \* 10 in the code
    Backlogs,      \* what kinds of events there may be
    MaxRestarts    \* bound

Workers == Callers

(* An event has no handler for its topic, a URL validateURL refuses, or    *)
(* is sent with a method that is retried or one that is not.               *)
Kinds == {"unknown", "invalid", "get", "post"}

ASSUME OutboxAssumption ==
    /\ Events \subseteq Nat
    /\ Backlogs \subseteq [Events -> Kinds]
    /\ batchSize \in Nat \ {0}
    /\ MaxRestarts \in Nat

VARIABLES
    kind,        \* of each event
    queued,      \* rows of outbox_events
    due,         \* those with available_at <= NOW()
    processed,   \* those with processed_at set
    batch,       \* what each worker has fetched and not finished
    stopping,    \* the context is canceled
    restarts,
    story        \* history of each event, see Stories

tableVars == <<kind, queued, due, processed>>
envVars == <<stopping, restarts>>
outboxVars == <<clientVars, tableVars, batch, envVars, story>>

(* What has become of an event: never delivered, or fetched by two workers *)
(* before that; delivered once; delivered and with a reason for another    *)
(* time; delivered twice for no reason.                                    *)
Stories == {"new", "shared", "delivered", "excused", "duplicate"}

OutboxInit ==
    /\ ClientInit
    /\ kind \in Backlogs
    /\ queued = {}
    /\ due = {}
    /\ processed = {}
    /\ batch = [w \in Workers |-> {}]
    /\ stopping = FALSE
    /\ restarts = 0
    /\ story = [e \in Events |-> "new"]

Deliverable == {e \in Events : kind[e] \in {"get", "post"}}

Delivered(s) ==
    CASE s = "new" -> "delivered"
      [] s = "delivered" -> "duplicate"
      [] s = "shared" -> "excused"
      [] OTHER -> s

Excused(s) ==
    CASE s = "new" -> "shared"
      [] s = "delivered" -> "excused"
      [] OTHER -> s

(* Something goes wrong that repeats a delivery, if there was one. *)
Again(s) == IF s = "delivered" THEN "excused" ELSE s

Current(w, e) == e \in batch[w] /\ \A f \in batch[w] : e <= f

-----------------------------------------------------------------------------
Enqueue(e) ==
    /\ e \notin queued
    /\ queued' = queued \cup {e}
    /\ due' = due \cup {e}
    /\ UNCHANGED <<clientVars, kind, processed, batch, envVars, story>>

(* Mutant: events that are processed are fetched, too. *)
PendingAll == queued \cap due

Pending == (queued \cap due) \ processed

(* Those of them that can be delivered. *)
Waiting == Pending \cap Deliverable

Others(w) == UNION {batch[v] : v \in Workers \ {w}}

Locked(w) == UNION {batch[v] : v \in {u \in Workers \ {w} : at[u] = "fetch"}}

(* FetchPending: the first batchSize rows nobody has locked.  What another *)
(* worker has fetched and still works on is not locked any more.  A query  *)
(* that fails changes nothing, the next tick tries again.                  *)
Fetch(w) ==
    /\ ~stopping
    /\ Move(w, "idle", "fetch")
    /\ \E rows \in SUBSET (Pending \ Locked(w)) :
          /\ rows # {}
          /\ \A e \in (Pending \ Locked(w)) \ rows :
                Cardinality(rows) = batchSize /\ \A f \in rows : f < e
          /\ Cardinality(rows) <= batchSize
          /\ batch' = [batch EXCEPT ![w] = rows]
          /\ story' = [e \in Events |-> IF e \in rows \cap Others(w) THEN Excused(story[e]) ELSE story[e]]
    /\ UNCHANGED <<attempt, breakerVars, tableVars, envVars>>

Commit(w) ==
    /\ Move(w, "fetch", "work")
    /\ UNCHANGED <<attempt, breakerVars, tableVars, batch, envVars, story>>

(* The batch is done, or given up. *)
Return(w, from) ==
    /\ Move(w, from, "idle")
    /\ batch' = [batch EXCEPT ![w] = {}]
    /\ UNCHANGED <<attempt, breakerVars, tableVars, envVars, story>>

BatchDone(w) == batch[w] = {} /\ Return(w, "work")

(* On to the next event. *)
Finish(w, from, e) ==
    /\ Current(w, e)
    /\ Move(w, from, "work")
    /\ batch' = [batch EXCEPT ![w] = @ \ {e}]
    /\ UNCHANGED <<attempt, breakerVars, kind, queued, envVars>>

(* Mutant: the attempt is counted and available_at is left as it was. *)
MarkFailedKeepsDue(w, from, e) ==
    /\ Finish(w, from, e)
    /\ UNCHANGED <<processed, due, story>>

(* MarkProcessed and MarkFailed may fail, and do when the context is       *)
(* canceled; ProcessOnce ignores it.                                       *)
MarkFailed(w, from, e) ==
    /\ Finish(w, from, e)
    /\ (~stopping /\ due' = due \ {e}) \/ UNCHANGED due
    /\ UNCHANGED <<processed, story>>

NoHandler(w, e) == kind[e] = "unknown" /\ MarkFailed(w, "work", e)

(* Mutant: a handler that has run is done, whatever it returned. *)
FailedMarksProcessed(w, e) ==
    /\ Finish(w, "failed", e)
    /\ (~stopping /\ processed' = processed \cup {e}) \/ UNCHANGED processed
    /\ UNCHANGED <<due, story>>

(* The handler returns an error. *)
Failed(w, e) == MarkFailed(w, "failed", e)

(* FetchPending fails, or the handler returns context.Canceled: the rest   *)
(* of the batch is left.                                                   *)
Canceled(w) ==
    /\ stopping
    /\ \/ Return(w, "fetch")
       \/ Return(w, "backoff")
       \/ Return(w, "failed")

Processed(w, e) ==
    /\ Finish(w, "succeeded", e)
    /\ ~stopping
    /\ processed' = processed \cup {e}
    /\ UNCHANGED <<due, story>>

ProcessedLost(w, e) ==
    /\ Finish(w, "succeeded", e)
    /\ story' = [story EXCEPT ![e] = Again(@)]
    /\ UNCHANGED <<due, processed>>

-----------------------------------------------------------------------------
(* The handler in the client, and what the remote side makes of it. *)

Reaches(w, e) ==
    /\ Current(w, e)
    /\ story' = [story EXCEPT ![e] = Delivered(@)]

InClient == UNCHANGED <<tableVars, batch, envVars>>

OutboxStays == InClient /\ UNCHANGED story

Answered(w, e) == Reaches(w, e) /\ Succeed(w) /\ InClient

(* The request does not arrive or is turned down; or it does arrive and    *)
(* its answer is lost.                                                     *)
NotAnswered(w, e) ==
    /\ Current(w, e)
    /\ Fail(w, kind[e] = "get")
    /\ story' \in {story, [story EXCEPT ![e] = Again(Delivered(@))]}
    /\ InClient

Call(w, e) ==
    /\ Current(w, e)
    /\ kind[e] # "unknown"
    /\ Refuse(w, kind[e] # "invalid") \/ Begin(w, kind[e] # "invalid")
    /\ OutboxStays

ClientStep(w) ==
    /\ Retry(w) \/ Count(w) \/ Open(w)
    /\ OutboxStays

-----------------------------------------------------------------------------
(* What happens around them. *)

Due(e) ==
    /\ e \in queued \ due
    /\ due' = due \cup {e}
    /\ UNCHANGED <<clientVars, kind, queued, processed, batch, envVars, story>>

Stop ==
    /\ ~stopping /\ restarts < MaxRestarts
    /\ stopping' = TRUE
    /\ UNCHANGED <<clientVars, tableVars, batch, restarts, story>>

(* After a stop or a crash.  What was delivered and not marked is          *)
(* delivered again.                                                        *)
Restart ==
    /\ restarts < MaxRestarts
    /\ restarts' = restarts + 1
    /\ NewClient
    /\ batch' = [w \in Workers |-> {}]
    /\ stopping' = FALSE
    /\ story' = [e \in Events |->
                    IF \E w \in Workers : at[w] = "succeeded" /\ Current(w, e)
                    THEN Again(story[e]) ELSE story[e]]
    /\ UNCHANGED tableVars

-----------------------------------------------------------------------------
WorkerStep(w) ==
    \/ Fetch(w) \/ Commit(w) \/ BatchDone(w) \/ Canceled(w) \/ ClientStep(w)
    \/ \E e \in Events :
          \/ NoHandler(w, e) \/ Call(w, e) \/ Answered(w, e) \/ NotAnswered(w, e)
          \/ Failed(w, e) \/ Processed(w, e) \/ ProcessedLost(w, e)

Around ==
    \/ \E e \in Events : Enqueue(e) \/ Due(e)
    \/ Goroutine /\ OutboxStays
    \/ Stop \/ Restart

OutboxNext == Around \/ \E w \in Workers : WorkerStep(w)

(* The mark is made, and the event waits for its delay. *)
Postponed(w, e) == (NoHandler(w, e) \/ Failed(w, e)) /\ e \notin due'

(* Every goroutine is scheduled; an event falls due again, at least when   *)
(* no younger one is waiting; a process that was stopped is started; the   *)
(* database and the remote side, asked again and again, answer in the end. *)
Fairness ==
    /\ \A w \in Workers : WF_outboxVars(WorkerStep(w))
    /\ \A e \in Events : WF_outboxVars(Due(e) /\ Waiting \subseteq 0 .. e)
    /\ SF_outboxVars(\E w \in Workers, e \in Events : Answered(w, e))
    /\ SF_outboxVars(\E w \in Workers, e \in Events : Processed(w, e))
    /\ SF_outboxVars(\E w \in Workers, e \in Events : Postponed(w, e))
    /\ WF_outboxVars(Wake /\ OutboxStays)
    /\ WF_outboxVars(CloseCircuit /\ OutboxStays)
    /\ WF_outboxVars(stopping /\ Restart)

OutboxSpec == OutboxInit /\ [][OutboxNext]_outboxVars /\ Fairness

-----------------------------------------------------------------------------
Places == {"idle", "fetch", "work", "send", "backoff", "count", "open",
           "failed", "succeeded"}

TypeOK ==
    /\ at \in [Workers -> Places]
    /\ attempt \in [Workers -> 0 .. maxRetries]
    /\ failureCount \in Nat /\ sleeping \in Nat /\ waking \in Nat
    /\ circuitOpen \in BOOLEAN /\ stopping \in BOOLEAN
    /\ kind \in [Events -> Kinds]
    /\ story \in [Events -> Stories]
    /\ batch \in [Workers -> SUBSET queued]
    /\ queued \subseteq Events /\ due \subseteq queued /\ processed \subseteq queued

(* Who may hold an event: until it is delivered one worker, unless two     *)
(* fetched it; once it is delivered the worker about to mark it, or nobody *)
(* when it is marked.                                                      *)
Holding ==
    /\ \A w \in Workers : at[w] = "idle" => batch[w] = {}
    /\ \A w \in Workers, e \in Events :
          at[w] \in {"send", "backoff", "succeeded"} /\ Current(w, e) => e \in Deliverable
    /\ \A w \in Workers, e \in Events :
          at[w] = "succeeded" /\ Current(w, e) => story[e] \notin {"new", "shared"}
    /\ \A e \in Events : story[e] \in {"new", "delivered"} =>
          \A v, w \in Workers : e \in batch[v] \cap batch[w] => v = w
    /\ \A e \in Events : story[e] = "delivered" =>
          /\ \A w \in Workers : e \in batch[w] => at[w] = "succeeded" /\ Current(w, e)
          /\ e \notin processed => \E w \in Workers : e \in batch[w]

OutboxInv == TypeOK /\ Holding

(* An event is marked only after the remote side has had it, whatever      *)
(* fails or restarts in between, and one without a handler never.          *)
ProcessedWasDelivered ==
    \A e \in processed : e \in Deliverable /\ story[e] \notin {"new", "shared"}

(* Delivery is at least once.  A second one needs an answer or a mark that *)
(* was lost, a restart in between, or a second worker that fetched the     *)
(* event while the first was still at it, which the row lock of            *)
(* FetchPending, released with its transaction, does not prevent.          *)
DuplicateHasCause == \A e \in Events : story[e] # "duplicate"

Drained == queued \cap Deliverable \subseteq processed

(* From some time on the delays of MarkFailed outlast the backlog: no      *)
(* event falls due again while a younger one waits that can be delivered.  *)
(* LIMIT takes the oldest first and attempts are not limited, so events    *)
(* that always fail and come back sooner would keep the younger ones out.  *)
DelaysOutlastBacklog ==
    <>[][\A e \in queued \cap (due' \ due) : Waiting \subseteq 0 .. e]_outboxVars

(* Then no older event, full batch, open circuit, lost mark or restart     *)
(* keeps an event with a handler and a good URL from being processed in    *)
(* the end.                                                                *)
OutboxDrains == DelaysOutlastBacklog => []<>Drained

=============================================================================
