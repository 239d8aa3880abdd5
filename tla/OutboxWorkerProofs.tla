-------------------------- MODULE OutboxWorkerProofs --------------------------
(***************************************************************************)
(* The safety of the outbox and of the circuit breaker, for any number of  *)
(* workers, events, retries and restarts.                                  *)
(*                                                                         *)
(* Why an event is delivered twice only with a cause needs Holding: an     *)
(* event that was delivered without one is either about to be marked by    *)
(* the only worker that holds it, or marked and held by nobody.            *)
(***************************************************************************)
EXTENDS OutboxWorker, TLAPS

LEMMA StoryFacts ==
    ASSUME NEW s \in Stories
    PROVE  /\ Delivered(s) \in Stories /\ Excused(s) \in Stories /\ Again(s) \in Stories
           /\ Delivered(s) \notin {"new", "shared"}
           /\ Delivered(s) = "delivered" => s = "new"
           /\ Delivered(s) = "duplicate" => s \in {"delivered", "duplicate"}
           /\ Excused(s) \notin {"new", "delivered"}
           /\ Excused(s) = "duplicate" => s = "duplicate"
           /\ Excused(s) = "shared" => s \in {"new", "shared"}
           /\ Again(s) # "delivered"
           /\ Again(s) \in {"new", "shared", "duplicate"} => s = Again(s)
<1> USE DEF Stories, Delivered, Excused, Again
<1>1. CASE s = "new"
  BY <1>1
<1>2. CASE s = "shared"
  BY <1>2
<1>3. CASE s = "delivered"
  BY <1>3
<1>4. CASE s \in {"excused", "duplicate"}
  BY <1>4
<1> QED
  BY <1>1, <1>2, <1>3, <1>4

LEMMA InitOutbox == OutboxInit => OutboxInv
<1> SUFFICES ASSUME OutboxInit PROVE OutboxInv
  OBVIOUS
<1> USE OutboxAssumption, ClientAssumption DEF OutboxInit, ClientInit, Workers
<1>1. TypeOK
  <2>1. at \in [Workers -> Places] /\ attempt \in [Workers -> 0 .. maxRetries]
    BY DEF Places
  <2>2. kind \in [Events -> Kinds] /\ story \in [Events -> Stories]
    BY DEF Stories
  <2> QED
    BY <2>1, <2>2 DEF TypeOK
<1>2. Holding
  BY DEF Holding
<1> QED
  BY <1>1, <1>2 DEF OutboxInv

-----------------------------------------------------------------------------
(* What is common to the steps of a worker inside the client. *)

LEMMA ClientTypes ==
    ASSUME TypeOK, NEW w \in Workers, NEW valid, NEW idempotent,
           Refuse(w, valid) \/ Begin(w, valid) \/ Succeed(w)
             \/ Fail(w, idempotent) \/ Retry(w) \/ Count(w) \/ Open(w)
    PROVE  /\ at' \in [Workers -> Places]
           /\ attempt' \in [Workers -> 0 .. maxRetries]
           /\ failureCount' \in Nat /\ sleeping' \in Nat /\ waking' \in Nat
           /\ circuitOpen' \in BOOLEAN
<1> USE ClientAssumption DEF TypeOK, Workers, Places, Move, breakerVars
<1>1. CASE Refuse(w, valid) \/ Begin(w, valid)
  BY <1>1 DEF Refuse, Begin
<1>2. CASE Succeed(w) \/ Fail(w, idempotent)
  BY <1>2 DEF Succeed, Fail
<1>3. CASE Retry(w)
  BY <1>3 DEF Retry
<1>4. CASE Count(w)
  <2>1. failureCount' \in Nat
    BY <1>4 DEF Count, Capped
  <2>2. PICK to \in {"open", "failed"} : Move(w, "count", to)
    BY <1>4 DEF Count
  <2>3. at' \in [Workers -> Places]
    BY <2>2
  <2> QED
    BY <1>4, <2>1, <2>3 DEF Count
<1>5. CASE Open(w)
  BY <1>5 DEF Open
<1> QED
  BY <1>1, <1>2, <1>3, <1>4, <1>5

(* A worker that moves on with its batch as it is, short of "succeeded". *)
LEMMA MovesOn ==
    ASSUME OutboxInv, TypeOK', NEW w \in Workers, NEW from \in Places \ {"idle", "succeeded"},
           NEW to \in Places \ {"idle", "succeeded"},
           Move(w, from, to), UNCHANGED <<tableVars, batch>>,
           \A e \in Events : Current(w, e) /\ to \in {"send", "backoff"} => e \in Deliverable,
           \A e \in Events : story'[e] # story[e] =>
               Current(w, e) /\ story'[e] = "excused"
    PROVE  Holding'
<1> USE DEF OutboxInv, TypeOK, Workers, Move, Current, tableVars
<1>1. at' = [at EXCEPT ![w] = to] /\ at[w] = from
  OBVIOUS
<1>2. (\A v \in Workers : at[v] = "idle" => batch[v] = {})'
  BY <1>1 DEF Holding
<1>3. \A v \in Workers, e \in Events :
          at'[v] \in {"send", "backoff", "succeeded"} /\ Current(v, e)' => e \in Deliverable'
  BY <1>1 DEF Holding, Deliverable
<1>4. \A v \in Workers, e \in Events :
          at'[v] = "succeeded" /\ Current(v, e)' => story'[e] \notin {"new", "shared"}
  <2> SUFFICES ASSUME NEW v \in Workers, NEW e \in Events, at'[v] = "succeeded", Current(v, e)'
               PROVE  story'[e] \notin {"new", "shared"}
    OBVIOUS
  <2>1. at[v] = "succeeded" /\ Current(v, e) /\ v # w
    BY <1>1
  <2>2. story[e] \notin {"new", "shared"}
    BY <2>1 DEF Holding
  <2>3. CASE story'[e] # story[e]
    BY <2>2, <2>3
  <2> QED
    BY <2>2, <2>3
<1>5. \A e \in Events : story'[e] \in {"new", "delivered"} => story[e] = story'[e]
  OBVIOUS
<1>6. \A e \in Events : story'[e] \in {"new", "delivered"} =>
          \A u, v \in Workers : e \in batch'[u] \cap batch'[v] => u = v
  BY <1>5 DEF Holding
<1>7. \A e \in Events : story'[e] = "delivered" =>
          /\ \A v \in Workers : e \in batch'[v] => at'[v] = "succeeded" /\ Current(v, e)'
          /\ e \notin processed' => \E v \in Workers : e \in batch'[v]
  BY <1>1, <1>5 DEF Holding
<1> QED
  BY <1>2, <1>3, <1>4, <1>6, <1>7 DEF Holding

(* A worker that goes on to its next event, which it cannot hold twice. *)
LEMMA Finishes ==
    ASSUME OutboxInv, TypeOK', NEW w \in Workers, NEW e \in Events,
           NEW from \in Places \ {"idle"}, Finish(w, from, e),
           processed \subseteq processed',
           from = "succeeded" => e \in processed' \/ story' = [story EXCEPT ![e] = Again(@)],
           story' = story \/ story' = [story EXCEPT ![e] = Again(@)]
    PROVE  Holding'
<1> USE DEF OutboxInv, TypeOK, Workers, Finish, Move, Current
<1>0. Again(story[e]) \in Stories /\ Again(story[e]) # "delivered"
      /\ (Again(story[e]) = "new" => story[e] = "new")
      /\ (Again(story[e]) \in {"new", "shared"} => story[e] \in {"new", "shared"})
  BY StoryFacts
<1>1. at' = [at EXCEPT ![w] = "work"] /\ at[w] = from /\ batch' = [batch EXCEPT ![w] = batch[w] \ {e}]
      /\ kind' = kind
  OBVIOUS
<1>2. (\A v \in Workers : at[v] = "idle" => batch[v] = {})'
  BY <1>1 DEF Holding
<1>3. \A v \in Workers, f \in Events :
          at'[v] \in {"send", "backoff", "succeeded"} /\ Current(v, f)' => f \in Deliverable'
  BY <1>1 DEF Holding, Deliverable
<1>4. \A v \in Workers, f \in Events :
          at'[v] = "succeeded" /\ Current(v, f)' => story'[f] \notin {"new", "shared"}
  <2> SUFFICES ASSUME NEW v \in Workers, NEW f \in Events, at'[v] = "succeeded", Current(v, f)'
               PROVE  story'[f] \notin {"new", "shared"}
    OBVIOUS
  <2>1. at[v] = "succeeded" /\ Current(v, f)
    BY <1>1
  <2>2. story[f] \notin {"new", "shared"}
    BY <2>1 DEF Holding
  <2> QED
    BY <1>0, <2>2
<1>5. \A f \in Events : story'[f] \in {"new", "delivered"} => story[f] = story'[f]
  BY <1>0
<1>6. \A f \in Events : story'[f] \in {"new", "delivered"} =>
          \A u, v \in Workers : f \in batch'[u] \cap batch'[v] => u = v
  BY <1>1, <1>5 DEF Holding
<1>7. \A f \in Events : story'[f] = "delivered" =>
          /\ \A v \in Workers : f \in batch'[v] => at'[v] = "succeeded" /\ Current(v, f)'
          /\ f \notin processed' => \E v \in Workers : f \in batch'[v]
  <2> SUFFICES ASSUME NEW f \in Events, story'[f] = "delivered"
               PROVE  /\ \A v \in Workers : f \in batch'[v] => at'[v] = "succeeded" /\ Current(v, f)'
                      /\ f \notin processed' => \E v \in Workers : f \in batch'[v]
    OBVIOUS
  <2>1. story[f] = "delivered"
    BY <1>5
  <2>2. \A v \in Workers : f \in batch[v] => at[v] = "succeeded" /\ Current(v, f)
    BY <2>1 DEF Holding
  <2>3. ASSUME NEW v \in Workers, f \in batch'[v]
        PROVE  at'[v] = "succeeded" /\ Current(v, f)'
    <3>1. f \in batch[v] /\ (v = w => f # e)
      BY <1>1, <2>3
    <3>2. v # w
      <4>1. v = w => e = f
        BY <2>2, <3>1, OutboxAssumption
      <4> QED
        BY <3>1, <4>1
    <3> QED
      BY <1>1, <2>2, <3>1, <3>2
  <2>4. ASSUME f \notin processed'
        PROVE  \E v \in Workers : f \in batch'[v]
    <3>1. PICK v \in Workers : f \in batch[v]
      BY <2>1, <2>4 DEF Holding
    <3>2. f # e \/ v # w
      <4>1. ASSUME f = e, v = w PROVE FALSE
        <5>1. from = "succeeded"
          BY <1>1, <2>2, <3>1, <4>1
        <5>2. story'[e] = Again(story[e])
          BY <2>4, <4>1, <5>1
        <5> QED
          BY <1>0, <4>1, <5>2
      <4> QED
        BY <4>1
    <3> QED
      BY <1>1, <3>1, <3>2
  <2> QED
    BY <2>3, <2>4
<1> QED
  BY <1>2, <1>3, <1>4, <1>6, <1>7 DEF Holding

(* A worker that returns with nothing on its way to be marked. *)
LEMMA Returns ==
    ASSUME OutboxInv, NEW w \in Workers, NEW from \in Places \ {"idle", "succeeded"}, Return(w, from)
    PROVE  OutboxInv'
<1> USE DEF OutboxInv, TypeOK, Workers, Return, Move, Current, breakerVars, tableVars, envVars
<1>1. at' = [at EXCEPT ![w] = "idle"] /\ at[w] = from /\ batch' = [batch EXCEPT ![w] = {}]
  OBVIOUS
<1>2. TypeOK'
  BY DEF Places
<1>3. \A e \in Events : story[e] = "delivered" => e \notin batch[w]
  BY <1>1 DEF Holding
<1>4. \A v \in Workers, e \in Events : Current(v, e)' => v # w /\ Current(v, e)
  BY <1>1
<1>5. \A e \in Events : story'[e] = "delivered" =>
          /\ \A v \in Workers : e \in batch'[v] => at'[v] = "succeeded" /\ Current(v, e)'
          /\ e \notin processed' => \E v \in Workers : e \in batch'[v]
  BY <1>1, <1>3 DEF Holding
<1>6. \A e \in Events : story'[e] \in {"new", "delivered"} =>
          \A u, v \in Workers : e \in batch'[u] \cap batch'[v] => u = v
  BY <1>1 DEF Holding
<1>7. \A v \in Workers, e \in Events :
          /\ at'[v] \in {"send", "backoff", "succeeded"} /\ Current(v, e)' => e \in Deliverable'
          /\ at'[v] = "succeeded" /\ Current(v, e)' => story'[e] \notin {"new", "shared"}
  BY <1>1, <1>4 DEF Holding, Deliverable
<1>8. (\A v \in Workers : at[v] = "idle" => batch[v] = {})'
  BY <1>1 DEF Holding
<1> QED
  BY <1>2, <1>5, <1>6, <1>7, <1>8 DEF Holding

(* Fetching: the event of another worker is one both may deliver. *)
LEMMA FetchSafe ==
    ASSUME OutboxInv, NEW w \in Workers, Fetch(w)
    PROVE  OutboxInv'
<1> USE DEF OutboxInv, TypeOK, Workers, Move, Current, breakerVars, tableVars, envVars
<1>1. PICK rows \in SUBSET (Pending \ Locked(w)) :
          /\ batch' = [batch EXCEPT ![w] = rows]
          /\ story' = [e \in Events |-> IF e \in rows \cap Others(w) THEN Excused(story[e]) ELSE story[e]]
  BY DEF Fetch
<1>2. /\ at' = [at EXCEPT ![w] = "fetch"] /\ at[w] = "idle" /\ batch[w] = {}
      /\ UNCHANGED <<attempt, breakerVars, tableVars, envVars>>
  BY DEF Fetch, Holding
<1>3. rows \subseteq queued /\ rows \cap processed = {}
  BY DEF Pending
<1>4. \A e \in Others(w) : \E v \in Workers \ {w} : e \in batch[v]
  BY DEF Others
<1>5. \A e \in Events, v \in Workers : v # w /\ e \in batch[v] => e \in Others(w)
  BY DEF Others
<1>6. \A e \in Events : story'[e] \in Stories
  BY <1>1, StoryFacts
<1>7. TypeOK'
  <2>1. at' \in [Workers -> Places]
    BY <1>2 DEF Places
  <2>2. batch' \in [Workers -> SUBSET queued]
    BY <1>1, <1>3
  <2>3. story' \in [Events -> Stories]
    BY <1>1, <1>6
  <2> QED
    BY <1>2, <2>1, <2>2, <2>3
<1>8. \A e \in Events : story'[e] \in {"new", "delivered"} => story'[e] = story[e] /\ e \notin rows \cap Others(w)
  BY <1>1, StoryFacts
<1>9. \A e \in Events : story'[e] \in {"new", "shared"} => story[e] \in {"new", "shared"}
  BY <1>1, StoryFacts
<1>10. \A e \in Events : story'[e] \in {"new", "delivered"} =>
           \A u, v \in Workers : e \in batch'[u] \cap batch'[v] => u = v
  <2> SUFFICES ASSUME NEW e \in Events, story'[e] \in {"new", "delivered"},
                      NEW u \in Workers, NEW v \in Workers, e \in batch'[u] \cap batch'[v], u # v
               PROVE  FALSE
    OBVIOUS
  <2>1. CASE u # w /\ v # w
    BY <1>1, <1>8, <2>1 DEF Holding
  <2>2. CASE u = w
    BY <1>1, <1>5, <1>8, <2>2
  <2>3. CASE v = w
    BY <1>1, <1>5, <1>8, <2>3
  <2> QED
    BY <2>1, <2>2, <2>3
<1>11. \A e \in Events : story'[e] = "delivered" =>
           /\ \A v \in Workers : e \in batch'[v] => at'[v] = "succeeded" /\ Current(v, e)'
           /\ e \notin processed' => \E v \in Workers : e \in batch'[v]
  <2> SUFFICES ASSUME NEW e \in Events, story'[e] = "delivered"
               PROVE  /\ \A v \in Workers : e \in batch'[v] => at'[v] = "succeeded" /\ Current(v, e)'
                      /\ e \notin processed' => \E v \in Workers : e \in batch'[v]
    OBVIOUS
  <2>1. story[e] = "delivered" /\ e \notin rows \cap Others(w)
    BY <1>8
  <2>2. e \notin processed => e \in Others(w)
    BY <1>2, <1>5, <2>1 DEF Holding
  <2>3. e \notin rows
    BY <1>3, <2>1, <2>2
  <2>4. \A v \in Workers : v # w => batch'[v] = batch[v] /\ at'[v] = at[v]
    BY <1>1, <1>2
  <2>5. \A v \in Workers : e \in batch'[v] => v # w
    BY <1>1, <2>3
  <2>6. \A v \in Workers : e \in batch'[v] => at'[v] = "succeeded" /\ Current(v, e)'
    BY <2>1, <2>4, <2>5 DEF Holding
  <2>7. e \notin processed' => \E v \in Workers : e \in batch'[v]
    BY <1>2, <1>4, <2>2, <2>4
  <2> QED
    BY <2>6, <2>7
<1>12. \A v \in Workers, e \in Events :
           at'[v] \in {"send", "backoff", "succeeded"} /\ Current(v, e)' => at[v] = at'[v] /\ Current(v, e)
  BY <1>1, <1>2
<1>13. \A v \in Workers, e \in Events :
           /\ at'[v] \in {"send", "backoff", "succeeded"} /\ Current(v, e)' => e \in Deliverable'
           /\ at'[v] = "succeeded" /\ Current(v, e)' => story'[e] \notin {"new", "shared"}
  BY <1>2, <1>9, <1>12 DEF Holding, Deliverable
<1>14. (\A v \in Workers : at[v] = "idle" => batch[v] = {})'
  BY <1>1, <1>2 DEF Holding
<1> QED
  BY <1>7, <1>10, <1>11, <1>13, <1>14 DEF Holding

(* An answer arrives: a first delivery, or one somebody else may repeat. *)
LEMMA AnsweredSafe ==
    ASSUME OutboxInv, NEW w \in Workers, NEW e \in Events, Answered(w, e)
    PROVE  OutboxInv'
<1> USE DEF OutboxInv, TypeOK, Workers, Move, Current, tableVars, envVars
<1>1. /\ at' = [at EXCEPT ![w] = "succeeded"] /\ at[w] = "send"
      /\ Current(w, e) /\ story' = [story EXCEPT ![e] = Delivered(story[e])]
      /\ UNCHANGED <<batch, tableVars, envVars>>
  BY DEF Answered, Reaches, Succeed, InClient
<1>2. TypeOK'
  <2>1. /\ at' \in [Workers -> Places] /\ attempt' \in [Workers -> 0 .. maxRetries]
        /\ failureCount' \in Nat /\ sleeping' \in Nat /\ waking' \in Nat /\ circuitOpen' \in BOOLEAN
    BY ClientTypes DEF Answered
  <2>2. story' \in [Events -> Stories]
    BY <1>1, StoryFacts
  <2> QED
    BY <1>1, <2>1, <2>2
<1>3. story[e] # "delivered"
  BY <1>1 DEF Holding
<1>4. Delivered(story[e]) \notin {"new", "shared"} /\ (Delivered(story[e]) = "delivered" => story[e] = "new")
  BY StoryFacts
<1>5. \A v \in Workers, f \in Events :
          /\ at'[v] \in {"send", "backoff", "succeeded"} /\ Current(v, f)' => f \in Deliverable'
          /\ at'[v] = "succeeded" /\ Current(v, f)' => story'[f] \notin {"new", "shared"}
  <2> SUFFICES ASSUME NEW v \in Workers, NEW f \in Events,
                      at'[v] \in {"send", "backoff", "succeeded"}, Current(v, f)'
               PROVE  f \in Deliverable' /\ (at'[v] = "succeeded" => story'[f] \notin {"new", "shared"})
    OBVIOUS
  <2>1. CASE v = w
    <3>1. f = e
      BY <1>1, <2>1, OutboxAssumption
    <3> QED
      BY <1>1, <1>4, <2>1, <3>1 DEF Holding, Deliverable
  <2>2. CASE v # w
    <3>1. at[v] = at'[v] /\ Current(v, f)
      BY <1>1, <2>2
    <3>2. f \in Deliverable /\ (at[v] = "succeeded" => story[f] \notin {"new", "shared"})
      BY <3>1 DEF Holding
    <3> QED
      BY <1>1, <1>4, <3>1, <3>2 DEF Deliverable
  <2> QED
    BY <2>1, <2>2
<1>6. \A f \in Events : story'[f] \in {"new", "delivered"} =>
          (f # e /\ story[f] = story'[f]) \/ (f = e /\ story[f] = "new")
  <2> SUFFICES ASSUME NEW f \in Events, story'[f] \in {"new", "delivered"}
               PROVE  (f # e /\ story[f] = story'[f]) \/ (f = e /\ story[f] = "new")
    OBVIOUS
  <2>1. CASE f = e
    BY <1>1, <1>4, <2>1
  <2>2. CASE f # e
    BY <1>1, <2>2
  <2> QED
    BY <2>1, <2>2
<1>7. \A f \in Events : story'[f] \in {"new", "delivered"} =>
          \A u, v \in Workers : f \in batch'[u] \cap batch'[v] => u = v
  BY <1>1, <1>6 DEF Holding
<1>8. \A f \in Events : story'[f] = "delivered" =>
          /\ \A v \in Workers : f \in batch'[v] => at'[v] = "succeeded" /\ Current(v, f)'
          /\ f \notin processed' => \E v \in Workers : f \in batch'[v]
  <2> SUFFICES ASSUME NEW f \in Events, story'[f] = "delivered"
               PROVE  /\ \A v \in Workers : f \in batch'[v] => at'[v] = "succeeded" /\ Current(v, f)'
                      /\ f \notin processed' => \E v \in Workers : f \in batch'[v]
    OBVIOUS
  <2>1. CASE f = e
    <3>1. story[e] = "new"
      BY <1>6, <2>1
    <3>2. \A v \in Workers : e \in batch[v] => v = w
      BY <1>1, <3>1 DEF Holding
    <3> QED
      BY <1>1, <2>1, <3>2
  <2>2. CASE f # e
    <3>1. story[f] = "delivered"
      BY <1>1, <2>2
    <3> QED
      BY <1>1, <3>1 DEF Holding
  <2> QED
    BY <2>1, <2>2
<1>9. (\A v \in Workers : at[v] = "idle" => batch[v] = {})'
  BY <1>1 DEF Holding
<1> QED
  BY <1>2, <1>5, <1>7, <1>8, <1>9 DEF Holding

LEMMA RestartSafe ==
    ASSUME OutboxInv, Restart
    PROVE  OutboxInv'
<1> USE DEF OutboxInv, TypeOK, Workers, Current, tableVars
<1>1. /\ at' = [w \in Workers |-> "idle"] /\ batch' = [w \in Workers |-> {}]
      /\ UNCHANGED tableVars
  BY DEF Restart, NewClient
<1>2. \A e \in Events : story'[e] = IF \E w \in Workers : at[w] = "succeeded" /\ Current(w, e)
                                   THEN Again(story[e]) ELSE story[e]
  BY DEF Restart
<1>3. TypeOK'
  <2>1. story' \in [Events -> Stories]
    BY <1>2, StoryFacts DEF Restart
  <2>2. at' \in [Workers -> Places] /\ attempt' \in [Workers -> 0 .. maxRetries]
    BY ClientAssumption DEF Restart, NewClient, Places
  <2> QED
    BY <1>1, <2>1, <2>2 DEF Restart, NewClient
<1>4. \A e \in Events : story'[e] = "delivered" => e \in processed'
  <2> SUFFICES ASSUME NEW e \in Events, story'[e] = "delivered", e \notin processed
               PROVE  FALSE
    BY <1>1
  <2>1. story[e] = "delivered" /\ ~\E w \in Workers : at[w] = "succeeded" /\ Current(w, e)
    BY <1>2, StoryFacts
  <2> QED
    BY <2>1 DEF Holding
<1>5. \A w \in Workers, e \in Events : at'[w] = "idle" /\ batch'[w] = {} /\ ~Current(w, e)'
  BY <1>1
<1>6. \A e \in Events : \A w \in Workers : e \notin batch'[w]
  BY <1>1
<1>7. Holding'
  <2>1. (\A w \in Workers : at[w] = "idle" => batch[w] = {})'
    BY <1>1
  <2>2. \A w \in Workers, e \in Events :
            /\ at'[w] \in {"send", "backoff", "succeeded"} /\ Current(w, e)' => e \in Deliverable'
            /\ at'[w] = "succeeded" /\ Current(w, e)' => story'[e] \notin {"new", "shared"}
    BY <1>5
  <2>3. \A e \in Events : story'[e] \in {"new", "delivered"} =>
            \A u, v \in Workers : e \in batch'[u] \cap batch'[v] => u = v
    BY <1>6
  <2>4. \A e \in Events : story'[e] = "delivered" =>
            /\ \A v \in Workers : e \in batch'[v] => at'[v] = "succeeded" /\ Current(v, e)'
            /\ e \notin processed' => \E v \in Workers : e \in batch'[v]
    BY <1>4, <1>6
  <2> QED
    BY <2>1, <2>2, <2>3, <2>4 DEF Holding
<1> QED
  BY <1>3, <1>7

(* The other steps of a worker. *)
LEMMA WorkerSafe ==
    ASSUME OutboxInv, NEW w \in Workers, WorkerStep(w)
    PROVE  OutboxInv'
<1> USE DEF OutboxInv
<1>1. CASE Fetch(w)
  BY <1>1, FetchSafe
<1>2. CASE Commit(w)
  <2>1. TypeOK'
    BY <1>2 DEF Commit, Move, Places, TypeOK, Workers, breakerVars, tableVars, envVars
  <2>2. Holding'
    BY <1>2, <2>1, MovesOn DEF Commit, Places
  <2> QED
    BY <2>1, <2>2
<1>3. CASE BatchDone(w) \/ Canceled(w)
  BY <1>3, Returns DEF BatchDone, Canceled, Places
<1>4. CASE ClientStep(w)
  <2>1. TypeOK'
    BY <1>4, ClientTypes DEF ClientStep, OutboxStays, InClient, TypeOK, tableVars, envVars
  <2>2. PICK from \in {"backoff", "count", "open"}, to \in {"send", "count", "open", "failed"} :
            Move(w, from, to) /\ (to = "send" => from = "backoff")
    BY <1>4 DEF ClientStep, Retry, Count, Open
  <2>3. \A e \in Events : Current(w, e) /\ to \in {"send", "backoff"} => e \in Deliverable
    BY <2>2 DEF Move, Holding
  <2>4. Holding'
    BY <1>4, <2>1, <2>2, <2>3, MovesOn DEF ClientStep, OutboxStays, InClient, Places
  <2> QED
    BY <2>1, <2>4
<1>5. ASSUME NEW e \in Events, Call(w, e)
      PROVE  OutboxInv'
  <2>1. TypeOK'
    BY <1>5, ClientTypes DEF Call, OutboxStays, InClient, TypeOK, tableVars, envVars
  <2>2. PICK to \in {"send", "failed"} : Move(w, "work", to) /\ (to = "send" => kind[e] # "invalid")
    BY <1>5 DEF Call, Refuse, Begin
  <2>3. \A f \in Events : Current(w, f) /\ to \in {"send", "backoff"} => f \in Deliverable
    <3> SUFFICES ASSUME NEW f \in Events, Current(w, f), to = "send"
                 PROVE  f \in Deliverable
      OBVIOUS
    <3>1. f = e
      BY <1>5, OutboxAssumption DEF Call, Current
    <3> QED
      BY <1>5, <2>2, <3>1 DEF Call, Deliverable, TypeOK, Kinds
  <2>4. Holding'
    BY <1>5, <2>1, <2>2, <2>3, MovesOn DEF Call, OutboxStays, InClient, Places
  <2> QED
    BY <2>1, <2>4
<1>6. ASSUME NEW e \in Events, NotAnswered(w, e)
      PROVE  OutboxInv'
  <2>1. PICK to \in {"backoff", "count"} : Move(w, "send", to)
    <3>1. CASE kind[e] = "get"
      BY <1>6, <3>1 DEF NotAnswered, Fail
    <3>2. CASE kind[e] # "get"
      BY <1>6, <3>2 DEF NotAnswered, Fail
    <3> QED
      BY <3>1, <3>2
  <2>2. story[e] # "delivered"
    BY <1>6, <2>1 DEF NotAnswered, Holding, Move, Current
  <2>3. Again(Delivered(story[e])) \in Stories
        /\ (Again(Delivered(story[e])) # story[e] => Again(Delivered(story[e])) = "excused")
    <3>1. story[e] \in {"new", "shared", "excused", "duplicate"}
      BY <2>2 DEF TypeOK, Stories
    <3> QED
      BY <3>1 DEF Delivered, Again, Stories
  <2>4. TypeOK'
    <3>1. story' \in [Events -> Stories]
      BY <1>6, <2>3 DEF NotAnswered, TypeOK
    <3> QED
      BY <1>6, <3>1, ClientTypes DEF NotAnswered, InClient, TypeOK, tableVars, envVars
  <2>5. \A f \in Events : story'[f] # story[f] => Current(w, f) /\ story'[f] = "excused"
    BY <1>6, <2>3 DEF NotAnswered, TypeOK
  <2>6. \A f \in Events : Current(w, f) /\ to \in {"send", "backoff"} => f \in Deliverable
    BY <2>1 DEF Move, Holding
  <2>7. UNCHANGED <<tableVars, batch>>
    BY <1>6 DEF NotAnswered, InClient
  <2>8. Holding'
    BY <2>1, <2>4, <2>5, <2>6, <2>7, MovesOn DEF Places
  <2> QED
    BY <2>4, <2>8
<1>7. ASSUME NEW e \in Events, Answered(w, e)
      PROVE  OutboxInv'
  BY <1>7, AnsweredSafe
<1>8. ASSUME NEW e \in Events, NoHandler(w, e) \/ Failed(w, e) \/ Processed(w, e) \/ ProcessedLost(w, e)
      PROVE  OutboxInv'
  <2>1. PICK from \in {"work", "failed", "succeeded"} :
            /\ Finish(w, from, e)
            /\ from = "succeeded" => e \in processed' \/ story' = [story EXCEPT ![e] = Again(@)]
            /\ story' = story \/ story' = [story EXCEPT ![e] = Again(@)]
            /\ processed' \in {processed, processed \cup {e}}
            /\ due' \in {due, due \ {e}}
    BY <1>8 DEF NoHandler, Failed, MarkFailed, Processed, ProcessedLost
  <2>2. e \in queued
    BY <2>1 DEF Finish, Current, TypeOK
  <2>3. TypeOK'
    <3>1. story' \in [Events -> Stories]
      BY <2>1, StoryFacts DEF TypeOK
    <3> QED
      BY <2>1, <2>2, <3>1 DEF Finish, Move, Places, TypeOK, Workers, breakerVars, envVars
  <2>4. Holding'
    BY <2>1, <2>3, Finishes DEF Places
  <2> QED
    BY <2>3, <2>4
<1> QED
  BY <1>1, <1>2, <1>3, <1>4, <1>5, <1>6, <1>7, <1>8 DEF WorkerStep

LEMMA StepOutbox ==
    ASSUME OutboxInv, [OutboxNext]_outboxVars
    PROVE  OutboxInv'
<1>1. CASE UNCHANGED outboxVars
  <2>1. UNCHANGED <<clientVars, tableVars, batch, envVars, story>>
    BY <1>1 DEF outboxVars
  <2>2. TypeOK' /\ Holding'
    BY <2>1 DEF OutboxInv, TypeOK, Holding, Current, Deliverable, clientVars, callVars, breakerVars, tableVars, envVars
  <2> QED
    BY <2>2 DEF OutboxInv
<1>2. CASE Restart
  BY <1>2, RestartSafe
<1>3. CASE Goroutine /\ OutboxStays
  <2>1. UNCHANGED <<callVars, tableVars, batch, envVars, story>>
    BY <1>3 DEF Goroutine, Wake, CloseCircuit, OutboxStays, InClient
  <2>2. sleeping' \in Nat /\ waking' \in Nat /\ failureCount' \in Nat /\ circuitOpen' \in BOOLEAN
    <3>1. sleeping \in Nat /\ waking \in Nat /\ failureCount \in Nat /\ circuitOpen \in BOOLEAN
      BY DEF OutboxInv, TypeOK
    <3>2. CASE Wake
      BY <3>1, <3>2 DEF Wake
    <3>3. CASE CloseCircuit
      <4>1. waking' \in Nat
        BY <3>1, <3>3 DEF CloseCircuit
      <4> QED
        BY <3>1, <3>3, <4>1 DEF CloseCircuit
    <3> QED
      BY <1>3, <3>2, <3>3 DEF Goroutine
  <2>3. TypeOK' /\ Holding'
    BY <2>1, <2>2 DEF OutboxInv, TypeOK, Holding, Current, Deliverable, callVars, tableVars, envVars
  <2> QED
    BY <2>3 DEF OutboxInv
<1>4. CASE Stop
  BY <1>4 DEF Stop, OutboxInv, TypeOK, Holding, Current, Deliverable, clientVars, callVars, breakerVars, tableVars
<1>5. CASE \E e \in Events : Enqueue(e) \/ Due(e)
  <2>1. PICK e \in Events : Enqueue(e) \/ Due(e)
    BY <1>5
  <2>2. /\ UNCHANGED <<clientVars, kind, processed, batch, envVars, story>>
        /\ queued \subseteq queued' /\ queued' \subseteq Events /\ due' \subseteq queued'
    BY <2>1 DEF Enqueue, Due, OutboxInv, TypeOK
  <2> QED
    BY <2>2 DEF OutboxInv, TypeOK, Holding, Current, Deliverable, clientVars, callVars, breakerVars, envVars
<1>6. CASE \E w \in Workers : WorkerStep(w)
  BY <1>6, WorkerSafe
<1> QED
  BY <1>1, <1>2, <1>3, <1>4, <1>5, <1>6 DEF OutboxNext, Around

(* Who holds an event says how often it may have been delivered, for every *)
(* order of fetches, answers, lost marks, stops and crashes.               *)
THEOREM OutboxInvariant == OutboxSpec => []OutboxInv
  BY InitOutbox, StepOutbox, PTL DEF OutboxSpec

(* Only an answer can make a delivery the second one, and the worker that  *)
(* receives it does not hold an event that was delivered before.           *)
LEMMA StepDuplicate ==
    ASSUME OutboxInv, DuplicateHasCause, [OutboxNext]_outboxVars
    PROVE  DuplicateHasCause'
<1> SUFFICES ASSUME NEW e \in Events
             PROVE  story'[e] # "duplicate"
  BY DEF DuplicateHasCause
<1>0. story \in [Events -> Stories] /\ story[e] # "duplicate"
  BY DEF OutboxInv, TypeOK, DuplicateHasCause
<1>1. ASSUME NEW w \in Workers, NEW f \in Events, Answered(w, f) \/ NotAnswered(w, f)
      PROVE  story'[e] # "duplicate"
  <2>1. at[w] = "send" /\ Current(w, f)
    BY <1>1 DEF Answered, Reaches, Succeed, NotAnswered, Fail, Move
  <2>2. story[f] # "delivered"
    BY <2>1 DEF OutboxInv, Holding, Current
  <2>3. f = e => Delivered(story[e]) # "duplicate" /\ Again(Delivered(story[e])) # "duplicate"
    BY <1>0, <2>2, StoryFacts
  <2> QED
    BY <1>0, <1>1, <2>3 DEF Answered, Reaches, NotAnswered
<1>2. ASSUME NEW w \in Workers, Fetch(w)
      PROVE  story'[e] # "duplicate"
  BY <1>0, <1>2, StoryFacts DEF Fetch
<1>3. ASSUME NEW w \in Workers, NEW f \in Events, ProcessedLost(w, f)
      PROVE  story'[e] # "duplicate"
  BY <1>0, <1>3, StoryFacts DEF ProcessedLost
<1>4. CASE Restart
  BY <1>0, <1>4, StoryFacts DEF Restart
<1>5. CASE UNCHANGED story
  BY <1>0, <1>5
<1>6. CASE Around /\ ~Restart
  BY <1>5, <1>6 DEF Around, Enqueue, Due, Stop, OutboxStays
<1>7. ASSUME NEW w \in Workers, WorkerStep(w)
      PROVE  story'[e] # "duplicate"
  <2>1. CASE Commit(w) \/ BatchDone(w) \/ Canceled(w) \/ ClientStep(w)
    BY <1>5, <2>1 DEF Commit, BatchDone, Canceled, Return, ClientStep, OutboxStays
  <2>2. CASE \E f \in Events : NoHandler(w, f) \/ Call(w, f) \/ Failed(w, f) \/ Processed(w, f)
    BY <1>5, <2>2 DEF NoHandler, Call, Failed, MarkFailed, Processed, OutboxStays
  <2> QED
    BY <1>1, <1>2, <1>3, <1>7, <2>1, <2>2 DEF WorkerStep
<1> QED
  BY <1>4, <1>5, <1>6, <1>7 DEF OutboxNext, outboxVars

(* No event reaches the remote side again without a lost answer, a lost    *)
(* mark, a restart or a second worker that fetched it meanwhile.           *)
THEOREM DuplicatesHaveCauses == OutboxSpec => []DuplicateHasCause
<1>1. OutboxInit => DuplicateHasCause
  BY DEF OutboxInit, DuplicateHasCause
<1> QED
  BY <1>1, OutboxInvariant, StepDuplicate, PTL DEF OutboxSpec

LEMMA StepProcessed ==
    ASSUME OutboxInv, OutboxInv', ProcessedWasDelivered, [OutboxNext]_outboxVars
    PROVE  ProcessedWasDelivered'
<1> SUFFICES ASSUME NEW e \in processed'
             PROVE  (e \in Deliverable /\ story[e] \notin {"new", "shared"})'
  BY DEF ProcessedWasDelivered
<1>0. e \in Events /\ story \in [Events -> Stories] /\ kind' = kind /\ Deliverable' = Deliverable
  <2>1. e \in Events /\ story \in [Events -> Stories]
    BY DEF OutboxInv, TypeOK
  <2>2. kind' = kind
    BY DEF OutboxNext, Around, WorkerStep, Enqueue, Due, OutboxStays, InClient, Stop, Restart, Fetch, Commit, BatchDone,
           Canceled, Return, ClientStep, NoHandler, Call, Answered, NotAnswered, Failed, MarkFailed, Processed,
           ProcessedLost, Finish, outboxVars, tableVars
  <2> QED
    BY <2>1, <2>2 DEF Deliverable
<1>1. e \in processed \/ \E w \in Workers : Processed(w, e)
  BY DEF OutboxNext, Around, WorkerStep, Enqueue, Due, OutboxStays, InClient, Stop, Restart, Fetch, Commit, BatchDone,
         Canceled, Return, ClientStep, NoHandler, Call, Answered, NotAnswered, Failed, MarkFailed, Processed,
         ProcessedLost, outboxVars, tableVars
<1>2. CASE \E w \in Workers : Processed(w, e)
  <2>1. PICK w \in Workers : at[w] = "succeeded" /\ Current(w, e) /\ story' = story
    BY <1>2 DEF Processed, Finish, Move
  <2> QED
    BY <1>0, <2>1 DEF OutboxInv, Holding
<1>3. CASE e \in processed
  <2>1. story[e] \notin {"new", "shared"} /\ e \in Deliverable
    BY <1>3 DEF ProcessedWasDelivered
  <2>2. \/ story'[e] = story[e] \/ story'[e] = Delivered(story[e]) \/ story'[e] = Again(story[e])
        \/ story'[e] = Excused(story[e]) \/ story'[e] = Again(Delivered(story[e]))
    <3>1. CASE Around
      BY <1>0, <3>1 DEF Around, Enqueue, Due, OutboxStays, Stop, Restart
    <3>2. CASE \E w \in Workers : Fetch(w)
      BY <1>0, <3>2 DEF Fetch
    <3>3. CASE \E w \in Workers : WorkerStep(w) /\ ~Fetch(w)
      BY <1>0, <3>3 DEF WorkerStep, Commit, BatchDone, Canceled, Return, ClientStep, NoHandler, Call, Answered, Reaches,
             NotAnswered, Failed, MarkFailed, Processed, ProcessedLost, OutboxStays
    <3>4. CASE UNCHANGED outboxVars
      BY <3>4 DEF outboxVars
    <3> QED
      BY <3>1, <3>2, <3>3, <3>4 DEF OutboxNext
  <2>3. Delivered(story[e]) \in Stories
    BY <1>0, StoryFacts
  <2>4. story'[e] \notin {"new", "shared"}
    BY <1>0, <2>1, <2>2, <2>3, StoryFacts
  <2> QED
    BY <1>0, <2>1, <2>4
<1> QED
  BY <1>1, <1>2, <1>3

(* What is marked processed was delivered, and had a handler.              *)
THEOREM ProcessedEventsWereDelivered == OutboxSpec => []ProcessedWasDelivered
<1>1. OutboxInit => ProcessedWasDelivered
  BY DEF OutboxInit, ProcessedWasDelivered
<1> QED
  BY <1>1, OutboxInvariant, StepProcessed, PTL DEF OutboxSpec

-----------------------------------------------------------------------------
(* The circuit breaker. *)

LEMMA StepBreaker ==
    ASSUME OutboxInv, BreakerRecovers, [OutboxNext]_outboxVars
    PROVE  BreakerRecovers'
<1> USE ClientAssumption DEF BreakerRecovers, breakerVars
<1>0. /\ at \in [Callers -> Places] /\ sleeping \in Nat /\ waking \in Nat /\ failureCount \in Nat
  BY DEF OutboxInv, TypeOK, Workers
<1>1. ASSUME NEW w \in Callers, Count(w)
      PROVE  BreakerRecovers'
  <2>1. CASE failureCount' >= Threshold
    <3>1. at' = [at EXCEPT ![w] = "open"]
      BY <1>1, <2>1 DEF Count, Move
    <3> QED
      BY <1>0, <1>1, <3>1 DEF Count
  <2>2. CASE ~(failureCount' >= Threshold)
    BY <1>1, <2>2 DEF Count
  <2> QED
    BY <2>1, <2>2
<1>2. ASSUME NEW w \in Callers, Open(w)
      PROVE  BreakerRecovers'
  BY <1>0, <1>2 DEF Open
<1>3. CASE Goroutine
  BY <1>0, <1>3 DEF Goroutine, Wake, CloseCircuit, callVars
<1>4. ASSUME NEW w \in Callers, Succeed(w)
      PROVE  BreakerRecovers'
  BY <1>4 DEF Succeed
<1>5. CASE Restart
  BY <1>5 DEF Restart, NewClient
<1>6. ASSUME UNCHANGED breakerVars, \A c \in Callers : at[c] = "open" => at'[c] = "open"
      PROVE  BreakerRecovers'
  BY <1>6
<1>7. CASE UNCHANGED clientVars
  BY <1>6, <1>7 DEF clientVars, callVars
<1>8. CASE Around
  BY <1>3, <1>5, <1>7, <1>8 DEF Around, Enqueue, Due, Stop
<1>9. ASSUME NEW w \in Workers, WorkerStep(w)
      PROVE  BreakerRecovers'
  <2>0. w \in Callers
    BY DEF Workers
  <2>1. CASE Retry(w) \/ (\E e \in Events : Call(w, e) \/ NotAnswered(w, e))
    BY <1>0, <1>6, <2>0, <2>1 DEF Retry, Call, Refuse, Begin, NotAnswered, Fail, Move
  <2>2. CASE Fetch(w) \/ Commit(w) \/ BatchDone(w) \/ Canceled(w)
    BY <1>0, <1>6, <2>0, <2>2 DEF Fetch, Commit, BatchDone, Canceled, Return, Move
  <2>3. CASE \E e \in Events : NoHandler(w, e) \/ Failed(w, e) \/ Processed(w, e) \/ ProcessedLost(w, e)
    BY <1>0, <1>6, <2>0, <2>3 DEF NoHandler, Failed, MarkFailed, Processed, ProcessedLost, Finish, Move
  <2>4. CASE ClientStep(w) \/ \E e \in Events : Answered(w, e)
    BY <1>1, <1>2, <1>4, <2>0, <2>1, <2>4 DEF ClientStep, Answered
  <2> QED
    BY <1>9, <2>1, <2>2, <2>3, <2>4 DEF WorkerStep
<1> QED
  BY <1>7, <1>8, <1>9 DEF OutboxNext, outboxVars

(* The circuit never stays open: whatever callers and goroutines do, a     *)
(* goroutine is left that closes it again.                                 *)
THEOREM CircuitRecovers == OutboxSpec => []BreakerRecovers
<1>1. OutboxInit => BreakerRecovers
  BY ClientAssumption DEF OutboxInit, ClientInit, BreakerRecovers
<1> QED
  BY <1>1, OutboxInvariant, StepBreaker, PTL DEF OutboxSpec

=============================================================================
