------------------------ MODULE TicketServiceProofs -------------------------
(***************************************************************************)
(* Proofs about TicketService, for any number of users, tickets, payment   *)
(* references and requests in flight.                                      *)
(***************************************************************************)
EXTENDS TicketService, FiniteSetTheorems, TLAPS

-----------------------------------------------------------------------------
(* Facts about the catalogue and the workflows. *)

(* Every catalogue entry names one of the four workflows in use, and the   *)
(* withdrawal workflow is the one of "withdraw".                           *)
LEMMA WorkflowOfType ==
    ASSUME NEW t \in TypeKeys
    PROVE  /\ WorkflowForType(t) \in {"transaction-v1", "review-v1", "support-v1", "withdrawal-v1"}
           /\ t = "withdraw" => WorkflowForType(t) = "withdrawal-v1"
BY DEF TypeKeys, TransactionTypes, ReviewTypes, SupportTypes, WorkflowForType

(* No status graph has an edge into "paid": only RecordPayment gets there. *)
LEMMA NoEdgeToPaid ==
    ASSUME NEW t, NEW w, NEW from, NEW to, CanTransition(t, w, from, to)
    PROVE  to # "paid"
<1>1. \A e \in legacyStatuses : e[2] # "paid"
  BY DEF legacyStatuses
<1>2. \A e \in withdrawalStatuses : e[2] # "paid"
  BY DEF withdrawalStatuses
<1>3. \A e \in reviewStatuses : e[2] # "paid"
  BY DEF reviewStatuses, terminalStatuses
<1>4. \A e \in supportStatuses : e[2] # "paid"
  BY DEF supportStatuses, terminalStatuses
<1>5. \A id : \A e \in workflows(id) : e[2] # "paid"
  BY <1>1, <1>2, <1>3, <1>4 DEF workflows
<1>6. <<from, to>> \in workflows("legacy") \/ <<from, to>> \in workflows(w)
  BY DEF CanTransition, WorkflowForTicket
<1> QED
  BY <1>5, <1>6

-----------------------------------------------------------------------------
(* What the parts of the invariant keep when the ledger grows. *)

(* A sound row stays sound when rows are added to the ledger. *)
LEMMA SoundRecordStable ==
    ASSUME NEW id, NEW rec, outgoing \subseteq outgoing', SoundRecord(id, rec)
    PROVE  SoundRecord(id, rec)'
BY DEF SoundRecord, HandledByAnotherAdmin, Closed, MutationOf

(* A request that does not move stays sound when the ledger and the        *)
(* counter grow and the ticket it holds is still the same one.             *)
LEMMA SoundRequestStable ==
    ASSUME NEW q, SoundRequest(q),
           outgoing \subseteq outgoing',
           1..seq \subseteq 1..seq',
           q.step \in {"Save"} \cup PaymentSteps =>
              /\ tickets[q.id] # Null => SameTicket(tickets'[q.id], q.rec) /\ tickets'[q.id] # Null
              /\ tickets[q.id] = Null => tickets'[q.id] = Null
    PROVE  SoundRequest(q)'
<1>1. q.step = "NextSeq" => SoundRecord(q.id, q.rec)'
  BY SoundRecordStable DEF SoundRequest
<1>2. q.step = "Save" => SoundRecord(q.id, q.rec)'
  BY SoundRecordStable DEF SoundRequest
<1>3. q.step \in PaymentSteps => SoundRecord(q.id, q.rec)'
  BY SoundRecordStable DEF SoundRequest
<1> QED
  BY <1>1, <1>2, <1>3 DEF SoundRequest, Idle, RequireAdmin, Payable, SameTicket, PaymentSteps

(* The steps of a request that write neither table nor counter: the        *)
(* request becomes q, and q is sound.                                      *)
LEMMA QuietStep ==
    ASSUME IInv, NEW r \in Requests, NEW q \in Request,
           req' = [req EXCEPT ![r] = q],
           UNCHANGED <<tickets, outgoing, seq>>,
           SoundRequest(q),
           q.step = "Save" => tickets[q.id] # Null
    PROVE  IInv'
<1>1. TypeOK'
  BY DEF IInv, TypeOK
<1>2. (\A id \in TicketIds : tickets[id] # Null => id <= seq /\ SoundRecord(id, tickets[id]))'
  BY DEF IInv, SoundRecord, HandledByAnotherAdmin, Closed, MutationOf
<1>3. \A s \in Requests : SoundRequest(req[s])'
  <2> TAKE s \in Requests
  <2>1. PICK p : p = req'[s]
    OBVIOUS
  <2>2. SoundRequest(p)
    BY <2>1 DEF IInv, TypeOK
  <2>3. SoundRequest(p)'
    BY <2>2 DEF SoundRequest, SoundRecord
  <2> QED
    BY <2>1, <2>3 DEF SoundRequest, SoundRecord
<1>4. (\A r1, r2 \in Requests, id \in TicketIds :
          Inserts(req[r1], id) /\ Inserts(req[r2], id) => r1 = r2)'
  BY DEF IInv, TypeOK, Inserts
<1>5. LedgerRowMatchesRequest'
  BY DEF IInv, LedgerRowMatchesRequest
<1> QED
  BY <1>1, <1>2, <1>3, <1>4, <1>5 DEF IInv

-----------------------------------------------------------------------------
(* One lemma per group of actions. *)

(* An operation that has read a ticket and goes on to write next keeps the *)
(* invariant when next is a sound version of the same ticket.              *)
LEMMA ThenSaveStep ==
    ASSUME IInv, NEW r \in Requests, NEW id \in TicketIds, NEW next \in Record,
           tickets[id] # Null,
           SoundRecord(id, next), SameTicket(tickets[id], next),
           ThenSave(r, id, next)
    PROVE  IInv'
<1>1. Saving(id, next) \in Request
  BY DEF Saving, Idle, Request, Steps
<1>2. id \in 1..seq
  BY ConstantsAssumption DEF IInv, TypeOK, TicketIds
<1>3. next # Null
  BY NullAssumption
<1>4. SoundRequest(Saving(id, next))
  BY <1>2, <1>3 DEF SoundRequest, Saving, Idle, PaymentSteps
<1> QED
  BY <1>1, <1>4, QuietStep DEF ThenSave, Saving, Idle

(* The ticket Find read is sound and its reader is an admin, not the opener. *)
LEMMA FoundTicket ==
    ASSUME IInv, NEW r \in Requests, NEW op, NEW id \in TicketIds, NEW actor \in TicketAdmins,
           Find(r, op, id, actor)
    PROVE  /\ tickets[id] \in Record
           /\ tickets[id] # Null
           /\ SoundRecord(id, tickets[id])
           /\ actor \in Users
           /\ actor # Null
           /\ actor # tickets[id].opener
           /\ tickets[id].withdrawal \in Withdrawal \cup {Null}
BY ConstantsAssumption, NullAssumption DEF IInv, TypeOK, Find, RequireAdmin, Record

(* A claim keeps the invariant: the claimer is not the opener. *)
LEMMA ClaimStep ==
    ASSUME IInv, NEW r \in Requests, NEW id \in TicketIds, NEW actor \in TicketAdmins,
           Claim(r, id, actor)
    PROVE  IInv'
<1> DEFINE next == [tickets[id] EXCEPT !.assigned = actor]
<1>1. Find(r, "Claim", id, actor)
  BY DEF Claim
<1>2. next \in Record
  BY <1>1, FoundTicket DEF Record
<1>3. SoundRecord(id, next)
  BY <1>1, FoundTicket DEF SoundRecord, HandledByAnotherAdmin, Closed, MutationOf, Record
<1>4. SameTicket(tickets[id], next)
  BY <1>1, <1>2, FoundTicket, NullAssumption DEF SameTicket, Record
<1> QED
  BY <1>1, <1>2, <1>3, <1>4, FoundTicket, ThenSaveStep DEF Claim

(* A handoff keeps the invariant: nor is the admin handed the ticket. *)
LEMMA HandoffStep ==
    ASSUME IInv, NEW r \in Requests, NEW id \in TicketIds, NEW actor \in TicketAdmins,
           NEW target \in TicketAdmins, Handoff(r, id, actor, target)
    PROVE  IInv'
<1> DEFINE next == [tickets[id] EXCEPT !.assigned = target]
<1>1. Find(r, "Handoff", id, actor) /\ target # tickets[id].opener
  BY DEF Handoff, HandoffTarget
<1>2. next \in Record
  BY <1>1, FoundTicket, ConstantsAssumption DEF Record
<1>3. SoundRecord(id, next)
  BY <1>1, FoundTicket DEF SoundRecord, HandledByAnotherAdmin, Closed, MutationOf, Record
<1>4. SameTicket(tickets[id], next)
  BY <1>1, <1>2, FoundTicket, NullAssumption DEF SameTicket, Record
<1> QED
  BY <1>1, <1>2, <1>3, <1>4, FoundTicket, ThenSaveStep DEF Handoff

(* Writing the resolution note keeps the invariant. *)
LEMMA SetResolutionStep ==
    ASSUME IInv, NEW r \in Requests, NEW id \in TicketIds, NEW actor \in TicketAdmins,
           SetResolution(r, id, actor)
    PROVE  IInv'
<1> DEFINE next == [tickets[id] EXCEPT !.resolution = actor]
<1>1. Find(r, "SetResolution", id, actor)
  BY DEF SetResolution
<1>2. next \in Record
  BY <1>1, FoundTicket DEF Record
<1>3. SoundRecord(id, next)
  BY <1>1, FoundTicket DEF SoundRecord, HandledByAnotherAdmin, Closed, MutationOf, Record
<1>4. SameTicket(tickets[id], next)
  BY <1>1, <1>2, FoundTicket, NullAssumption DEF SameTicket, Record
<1> QED
  BY <1>1, <1>2, <1>3, <1>4, FoundTicket, ThenSaveStep DEF SetResolution

(* Approving a seller application keeps the invariant. *)
LEMMA ApproveSellerStep ==
    ASSUME IInv, NEW r \in Requests, NEW id \in TicketIds, NEW actor \in TicketAdmins,
           ApproveSeller(r, id, actor)
    PROVE  IInv'
<1> DEFINE next == [tickets[id] EXCEPT !.seller = actor]
<1>1. Find(r, "ApproveSeller", id, actor)
  BY DEF ApproveSeller
<1>2. next \in Record
  BY <1>1, FoundTicket DEF Record
<1>3. SoundRecord(id, next)
  BY <1>1, FoundTicket DEF SoundRecord, HandledByAnotherAdmin, Closed, MutationOf, Record
<1>4. SameTicket(tickets[id], next)
  BY <1>1, <1>2, FoundTicket, NullAssumption DEF SameTicket, Record
<1> QED
  BY <1>1, <1>2, <1>3, <1>4, FoundTicket, ThenSaveStep DEF ApproveSeller

(* A status menu can neither reach "paid" nor close without a resolution. *)
LEMMA TransitionStep ==
    ASSUME IInv, NEW r \in Requests, NEW id \in TicketIds, NEW actor \in TicketAdmins,
           NEW to \in Statuses, Transition(r, id, actor, to)
    PROVE  IInv'
<1> DEFINE next == [tickets[id] EXCEPT !.status = to]
<1>1. Find(r, "Transition", id, actor)
  BY DEF Transition
<1>2. next \in Record
  BY <1>1, FoundTicket DEF Record
<1>3. to # "paid"
  BY NoEdgeToPaid DEF Transition, Movable
<1>4. to = "closed" => tickets[id].resolution # Null
  BY DEF Transition, Movable
<1>5. SoundRecord(id, next)
  BY <1>1, <1>3, <1>4, FoundTicket DEF SoundRecord, HandledByAnotherAdmin, Closed, MutationOf, Record
<1>6. SameTicket(tickets[id], next)
  BY <1>1, <1>2, FoundTicket, NullAssumption DEF SameTicket, Record
<1> QED
  BY <1>1, <1>2, <1>5, <1>6, FoundTicket, ThenSaveStep DEF Transition

(* Approving a withdrawal keeps the invariant. *)
LEMMA ApproveWithdrawalStep ==
    ASSUME IInv, NEW r \in Requests, NEW id \in TicketIds, NEW actor \in TicketAdmins,
           ApproveWithdrawal(r, id, actor)
    PROVE  IInv'
<1> DEFINE rec == tickets[id]
           wd == [rec.withdrawal EXCEPT !.approval = actor]
           next == Approved(rec, actor)
<1>1. Find(r, "ApproveWithdrawal", id, actor) /\ rec.withdrawal \in Withdrawal
  BY FoundTicket DEF ApproveWithdrawal, Approvable
<1>2. rec \in Record /\ SoundRecord(id, rec) /\ actor \in TicketAdmins \ {rec.opener} /\ actor \in Users
  BY <1>1, FoundTicket
<1>3. /\ wd \in Withdrawal
      /\ wd.amount = rec.withdrawal.amount
      /\ wd.outgoing = rec.withdrawal.outgoing
      /\ wd.approval = actor
  BY <1>1, <1>2 DEF Withdrawal
<1>4. next = [rec EXCEPT !.withdrawal = wd, !.status = "approved"]
  BY DEF Approved
<1> HIDE DEF wd, next
<1>5. next \in Record
  BY <1>2, <1>3, <1>4 DEF Record, Statuses
<1>6. /\ next.status = "approved" /\ next.withdrawal = wd
      /\ next.type = rec.type /\ next.workflow = rec.workflow /\ next.opener = rec.opener
      /\ next.assigned = rec.assigned /\ next.resolution = rec.resolution
      /\ next.seller = rec.seller
  BY <1>2, <1>4 DEF Record
<1>7. wd # Null /\ rec.withdrawal # Null /\ next # Null
  BY <1>1, <1>3, <1>5, NullAssumption
<1>8. SoundRecord(id, next)
  BY <1>2, <1>3, <1>6, <1>7 DEF SoundRecord, HandledByAnotherAdmin, Closed, MutationOf
<1>9. SameTicket(tickets[id], next)
  BY <1>3, <1>6, <1>7 DEF SameTicket
<1> QED
  BY <1>1, <1>5, <1>8, <1>9, FoundTicket, ThenSaveStep DEF ApproveWithdrawal, next

(* A new record is sound before it has a number. *)
LEMMA CreateStep ==
    ASSUME IInv, NEW r \in Requests, NEW actor \in Users, NEW typeKey \in InputTypes,
           NEW amount \in Amounts, Create(r, actor, typeKey, amount)
    PROVE  IInv'
<1> DEFINE rec == NewRecord(typeKey, actor, amount)
           wd == [amount |-> amount, approval |-> Null, outgoing |-> Null]
           q == [Idle EXCEPT !.step = "NextSeq", !.rec = rec]
<1>1. typeKey \in TypeKeys
  BY ConstantsAssumption
<1>2. wd \in Withdrawal /\ wd # Null
  BY NullAssumption DEF Withdrawal
<1>3. rec.withdrawal = IF typeKey = "withdraw" THEN wd ELSE Null
  BY DEF NewRecord
<1>4. rec \in Record
  BY <1>1, <1>2, WorkflowOfType DEF NewRecord, Record, Statuses
<1>5. /\ rec.type = typeKey /\ rec.workflow = WorkflowForType(typeKey) /\ rec.status = "open"
      /\ rec.assigned = Null /\ rec.resolution = Null /\ rec.seller = Null
  BY DEF NewRecord
<1>6. rec.withdrawal # Null => rec.withdrawal.outgoing = Null /\ rec.withdrawal.approval = Null
  BY <1>3
<1> HIDE DEF rec
<1>7. q \in Request /\ q.step = "NextSeq" /\ q.id = 0 /\ q.rec = rec
  BY <1>4 DEF Idle, Request, Steps
<1>8. SoundRecord(0, rec)
  BY <1>2, <1>3, <1>5, <1>6 DEF SoundRecord, HandledByAnotherAdmin, Closed
<1>9. SoundRequest(q)
  BY <1>4, <1>5, <1>6, <1>7, <1>8, NullAssumption DEF SoundRequest, PaymentSteps
<1> QED
  BY <1>7, <1>9, QuietStep DEF Create, rec

(* The number NextSeq hands out is above every number in use. *)
LEMMA NextSeqStep ==
    ASSUME IInv, NEW r \in Requests, NextSeq(r)
    PROVE  IInv'
<1>0. PICK q : q = [req[r] EXCEPT !.step = "Save", !.id = seq + 1]
  OBVIOUS
<1>1. /\ req[r] \in Request /\ SoundRequest(req[r]) /\ req[r].step = "NextSeq"
      /\ seq \in Nat /\ seq + 1 \in TicketIds /\ seq' = seq + 1
  BY ConstantsAssumption DEF IInv, TypeOK, NextSeq, TicketIds
<1>2. q \in Request /\ q.step = "Save" /\ q.id = seq + 1 /\ q.rec = req[r].rec
  BY <1>0, <1>1 DEF Request, Steps
<1>3. req' = [req EXCEPT ![r] = q] /\ UNCHANGED <<tickets, outgoing>>
  BY <1>0 DEF NextSeq
<1>4. tickets[seq + 1] = Null
  BY <1>1 DEF IInv
<1>5. TypeOK'
  BY <1>1, <1>2, <1>3 DEF IInv, TypeOK, TicketIds
<1>6. (\A id \in TicketIds : tickets[id] # Null => id <= seq /\ SoundRecord(id, tickets[id]))'
  <2> SUFFICES ASSUME NEW id \in TicketIds, tickets[id] # Null
               PROVE  id <= seq' /\ SoundRecord(id, tickets[id])'
    BY <1>3
  <2>1. id <= seq /\ SoundRecord(id, tickets[id])
    BY DEF IInv
  <2> QED
    BY <1>1, <1>3, <2>1 DEF SoundRecord, HandledByAnotherAdmin, Closed, MutationOf, TicketIds
<1>7. \A s \in Requests : SoundRequest(req[s])'
  <2> TAKE s \in Requests
  <2>1. CASE s = r
    <3>1. req'[s] = q
      BY <2>1, <1>3 DEF IInv, TypeOK
    <3>2. /\ q.rec # Null /\ q.rec.status = "open"
          /\ q.rec.withdrawal # Null => q.rec.withdrawal.outgoing = Null
          /\ SoundRecord(req[r].id, q.rec)
      BY <1>1, <1>2 DEF SoundRequest
    <3>3. SoundRecord(q.id, q.rec)
      BY <3>2 DEF SoundRecord
    <3>4. SoundRecord(q.id, q.rec)'
      BY <3>3, <1>3, SoundRecordStable
    <3>5. q.id \in 1..seq' /\ tickets'[q.id] = Null
      BY <1>1, <1>2, <1>3, <1>4
    <3>6. SoundRequest(q)'
      BY <3>2, <3>4, <3>5, <1>2 DEF SoundRequest, PaymentSteps
    <3> QED
      BY <3>1, <3>6 DEF SoundRequest, SoundRecord
  <2>2. CASE s # r
    <3>1. PICK p : p = req'[s]
      OBVIOUS
    <3>2. SoundRequest(p)
      BY <3>1, <2>2, <1>3 DEF IInv, TypeOK
    <3>3. 1..seq \subseteq 1..seq'
      BY <1>1
    <3>4. p.step \in {"Save"} \cup PaymentSteps /\ tickets[p.id] # Null
             => SameTicket(tickets[p.id], p.rec)
      BY <3>2 DEF SoundRequest
    <3>5. SoundRequest(p)'
      BY <3>2, <3>3, <3>4, <1>3, SoundRequestStable
    <3> QED
      BY <3>1, <3>5 DEF SoundRequest, SoundRecord
  <2> QED
    BY <2>1, <2>2
<1>8. (\A r1, r2 \in Requests, id \in TicketIds :
          Inserts(req[r1], id) /\ Inserts(req[r2], id) => r1 = r2)'
  <2> SUFFICES ASSUME NEW r1 \in Requests, NEW r2 \in Requests, NEW id \in TicketIds,
                      Inserts(req[r1], id)', Inserts(req[r2], id)'
               PROVE  r1 = r2
    OBVIOUS
  <2>1. \A s \in Requests : s # r => req'[s] = req[s]
    BY <1>3 DEF IInv, TypeOK
  <2>2. \A s \in Requests : s # r /\ req[s].step = "Save" => req[s].id # seq + 1
    BY <1>1 DEF IInv, SoundRequest
  <2>3. req'[r] = q
    BY <1>3 DEF IInv, TypeOK
  <2> QED
    BY <2>1, <2>2, <2>3, <1>2, <1>3 DEF IInv, Inserts
<1>9. LedgerRowMatchesRequest'
  BY <1>3 DEF IInv, LedgerRowMatchesRequest
<1> QED
  BY <1>5, <1>6, <1>7, <1>8, <1>9 DEF IInv

(* Two versions of a ticket that are each the same ticket as the row are   *)
(* the same ticket as one another.                                         *)
LEMMA SameTicketTransfer ==
    ASSUME NEW id, NEW old, NEW new, NEW held,
           SoundRecord(id, old), SoundRecord(id, new)', new # Null,
           SameTicket(old, new), SameTicket(old, held)
    PROVE  SameTicket(new, held)
BY DEF SameTicket, SoundRecord

(* Request r writes the row new over number id and is done. *)
LEMMA RowWritten ==
    ASSUME IInv, NEW r \in Requests, NEW id \in 1..seq, NEW new \in Record,
           (req[r].step = "Save" /\ req[r].id = id) \/ tickets[id] # Null,
           tickets' = [tickets EXCEPT ![id] = new],
           req' = [req EXCEPT ![r] = Idle],
           outgoing \subseteq outgoing', outgoing' \subseteq OutgoingMutation,
           seq' = seq,
           SoundRecord(id, new)',
           tickets[id] # Null => SameTicket(tickets[id], new),
           LedgerRowMatchesRequest'
    PROVE  IInv'
<1>1. /\ id \in TicketIds /\ new # Null /\ Idle \in Request /\ seq \in Nat
      /\ tickets'[id] = new
      /\ \A i \in TicketIds : i # id => tickets'[i] = tickets[i]
      /\ req'[r] = Idle
      /\ \A s \in Requests : s # r => req'[s] = req[s]
  BY ConstantsAssumption, NullAssumption DEF IInv, TypeOK, TicketIds, Idle, Request, Steps
<1>2. TypeOK'
  BY <1>1 DEF IInv, TypeOK
<1>3. (\A i \in TicketIds : tickets[i] # Null => i <= seq /\ SoundRecord(i, tickets[i]))'
  <2> SUFFICES ASSUME NEW i \in TicketIds, tickets'[i] # Null
               PROVE  i <= seq' /\ SoundRecord(i, tickets[i])'
    OBVIOUS
  <2>1. CASE i = id
    BY <2>1, <1>1 DEF SoundRecord, HandledByAnotherAdmin, Closed, MutationOf
  <2>2. CASE i # id
    <3>1. tickets'[i] = tickets[i] /\ i <= seq /\ SoundRecord(i, tickets[i])
      BY <2>2, <1>1 DEF IInv
    <3> QED
      BY <3>1 DEF SoundRecord, HandledByAnotherAdmin, Closed, MutationOf
  <2> QED
    BY <2>1, <2>2
<1>4. \A s \in Requests : SoundRequest(req[s])'
  <2> TAKE s \in Requests
  <2>1. CASE s = r
    BY <2>1, <1>1 DEF SoundRequest, Idle, PaymentSteps
  <2>2. CASE s # r
    <3>1. PICK q : q = req[s] /\ q = req'[s] /\ SoundRequest(q) /\ q \in Request
      BY <2>2, <1>1 DEF IInv, TypeOK
    <3>2. ASSUME q.step \in {"Save"} \cup PaymentSteps
          PROVE  /\ tickets[q.id] # Null => SameTicket(tickets'[q.id], q.rec) /\ tickets'[q.id] # Null
                 /\ tickets[q.id] = Null => tickets'[q.id] = Null
      <4>1. q.id \in TicketIds
        BY <3>1, <3>2, <1>1, ConstantsAssumption DEF SoundRequest, IInv, TypeOK, TicketIds
      <4>2. CASE q.id # id
        BY <4>1, <4>2, <3>1, <3>2, <1>1 DEF SoundRequest
      <4>3. CASE q.id = id /\ tickets[id] # Null
        <5>1. SoundRecord(id, tickets[id])
          BY <1>1, <4>3 DEF IInv
        <5>2. SameTicket(tickets[id], q.rec)
          BY <3>1, <3>2, <4>3 DEF SoundRequest
        <5>3. SameTicket(new, q.rec)
          BY <5>1, <5>2, <4>3, <1>1, SameTicketTransfer
        <5> QED
          BY <5>3, <4>3, <1>1
      <4>4. CASE q.id = id /\ tickets[id] = Null
        <5>1. Inserts(req[r], id)
          BY <4>4 DEF Inserts
        <5>2. Inserts(req[s], id)
          BY <3>1, <3>2, <4>4 DEF Inserts, SoundRequest
        <5> QED
          BY <5>1, <5>2, <2>2, <1>1 DEF IInv
      <4> QED
        BY <4>2, <4>3, <4>4
    <3>3. SoundRequest(q)'
      BY <3>1, <3>2, SoundRequestStable
    <3> QED
      BY <3>1, <3>3 DEF SoundRequest, SoundRecord
  <2> QED
    BY <2>1, <2>2
<1>5. (\A r1, r2 \in Requests, i \in TicketIds :
          Inserts(req[r1], i) /\ Inserts(req[r2], i) => r1 = r2)'
  <2>1. Idle.step # "Save"
    BY DEF Idle
  <2>2. \A s \in Requests, i \in TicketIds : Inserts(req[s], i)' => Inserts(req[s], i)
    BY <1>1, <2>1 DEF Inserts
  <2> QED
    BY <2>2 DEF IInv
<1> QED
  BY <1>2, <1>3, <1>4, <1>5 DEF IInv

(* No ticket write touches what the ledger says of a ticket. *)
LEMMA SaveStep ==
    ASSUME IInv, NEW r \in Requests, Save(r)
    PROVE  IInv'
<1>1. PICK id, new : id = req[r].id /\ new = req[r].rec
  OBVIOUS
<1>2. req[r] \in Request /\ req[r].step = "Save" /\ SoundRequest(req[r])
  BY DEF IInv, TypeOK, Save
<1>3. /\ id \in 1..seq /\ new \in Record /\ SoundRecord(id, new)
      /\ tickets[id] # Null => SameTicket(tickets[id], new)
  BY <1>1, <1>2 DEF SoundRequest, Request
<1>4. /\ tickets' = [tickets EXCEPT ![id] = new] /\ req' = [req EXCEPT ![r] = Idle]
      /\ outgoing' = outgoing /\ seq' = seq
  BY <1>1 DEF Save
<1>5. SoundRecord(id, new)'
  BY <1>3, <1>4, SoundRecordStable
<1>6. LedgerRowMatchesRequest'
  <2> SUFFICES ASSUME NEW row \in outgoing
               PROVE  /\ tickets'[row.ticket] # Null
                      /\ tickets'[row.ticket].type = "withdraw"
                      /\ tickets'[row.ticket].opener = row.seller
                      /\ tickets'[row.ticket].withdrawal.amount = row.amount
                      /\ row.by \in TicketAdmins \ {row.seller}
    BY <1>4 DEF LedgerRowMatchesRequest
  <2>1. row.ticket \in TicketIds
    BY DEF IInv, TypeOK, OutgoingMutation
  <2>2. /\ tickets[row.ticket] # Null /\ tickets[row.ticket].type = "withdraw"
        /\ tickets[row.ticket].opener = row.seller
        /\ tickets[row.ticket].withdrawal.amount = row.amount
        /\ row.by \in TicketAdmins \ {row.seller}
    BY DEF IInv, LedgerRowMatchesRequest
  <2>3. tickets[row.ticket].withdrawal # Null
    BY <2>1, <2>2 DEF IInv, SoundRecord
  <2>4. CASE row.ticket = id
    <3>1. tickets'[row.ticket] = new
      BY <2>1, <2>4, <1>4 DEF IInv, TypeOK
    <3> QED
      BY <3>1, <2>2, <2>3, <2>4, <1>3 DEF SameTicket
  <2>5. CASE row.ticket # id
    <3>1. tickets'[row.ticket] = tickets[row.ticket]
      BY <2>1, <2>5, <1>4 DEF IInv, TypeOK
    <3> QED
      BY <3>1, <2>2
  <2> QED
    BY <2>4, <2>5
<1>7. outgoing' \subseteq OutgoingMutation
  BY <1>4 DEF IInv, TypeOK
<1>8. req[r].step = "Save" /\ req[r].id = id
  BY <1>1, <1>2
<1> QED
  BY <1>3, <1>4, <1>5, <1>6, <1>7, <1>8, RowWritten

(* A request that starts a payment holds a payable copy of its ticket. *)
LEMMA RecordPaymentStep ==
    ASSUME IInv, NEW r \in Requests, NEW id \in TicketIds, NEW actor \in TicketAdmins,
           NEW ref \in References, RecordPayment(r, id, actor, ref)
    PROVE  IInv'
<1> DEFINE q == [step |-> "ListOpen", id |-> id, actor |-> actor, ref |-> ref, rec |-> tickets[id]]
<1>1. /\ Find(r, "RecordPayment", id, actor) /\ Payable(tickets[id], actor)
      /\ RequireAdmin(actor, tickets[id])
  BY DEF RecordPayment, Find
<1>2. /\ tickets[id] \in Record /\ tickets[id] # Null /\ SoundRecord(id, tickets[id])
      /\ actor \in Users
  BY <1>1, FoundTicket
<1>3. id \in 1..seq /\ ref # Null
  BY <1>2, ConstantsAssumption, NullAssumption DEF IInv, TypeOK, TicketIds
<1>4. q \in Request
  BY <1>2 DEF Request, Steps
<1>5. SameTicket(tickets[id], tickets[id])
  BY <1>2 DEF SameTicket
<1>6. SoundRequest(q)
  BY <1>1, <1>2, <1>3, <1>5 DEF SoundRequest, PaymentSteps
<1> QED
  BY <1>4, <1>6, QuietStep DEF RecordPayment

(* A read of RecordPayment that finds no duplicate only moves the request. *)
LEMMA PaymentReadStep ==
    ASSUME IInv, NEW r \in Requests, NEW step \in PaymentSteps,
           req[r].step \in PaymentSteps,
           req' = [req EXCEPT ![r].step = step],
           UNCHANGED <<tickets, outgoing, seq>>
    PROVE  IInv'
<1> DEFINE q == [req[r] EXCEPT !.step = step]
<1>1. req[r] \in Request /\ SoundRequest(req[r])
  BY DEF IInv, TypeOK
<1>2. /\ q \in Request /\ q.step = step /\ q.id = req[r].id /\ q.actor = req[r].actor
      /\ q.ref = req[r].ref /\ q.rec = req[r].rec
  BY <1>1 DEF Request, Steps, PaymentSteps
<1>3. req' = [req EXCEPT ![r] = q]
  OBVIOUS
<1> HIDE DEF q
<1>4. SoundRequest(q)
  BY <1>1, <1>2 DEF SoundRequest, PaymentSteps
<1>5. q.step # "Save"
  BY <1>2 DEF PaymentSteps
<1> QED
  BY <1>2, <1>3, <1>4, <1>5, QuietStep

(* Giving a request up keeps the invariant. *)
LEMMA AbortStep ==
    ASSUME IInv, NEW r \in Requests, Abort(r)
    PROVE  IInv'
<1>1. Idle \in Request /\ Idle.step = "idle"
  BY DEF Idle, Request, Steps
<1>2. SoundRequest(Idle)
  BY <1>1 DEF SoundRequest, PaymentSteps
<1> QED
  BY <1>1, <1>2, QuietStep DEF Abort

(* The one transaction that moves a ticket and the ledger together. *)
LEMMA SavePaymentStep ==
    ASSUME IInv, NEW r \in Requests, SavePayment(r)
    PROVE  IInv'
<1>1. PICK id, rec, actor, ref, wd, pay, new, row :
        /\ id = req[r].id /\ rec = req[r].rec /\ actor = req[r].actor /\ ref = req[r].ref
        /\ pay = [reference |-> ref, by |-> actor]
        /\ wd = [rec.withdrawal EXCEPT !.outgoing = pay]
        /\ new = Paid(rec, actor, ref)
        /\ row = MutationOf(id, rec, actor, ref)
  OBVIOUS
<1>2. req[r] \in Request /\ req[r].step = "SavePayment" /\ SoundRequest(req[r])
  BY DEF IInv, TypeOK, SavePayment
<1>3. /\ id \in 1..seq /\ rec \in Record /\ ref \in References
      /\ actor \in TicketAdmins /\ actor # rec.opener /\ Payable(rec, actor)
      /\ SoundRecord(id, rec) /\ tickets[id] # Null /\ SameTicket(tickets[id], rec)
  BY <1>1, <1>2 DEF SoundRequest, PaymentSteps, Request, RequireAdmin
<1>4. /\ tickets' = [tickets EXCEPT ![id] = new] /\ req' = [req EXCEPT ![r] = Idle]
      /\ outgoing' = outgoing \cup {row} /\ seq' = seq
  BY <1>1 DEF SavePayment
<1>5. id \in TicketIds /\ actor \in Users
  BY <1>3, ConstantsAssumption DEF IInv, TypeOK, TicketIds
<1>6. rec.withdrawal \in Withdrawal /\ rec.type = "withdraw" /\ rec.status = "approved"
  BY <1>3 DEF Payable, IsWithdrawal, Record
<1>7. /\ pay \in OutgoingPayment /\ pay # Null /\ pay.reference = ref /\ pay.by = actor
  BY <1>1, <1>3, <1>5, NullAssumption DEF OutgoingPayment
<1>8. /\ wd \in Withdrawal /\ wd # Null /\ wd.outgoing = pay
      /\ wd.amount = rec.withdrawal.amount /\ wd.approval = rec.withdrawal.approval
      /\ rec.withdrawal # Null
  BY <1>1, <1>6, <1>7, NullAssumption DEF Withdrawal
<1>9. new = [rec EXCEPT !.withdrawal = wd, !.status = "paid"]
  BY <1>1 DEF Paid
<1>10. /\ new \in Record
       /\ new.status = "paid" /\ new.withdrawal = wd
       /\ new.type = rec.type /\ new.workflow = rec.workflow /\ new.opener = rec.opener
       /\ new.assigned = rec.assigned /\ new.resolution = rec.resolution
       /\ new.seller = rec.seller
  BY <1>3, <1>8, <1>9 DEF Record, Statuses
<1>11. /\ row \in OutgoingMutation /\ row.ticket = id /\ row.seller = rec.opener
       /\ row.amount = rec.withdrawal.amount /\ row.by = actor
  BY <1>1, <1>3, <1>5, <1>6 DEF MutationOf, OutgoingMutation, Record, Withdrawal
<1>12. MutationOf(id, new, pay.by, pay.reference) = row
  BY <1>1, <1>7, <1>8, <1>10 DEF MutationOf
<1>13. SoundRecord(id, new)'
  BY <1>3, <1>4, <1>7, <1>8, <1>10, <1>12
     DEF SoundRecord, HandledByAnotherAdmin, Closed, MutationOf
<1>14. new # Null /\ SameTicket(tickets[id], new)
  BY <1>3, <1>8, <1>10, NullAssumption DEF SameTicket
<1>15. LedgerRowMatchesRequest'
  <2> SUFFICES ASSUME NEW x \in outgoing'
               PROVE  /\ tickets'[x.ticket] # Null
                      /\ tickets'[x.ticket].type = "withdraw"
                      /\ tickets'[x.ticket].opener = x.seller
                      /\ tickets'[x.ticket].withdrawal.amount = x.amount
                      /\ x.by \in TicketAdmins \ {x.seller}
    BY DEF LedgerRowMatchesRequest
  <2>1. tickets'[id] = new
    BY <1>4, <1>5 DEF IInv, TypeOK
  <2>2. CASE x = row
    BY <2>1, <2>2, <1>3, <1>6, <1>8, <1>10, <1>11, <1>14
  <2>3. CASE x # row
    <3>1. x \in outgoing /\ x.ticket # id /\ x.ticket \in TicketIds
      BY <2>3, <1>1, <1>4 DEF SavePayment, UniqueIndexes, IInv, TypeOK, OutgoingMutation
    <3>2. tickets'[x.ticket] = tickets[x.ticket]
      BY <3>1, <1>4, <1>5 DEF IInv, TypeOK
    <3> QED
      BY <3>1, <3>2 DEF IInv, LedgerRowMatchesRequest
  <2> QED
    BY <2>2, <2>3
<1>16. outgoing \subseteq outgoing' /\ outgoing' \subseteq OutgoingMutation
  BY <1>4, <1>11 DEF IInv, TypeOK
<1> QED
  BY <1>3, <1>4, <1>10, <1>13, <1>14, <1>15, <1>16, RowWritten

-----------------------------------------------------------------------------
(* The invariant, and the properties it gives. *)

(* The empty tables satisfy the invariant. *)
LEMMA InitIInv == Init => IInv
<1> SUFFICES ASSUME Init PROVE IInv
  OBVIOUS
<1>1. Idle \in Request /\ Idle.step = "idle"
  BY DEF Idle, Request, Steps
<1>2. TypeOK
  BY <1>1, ConstantsAssumption DEF Init, TypeOK
<1>3. \A r \in Requests : SoundRequest(req[r])
  BY <1>1 DEF Init, SoundRequest, PaymentSteps
<1> QED
  BY <1>1, <1>2, <1>3 DEF Init, IInv, Inserts, LedgerRowMatchesRequest

(* Every step keeps the invariant. *)
LEMMA NextIInv == IInv /\ [Next]_vars => IInv'
<1> SUFFICES ASSUME IInv, [Next]_vars PROVE IInv'
  OBVIOUS
<1>1. CASE UNCHANGED vars
  <2>1. UNCHANGED <<tickets, seq, outgoing, req>>
    BY <1>1 DEF vars
  <2>2. TypeOK' /\ LedgerRowMatchesRequest'
    BY <2>1 DEF IInv, TypeOK, LedgerRowMatchesRequest
  <2>3. \A id \in TicketIds : tickets'[id] # Null =>
            id <= seq' /\ SoundRecord(id, tickets[id])'
    BY <2>1 DEF IInv, SoundRecord
  <2>4. ASSUME NEW r \in Requests
        PROVE  SoundRequest(req[r])'
    <3>1. SoundRequest(req[r])
      BY DEF IInv
    <3> QED
      BY <2>1, <3>1 DEF SoundRequest, SoundRecord
  <2> QED
    BY <2>1, <2>2, <2>3, <2>4 DEF IInv, Inserts
<1>2. ASSUME NEW r \in Requests, NEW actor \in Users, NEW typeKey \in InputTypes,
             NEW amount \in Amounts, Create(r, actor, typeKey, amount)
      PROVE  IInv'
  BY <1>2, CreateStep
<1>3. ASSUME NEW r \in Requests, NEW id \in TicketIds, NEW actor \in TicketAdmins,
             TicketOp(r, id, actor)
      PROVE  IInv'
  BY <1>3, ClaimStep, HandoffStep, SetResolutionStep, TransitionStep, ApproveWithdrawalStep,
     ApproveSellerStep, RecordPaymentStep DEF TicketOp
<1>4. ASSUME NEW r \in Requests, RequestStep(r)
      PROVE  IInv'
  <2>1. CASE PaymentListOpen(r)
    BY <2>1, PaymentReadStep DEF PaymentListOpen, PaymentSteps
  <2>2. CASE PaymentListByOpener(r)
    BY <2>2, PaymentReadStep DEF PaymentListByOpener, PaymentSteps
  <2>3. CASE OutgoingExists(r)
    BY <2>3, PaymentReadStep DEF OutgoingExists, PaymentSteps
  <2> QED
    BY <1>4, <2>1, <2>2, <2>3, NextSeqStep, SaveStep, SavePaymentStep, AbortStep DEF RequestStep
<1> QED
  BY <1>1, <1>2, <1>3, <1>4 DEF Next

(* The invariant holds in every reachable state, for any constants. *)
THEOREM Invariance == Spec => []IInv
BY InitIInv, NextIInv, PTL DEF Spec

(* Every row and every request in flight is well formed. *)
THEOREM TypeCorrect == Spec => []TypeOK
<1>1. IInv => TypeOK
  BY DEF IInv
<1> QED
  BY <1>1, Invariance, PTL

(* A paid ticket never exists without the ledger row that proves it. *)
THEOREM PaidIsProved == Spec => []PaidHasLedgerRow
<1>1. IInv => PaidHasLedgerRow
  BY DEF IInv, PaidHasLedgerRow, SoundRecord
<1> QED
  BY <1>1, Invariance, PTL

(* A ledger row pays the opener of its ticket what was asked for, and was  *)
(* booked by somebody else.                                                *)
THEOREM LedgerIsHonest == Spec => []LedgerRowMatchesRequest
<1>1. IInv => LedgerRowMatchesRequest
  BY DEF IInv
<1> QED
  BY <1>1, Invariance, PTL

(* No admin leaves a mark on a ticket of their own. *)
THEOREM Recusal == Spec => []OpenerRecusal
<1>1. IInv => OpenerRecusal
  BY DEF IInv, OpenerRecusal, SoundRecord
<1> QED
  BY <1>1, Invariance, PTL

(* A closed ticket has a resolution note. *)
THEOREM ClosedIsResolved == Spec => []ClosedHasResolution
<1>1. IInv => ClosedHasResolution
  BY DEF IInv, ClosedHasResolution, SoundRecord
<1> QED
  BY <1>1, Invariance, PTL

-----------------------------------------------------------------------------
(* What a step may do. *)

(* Only Save and SavePayment write the tickets table. *)
LEMMA TicketWriters ==
    ASSUME [Next]_vars
    PROVE  tickets' = tickets \/ \E r \in Requests : Save(r) \/ SavePayment(r)
<1>1. ASSUME NEW r \in Requests, NEW id \in TicketIds, NEW actor \in TicketAdmins,
             TicketOp(r, id, actor)
      PROVE  tickets' = tickets
  BY <1>1 DEF TicketOp, Claim, Handoff, SetResolution, Transition, ApproveWithdrawal,
              ApproveSeller, RecordPayment, ThenSave
<1>2. ASSUME NEW r \in Requests, RequestStep(r)
      PROVE  tickets' = tickets \/ Save(r) \/ SavePayment(r)
  BY <1>2 DEF RequestStep, NextSeq, PaymentListOpen, PaymentListByOpener, OutgoingExists, Abort
<1>3. ASSUME NEW r \in Requests, NEW actor \in Users, NEW typeKey \in InputTypes,
             NEW amount \in Amounts, Create(r, actor, typeKey, amount)
      PROVE  tickets' = tickets
  BY <1>3 DEF Create
<1> QED
  BY <1>1, <1>2, <1>3 DEF Next, vars

(* A step leaves a ticket the ticket it was. *)
LEMMA IdentityStep ==
    ASSUME IInv, [Next]_vars, NEW id \in TicketIds, tickets[id] # Null
    PROVE  SameTicket(tickets[id], tickets'[id])
<1>1. CASE tickets' = tickets
  BY <1>1 DEF SameTicket
<1>2. ASSUME NEW r \in Requests, Save(r)
      PROVE  SameTicket(tickets[id], tickets'[id])
  <2>1. req[r] \in Request /\ SoundRequest(req[r]) /\ req[r].step = "Save"
    BY <1>2 DEF IInv, TypeOK, Save
  <2>2. tickets' = [tickets EXCEPT ![req[r].id] = req[r].rec]
    BY <1>2 DEF Save
  <2>3. CASE req[r].id = id
    BY <2>1, <2>2, <2>3 DEF SoundRequest, IInv, TypeOK
  <2>4. CASE req[r].id # id
    <3>1. tickets'[id] = tickets[id]
      BY <2>2, <2>4 DEF IInv, TypeOK
    <3> QED
      BY <3>1 DEF SameTicket
  <2> QED
    BY <2>3, <2>4
<1>3. ASSUME NEW r \in Requests, SavePayment(r)
      PROVE  SameTicket(tickets[id], tickets'[id])
  <2>1. PICK q, new : q = req[r] /\ new = Paid(q.rec, q.actor, q.ref)
    OBVIOUS
  <2>2. /\ q \in Request /\ SoundRequest(q) /\ q.step = "SavePayment"
        /\ tickets' = [tickets EXCEPT ![q.id] = new]
    BY <2>1, <1>3 DEF IInv, TypeOK, SavePayment
  <2>3. CASE q.id = id
    <3>1. /\ q.rec \in Record /\ SameTicket(tickets[id], q.rec)
          /\ q.ref \in References /\ q.actor \in TicketAdmins
          /\ q.rec.withdrawal \in Withdrawal
      BY <2>2, <2>3 DEF SoundRequest, PaymentSteps, Request, RequireAdmin, Payable, Record
    <3>2. PICK pay : pay = [reference |-> q.ref, by |-> q.actor]
      OBVIOUS
    <3>3. pay \in OutgoingPayment
      BY <3>1, <3>2, ConstantsAssumption DEF OutgoingPayment
    <3>4. PICK wd : wd = [q.rec.withdrawal EXCEPT !.outgoing = pay]
      OBVIOUS
    <3>5. wd \in Withdrawal /\ wd.amount = q.rec.withdrawal.amount
      BY <3>1, <3>3, <3>4 DEF Withdrawal
    <3>6. new = [q.rec EXCEPT !.withdrawal = wd, !.status = "paid"]
      BY <2>1, <3>2, <3>4 DEF Paid
    <3>7. /\ new \in Record /\ new.type = q.rec.type /\ new.workflow = q.rec.workflow
          /\ new.opener = q.rec.opener /\ new.withdrawal = wd
      BY <3>1, <3>5, <3>6 DEF Record, Statuses
    <3>8. new # Null /\ wd # Null
      BY <3>5, <3>7, NullAssumption
    <3>9. SameTicket(tickets[id], new)
      BY <3>1, <3>5, <3>7, <3>8 DEF SameTicket
    <3> QED
      BY <3>9, <2>2, <2>3 DEF IInv, TypeOK
  <2>4. CASE q.id # id
    <3>1. tickets'[id] = tickets[id]
      BY <2>2, <2>4 DEF IInv, TypeOK
    <3> QED
      BY <3>1 DEF SameTicket
  <2> QED
    BY <2>3, <2>4
<1> QED
  BY <1>1, <1>2, <1>3, TicketWriters

(* A ticket is never removed and never becomes another one. *)
THEOREM IdentityIsStable == Spec => TicketIdentityStable
<1>1. IInv /\ [Next]_vars =>
        [\A id \in TicketIds : tickets[id] # Null => SameTicket(tickets[id], tickets'[id])]_vars
  BY IdentityStep
<1> QED
  BY <1>1, Invariance, PTL DEF Spec, TicketIdentityStable

-----------------------------------------------------------------------------
(* The outgoing_mutations table implements the abstract ledger. *)

(* A step either leaves the ledger alone or books one payout whose ticket  *)
(* and reference no earlier row has.                                       *)
LEMMA LedgerStep ==
    ASSUME [Next]_vars
    PROVE  [Ledger!Book]_outgoing
<1>1. ASSUME NEW r \in Requests, NEW id \in TicketIds, NEW actor \in TicketAdmins,
             TicketOp(r, id, actor)
      PROVE  outgoing' = outgoing
  BY <1>1 DEF TicketOp, Claim, Handoff, SetResolution, Transition, ApproveWithdrawal,
              ApproveSeller, RecordPayment, ThenSave
<1>2. ASSUME NEW r \in Requests, SavePayment(r)
      PROVE  Ledger!Book
  <2>1. PICK row : row = MutationOf(req[r].id, req[r].rec, req[r].actor, req[r].ref)
    OBVIOUS
  <2>2. row.ticket = req[r].id /\ row.reference = req[r].ref
    BY <2>1 DEF MutationOf
  <2>3. outgoing' = outgoing \cup {row} /\ UniqueIndexes(req[r].id, req[r].ref)
    BY <1>2, <2>1 DEF SavePayment
  <2> QED
    BY <2>2, <2>3 DEF Ledger!Book, Ledger!Booked, UniqueIndexes
<1>3. ASSUME NEW r \in Requests, RequestStep(r)
      PROVE  outgoing' = outgoing \/ SavePayment(r)
  BY <1>3 DEF RequestStep, NextSeq, Save, PaymentListOpen, PaymentListByOpener, OutgoingExists, Abort
<1>4. ASSUME NEW r \in Requests, NEW actor \in Users, NEW typeKey \in InputTypes,
             NEW amount \in Amounts, Create(r, actor, typeKey, amount)
      PROVE  outgoing' = outgoing
  BY <1>4 DEF Create
<1> QED
  BY <1>1, <1>2, <1>3, <1>4 DEF Next, vars

(* The service implements the payout ledger: rows are only added, and no   *)
(* ticket or reference is booked twice, whatever the interleaving.         *)
THEOREM LedgerRefinement == Spec => ImplementsLedger
<1>1. Init => Ledger!Init
  BY DEF Init, Ledger!Init
<1>2. [Next]_vars => [Ledger!Book]_outgoing
  BY LedgerStep
<1> QED
  BY <1>1, <1>2, PTL DEF Spec, ImplementsLedger, Ledger!Spec

(* "The same sale cannot be paid twice": no two rows of the ledger share a *)
(* ticket or a payment reference.                                          *)
THEOREM NoDoublePayout == Spec => []Ledger!SingleUse
<1>1. Ledger!Init => Ledger!SingleUse
  BY DEF Ledger!Init, Ledger!SingleUse
<1>2. Ledger!SingleUse /\ [Ledger!Book]_outgoing => Ledger!SingleUse'
  BY DEF Ledger!SingleUse, Ledger!Book, Ledger!Booked
<1> QED
  BY <1>1, <1>2, LedgerRefinement, PTL DEF ImplementsLedger, Ledger!Spec

-----------------------------------------------------------------------------
(* What holds while no two requests hold copies of one ticket. *)

(* In no workflow does an edge leave "closed". *)
LEMMA ClosedIsTerminal ==
    ASSUME NEW old, NEW new, StatusStep(old, new), Closed(old)
    PROVE  Closed(new)
<1>1. \A e \in legacyStatuses : e[1] # "closed"
  BY DEF legacyStatuses
<1>2. \A e \in withdrawalStatuses : e[1] # "closed"
  BY DEF withdrawalStatuses
<1>3. \A e \in reviewStatuses : e[1] # "closed"
  BY DEF reviewStatuses, terminalStatuses
<1>4. \A e \in supportStatuses : e[1] # "closed"
  BY DEF supportStatuses, terminalStatuses
<1>5. \A w : \A e \in workflows(w) : e[1] # "closed"
  BY <1>1, <1>2, <1>3, <1>4 DEF workflows
<1>6. \A w, to : <<"closed", to>> \notin workflows(w)
  <2> SUFFICES ASSUME NEW w, NEW to, <<"closed", to>> \in workflows(w)
               PROVE  FALSE
    OBVIOUS
  <2>1. <<"closed", to>>[1] # "closed"
    BY <1>5
  <2> QED
    BY <2>1
<1>7. ~CanTransition(old.type, old.workflow, "closed", new.status)
  BY <1>6 DEF CanTransition, WorkflowForTicket
<1> QED
  BY <1>7 DEF StatusStep, Closed

(* A withdrawal that is paid can only be closed. *)
LEMMA PaidOrClosed ==
    ASSUME NEW old, NEW new, StatusStep(old, new), old.type = "withdraw",
           old.workflow = WorkflowForType(old.type), old.status \in {"paid", "closed"}
    PROVE  new.status \in {"paid", "closed"}
<1>1. old.workflow = "withdrawal-v1"
  BY DEF WorkflowForType, TransactionTypes, ReviewTypes, SupportTypes
<1>2. WorkflowForTicket(old.type, old.workflow) = withdrawalStatuses
  BY <1>1 DEF WorkflowForTicket, workflows
<1>3. \A to : <<"paid", to>> \in withdrawalStatuses => to = "closed"
  BY DEF withdrawalStatuses
<1>4. CASE old.status = "closed"
  BY <1>4, ClosedIsTerminal DEF Closed
<1>5. CASE old.status = "paid"
  BY <1>2, <1>3, <1>5 DEF StatusStep, CanTransition
<1> QED
  BY <1>4, <1>5

(* Approving a withdrawal is an edge of its workflow. *)
LEMMA ApprovalIsAnEdge ==
    CanTransition("withdraw", "withdrawal-v1", "open", "approved")
<1>1. WorkflowForType("withdraw") = "withdrawal-v1"
  BY DEF WorkflowForType, TransactionTypes, ReviewTypes, SupportTypes
<1>2. WorkflowForTicket("withdraw", "withdrawal-v1") = withdrawalStatuses
  BY <1>1 DEF WorkflowForTicket, workflows
<1> QED
  BY <1>2 DEF CanTransition, withdrawalStatuses

(* What an operation on a ticket remembers is one step ahead of the row.   *)
LEMMA OpIsFresh ==
    ASSUME IInv, NEW r \in Requests, NEW id \in TicketIds, NEW actor \in TicketAdmins,
           TicketOp(r, id, actor)
    PROVE  \E q : /\ req' = [req EXCEPT ![r] = q]
                  /\ UNCHANGED <<tickets, outgoing, seq>>
                  /\ FreshRequest(q)
                  /\ ~Creating(q)
<1> DEFINE rec == tickets[id]
<1>1. ASSUME NEW op, Find(r, op, id, actor)
      PROVE  rec \in Record /\ rec # Null /\ SoundRecord(id, rec)
  BY <1>1, FoundTicket
<1>2. ASSUME NEW next, rec # Null, ThenSave(r, id, next), FreshCopy(rec, next)
      PROVE  \E q : /\ req' = [req EXCEPT ![r] = q]
                    /\ UNCHANGED <<tickets, outgoing, seq>>
                    /\ FreshRequest(q)
                    /\ ~Creating(q)
  <2> DEFINE q == Saving(id, next)
  <2>1. q.step = "Save" /\ q.id = id /\ q.rec = next
    BY DEF Saving, Idle
  <2>2. req' = [req EXCEPT ![r] = q] /\ UNCHANGED <<tickets, outgoing, seq>>
    BY <1>2 DEF ThenSave
  <2> HIDE DEF q
  <2>3. FreshRequest(q) /\ ~Creating(q)
    BY <1>2, <2>1 DEF FreshRequest, Creating, PaymentSteps
  <2> QED
    BY <2>2, <2>3
<1>3. ASSUME NEW next, rec # Null, ThenSave(r, id, next),
             next.status = rec.status, next.withdrawal = rec.withdrawal
      PROVE  FreshCopy(rec, next)
  BY <1>3 DEF FreshCopy, StatusStep
<1>4. CASE Claim(r, id, actor)
  <2>1. PICK next : next = [rec EXCEPT !.assigned = actor]
    OBVIOUS
  <2>2. rec \in Record /\ rec # Null /\ ThenSave(r, id, next)
    BY <1>1, <1>4, <2>1 DEF Claim
  <2>3. next.status = rec.status /\ next.withdrawal = rec.withdrawal
    BY <2>1, <2>2 DEF Record
  <2> QED
    BY <1>2, <1>3, <2>2, <2>3
<1>5. ASSUME NEW target \in TicketAdmins, Handoff(r, id, actor, target)
      PROVE  \E next : rec # Null /\ ThenSave(r, id, next) /\ FreshCopy(rec, next)
  <2>1. PICK next : next = [rec EXCEPT !.assigned = target]
    OBVIOUS
  <2>2. rec \in Record /\ rec # Null /\ ThenSave(r, id, next)
    BY <1>1, <1>5, <2>1 DEF Handoff
  <2>3. next.status = rec.status /\ next.withdrawal = rec.withdrawal
    BY <2>1, <2>2 DEF Record
  <2> QED
    BY <1>3, <2>2, <2>3
<1>6. CASE SetResolution(r, id, actor)
  <2>1. PICK next : next = [rec EXCEPT !.resolution = actor]
    OBVIOUS
  <2>2. rec \in Record /\ rec # Null /\ ThenSave(r, id, next)
    BY <1>1, <1>6, <2>1 DEF SetResolution
  <2>3. next.status = rec.status /\ next.withdrawal = rec.withdrawal
    BY <2>1, <2>2 DEF Record
  <2> QED
    BY <1>2, <1>3, <2>2, <2>3
<1>7. CASE ApproveSeller(r, id, actor)
  <2>1. PICK next : next = [rec EXCEPT !.seller = actor]
    OBVIOUS
  <2>2. rec \in Record /\ rec # Null /\ ThenSave(r, id, next)
    BY <1>1, <1>7, <2>1 DEF ApproveSeller
  <2>3. next.status = rec.status /\ next.withdrawal = rec.withdrawal
    BY <2>1, <2>2 DEF Record
  <2> QED
    BY <1>2, <1>3, <2>2, <2>3
<1>8. ASSUME NEW to \in Statuses, Transition(r, id, actor, to)
      PROVE  \E next : rec # Null /\ ThenSave(r, id, next) /\ FreshCopy(rec, next)
  <2>1. PICK next : next = [rec EXCEPT !.status = to]
    OBVIOUS
  <2>2. rec \in Record /\ rec # Null /\ ThenSave(r, id, next)
    BY <1>1, <1>8, <2>1 DEF Transition
  <2>3. next.status = to /\ next.withdrawal = rec.withdrawal
    BY <2>1, <2>2 DEF Record
  <2>4. CanTransition(rec.type, rec.workflow, rec.status, to)
    BY <1>8 DEF Transition, Movable
  <2> QED
    BY <2>2, <2>3, <2>4 DEF FreshCopy, StatusStep
<1>9. CASE ApproveWithdrawal(r, id, actor)
  <2>1. PICK wd, next : /\ wd = [rec.withdrawal EXCEPT !.approval = actor]
                        /\ next = Approved(rec, actor)
    OBVIOUS
  <2>2. /\ rec \in Record /\ rec # Null /\ ThenSave(r, id, next)
        /\ rec.withdrawal \in Withdrawal /\ Approvable(rec, actor)
    BY <1>1, <1>9, <2>1 DEF ApproveWithdrawal, Approvable, Record
  <2>3. wd.outgoing = rec.withdrawal.outgoing
    BY <2>1, <2>2 DEF Withdrawal
  <2>4. next.status = "approved" /\ next.withdrawal = wd
    BY <2>1, <2>2 DEF Approved, Record
  <2>5. StatusStep(rec, next)
    BY <2>2, <2>4, ApprovalIsAnEdge DEF StatusStep, Approvable, IsWithdrawal
  <2> QED
    BY <1>2, <2>2, <2>3, <2>4, <2>5 DEF FreshCopy
<1>10. ASSUME NEW ref \in References, RecordPayment(r, id, actor, ref)
       PROVE  \E q : /\ req' = [req EXCEPT ![r] = q]
                     /\ UNCHANGED <<tickets, outgoing, seq>>
                     /\ FreshRequest(q)
                     /\ ~Creating(q)
  <2> DEFINE q == [step |-> "ListOpen", id |-> id, actor |-> actor, ref |-> ref, rec |-> rec]
  <2>1. req' = [req EXCEPT ![r] = q] /\ UNCHANGED <<tickets, outgoing, seq>>
    BY <1>10 DEF RecordPayment
  <2>2. FreshRequest(q) /\ ~Creating(q)
    BY DEF FreshRequest, Creating, PaymentSteps
  <2> QED
    BY <2>1, <2>2
<1> QED
  BY <1>2, <1>4, <1>5, <1>6, <1>7, <1>8, <1>9, <1>10 DEF TicketOp

(* A step that writes no table moves one request, to a fresh copy or to a  *)
(* ticket its member has room for.                                         *)
LEMMA StepKinds ==
    ASSUME IInv, FreshInv, [Next]_vars
    PROVE  \/ UNCHANGED vars
           \/ \E r \in Requests : \E q :
                 /\ req' = [req EXCEPT ![r] = q]
                 /\ UNCHANGED <<tickets, outgoing, seq>>
                 /\ FreshRequest(q)
                 /\ Creating(q) => ActiveLimit(q.rec.opener, q.rec.type)
           \/ \E r \in Requests : NextSeq(r) \/ Save(r) \/ SavePayment(r)
<1> DEFINE Moves(r, q) == /\ req' = [req EXCEPT ![r] = q]
                          /\ UNCHANGED <<tickets, outgoing, seq>>
                          /\ FreshRequest(q)
                          /\ Creating(q) => ActiveLimit(q.rec.opener, q.rec.type)
<1>1. ASSUME NEW r \in Requests, NEW actor \in Users, NEW typeKey \in InputTypes,
             NEW amount \in Amounts, Create(r, actor, typeKey, amount)
      PROVE  \E q : Moves(r, q)
  <2>1. PICK rec, q : /\ rec = NewRecord(typeKey, actor, amount)
                      /\ q = [Idle EXCEPT !.step = "NextSeq", !.rec = rec]
    OBVIOUS
  <2>2. rec.opener = actor /\ rec.type = typeKey
    BY <2>1 DEF NewRecord
  <2>3. q.step = "NextSeq" /\ q.rec = rec
    BY <2>1 DEF Idle
  <2>4. /\ req' = [req EXCEPT ![r] = q] /\ UNCHANGED <<tickets, outgoing, seq>>
        /\ ActiveLimit(actor, typeKey)
    BY <1>1, <2>1 DEF Create
  <2> QED
    BY <2>2, <2>3, <2>4 DEF FreshRequest, PaymentSteps
<1>2. ASSUME NEW r \in Requests, NEW id \in TicketIds, NEW actor \in TicketAdmins,
             TicketOp(r, id, actor)
      PROVE  \E q : Moves(r, q)
  BY <1>2, OpIsFresh
<1>3. ASSUME NEW r \in Requests, NEW step \in PaymentSteps, req[r].step \in PaymentSteps,
             req' = [req EXCEPT ![r].step = step], UNCHANGED <<tickets, outgoing, seq>>
      PROVE  \E q : Moves(r, q)
  <2>1. PICK q : q = [req[r] EXCEPT !.step = step]
    OBVIOUS
  <2>2. req[r] \in Request /\ FreshRequest(req[r])
    BY DEF IInv, TypeOK, FreshInv
  <2>3. q.step = step /\ q.id = req[r].id /\ q.rec = req[r].rec
    BY <2>1, <2>2 DEF Request
  <2>4. FreshRequest(q) /\ ~Creating(q)
    BY <1>3, <2>2, <2>3 DEF FreshRequest, Creating, PaymentSteps
  <2> QED
    BY <1>3, <2>1, <2>4
<1>4. ASSUME NEW r \in Requests, Abort(r)
      PROVE  \E q : Moves(r, q)
  <2>1. Idle.step = "idle"
    BY DEF Idle
  <2>2. FreshRequest(Idle) /\ ~Creating(Idle)
    BY <2>1 DEF FreshRequest, Creating, PaymentSteps
  <2> QED
    BY <1>4, <2>2 DEF Abort
<1>5. ASSUME NEW r \in Requests, RequestStep(r)
      PROVE  (\E q : Moves(r, q)) \/ NextSeq(r) \/ Save(r) \/ SavePayment(r)
  <2>1. CASE PaymentListOpen(r)
    BY <2>1, <1>3 DEF PaymentListOpen, PaymentSteps
  <2>2. CASE PaymentListByOpener(r)
    BY <2>2, <1>3 DEF PaymentListByOpener, PaymentSteps
  <2>3. CASE OutgoingExists(r)
    BY <2>3, <1>3 DEF OutgoingExists, PaymentSteps
  <2> QED
    BY <1>4, <1>5, <2>1, <2>2, <2>3 DEF RequestStep
<1> QED
  BY <1>1, <1>2, <1>5 DEF Next

(* A request that writes its row is done, and nothing else changes.        *)
LEMMA WriteStep ==
    ASSUME IInv, FreshInv, NEW r \in Requests, Save(r) \/ SavePayment(r)
    PROVE  \E new : /\ req[r].id \in TicketIds
                    /\ tickets' = [tickets EXCEPT ![req[r].id] = new]
                    /\ req' = [req EXCEPT ![r] = Idle]
                    /\ tickets[req[r].id] # Null => StatusStep(tickets[req[r].id], new)
<1> DEFINE q == req[r]
<1>1. q \in Request /\ SoundRequest(q) /\ FreshRequest(q)
  BY DEF IInv, TypeOK, FreshInv
<1>2. q.id \in TicketIds
  BY <1>1, ConstantsAssumption DEF Save, SavePayment, SoundRequest, PaymentSteps, IInv, TypeOK, TicketIds
<1>3. CASE Save(r)
  BY <1>1, <1>2, <1>3 DEF Save, FreshRequest, FreshCopy
<1>4. CASE SavePayment(r)
  <2>1. PICK new : new = Paid(q.rec, q.actor, q.ref)
    OBVIOUS
  <2>2. /\ tickets' = [tickets EXCEPT ![q.id] = new] /\ req' = [req EXCEPT ![r] = Idle]
        /\ q.step = "SavePayment"
    BY <1>4, <2>1 DEF SavePayment
  <2>3. q.rec = tickets[q.id] /\ q.rec.status = "approved" /\ q.rec \in Record
    BY <1>1, <2>2 DEF FreshRequest, SoundRequest, PaymentSteps, Payable, Request
  <2>4. new.status = "paid"
    BY <2>1, <2>3 DEF Paid, Record
  <2> QED
    BY <1>2, <2>2, <2>3, <2>4 DEF StatusStep
<1> QED
  BY <1>3, <1>4

(* Copies stay fresh as long as no two requests hold one ticket.           *)
LEMMA FreshStep ==
    ASSUME IInv, FreshInv, OneRequestPerTicket, [Next]_vars
    PROVE  FreshInv'
<1>1. CASE UNCHANGED vars
  BY <1>1 DEF vars, FreshInv, FreshRequest
<1>2. ASSUME NEW r \in Requests, NEW q,
             req' = [req EXCEPT ![r] = q], UNCHANGED <<tickets, outgoing, seq>>, FreshRequest(q)
      PROVE  FreshInv'
  <2> SUFFICES ASSUME NEW s \in Requests
               PROVE  FreshRequest(req[s])'
    BY DEF FreshInv
  <2>1. PICK p : p = req'[s]
    OBVIOUS
  <2>2. FreshRequest(p)
    BY <1>2, <2>1 DEF FreshInv, IInv, TypeOK
  <2> QED
    BY <1>2, <2>1, <2>2 DEF FreshRequest
<1>3. ASSUME NEW r \in Requests, NextSeq(r)
      PROVE  FreshInv'
  <2> SUFFICES ASSUME NEW s \in Requests
               PROVE  FreshRequest(req[s])'
    BY DEF FreshInv
  <2>1. UNCHANGED tickets
    BY <1>3 DEF NextSeq
  <2>2. CASE s = r
    <3>1. req[r] \in Request /\ seq + 1 \in TicketIds /\ seq \in Nat
      BY <1>3, ConstantsAssumption DEF IInv, TypeOK, NextSeq, TicketIds
    <3>2. req'[s].step = "Save" /\ req'[s].id = seq + 1
      BY <1>3, <2>2, <3>1 DEF NextSeq, IInv, TypeOK, Request
    <3>3. tickets'[seq + 1] = Null
      BY <2>1, <3>1 DEF IInv
    <3> QED
      BY <3>2, <3>3 DEF FreshRequest, PaymentSteps
  <2>3. CASE s # r
    <3>1. req'[s] = req[s] /\ FreshRequest(req[s])
      BY <1>3, <2>3 DEF NextSeq, IInv, TypeOK, FreshInv
    <3> QED
      BY <2>1, <3>1 DEF FreshRequest
  <2> QED
    BY <2>2, <2>3
<1>4. ASSUME NEW r \in Requests, Save(r) \/ SavePayment(r)
      PROVE  FreshInv'
  <2>1. PICK new : /\ req[r].id \in TicketIds
                   /\ tickets' = [tickets EXCEPT ![req[r].id] = new]
                   /\ req' = [req EXCEPT ![r] = Idle]
    BY <1>4, WriteStep
  <2> SUFFICES ASSUME NEW s \in Requests
               PROVE  FreshRequest(req[s])'
    BY DEF FreshInv
  <2>2. CASE s = r
    <3>1. req'[s] = Idle
      BY <2>1, <2>2 DEF IInv, TypeOK
    <3>2. Idle.step = "idle"
      BY DEF Idle
    <3> QED
      BY <3>1, <3>2 DEF FreshRequest, PaymentSteps
  <2>3. CASE s # r
    <3>1. req'[s] = req[s] /\ FreshRequest(req[s]) /\ SoundRequest(req[s])
      BY <2>1, <2>3 DEF IInv, TypeOK, FreshInv
    <3>2. CASE req[s].step \notin {"Save"} \cup PaymentSteps
      BY <3>1, <3>2 DEF FreshRequest
    <3>3. CASE req[s].step \in {"Save"} \cup PaymentSteps
      <4>1. req[s].id \in TicketIds /\ req[s].id # 0
        BY <3>1, <3>3, ConstantsAssumption DEF SoundRequest, IInv, TypeOK, TicketIds
      <4>2. tickets'[req[s].id] = tickets[req[s].id]
        BY <2>1, <2>3, <4>1 DEF OneRequestPerTicket, IInv, TypeOK
      <4> QED
        BY <3>1, <4>2 DEF FreshRequest
    <3> QED
      BY <3>2, <3>3
  <2> QED
    BY <2>2, <2>3
<1> QED
  BY <1>1, <1>2, <1>3, <1>4, StepKinds

(* The copies in flight are up to date.                                    *)
LEMMA Freshness == Spec /\ []OneRequestPerTicket => []FreshInv
<1>1. Init => FreshInv
  <2>1. Idle.step = "idle"
    BY DEF Idle
  <2> QED
    BY <2>1 DEF Init, FreshInv, FreshRequest, PaymentSteps
<1>2. IInv /\ FreshInv /\ OneRequestPerTicket /\ [Next]_vars => FreshInv'
  BY FreshStep
<1> QED
  BY <1>1, <1>2, Invariance, PTL DEF Spec

(* Statuses only follow the workflow.                                      *)
LEMMA StatusStepOfAny ==
    ASSUME IInv, FreshInv, [Next]_vars, NEW id \in TicketIds, tickets[id] # Null
    PROVE  StatusStep(tickets[id], tickets'[id])
<1>1. CASE tickets' = tickets
  BY <1>1 DEF StatusStep
<1>2. ASSUME NEW r \in Requests, Save(r) \/ SavePayment(r)
      PROVE  StatusStep(tickets[id], tickets'[id])
  <2>1. PICK new : /\ req[r].id \in TicketIds
                   /\ tickets' = [tickets EXCEPT ![req[r].id] = new]
                   /\ tickets[req[r].id] # Null => StatusStep(tickets[req[r].id], new)
    BY <1>2, WriteStep
  <2>2. CASE req[r].id = id
    BY <2>1, <2>2 DEF IInv, TypeOK
  <2>3. CASE req[r].id # id
    <3>1. tickets'[id] = tickets[id]
      BY <2>1, <2>3 DEF IInv, TypeOK
    <3> QED
      BY <3>1 DEF StatusStep
  <2> QED
    BY <2>2, <2>3
<1> QED
  BY <1>1, <1>2, TicketWriters

(* "closed is terminal", and every other status changes along its workflow *)
(* or by a payment, as long as no two requests hold copies of one ticket.  *)
THEOREM StatusesFollowWorkflows ==
    Spec /\ []OneRequestPerTicket => StatusFollowsWorkflow
<1>1. IInv /\ FreshInv /\ [Next]_vars =>
        [\A id \in TicketIds : tickets[id] # Null => StatusStep(tickets[id], tickets'[id])]_vars
  BY StatusStepOfAny
<1> QED
  BY <1>1, Invariance, Freshness, PTL DEF Spec, StatusFollowsWorkflow

(* The row of a paid ticket and its ledger row agree after every step.     *)
LEMMA TogetherStep ==
    ASSUME IInv, FreshInv, LedgerAndTicketTogether, [Next]_vars
    PROVE  LedgerAndTicketTogether'
<1> SUFFICES ASSUME NEW row \in outgoing'
             PROVE  /\ tickets'[row.ticket].status \in {"paid", "closed"}
                    /\ tickets'[row.ticket].withdrawal.outgoing
                         = [reference |-> row.reference, by |-> row.by]
  BY DEF LedgerAndTicketTogether
<1> DEFINE Booked(rec) == /\ rec.status \in {"paid", "closed"}
                          /\ rec.withdrawal.outgoing = [reference |-> row.reference, by |-> row.by]
<1>1. ASSUME row \in outgoing
      PROVE  /\ row.ticket \in TicketIds /\ tickets[row.ticket] # Null
             /\ tickets[row.ticket] \in Record /\ Booked(tickets[row.ticket])
             /\ tickets[row.ticket].type = "withdraw"
             /\ tickets[row.ticket].workflow = WorkflowForType(tickets[row.ticket].type)
             /\ tickets[row.ticket].withdrawal # Null
  BY <1>1 DEF IInv, TypeOK, OutgoingMutation, LedgerRowMatchesRequest, LedgerAndTicketTogether,
              SoundRecord
<1>2. CASE tickets' = tickets /\ outgoing' = outgoing
  BY <1>1, <1>2
<1>3. ASSUME NEW r \in Requests, Save(r)
      PROVE  Booked(tickets'[row.ticket])
  <2> DEFINE q == req[r]
  <2>1. /\ q.step = "Save" /\ tickets' = [tickets EXCEPT ![q.id] = q.rec] /\ row \in outgoing
        /\ q \in Request /\ FreshRequest(q)
    BY <1>3 DEF Save, IInv, TypeOK, FreshInv
  <2>2. CASE q.id # row.ticket
    BY <1>1, <2>1, <2>2 DEF IInv, TypeOK
  <2>3. CASE q.id = row.ticket
    <3>1. FreshCopy(tickets[q.id], q.rec)
      BY <1>1, <2>1, <2>3 DEF FreshRequest
    <3>2. tickets'[row.ticket] = q.rec
      BY <1>1, <2>1, <2>3 DEF IInv, TypeOK
    <3>3. q.rec.status \in {"paid", "closed"}
      BY <1>1, <2>1, <2>3, <3>1, PaidOrClosed DEF FreshCopy
    <3>4. q.rec.withdrawal.outgoing = tickets[row.ticket].withdrawal.outgoing
      BY <1>1, <2>1, <2>3, <3>1 DEF FreshCopy
    <3> QED
      BY <1>1, <2>1, <3>2, <3>3, <3>4
  <2> QED
    BY <2>2, <2>3
<1>4. ASSUME NEW r \in Requests, SavePayment(r)
      PROVE  Booked(tickets'[row.ticket])
  <2>1. PICK q, pay, wd, new : /\ q = req[r]
                               /\ pay = [reference |-> q.ref, by |-> q.actor]
                               /\ wd = [q.rec.withdrawal EXCEPT !.outgoing = pay]
                               /\ new = Paid(q.rec, q.actor, q.ref)
    OBVIOUS
  <2>2. /\ q.step = "SavePayment" /\ UniqueIndexes(q.id, q.ref)
        /\ tickets' = [tickets EXCEPT ![q.id] = new]
        /\ outgoing' = outgoing \cup {MutationOf(q.id, q.rec, q.actor, q.ref)}
    BY <1>4, <2>1 DEF SavePayment
  <2>3. /\ q \in Request /\ SoundRequest(q) /\ q.id \in TicketIds
        /\ q.rec \in Record /\ q.rec.withdrawal \in Withdrawal
    BY <2>1, <2>2, ConstantsAssumption
       DEF IInv, TypeOK, SoundRequest, PaymentSteps, Request, Payable, Record, TicketIds
  <2>4. new.status = "paid" /\ new.withdrawal.outgoing = pay
    BY <2>1, <2>3 DEF Paid, Record, Withdrawal
  <2>5. CASE row \in outgoing
    <3>1. row.ticket # q.id
      BY <2>2, <2>5 DEF UniqueIndexes
    <3> QED
      BY <1>1, <2>2, <2>5, <3>1 DEF IInv, TypeOK
  <2>6. CASE row = MutationOf(q.id, q.rec, q.actor, q.ref)
    <3>1. row.ticket = q.id /\ row.reference = q.ref /\ row.by = q.actor
      BY <2>6 DEF MutationOf
    <3>2. tickets'[q.id] = new
      BY <2>2, <2>3 DEF IInv, TypeOK
    <3> QED
      BY <2>1, <2>4, <3>1, <3>2
  <2> QED
    BY <2>2, <2>5, <2>6
<1> QED
  BY <1>2, <1>3, <1>4, StepKinds DEF vars, NextSeq

(* "The ticket state and the ledger move together": a ledger row's ticket  *)
(* says that it was paid, as long as no two requests hold copies of one    *)
(* ticket.  Two that do break it (the stale write of a claim).             *)
THEOREM TicketFollowsLedger ==
    Spec /\ []OneRequestPerTicket => []LedgerAndTicketTogether
<1>1. Init => LedgerAndTicketTogether
  BY DEF Init, LedgerAndTicketTogether
<1>2. IInv /\ FreshInv /\ LedgerAndTicketTogether /\ [Next]_vars => LedgerAndTicketTogether'
  BY TogetherStep
<1> QED
  BY <1>1, <1>2, Invariance, Freshness, PTL DEF Spec

-----------------------------------------------------------------------------
(* The limits of active tickets. *)

(* The active tickets of a member. *)
ActiveOf(user) == {i \in ListByOpener(user) : ~Closed(tickets[i])}

(* Tickets are finite in number, because their numbers are.                *)
LEMMA ActiveIsFinite ==
    ASSUME NEW T \in SUBSET TicketIds
    PROVE  IsFiniteSet(T) /\ Cardinality(T) \in Nat
<1>1. IsFiniteSet(TicketIds)
  BY FS_Interval, ConstantsAssumption DEF TicketIds
<1> QED
  BY <1>1, FS_Subset, FS_CardinalityType

(* One more ticket is at most one more in number.                          *)
LEMMA OneMore ==
    ASSUME NEW S, IsFiniteSet(S), NEW x
    PROVE  IsFiniteSet(S \cup {x}) /\ Cardinality(S \cup {x}) <= Cardinality(S) + 1
<1>1. Cardinality(S) \in Nat
  BY FS_CardinalityType
<1>2. IsFiniteSet(S \cup {x}) /\ Cardinality(S \cup {x}) \in {Cardinality(S), Cardinality(S) + 1}
  BY FS_AddElement
<1> QED
  BY <1>1, <1>2

(* A limit that was kept is kept by fewer tickets.                         *)
LEMMA FewerIsBelow ==
    ASSUME NEW S \in SUBSET TicketIds, NEW T \in SUBSET S, Cardinality(S) < MaxOpenTickets
    PROVE  Cardinality(T) < MaxOpenTickets
<1>1. IsFiniteSet(S) /\ Cardinality(S) \in Nat
  BY ActiveIsFinite
<1>2. Cardinality(T) <= Cardinality(S) /\ Cardinality(T) \in Nat
  BY <1>1, FS_Subset, FS_CardinalityType
<1> QED
  BY <1>1, <1>2, ConstantsAssumption

(* A ticket that is active after a step was active before, or has just     *)
(* been inserted.                                                          *)
LEMMA ActiveBefore ==
    ASSUME IInv, FreshInv, [Next]_vars, NEW user, NEW i \in ActiveOf(user)'
    PROVE  \/ i \in ActiveOf(user) /\ tickets'[i].type = tickets[i].type
           \/ \E r \in Requests : /\ Save(r) /\ req[r].id = i /\ Creating(req[r])
                                  /\ tickets'[i] = req[r].rec
<1>1. i \in TicketIds /\ tickets'[i] # Null /\ tickets'[i].opener = user /\ ~Closed(tickets'[i])
  BY DEF ActiveOf, ListByOpener
<1>2. CASE tickets[i] # Null
  <2>1. SameTicket(tickets[i], tickets'[i]) /\ StatusStep(tickets[i], tickets'[i])
    BY <1>1, <1>2, IdentityStep, StatusStepOfAny
  <2>2. ~Closed(tickets[i])
    BY <1>1, <2>1, ClosedIsTerminal
  <2> QED
    BY <1>1, <1>2, <2>1, <2>2 DEF SameTicket, ActiveOf, ListByOpener
<1>3. CASE tickets[i] = Null
  <2>1. PICK r \in Requests : Save(r) \/ SavePayment(r)
    BY <1>1, <1>3, TicketWriters
  <2>2. PICK new : tickets' = [tickets EXCEPT ![req[r].id] = new]
    BY <2>1, WriteStep
  <2>3. req[r].id = i
    BY <1>1, <1>3, <2>2 DEF IInv, TypeOK
  <2>4. Save(r)
    <3>1. req[r].step = "SavePayment" => tickets[req[r].id] # Null
      BY DEF IInv, SoundRequest, PaymentSteps
    <3> QED
      BY <1>3, <2>1, <2>3, <3>1 DEF SavePayment
  <2>5. tickets'[i] = req[r].rec /\ req[r].step = "Save"
    BY <1>1, <2>3, <2>4 DEF Save, IInv, TypeOK
  <2> QED
    BY <1>3, <2>3, <2>4, <2>5 DEF Creating
<1> QED
  BY <1>2, <1>3

(* Somebody who is creating a ticket keeps room for it.                    *)
LEMMA RoomStep ==
    ASSUME IInv, FreshInv, RoomInv, OneCreatePerMember, [Next]_vars
    PROVE  RoomInv'
<1> SUFFICES ASSUME NEW s \in Requests, Creating(req[s])'
             PROVE  ActiveLimit(req[s].rec.opener, req[s].rec.type)'
  BY DEF RoomInv
<1>0. PICK user, typeKey : user = req'[s].rec.opener /\ typeKey = req'[s].rec.type
  OBVIOUS
<1>1. ASSUME Creating(req[s]), req'[s].rec = req[s].rec, ActiveOf(user)' \subseteq ActiveOf(user),
             \A i \in ActiveOf(user)' : tickets'[i].type = tickets[i].type
      PROVE  ActiveLimit(user, typeKey)'
  <2>1. /\ \A i \in ActiveOf(user) : tickets[i].type # typeKey
        /\ Cardinality(ActiveOf(user)) < MaxOpenTickets
    BY <1>0, <1>1 DEF RoomInv, ActiveLimit, ActiveOf
  <2>2. ActiveOf(user) \subseteq TicketIds
    BY DEF ActiveOf, ListByOpener
  <2>3. Cardinality(ActiveOf(user)') < MaxOpenTickets
    BY <1>1, <2>1, <2>2, FewerIsBelow
  <2>4. \A i \in ActiveOf(user)' : tickets'[i].type # typeKey
    BY <1>1, <2>1
  <2> QED
    BY <2>3, <2>4 DEF ActiveLimit, ActiveOf, ListByOpener
<1>2. ASSUME UNCHANGED vars
      PROVE  ActiveLimit(user, typeKey)'
  <2>1. ActiveOf(user)' = ActiveOf(user)
    BY <1>2 DEF vars, ActiveOf, ListByOpener
  <2>2. UNCHANGED <<tickets, req>>
    BY <1>2 DEF vars
  <2>3. Creating(req[s])
    BY <2>2 DEF Creating
  <2>4. \A i \in ActiveOf(user)' : i \in ActiveOf(user) /\ tickets'[i].type = tickets[i].type
    BY <2>1, <2>2
  <2>5. req'[s].rec = req[s].rec
    BY <2>2
  <2> QED
    BY <1>1, <2>3, <2>4, <2>5
<1>3. ASSUME NEW r \in Requests, NEW q,
             req' = [req EXCEPT ![r] = q], UNCHANGED <<tickets, outgoing, seq>>,
             Creating(q) => ActiveLimit(q.rec.opener, q.rec.type)
      PROVE  ActiveLimit(user, typeKey)'
  <2>1. ActiveOf(user)' = ActiveOf(user)
    BY <1>3 DEF ActiveOf, ListByOpener
  <2>2. CASE s = r
    <3>1. req'[s] = q
      BY <1>3, <2>2 DEF IInv, TypeOK
    <3>2. ActiveLimit(user, typeKey)
      BY <1>0, <1>3, <3>1 DEF Creating
    <3> QED
      BY <1>3, <2>1, <3>2 DEF ActiveLimit, ActiveOf, ListByOpener
  <2>3. CASE s # r
    BY <1>1, <1>3, <2>1, <2>3 DEF Creating, IInv, TypeOK
  <2> QED
    BY <2>2, <2>3
<1>4. ASSUME NEW r \in Requests, NextSeq(r)
      PROVE  ActiveLimit(user, typeKey)'
  <2>1. UNCHANGED tickets /\ req[r].step = "NextSeq" /\ req[r] \in Request
    BY <1>4 DEF NextSeq, IInv, TypeOK
  <2>2. ActiveOf(user)' = ActiveOf(user)
    BY <2>1 DEF ActiveOf, ListByOpener
  <2>3. s = r \/ req'[s] = req[s]
    BY <1>4 DEF NextSeq, IInv, TypeOK
  <2>4. s = r => req'[s].rec = req[s].rec
    BY <1>4, <2>1 DEF NextSeq, IInv, TypeOK, Request
  <2> QED
    BY <1>1, <2>1, <2>2, <2>3, <2>4 DEF Creating
<1>5. ASSUME NEW r \in Requests, Save(r) \/ SavePayment(r)
      PROVE  ActiveLimit(user, typeKey)'
  <2>1. req' = [req EXCEPT ![r] = Idle]
    BY <1>5, WriteStep
  <2>2. s # r
    <3>1. Idle.step = "idle"
      BY DEF Idle
    <3> QED
      BY <2>1, <3>1 DEF Creating, IInv, TypeOK
  <2>3. req'[s] = req[s]
    BY <2>1, <2>2 DEF IInv, TypeOK
  <2>4. Creating(req[s])
    <3>1. CASE req[s].step = "Save"
      <4>1. req[s].id \in TicketIds
        BY <3>1, ConstantsAssumption DEF IInv, TypeOK, SoundRequest, TicketIds
      <4> QED
        BY <2>3, <3>1, <4>1, IdentityStep DEF Creating, SameTicket
    <3> QED
      BY <2>3, <3>1 DEF Creating
  <2>5. ASSUME NEW i \in ActiveOf(user)'
        PROVE  i \in ActiveOf(user) /\ tickets'[i].type = tickets[i].type
    <3> SUFFICES ASSUME NEW p \in Requests, Save(p), Creating(req[p]), tickets'[i] = req[p].rec
                 PROVE  FALSE
      BY ActiveBefore
    <3>1. tickets'[i].opener = user
      BY DEF ActiveOf, ListByOpener
    <3>2. p # s
      <4>1. req'[p] = Idle
        BY DEF Save, IInv, TypeOK
      <4>2. Idle.step = "idle"
        BY DEF Idle
      <4> QED
        BY <4>1, <4>2 DEF Creating
    <3> QED
      BY <1>0, <2>3, <2>4, <3>1, <3>2 DEF OneCreatePerMember
  <2> QED
    BY <1>1, <2>3, <2>4, <2>5
<1>6. ActiveLimit(user, typeKey)'
  <2>1. CASE \E r \in Requests : \E q : /\ req' = [req EXCEPT ![r] = q]
                                        /\ UNCHANGED <<tickets, outgoing, seq>>
                                        /\ Creating(q) => ActiveLimit(q.rec.opener, q.rec.type)
    BY <1>3, <2>1
  <2>2. CASE \E r \in Requests : NextSeq(r) \/ Save(r) \/ SavePayment(r)
    BY <1>4, <1>5, <2>2
  <2>3. CASE UNCHANGED vars
    BY <1>2, <2>3
  <2> QED
    BY <2>1, <2>2, <2>3, StepKinds
<1> QED
  BY <1>0, <1>6 DEF ActiveLimit, ListByOpener

(* A ticket inserted by a request that kept room leaves its member within  *)
(* the limits; nothing else adds to the active tickets.                    *)
LEMMA LimitStep ==
    ASSUME IInv, FreshInv, RoomInv, OneCreatePerMember, WithinActiveLimits, [Next]_vars
    PROVE  WithinActiveLimits'
<1> SUFFICES ASSUME NEW user \in Users
             PROVE  /\ Cardinality(ActiveOf(user)') <= MaxOpenTickets
                    /\ \A i, j \in ActiveOf(user)' : tickets'[i].type = tickets'[j].type => i = j
  BY DEF WithinActiveLimits, ActiveOf, ListByOpener
<1>1. /\ Cardinality(ActiveOf(user)) <= MaxOpenTickets
      /\ \A i, j \in ActiveOf(user) : tickets[i].type = tickets[j].type => i = j
  BY DEF WithinActiveLimits, ActiveOf
<1>2. /\ ActiveOf(user) \subseteq TicketIds
      /\ ActiveOf(user)' \subseteq TicketIds
  BY DEF ActiveOf, ListByOpener
<1>3. /\ IsFiniteSet(ActiveOf(user)) /\ Cardinality(ActiveOf(user)) \in Nat
      /\ IsFiniteSet(ActiveOf(user)') /\ Cardinality(ActiveOf(user)') \in Nat
  BY <1>2, ActiveIsFinite
<1>4. CASE \A i \in ActiveOf(user)' : i \in ActiveOf(user) /\ tickets'[i].type = tickets[i].type
  <2>1. Cardinality(ActiveOf(user)') <= Cardinality(ActiveOf(user))
    BY <1>3, <1>4, FS_Subset
  <2> QED
    BY <1>1, <1>3, <1>4, <2>1, ConstantsAssumption
<1>5. ASSUME NEW n \in ActiveOf(user)', NEW r \in Requests,
             Save(r), req[r].id = n, Creating(req[r]), tickets'[n] = req[r].rec
      PROVE  /\ Cardinality(ActiveOf(user)') <= MaxOpenTickets
             /\ \A i, j \in ActiveOf(user)' : tickets'[i].type = tickets'[j].type => i = j
  <2>1. req[r].rec.opener = user /\ req[r].rec.type = tickets'[n].type
    BY <1>5 DEF ActiveOf, ListByOpener
  <2>2. /\ \A i \in ActiveOf(user) : tickets[i].type # tickets'[n].type
        /\ Cardinality(ActiveOf(user)) < MaxOpenTickets
    BY <1>5, <2>1 DEF RoomInv, ActiveLimit, ActiveOf
  <2>3. ASSUME NEW i \in ActiveOf(user)', i # n
        PROVE  i \in ActiveOf(user) /\ tickets'[i].type = tickets[i].type
    <3> SUFFICES ASSUME NEW p \in Requests, Save(p), req[p].id = i
                 PROVE  FALSE
      BY ActiveBefore
    <3>1. req'[p] = Idle /\ req[p].step = "Save"
      BY DEF Save, IInv, TypeOK
    <3>2. p # r
      BY <1>5, <2>3
    <3>3. req'[p] = req[p]
      BY <1>5, <3>2 DEF Save, IInv, TypeOK
    <3> QED
      BY <3>1, <3>3 DEF Idle
  <2>4. ActiveOf(user)' \subseteq ActiveOf(user) \cup {n}
    BY <2>3
  <2>5. /\ IsFiniteSet(ActiveOf(user) \cup {n})
        /\ Cardinality(ActiveOf(user) \cup {n}) <= Cardinality(ActiveOf(user)) + 1
    BY <1>3, OneMore
  <2>6. /\ Cardinality(ActiveOf(user)') <= Cardinality(ActiveOf(user) \cup {n})
        /\ Cardinality(ActiveOf(user) \cup {n}) \in Nat
    BY <2>4, <2>5, FS_Subset, FS_CardinalityType
  <2>7. Cardinality(ActiveOf(user)') <= MaxOpenTickets
    BY <1>3, <2>2, <2>5, <2>6, ConstantsAssumption
  <2>8. \A i, j \in ActiveOf(user)' : tickets'[i].type = tickets'[j].type => i = j
    BY <1>1, <2>2, <2>3
  <2> QED
    BY <2>7, <2>8
<1> QED
  BY <1>4, <1>5, ActiveBefore

(* The first state: no tickets, nobody creating one.                       *)
LEMMA LimitInit ==
    ASSUME Init
    PROVE  RoomInv /\ WithinActiveLimits
<1>1. \A user : ActiveOf(user) = {}
  BY DEF Init, ActiveOf, ListByOpener
<1>2. WithinActiveLimits
  BY <1>1, FS_EmptySet, ConstantsAssumption DEF WithinActiveLimits, ActiveOf
<1>3. RoomInv
  BY DEF Init, RoomInv, Creating, Idle
<1> QED
  BY <1>2, <1>3

(* "You can have one active ticket per type, up to three active tickets in *)
(* total" (the ticket panel): the check in Create keeps the limits as long *)
(* as no member has two tickets being created at once and no two requests  *)
(* hold copies of one ticket, one of which could reopen it.                *)
THEOREM LimitsHold ==
    Spec /\ []OneRequestPerTicket /\ []OneCreatePerMember => []WithinActiveLimits
<1>1. Init => RoomInv /\ WithinActiveLimits
  BY LimitInit
<1>2. IInv /\ FreshInv /\ RoomInv /\ OneCreatePerMember /\ [Next]_vars => RoomInv'
  BY RoomStep
<1>3. /\ IInv /\ FreshInv /\ RoomInv /\ OneCreatePerMember /\ WithinActiveLimits /\ [Next]_vars
      => WithinActiveLimits'
  BY LimitStep
<1> QED
  BY <1>1, <1>2, <1>3, Invariance, Freshness, PTL DEF Spec

(* One request at a time: what the documentation says holds outright.  This *)
(* is the service of a deployment that serialises its requests.            *)
THEOREM OneAtATime ==
    (\A r1, r2 \in Requests : r1 = r2)
    => (Spec => /\ []LedgerAndTicketTogether
                /\ []WithinActiveLimits
                /\ StatusFollowsWorkflow)
<1> SUFFICES ASSUME \A r1, r2 \in Requests : r1 = r2
             PROVE  Spec => /\ []LedgerAndTicketTogether
                            /\ []WithinActiveLimits
                            /\ StatusFollowsWorkflow
  OBVIOUS
<1>1. OneRequestPerTicket /\ OneCreatePerMember
  BY DEF OneRequestPerTicket, OneCreatePerMember
<1> QED
  BY <1>1, TicketFollowsLedger, LimitsHold, StatusesFollowWorkflows, PTL

=============================================================================
