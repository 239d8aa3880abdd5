---------------------------- MODULE TicketService ---------------------------
(***************************************************************************)
(* The ticket service (modules/ticket/service.go, record.go,               *)
(* withdrawal.go) over its database (repository.go).                       *)
(*                                                                         *)
(* Every operation is a request that reads a ticket row, decides on that   *)
(* copy, and then writes the WHOLE row back.  No lock and no version guard *)
(* the interval between the read and the write: the HTTP server and the    *)
(* Discord bot run each request on a goroutine of its own.  A request is   *)
(* therefore a small process that holds the copy it read, and other        *)
(* requests step in between.                                               *)
(*                                                                         *)
(* A request that an early return refuses on its first read changes        *)
(* nothing and is a guard; one that fails later is the action Abort.       *)
(***************************************************************************)
EXTENDS Naturals, FiniteSets, TicketWorkflow, MembershipRoles

CONSTANTS
    Users,          \* Discord ids
    TicketAdmins,   \* the human users for whom IsTicketAdmin holds
    RolesOf,        \* the Discord roles of each user
    InputTypes,     \* the ticket types the clients ask for
    Amounts,        \* <<amount in minor units, currency>> of a withdrawal
    References,     \* payment references, as ValidatePaymentReference returns them
    Requests,       \* the requests that may be in flight at once
    Ops,            \* the operations the clients call
    MaxOpenTickets, \* active tickets a member may have, 3 in the code
    MaxSeq,         \* bound: ticket numbers handed out
    Null            \* Go's nil

AllOps == {"Create", "Claim", "Handoff", "SetResolution", "Transition",
           "ApproveWithdrawal", "RecordPayment", "ApproveSeller"}

ASSUME ConstantsAssumption ==
    /\ TicketAdmins \subseteq Users
    /\ RolesOf \in [Users -> SUBSET RoleNames]
    /\ InputTypes \subseteq TypeKeys
    /\ Ops \subseteq AllOps
    /\ MaxOpenTickets \in Nat
    /\ MaxSeq \in Nat

VARIABLES
    tickets,   \* table tickets, by ticket number
    outgoing,  \* table outgoing_mutations
    seq,       \* the row of ticket_counters
    req        \* what each request in flight remembers

vars == <<tickets, outgoing, seq, req>>

-----------------------------------------------------------------------------
(* The rows.  A public id is FormatID of the ticket number, so the number  *)
(* stands for it.  History, labels and free text are left out: nothing     *)
(* reads them back.  A note, a reason or a resolution text is kept as the  *)
(* user who wrote it.                                                      *)

TicketIds == 1..MaxSeq

Statuses == {"open", "approved", "paid", "rejected", "cancelled", "closed",
             "pending-verification", "buyer-confirmation", "seller-confirmation",
             "payment-pending", "payment-confirmed", "delivery-pending",
             "delivery-submitted", "buyer-review", "dispute-opened", "escalated",
             "resolved", "under-admin-review", "waiting-for-member", "in-progress"}

OutgoingPayment == [reference : References, by : Users]

Withdrawal == [amount   : Amounts,
               approval : Users \cup {Null},
               outgoing : OutgoingPayment \cup {Null}]

Record == [type       : TypeKeys,
           workflow   : {"transaction-v1", "review-v1", "support-v1", "withdrawal-v1"},
           opener     : Users,
           status     : Statuses,
           assigned   : Users \cup {Null},
           resolution : Users \cup {Null},
           withdrawal : Withdrawal \cup {Null},
           seller     : Users \cup {Null}]

(* nil is none of the things a field may point to. *)
ASSUME NullAssumption ==
    Null \notin Users \cup References \cup OutgoingPayment \cup Withdrawal \cup Record

(* A row of outgoing_mutations.  Its public id is "OUT-" and the ticket's, *)
(* so the ticket number is its first unique key, the reference the second. *)
OutgoingMutation == [ticket    : TicketIds,
                     seller    : Users,
                     amount    : Amounts,
                     reference : References,
                     by        : Users]

(* Where a request in flight stands: the database call it makes next. *)
Steps == {"idle", "NextSeq", "Save", "ListOpen", "ListByOpener",
          "OutgoingExists", "SavePayment"}

Request == [step  : Steps,
            id    : TicketIds \cup {0},
            actor : Users \cup {Null},
            ref   : References \cup {Null},
            rec   : Record \cup {Null}]

Idle == [step |-> "idle", id |-> 0, actor |-> Null, ref |-> Null, rec |-> Null]

(* The row, as toModel makes it from a record, is going to be written. *)
Saving(id, rec) == [Idle EXCEPT !.step = "Save", !.id = id, !.rec = rec]

-----------------------------------------------------------------------------
(* The record operations: pure functions of a copy of the row. *)

Closed(rec) == rec.status = "closed"

(* Mutant: recusal forgotten. *)
RequireAdminNoRecusal(actor, rec) == actor \in TicketAdmins

(* Only an admin acts on a ticket, and never the one who opened it. *)
RequireAdmin(actor, rec) == actor \in TicketAdmins /\ rec.opener # actor

(* ListOpen: the rows that are not closed.  ListByOpener: a member's rows. *)
ListOpen == {tickets[id] : id \in {i \in TicketIds : tickets[i] # Null /\ ~Closed(tickets[i])}}

ListByOpener(user) ==
    {i \in TicketIds : tickets[i] # Null /\ tickets[i].opener = user}

(* Mutant: an off-by-one in the total. *)
ActiveLimitOneMore(opener, typeKey) ==
    LET active == {i \in ListByOpener(opener) : ~Closed(tickets[i])}
    IN  /\ \A i \in active : tickets[i].type # typeKey
        /\ Cardinality(active) <= MaxOpenTickets

(* One non-closed ticket of a type, and MaxOpenTickets of them in all. *)
ActiveLimit(opener, typeKey) ==
    LET active == {i \in ListByOpener(opener) : ~Closed(tickets[i])}
    IN  /\ \A i \in active : tickets[i].type # typeKey
        /\ Cardinality(active) < MaxOpenTickets

NewRecord(typeKey, opener, amount) ==
    [type |-> typeKey, workflow |-> WorkflowForType(typeKey), opener |-> opener,
     status |-> "open", assigned |-> Null, resolution |-> Null, seller |-> Null,
     withdrawal |-> IF typeKey = "withdraw"
                    THEN [amount |-> amount, approval |-> Null, outgoing |-> Null]
                    ELSE Null]

Claimable(rec) == rec.assigned = Null

HandoffTarget(rec, actor, target) == target # rec.opener /\ target # actor

(* Mutants: any ticket may be approved again; no resolution is asked for. *)
MovableToApproved(rec, to) ==
    /\ to = "approved" \/ CanTransition(rec.type, rec.workflow, rec.status, to)
    /\ to = "closed" => rec.resolution # Null

MovableNoResolution(rec, to) == CanTransition(rec.type, rec.workflow, rec.status, to)

(* A status change along the workflow; closing needs a resolution note. *)
Movable(rec, to) ==
    /\ CanTransition(rec.type, rec.workflow, rec.status, to)
    /\ to = "closed" => rec.resolution # Null

(* actorTimeOK: the stamp names somebody who is not the seller. *)
ActorTimeOK(by, seller) == by # seller

(* Whether the clock has gone back behind the ticket's opening is left     *)
(* out: it only refuses.                                                   *)
Approvable(rec, actor) ==
    /\ IsWithdrawal(rec.type, rec.workflow)
    /\ rec.status = "open"
    /\ rec.withdrawal # Null
    /\ rec.withdrawal.approval = Null
    /\ ActorTimeOK(actor, rec.opener)

Approved(rec, actor) ==
    [rec EXCEPT !.withdrawal = [@ EXCEPT !.approval = actor], !.status = "approved"]

(* The part of RecordWithdrawalPayment that looks at the ticket alone. *)
Payable(rec, actor) ==
    /\ IsWithdrawal(rec.type, rec.workflow)
    /\ rec.withdrawal # Null
    /\ rec.withdrawal.outgoing = Null
    /\ rec.status = "approved"
    /\ ActorTimeOK(actor, rec.opener)

(* Mutant: the payout is stored but the status stays. *)
PaidStatusKept(rec, actor, ref) ==
    [rec EXCEPT !.withdrawal = [@ EXCEPT !.outgoing = [reference |-> ref, by |-> actor]]]

Paid(rec, actor, ref) ==
    [rec EXCEPT !.withdrawal = [@ EXCEPT !.outgoing = [reference |-> ref, by |-> actor]],
                !.status = "paid"]

(* The part that compares the reference with other tickets. *)
BooksReference(rec, ref) ==
    /\ rec.withdrawal # Null
    /\ rec.withdrawal.outgoing # Null
    /\ rec.withdrawal.outgoing.reference = ref

SellerApprovable(rec) ==
    /\ rec.type = "seller-verification"
    /\ rec.workflow = "review-v1"
    /\ rec.status \notin {"closed", "cancelled", "resolved"}
    /\ rec.seller = Null

-----------------------------------------------------------------------------
Init ==
    /\ tickets = [id \in TicketIds |-> Null]
    /\ outgoing = {}
    /\ seq = 0
    /\ req = [r \in Requests |-> Idle]

(* FindByPublicID and requireAdmin, common to every operation on a ticket. *)
Find(r, op, id, actor) ==
    /\ op \in Ops
    /\ req[r] = Idle
    /\ tickets[id] # Null
    /\ RequireAdmin(actor, tickets[id])

(* The request goes on to write next over the row. *)
ThenSave(r, id, next) ==
    /\ req' = [req EXCEPT ![r] = Saving(id, next)]
    /\ UNCHANGED <<tickets, outgoing, seq>>

Claim(r, id, actor) ==
    /\ Find(r, "Claim", id, actor)
    /\ Claimable(tickets[id])
    /\ ThenSave(r, id, [tickets[id] EXCEPT !.assigned = actor])

(* Any admin may hand a ticket off, not only its assignee. *)
Handoff(r, id, actor, target) ==
    /\ Find(r, "Handoff", id, actor)
    /\ target \in TicketAdmins
    /\ HandoffTarget(tickets[id], actor, target)
    /\ ThenSave(r, id, [tickets[id] EXCEPT !.assigned = target])

SetResolution(r, id, actor) ==
    /\ Find(r, "SetResolution", id, actor)
    /\ ThenSave(r, id, [tickets[id] EXCEPT !.resolution = actor])

Transition(r, id, actor, to) ==
    LET rec == tickets[id]
    IN  /\ Find(r, "Transition", id, actor)
        /\ ~(to = "paid" /\ IsWithdrawal(rec.type, rec.workflow))
        /\ Movable(rec, to)
        /\ ThenSave(r, id, [rec EXCEPT !.status = to])

ApproveWithdrawal(r, id, actor) ==
    /\ Find(r, "ApproveWithdrawal", id, actor)
    /\ Approvable(tickets[id], actor)
    /\ ThenSave(r, id, Approved(tickets[id], actor))

ApproveSeller(r, id, actor) ==
    /\ Find(r, "ApproveSeller", id, actor)
    /\ DecideSellerApproval(RolesOf[tickets[id].opener])
    /\ SellerApprovable(tickets[id])
    /\ ThenSave(r, id, [tickets[id] EXCEPT !.seller = actor])

(* Create up to its first write: the form is accepted and the member is    *)
(* below the limits as ListByOpener shows them now.                        *)
Create(r, actor, typeKey, amount) ==
    /\ "Create" \in Ops
    /\ req[r] = Idle
    /\ EligibleTicketApplicant(typeKey, RolesOf[actor])
    /\ ActiveLimit(actor, typeKey)
    /\ TicketAdmins \ {actor} # {}
    /\ req' = [req EXCEPT ![r] = [Idle EXCEPT !.step = "NextSeq",
                                              !.rec = NewRecord(typeKey, actor, amount)]]
    /\ UNCHANGED <<tickets, outgoing, seq>>

(* Mutant: the new value of the counter is not stored. *)
NextSeqNotStored(r) ==
    /\ req[r].step = "NextSeq"
    /\ seq < MaxSeq
    /\ req' = [req EXCEPT ![r].step = "Save", ![r].id = seq + 1]
    /\ UNCHANGED <<tickets, outgoing, seq>>

(* The counter row is locked for update, so this is one step. *)
NextSeq(r) ==
    /\ req[r].step = "NextSeq"
    /\ seq < MaxSeq
    /\ seq' = seq + 1
    /\ req' = [req EXCEPT ![r].step = "Save", ![r].id = seq + 1]
    /\ UNCHANGED <<tickets, outgoing>>

(* Insert, or overwrite of every column of the row that is there. *)
Save(r) ==
    /\ req[r].step = "Save"
    /\ tickets' = [tickets EXCEPT ![req[r].id] = req[r].rec]
    /\ req' = [req EXCEPT ![r] = Idle]
    /\ UNCHANGED <<outgoing, seq>>

(* RecordPayment.  What it asks of the copy it has just read is decided    *)
(* here; the reads that follow only compare the reference.                 *)
RecordPayment(r, id, actor, ref) ==
    /\ Find(r, "RecordPayment", id, actor)
    /\ Payable(tickets[id], actor)
    /\ req' = [req EXCEPT ![r] = [step |-> "ListOpen", id |-> id, actor |-> actor,
                                  ref |-> ref, rec |-> tickets[id]]]
    /\ UNCHANGED <<tickets, outgoing, seq>>

PaymentListOpen(r) ==
    /\ req[r].step = "ListOpen"
    /\ \A other \in ListOpen : ~BooksReference(other, req[r].ref)
    /\ req' = [req EXCEPT ![r].step = "ListByOpener"]
    /\ UNCHANGED <<tickets, outgoing, seq>>

PaymentListByOpener(r) ==
    /\ req[r].step = "ListByOpener"
    /\ \A i \in ListByOpener(req[r].rec.opener) : ~BooksReference(tickets[i], req[r].ref)
    /\ req' = [req EXCEPT ![r].step = "OutgoingExists"]
    /\ UNCHANGED <<tickets, outgoing, seq>>

OutgoingExists(r) ==
    /\ req[r].step = "OutgoingExists"
    /\ \A row \in outgoing : row.reference # req[r].ref
    /\ req' = [req EXCEPT ![r].step = "SavePayment"]
    /\ UNCHANGED <<tickets, outgoing, seq>>

(* Mutant: the ledger credits the admin who booked the payout. *)
MutationOfActor(id, rec, actor, ref) ==
    [ticket |-> id, seller |-> actor, amount |-> rec.withdrawal.amount,
     reference |-> ref, by |-> actor]

MutationOf(id, rec, actor, ref) ==
    [ticket |-> id, seller |-> rec.opener, amount |-> rec.withdrawal.amount,
     reference |-> ref, by |-> actor]

(* Mutant: the index on the mutation's public id is missing. *)
UniqueReferenceOnly(id, ref) == \A row \in outgoing : row.reference # ref

(* The unique indexes of outgoing_mutations. *)
UniqueIndexes(id, ref) ==
    \A row \in outgoing : row.ticket # id /\ row.reference # ref

(* Mutant: the ticket is committed and the ledger row is lost. *)
SavePaymentTicketOnly(r) ==
    LET q == req[r]
    IN  /\ q.step = "SavePayment"
        /\ UniqueIndexes(q.id, q.ref)
        /\ tickets' = [tickets EXCEPT ![q.id] = Paid(q.rec, q.actor, q.ref)]
        /\ req' = [req EXCEPT ![r] = Idle]
        /\ UNCHANGED <<outgoing, seq>>

(* One transaction: the row of the ticket is overwritten and the ledger    *)
(* row inserted; a unique index that refuses the insert undoes both.       *)
SavePayment(r) ==
    LET q == req[r]
    IN  /\ q.step = "SavePayment"
        /\ UniqueIndexes(q.id, q.ref)
        /\ tickets' = [tickets EXCEPT ![q.id] = Paid(q.rec, q.actor, q.ref)]
        /\ outgoing' = outgoing \cup {MutationOf(q.id, q.rec, q.actor, q.ref)}
        /\ req' = [req EXCEPT ![r] = Idle]
        /\ UNCHANGED seq

(* A later check or a database call fails, the caller's context is         *)
(* cancelled, or the process dies: the request is gone, what it has        *)
(* written stays.                                                          *)
Abort(r) ==
    /\ req[r].step # "idle"
    /\ req' = [req EXCEPT ![r] = Idle]
    /\ UNCHANGED <<tickets, outgoing, seq>>

TicketOp(r, id, actor) ==
    \/ Claim(r, id, actor)
    \/ \E target \in TicketAdmins : Handoff(r, id, actor, target)
    \/ SetResolution(r, id, actor)
    \/ \E to \in Statuses : Transition(r, id, actor, to)
    \/ ApproveWithdrawal(r, id, actor)
    \/ ApproveSeller(r, id, actor)
    \/ \E ref \in References : RecordPayment(r, id, actor, ref)

RequestStep(r) ==
    \/ NextSeq(r)
    \/ Save(r)
    \/ PaymentListOpen(r)
    \/ PaymentListByOpener(r)
    \/ OutgoingExists(r)
    \/ SavePayment(r)
    \/ Abort(r)

Next ==
    \E r \in Requests :
        \/ \E actor \in Users, typeKey \in InputTypes, amount \in Amounts :
              Create(r, actor, typeKey, amount)
        \/ \E id \in TicketIds, actor \in TicketAdmins : TicketOp(r, id, actor)
        \/ RequestStep(r)

Spec == Init /\ [][Next]_vars

-----------------------------------------------------------------------------
(* Properties that hold with any number of requests in flight. *)

(* Every row and every request in flight is well formed. *)
TypeOK ==
    /\ tickets \in [TicketIds -> Record \cup {Null}]
    /\ outgoing \subseteq OutgoingMutation
    /\ seq \in 0..MaxSeq
    /\ req \in [Requests -> Request]

(* "A paid ticket must never exist without the ledger row that proves it"  *)
(* (RecordPayment): whatever stale rows are written back, a ticket that is *)
(* paid, or remembers a payout, has exactly that payout in                 *)
(* outgoing_mutations.                                                     *)
PaidHasLedgerRow ==
    \A id \in TicketIds :
        LET rec == tickets[id]
        IN  rec # Null =>
              /\ rec.status = "paid" =>
                    rec.withdrawal # Null /\ rec.withdrawal.outgoing # Null
              /\ rec.withdrawal # Null /\ rec.withdrawal.outgoing # Null =>
                    MutationOf(id, rec, rec.withdrawal.outgoing.by,
                               rec.withdrawal.outgoing.reference) \in outgoing

(* A ledger row names a withdrawal ticket that exists, pays its opener the *)
(* amount asked for, and was booked by an admin other than the seller.     *)
LedgerRowMatchesRequest ==
    \A row \in outgoing :
        LET rec == tickets[row.ticket]
        IN  /\ rec # Null
            /\ rec.type = "withdraw"
            /\ rec.opener = row.seller
            /\ rec.withdrawal.amount = row.amount
            /\ row.by \in TicketAdmins \ {row.seller}

(* requireAdmin's recusal, in every field an admin leaves behind: nobody   *)
(* claims, is handed, resolves, approves or pays a ticket of their own.    *)
HandledByAnotherAdmin(rec) ==
    LET others == (TicketAdmins \ {rec.opener}) \cup {Null}
    IN  /\ rec.assigned \in others
        /\ rec.resolution \in others
        /\ rec.seller \in others
        /\ rec.withdrawal # Null =>
              /\ rec.withdrawal.approval \in others
              /\ rec.withdrawal.outgoing # Null => rec.withdrawal.outgoing.by \in others

OpenerRecusal ==
    \A id \in TicketIds : tickets[id] # Null => HandledByAnotherAdmin(tickets[id])

(* A ticket that is closed carries the resolution note its opener was      *)
(* promised (ErrResolutionMissing), also after a stale write.              *)
ClosedHasResolution ==
    \A id \in TicketIds : tickets[id] # Null /\ Closed(tickets[id]) => tickets[id].resolution # Null

(* A write never removes a ticket and never changes whose it is, of which  *)
(* type or for how much: two tickets never share a number.                 *)
SameTicket(old, new) ==
    /\ new # Null
    /\ new.type = old.type /\ new.workflow = old.workflow /\ new.opener = old.opener
    /\ old.withdrawal # Null =>
          new.withdrawal # Null /\ new.withdrawal.amount = old.withdrawal.amount

TicketIdentityStable ==
    [][\A id \in TicketIds : tickets[id] # Null => SameTicket(tickets[id], tickets'[id])]_vars

(* The outgoing_mutations table implements the payout ledger: rows are     *)
(* only ever added, one per ticket and one per reference.                  *)
Ledger == INSTANCE PayoutLedger WITH rows <- outgoing

ImplementsLedger == Ledger!Spec

-----------------------------------------------------------------------------
(* Properties the documentation states.  They hold while requests come one *)
(* at a time; with two in flight a stale write breaks them.                *)

(* "This only guarantees the ticket state and the ledger move together"    *)
(* (SavePayment): a ledger row's ticket says that it was paid.             *)
LedgerAndTicketTogether ==
    \A row \in outgoing :
        LET rec == tickets[row.ticket]
        IN  /\ rec.status \in {"paid", "closed"}
            /\ rec.withdrawal.outgoing = [reference |-> row.reference, by |-> row.by]

(* "You can have one active ticket per type, up to three active tickets in *)
(* total" (the ticket panel).                                              *)
WithinActiveLimits ==
    \A user \in Users :
        LET active == {i \in ListByOpener(user) : ~Closed(tickets[i])}
        IN  /\ Cardinality(active) <= MaxOpenTickets
            /\ \A i, j \in active : tickets[i].type = tickets[j].type => i = j

(* An edge of the ticket's workflow, or the recording of a payment. *)
StatusStep(old, new) ==
    \/ new.status = old.status
    \/ CanTransition(old.type, old.workflow, old.status, new.status)
    \/ old.status = "approved" /\ new.status = "paid"

(* "closed is terminal": one request at a time, a status changes only      *)
(* along the ticket's workflow or by the recording of a payment.           *)
StatusFollowsWorkflow ==
    [][\A id \in TicketIds : tickets[id] # Null => StatusStep(tickets[id], tickets'[id])]_vars

-----------------------------------------------------------------------------
(* The inductive invariant.  The safety properties speak of the tables     *)
(* only; what a request will write later must be known to be as good as    *)
(* what is there, and two requests must never insert the same number.      *)

(* A row that may stand in the tickets table under number id. *)
SoundRecord(id, rec) ==
    /\ rec.workflow = WorkflowForType(rec.type)
    /\ rec.type = "withdraw" <=> rec.withdrawal # Null
    /\ HandledByAnotherAdmin(rec)
    /\ Closed(rec) => rec.resolution # Null
    /\ rec.status = "paid" => rec.withdrawal # Null /\ rec.withdrawal.outgoing # Null
    /\ rec.withdrawal # Null /\ rec.withdrawal.outgoing # Null =>
          MutationOf(id, rec, rec.withdrawal.outgoing.by,
                     rec.withdrawal.outgoing.reference) \in outgoing

PaymentSteps == {"ListOpen", "ListByOpener", "OutgoingExists", "SavePayment"}

(* What holds of a request by the step it is at. *)
SoundRequest(q) ==
    /\ q.step = "idle" => q = Idle
    /\ q.step = "NextSeq" =>
          /\ q.rec # Null
          /\ q.rec.status = "open"
          /\ q.rec.withdrawal # Null => q.rec.withdrawal.outgoing = Null
          /\ SoundRecord(q.id, q.rec)
    /\ q.step = "Save" =>
          /\ q.id \in 1..seq
          /\ q.rec # Null
          /\ SoundRecord(q.id, q.rec)
          /\ tickets[q.id] # Null => SameTicket(tickets[q.id], q.rec)
    /\ q.step \in PaymentSteps =>
          /\ q.id \in 1..seq
          /\ q.rec # Null
          /\ q.ref # Null
          /\ RequireAdmin(q.actor, q.rec)
          /\ Payable(q.rec, q.actor)
          /\ SoundRecord(q.id, q.rec)
          /\ tickets[q.id] # Null
          /\ SameTicket(tickets[q.id], q.rec)

(* A request is about to insert the ticket with this number. *)
Inserts(q, id) == q.step = "Save" /\ q.id = id /\ tickets[id] = Null

(* What the proofs carry from state to state. *)
IInv ==
    /\ TypeOK
    /\ \A id \in TicketIds : tickets[id] # Null => id <= seq /\ SoundRecord(id, tickets[id])
    /\ \A r \in Requests : SoundRequest(req[r])
    /\ \A r1, r2 \in Requests, id \in TicketIds :
          Inserts(req[r1], id) /\ Inserts(req[r2], id) => r1 = r2
    /\ LedgerRowMatchesRequest

-----------------------------------------------------------------------------
(* What "one at a time" has to mean for the properties of the              *)
(* documentation: which requests must not overlap, and what then holds of  *)
(* the requests in flight.                                                 *)

(* No two requests hold copies of one ticket. *)
OneRequestPerTicket ==
    \A r1, r2 \in Requests :
        r1 # r2 /\ req[r1].id # 0 => req[r1].id # req[r2].id

(* A request on its way to insert a new ticket. *)
Creating(q) == q.step = "NextSeq" \/ (q.step = "Save" /\ tickets[q.id] = Null)

(* No two requests create tickets of one member. *)
OneCreatePerMember ==
    \A r1, r2 \in Requests :
        r1 # r2 /\ Creating(req[r1]) /\ Creating(req[r2])
        => req[r1].rec.opener # req[r2].rec.opener

(* A copy about to be written is one step ahead of its row, and has the    *)
(* payout the row has.                                                     *)
FreshCopy(old, new) ==
    /\ StatusStep(old, new)
    /\ old.withdrawal # Null => new.withdrawal.outgoing = old.withdrawal.outgoing

(* The requests in flight are up to date with their tickets. *)
FreshRequest(q) ==
    /\ q.step = "Save" /\ tickets[q.id] # Null => FreshCopy(tickets[q.id], q.rec)
    /\ q.step \in PaymentSteps => q.rec = tickets[q.id]

FreshInv == \A r \in Requests : FreshRequest(req[r])

(* Whoever is creating a ticket is still below the limits. *)
RoomInv ==
    \A r \in Requests :
        Creating(req[r]) => ActiveLimit(req[r].rec.opener, req[r].rec.type)

=============================================================================
