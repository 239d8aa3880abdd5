---------------------------- MODULE WorkflowWalk ----------------------------
(***************************************************************************)
(* The life of one ticket of any type, as the status menu and the payment  *)
(* path drive it: Transition moves along the ticket's workflow,            *)
(* RecordWithdrawalPayment moves an approved withdrawal to paid.  Tickets  *)
(* written before workflow ids existed have the empty one.                 *)
(***************************************************************************)
EXTENDS TicketWorkflow

CONSTANT TicketTypes  \* the types tickets are opened with

ASSUME TicketTypesAssumption == TicketTypes \subseteq TypeKeys

VARIABLES type, workflow, status

vars == <<type, workflow, status>>

Init ==
    /\ type \in TicketTypes
    /\ workflow \in {WorkflowForType(type), ""}
    /\ status = "open"

Transition ==
    /\ \E to \in NextStatuses(type, workflow, status) :
          /\ ~(to = "paid" /\ IsWithdrawal(type, workflow))
          /\ CanTransition(type, workflow, status, to)
          /\ status' = to
    /\ UNCHANGED <<type, workflow>>

RecordPayment ==
    /\ IsWithdrawal(type, workflow)
    /\ status = "approved"
    /\ status' = "paid"
    /\ UNCHANGED <<type, workflow>>

Next == Transition \/ RecordPayment

Spec == Init /\ [][Next]_vars

-----------------------------------------------------------------------------
(* The statuses a workflow's graph mentions. *)
Nodes(edges) == {e[1] : e \in edges} \cup {e[2] : e \in edges}

(* A set that has "closed", and where each edge into it comes from. *)
LeadsToClosed(set, edges) ==
    /\ "closed" \in set
    /\ \A e \in edges : e[2] \in set => e[1] \in set

(* The statuses from which each workflow's graph leads to "closed": the    *)
(* least such set.                                                         *)
ClosableFrom ==
    [id \in {WorkflowForType(t) : t \in TypeKeys} \cup {"legacy"} |->
        {s \in Nodes(workflows(id)) :
            \A set \in SUBSET Nodes(workflows(id)) :
                LeadsToClosed(set, workflows(id)) => s \in set}]

(* No status is a trap: an admin who follows the menu can always still     *)
(* bring the ticket to "closed", whatever was chosen before.               *)
CloseReachable ==
    LET id == IF workflow = "" THEN "legacy" ELSE workflow
    IN  status # "closed" =>
            /\ WorkflowForTicket(type, workflow) = workflows(id)
            /\ status \in ClosableFrom[id]

(* The inductive invariant behind it: the ticket keeps its type, the       *)
(* workflow it has is the one of its type or none, and its status is one   *)
(* of that workflow's own.                                                 *)
WalkInv ==
    /\ type \in TypeKeys
    /\ workflow \in {WorkflowForType(type), ""}
    /\ status \in StatusKeys(WorkflowForTicket(type, workflow))

=============================================================================
