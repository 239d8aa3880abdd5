--------------------------- MODULE TicketWorkflow ---------------------------
(***************************************************************************)
(* The ticket catalogue (modules/ticket/catalog.go) and the status graphs  *)
(* of the five workflows (modules/ticket/workflow.go).                     *)
(*                                                                         *)
(* A workflow is the set of its edges <<from, to>>: the code looks a       *)
(* status up by key and scans its Next list, which is membership of the    *)
(* edge in the set.  Labels, notes and emoji are left out.                 *)
(***************************************************************************)

(* Types: the catalogue's keys, grouped by the workflow each entry names. *)
TransactionTypes == {"purchase", "sale", "introduction", "delivery"}

ReviewTypes == {"seller-verification", "refund", "dispute", "scam",
                "impersonation", "campaign", "affiliate"}

SupportTypes == {"buyer-support", "regional", "translation", "partnership", "general"}

TypeKeys == TransactionTypes \cup ReviewTypes \cup SupportTypes \cup {"withdraw"}

(* The workflow a new ticket of this type is given; "" for an unknown key. *)
WorkflowForType(typeKey) ==
    CASE typeKey \in TransactionTypes -> "transaction-v1"
      [] typeKey \in ReviewTypes      -> "review-v1"
      [] typeKey \in SupportTypes     -> "support-v1"
      [] typeKey = "withdraw"         -> "withdrawal-v1"
      [] OTHER                        -> ""

-----------------------------------------------------------------------------
(* The status graphs. *)

terminalStatuses == {"resolved", "cancelled"} \X {"closed"}

legacyStatuses ==
    ({"open"} \X {"pending-verification", "buyer-confirmation", "seller-confirmation", "cancelled"})
    \cup ({"pending-verification"} \X {"buyer-confirmation", "seller-confirmation", "cancelled"})
    \cup ({"buyer-confirmation"} \X {"seller-confirmation", "payment-pending", "cancelled"})
    \cup ({"seller-confirmation"} \X {"buyer-confirmation", "payment-pending", "cancelled"})
    \cup ({"payment-pending"} \X {"payment-confirmed", "cancelled", "dispute-opened"})
    \cup ({"payment-confirmed"} \X {"delivery-pending", "dispute-opened"})
    \cup ({"delivery-pending"} \X {"delivery-submitted", "dispute-opened", "cancelled"})
    \cup ({"delivery-submitted"} \X {"buyer-review", "dispute-opened"})
    \cup ({"buyer-review"} \X {"resolved", "dispute-opened"})
    \cup ({"dispute-opened"} \X {"escalated", "resolved", "cancelled"})
    \cup ({"escalated"} \X {"resolved", "cancelled"})
    \cup ({"resolved", "cancelled"} \X {"closed"})

(* Mutant: a paid withdrawal cannot be closed. *)
withdrawalStatusesPaidStuck ==
    ({"open"} \X {"approved", "rejected", "cancelled"})
    \cup ({"approved"} \X {"rejected", "cancelled"})
    \cup ({"rejected", "cancelled"} \X {"closed"})

withdrawalStatuses ==
    ({"open"} \X {"approved", "rejected", "cancelled"})
    \cup ({"approved"} \X {"rejected", "cancelled"})
    \cup ({"paid", "rejected", "cancelled"} \X {"closed"})

reviewStatuses ==
    ({"open"} \X {"under-admin-review", "cancelled"})
    \cup ({"under-admin-review"} \X {"waiting-for-member", "escalated", "resolved", "cancelled"})
    \cup ({"waiting-for-member"} \X {"under-admin-review", "escalated", "resolved", "cancelled"})
    \cup ({"escalated"} \X {"under-admin-review", "waiting-for-member", "resolved", "cancelled"})
    \cup terminalStatuses

supportStatuses ==
    ({"open"} \X {"in-progress", "cancelled"})
    \cup ({"in-progress"} \X {"waiting-for-member", "resolved", "cancelled"})
    \cup ({"waiting-for-member"} \X {"in-progress", "resolved", "cancelled"})
    \cup terminalStatuses

(* The edges of a workflow; an unknown workflow id has none. *)
workflows(workflowID) ==
    CASE workflowID \in {"legacy", "transaction-v1"} -> legacyStatuses
      [] workflowID = "withdrawal-v1"                -> withdrawalStatuses
      [] workflowID = "review-v1"                    -> reviewStatuses
      [] workflowID = "support-v1"                   -> supportStatuses
      [] OTHER                                       -> {}

(* The keys with an entry of their own in a workflow's status list: every  *)
(* status with a successor, and the terminal one.                          *)
StatusKeys(edges) == {e[1] : e \in edges} \cup {"closed"}

(* A ticket without a workflow id is a legacy one; a workflow id that is   *)
(* not the one its type calls for is refused, so no edge is legal.         *)
WorkflowForTicket(typeKey, workflowID) ==
    IF workflowID = "" THEN workflows("legacy")
    ELSE IF WorkflowForType(typeKey) # workflowID THEN {}
    ELSE workflows(workflowID)

CanTransition(typeKey, workflowID, from, to) ==
    <<from, to>> \in WorkflowForTicket(typeKey, workflowID)

(* What the bot's status menu offers: the successors that are themselves   *)
(* statuses of the workflow (a successor without an entry is dropped).     *)
NextStatuses(typeKey, workflowID, status) ==
    LET edges == WorkflowForTicket(typeKey, workflowID)
    IN  {to \in StatusKeys(edges) : <<status, to>> \in edges}

IsWithdrawal(typeKey, workflow) == typeKey = "withdraw" /\ workflow = "withdrawal-v1"

=============================================================================
