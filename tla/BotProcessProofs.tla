-------------------------- MODULE BotProcessProofs --------------------------
(***************************************************************************)
(* Proofs about what one process of the bot leaves to the next, for any    *)
(* number of processes, names, copies and handlers.                        *)
(*                                                                         *)
(* The processes: the invariant that ties bot.lock, bot.pid and the        *)
(* sessions to how far each process has come (BotInv) is inductive, and it *)
(* yields that sessions overlap only in the hand-over and that a standby   *)
(* process is never ready.                                                 *)
(*                                                                         *)
(* The ticket that waits: it keeps to the statuses of its workflow         *)
(* (WalkInv); what the reminder counts and that "closed" can always be     *)
(* reached are then facts about the four graphs.                           *)
(*                                                                         *)
(* The guild the process has laid out, whose channels each process must    *)
(* learn again: the invariant of GuildSync (LaunchInv) speaks of one       *)
(* handler at a time (Sound), so that a step is a proof about the handler  *)
(* that takes it and one about what the others make of its effects.        *)
(***************************************************************************)
EXTENDS BotProcess, GuildSync, WellFoundedInduction, TLAPS

LEMMA InitBotInv == BotInit => BotInv
  BY NullAssumption DEF BotInit, ProcessInit, BotInv, TypeOK, Stages, GatewayStates, Holding, Connected

(* A start, Shutdown and Close move one process and leave the others alone. *)
LEMMA StartKeepsInv ==
    ASSUME BotInv, NEW p \in Processes,
           Boot(p) \/ Attach(p) \/ acquireBotLock(p) \/ Prime(p)
    PROVE  BotInv'
  BY NullAssumption
  DEF BotInv, TypeOK, Stages, GatewayStates, Holding, Connected,
      Boot, Attach, acquireBotLock, Prime, Advance, ticketVars, vars

LEMMA ServeKeepsInv ==
    ASSUME BotInv, NEW p \in Processes,
           OpenSession(p) \/ RegisterCommands(p) \/ Shutdown(p) \/ Close(p)
    PROVE  BotInv'
  BY NullAssumption
  DEF BotInv, TypeOK, Stages, GatewayStates, Holding, Connected,
      OpenSession, RegisterCommands, Shutdown, Close, Advance, ticketVars, vars

(* The end of a process, at whatever stage, takes its lock with it. *)
LEMMA ExitKeepsInv ==
    ASSUME BotInv, NEW p \in Processes, Exit(p) \/ GatewayChanges(p)
    PROVE  BotInv'
<1>1. CASE Exit(p)
  BY <1>1, NullAssumption
  DEF BotInv, TypeOK, Stages, GatewayStates, Holding, Connected, Exit, ticketVars, vars
<1>2. CASE GatewayChanges(p)
  BY <1>2 DEF BotInv, TypeOK, GatewayChanges, ticketVars, vars
<1> QED
  BY <1>1, <1>2

LEMMA QueueKeepsInv ==
    ASSUME BotInv,
           (\E p \in Processes : ReminderStep(p)) \/ Age \/ Assign \/ Walk \/ UNCHANGED allVars
    PROVE  BotInv'
  BY DEF BotInv, TypeOK, ReminderStep, TickPosts, TickLost, CooldownOver, Age, Assign, Walk,
         allVars, processVars, ticketVars, vars

(* The whole protocol of bot.lock, bot.pid and the session is kept by      *)
(* every step of every process, crashes included.                          *)
THEOREM BotInvariant == BotSpec => []BotInv
<1>1. BotInit => BotInv
  BY InitBotInv
<1>2. BotInv /\ [BotNext]_allVars => BotInv'
  <2> SUFFICES ASSUME BotInv, [BotNext]_allVars PROVE BotInv'
    OBVIOUS
  <2>1. CASE \E p \in Processes : ProcessStep(p)
    BY <2>1, StartKeepsInv, ServeKeepsInv, ExitKeepsInv DEF ProcessStep
  <2>2. CASE ~(\E p \in Processes : ProcessStep(p))
    BY <2>2, QueueKeepsInv DEF BotNext
  <2> QED
    BY <2>1, <2>2
<1> QED
  BY <1>1, <1>2, PTL DEF BotSpec

(* Discord sees two sessions of the bot only while one process, its lock   *)
(* released by Close, has yet to close its own.                            *)
THEOREM SessionsOverlapOnlyInHandover == BotSpec => []OneGateway
<1>1. BotInv => OneGateway
  BY NullAssumption DEF BotInv, OneGateway, Connected, Holding
<1> QED
  BY <1>1, BotInvariant, PTL

(* A process stuck at the lock never answers /health/ready with ok, once   *)
(* its gateway is attached.                                                *)
THEOREM StandbyIsNotReady == BotSpec => []ReadyHolder
<1>1. BotInv => ReadyHolder
  BY NullAssumption DEF BotInv, ReadyHolder, Ready, TypeOK, Stages, GatewayStates, Connected, Holding
<1> QED
  BY <1>1, BotInvariant, PTL

-----------------------------------------------------------------------------
(* The ticket that waits.  What a workflow makes of each of its statuses   *)
(* is a fact about four graphs; that a ticket stays within the graph of    *)
(* its own is the invariant WalkInv.                                       *)

Graphs4 == {legacyStatuses, withdrawalStatuses, reviewStatuses, supportStatuses}

Done == {"resolved", "cancelled", "closed", "paid", "rejected"}

LegacyKeys == {"open", "pending-verification", "buyer-confirmation", "seller-confirmation",
               "payment-pending", "payment-confirmed", "delivery-pending",
               "delivery-submitted", "buyer-review", "dispute-opened", "escalated",
               "resolved", "cancelled"}

WithdrawalKeys == {"open", "approved", "paid", "rejected", "cancelled"}

ReviewKeys == {"open", "under-admin-review", "waiting-for-member", "escalated",
               "resolved", "cancelled"}

SupportKeys == {"open", "in-progress", "waiting-for-member", "resolved", "cancelled"}

(* The statuses of a workflow are where its edges leave, and "closed". *)
LEMMA KeyOf ==
    ASSUME NEW edges, NEW a, NEW b, <<a, b>> \in edges
    PROVE  a \in StatusKeys(edges)
  BY DEF StatusKeys

LEMMA KeysWithin ==
    ASSUME NEW keys, NEW edges, \A e \in edges : e[1] \in keys
    PROVE  StatusKeys(edges) \subseteq keys \cup {"closed"}
  BY DEF StatusKeys

LEMMA LegacyKeysAre ==
    /\ StatusKeys(legacyStatuses) \subseteq LegacyKeys \cup {"closed"}
    /\ {"cancelled", "dispute-opened", "resolved"} \subseteq StatusKeys(legacyStatuses)
<1>1. \A e \in legacyStatuses : e[1] \in LegacyKeys
  BY DEF legacyStatuses, LegacyKeys
<1>2. <<"cancelled", "closed">> \in legacyStatuses /\ <<"resolved", "closed">> \in legacyStatuses
  BY DEF legacyStatuses
<1>3. <<"dispute-opened", "resolved">> \in legacyStatuses
  BY DEF legacyStatuses
<1> QED
  BY <1>1, <1>2, <1>3, KeyOf, KeysWithin

LEMMA WithdrawalKeysAre ==
    /\ StatusKeys(withdrawalStatuses) \subseteq WithdrawalKeys \cup {"closed"}
    /\ {"paid", "cancelled"} \subseteq StatusKeys(withdrawalStatuses)
<1>1. \A e \in withdrawalStatuses : e[1] \in WithdrawalKeys
  BY DEF withdrawalStatuses, WithdrawalKeys
<1>2. <<"cancelled", "closed">> \in withdrawalStatuses /\ <<"paid", "closed">> \in withdrawalStatuses
  BY DEF withdrawalStatuses
<1> QED
  BY <1>1, <1>2, KeyOf, KeysWithin

LEMMA ReviewKeysAre ==
    /\ StatusKeys(reviewStatuses) \subseteq ReviewKeys \cup {"closed"}
    /\ "cancelled" \in StatusKeys(reviewStatuses)
<1>1. \A e \in reviewStatuses : e[1] \in ReviewKeys
  BY DEF reviewStatuses, terminalStatuses, ReviewKeys
<1>2. <<"cancelled", "closed">> \in reviewStatuses
  BY DEF reviewStatuses, terminalStatuses
<1> QED
  BY <1>1, <1>2, KeyOf, KeysWithin

LEMMA SupportKeysAre ==
    /\ StatusKeys(supportStatuses) \subseteq SupportKeys \cup {"closed"}
    /\ "cancelled" \in StatusKeys(supportStatuses)
<1>1. \A e \in supportStatuses : e[1] \in SupportKeys
  BY DEF supportStatuses, terminalStatuses, SupportKeys
<1>2. <<"cancelled", "closed">> \in supportStatuses
  BY DEF supportStatuses, terminalStatuses
<1> QED
  BY <1>1, <1>2, KeyOf, KeysWithin

(* A status the reminder passes over leads nowhere but to "closed" ... *)
LEMMA DoneIsDone ==
    ASSUME NEW edges \in Graphs4, NEW s \in Done, NEW to, <<s, to>> \in edges
    PROVE  to = "closed"
<1>1. CASE edges = legacyStatuses
  BY <1>1 DEF legacyStatuses, Done
<1>2. CASE edges = withdrawalStatuses
  BY <1>2 DEF withdrawalStatuses, Done
<1>3. CASE edges = reviewStatuses
  BY <1>3 DEF reviewStatuses, terminalStatuses, Done
<1>4. CASE edges = supportStatuses
  BY <1>4 DEF supportStatuses, terminalStatuses, Done
<1> QED
  BY <1>1, <1>2, <1>3, <1>4 DEF Graphs4

(* ... and each of the others has a successor that is work: most of them   *)
(* can be cancelled, the rest disputed or resolved.                        *)
LEMMA OthersHaveWork ==
    ASSUME NEW edges \in Graphs4, NEW s \in StatusKeys(edges), s \notin Done
    PROVE  \E to \in StatusKeys(edges) \ {"closed"} : <<s, to>> \in edges
<1>1. CASE edges = legacyStatuses
  <2>1. s \in LegacyKeys
    BY <1>1, LegacyKeysAre DEF Done
  <2>2. \E to \in {"cancelled", "dispute-opened", "resolved"} : <<s, to>> \in legacyStatuses
    BY <2>1 DEF legacyStatuses, LegacyKeys, Done
  <2> QED
    BY <1>1, <2>2, LegacyKeysAre
<1>2. CASE edges = withdrawalStatuses
  <2>1. <<s, "cancelled">> \in withdrawalStatuses
    BY <1>2, WithdrawalKeysAre DEF withdrawalStatuses, WithdrawalKeys, Done
  <2> QED
    BY <1>2, <2>1, WithdrawalKeysAre
<1>3. CASE edges = reviewStatuses
  <2>1. <<s, "cancelled">> \in reviewStatuses
    BY <1>3, ReviewKeysAre DEF reviewStatuses, ReviewKeys, Done
  <2> QED
    BY <1>3, <2>1, ReviewKeysAre
<1>4. CASE edges = supportStatuses
  <2>1. <<s, "cancelled">> \in supportStatuses
    BY <1>4, SupportKeysAre DEF supportStatuses, SupportKeys, Done
  <2> QED
    BY <1>4, <2>1, SupportKeysAre
<1> QED
  BY <1>1, <1>2, <1>3, <1>4 DEF Graphs4

-----------------------------------------------------------------------------
(* The graph of a ticket is one of the four, and "open" is in each. *)
LEMMA GraphOf ==
    ASSUME NEW t \in TypeKeys, NEW w \in {WorkflowForType(t), ""}
    PROVE  /\ WorkflowForTicket(t, w) = workflows(IF w = "" THEN "legacy" ELSE w)
           /\ WorkflowForTicket(t, w) \in Graphs4
           /\ (IF w = "" THEN "legacy" ELSE w) \in {WorkflowForType(k) : k \in TypeKeys} \cup {"legacy"}
           /\ IsWithdrawal(t, w) => WorkflowForTicket(t, w) = withdrawalStatuses
<1>1. WorkflowForType(t) \in {"transaction-v1", "review-v1", "support-v1", "withdrawal-v1"}
  BY DEF WorkflowForType, TypeKeys
<1>2. WorkflowForTicket(t, w) = workflows(IF w = "" THEN "legacy" ELSE w)
  BY DEF WorkflowForTicket
<1>3. \A id \in {"legacy", "transaction-v1", "review-v1", "support-v1", "withdrawal-v1"} :
        workflows(id) \in Graphs4
  BY DEF workflows, Graphs4
<1>4. workflows("withdrawal-v1") = withdrawalStatuses
  BY DEF workflows
<1> QED
  BY <1>1, <1>2, <1>3, <1>4 DEF IsWithdrawal

LEMMA OpenIsKey ==
    ASSUME NEW edges \in Graphs4
    PROVE  "open" \in StatusKeys(edges)
<1>1. <<"open", "cancelled">> \in edges
  BY DEF Graphs4, legacyStatuses, withdrawalStatuses, reviewStatuses, supportStatuses
<1> QED
  BY <1>1, KeyOf

LEMMA WalkInit == Init => WalkInv
<1> SUFFICES ASSUME Init PROVE WalkInv
  OBVIOUS
<1>1. type \in TypeKeys /\ workflow \in {WorkflowForType(type), ""} /\ status = "open"
  BY TicketTypesAssumption DEF Init
<1>2. WorkflowForTicket(type, workflow) \in Graphs4
  BY <1>1, GraphOf
<1> QED
  BY <1>1, <1>2, OpenIsKey DEF WalkInv

LEMMA WalkStep == WalkInv /\ [Next]_vars => WalkInv'
<1> SUFFICES ASSUME WalkInv, [Next]_vars PROVE WalkInv'
  OBVIOUS
<1>1. UNCHANGED <<type, workflow>>
  BY DEF Next, Transition, RecordPayment, vars
<1>2. type \in TypeKeys /\ workflow \in {WorkflowForType(type), ""}
  BY DEF WalkInv
<1>3. status' \in StatusKeys(WorkflowForTicket(type, workflow))
  <2>1. CASE Transition
    BY <2>1 DEF Transition, NextStatuses
  <2>2. CASE RecordPayment
    <3>1. WorkflowForTicket(type, workflow) = withdrawalStatuses
      BY <1>2, <2>2, GraphOf DEF RecordPayment
    <3> QED
      BY <2>2, <3>1, WithdrawalKeysAre DEF RecordPayment
  <2>3. CASE UNCHANGED vars
    BY <2>3 DEF WalkInv, vars
  <2> QED
    BY <2>1, <2>2, <2>3 DEF Next
<1> QED
  BY <1>1, <1>2, <1>3 DEF WalkInv

(* A ticket keeps to the statuses of its own workflow, whatever the menu   *)
(* and the payment path do with it.                                        *)
THEOREM KeepsToItsWorkflow == BotSpec => []WalkInv
<1>1. BotInit => WalkInv
  BY WalkInit DEF BotInit
<1>2. WalkInv /\ [BotNext]_allVars => WalkInv'
  <2>1. [BotNext]_allVars => [Next]_vars
    BY DEF BotNext, ProcessStep, ReminderStep, Boot, Attach, acquireBotLock, Prime, OpenSession,
           RegisterCommands, Shutdown, Close, Exit, GatewayChanges, TickPosts, TickLost,
           CooldownOver, Age, Assign, Walk, ticketVars, allVars
  <2> QED
    BY <2>1, WalkStep
<1> QED
  BY <1>1, <1>2, PTL DEF BotSpec

(* The list of statuses the reminder passes over, which is kept apart from *)
(* the workflows, agrees with every one of them.                           *)
THEOREM ReminderAgrees == BotSpec => []RemindsOfWork
<1>1. WalkInv => RemindsOfWork
  <2> SUFFICES ASSUME WalkInv PROVE RemindsOfWork
    OBVIOUS
  <2> DEFINE edges == WorkflowForTicket(type, workflow)
  <2>1. edges \in Graphs4 /\ status \in StatusKeys(edges)
    BY GraphOf DEF WalkInv
  <2>2. NextStatuses(type, workflow, status) \ {"closed"} # {} <=> status \notin Done
    <3>1. NextStatuses(type, workflow, status) = {to \in StatusKeys(edges) : <<status, to>> \in edges}
      BY DEF NextStatuses
    <3> HIDE DEF edges
    <3>2. CASE status \in Done
      BY <2>1, <3>1, <3>2, DoneIsDone
    <3>3. CASE status \notin Done
      BY <2>1, <3>1, <3>3, OthersHaveWork
    <3> QED
      BY <3>2, <3>3
  <2> QED
    BY <2>2 DEF RemindsOfWork, NeedsReminder, WaitsForAdmin, Done
<1> QED
  BY <1>1, KeepsToItsWorkflow, PTL

(* Every set that has "closed", and where each edge into it comes from,    *)
(* has all the statuses of the workflow.                                   *)
LEMMA Gathered ==
    ASSUME NEW edges \in Graphs4, NEW set, LeadsToClosed(set, edges)
    PROVE  StatusKeys(edges) \subseteq set
<1>1. \A a, b : <<a, b>> \in edges /\ b \in set => a \in set
  BY DEF LeadsToClosed
<1>2. "closed" \in set
  BY DEF LeadsToClosed
<1>3. CASE edges = legacyStatuses
  <2>1. "resolved" \in set /\ "cancelled" \in set
    BY <1>1, <1>2, <1>3 DEF legacyStatuses
  <2>2. "dispute-opened" \in set
    BY <1>1, <1>3, <2>1 DEF legacyStatuses
  <2>3. \A s \in LegacyKeys : \/ <<s, "resolved">> \in edges \/ <<s, "closed">> \in edges
                              \/ <<s, "cancelled">> \in edges \/ <<s, "dispute-opened">> \in edges
    BY <1>3 DEF legacyStatuses, LegacyKeys
  <2> QED
    BY <1>1, <1>2, <1>3, <2>1, <2>2, <2>3, LegacyKeysAre
<1>4. CASE edges = withdrawalStatuses
  <2>1. \A s \in WithdrawalKeys : <<s, "cancelled">> \in edges \/ <<s, "closed">> \in edges
    BY <1>4 DEF withdrawalStatuses, WithdrawalKeys
  <2>2. "cancelled" \in set
    BY <1>1, <1>2, <1>4 DEF withdrawalStatuses
  <2> QED
    BY <1>1, <1>2, <1>4, <2>1, <2>2, WithdrawalKeysAre
<1>5. CASE edges = reviewStatuses
  <2>1. \A s \in ReviewKeys : <<s, "cancelled">> \in edges \/ <<s, "closed">> \in edges
    BY <1>5 DEF reviewStatuses, terminalStatuses, ReviewKeys
  <2>2. "cancelled" \in set
    BY <1>1, <1>2, <1>5 DEF reviewStatuses, terminalStatuses
  <2> QED
    BY <1>1, <1>2, <1>5, <2>1, <2>2, ReviewKeysAre
<1>6. CASE edges = supportStatuses
  <2>1. \A s \in SupportKeys : <<s, "cancelled">> \in edges \/ <<s, "closed">> \in edges
    BY <1>6 DEF supportStatuses, terminalStatuses, SupportKeys
  <2>2. "cancelled" \in set
    BY <1>1, <1>2, <1>6 DEF supportStatuses, terminalStatuses
  <2> QED
    BY <1>1, <1>2, <1>6, <2>1, <2>2, SupportKeysAre
<1> QED
  BY <1>3, <1>4, <1>5, <1>6 DEF Graphs4

(* No status of any workflow is a trap. *)
THEOREM NoStatusIsATrap == BotSpec => []CloseReachable
<1>1. WalkInv => CloseReachable
  <2> SUFFICES ASSUME WalkInv, status # "closed" PROVE CloseReachable
    BY DEF CloseReachable
  <2> DEFINE id == IF workflow = "" THEN "legacy" ELSE workflow
             edges == WorkflowForTicket(type, workflow)
  <2>1. edges = workflows(id) /\ edges \in Graphs4
    BY GraphOf DEF WalkInv
  <2>2. id \in {WorkflowForType(t) : t \in TypeKeys} \cup {"legacy"}
    BY GraphOf DEF WalkInv
  <2>3. status \in StatusKeys(edges)
    BY DEF WalkInv
  <2>4. status \in Nodes(edges)
    BY <2>3 DEF StatusKeys, Nodes
  <2>5. \A set \in SUBSET Nodes(edges) : LeadsToClosed(set, edges) => status \in set
    BY <2>1, <2>3, Gathered
  <2>6. ClosableFrom[id] = {s \in Nodes(edges) :
           \A set \in SUBSET Nodes(edges) : LeadsToClosed(set, edges) => s \in set}
    <3>1. workflows(id) = edges
      BY <2>1
    <3> HIDE DEF edges, id
    <3> QED
      BY <2>2, <3>1 DEF ClosableFrom
  <2>7. status \in ClosableFrom[id]
    <3> HIDE DEF edges, id
    <3> QED
      BY <2>4, <2>5, <2>6
  <2> QED
    BY <2>1, <2>7 DEF CloseReachable
<1> QED
  BY <1>1, KeepsToItsWorkflow, PTL

-----------------------------------------------------------------------------
(* The launch commands. *)

(* A plan is a sequence of names. *)
LEMMA PlanIsSeq ==
    ASSUME NEW cmd \in Commands
    PROVE  /\ \A i \in DOMAIN FullPlan(cmd) : i \in Nat /\ FullPlan(cmd)[i] # ""
           /\ ToSet(FullPlan(cmd)) = {FullPlan(cmd)[i] : i \in DOMAIN FullPlan(cmd)}
<1>1. FullPlan(cmd) \in Seq(STRING \ {""})
  BY TablesFit DEF Commands
<1> DEFINE plan == FullPlan(cmd)
<1>2. plan \in Seq(STRING \ {""})
  BY <1>1
<1>3. ToSet(plan) = {plan[i] : i \in DOMAIN plan}
  BY DEF ToSet
<1>4. ASSUME NEW T, NEW s \in Seq(T), NEW i \in DOMAIN s
      PROVE  i \in Nat /\ s[i] \in T
  OBVIOUS
<1> HIDE DEF plan
<1>5. \A i \in DOMAIN plan : i \in Nat /\ plan[i] \in STRING \ {""}
  BY <1>2, <1>4
<1> QED
  BY <1>3, <1>5 DEF plan

LEMMA LeastExists ==
    ASSUME NEW S \in SUBSET Nat, S # {}
    PROVE  \E x \in S : \A y \in S : x <= y
<1>1. ASSUME NEW R, IsWellFoundedOn(R, Nat), \A x, y \in Nat : <<y, x>> \in R <=> y < x
      PROVE  \E x \in S : \A y \in S : x <= y
  <2>1. PICK x \in S : \A y \in S : ~(<<y, x>> \in R)
    BY <1>1, WFMin
  <2>2. ASSUME NEW y \in S PROVE x <= y
    <3>1. x \in Nat /\ y \in Nat
      OBVIOUS
    <3>2. <<y, x>> \notin R
      BY <2>1
    <3>3. ~(y < x)
      BY <1>1, <3>1, <3>2
    <3> QED
      BY <3>1, <3>3
  <2> QED
    BY <2>2
<1>2. \A x, y \in Nat : <<y, x>> \in OpToRel(<, Nat) <=> y < x
  BY DEF OpToRel
<1> QED
  BY <1>1, <1>2, NatLessThanWellFounded

LEMMA FirstMissing ==
    ASSUME NEW h, h.cmd \in Commands
    PROVE  /\ Missing(h) = {} => NextMissing(h) = ""
           /\ Missing(h) # {} => NextMissing(h) \in Missing(h) /\ NextMissing(h) # ""
<1> DEFINE plan == FullPlan(h.cmd)
           left == {i \in DOMAIN plan : plan[i] \in Missing(h)}
<1>1. NextMissing(h) = IF Missing(h) = {} THEN "" ELSE plan[Min(left)]
  BY DEF NextMissing
<1>2. \A i \in DOMAIN plan : i \in Nat /\ plan[i] # ""
  BY PlanIsSeq
<1>3. \A name \in Missing(h) : \E i \in DOMAIN plan : plan[i] = name
  <2>1. ToSet(plan) = {plan[i] : i \in DOMAIN plan}
    BY PlanIsSeq
  <2>2. Missing(h) \subseteq ToSet(plan)
    BY DEF Missing, Planned
  <2> HIDE DEF plan
  <2> QED
    BY <2>1, <2>2
<1>4. ASSUME Missing(h) # {} PROVE Min(left) \in left
  <2>1. left # {} /\ left \in SUBSET Nat
    BY <1>2, <1>3, <1>4
  <2>2. \E x \in left : \A y \in left : x <= y
    BY <2>1, LeastExists
  <2> HIDE DEF left
  <2> QED
    BY <2>2 DEF Min
<1>5. \A i \in left : plan[i] \in Missing(h) /\ plan[i] # ""
  BY <1>2
<1> HIDE DEF left, plan
<1> QED
  BY <1>1, <1>4, <1>5

(* The invariant as it speaks of one handler. *)
Sound(x) ==
    /\ x \in Handler
    /\ x.have \subseteq Present(Names) \cup x.lost
    /\ x.refused \subseteq RuleNames \ x.have
    /\ Remembers(x)
    /\ x.step = "reply" /\ x.ok /\ x.cmd = "guildsync" /\ ~x.blind =>
          \A name \in Cached \ x.lost : cache[name] = "live"

WellFormed ==
    /\ guild \in [Names -> 0..MaxCopies]
    /\ cache \in [Cached -> Ids]
    /\ edits \in 0..MaxEdits

LEMMA LaunchParts ==
    LaunchInv <=> /\ WellFormed
                  /\ handler \in [Handlers -> Handler]
                  /\ \A h \in Handlers : Sound(handler[h])
  BY DEF LaunchInv, GuildInv, GuildTypeOK, WellFormed, Sound, SyncedIsCached

LEMMA IdleIsSound == Sound(Idle) /\ Sound(Idle)'
<1>1. Idle \in Handler
  BY DEF Idle, Handler, Nothing, Ids, Steps
<1>2. Remembers(Idle) /\ Remembers(Idle)'
  BY DEF Idle, Remembers, PlanIsThrough
<1> QED
  BY <1>1, <1>2 DEF Sound, Idle

(* A handler goes on by itself. *)
LEMMA ContinueKeeps ==
    ASSUME LaunchInv, NEW h \in Handlers, NEW next, Sound(next), Continue(h, next)
    PROVE  LaunchInv'
<1>1. UNCHANGED <<guild, cache, edits>> /\ handler' = [handler EXCEPT ![h] = next]
  BY DEF Continue
<1>2. \A x : Sound(x)' <=> Sound(x)
  BY <1>1 DEF Sound, Remembers, Present
<1>3. WellFormed' /\ handler' \in [Handlers -> Handler]
  BY <1>1, LaunchParts DEF WellFormed, Sound
<1>4. ASSUME NEW g \in Handlers PROVE Sound(handler[g])'
  <2>1. PICK x : x = handler'[g]
    OBVIOUS
  <2>2. Sound(x)
    BY <1>1, <2>1, LaunchParts
  <2> QED
    BY <1>2, <2>1, <2>2
<1> QED
  BY <1>3, <1>4 DEF LaunchInv, GuildInv, GuildTypeOK, WellFormed, Sound, SyncedIsCached

LEMMA StartKeeps ==
    ASSUME LaunchInv, NEW h \in Handlers, NEW cmd \in Commands \cup {"ready"}, Start(h, cmd)
    PROVE  LaunchInv'
<1> DEFINE next == [Idle EXCEPT !.cmd = cmd, !.step = IF cmd = "ready" THEN "refresh" ELSE "list"]
<1>1. Continue(h, next)
  BY DEF Start
<1>2. Sound(next)
  <2>1. next \in Handler /\ next.have = {} /\ next.refused = {} /\ next.cmd = cmd
        /\ next.step = IF cmd = "ready" THEN "refresh" ELSE "list"
    BY DEF Idle, Handler, Nothing, Ids, Steps
  <2> HIDE DEF next
  <2>2. Remembers(next)
    BY <2>1 DEF Remembers, PlanIsThrough, Commands
  <2> QED
    BY <2>1, <2>2 DEF Sound
<1> HIDE DEF next
<1> QED
  BY <1>1, <1>2, ContinueKeeps

LEMMA FinishKeeps ==
    ASSUME LaunchInv, NEW h \in Handlers, Finish(h)
    PROVE  LaunchInv'
  BY ContinueKeeps, IdleIsSound DEF Finish

(* A handler that gives up replies without success and is bound to nothing. *)
LEMMA GivingUpIsSound ==
    ASSUME NEW x, Sound(x)
    PROVE  Sound(Replied(x, FALSE))
<1> DEFINE y == Replied(x, FALSE)
<1>1. /\ y \in Handler /\ y.step = "reply" /\ y.ok = FALSE
      /\ y.have = x.have /\ y.refused = x.refused /\ y.lost = x.lost
  BY DEF Replied, Sound, Handler, Steps
<1> HIDE DEF y
<1>2. Remembers(y)
  BY <1>1 DEF Remembers, PlanIsThrough
<1>3. Sound(y)
  BY <1>1, <1>2 DEF Sound
<1> QED
  BY <1>3 DEF y

LEMMA ListKeeps ==
    ASSUME LaunchInv, NEW h \in Handlers, List(h)
    PROVE  LaunchInv'
<1> DEFINE x == handler[h]
           cmd == x.cmd
           ids == [name \in Names |-> IF name \in Present(Planned(cmd) \cap Categories)
                                      THEN "live" ELSE ""]
           next == [x EXCEPT !.step = "create", !.have = Present(Planned(cmd)), !.ids = ids]
<1>1. Sound(x) /\ x.step = "list"
  BY LaunchParts DEF List
<1>2. CASE Continue(h, Replied(x, FALSE))
  BY <1>1, <1>2, GivingUpIsSound, ContinueKeeps
<1>3. CASE Continue(h, next)
  <2>1. ids \in [Names -> Ids] /\ Present(Planned(cmd)) \subseteq Present(Names)
    BY DEF Ids, Present, Planned
  <2>2. Present(Names) \subseteq Names
    BY DEF Present
  <2>3. /\ next \in Handler /\ next.step = "create" /\ next.have = Present(Planned(cmd))
        /\ next.refused = x.refused /\ next.cmd = cmd
    BY <1>1, <2>1, <2>2 DEF Sound, Handler, Steps
  <2>4. x.cmd \in Commands /\ x.refused = {}
    BY <1>1 DEF Sound, Remembers
  <2> HIDE DEF next, ids
  <2>5. Remembers(next)
    BY <2>3, <2>4 DEF Remembers, PlanIsThrough
  <2>6. Sound(next)
    BY <2>1, <2>3, <2>4, <2>5 DEF Sound
  <2> QED
    BY <1>3, <2>6, ContinueKeeps
<1> QED
  BY <1>2, <1>3 DEF List

(* The name a handler is about to create is one of its plan that it        *)
(* neither has nor was refused.                                            *)
LEMMA NextIsMissing ==
    ASSUME NEW x, x.cmd \in Commands, NextMissing(x) # ""
    PROVE  NextMissing(x) \in Planned(x.cmd) \ (x.have \cup x.refused)
  BY FirstMissing DEF Missing

LEMMA CreateFailsKeeps ==
    ASSUME LaunchInv, NEW h \in Handlers, CreateFails(h)
    PROVE  LaunchInv'
<1> DEFINE x == handler[h]
           name == NextMissing(x)
           next == [x EXCEPT !.refused = @ \cup {name}]
<1>1. Sound(x) /\ x.step = "create" /\ name # ""
  BY LaunchParts DEF CreateFails
<1>2. CASE Continue(h, Replied(x, FALSE))
  BY <1>1, <1>2, GivingUpIsSound, ContinueKeeps
<1>3. CASE name \in RuleNames /\ Continue(h, next)
  <2>1. x.cmd \in Commands
    BY <1>1 DEF Sound, Remembers
  <2>2. name \in Planned(x.cmd) \ (x.have \cup x.refused)
    BY <1>1, <2>1, NextIsMissing
  <2>3. name \in Names
    BY <2>2 DEF Planned
  <2>4. /\ next \in Handler /\ next.step = "create" /\ next.have = x.have /\ next.lost = x.lost
        /\ next.refused = x.refused \cup {name} /\ next.cmd = x.cmd /\ next.rival = x.rival
    BY <1>1, <2>3 DEF Sound, Handler
  <2> HIDE DEF next, name
  <2>5. Remembers(next)
    BY <1>1, <2>1, <2>4 DEF Sound, Remembers, PlanIsThrough
  <2>6. Sound(next)
    BY <1>1, <1>3, <2>2, <2>4, <2>5 DEF Sound
  <2> QED
    BY <1>3, <2>6, ContinueKeeps
<1> QED
  BY <1>1, <1>2, <1>3 DEF CreateFails

(* With no name missing the plan is through. *)
LEMMA AllCreatedKeeps ==
    ASSUME LaunchInv, NEW h \in Handlers, AllCreated(h)
    PROVE  LaunchInv'
<1> DEFINE x == handler[h]
           on == [x EXCEPT !.step = "refresh", !.ids = Nothing]
           done == Replied(x, TRUE)
<1>1. Sound(x) /\ x.step = "create" /\ x.cmd \in Commands
  BY LaunchParts DEF AllCreated, Sound, Remembers
<1>2. Planned(x.cmd) \subseteq x.have \cup x.refused
  BY <1>1, FirstMissing DEF AllCreated, Missing
<1>3. Sound(on)
  <2>1. /\ on \in Handler /\ on.step = "refresh" /\ on.have = x.have /\ on.lost = x.lost
        /\ on.refused = x.refused /\ on.cmd = x.cmd
    BY <1>1 DEF Sound, Handler, Steps, Nothing, Ids
  <2> HIDE DEF on
  <2> QED
    BY <1>1, <1>2, <2>1 DEF Sound, Remembers
<1>4. ASSUME x.cmd # "guildsync" PROVE Sound(done)
  <2>1. /\ done \in Handler /\ done.step = "reply" /\ done.have = x.have /\ done.lost = x.lost
        /\ done.refused = x.refused /\ done.cmd = x.cmd
    BY <1>1 DEF Sound, Handler, Steps, Replied
  <2> HIDE DEF done
  <2> QED
    BY <1>1, <1>2, <1>4, <2>1 DEF Sound, Remembers
<1>5. Continue(h, IF x.cmd = "guildsync" THEN on ELSE done)
  BY DEF AllCreated
<1> HIDE DEF on, done
<1> QED
  BY <1>3, <1>4, <1>5, ContinueKeeps

(* The channels of the bot are among those /guildsync creates, and no rule *)
(* is called like one of them.                                             *)
LEMMA CachedIsPlanned ==
    /\ Cached \subseteq Planned("guildsync")
    /\ Cached \cap RuleNames = {}
<1>1. FullPlan("guildsync") = LayoutOrder
  BY DEF FullPlan
<1>2. channelKeys \subseteq ToSet(FullPlan("guildsync"))
  BY <1>1, TablesFit
<1> QED
  BY <1>2, TablesFit DEF Cached, Planned

LEMMA RefreshListKeeps ==
    ASSUME LaunchInv, NEW h \in Handlers, RefreshList(h)
    PROVE  LaunchInv'
<1> DEFINE x == handler[h]
           ids == [name \in Names |-> IF name \in Present(Cached) THEN "live" ELSE ""]
           failed == Replied([x EXCEPT !.blind = TRUE], TRUE)
           listed == [x EXCEPT !.step = "store", !.ids = ids]
<1>1. Sound(x) /\ x.step = "refresh"
  BY LaunchParts DEF RefreshList
<1>2. Sound(failed)
  <2>1. /\ failed \in Handler /\ failed.step = "reply" /\ failed.blind /\ failed.cmd = x.cmd
        /\ failed.have = x.have /\ failed.lost = x.lost /\ failed.refused = x.refused
    BY <1>1 DEF Sound, Handler, Steps, Replied
  <2> HIDE DEF failed
  <2> QED
    BY <1>1, <2>1 DEF Sound, Remembers, PlanIsThrough
<1>3. Sound(listed)
  <2>1. ids \in [Names -> Ids]
    BY DEF Ids
  <2>2. /\ listed \in Handler /\ listed.step = "store" /\ listed.cmd = x.cmd
        /\ listed.have = x.have /\ listed.lost = x.lost /\ listed.refused = x.refused
        /\ listed.ids = ids
    BY <1>1, <2>1 DEF Sound, Handler, Steps
  <2>3. ASSUME x.cmd = "guildsync", NEW name \in Cached \ x.lost
        PROVE  ids[name] = "live"
    <3>1. name \in x.have \cup x.refused
      BY <1>1, <2>3, CachedIsPlanned DEF Sound, Remembers, PlanIsThrough, Commands
    <3>2. name \in Present(Cached)
      BY <1>1, <2>3, <3>1, CachedIsPlanned DEF Sound, Present
    <3> QED
      BY <3>2 DEF Present, Cached
  <2> HIDE DEF listed, ids
  <2>4. Remembers(listed)
    BY <1>1, <2>2, <2>3 DEF Sound, Remembers, PlanIsThrough
  <2> QED
    BY <1>1, <2>2, <2>4 DEF Sound
<1>4. Continue(h, failed) \/ Continue(h, listed)
  BY DEF RefreshList
<1> HIDE DEF failed, listed
<1> QED
  BY <1>2, <1>3, <1>4, ContinueKeeps

(* Storing a list blinds the handlers that have replied. *)
LEMMA RefreshStoreKeeps ==
    ASSUME LaunchInv, NEW h \in Handlers, RefreshStore(h)
    PROVE  LaunchInv'
<1>1. /\ handler[h].step = "store"
      /\ cache' = [name \in Cached |-> handler[h].ids[name]]
      /\ UNCHANGED <<guild, edits>>
      /\ handler' = [g \in Handlers |->
                       IF g = h THEN Replied(handler[g], TRUE)
                       ELSE [handler[g] EXCEPT !.blind = @ \/ handler[g].step = "reply"]]
  BY DEF RefreshStore
<1>2. WellFormed /\ \A g \in Handlers : Sound(handler[g])
  BY LaunchParts
<1>3. WellFormed'
  <2>1. handler[h].ids \in [Names -> Ids]
    BY <1>2 DEF Sound, Handler
  <2> QED
    BY <1>1, <1>2, <2>1 DEF WellFormed, Cached
<1>4. ASSUME NEW g \in Handlers PROVE Sound(handler[g])'
  <2>1. PICK x, y : x = handler[g] /\ y = handler'[g]
    OBVIOUS
  <2>2. Sound(x)
    BY <1>2, <2>1
  <2>3. CASE g = h
    <3>1. /\ y \in Handler /\ y.step = "reply" /\ y.cmd = x.cmd /\ y.have = x.have
          /\ y.lost = x.lost /\ y.refused = x.refused
      BY <1>1, <2>1, <2>2, <2>3 DEF Sound, Handler, Steps, Replied
    <3>2. x.step = "store" /\ \A name \in Cached : cache'[name] = x.ids[name]
      BY <1>1, <2>1, <2>3
    <3>3. Sound(y)'
      BY <1>1, <2>2, <3>1, <3>2 DEF Sound, Remembers, PlanIsThrough, Present, Commands
    <3> QED
      BY <2>1, <3>3
  <2>4. CASE g # h
    <3>1. y = [x EXCEPT !.blind = @ \/ x.step = "reply"]
      BY <1>1, <2>1, <2>4
    <3>2. /\ y \in Handler /\ y.step = x.step /\ y.cmd = x.cmd /\ y.have = x.have
          /\ y.lost = x.lost /\ y.refused = x.refused /\ y.rival = x.rival /\ y.ids = x.ids
          /\ y.ok = x.ok /\ (x.step = "reply" => y.blind)
      BY <2>2, <3>1 DEF Sound, Handler
    <3>3. ASSUME x.step = "idle" PROVE y = Idle
      <4>1. x = Idle /\ Idle.blind = FALSE /\ Idle.step # "reply"
        BY <2>2, <3>3 DEF Sound, Remembers, Idle
      <4>2. y = [Idle EXCEPT !.blind = FALSE]
        BY <3>1, <4>1
      <4> QED
        BY <4>2 DEF Idle
    <3>4. Sound(y)'
      BY <1>1, <2>2, <3>2, <3>3 DEF Sound, Remembers, PlanIsThrough, Present
    <3> QED
      BY <2>1, <3>4
  <2> QED
    BY <2>3, <2>4
<1> QED
  BY <1>1, <1>3, <1>4 DEF LaunchInv, GuildInv, GuildTypeOK, WellFormed, Sound, SyncedIsCached

(* Another copy of a name: what existed exists, and nothing else but it. *)
LEMMA OneMoreCopy ==
    ASSUME NEW name \in Names, guild \in [Names -> 0..MaxCopies], guild[name] < MaxCopies,
           guild' = [guild EXCEPT ![name] = @ + 1]
    PROVE  /\ guild' \in [Names -> 0..MaxCopies]
           /\ \A S \in SUBSET Names : /\ Present(S) \subseteq Present(S)'
                                      /\ Present(S)' \subseteq Present(S) \cup {name}
           /\ name \in Present(Names)'
<1>1. guild[name] + 1 \in 0..MaxCopies /\ guild[name] + 1 > 0
  BY ConstantsAssumption
<1>2. guild' \in [Names -> 0..MaxCopies] /\ guild'[name] > 0
  BY <1>1
<1>3. \A other \in Names : other # name => guild'[other] = guild[other]
  OBVIOUS
<1> QED
  BY <1>2, <1>3 DEF Present

(* A handler that has listed without the new copy has a rival. *)
LEMMA BehindIsSound ==
    ASSUME NEW name \in Names, guild \in [Names -> 0..MaxCopies], guild[name] < MaxCopies,
           guild' = [guild EXCEPT ![name] = @ + 1], cache' = cache,
           NEW x, Sound(x), NEW y,
           y = [x EXCEPT !.rival = @ \/ (x.step = "create" /\ name \in Planned(x.cmd))]
    PROVE  Sound(y)'
<1>1. /\ y \in Handler /\ y.step = x.step /\ y.cmd = x.cmd /\ y.have = x.have /\ y.ok = x.ok
      /\ y.lost = x.lost /\ y.refused = x.refused /\ y.ids = x.ids /\ y.blind = x.blind
      /\ y.rival = (x.rival \/ (x.step = "create" /\ name \in Planned(x.cmd)))
  BY DEF Sound, Handler
<1>2. ASSUME x.step = "idle" PROVE y = Idle
  <2>1. x = Idle /\ Idle.rival = FALSE /\ Idle.step # "create"
    BY <1>2 DEF Sound, Remembers, Idle
  <2>2. y = [Idle EXCEPT !.rival = FALSE]
    BY <2>1
  <2> QED
    BY <2>2 DEF Idle
<1>3. ASSUME y.step = "create", ~y.rival PROVE Present(Planned(y.cmd))' \subseteq y.have
  <2>1. ~x.rival /\ name \notin Planned(x.cmd)
    BY <1>1, <1>3
  <2>2. Present(Planned(x.cmd)) \subseteq x.have
    BY <1>1, <1>3, <2>1 DEF Sound, Remembers
  <2>3. Present(Planned(x.cmd))' \subseteq Present(Planned(x.cmd))
    BY <2>1, OneMoreCopy DEF Planned, Present
  <2> QED
    BY <1>1, <2>2, <2>3
<1>4. Remembers(y)'
  BY <1>1, <1>2, <1>3 DEF Sound, Remembers, PlanIsThrough
<1> QED
  BY <1>1, <1>4, OneMoreCopy DEF Sound

LEMMA CreateKeeps ==
    ASSUME LaunchInv, NEW h \in Handlers, Create(h)
    PROVE  LaunchInv'
<1> DEFINE name == NextMissing(handler[h])
<1>1. WellFormed /\ handler \in [Handlers -> Handler] /\ \A g \in Handlers : Sound(handler[g])
  BY LaunchParts
<1>2. /\ handler[h].step = "create" /\ name # "" /\ guild[name] < MaxCopies
      /\ guild' = [guild EXCEPT ![name] = @ + 1] /\ UNCHANGED <<cache, edits>>
      /\ handler' = [CreatedBehind(name) EXCEPT ![h] = Remember(handler[h], name)]
  BY DEF Create
<1>3. handler[h].cmd \in Commands
  BY <1>1, <1>2 DEF Sound, Remembers
<1>4. name \in Planned(handler[h].cmd) \ (handler[h].have \cup handler[h].refused)
  BY <1>2, <1>3, NextIsMissing
<1>5. name \in Names
  BY <1>4 DEF Planned
<1> HIDE DEF name
<1>6. WellFormed'
  BY <1>1, <1>2, <1>5, OneMoreCopy DEF WellFormed
<1>7. ASSUME NEW g \in Handlers PROVE Sound(handler[g])'
  <2>1. PICK x, y : x = handler[g] /\ y = handler'[g]
    OBVIOUS
  <2>2. CASE g # h
    <3>1. y = [x EXCEPT !.rival = @ \/ (x.step = "create" /\ name \in Planned(x.cmd))]
      BY <1>2, <2>1, <2>2 DEF CreatedBehind
    <3>2. Sound(y)'
      BY <1>1, <1>2, <1>5, <2>1, <3>1, BehindIsSound DEF WellFormed
    <3> QED
      BY <2>1, <3>2
  <2>3. CASE g = h
    <3>1. y = Remember(x, name)
      BY <1>2, <2>1, <2>3 DEF CreatedBehind
    <3>2. Sound(x)
      BY <1>1, <2>1
    <3>3. /\ y \in Handler /\ y.step = x.step /\ y.cmd = x.cmd /\ y.have = x.have \cup {name}
          /\ y.ok = x.ok /\ y.lost = x.lost /\ y.refused = x.refused /\ y.rival = x.rival
      BY <1>5, <3>1, <3>2 DEF Sound, Handler, Remember, Ids
    <3>4. x.step = "create" /\ name \notin x.refused /\ x.cmd \in Commands
      BY <1>2, <1>3, <1>4, <2>1, <2>3
    <3>5. \A S \in SUBSET Names : /\ Present(S) \subseteq Present(S)'
                                  /\ Present(S)' \subseteq Present(S) \cup {name}
      BY <1>1, <1>2, <1>5, OneMoreCopy DEF WellFormed
    <3>6. name \in Present(Names)'
      BY <1>1, <1>2, <1>5, OneMoreCopy DEF WellFormed
    <3>7. Planned(x.cmd) \in SUBSET Names
      BY DEF Planned
    <3>8. Remembers(y)'
      BY <3>2, <3>3, <3>4, <3>5, <3>7 DEF Sound, Remembers, PlanIsThrough
    <3>9. Sound(y)'
      BY <3>2, <3>3, <3>4, <3>5, <3>6, <3>8 DEF Sound
    <3> QED
      BY <2>1, <3>9
  <2> QED
    BY <2>2, <2>3
<1>8. handler' \in [Handlers -> Handler]
  BY <1>1, <1>2, <1>7 DEF Sound, CreatedBehind
<1> QED
  BY <1>6, <1>7, <1>8 DEF LaunchInv, GuildInv, GuildTypeOK, WellFormed, Sound, SyncedIsCached

(* ... and so has every handler when nobody knows of it. *)
LEMMA BehindAllKeeps ==
    ASSUME LaunchInv, NEW name \in Names, guild[name] < MaxCopies,
           guild' = [guild EXCEPT ![name] = @ + 1], handler' = CreatedBehind(name),
           cache' = cache, edits' \in 0..MaxEdits
    PROVE  LaunchInv'
<1>1. WellFormed /\ handler \in [Handlers -> Handler] /\ \A g \in Handlers : Sound(handler[g])
  BY LaunchParts
<1>2. WellFormed'
  BY <1>1, OneMoreCopy DEF WellFormed
<1>3. ASSUME NEW g \in Handlers PROVE Sound(handler[g])'
  <2>1. PICK x, y : x = handler[g] /\ y = handler'[g]
    OBVIOUS
  <2>2. y = [x EXCEPT !.rival = @ \/ (x.step = "create" /\ name \in Planned(x.cmd))]
    BY <2>1 DEF CreatedBehind
  <2>3. Sound(y)'
    BY <1>1, <2>1, <2>2, BehindIsSound DEF WellFormed
  <2> QED
    BY <2>1, <2>3
<1>4. handler' \in [Handlers -> Handler]
  BY <1>3 DEF Sound, CreatedBehind
<1> QED
  BY <1>2, <1>3, <1>4 DEF LaunchInv, GuildInv, GuildTypeOK, WellFormed, Sound, SyncedIsCached

LEMMA CreateByHandKeeps ==
    ASSUME LaunchInv, NEW name \in Names, CreateByHand(name)
    PROVE  LaunchInv'
<1>1. edits' \in 0..MaxEdits
  BY LaunchParts, ConstantsAssumption DEF WellFormed, CreateByHand
<1> QED
  BY <1>1, BehindAllKeeps DEF CreateByHand

LEMMA CreateLostKeeps ==
    ASSUME LaunchInv, NEW h \in Handlers, CreateLost(h)
    PROVE  LaunchInv'
<1> DEFINE name == NextMissing(handler[h])
<1>1. /\ handler[h].step = "create" /\ name # "" /\ guild[name] < MaxCopies
      /\ guild' = [guild EXCEPT ![name] = @ + 1] /\ UNCHANGED <<cache, edits>>
      /\ handler' = CreatedBehind(name)
  BY DEF CreateLost
<1>2. handler[h].cmd \in Commands
  BY <1>1, LaunchParts DEF Sound, Remembers
<1>3. name \in Names
  BY <1>1, <1>2, NextIsMissing DEF Planned
<1>4. edits' \in 0..MaxEdits
  BY <1>1, LaunchParts DEF WellFormed
<1> HIDE DEF name
<1> QED
  BY <1>1, <1>3, <1>4, BehindAllKeeps

(* A copy less: the handlers lose the name, and what they know of others   *)
(* stays true.                                                             *)
LEMMA DeleteByHandKeeps ==
    ASSUME LaunchInv, NEW name \in Names, DeleteByHand(name)
    PROVE  LaunchInv'
<1>1. WellFormed /\ handler \in [Handlers -> Handler] /\ \A g \in Handlers : Sound(handler[g])
  BY LaunchParts
<1>2. /\ edits < MaxEdits /\ guild[name] > 0 /\ edits' = edits + 1
      /\ guild' = [guild EXCEPT ![name] = @ - 1]
  BY DEF DeleteByHand
<1>3. \A id \in Ids, last \in BOOLEAN : IdAfterDelete(id, last) \subseteq Ids
  BY DEF IdAfterDelete, Ids
<1>4. /\ cache' \in [Cached -> Ids]
      /\ \A other \in Cached \ {name} : cache'[other] = cache[other]
  <2>1. CASE name \in Cached
    <3>1. PICK id \in IdAfterDelete(cache[name], guild[name] = 1) : cache' = [cache EXCEPT ![name] = id]
      BY <2>1 DEF DeleteByHand
    <3>2. id \in Ids
      BY <1>1, <1>3, <2>1, <3>1 DEF WellFormed
    <3> QED
      BY <1>1, <2>1, <3>1, <3>2 DEF WellFormed
  <2>2. CASE name \notin Cached
    BY <1>1, <2>2 DEF DeleteByHand, WellFormed
  <2> QED
    BY <2>1, <2>2
<1>5. PICK ids \in [Handlers -> Ids] :
        handler' = [g \in Handlers |->
                      IF handler[g].step = "idle" THEN handler[g]
                      ELSE [handler[g] EXCEPT !.ids[name] = ids[g], !.lost = @ \cup {name}]]
  BY DEF DeleteByHand
<1>6. WellFormed'
  <2>1. edits' \in 0..MaxEdits
    BY <1>1, <1>2, ConstantsAssumption DEF WellFormed
  <2>2. guild' \in [Names -> 0..MaxCopies]
    BY <1>1, <1>2, ConstantsAssumption DEF WellFormed
  <2> QED
    BY <1>4, <2>1, <2>2 DEF WellFormed
<1>7. \A S \in SUBSET Names : /\ Present(S)' \subseteq Present(S)
                              /\ Present(S) \subseteq Present(S)' \cup {name}
  <2>1. \A other \in Names \ {name} : guild'[other] = guild[other]
    BY <1>1, <1>2 DEF WellFormed
  <2> QED
    BY <1>2, <2>1 DEF Present
<1>8. ASSUME NEW g \in Handlers PROVE Sound(handler[g])'
  <2>1. PICK x, y : x = handler[g] /\ y = handler'[g]
    OBVIOUS
  <2>2. Sound(x)
    BY <1>1, <2>1
  <2>3. CASE x.step = "idle"
    <3>1. y = Idle
      BY <1>5, <2>1, <2>2, <2>3 DEF Sound, Remembers
    <3> QED
      BY <2>1, <3>1, IdleIsSound
  <2>4. CASE x.step # "idle"
    <3>1. y = [x EXCEPT !.ids[name] = ids[g], !.lost = @ \cup {name}]
      BY <1>5, <2>1, <2>4
    <3>2. ids[g] \in Ids /\ x.ids \in [Names -> Ids]
      BY <1>5, <2>2 DEF Sound, Handler
    <3>3. /\ y \in Handler /\ y.step = x.step /\ y.cmd = x.cmd /\ y.have = x.have /\ y.ok = x.ok
          /\ y.lost = x.lost \cup {name} /\ y.refused = x.refused /\ y.rival = x.rival
          /\ y.blind = x.blind
          /\ \A other \in Names \ {name} : y.ids[other] = x.ids[other]
      BY <2>2, <3>1, <3>2 DEF Sound, Handler
    <3>4. Planned(x.cmd) \in SUBSET Names /\ Cached \subseteq Names
      BY DEF Planned, Cached
    <3>5. Remembers(y)'
      BY <1>7, <2>2, <2>4, <3>3, <3>4 DEF Sound, Remembers, PlanIsThrough
    <3>6. Sound(y)'
      BY <1>4, <1>7, <2>2, <3>3, <3>4, <3>5 DEF Sound
    <3> QED
      BY <2>1, <3>6
  <2> QED
    BY <2>3, <2>4
<1>9. handler' \in [Handlers -> Handler]
  BY <1>5, <1>8 DEF Sound
<1> QED
  BY <1>6, <1>8, <1>9 DEF LaunchInv, GuildInv, GuildTypeOK, WellFormed, Sound, SyncedIsCached

LEMMA RestartKeeps ==
    ASSUME LaunchInv, Restart
    PROVE  LaunchInv'
<1>1. WellFormed'
  BY LaunchParts DEF Restart, WellFormed, Ids
<1>2. handler' = [h \in Handlers |-> Idle]
  BY DEF Restart
<1>3. \A h \in Handlers : Sound(handler[h])'
  BY <1>2, IdleIsSound
<1>4. handler' \in [Handlers -> Handler]
  BY <1>2, IdleIsSound DEF Sound
<1> QED
  BY <1>1, <1>3, <1>4 DEF LaunchInv, GuildInv, GuildTypeOK, WellFormed, Sound, SyncedIsCached

LEMMA LaunchInit == GuildInit => LaunchInv
<1> SUFFICES ASSUME GuildInit PROVE LaunchInv
  OBVIOUS
<1>1. WellFormed
  <2>1. 0 \in 0..MaxCopies /\ 0 \in 0..MaxEdits
    BY ConstantsAssumption
  <2> QED
    BY <2>1 DEF GuildInit, WellFormed, Ids
<1>2. handler = [h \in Handlers |-> Idle]
  BY DEF GuildInit
<1>3. handler \in [Handlers -> Handler] /\ \A h \in Handlers : Sound(handler[h])
  BY <1>2, IdleIsSound DEF Sound
<1> QED
  BY <1>1, <1>3, LaunchParts

LEMMA LaunchStep == LaunchInv /\ [GuildNext]_guildVars => LaunchInv'
<1> SUFFICES ASSUME LaunchInv, [GuildNext]_guildVars PROVE LaunchInv'
  OBVIOUS
<1>1. CASE UNCHANGED guildVars
  BY <1>1 DEF guildVars, LaunchInv, GuildInv, GuildTypeOK, SyncedIsCached, Remembers, Present
<1>2. ASSUME NEW h \in Handlers, HandlerStep(h) PROVE LaunchInv'
  BY <1>2, ListKeeps, CreateKeeps, CreateLostKeeps, CreateFailsKeeps, AllCreatedKeeps, RefreshListKeeps,
     RefreshStoreKeeps, FinishKeeps DEF HandlerStep
<1> QED
  BY <1>1, <1>2, StartKeeps, CreateByHandKeeps, DeleteByHandKeeps, RestartKeeps DEF GuildNext

(* The invariant holds however the commands, the refreshes, the failures   *)
(* and the edits by hand are interleaved.                                  *)
THEOREM LaunchInvariance == GuildSpec => []LaunchInv
  BY LaunchInit, LaunchStep, PTL DEF GuildSpec

(* What every handler takes for existing exists or was deleted since.      *)
THEOREM NothingIsMadeUp == GuildSpec => []GuildInv
<1>1. LaunchInv => GuildInv
  BY DEF LaunchInv
<1> QED
  BY <1>1, LaunchInvariance, PTL

(* A launch command that replies without an error leaves nothing of its    *)
(* plan behind, but for the rules it names.                                *)
THEOREM SuccessIsComplete == GuildSpec => []SyncedIsComplete
<1>1. LaunchInv => SyncedIsComplete
  BY DEF LaunchInv, GuildInv, Remembers, PlanIsThrough, SyncedIsComplete
<1> QED
  BY <1>1, LaunchInvariance, PTL

(* The bot knows its channels after /guildsync. *)
THEOREM ChannelsAreKnown == GuildSpec => []SyncedIsCached
<1>1. LaunchInv => SyncedIsCached
  BY DEF LaunchInv
<1> QED
  BY <1>1, LaunchInvariance, PTL

(* Duplicates are made by people, or behind the back of a command that had *)
(* listed before: never by a command issued again.                         *)
THEOREM RetriesDuplicateNothing == GuildSpec => DuplicateNeedsRival
<1> DEFINE Excused(name) ==
              \/ edits' > edits
              \/ \E h \in Handlers : handler[h].rival /\ NextMissing(handler[h]) = name
           A == \A name \in Names : guild'[name] > guild[name] /\ guild[name] > 0 => Excused(name)
<1>1. LaunchInv /\ [GuildNext]_guildVars => [A]_guildVars
  <2> SUFFICES ASSUME LaunchInv, GuildNext, NEW name \in Names,
                      guild'[name] > guild[name], guild[name] > 0
               PROVE  Excused(name)
    OBVIOUS
  <2>1. WellFormed /\ \A h \in Handlers : Sound(handler[h])
    BY LaunchParts
  <2>2. ASSUME NEW h \in Handlers, Create(h) \/ CreateLost(h) PROVE Excused(name)
    <3>1. /\ handler[h].step = "create" /\ NextMissing(handler[h]) # ""
          /\ guild' = [guild EXCEPT ![NextMissing(handler[h])] = @ + 1]
      BY <2>2 DEF Create, CreateLost
    <3>2. NextMissing(handler[h]) = name
      <4>1. guild[name] \in Nat
        BY <2>1, ConstantsAssumption DEF WellFormed
      <4>2. NextMissing(handler[h]) # name => guild'[name] = guild[name]
        BY <2>1, <3>1 DEF WellFormed
      <4> QED
        BY <4>1, <4>2
    <3>3. handler[h].cmd \in Commands
      BY <2>1, <3>1 DEF Sound, Remembers
    <3>4. name \in Planned(handler[h].cmd) \ handler[h].have
      BY <3>1, <3>2, <3>3, NextIsMissing
    <3>5. name \in Present(Planned(handler[h].cmd))
      BY <3>4 DEF Present
    <3>6. handler[h].rival
      BY <2>1, <3>1, <3>4, <3>5 DEF Sound, Remembers
    <3> QED
      BY <3>2, <3>6
  <2>3. ASSUME NEW other \in Names, CreateByHand(other) PROVE Excused(name)
    BY <2>1, <2>3, ConstantsAssumption DEF CreateByHand, WellFormed
  <2>4. ASSUME NEW other \in Names, DeleteByHand(other) PROVE FALSE
    <3>1. guild' = [guild EXCEPT ![other] = @ - 1]
      BY <2>4 DEF DeleteByHand
    <3> QED
      BY <2>1, <3>1 DEF WellFormed
  <2>5. ASSUME guild' = guild PROVE FALSE
    BY <2>1, <2>5 DEF WellFormed
  <2>6. ASSUME NEW h \in Handlers, HandlerStep(h), ~Create(h), ~CreateLost(h)
       PROVE  guild' = guild
    BY <2>6 DEF HandlerStep, List, CreateFails, AllCreated, RefreshList, RefreshStore, Finish, Continue
  <2>7. ASSUME NEW h \in Handlers, NEW cmd, Start(h, cmd) PROVE guild' = guild
    BY <2>7 DEF Start, Continue
  <2>8. Restart => guild' = guild
    BY DEF Restart
  <2> HIDE DEF Excused
  <2> QED
    BY <2>2, <2>3, <2>4, <2>5, <2>6, <2>7, <2>8 DEF GuildNext
<1>2. DuplicateNeedsRival <=> [][A]_guildVars
  BY DEF DuplicateNeedsRival
<1> HIDE DEF A
<1> QED
  BY <1>1, <1>2, LaunchInvariance, PTL DEF GuildSpec
=============================================================================
