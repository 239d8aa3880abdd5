-------------------------- MODULE MemberTiersProofs -------------------------
(***************************************************************************)
(* Proofs about MemberTiers for any number of members and of handlers at   *)
(* once: a member's tiers stay exclusive, the stored tier follows the      *)
(* roles, and a reconciliation deletes no row of somebody it left alone.   *)
(*                                                                         *)
(* The inductive invariant IInv says how far each handler has come (its    *)
(* member holds no other tier than those still to be removed, its row is   *)
(* the one the roles call for) and what a reconciliation knows of the      *)
(* members nothing happened to since it started.                           *)
(***************************************************************************)
EXTENDS MemberTiers, FiniteSetTheorems, TLAPS

-----------------------------------------------------------------------------
(* The pure parts. *)

LEMMA MemberRoleType ==
    ASSUME NEW tier \in Tiers, tier # "none"
    PROVE  MemberRole(tier) \in MemberRoleNames
BY DEF Tiers, MemberRole, MemberRoleNames

LEMMA MemberTierType ==
    ASSUME NEW names
    PROVE  MemberTier(names) \in Tiers \cup {"conflict"}
BY DEF MemberTier, Tiers

(* A member who holds the role of a tier is of that tier, or in conflict.  *)
LEMMA HeldTier ==
    ASSUME NEW names, NEW tier \in Tiers, tier # "none", MemberRole(tier) \in names
    PROVE  MemberTier(names) \in {tier, "conflict"}
<1>1. \A x : names \cap MemberRoleNames = {x} => MemberRole(tier) = x
  BY MemberRoleType
<1>2. names \cap MemberRoleNames # {}
  BY MemberRoleType
<1> QED
  BY <1>1, <1>2 DEF MemberTier, Tiers, MemberRole

LEMMA RowOfType ==
    ASSUME NEW names, MemberTier(names) # "conflict"
    PROVE  RowOf(names) \in GuildMember
BY MemberTierType DEF RowOf, GuildMember, Restricted

(* What Service.Verify stores is a row, for everybody it does not refuse,  *)
(* and nothing new for somebody who has verified already.                  *)
LEMMA VerifiedRowType ==
    ASSUME NEW names, DecideVerification(names) # "refuse"
    PROVE  /\ VerifiedRow(names) \in GuildMember
           /\ DecideVerification(names) # "verify" => VerifiedRow(names) = RowOf(names)
<1>1. RowOf(names) \in GuildMember
  BY RowOfType DEF DecideVerification
<1>2. PICK row0 \in GuildMember : row0 = RowOf(names)
  BY <1>1
<1>3. VerifiedRow(names)
      = [row0 EXCEPT !.tier = IF DecideVerification(names) = "verify" THEN "buyer" ELSE @]
  BY <1>2 DEF VerifiedRow
<1> QED
  BY <1>2, <1>3 DEF GuildMember, Tiers

(* A repair is the row the roles call for; no repair means that the stored *)
(* row agrees with them.                                                   *)
LEMMA RepairOfType ==
    ASSUME NEW stored, NEW names
    PROVE  /\ RepairOf(stored, names) \in GuildMember \cup {Null}
           /\ RepairOf(stored, names) # Null => RepairOf(stored, names) = RowOf(names)
           /\ RepairOf(stored, names) = Null =>
                 \/ MemberTier(names) = "conflict"
                 \/ MemberTier(names) = "none" /\ stored = Null
                 \/ stored = RowOf(names)
BY RowOfType, MembersAssumption DEF RepairOf

(* The roles exclusiveTier removes are member roles; those it does not     *)
(* remove are the target.                                                  *)
LEMMA ExclusiveGrantType ==
    ASSUME NEW names, NEW target
    PROVE  /\ ExclusiveGrant(names, target) \in SUBSET MemberRoleNames
           /\ names \cap MemberRoleNames
                \subseteq ExclusiveGrant(names, target) \cup {MemberRole(target)}
BY DEF ExclusiveGrant

(* Somebody who holds at most one member role holds at most one.           *)
LEMMA OneTierCount ==
    ASSUME NEW names, OneTier(names)
    PROVE  Cardinality(names \cap MemberRoleNames) <= 1
<1>1. CASE names \cap MemberRoleNames = {}
  BY <1>1, FS_EmptySet
<1>2. CASE names \cap MemberRoleNames # {}
  <2>1. PICK name : names \cap MemberRoleNames = {name}
    BY <1>2 DEF OneTier
  <2>2. Cardinality({name}) = 1
    BY FS_Singleton
  <2> QED
    BY <2>1, <2>2
<1> QED
  BY <1>1, <1>2

-----------------------------------------------------------------------------
(* What a step may change.  All but the reconciliation's steps change the  *)
(* state of one member only. *)

(* The member a step is about counts as disturbed.                         *)
LEMMA TouchStep ==
    ASSUME sync \in Sync, NEW m \in Members, Touch(m)
    PROVE  /\ sync' \in Sync
           /\ sync'.step = sync.step /\ sync'.stored = sync.stored
           /\ sync'.repairs = sync.repairs /\ sync'.prune = sync.prune
           /\ sync.step # "idle" => sync'.touched = sync.touched \cup {m}
BY DEF Touch, Sync

LEMMA NoTaskType == NoTask \in Task /\ SoundTask(NoTask) /\ NoTask.member = Null
BY DEF NoTask, Task, TaskSteps, Tiers, SoundTask

(* A handler starts on a member who is in the guild from then on.          *)
StartOn(t, m, first) ==
    /\ Start(t, m, first)
    /\ first \in Task
    /\ SoundTask(first)
    /\ first.member = m
    /\ first.step \in {"verify", "current"}
    /\ first.step = "verify" /\ first.target = "none" => first.row = RowOf(roles[m])
    /\ present' = [present EXCEPT ![m] = TRUE]
    /\ UNCHANGED <<roles, row>>

LEMMA SetTierType ==
    ASSUME NEW m \in Members, NEW tier \in Tiers
    PROVE  /\ SetTier(m, tier) \in Task
           /\ SetTier(m, tier).step = "current" /\ SetTier(m, tier).member = m
           /\ SetTier(m, tier).target = tier
<1>1. PICK none \in Task : none = NoTask
  BY NoTaskType
<1>2. SetTier(m, tier) = [none EXCEPT !.step = "current", !.member = m, !.target = tier]
  BY <1>1 DEF SetTier
<1> QED
  BY <1>2 DEF Task, TaskSteps

LEMMA StartKind ==
    ASSUME IInv, NEW t \in Tasks, NEW m \in Members,
           Join(t, m) \/ Verify(t, m) \/ Approve(t, m)
    PROVE  \E first : StartOn(t, m, first)
<1>1. ASSUME NEW tier \in {"user", "seller"}
      PROVE  /\ SetTier(m, tier) \in Task
             /\ SoundTask(SetTier(m, tier))
             /\ SetTier(m, tier).member = m
             /\ SetTier(m, tier).step = "current"
  <2>1. tier \in Tiers
    BY DEF Tiers
  <2> QED
    BY <2>1, SetTierType DEF Task, TaskSteps, SoundTask
<1>2. CASE Join(t, m)
  <2>1. StartOn(t, m, SetTier(m, "user"))
    BY <1>1, <1>2 DEF Join, StartOn
  <2> QED
    BY <2>1
<1>3. CASE Approve(t, m)
  <2>1. present = [present EXCEPT ![m] = TRUE]
    BY <1>3 DEF Approve, IInv, TypeOK
  <2>2. StartOn(t, m, SetTier(m, "seller"))
    BY <1>1, <1>3, <2>1 DEF Approve, StartOn, discord
  <2> QED
    BY <2>2
<1>4. CASE Verify(t, m)
  <2>1. present = [present EXCEPT ![m] = TRUE]
    BY <1>4 DEF Verify, IInv, TypeOK
  <2>2. PICK target, stored, first :
            /\ target = IF DecideVerification(roles[m]) = "verify" THEN "buyer" ELSE "none"
            /\ stored = VerifiedRow(roles[m])
            /\ first = [SetTier(m, target) EXCEPT !.step = "verify", !.row = stored]
    OBVIOUS
  <2>3. /\ stored \in GuildMember
        /\ target = "none" => stored = RowOf(roles[m])
    BY <1>4, <2>2, VerifiedRowType DEF Verify
  <2>4. target \in {"none", "buyer"} /\ target \in Tiers
    BY <2>2 DEF Tiers
  <2>5. /\ first \in Task
        /\ first.step = "verify" /\ first.member = m /\ first.target = target /\ first.row = stored
    <3>1. PICK start \in Task : start = SetTier(m, target)
      BY <2>4, SetTierType
    <3>2. start.member = m /\ start.target = target
      BY <2>4, <3>1, SetTierType
    <3>3. first = [start EXCEPT !.step = "verify", !.row = stored]
      BY <2>2, <3>1
    <3> QED
      BY <2>3, <3>2, <3>3 DEF Task, TaskSteps
  <2>6. first \in Task /\ SoundTask(first)
    BY <2>3, <2>4, <2>5, MembersAssumption DEF SoundTask
  <2>7. Start(t, m, first) /\ UNCHANGED <<discord, row>>
    BY <1>4, <2>2 DEF Verify
  <2>8. StartOn(t, m, first)
    BY <2>1, <2>3, <2>5, <2>6, <2>7 DEF StartOn, discord
  <2> QED
    BY <2>8
<1> QED
  BY <1>2, <1>3, <1>4

(* Something happens to a member by hand, and its row may be wrong then.   *)
ByHand(m, here, names, stored) ==
    /\ here \in BOOLEAN
    /\ names \in SUBSET RoleNames
    /\ stored \in GuildMember \cup {Null}
    /\ ~here => names = {}
    /\ row[m] # Null => stored # Null
    /\ present' = [present EXCEPT ![m] = here]
    /\ roles' = [roles EXCEPT ![m] = names]
    /\ row' = [row EXCEPT ![m] = stored]
    /\ drift' = drift \cup {m}
    /\ (exempt' = exempt /\ names = roles[m]) \/ exempt' = PutRight(m, names)
    /\ Touch(m)
    /\ UNCHANGED task

LEMMA HandKind ==
    ASSUME IInv, NEW m \in Members, Leave(m) \/ HandEdit(m) \/ ApiVerify(m)
    PROVE  \E here, names, stored : ByHand(m, here, names, stored)
<1>1. /\ present[m] \in BOOLEAN /\ roles[m] \in SUBSET RoleNames
      /\ row[m] \in GuildMember \cup {Null}
      /\ present = [present EXCEPT ![m] = @] /\ roles = [roles EXCEPT ![m] = @]
      /\ row = [row EXCEPT ![m] = @]
      /\ ~present[m] => roles[m] = {}
  BY DEF IInv, TypeOK, GoneWithoutRoles
<1>2. CASE Leave(m)
  <2>1. ByHand(m, FALSE, {}, row[m])
    BY <1>1, <1>2 DEF Leave, ByHand
  <2> QED
    BY <2>1
<1>3. CASE HandEdit(m)
  <2>1. PICK name \in HandRoles : \E names \in {roles[m] \cup {name}, roles[m] \ {name}} :
            roles' = [roles EXCEPT ![m] = names] /\ exempt' = PutRight(m, names)
    BY <1>3 DEF HandEdit
  <2>2. PICK names \in {roles[m] \cup {name}, roles[m] \ {name}} :
            roles' = [roles EXCEPT ![m] = names] /\ exempt' = PutRight(m, names)
    BY <2>1
  <2>3. names \in SUBSET RoleNames
    BY <1>1, <2>1, MembersAssumption
  <2>4. ByHand(m, TRUE, names, row[m])
    BY <1>1, <1>3, <2>2, <2>3 DEF HandEdit, ByHand
  <2> QED
    BY <2>4
<1>4. CASE ApiVerify(m)
  <2>1. PICK names \in SUBSET HandRoles : /\ DecideVerification(names) # "refuse"
                                          /\ row' = [row EXCEPT ![m] = VerifiedRow(names)]
    BY <1>4 DEF ApiVerify
  <2>2. DecideVerification(names) # "refuse"
    BY <2>1
  <2>3. PICK stored : stored = VerifiedRow(names)
    OBVIOUS
  <2>4. stored \in GuildMember /\ stored # Null
    BY <2>2, <2>3, VerifiedRowType, MembersAssumption
  <2>5. ByHand(m, present[m], roles[m], stored)
    BY <1>1, <1>4, <2>1, <2>3, <2>4 DEF ApiVerify, ByHand, discord
  <2> QED
    BY <2>5
<1> QED
  BY <1>2, <1>3, <1>4

(* A handler's next call: what it is at then, the roles its member has and *)
(* the row that is stored for it.                                          *)
ByHandler(t, next, names, stored) ==
    LET m == task[t].member
    IN  /\ task[t].step # "idle"
        /\ next \in Task /\ SoundTask(next)
        /\ next # NoTask => next.member = m /\ next.step # "idle"
        /\ names \in SUBSET RoleNames
        /\ stored \in GuildMember \cup {Null}
        /\ ~present[m] => names = {}
        /\ row[m] # Null => stored # Null
        /\ present' = present
        /\ roles' = [roles EXCEPT ![m] = names]
        /\ row' = [row EXCEPT ![m] = stored]
        /\ task' = [task EXCEPT ![t] = next]
        /\ drift \subseteq drift' /\ drift' \subseteq drift \cup {m}
        /\ exempt \subseteq exempt' /\ exempt' \subseteq exempt \cup {m}
        /\ Touch(m)

(* It keeps its member's tiers exclusive ... *)
KeepsGranting(t, next, names) ==
    task[t].member \notin exempt' /\ OneTier(roles[task[t].member]) /\ Granting(task[t])
    => OneTier(names) /\ (next # NoTask => Granting(next)')

(* ... and is on course to the row the roles call for, or has stored it. *)
KeepsCourse(t, next, names, stored) ==
    task[t].member \notin drift' /\ OnCourse(task[t])
    => IF next = NoTask THEN \/ MemberTier(names) = "conflict"
                             \/ stored = RowOf(names)
       ELSE OnCourse(next)'

HandlerOK(t) ==
    \E next, names, stored : /\ ByHandler(t, next, names, stored)
                             /\ KeepsGranting(t, next, names)
                             /\ KeepsCourse(t, next, names, stored)

(* What is known of a handler in flight.                                   *)
LEMMA HandlerFacts ==
    ASSUME IInv, NEW t \in Tasks, task[t].step # "idle"
    PROVE  /\ task[t] \in Task /\ task[t] # NoTask /\ SoundTask(task[t])
           /\ task[t].member \in Members
           /\ present[task[t].member] \in BOOLEAN
           /\ roles[task[t].member] \in SUBSET RoleNames
           /\ row[task[t].member] \in GuildMember \cup {Null}
           /\ present = [present EXCEPT ![task[t].member] = @]
           /\ roles = [roles EXCEPT ![task[t].member] = @]
           /\ row = [row EXCEPT ![task[t].member] = @]
           /\ ~present[task[t].member] => roles[task[t].member] = {}
BY DEF IInv, TypeOK, HandlersSound, GoneWithoutRoles, SoundTask, NoTask

(* VerifyUpsert: the last step when nothing is granted.                    *)
LEMMA VerifyUpsertKind ==
    ASSUME IInv, NEW t \in Tasks, VerifyUpsert(t)
    PROVE  HandlerOK(t)
<1>1. PICK m \in Members : m = task[t].member
  BY HandlerFacts DEF VerifyUpsert
<1>2. /\ task[t].step = "verify" /\ task[t].row \in GuildMember
      /\ task[t].target \in {"none", "buyer"} /\ task[t].target \in Tiers
  BY HandlerFacts DEF VerifyUpsert, SoundTask, Task
<1>3. PICK next : next = IF task[t].target = "none" THEN NoTask ELSE SetTier(m, task[t].target)
  OBVIOUS
<1>4. /\ next \in Task /\ SoundTask(next)
      /\ task[t].target # "none" => next.member = m /\ next.step = "current"
  BY <1>2, <1>3, SetTierType, NoTaskType DEF SoundTask
<1>5. ByHandler(t, next, roles[m], task[t].row)
  <2>1. task' = [task EXCEPT ![t] = next] /\ row' = [row EXCEPT ![m] = task[t].row]
    BY <1>1, <1>3 DEF VerifyUpsert
  <2>2. next # NoTask => next.member = m /\ next.step # "idle"
    BY <1>3, <1>4
  <2>3. task[t].row # Null
    BY <1>2, MembersAssumption
  <2>4. /\ present' = present /\ roles' = [roles EXCEPT ![m] = @]
        /\ drift' = drift /\ exempt' = exempt /\ Touch(m)
    BY <1>1, <1>2, HandlerFacts DEF VerifyUpsert, discord
  <2> QED
    BY <1>1, <1>2, <1>4, <2>1, <2>2, <2>3, <2>4, HandlerFacts DEF ByHandler
<1>6. task[t].target = "none" <=> next = NoTask
  BY <1>3, <1>4 DEF NoTask
<1>7. KeepsGranting(t, next, roles[m])
  BY <1>1, <1>4, <1>6 DEF KeepsGranting, Granting
<1>8. KeepsCourse(t, next, roles[m], task[t].row)
  <2>1. present' = present
    BY DEF VerifyUpsert, discord
  <2> QED
    BY <1>1, <1>2, <1>4, <1>6, <2>1 DEF KeepsCourse, OnCourse
<1> QED
  BY <1>5, <1>7, <1>8 DEF HandlerOK

(* Current: every member role but the target is to be removed.             *)
LEMMA CurrentKind ==
    ASSUME IInv, NEW t \in Tasks, Current(t)
    PROVE  HandlerOK(t)
<1>1. PICK m \in Members : m = task[t].member
  BY HandlerFacts DEF Current
<1>2. task[t].step = "current" /\ task[t] \in Task /\ SoundTask(task[t])
  BY HandlerFacts DEF Current
<1>3. PICK remove, next : /\ remove = ExclusiveGrant(roles[m], task[t].target)
                          /\ next = [task[t] EXCEPT !.step = "remove", !.remove = remove]
  OBVIOUS
<1>4. /\ next \in Task /\ next.step = "remove" /\ next.member = m
      /\ next.target = task[t].target /\ next.remove = remove
  BY <1>1, <1>2, <1>3, ExclusiveGrantType DEF Task, TaskSteps
<1>5. SoundTask(next) /\ next # NoTask
  BY <1>2, <1>4 DEF SoundTask, NoTask
<1>6. task' = [task EXCEPT ![t] = next]
  BY <1>1, <1>3 DEF Current
<1>7. ByHandler(t, next, roles[m], row[m])
  BY <1>1, <1>2, <1>4, <1>5, <1>6, HandlerFacts DEF Current, ByHandler, discord
<1>8. UNCHANGED <<present, roles>>
  BY DEF Current, discord
<1>9. KeepsGranting(t, next, roles[m])
  BY <1>1, <1>3, <1>4, <1>8, ExclusiveGrantType DEF KeepsGranting, Granting
<1>10. KeepsCourse(t, next, roles[m], row[m])
  BY <1>1, <1>4, <1>5, <1>8 DEF KeepsCourse, OnCourse
<1> QED
  BY <1>7, <1>9, <1>10 DEF HandlerOK

(* RemoveRole: one role less to remove, or a failure that goes unnoticed.  *)
LEMMA RemoveRoleKind ==
    ASSUME IInv, NEW t \in Tasks, RemoveRole(t)
    PROVE  HandlerOK(t)
<1>1. PICK m \in Members : m = task[t].member
  BY HandlerFacts DEF RemoveRole
<1>2. task[t].step = "remove" /\ task[t] \in Task /\ SoundTask(task[t])
  BY HandlerFacts DEF RemoveRole
<1>3. PICK name \in task[t].remove :
            /\ task' = [task EXCEPT ![t].remove = @ \ {name}]
            /\ \/ /\ roles' = [roles EXCEPT ![m] = @ \ {name}]
                  /\ UNCHANGED exempt
               \/ /\ exempt' = exempt \cup {m}
                  /\ UNCHANGED roles
  BY <1>1 DEF RemoveRole
<1>4. PICK next : next = [task[t] EXCEPT !.remove = @ \ {name}]
  OBVIOUS
<1>5. /\ next \in Task /\ next.step = "remove" /\ next.member = m
      /\ next.target = task[t].target /\ next.remove = task[t].remove \ {name}
  BY <1>1, <1>2, <1>4 DEF Task, TaskSteps
<1>6. SoundTask(next) /\ next # NoTask
  BY <1>2, <1>5 DEF SoundTask, NoTask
<1>7. PICK names : /\ names \in {roles[m], roles[m] \ {name}}
                   /\ roles' = [roles EXCEPT ![m] = names]
                   /\ names = roles[m] => exempt' = exempt \cup {m} \/ name \notin roles[m]
                   /\ exempt' \in {exempt, exempt \cup {m}}
  BY <1>1, <1>2, <1>3, HandlerFacts
<1>8. task' = [task EXCEPT ![t] = next]
  BY <1>3, <1>4
<1>9. ByHandler(t, next, names, row[m])
  BY <1>1, <1>2, <1>5, <1>6, <1>7, <1>8, HandlerFacts DEF RemoveRole, ByHandler
<1>10. KeepsGranting(t, next, names)
  <2>1. roles'[m] = names
    BY <1>7 DEF IInv, TypeOK
  <2>2. m \notin exempt' => names = roles[m] \ {name}
    BY <1>7
  <2> QED
    BY <1>1, <1>2, <1>5, <2>1, <2>2 DEF KeepsGranting, Granting, OneTier
<1>11. KeepsCourse(t, next, names, row[m])
  <2>1. present' = present
    BY DEF RemoveRole
  <2> QED
    BY <1>1, <1>2, <1>5, <1>6, <2>1 DEF KeepsCourse, OnCourse
<1> QED
  BY <1>9, <1>10, <1>11 DEF HandlerOK

(* AddRole: nothing but the target is left.                                *)
LEMMA AddRoleKind ==
    ASSUME IInv, NEW t \in Tasks, AddRole(t)
    PROVE  HandlerOK(t)
<1>1. PICK m \in Members : m = task[t].member
  BY HandlerFacts DEF AddRole
<1>2. /\ task[t].step = "remove" /\ task[t].remove = {} /\ task[t] \in Task
      /\ SoundTask(task[t]) /\ present[m]
  BY <1>1, HandlerFacts DEF AddRole
<1>3. PICK target, next, names :
            /\ target = MemberRole(task[t].target)
            /\ next = [task[t] EXCEPT !.step = "read"]
            /\ names = roles[m] \cup {target}
  OBVIOUS
<1>4. target \in MemberRoleNames /\ target \in RoleNames
  BY <1>2, <1>3, MemberRoleType DEF SoundTask, Task, RoleNames
<1>5. /\ next \in Task /\ next.step = "read" /\ next.member = m
      /\ next.target = task[t].target
  BY <1>1, <1>2, <1>3 DEF Task, TaskSteps
<1>6. SoundTask(next) /\ next # NoTask
  BY <1>2, <1>5 DEF SoundTask, NoTask
<1>7. task' = [task EXCEPT ![t] = next] /\ roles' = [roles EXCEPT ![m] = names]
  BY <1>1, <1>3 DEF AddRole
<1>8. ByHandler(t, next, names, row[m])
  BY <1>1, <1>2, <1>3, <1>4, <1>5, <1>6, <1>7, HandlerFacts DEF AddRole, ByHandler
<1>9. roles'[m] = names /\ present' = present
  BY <1>7 DEF AddRole, IInv, TypeOK
<1>10. KeepsGranting(t, next, names)
  BY <1>1, <1>2, <1>3, <1>5, <1>9 DEF KeepsGranting, Granting, OneTier
<1>11. KeepsCourse(t, next, names, row[m])
  BY <1>1, <1>2, <1>3, <1>5, <1>6, <1>9 DEF KeepsCourse, OnCourse
<1> QED
  BY <1>8, <1>10, <1>11 DEF HandlerOK

(* Read: the row to be stored takes the restriction from the roles.        *)
LEMMA ReadKind ==
    ASSUME IInv, NEW t \in Tasks, Read(t)
    PROVE  HandlerOK(t)
<1>1. PICK m \in Members : m = task[t].member
  BY HandlerFacts DEF Read
<1>2. task[t].step = "read" /\ task[t] \in Task /\ SoundTask(task[t]) /\ present[m]
  BY <1>1, HandlerFacts DEF Read
<1>3. PICK stored, next :
            /\ stored = [tier |-> task[t].target, restricted |-> Restricted(roles[m])]
            /\ next = [task[t] EXCEPT !.step = "upsert", !.row = stored]
  OBVIOUS
<1>4. stored \in GuildMember /\ stored # Null
  <2>1. task[t].target \in Tiers /\ Restricted(roles[m]) \in BOOLEAN
    BY <1>2 DEF Task, Restricted
  <2>2. stored \in GuildMember
    BY <1>3, <2>1 DEF GuildMember
  <2> QED
    BY <2>2, MembersAssumption
<1>5. /\ next \in Task /\ next.step = "upsert" /\ next.member = m
      /\ next.target = task[t].target /\ next.row = stored
  BY <1>1, <1>2, <1>3, <1>4 DEF Task, TaskSteps
<1>6. SoundTask(next) /\ next # NoTask
  BY <1>2, <1>4, <1>5 DEF SoundTask, NoTask
<1>7. task' = [task EXCEPT ![t] = next]
  BY <1>1, <1>3 DEF Read
<1>8. ByHandler(t, next, roles[m], row[m])
  BY <1>1, <1>2, <1>5, <1>6, <1>7, HandlerFacts DEF Read, ByHandler, discord
<1>9. UNCHANGED <<present, roles>>
  BY DEF Read, discord
<1>10. KeepsGranting(t, next, roles[m])
  BY <1>1, <1>2, <1>5, <1>9 DEF KeepsGranting, Granting
<1>11. KeepsCourse(t, next, roles[m], row[m])
  BY <1>1, <1>2, <1>3, <1>5, <1>6, <1>9 DEF KeepsCourse, OnCourse
<1> QED
  BY <1>8, <1>10, <1>11 DEF HandlerOK

(* Upsert: the granted tier is stored.                                     *)
LEMMA UpsertKind ==
    ASSUME IInv, NEW t \in Tasks, Upsert(t)
    PROVE  HandlerOK(t)
<1>1. PICK m \in Members : m = task[t].member
  BY HandlerFacts DEF Upsert
<1>2. task[t].step = "upsert" /\ task[t] \in Task /\ SoundTask(task[t])
  BY HandlerFacts DEF Upsert
<1>3. task[t].row # Null /\ task[t].row \in GuildMember \cup {Null}
  BY <1>2 DEF SoundTask, Task
<1>4. row' = [row EXCEPT ![m] = task[t].row]
  BY <1>1 DEF Upsert
<1>5. ByHandler(t, NoTask, roles[m], task[t].row)
  <2>1. /\ present' = present /\ roles' = [roles EXCEPT ![m] = @]
        /\ task' = [task EXCEPT ![t] = NoTask]
        /\ drift' = drift /\ exempt' = exempt /\ Touch(m)
    BY <1>1, <1>2, HandlerFacts DEF Upsert, discord
  <2> QED
    BY <1>1, <1>2, <1>3, <1>4, <2>1, NoTaskType, HandlerFacts DEF ByHandler
<1>6. KeepsGranting(t, NoTask, roles[m])
  BY <1>1 DEF KeepsGranting
<1>7. KeepsCourse(t, NoTask, roles[m], task[t].row)
  <2>1. ASSUME OnCourse(task[t])
        PROVE  MemberTier(roles[m]) = "conflict" \/ task[t].row = RowOf(roles[m])
    <3>1. MemberTier(roles[m]) \in {task[t].target, "conflict"}
      BY <1>1, <1>2, <2>1, HeldTier DEF OnCourse, SoundTask, Task
    <3> QED
      BY <1>1, <1>2, <2>1, <3>1 DEF OnCourse, RowOf
  <2> QED
    BY <1>1, <2>1 DEF KeepsCourse
<1> QED
  BY <1>5, <1>6, <1>7 DEF HandlerOK

(* Fail: the handler gives up, and the row may be wrong from then on.      *)
LEMMA FailKind ==
    ASSUME IInv, NEW t \in Tasks, Fail(t)
    PROVE  HandlerOK(t)
<1>1. PICK m \in Members : m = task[t].member
  BY HandlerFacts DEF Fail
<1>2. ByHandler(t, NoTask, roles[m], row[m])
  <2>1. task[t].step # "idle"
    BY DEF Fail
  <2>2. /\ present' = present /\ roles' = [roles EXCEPT ![m] = @] /\ row' = [row EXCEPT ![m] = @]
        /\ task' = [task EXCEPT ![t] = NoTask] /\ drift' = drift \cup {m}
        /\ exempt' = exempt /\ Touch(m)
    BY <1>1, <2>1, HandlerFacts DEF Fail, discord
  <2> QED
    BY <1>1, <2>1, <2>2, NoTaskType, HandlerFacts DEF ByHandler
<1>3. KeepsGranting(t, NoTask, roles[m]) /\ KeepsCourse(t, NoTask, roles[m], row[m])
  BY <1>1 DEF Fail, KeepsGranting, KeepsCourse
<1> QED
  BY <1>2, <1>3 DEF HandlerOK

LEMMA HandlerKind ==
    ASSUME IInv, NEW t \in Tasks, TaskStep(t)
    PROVE  HandlerOK(t)
BY VerifyUpsertKind, CurrentKind, RemoveRoleKind, AddRoleKind, ReadKind, UpsertKind, FailKind
   DEF TaskStep

-----------------------------------------------------------------------------
(* The steps about one member, and the parts of the invariant but for the  *)
(* reconciliation's.                                                       *)

(* The parts of the invariant that speak of handlers, roles and rows.      *)
HandlersInv == /\ TypeOK
               /\ HandlersSound
               /\ GoneWithoutRoles
               /\ OneHandler
               /\ HeldExclusively
               /\ HandlersGranting
               /\ HandlersOnCourse
               /\ StoredTierAgrees

LEMMA StartStep ==
    ASSUME IInv, NEW t \in Tasks, NEW m \in Members, NEW first, StartOn(t, m, first)
    PROVE  HandlersInv'
<1>1. /\ task[t] = NoTask /\ task' = [task EXCEPT ![t] = first]
      /\ task'[t] = first /\ \A u \in Tasks : u # t => task'[u] = task[u]
  BY DEF StartOn, Start, IInv, TypeOK
<1>2. /\ present' = [present EXCEPT ![m] = TRUE]
      /\ present'[m] /\ \A x \in Members : x # m => present'[x] = present[x]
  BY DEF StartOn, IInv, TypeOK
<1>3. roles' = roles /\ row' = row /\ sync' \in Sync
  BY TouchStep DEF StartOn, Start, IInv, TypeOK
<1>4. /\ first \in Task /\ SoundTask(first) /\ first.member = m
      /\ first.step \in {"verify", "current"}
      /\ first.step = "verify" /\ first.target = "none" => first.row = RowOf(roles[m])
  BY DEF StartOn
<1>5. /\ drift \subseteq drift' /\ drift' \subseteq drift \cup {m}
      /\ exempt \subseteq exempt' /\ exempt' \subseteq exempt \cup {m}
      /\ m \notin drift' \cap exempt' => ~Busy(m)
  BY DEF StartOn, Start
<1>6. \A x \in Members : x # m => (Busy(x)' <=> Busy(x))
  BY <1>1, <1>4, NoTaskType, MembersAssumption DEF Busy
<1>7. TypeOK'
  BY <1>1, <1>2, <1>3, <1>4, <1>5 DEF IInv, TypeOK
<1>8. HandlersSound'
  BY <1>1, <1>4 DEF IInv, HandlersSound, SoundTask
<1>9. GoneWithoutRoles'
  BY <1>2, <1>3 DEF IInv, GoneWithoutRoles
<1>10. OneHandler'
  <2> SUFFICES ASSUME NEW x \in Members, x \notin drift' \cap exempt'
               PROVE  Alone(x)'
    BY DEF OneHandler
  <2>1. CASE x = m
    BY <1>1, <1>5, <2>1 DEF Alone, Busy
  <2>2. CASE x # m
    <3>1. Alone(x)
      BY <1>5 DEF IInv, OneHandler
    <3> QED
      BY <1>1, <1>4, <2>2, <3>1 DEF Alone
  <2> QED
    BY <2>1, <2>2
<1>11. HeldExclusively'
  BY <1>3, <1>5 DEF IInv, HeldExclusively, OneTier
<1>12. HandlersGranting'
  <2> SUFFICES ASSUME NEW u \in Tasks, task'[u].step # "idle", task'[u].member \notin exempt'
               PROVE  Granting(task[u])'
    BY DEF HandlersGranting
  <2>1. CASE u = t
    BY <1>1, <1>4, <2>1 DEF Granting
  <2>2. CASE u # t
    BY <1>1, <1>3, <1>5, <2>2 DEF IInv, HandlersGranting, Granting
  <2> QED
    BY <2>1, <2>2
<1>13. HandlersOnCourse'
  <2> SUFFICES ASSUME NEW u \in Tasks, task'[u].step # "idle", task'[u].member \notin drift'
               PROVE  OnCourse(task[u])'
    BY DEF HandlersOnCourse
  <2>1. CASE u = t
    BY <1>1, <1>2, <1>3, <1>4, <2>1 DEF OnCourse
  <2>2. CASE u # t
    <3>1. OnCourse(task[u]) /\ task'[u] = task[u]
      BY <1>1, <1>5, <2>2 DEF IInv, HandlersOnCourse
    <3>2. task[u].member \in Members
      BY <3>1 DEF IInv, HandlersSound, SoundTask
    <3> QED
      BY <1>2, <1>3, <3>1, <3>2 DEF OnCourse
  <2> QED
    BY <2>1, <2>2
<1>14. StoredTierAgrees'
  <2> SUFFICES ASSUME NEW x \in Members, x \notin drift', ~Busy(x)'
               PROVE  Agrees(x)'
    BY DEF StoredTierAgrees
  <2>1. x # m
    BY <1>1, <1>4 DEF Busy
  <2>2. Agrees(x)
    BY <1>5, <1>6, <2>1 DEF IInv, StoredTierAgrees
  <2> QED
    BY <1>2, <1>3, <2>1, <2>2 DEF Agrees
<1> QED
  BY <1>7, <1>8, <1>9, <1>10, <1>11, <1>12, <1>13, <1>14 DEF HandlersInv

LEMMA HandStep ==
    ASSUME IInv, NEW m \in Members, NEW here, NEW names, NEW stored,
           ByHand(m, here, names, stored)
    PROVE  HandlersInv'
<1>1. /\ present' = [present EXCEPT ![m] = here] /\ roles' = [roles EXCEPT ![m] = names]
      /\ row' = [row EXCEPT ![m] = stored]
      /\ task' = task /\ drift' = drift \cup {m} /\ sync' \in Sync
  BY TouchStep DEF ByHand, IInv, TypeOK
<1>2. /\ present'[m] = here /\ roles'[m] = names
      /\ \A x \in Members : x # m =>
            present'[x] = present[x] /\ roles'[x] = roles[x] /\ row'[x] = row[x]
  BY <1>1 DEF IInv, TypeOK
<1>3. /\ here \in BOOLEAN /\ names \in SUBSET RoleNames /\ stored \in GuildMember \cup {Null}
      /\ ~here => names = {}
  BY DEF ByHand
<1>4. /\ exempt' \subseteq exempt \cup {m} /\ exempt \ {m} \subseteq exempt'
      /\ m \notin exempt' => \/ OneTier(names) /\ ~Busy(m)
                            \/ /\ m \notin exempt
                               /\ names \cap MemberRoleNames \subseteq roles[m]
  BY DEF ByHand, PutRight
<1>5. TypeOK'
  BY <1>1, <1>3, <1>4 DEF IInv, TypeOK
<1>6. HandlersSound'
  BY <1>1 DEF IInv, HandlersSound, SoundTask
<1>7. GoneWithoutRoles'
  BY <1>2, <1>3 DEF IInv, GoneWithoutRoles
<1>8. OneHandler'
  <2> SUFFICES ASSUME NEW x \in Members, x \notin drift' \cap exempt'
               PROVE  Alone(x)
    BY <1>1 DEF OneHandler, Alone
  <2>1. CASE x = m
    <3>1. ~Busy(m) \/ m \notin exempt
      BY <1>1, <1>4, <2>1
    <3> QED
      BY <2>1, <3>1 DEF IInv, OneHandler, Busy, Alone
  <2>2. CASE x # m
    BY <1>1, <1>4, <2>2 DEF IInv, OneHandler
  <2> QED
    BY <2>1, <2>2
<1>9. HeldExclusively'
  <2> SUFFICES ASSUME NEW x \in Members, x \notin exempt'
               PROVE  OneTier(roles'[x])
    BY DEF HeldExclusively, OneTier
  <2>1. CASE x = m
    BY <1>2, <1>4, <2>1 DEF IInv, HeldExclusively, OneTier
  <2>2. CASE x # m
    BY <1>2, <1>4, <2>2 DEF IInv, HeldExclusively
  <2> QED
    BY <2>1, <2>2
<1>10. HandlersGranting'
  <2> SUFFICES ASSUME NEW u \in Tasks, task'[u].step # "idle", task'[u].member \notin exempt'
               PROVE  Granting(task[u])'
    BY DEF HandlersGranting
  <2>1. task'[u] = task[u] /\ task[u].member \in Members /\ Busy(task[u].member)
    BY <1>1 DEF IInv, HandlersSound, SoundTask, Busy
  <2>2. task[u].member \notin exempt
    BY <1>4, <2>1
  <2>3. roles'[task[u].member] \cap MemberRoleNames \subseteq roles[task[u].member]
    BY <1>2, <1>4, <2>1
  <2>4. Granting(task[u])
    BY <1>1, <2>2 DEF IInv, HandlersGranting
  <2> QED
    BY <2>1, <2>3, <2>4 DEF Granting
<1>11. HandlersOnCourse'
  <2> SUFFICES ASSUME NEW u \in Tasks, task'[u].step # "idle", task'[u].member \notin drift'
               PROVE  OnCourse(task[u])'
    BY DEF HandlersOnCourse
  <2>1. task'[u] = task[u] /\ OnCourse(task[u]) /\ task[u].member \in Members \ {m}
    BY <1>1 DEF IInv, HandlersOnCourse, HandlersSound, SoundTask
  <2> QED
    BY <1>2, <2>1 DEF OnCourse
<1>12. StoredTierAgrees'
  <2> SUFFICES ASSUME NEW x \in Members, x \notin drift', ~Busy(x)'
               PROVE  Agrees(x)'
    BY DEF StoredTierAgrees
  <2>1. x # m /\ Agrees(x)
    BY <1>1 DEF IInv, StoredTierAgrees, Busy
  <2> QED
    BY <1>2, <2>1 DEF Agrees
<1> QED
  BY <1>5, <1>6, <1>7, <1>8, <1>9, <1>10, <1>11, <1>12 DEF HandlersInv

LEMMA HandlerStep ==
    ASSUME IInv, NEW t \in Tasks, NEW next, NEW names, NEW stored,
           ByHandler(t, next, names, stored), KeepsGranting(t, next, names),
           KeepsCourse(t, next, names, stored)
    PROVE  HandlersInv'
<1>1. PICK m \in Members : m = task[t].member
  BY HandlerFacts DEF ByHandler
<1>2. /\ task[t].step # "idle" /\ next \in Task /\ SoundTask(next)
      /\ next # NoTask => next.member = m /\ next.step # "idle"
      /\ names \in SUBSET RoleNames /\ stored \in GuildMember \cup {Null}
      /\ ~present[m] => names = {}
  BY <1>1 DEF ByHandler
<1>3. /\ present' = present /\ roles' = [roles EXCEPT ![m] = names]
      /\ row' = [row EXCEPT ![m] = stored] /\ task' = [task EXCEPT ![t] = next]
      /\ drift \subseteq drift' /\ drift' \subseteq drift \cup {m}
      /\ exempt \subseteq exempt' /\ exempt' \subseteq exempt \cup {m}
      /\ sync' \in Sync
  BY <1>1, TouchStep DEF ByHandler, IInv, TypeOK
<1>4. /\ roles'[m] = names /\ row'[m] = stored
      /\ \A x \in Members : x # m => roles'[x] = roles[x] /\ row'[x] = row[x]
      /\ task'[t] = next /\ \A u \in Tasks : u # t => task'[u] = task[u]
  BY <1>3 DEF IInv, TypeOK
<1>5. TypeOK'
  BY <1>2, <1>3 DEF IInv, TypeOK
<1>6. HandlersSound'
  BY <1>2, <1>4 DEF IInv, HandlersSound, SoundTask
<1>7. GoneWithoutRoles'
  BY <1>2, <1>3, <1>4 DEF IInv, GoneWithoutRoles
<1>8. NoTask.step = "idle" /\ NoTask.member = Null /\ \A x \in Members : x # Null
  BY NoTaskType, MembersAssumption DEF NoTask
<1>9. \A u \in Tasks, x \in Members : task'[u].member = x => task[u].member = x
  BY <1>1, <1>2, <1>4, <1>8
<1>10. OneHandler'
  <2> SUFFICES ASSUME NEW x \in Members, x \notin drift' \cap exempt'
               PROVE  Alone(x)'
    BY DEF OneHandler
  <2>1. Alone(x)
    BY <1>3 DEF IInv, OneHandler
  <2> QED
    BY <1>9, <2>1 DEF Alone
<1>11. ASSUME NEW u \in Tasks, u # t, task'[u].step # "idle",
              task'[u].member \notin drift' \cap exempt'
       PROVE  task'[u] = task[u] /\ task[u].member \in Members \ {m}
  <2>1. task'[u] = task[u] /\ task[u].member \in Members
    BY <1>4, <1>11 DEF IInv, HandlersSound, SoundTask
  <2>2. Alone(task[u].member)
    BY <1>3, <1>11, <2>1 DEF IInv, OneHandler
  <2> QED
    BY <1>1, <1>11, <2>1, <2>2 DEF Alone
<1>12. HeldExclusively'
  <2> SUFFICES ASSUME NEW x \in Members, x \notin exempt'
               PROVE  OneTier(roles'[x])
    BY DEF HeldExclusively, OneTier
  <2>1. OneTier(roles[x])
    BY <1>3 DEF IInv, HeldExclusively
  <2>2. CASE x = m
    <3>1. Granting(task[t])
      BY <1>1, <1>2, <1>3, <2>2 DEF IInv, HandlersGranting
    <3> QED
      BY <1>1, <1>4, <2>1, <2>2, <3>1 DEF KeepsGranting
  <2>3. CASE x # m
    BY <1>4, <2>1, <2>3
  <2> QED
    BY <2>2, <2>3
<1>13. HandlersGranting'
  <2> SUFFICES ASSUME NEW u \in Tasks, task'[u].step # "idle", task'[u].member \notin exempt'
               PROVE  Granting(task[u])'
    BY DEF HandlersGranting
  <2>1. CASE u = t
    <3>1. next # NoTask /\ m \notin exempt'
      BY <1>2, <1>4, <1>8, <2>1
    <3>2. Granting(task[t]) /\ OneTier(roles[m])
      BY <1>1, <1>2, <1>3, <3>1 DEF IInv, HandlersGranting, HeldExclusively
    <3>3. Granting(next)'
      BY <1>1, <3>1, <3>2 DEF KeepsGranting
    <3> QED
      BY <1>4, <2>1, <3>3 DEF Granting
  <2>2. CASE u # t
    <3>1. task'[u] = task[u] /\ task[u].member \in Members \ {m}
      BY <1>11, <2>2
    <3> QED
      BY <1>3, <1>4, <3>1 DEF IInv, HandlersGranting, Granting
  <2> QED
    BY <2>1, <2>2
<1>14. HandlersOnCourse'
  <2> SUFFICES ASSUME NEW u \in Tasks, task'[u].step # "idle", task'[u].member \notin drift'
               PROVE  OnCourse(task[u])'
    BY DEF HandlersOnCourse
  <2>1. CASE u = t
    <3>1. next # NoTask /\ m \notin drift'
      BY <1>2, <1>4, <1>8, <2>1
    <3>2. OnCourse(task[t])
      BY <1>1, <1>2, <1>3, <3>1 DEF IInv, HandlersOnCourse
    <3>3. OnCourse(next)'
      BY <1>1, <3>1, <3>2 DEF KeepsCourse
    <3> QED
      BY <1>4, <2>1, <3>3 DEF OnCourse
  <2>2. CASE u # t
    <3>1. task'[u] = task[u] /\ task[u].member \in Members \ {m}
      BY <1>11, <2>2
    <3> QED
      BY <1>3, <1>4, <3>1 DEF IInv, HandlersOnCourse, OnCourse
  <2> QED
    BY <2>1, <2>2
<1>15. StoredTierAgrees'
  <2> SUFFICES ASSUME NEW x \in Members, x \notin drift', ~Busy(x)'
               PROVE  Agrees(x)'
    BY DEF StoredTierAgrees
  <2>1. CASE x = m
    <3>1. next = NoTask
      BY <1>2, <1>4, <2>1 DEF Busy
    <3>2. OnCourse(task[t])
      BY <1>1, <1>2, <1>3, <2>1 DEF IInv, HandlersOnCourse
    <3>3. MemberTier(names) = "conflict" \/ stored = RowOf(names)
      BY <1>1, <2>1, <3>1, <3>2 DEF KeepsCourse
    <3> QED
      BY <1>1, <1>3, <1>4, <2>1, <3>2, <3>3 DEF Agrees, OnCourse
  <2>2. CASE x # m
    <3>1. ~Busy(x)
      <4> SUFFICES ASSUME NEW u \in Tasks, task[u].member = x
                   PROVE  task'[u].member = x
        BY DEF Busy
      <4> QED
        BY <1>1, <1>4, <2>2
    <3>2. Agrees(x)
      BY <1>3, <3>1 DEF IInv, StoredTierAgrees
    <3> QED
      BY <1>3, <1>4, <2>2, <3>2 DEF Agrees
  <2> QED
    BY <2>1, <2>2
<1> QED
  BY <1>5, <1>6, <1>7, <1>10, <1>12, <1>13, <1>14, <1>15 DEF HandlersInv

-----------------------------------------------------------------------------
(* The reconciliation. *)

(* A step about m leaves what the reconciliation knows of the others true. *)
LEMMA UndisturbedStep ==
    ASSUME IInv, NEW m \in Members, Touch(m),
           \A x \in Members \ {m} : /\ present'[x] = present[x]
                                    /\ roles'[x] = roles[x]
                                    /\ row'[x] = row[x]
                                    /\ Busy(x)' => Busy(x)
    PROVE  SyncInv'
<1>1. CASE sync.step = "idle"
  <2>1. sync' = sync
    BY <1>1 DEF Touch
  <2> QED
    BY <1>1, <2>1 DEF SyncInv
<1>2. CASE sync.step # "idle"
  <2>1. /\ sync'.step = sync.step /\ sync'.stored = sync.stored
        /\ sync'.repairs = sync.repairs /\ sync'.prune = sync.prune
        /\ sync'.touched = sync.touched \cup {m}
    BY <1>2, TouchStep DEF IInv, TypeOK
  <2>2. (sync.step = "prune" => sync.repairs = NoRows)'
    BY <2>1 DEF IInv, SyncInv, NoRows
  <2>3. ASSUME NEW x \in Members \ sync'.touched
        PROVE  InSync(x)'
    <3>1. x # m /\ InSync(x)
      BY <1>2, <2>1, <2>3 DEF IInv, SyncInv
    <3> QED
      BY <2>1, <3>1 DEF InSync, Agrees
  <2> QED
    BY <2>2, <2>3 DEF SyncInv
<1> QED
  BY <1>1, <1>2

(* The steps that write no row and keep what may be wrong as it is.        *)
LEMMA SameHandlers ==
    ASSUME IInv, sync' \in Sync, UNCHANGED <<present, roles, row, task, drift, exempt>>
    PROVE  HandlersInv'
<1>1. TypeOK' /\ HandlersSound' /\ GoneWithoutRoles'
  BY DEF IInv, TypeOK, HandlersSound, SoundTask, GoneWithoutRoles
<1>2. OneHandler' /\ HeldExclusively'
  BY DEF IInv, OneHandler, Alone, HeldExclusively, OneTier
<1>3. HandlersGranting' /\ HandlersOnCourse'
  BY DEF IInv, HandlersGranting, Granting, HandlersOnCourse, OnCourse
<1>4. StoredTierAgrees'
  BY DEF IInv, StoredTierAgrees, Busy, Agrees
<1> QED
  BY <1>1, <1>2, <1>3, <1>4 DEF HandlersInv

(* A row is repaired or pruned: of a member nothing happened to, rightly.  *)
LEMMA SyncWrites ==
    ASSUME IInv, NEW m \in Members, NEW stored \in GuildMember \cup {Null}, sync' \in Sync,
           row' = [row EXCEPT ![m] = stored],
           drift' = IF m \in sync.touched THEN drift \cup {m} ELSE drift,
           UNCHANGED <<present, roles, task, exempt>>,
           m \notin sync.touched => Agrees(m)'
    PROVE  HandlersInv'
<1>1. /\ drift \subseteq drift' /\ m \in sync.touched => m \in drift'
      /\ drift' \subseteq Members
      /\ \A x \in Members : x # m => row'[x] = row[x]
  BY DEF IInv, TypeOK
<1>2. TypeOK' /\ HandlersSound' /\ GoneWithoutRoles'
  BY <1>1 DEF IInv, TypeOK, HandlersSound, SoundTask, GoneWithoutRoles
<1>3. OneHandler' /\ HeldExclusively'
  BY <1>1 DEF IInv, OneHandler, Alone, HeldExclusively, OneTier
<1>4. HandlersGranting' /\ HandlersOnCourse'
  BY <1>1 DEF IInv, HandlersGranting, Granting, HandlersOnCourse, OnCourse
<1>5. StoredTierAgrees'
  <2> SUFFICES ASSUME NEW x \in Members, x \notin drift', ~Busy(x)'
               PROVE  Agrees(x)'
    BY DEF StoredTierAgrees
  <2>1. CASE x = m
    BY <1>1, <2>1
  <2>2. CASE x # m
    <3>1. Agrees(x)
      BY <1>1 DEF IInv, StoredTierAgrees, Busy
    <3> QED
      BY <1>1, <2>2, <3>1 DEF Agrees
  <2> QED
    BY <2>1, <2>2
<1> QED
  BY <1>2, <1>3, <1>4, <1>5 DEF HandlersInv

LEMMA NoRowsType == NoRows \in [Members -> GuildMember \cup {Null}] /\ NoSync \in Sync
BY DEF NoRows, NoSync, Sync

LEMMA SyncListStep ==
    ASSUME IInv, SyncList
    PROVE  HandlersInv' /\ SyncInv'
<1>1. PICK none \in Sync, busy \in SUBSET Members :
            none = NoSync /\ busy = {m \in Members : Busy(m)}
  BY NoRowsType
<1>2. sync' = [none EXCEPT !.step = "members", !.stored = row, !.touched = busy]
  BY <1>1 DEF SyncList
<1>3. /\ sync' \in Sync
      /\ sync'.step = "members" /\ sync'.stored = row /\ sync'.touched = busy
  BY <1>2 DEF Sync, IInv, TypeOK
<1>4. UNCHANGED <<present, roles, row, task, drift, exempt>>
  BY DEF SyncList, discord
<1>5. SyncInv'
  <2>1. ASSUME NEW m \in Members \ busy
        PROVE  InSync(m)'
    BY <1>1, <1>3, <1>4, <2>1 DEF InSync, Busy
  <2> QED
    BY <1>3, <2>1 DEF SyncInv
<1> QED
  BY <1>3, <1>4, <1>5, SameHandlers

(* The plan made from the rows and the members listed is right for every   *)
(* member nothing happened to between the two lists.                       *)
LEMMA SyncMembersStep ==
    ASSUME IInv, SyncMembers
    PROVE  HandlersInv' /\ SyncInv'
<1>1. PICK repairs, prune :
            /\ repairs = [m \in Members |-> IF present[m] THEN RepairOf(sync.stored[m], roles[m])
                                            ELSE Null]
            /\ prune = PruneOf(sync.stored)
  OBVIOUS
<1>2. sync' = [sync EXCEPT !.step = "repair", !.stored = NoRows,
                           !.repairs = repairs, !.prune = prune]
  BY <1>1 DEF SyncMembers
<1>3. repairs \in [Members -> GuildMember \cup {Null}] /\ prune \in SUBSET Members
  BY <1>1, RepairOfType DEF PruneOf
<1>4. /\ sync' \in Sync
      /\ sync'.step = "repair" /\ sync'.repairs = repairs /\ sync'.prune = prune
      /\ sync'.touched = sync.touched
  BY <1>2, <1>3, NoRowsType DEF Sync, IInv, TypeOK
<1>5. UNCHANGED <<present, roles, row, task, drift, exempt>> /\ sync.step = "members"
  BY DEF SyncMembers, discord
<1>6. ASSUME NEW m \in Members \ sync.touched
      PROVE  InSync(m)'
  <2>1. ~Busy(m) /\ sync.stored[m] = row[m]
    BY <1>5, <1>6 DEF IInv, SyncInv, InSync
  <2>2. repairs[m] # Null => present[m] /\ repairs[m] = RowOf(roles[m])
    BY <1>1, RepairOfType
  <2>3. m \in prune => ~present[m]
    BY <1>1 DEF PruneOf
  <2>4. repairs[m] = Null /\ m \notin prune => Agrees(m)
    BY <1>1, <2>1, RepairOfType DEF PruneOf, Agrees
  <2> QED
    BY <1>4, <1>5, <2>1, <2>2, <2>3, <2>4 DEF InSync, Busy, Agrees
<1>7. SyncInv'
  BY <1>4, <1>6 DEF SyncInv
<1> QED
  BY <1>4, <1>5, <1>7, SameHandlers

LEMMA SyncRepairStep ==
    ASSUME IInv, NEW m \in Members, SyncRepair(m)
    PROVE  HandlersInv' /\ SyncInv'
<1>1. PICK repair \in GuildMember : repair = sync.repairs[m]
  BY DEF SyncRepair, IInv, TypeOK, Sync
<1>2. sync' = [sync EXCEPT !.repairs[m] = Null] /\ row' = [row EXCEPT ![m] = repair]
  BY <1>1 DEF SyncRepair
<1>3. /\ sync' \in Sync /\ sync'.step = "repair" /\ sync'.repairs[m] = Null
      /\ \A x \in Members : x # m => sync'.repairs[x] = sync.repairs[x]
      /\ sync'.prune = sync.prune /\ sync'.touched = sync.touched
  BY <1>2 DEF SyncRepair, IInv, TypeOK, Sync
<1>4. row'[m] = repair /\ \A x \in Members : x # m => row'[x] = row[x]
  BY <1>2 DEF IInv, TypeOK
<1>5. /\ UNCHANGED <<present, roles, task, exempt>> /\ sync.step = "repair"
      /\ drift' = IF m \in sync.touched THEN drift \cup {m} ELSE drift
  BY DEF SyncRepair, discord
<1>6. ASSUME m \notin sync.touched
      PROVE  InSync(m)' /\ Agrees(m)'
  <2>1. InSync(m)
    BY <1>5, <1>6 DEF IInv, SyncInv
  <2>2. ~Busy(m) /\ present[m] /\ repair = RowOf(roles[m]) /\ m \notin sync.prune
    BY <1>1, <1>5, <2>1, MembersAssumption DEF InSync
  <2>3. Agrees(m)'
    BY <1>4, <1>5, <2>2 DEF Agrees
  <2> QED
    BY <1>3, <1>5, <2>2, <2>3 DEF InSync, Busy
<1>7. ASSUME NEW x \in Members \ sync.touched
      PROVE  InSync(x)'
  <2>1. CASE x = m
    BY <1>6, <1>7, <2>1
  <2>2. CASE x # m
    <3>1. InSync(x)
      BY <1>5, <1>7 DEF IInv, SyncInv
    <3> QED
      BY <1>3, <1>4, <1>5, <2>2, <3>1 DEF InSync, Busy, Agrees
  <2> QED
    BY <2>1, <2>2
<1>8. SyncInv'
  BY <1>3, <1>7 DEF SyncInv
<1>9. HandlersInv'
  BY <1>2, <1>3, <1>5, <1>6, SyncWrites
<1> QED
  BY <1>8, <1>9

LEMMA SyncRepairedStep ==
    ASSUME IInv, SyncRepaired
    PROVE  HandlersInv' /\ SyncInv'
<1>1. /\ sync' = [sync EXCEPT !.step = "prune"]
      /\ sync.step = "repair" /\ sync.repairs = NoRows
      /\ UNCHANGED <<present, roles, row, task, drift, exempt>>
  BY DEF SyncRepaired, discord
<1>2. /\ sync' \in Sync /\ sync'.step = "prune" /\ sync'.repairs = sync.repairs
      /\ sync'.prune = sync.prune /\ sync'.touched = sync.touched
  BY <1>1 DEF IInv, TypeOK, Sync
<1>3. ASSUME NEW x \in Members \ sync.touched
      PROVE  InSync(x)'
  <2>1. InSync(x)
    BY <1>1, <1>3 DEF IInv, SyncInv
  <2> QED
    BY <1>1, <1>2, <2>1 DEF InSync, Busy, Agrees
<1>4. SyncInv'
  BY <1>1, <1>2, <1>3 DEF SyncInv, NoRows
<1> QED
  BY <1>1, <1>2, <1>4, SameHandlers

LEMMA SyncPruneStep ==
    ASSUME IInv, NEW m \in Members, SyncPrune(m)
    PROVE  HandlersInv' /\ SyncInv'
<1>1. sync' = [sync EXCEPT !.prune = @ \ {m}] /\ row' = [row EXCEPT ![m] = Null]
  BY DEF SyncPrune
<1>2. /\ sync' \in Sync /\ sync'.step = "prune" /\ sync'.repairs = sync.repairs
      /\ sync'.prune = sync.prune \ {m} /\ sync'.touched = sync.touched
  BY <1>1 DEF SyncPrune, IInv, TypeOK, Sync
<1>3. row'[m] = Null /\ \A x \in Members : x # m => row'[x] = row[x]
  BY <1>1 DEF IInv, TypeOK
<1>4. /\ UNCHANGED <<present, roles, task, exempt>> /\ sync.step = "prune" /\ m \in sync.prune
      /\ drift' = IF m \in sync.touched THEN drift \cup {m} ELSE drift
  BY DEF SyncPrune, discord
<1>5. sync.repairs = NoRows
  BY <1>4 DEF IInv, SyncInv
<1>6. ASSUME NEW x \in Members \ sync.touched
      PROVE  InSync(x)'
  <2>1. InSync(x)
    BY <1>4, <1>6 DEF IInv, SyncInv
  <2>2. sync.repairs[x] = Null
    BY <1>5 DEF NoRows
  <2>3. CASE x = m
    BY <1>2, <1>3, <1>4, <2>1, <2>2, <2>3 DEF InSync, Busy, Agrees
  <2>4. CASE x # m
    BY <1>2, <1>3, <1>4, <2>1, <2>2, <2>4 DEF InSync, Busy, Agrees
  <2> QED
    BY <2>3, <2>4
<1>7. SyncInv'
  BY <1>2, <1>5, <1>6 DEF SyncInv, NoRows
<1>8. m \notin sync.touched => Agrees(m)'
  <2>1. m \notin sync.touched => ~present[m]
    BY <1>4 DEF IInv, SyncInv, InSync
  <2> QED
    BY <1>3, <1>4, <2>1 DEF Agrees
<1>9. HandlersInv'
  BY <1>1, <1>2, <1>4, <1>8, SyncWrites
<1> QED
  BY <1>7, <1>9

(* Done: the members nothing happened to have no handler, and their rows   *)
(* agree with their roles.                                                 *)
LEMMA SyncDoneStep ==
    ASSUME IInv, SyncDone
    PROVE  HandlersInv' /\ SyncInv'
<1>1. /\ sync.step = "prune" /\ sync.prune = {} /\ sync' = NoSync
      /\ drift' = drift \cap sync.touched
      /\ UNCHANGED <<present, roles, row, task, exempt>>
  BY DEF SyncDone, discord
<1>2. sync.repairs = NoRows
  BY <1>1 DEF IInv, SyncInv
<1>3. ASSUME NEW x \in Members, x \notin sync.touched
      PROVE  ~Busy(x) /\ Agrees(x)
  <2>1. InSync(x)
    BY <1>1, <1>3 DEF IInv, SyncInv
  <2> QED
    BY <1>1, <1>2, <2>1 DEF InSync, NoRows
<1>4. TypeOK' /\ HandlersSound' /\ GoneWithoutRoles'
  BY <1>1, NoRowsType DEF IInv, TypeOK, HandlersSound, SoundTask, GoneWithoutRoles
<1>5. OneHandler'
  <2> SUFFICES ASSUME NEW x \in Members, x \notin drift' \cap exempt'
               PROVE  Alone(x)
    BY <1>1 DEF OneHandler, Alone
  <2>1. CASE x \notin sync.touched
    BY <1>3, <2>1 DEF Busy, Alone
  <2>2. CASE x \in sync.touched
    BY <1>1, <2>2 DEF IInv, OneHandler
  <2> QED
    BY <2>1, <2>2
<1>6. HeldExclusively' /\ HandlersGranting'
  BY <1>1 DEF IInv, HeldExclusively, OneTier, HandlersGranting, Granting
<1>7. HandlersOnCourse'
  <2> SUFFICES ASSUME NEW u \in Tasks, task[u].step # "idle", task[u].member \notin drift'
               PROVE  OnCourse(task[u])
    BY <1>1 DEF HandlersOnCourse, OnCourse
  <2>1. task[u].member \in Members /\ Busy(task[u].member)
    BY DEF IInv, HandlersSound, SoundTask, Busy
  <2> QED
    BY <1>1, <1>3, <2>1 DEF IInv, HandlersOnCourse
<1>8. StoredTierAgrees'
  <2> SUFFICES ASSUME NEW x \in Members, x \notin drift', ~Busy(x)
               PROVE  Agrees(x)
    BY <1>1 DEF StoredTierAgrees, Busy, Agrees
  <2> QED
    BY <1>1, <1>3 DEF IInv, StoredTierAgrees
<1>9. SyncInv'
  BY <1>1 DEF SyncInv, NoSync
<1> QED
  BY <1>4, <1>5, <1>6, <1>7, <1>8, <1>9 DEF HandlersInv

LEMMA SyncFailsStep ==
    ASSUME IInv, SyncFails
    PROVE  HandlersInv' /\ SyncInv'
<1>1. sync' = NoSync /\ UNCHANGED <<present, roles, row, task, drift, exempt>>
  BY DEF SyncFails, discord
<1>2. SyncInv'
  BY <1>1 DEF SyncInv, NoSync
<1> QED
  BY <1>1, <1>2, NoRowsType, SameHandlers

-----------------------------------------------------------------------------
(* Every step keeps the invariant. *)

Reconciles ==
    \/ SyncList \/ SyncMembers \/ SyncRepaired \/ SyncDone \/ SyncFails
    \/ \E m \in Members : SyncRepair(m) \/ SyncPrune(m)

LEMMA StepKinds ==
    ASSUME IInv, [Next]_vars
    PROVE  \/ \E t \in Tasks, m \in Members : \E first : StartOn(t, m, first)
           \/ \E m \in Members : \E here, names, stored : ByHand(m, here, names, stored)
           \/ \E t \in Tasks : HandlerOK(t)
           \/ Reconciles
           \/ UNCHANGED vars
BY StartKind, HandKind, HandlerKind DEF Next, Reconciles

LEMMA Initially ==
    ASSUME Init
    PROVE  IInv
<1>1. \A t \in Tasks : task[t] = NoTask /\ task[t].step = "idle" /\ task[t].member = Null
  BY DEF Init, NoTask
<1>2. TypeOK
  <2>1. SUBSET HandRoles \subseteq SUBSET RoleNames
    BY MembersAssumption
  <2>2. task \in [Tasks -> Task]
    BY NoTaskType DEF Init
  <2>3. roles \in [Members -> SUBSET RoleNames]
    BY <2>1 DEF Init
  <2> QED
    BY <2>2, <2>3, NoRowsType DEF Init, TypeOK
<1>3. HandlersSound
  BY <1>1, NoTaskType DEF HandlersSound
<1>4. \A m \in Members : ~Busy(m)
  BY <1>1, MembersAssumption DEF Busy
<1>5. OneHandler
  BY <1>4 DEF OneHandler, Alone, Busy
<1>6. HeldExclusively
  BY DEF Init, HeldExclusively, OneTier
<1>7. HandlersGranting /\ HandlersOnCourse
  BY <1>1 DEF HandlersGranting, HandlersOnCourse
<1>8. SyncInv /\ GoneWithoutRoles
  BY DEF Init, NoSync, SyncInv, GoneWithoutRoles
<1>9. StoredTierAgrees
  BY DEF Init, StoredTierAgrees, Agrees, MemberTier, LegacyMemberRoles, NoRows
<1> QED
  BY <1>2, <1>3, <1>5, <1>6, <1>7, <1>8, <1>9 DEF IInv

LEMMA InvStep ==
    ASSUME IInv, [Next]_vars
    PROVE  IInv'
<1>1. HandlersInv' /\ SyncInv'
  <2>1. ASSUME NEW t \in Tasks, NEW m \in Members, NEW first, StartOn(t, m, first)
        PROVE  HandlersInv' /\ SyncInv'
    <3>1. /\ task[t] = NoTask /\ task' = [task EXCEPT ![t] = first] /\ first.member = m
          /\ present' = [present EXCEPT ![m] = TRUE] /\ UNCHANGED <<roles, row>> /\ Touch(m)
      BY <2>1 DEF StartOn, Start
    <3>2. ASSUME NEW x \in Members \ {m}
          PROVE  present'[x] = present[x] /\ (Busy(x)' => Busy(x))
      BY <3>1, NoTaskType, MembersAssumption DEF IInv, TypeOK, Busy
    <3> QED
      BY <2>1, <3>1, <3>2, StartStep, UndisturbedStep
  <2>2. ASSUME NEW m \in Members, NEW here, NEW names, NEW stored, ByHand(m, here, names, stored)
        PROVE  HandlersInv' /\ SyncInv'
    <3>1. /\ present' = [present EXCEPT ![m] = here] /\ roles' = [roles EXCEPT ![m] = names]
          /\ row' = [row EXCEPT ![m] = stored] /\ task' = task /\ Touch(m)
      BY <2>2 DEF ByHand
    <3>2. ASSUME NEW x \in Members \ {m}
          PROVE  /\ present'[x] = present[x] /\ roles'[x] = roles[x] /\ row'[x] = row[x]
                 /\ Busy(x)' => Busy(x)
      BY <3>1 DEF IInv, TypeOK, Busy
    <3> QED
      BY <2>2, <3>1, <3>2, HandStep, UndisturbedStep
  <2>3. ASSUME NEW t \in Tasks, HandlerOK(t)
        PROVE  HandlersInv' /\ SyncInv'
    <3>1. PICK next, names, stored : /\ ByHandler(t, next, names, stored)
                                     /\ KeepsGranting(t, next, names)
                                     /\ KeepsCourse(t, next, names, stored)
      BY <2>3 DEF HandlerOK
    <3>2. PICK m \in Members : m = task[t].member
      BY <3>1, HandlerFacts DEF ByHandler
    <3>3. /\ next # NoTask => next.member = m
          /\ present' = present /\ roles' = [roles EXCEPT ![m] = names]
          /\ row' = [row EXCEPT ![m] = stored] /\ task' = [task EXCEPT ![t] = next] /\ Touch(m)
      BY <3>1, <3>2 DEF ByHandler
    <3>4. ASSUME NEW x \in Members \ {m}
          PROVE  /\ present'[x] = present[x] /\ roles'[x] = roles[x] /\ row'[x] = row[x]
                 /\ Busy(x)' => Busy(x)
      BY <3>2, <3>3, NoTaskType, MembersAssumption DEF IInv, TypeOK, Busy
    <3> QED
      BY <3>1, <3>3, <3>4, HandlerStep, UndisturbedStep
  <2>4. CASE Reconciles
    BY <2>4, SyncListStep, SyncMembersStep, SyncRepairStep, SyncRepairedStep, SyncPruneStep,
       SyncDoneStep, SyncFailsStep DEF Reconciles
  <2>5. CASE UNCHANGED vars
    <3>1. HandlersInv'
      BY <2>5, SameHandlers DEF vars, IInv, TypeOK
    <3>2. SyncInv'
      BY <2>5 DEF vars, IInv, SyncInv, InSync, Busy, Agrees, NoRows
    <3> QED
      BY <3>1, <3>2
  <2> QED
    BY <2>1, <2>2, <2>3, <2>4, <2>5, StepKinds
<1> QED
  BY <1>1 DEF HandlersInv, IInv

(* The invariant holds whatever buttons, commands, leavers, API calls and  *)
(* reconciliations are interleaved, and whichever of their calls fail.     *)
THEOREM Invariance == Spec => []IInv
<1>1. Init => IInv
  BY Initially
<1>2. IInv /\ [Next]_vars => IInv'
  BY InvStep
<1> QED
  BY <1>1, <1>2, PTL DEF Spec

(* Every table and every handler in flight is well formed.                 *)
THEOREM TypeCorrect == Spec => []TypeOK
<1>1. IInv => TypeOK
  BY DEF IInv
<1> QED
  BY <1>1, Invariance, PTL

(* "They are mutually exclusive: granting one removes the other, so nobody *)
(* is both" (the member panel), whoever joins, verifies, is approved or    *)
(* leaves meanwhile: two tiers at once come only from an admin's hand, a   *)
(* removal that failed unnoticed or a handler whose work on the member met *)
(* another handler's or an admin's; and not once they are put right.       *)
THEOREM TiersAreExclusive == Spec => []ExclusiveTiers
<1>1. IInv => ExclusiveTiers
  BY OneTierCount DEF IInv, HeldExclusively, ExclusiveTiers
<1> QED
  BY <1>1, Invariance, PTL

(* The roles are the source of truth: a member's row says what the roles   *)
(* say once the handler is done, and after a reconciliation that ran       *)
(* undisturbed says so again.                                              *)
THEOREM StoredFollowsRoles == Spec => []StoredTierAgrees
<1>1. IInv => StoredTierAgrees
  BY DEF IInv
<1> QED
  BY <1>1, Invariance, PTL

(* "never deletes a row for someone still in the guild" (reconcileTiers),  *)
(* unless that member came back or was handled while it ran.               *)
THEOREM PruneIsOfGone == Spec => PruneOnlyGone
<1>1. ASSUME IInv, [Next]_vars, NEW x \in Members, row[x] # Null, row'[x] = Null
      PROVE  ~present[x] \/ x \in sync.touched
  <2>1. ASSUME NEW m \in Members, NEW here, NEW names, NEW stored, ByHand(m, here, names, stored)
        PROVE  FALSE
    BY <1>1, <2>1 DEF ByHand, IInv, TypeOK
  <2>2. ASSUME NEW t \in Tasks, HandlerOK(t)
        PROVE  FALSE
    <3>1. PICK next, names, stored : ByHandler(t, next, names, stored)
      BY <2>2 DEF HandlerOK
    <3> QED
      BY <1>1, <3>1, HandlerFacts DEF ByHandler, IInv, TypeOK
  <2>3. CASE \E m \in Members : SyncPrune(m)
    <3>1. x \in sync.prune /\ sync.step = "prune"
      BY <1>1, <2>3 DEF SyncPrune, IInv, TypeOK
    <3> QED
      BY <1>1, <3>1 DEF IInv, SyncInv, InSync
  <2>4. ASSUME NEW m \in Members, SyncRepair(m)
        PROVE  FALSE
    BY <1>1, <2>4 DEF SyncRepair, IInv, TypeOK
  <2>5. ASSUME NEW t \in Tasks, NEW m \in Members, NEW first, StartOn(t, m, first)
        PROVE  FALSE
    BY <1>1, <2>5 DEF StartOn
  <2>6. CASE SyncList \/ SyncMembers \/ SyncRepaired \/ SyncDone \/ SyncFails \/ UNCHANGED vars
    BY <1>1, <2>6 DEF SyncList, SyncMembers, SyncRepaired, SyncDone, SyncFails, vars
  <2> QED
    BY <1>1, <2>1, <2>2, <2>3, <2>4, <2>5, <2>6, StepKinds DEF Reconciles
<1>2. IInv /\ [Next]_vars
      => [\A m \in Members :
            row[m] # Null /\ row'[m] = Null => ~present[m] \/ m \in sync.touched]_vars
  BY <1>1
<1> QED
  BY <1>2, Invariance, PTL DEF Spec, PruneOnlyGone

=============================================================================
