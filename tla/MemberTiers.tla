----------------------------- MODULE MemberTiers ----------------------------
(***************************************************************************)
(* The two places a member's tier is kept: the roles Discord holds, which  *)
(* decide what the member sees, and the row of guild_members.  The bot     *)
(* changes both, one call after the other, when somebody joins, verifies   *)
(* or is approved as a seller (setTier and its callers), and /membersync   *)
(* (reconcileTiers) repairs the rows from the roles.                       *)
(*                                                                         *)
(* Gateway events run on goroutines of their own, so handlers overlap with *)
(* each other, with the reconciliation and with what admins do by hand.    *)
(* Names, account ages, panels and audit lines are left out.               *)
(***************************************************************************)
EXTENDS Naturals, FiniteSets, MembershipRoles

CONSTANTS
    Members,   \* people, in the guild or not
    Tasks,     \* the handlers that may run at once
    HandRoles, \* roles admins give and take by hand, and API callers name
    Null       \* no row, nobody

Tiers == {"none", "user", "buyer", "seller"}

GuildMember == [tier : Tiers, restricted : BOOLEAN]

ASSUME MembersAssumption ==
    /\ Null \notin Members \cup GuildMember
    /\ HandRoles \subseteq RoleNames

VARIABLES
    present,   \* Discord: who is in the guild
    roles,     \* Discord: the roles of each member
    row,       \* table guild_members
    task,      \* what each handler in flight remembers
    sync,      \* what the reconciliation in flight remembers
    drift,     \* history: whose row may be wrong until the next reconciliation
    exempt     \* history: whose tiers an admin, an error or two at once may have mixed

vars == <<present, roles, row, task, sync, drift, exempt>>

discord == <<present, roles>>

-----------------------------------------------------------------------------
(* The pure parts. *)

(* What the Verify button does with the roles the click was sent with. *)
DecideVerification(names) ==
    IF Restricted(names) \/ MemberTier(names) = "conflict" THEN "refuse"
    ELSE IF names \cap {"Buyer", "Seller"} # {} THEN "already"
    ELSE "verify"

MemberRole(tier) ==
    CASE tier = "user" -> "User" [] tier = "buyer" -> "Buyer" [] tier = "seller" -> "Seller"

(* Mutant: the role below is kept. *)
ExclusiveGrantKeepsBuyer(current, target) ==
    (current \cap MemberRoleNames) \ {MemberRole(target), "Buyer"}

(* The member roles that granting target removes. *)
ExclusiveGrant(current, target) == (current \cap MemberRoleNames) \ {MemberRole(target)}

RowOf(names) == [tier |-> MemberTier(names), restricted |-> Restricted(names)]

(* What Service.Verify stores for a member it does not refuse. *)
VerifiedRow(names) ==
    [RowOf(names) EXCEPT !.tier = IF DecideVerification(names) = "verify" THEN "buyer" ELSE @]

(* Mutant: the restriction is not compared. *)
RepairOfTierOnly(stored, names) ==
    IF \/ MemberTier(names) = "conflict"
       \/ MemberTier(names) = "none" /\ stored = Null
       \/ stored # Null /\ stored.tier = MemberTier(names)
    THEN Null
    ELSE RowOf(names)

(* What the reconciliation writes for a member it found in the guild: the  *)
(* row the roles call for, or nothing.  A conflict is left to a human, and *)
(* a member without tier and row is not given one.                         *)
RepairOf(stored, names) ==
    IF \/ MemberTier(names) = "conflict"
       \/ MemberTier(names) = "none" /\ stored = Null
       \/ stored = RowOf(names)
    THEN Null
    ELSE RowOf(names)

-----------------------------------------------------------------------------
TaskSteps == {"idle", "verify", "current", "remove", "read", "upsert"}

Task == [step   : TaskSteps,
         member : Members \cup {Null},
         target : Tiers,
         remove : SUBSET MemberRoleNames,
         row    : GuildMember \cup {Null}]

NoTask == [step |-> "idle", member |-> Null, target |-> "none", remove |-> {}, row |-> Null]

(* stored: the rows List returned; repairs and prune: what is to be        *)
(* written and deleted, computed from them and the member list; touched:   *)
(* history, the members something happened to meanwhile.                   *)
Sync == [step    : {"idle", "members", "repair", "prune"},
         stored  : [Members -> GuildMember \cup {Null}],
         repairs : [Members -> GuildMember \cup {Null}],
         prune   : SUBSET Members,
         touched : SUBSET Members]

NoRows == [m \in Members |-> Null]

NoSync == [step |-> "idle", stored |-> NoRows, repairs |-> NoRows, prune |-> {}, touched |-> {}]

Busy(m) == \E t \in Tasks : task[t].member = m

(* At most one of the member roles. *)
OneTier(names) == \A a, b \in names \cap MemberRoleNames : a = b

(* The row says what the roles say, as far as a row can say it. *)
Agrees(m) ==
    IF present[m]
    THEN \/ MemberTier(roles[m]) = "conflict"
         \/ MemberTier(roles[m]) = "none" /\ row[m] = Null
         \/ row[m] = RowOf(roles[m])
    ELSE row[m] = Null

(* The guild when the bot first starts, as admins have made it: nobody has *)
(* a row.                                                                  *)
Init ==
    /\ present \in [Members -> BOOLEAN]
    /\ roles \in [Members -> SUBSET HandRoles]
    /\ \A m \in Members : ~present[m] => roles[m] = {}
    /\ row = NoRows
    /\ task = [t \in Tasks |-> NoTask]
    /\ sync = NoSync
    /\ drift = {m \in Members : roles[m] # {}}
    /\ exempt = {m \in Members : ~OneTier(roles[m])}

(* History: something happens to m while a reconciliation runs. *)
Touch(m) ==
    sync' = IF sync.step = "idle" THEN sync ELSE [sync EXCEPT !.touched = @ \cup {m}]

(* A handler starts; a second one for the same member makes the outcome a  *)
(* matter of luck.                                                         *)
Start(t, m, first) ==
    /\ task[t] = NoTask
    /\ task' = [task EXCEPT ![t] = first]
    /\ drift' = IF Busy(m) THEN drift \cup {m} ELSE drift
    /\ exempt' = IF Busy(m) THEN exempt \cup {m} ELSE exempt
    /\ Touch(m)

(* setTier(m, tier) as the next thing a handler does. *)
SetTier(m, tier) == [NoTask EXCEPT !.step = "current", !.member = m, !.target = tier]

(* onJoin: Discord adds the member, the handler grants User. *)
Join(t, m) ==
    /\ ~present[m]
    /\ present' = [present EXCEPT ![m] = TRUE]
    /\ Start(t, m, SetTier(m, "user"))
    /\ UNCHANGED <<roles, row>>

(* The Verify button, decided on the roles the click carries. *)
Verify(t, m) ==
    LET action == DecideVerification(roles[m])
    IN  /\ present[m]
        /\ action # "refuse"
        /\ Start(t, m, [SetTier(m, IF action = "verify" THEN "buyer" ELSE "none")
                          EXCEPT !.step = "verify",
                                 !.row = VerifiedRow(roles[m])])
        /\ UNCHANGED <<discord, row>>

(* /seller-approve, once the ticket service agreed. *)
Approve(t, m) ==
    /\ present[m]
    /\ DecideSellerApproval(roles[m])
    /\ Start(t, m, SetTier(m, "seller"))
    /\ UNCHANGED <<discord, row>>

(* Service.Verify stores the tier first; "already" ends here. *)
VerifyUpsert(t) ==
    LET q == task[t]
    IN  /\ q.step = "verify"
        /\ row' = [row EXCEPT ![q.member] = q.row]
        /\ task' = [task EXCEPT ![t] = IF q.target = "none" THEN NoTask
                                       ELSE SetTier(q.member, q.target)]
        /\ Touch(q.member)
        /\ UNCHANGED <<discord, drift, exempt>>

(* exclusiveTier reads the member's roles ... *)
Current(t) ==
    LET q == task[t]
    IN  /\ q.step = "current"
        /\ present[q.member]
        /\ task' = [task EXCEPT ![t].step = "remove",
                                ![t].remove = ExclusiveGrant(roles[q.member], q.target)]
        /\ Touch(q.member)
        /\ UNCHANGED <<discord, row, drift, exempt>>

(* ... removes the other member roles one by one, ignoring errors ... *)
RemoveRole(t) ==
    LET q == task[t]
    IN  /\ q.step = "remove"
        /\ \E name \in q.remove :
              /\ task' = [task EXCEPT ![t].remove = @ \ {name}]
              /\ \/ /\ roles' = [roles EXCEPT ![q.member] = @ \ {name}]
                    /\ UNCHANGED exempt
                 \/ /\ exempt' = exempt \cup {q.member}
                    /\ UNCHANGED roles
        /\ Touch(q.member)
        /\ UNCHANGED <<present, row, drift>>

(* ... and adds the target. *)
AddRole(t) ==
    LET q == task[t]
    IN  /\ q.step = "remove"
        /\ q.remove = {}
        /\ present[q.member]
        /\ roles' = [roles EXCEPT ![q.member] = @ \cup {MemberRole(q.target)}]
        /\ task' = [task EXCEPT ![t].step = "read"]
        /\ Touch(q.member)
        /\ UNCHANGED <<present, row, drift, exempt>>

(* setTier reads the member again, for the restriction, and stores. *)
Read(t) ==
    LET q == task[t]
    IN  /\ q.step = "read"
        /\ present[q.member]
        /\ task' = [task EXCEPT ![t].step = "upsert",
                                ![t].row = [tier |-> q.target,
                                            restricted |-> Restricted(roles[q.member])]]
        /\ Touch(q.member)
        /\ UNCHANGED <<discord, row, drift, exempt>>

(* The repository looks the row up and then creates or saves it; when      *)
(* another call comes in between, the row is written all the same or the   *)
(* unique index refuses it (Fail).                                         *)
Upsert(t) ==
    LET q == task[t]
    IN  /\ q.step = "upsert"
        /\ row' = [row EXCEPT ![q.member] = q.row]
        /\ task' = [task EXCEPT ![t] = NoTask]
        /\ Touch(q.member)
        /\ UNCHANGED <<discord, drift, exempt>>

(* A call fails, or the process ends: the handler gives up where it is. *)
Fail(t) ==
    LET q == task[t]
    IN  /\ q.step # "idle"
        /\ task' = [task EXCEPT ![t] = NoTask]
        /\ drift' = drift \cup {q.member}
        /\ Touch(q.member)
        /\ UNCHANGED <<discord, row, exempt>>

(* History: whose tiers are as they should be again, because somebody saw  *)
(* to it while no handler was at work on m.                                *)
PutRight(m, names) ==
    IF OneTier(names) /\ ~Busy(m) THEN exempt \ {m}
    ELSE IF names \cap MemberRoleNames \subseteq roles[m] THEN exempt
    ELSE exempt \cup {m}

(* The member leaves, and with it its roles; onLeave writes nothing. *)
Leave(m) ==
    /\ present[m]
    /\ present' = [present EXCEPT ![m] = FALSE]
    /\ roles' = [roles EXCEPT ![m] = {}]
    /\ drift' = drift \cup {m}
    /\ exempt' = PutRight(m, {})
    /\ Touch(m)
    /\ UNCHANGED <<row, task>>

(* An admin gives a member a role or takes one away by hand, a second tier *)
(* ("conflict") or one in the middle of a handler's work included.         *)
HandEdit(m) ==
    /\ present[m]
    /\ \E name \in HandRoles : \E names \in {roles[m] \cup {name}, roles[m] \ {name}} :
          /\ names # roles[m]
          /\ roles' = [roles EXCEPT ![m] = names]
          /\ exempt' = PutRight(m, names)
    /\ drift' = drift \cup {m}
    /\ Touch(m)
    /\ UNCHANGED <<present, row, task>>

(* POST /membership/verify: the caller names the member and the roles, the *)
(* tier is stored and no role is granted.                                  *)
ApiVerify(m) ==
    /\ \E names \in SUBSET HandRoles :
          /\ DecideVerification(names) # "refuse"
          /\ row' = [row EXCEPT ![m] = VerifiedRow(names)]
    /\ drift' = drift \cup {m}
    /\ Touch(m)
    /\ UNCHANGED <<discord, task, exempt>>

-----------------------------------------------------------------------------
(* reconcileTiers: the rows are listed, then the members; then rows are    *)
(* repaired one by one, then pruned one by one.                            *)
SyncList ==
    /\ sync.step = "idle"
    /\ sync' = [NoSync EXCEPT !.step = "members", !.stored = row,
                              !.touched = {m \in Members : Busy(m)}]
    /\ UNCHANGED <<discord, row, task, drift, exempt>>

(* Mutant: a member without a tier does not count as present. *)
PruneOfUntiered(stored) ==
    {m \in Members : stored[m] # Null /\ (~present[m] \/ MemberTier(roles[m]) = "none")}

(* The stored rows whose member is not in the list. *)
PruneOf(stored) == {m \in Members : stored[m] # Null /\ ~present[m]}

SyncMembers ==
    /\ sync.step = "members"
    /\ sync' = [sync EXCEPT
                  !.step = "repair",
                  !.stored = NoRows,
                  !.repairs = [m \in Members |-> IF present[m]
                                                 THEN RepairOf(sync.stored[m], roles[m])
                                                 ELSE Null],
                  !.prune = PruneOf(sync.stored)]
    /\ UNCHANGED <<discord, row, task, drift, exempt>>

(* A repair computed from what is no longer so may do harm. *)
SyncRepair(m) ==
    /\ sync.step = "repair"
    /\ sync.repairs[m] # Null
    /\ row' = [row EXCEPT ![m] = sync.repairs[m]]
    /\ sync' = [sync EXCEPT !.repairs[m] = Null]
    /\ drift' = IF m \in sync.touched THEN drift \cup {m} ELSE drift
    /\ UNCHANGED <<discord, task, exempt>>

SyncRepaired ==
    /\ sync.step = "repair"
    /\ sync.repairs = NoRows
    /\ sync' = [sync EXCEPT !.step = "prune"]
    /\ UNCHANGED <<discord, row, task, drift, exempt>>

SyncPrune(m) ==
    /\ sync.step = "prune"
    /\ m \in sync.prune
    /\ row' = [row EXCEPT ![m] = Null]
    /\ sync' = [sync EXCEPT !.prune = @ \ {m}]
    /\ drift' = IF m \in sync.touched THEN drift \cup {m} ELSE drift
    /\ UNCHANGED <<discord, task, exempt>>

(* Done: whoever was left alone meanwhile is in order again. *)
SyncDone ==
    /\ sync.step = "prune"
    /\ sync.prune = {}
    /\ sync' = NoSync
    /\ drift' = drift \cap sync.touched
    /\ UNCHANGED <<discord, row, task, exempt>>

SyncFails ==
    /\ sync.step # "idle"
    /\ sync' = NoSync
    /\ UNCHANGED <<discord, row, task, drift, exempt>>

TaskStep(t) ==
    \/ VerifyUpsert(t) \/ Current(t) \/ RemoveRole(t) \/ AddRole(t)
    \/ Read(t) \/ Upsert(t) \/ Fail(t)

Next ==
    \/ \E t \in Tasks, m \in Members : Join(t, m) \/ Verify(t, m) \/ Approve(t, m)
    \/ \E t \in Tasks : TaskStep(t)
    \/ \E m \in Members : Leave(m) \/ HandEdit(m) \/ ApiVerify(m) \/ SyncRepair(m) \/ SyncPrune(m)
    \/ SyncList \/ SyncMembers \/ SyncRepaired \/ SyncDone \/ SyncFails

Spec == Init /\ [][Next]_vars

-----------------------------------------------------------------------------
(* Everything has the shape its declaration says. *)
TypeOK ==
    /\ present \in [Members -> BOOLEAN]
    /\ roles \in [Members -> SUBSET RoleNames]
    /\ row \in [Members -> GuildMember \cup {Null}]
    /\ task \in [Tasks -> Task]
    /\ sync \in Sync
    /\ drift \subseteq Members
    /\ exempt \subseteq Members

(* "They are mutually exclusive: granting one removes the other, so nobody *)
(* is both" (the member panel): true unless an admin gave a second tier by *)
(* hand, a removal failed unnoticed or a handler's work on the member met  *)
(* another handler's or an admin's; and again once an admin has put it     *)
(* right, or the member has left.                                          *)
ExclusiveTiers ==
    \A m \in Members \ exempt : Cardinality(roles[m] \cap MemberRoleNames) <= 1

(* The roles are the source of truth and setTier stores what it granted:   *)
(* once its handler is done, a member's row says what the roles say, until *)
(* a handler fails half way, an admin edits the roles, or the member       *)
(* leaves; and again after the next reconciliation that ran undisturbed.   *)
StoredTierAgrees == \A m \in Members \ drift : Busy(m) \/ Agrees(m)

(* "never deletes a row for someone still in the guild" (reconcileTiers),  *)
(* unless that member came back while it ran.                              *)
PruneOnlyGone ==
    [][\A m \in Members :
        row[m] # Null /\ row'[m] = Null => ~present[m] \/ m \in sync.touched]_vars

-----------------------------------------------------------------------------
(* The inductive invariant: what a handler in flight has achieved already, *)
(* and what a reconciliation in flight knows of the members nothing        *)
(* happened to.                                                            *)

SoundTask(q) ==
    /\ q.step = "idle" => q = NoTask
    /\ q.step # "idle" => q.member \in Members
    /\ q.step \in {"verify", "upsert"} => q.row # Null
    /\ q.step = "verify" => q.target \in {"none", "buyer"}
    /\ q.step \in {"current", "remove", "read", "upsert"} => q.target # "none"

(* No second handler works on m. *)
Alone(m) == \A t, u \in Tasks : task[t].member = m /\ task[u].member = m => t = u

(* How far the handler has made its member's tiers exclusive. *)
Granting(q) ==
    LET held == roles[q.member] \cap MemberRoleNames
    IN  /\ q.step = "remove" => held \subseteq q.remove \cup {MemberRole(q.target)}
        /\ q.step \in {"read", "upsert"} => held \subseteq {MemberRole(q.target)}

(* The row the handler ends with is the one the roles call for. *)
OnCourse(q) ==
    LET m == q.member
    IN  /\ present[m]
        /\ q.step = "verify" /\ q.target = "none" => q.row = RowOf(roles[m])
        /\ q.step \in {"read", "upsert"} => MemberRole(q.target) \in roles[m]
        /\ q.step = "upsert" =>
              q.row = [tier |-> q.target, restricted |-> Restricted(roles[m])]

(* What the reconciliation knows of m, and is about to do to its row. *)
InSync(m) ==
    /\ ~Busy(m)
    /\ sync.step = "members" => sync.stored[m] = row[m]
    /\ sync.step \in {"repair", "prune"} =>
          /\ sync.repairs[m] # Null => present[m] /\ sync.repairs[m] = RowOf(roles[m])
          /\ m \in sync.prune => ~present[m]
          /\ sync.repairs[m] = Null /\ m \notin sync.prune => Agrees(m)

HandlersSound == \A t \in Tasks : SoundTask(task[t])

GoneWithoutRoles == \A m \in Members : ~present[m] => roles[m] = {}

(* Two handlers for one member leave it in drift and exempt. *)
OneHandler == \A m \in Members \ (drift \cap exempt) : Alone(m)

HeldExclusively == \A m \in Members \ exempt : OneTier(roles[m])

HandlersGranting ==
    \A t \in Tasks :
        task[t].step # "idle" /\ task[t].member \notin exempt => Granting(task[t])

HandlersOnCourse ==
    \A t \in Tasks :
        task[t].step # "idle" /\ task[t].member \notin drift => OnCourse(task[t])

SyncInv ==
    /\ sync.step = "prune" => sync.repairs = NoRows
    /\ sync.step # "idle" => \A m \in Members \ sync.touched : InSync(m)

(* What the proofs carry from state to state. *)
IInv == /\ TypeOK
        /\ HandlersSound
        /\ GoneWithoutRoles
        /\ OneHandler
        /\ HeldExclusively
        /\ HandlersGranting
        /\ HandlersOnCourse
        /\ SyncInv
        /\ StoredTierAgrees

=============================================================================
