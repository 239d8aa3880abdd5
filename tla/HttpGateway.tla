----------------------------- MODULE HttpGateway ----------------------------
(***************************************************************************)
(* The HTTP surface: the middleware chain of router/router.go, with the    *)
(* rate limiter in front of everything and again in front of each group    *)
(* (infrastructure/middleware/middleware.go), the audit record every       *)
(* request leaves on its way out, and the one handler with steps of its    *)
(* own, the upload (modules/upload, infrastructure/storage).               *)
(*                                                                         *)
(* A request slot is used again for the next request.  All clients come    *)
(* from one address.  Handlers other than the upload answer in one step;   *)
(* what those of auth and tickets do is in AuthTokens and TicketService.   *)
(***************************************************************************)
EXTENDS RateLimiter

CONSTANTS
    Groups,      \* the route groups requests are sent to
    Accounts,    \* holders of valid access tokens
    Operators,   \* OPERATOR_USER_IDS
    Address      \* the peer address

ASSUME GatewayAssumption ==
    /\ Null \notin Accounts
    /\ Address \notin Accounts \cup {Null}   \* "user:" and "ip:" keys

VARIABLES
    stage,    \* how far each request has come
    group,    \* the route group it asked for
    user,     \* user_id in its context
    disk,     \* what an upload has written: nothing, part of the file, all of it
    owner,    \* the owner in its row of uploaded_files, Null without a row
    audit     \* the actor in its row of audit_logs, "lost" without a row

chainVars == <<stage, group, user>>
effectVars == <<disk, owner, audit>>
gatewayVars == <<limiterVars, chainVars, effectVars>>

(* router.go, the groups of /api/v1. *)
AllGroups == {"health", "auth", "user", "uploads", "audit-logs", "tickets", "membership"}

Authenticated == {"user", "uploads", "audit-logs", "tickets", "membership"}

OperatorGroups == {"tickets", "membership"}

Limited == AllGroups \ {"health"}

(* The keys the chain asks the limiter for. *)
Clients(g) ==
    IF g \in OperatorGroups THEN Accounts \cap Operators
    ELSE IF g \in Authenticated THEN Accounts ELSE {Address}

ASSUME KeysAssumption ==
    /\ <<"global", Address>> \in Keys
    /\ \A g \in Groups \cap Limited : \A c \in Clients(g) : <<g, c>> \in Keys

GatewayInit ==
    /\ LimiterInit
    /\ stage = [r \in Requests |-> "idle"]
    /\ group = [r \in Requests |-> Null]
    /\ user = [r \in Requests |-> Null]
    /\ disk = [r \in Requests |-> "nothing"]
    /\ owner = [r \in Requests |-> Null]
    /\ audit = [r \in Requests |-> Null]

(* Mutant: the limit of a group is per address. *)
clientKeyAddress(r) == Address

(* clientKey: the account once it is known, the address before. *)
clientKey(r) == IF user[r] # Null THEN user[r] ELSE Address

(* Fails closed: nobody who is not listed, or not known, is an operator. *)
IsOperator(r) == user[r] # Null /\ user[r] \in Operators

Proceed(r, from, to) ==
    /\ stage[r] = from
    /\ stage' = [stage EXCEPT ![r] = to]

-----------------------------------------------------------------------------
(* The way in. *)

Arrive(r) ==
    /\ Proceed(r, "idle", "global")
    /\ Ask(r, <<"global", clientKey(r)>>)
    /\ UNCHANGED <<group, user, effectVars>>

(* The slot of a request that is answered. *)
Forget(r) ==
    /\ NewContext(r)
    /\ group' = [group EXCEPT ![r] = Null]
    /\ user' = [user EXCEPT ![r] = Null]
    /\ disk' = [disk EXCEPT ![r] = "nothing"]
    /\ owner' = [owner EXCEPT ![r] = Null]
    /\ audit' = [audit EXCEPT ![r] = Null]

(* 429 from the global limiter, before AuditLog is in the chain. *)
TooMany(r) ==
    /\ Proceed(r, "global", "idle")
    /\ Answer(r, "refused")
    /\ Forget(r)

(* The route decides what comes next. *)
PassGlobal(r) ==
    /\ \E g \in Groups :
          /\ Proceed(r, "global", IF g \in Authenticated THEN "auth"
                                  ELSE IF g \in Limited THEN "group" ELSE "handler")
          /\ group' = [group EXCEPT ![r] = g]
    /\ Answer(r, "allowed")
    /\ UNCHANGED <<canceled, user, effectVars>>

(* AuthMiddleware: an access token for the account, or none that parses:   *)
(* 401, which like every later refusal goes back through AuditLog.         *)
Authenticate(r) ==
    /\ \/ \E account \in Accounts :
             /\ Proceed(r, "auth", IF group[r] \in OperatorGroups THEN "operator" ELSE "group")
             /\ user' = [user EXCEPT ![r] = account]
       \/ Proceed(r, "auth", "unwind") /\ UNCHANGED user
    /\ UNCHANGED <<group, limiterVars, effectVars>>

(* OperatorMiddleware, where it is mounted. *)
CheckOperator(r) ==
    /\ Proceed(r, "operator", IF IsOperator(r) THEN "group" ELSE "unwind")
    /\ UNCHANGED <<group, user, limiterVars, effectVars>>

(* RateLimiterMiddlewareWithPrefix of the group. *)
AskGroup(r) ==
    /\ Proceed(r, "group", "limited")
    /\ Ask(r, <<group[r], clientKey(r)>>)
    /\ UNCHANGED <<group, user, effectVars>>

PassGroup(r) ==
    /\ \/ Proceed(r, "limited", "handler") /\ Answer(r, "allowed")
       \/ Proceed(r, "limited", "unwind") /\ Answer(r, "refused")
    /\ UNCHANGED <<canceled, group, user, effectVars>>

-----------------------------------------------------------------------------
(* The handlers. *)

(* Any other handler, the lists of users and audit logs with the 403 they  *)
(* give whoever is no operator, or an upload that is refused before        *)
(* anything is stored (no file, too large, wrong type).                    *)
Handle(r) ==
    /\ Proceed(r, "handler", "unwind")
    /\ UNCHANGED <<group, user, limiterVars, effectVars>>

(* LocalStorage.Save: a file of its own, the copy, ctx.Err.  A copy that   *)
(* fails leaves what it wrote.  The file is taken to be whole once it is   *)
(* copied: the errors of Seek before and of Close after are not looked at. *)
Saved(r, to, content) ==
    /\ group[r] = "uploads"
    /\ Proceed(r, "handler", to)
    /\ disk' = [disk EXCEPT ![r] = content]
    /\ UNCHANGED <<group, user, limiterVars, owner, audit>>

Save(r) == ~canceled[r] /\ Saved(r, "create", "whole")

SaveFails(r) ==
    \/ Saved(r, "unwind", "part")
    \/ canceled[r] /\ Saved(r, "unwind", "whole")

(* The row of uploaded_files; when the insert fails the file stays behind. *)
CreateRow(r) ==
    /\ Proceed(r, "create", "unwind")
    /\ owner' = [owner EXCEPT ![r] = user[r]]
    /\ UNCHANGED <<group, user, limiterVars, disk, audit>>

CreateRowFails(r) ==
    /\ Proceed(r, "create", "unwind")
    /\ UNCHANGED <<group, user, limiterVars, effectVars>>

-----------------------------------------------------------------------------
(* The way out. *)

Recorded(r, actor) ==
    /\ Proceed(r, "unwind", "answered")
    /\ audit' = [audit EXCEPT ![r] = actor]
    /\ UNCHANGED <<group, user, limiterVars, disk, owner>>

(* Mutant: the actor is taken from the context before the handlers run. *)
RecordNobody(r) == ~canceled[r] /\ Recorded(r, Null)

(* AuditLog after c.Next; health checks are skipped.  Record runs under    *)
(* the context of the request: a client that is gone gets no record, and   *)
(* an insert that fails is only logged.                                    *)
Record(r) == ~canceled[r] /\ Recorded(r, IF group[r] = "health" THEN "lost" ELSE user[r])

RecordLost(r) == Recorded(r, "lost")

(* The response is out. *)
Leave(r) ==
    /\ Proceed(r, "answered", "idle")
    /\ Forget(r)
    /\ UNCHANGED <<backend, key, call, localVars, redisVars>>

(* A handler panics: Recovery answers, the stack past AuditLog is gone. *)
Panic(r) ==
    /\ Proceed(r, "handler", "idle")
    /\ Forget(r)
    /\ UNCHANGED <<backend, key, call, localVars, redisVars>>

-----------------------------------------------------------------------------
ChainStep(r) ==
    \/ Arrive(r) \/ TooMany(r) \/ PassGlobal(r)
    \/ Authenticate(r) \/ CheckOperator(r)
    \/ AskGroup(r) \/ PassGroup(r)

HandlerStep(r) ==
    \/ Handle(r) \/ Save(r) \/ SaveFails(r) \/ CreateRow(r) \/ CreateRowFails(r)
    \/ Record(r) \/ RecordLost(r) \/ Leave(r) \/ Panic(r)

LimitStep(r) ==
    /\ AllowStep(r) \/ (stage[r] # "idle" /\ HangUp(r))
    /\ UNCHANGED <<chainVars, effectVars>>

(* The requests die with the process. *)
RestartGateway ==
    /\ Restart
    /\ stage' = [r \in Requests |-> "idle"]
    /\ group' = [r \in Requests |-> Null]
    /\ user' = [r \in Requests |-> Null]
    /\ disk' = [r \in Requests |-> "nothing"]
    /\ owner' = [r \in Requests |-> Null]
    /\ audit' = [r \in Requests |-> Null]

GatewayNext ==
    \/ \E r \in Requests : ChainStep(r) \/ HandlerStep(r) \/ LimitStep(r)
    \/ TimePasses /\ UNCHANGED <<chainVars, effectVars>>
    \/ RestartGateway

GatewaySpec == GatewayInit /\ [][GatewayNext]_gatewayVars

-----------------------------------------------------------------------------
Stages == {"idle", "global", "auth", "operator", "group", "limited", "handler",
           "create", "unwind", "answered"}

TypeOK ==
    /\ stage \in [Requests -> Stages]
    /\ group \in [Requests -> Groups \cup {Null}]
    /\ user \in [Requests -> Accounts \cup {Null}]
    /\ disk \in [Requests -> {"nothing", "part", "whole"}]
    /\ owner \in [Requests -> Accounts \cup {Null}]
    /\ DOMAIN audit = Requests
    /\ DOMAIN key = Requests

(* What is known of a request at each stage of the chain: the account only *)
(* behind AuthMiddleware and always there, an operator behind the operator *)
(* gate, the file before its row, the row before its record.               *)
ChainInv(r) ==
    /\ stage[r] \in {"idle", "global", "auth"} => user[r] = Null
    /\ stage[r] \in {"auth", "operator"} => group[r] \in Authenticated
    /\ stage[r] = "operator" => group[r] \in OperatorGroups /\ user[r] # Null
    /\ stage[r] \in {"auth", "operator", "group"} => group[r] \in Groups \cap Limited
    /\ stage[r] \in {"group", "limited", "handler", "create"} =>
          (user[r] # Null <=> group[r] \in Authenticated)
    /\ stage[r] \in {"group", "limited"} /\ group[r] \in OperatorGroups => user[r] \in Operators
    /\ stage[r] = "global" => key[r] = <<"global", Address>>
    /\ stage[r] = "limited" => key[r] = <<group[r], clientKey(r)>>
    /\ stage[r] = "create" => disk[r] = "whole" /\ group[r] = "uploads"
    /\ owner[r] # Null => disk[r] = "whole" /\ owner[r] = user[r] /\ stage[r] \in {"unwind", "answered"}
    /\ stage[r] = "answered" /\ group[r] # "health" => audit[r] \in {user[r], "lost"}
    /\ group[r] = "health" => owner[r] = Null /\ stage[r] # "create"

GatewayInv == TypeOK /\ \A r \in Requests : ChainInv(r)

(* The allowance a request takes from is its caller's own: the one of its  *)
(* address before AuthMiddleware and in the groups without it, the one of  *)
(* the account behind its token in the others, whatever address it comes   *)
(* from; and whoever is no operator takes nothing from an operator group's.*)
ChargedToCaller ==
    \A r \in Requests :
        /\ stage[r] = "global" => key[r] = <<"global", Address>>
        /\ stage[r] = "limited" =>
              /\ IF group[r] \in Authenticated
                 THEN user[r] \in Accounts /\ key[r] = <<group[r], user[r]>>
                 ELSE key[r] = <<group[r], Address>>
              /\ group[r] \in OperatorGroups => user[r] \in Operators

(* What uploaded_files lists is on the disk in full, whichever step of the *)
(* upload fails, and when the response is out it is in "the record of who  *)
(* did what" under its owner's name, unless that record was lost.          *)
UploadAccounted ==
    \A r \in Requests :
        owner[r] # Null =>
            /\ disk[r] = "whole"
            /\ stage[r] = "answered" => audit[r] \in {owner[r], "lost"}

=============================================================================
