----------------------------- MODULE BotProcess -----------------------------
(***************************************************************************)
(* The life of the processes that run the bot, and the admin queue they    *)
(* watch: main.go, Open and Close (modules/discordbot/bot.go), the process *)
(* lock (lock.go), the readiness probe (modules/health/service.go) and the *)
(* reminder (ops.go).                                                      *)
(*                                                                         *)
(* A deployment starts the new process while the old one is still there.   *)
(* data/bot.lock, an flock the operating system drops when its process     *)
(* ends, and data/bot.pid are on the disk they share.  The queue is one    *)
(* ticket, whose life is WorkflowWalk.                                     *)
(***************************************************************************)
EXTENDS WorkflowWalk

CONSTANTS Processes, Null

ASSUME NullAssumption == Null \notin Processes

VARIABLES
    stage,     \* how far each process has come
    lock,      \* who holds bot.lock
    pid,       \* whom bot.pid names
    gateway,   \* the gateway session of each process, as GatewayStatus sees it
    cooling,   \* whether the last reminder is less than reminderCooldown ago
    assigned,  \* the ticket has been claimed
    aged,      \* it was opened at least 30 minutes ago
    announced  \* history: a reminder that counts it has been posted

processVars == <<stage, lock, pid, gateway, cooling>>

ticketVars == <<vars, assigned, aged, announced>>

allVars == <<processVars, ticketVars>>

(* In the order of main.go and Open: the HTTP server listens, the health   *)
(* service knows the gateway, the lock is held, the heartbeat is written   *)
(* and the SaaS credential primed, the session is open, the reminder runs; *)
(* then Shutdown of the HTTP server, and Close up to session.Close.        *)
Stages == {"down", "boot", "attached", "locked", "primed", "online", "serving",
           "draining", "released"}

Connected == {"online", "serving", "draining", "released"}

(* DataReady with a heartbeat acknowledged in the last three minutes, with *)
(* an older one, or no DataReady. *)
GatewayStates == {"acked", "stale", "down"}

-----------------------------------------------------------------------------
ProcessInit ==
    /\ stage = [p \in Processes |-> "down"]
    /\ lock = Null
    /\ pid = Null
    /\ gateway = [p \in Processes |-> "down"]
    /\ cooling = [p \in Processes |-> FALSE]

BotInit ==
    /\ Init
    /\ ProcessInit
    /\ assigned = FALSE /\ aged = FALSE /\ announced = FALSE

Advance(p, from, to) ==
    /\ stage[p] = from
    /\ stage' = [stage EXCEPT ![p] = to]

(* boot.MakeHandler, and the goroutine that listens. *)
Boot(p) ==
    /\ Advance(p, "down", "boot")
    /\ UNCHANGED <<lock, pid, gateway, cooling, ticketVars>>

(* discordbot.New and SetGateway. *)
Attach(p) ==
    /\ Advance(p, "boot", "attached")
    /\ UNCHANGED <<lock, pid, gateway, cooling, ticketVars>>

(* Mutant: the lock file is taken over without asking. *)
acquireBotLockAlways(p) ==
    /\ Advance(p, "attached", "locked")
    /\ lock' = p
    /\ UNCHANGED <<pid, gateway, cooling, ticketVars>>

acquireBotLock(p) ==
    /\ lock = Null
    /\ Advance(p, "attached", "locked")
    /\ lock' = p
    /\ UNCHANGED <<pid, gateway, cooling, ticketVars>>

(* writeHeartbeat and primeSaaSToken, whose failures are not fatal. *)
Prime(p) ==
    /\ Advance(p, "locked", "primed")
    /\ pid' = p
    /\ UNCHANGED <<lock, gateway, cooling, ticketVars>>

(* session.Open succeeds: handlers run from here on. *)
OpenSession(p) ==
    /\ Advance(p, "primed", "online")
    /\ gateway' = [gateway EXCEPT ![p] = "acked"]
    /\ UNCHANGED <<lock, pid, cooling, ticketVars>>

(* The commands are registered and the reminder starts. *)
RegisterCommands(p) ==
    /\ Advance(p, "online", "serving")
    /\ UNCHANGED <<lock, pid, gateway, cooling, ticketVars>>

(* SIGTERM: the HTTP server shuts down while the bot still answers. *)
Shutdown(p) ==
    /\ Advance(p, "serving", "draining")
    /\ UNCHANGED <<lock, pid, gateway, cooling, ticketVars>>

(* Close stops the reminder and releases the lock ... *)
Close(p) ==
    /\ Advance(p, "draining", "released")
    /\ lock' = Null
    /\ UNCHANGED <<pid, gateway, cooling, ticketVars>>

(* ... before session.Close, after which the process ends.  It may end at  *)
(* any moment: killed, or by Fatalf when another process has the lock, the *)
(* session does not open, the commands are not registered or Shutdown      *)
(* takes too long.  The system closes its session and frees its lock.      *)
Exit(p) ==
    /\ stage[p] # "down"
    /\ stage' = [stage EXCEPT ![p] = "down"]
    /\ lock' = IF lock = p THEN Null ELSE lock
    /\ gateway' = [gateway EXCEPT ![p] = "down"]
    /\ cooling' = [cooling EXCEPT ![p] = FALSE]
    /\ UNCHANGED <<pid, ticketVars>>

(* The session loses the gateway, hears nothing from it, or is back. *)
GatewayChanges(p) ==
    /\ stage[p] \in Connected
    /\ \E now \in GatewayStates \ {gateway[p]} : gateway' = [gateway EXCEPT ![p] = now]
    /\ UNCHANGED <<stage, lock, pid, cooling, ticketVars>>

-----------------------------------------------------------------------------
(* The queue and the reminder. *)

(* Mutant: a ticket that moved on without an assignee is forgotten. *)
NeedsReminderOpenOnly == ~assigned /\ status = "open" /\ aged

NeedsReminder ==
    /\ ~assigned
    /\ status \notin {"resolved", "cancelled", "closed", "paid", "rejected"}
    /\ aged

(* tickReminder, when it posts.  The stop channel may be closed and the    *)
(* ticker due at the same time, so one more tick may follow Close.         *)
TickDue(p) ==
    /\ stage[p] \in {"serving", "draining", "released"}
    /\ ~cooling[p]
    /\ NeedsReminder

TickPosts(p) ==
    /\ TickDue(p)
    /\ cooling' = [cooling EXCEPT ![p] = TRUE]
    /\ announced' = TRUE
    /\ UNCHANGED <<stage, lock, pid, gateway, vars, assigned, aged>>

(* There is no staff log, or the post fails: the cooldown runs all the same. *)
TickLost(p) ==
    /\ TickDue(p)
    /\ cooling' = [cooling EXCEPT ![p] = TRUE]
    /\ UNCHANGED <<stage, lock, pid, gateway, ticketVars>>

(* Mutant: the cooldown of a reminder that went nowhere never ends. *)
CooldownOverIfPosted(p) ==
    /\ cooling[p] /\ announced
    /\ cooling' = [cooling EXCEPT ![p] = FALSE]
    /\ UNCHANGED <<stage, lock, pid, gateway, ticketVars>>

CooldownOver(p) ==
    /\ cooling[p]
    /\ cooling' = [cooling EXCEPT ![p] = FALSE]
    /\ UNCHANGED <<stage, lock, pid, gateway, ticketVars>>

Age ==
    /\ ~aged
    /\ aged' = TRUE
    /\ UNCHANGED <<processVars, vars, assigned, announced>>

Assign ==
    /\ ~assigned
    /\ assigned' = TRUE
    /\ UNCHANGED <<processVars, vars, aged, announced>>

Walk == Next /\ UNCHANGED <<processVars, assigned, aged, announced>>

-----------------------------------------------------------------------------
ProcessStep(p) ==
    \/ Boot(p)
    \/ Attach(p)
    \/ acquireBotLock(p)
    \/ Prime(p)
    \/ OpenSession(p)
    \/ RegisterCommands(p)
    \/ Shutdown(p)
    \/ Close(p)
    \/ Exit(p)
    \/ GatewayChanges(p)

ReminderStep(p) == TickPosts(p) \/ TickLost(p) \/ CooldownOver(p)

BotNext ==
    \/ \E p \in Processes : ProcessStep(p) \/ ReminderStep(p)
    \/ Age \/ Assign \/ Walk

(* The ticker ticks and the clock runs; a post that is tried again and     *)
(* again succeeds some time.                                               *)
Fairness ==
    \A p \in Processes :
        /\ WF_allVars(CooldownOver(p))
        /\ SF_allVars(TickPosts(p))

BotSpec == BotInit /\ [][BotNext]_allVars /\ Fairness

-----------------------------------------------------------------------------
(* Readiness, as the HTTP server answers for it when the database does. *)

(* Mutant: the probe proves that HTTP and the database are up, no more. *)
ReadyIgnoresGateway(p) == stage[p] # "down"

(* Before SetGateway the prober is nil and the gateway counts as disabled. *)
Ready(p) == stage[p] = "boot" \/ (stage[p] # "down" /\ gateway[p] = "acked")

-----------------------------------------------------------------------------
TypeOK ==
    /\ stage \in [Processes -> Stages]
    /\ lock \in Processes \cup {Null}
    /\ pid \in Processes \cup {Null}
    /\ gateway \in [Processes -> GatewayStates]
    /\ cooling \in [Processes -> BOOLEAN]
    /\ assigned \in BOOLEAN /\ aged \in BOOLEAN /\ announced \in BOOLEAN

Holding == {"locked", "primed", "online", "serving", "draining"}

(* bot.lock is held by the process that acquired it and has not released   *)
(* it, never by one that is gone, and bot.pid is then its own; a process   *)
(* without an open session does not count as connected.                    *)
BotInv ==
    /\ TypeOK
    /\ \A p \in Processes : lock = p <=> stage[p] \in Holding
    /\ \A p \in Processes : stage[p] \in Holding \ {"locked"} => pid = p
    /\ \A p \in Processes : gateway[p] # "down" => stage[p] \in Connected

(* Two processes have sessions open at the same time only while one of     *)
(* them is past Close's release of the lock and about to close its own:    *)
(* at no other time is an interaction handled twice.                       *)
OneGateway ==
    \A p, q \in Processes :
        p # q /\ stage[p] \in Connected /\ stage[q] \in Connected
            => "released" \in {stage[p], stage[q]}

(* "/health/ready never reports a false ok": past its first moments a      *)
(* process that reports ready is the one that holds bot.lock, or held it   *)
(* until its Close.  One that waits at the lock, or lost it, is not ready. *)
ReadyHolder ==
    \A p \in Processes :
        Ready(p) /\ stage[p] # "boot" => lock = p \/ stage[p] = "released"

(* The status menu still offers the unassigned, aged ticket a move that is *)
(* work: something other than closing the books on it.                     *)
WaitsForAdmin ==
    ~assigned /\ aged /\ NextStatuses(type, workflow, status) \ {"closed"} # {}

(* The reminder's own list of statuses agrees with the workflows': it      *)
(* counts a ticket exactly while there is work left in it.                 *)
RemindsOfWork == NeedsReminder <=> WaitsForAdmin

(* A ticket left waiting is announced while a process keeps serving, and a *)
(* post that is lost is made again after the cooldown.                     *)
QueueAnnounced ==
    \A p \in Processes :
        WaitsForAdmin /\ stage[p] = "serving"
            ~> announced \/ ~WaitsForAdmin \/ stage[p] # "serving"

=============================================================================
