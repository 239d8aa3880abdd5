------------------------------ MODULE SaasToken -----------------------------
(***************************************************************************)
(* The bot's SaaS credential (modules/discordbot/saas_token.go) and the    *)
(* /revenue calls that use it (bot.go, saasGet).                           *)
(*                                                                         *)
(* The SaaS issues refresh tokens one after the other; the pair it issues  *)
(* n-th is the number n.  A refresh token that was already rotated revokes *)
(* the whole family.  A process keeps one pair in memory under a mutex and *)
(* one in a file; callers run concurrently, calls may be lost and the      *)
(* process may be killed.  The next process may be started before the old  *)
(* one has ended: it reads the file in New, before it takes bot.lock, and  *)
(* Close releases bot.lock before the old one's callers are done.          *)
(***************************************************************************)
EXTENDS Naturals

CONSTANTS
    Processes, \* bot processes, old and new
    Callers,   \* their goroutines that look the revenue up
    Host,      \* the process of each caller
    MaxToken,  \* bound: token pairs the SaaS issues
    Null       \* no token, nobody

(* The accidents that may cost the bot the newest pair.  lostReply: the    *)
(* SaaS rotated but its answer does not arrive in time.  disk: the token   *)
(* file cannot be written.  crash: the process dies after the SaaS rotated *)
(* and before the file is written.  overlap: a token was rotated that      *)
(* another process had read from the file or was about to read.            *)
AllFaults == {"lostReply", "disk", "crash", "overlap"}

(* Of the cached access token, by its expiry: good for more than the       *)
(* minute of skew, for less than that, or not at all.  Invalidate zeroes   *)
(* the expiry: not at all.                                                 *)
Ages == {"fresh", "skew", "expired"}

Tokens == 0..MaxToken

ASSUME SaasAssumption ==
    /\ Host \in [Callers -> Processes]
    /\ MaxToken \in Nat
    /\ Null \notin Tokens \cup Callers

VARIABLES
    latest,   \* SaaS: the newest refresh token
    alive,    \* SaaS: the family is not revoked
    file,     \* disk: the persisted pair, Null when there is no file
    stage,    \* how far each process has come
    age,      \* memory and clock: how old its access token is
    refresh,  \* memory: refresh token
    access,   \* memory: access token, Null when empty
    holder,   \* who holds its mutex
    pc,       \* where each caller is
    got,      \* the token each caller is being given, or was and uses
    retried,  \* saasGet's attempt # 0
    faults    \* history: the accidents that have happened

saas == <<latest, alive>>
memory == <<refresh, access, age>>
vars == <<saas, file, stage, memory, holder, pc, got, retried, faults>>

(* loaded: New has run and Open not yet; open: it holds bot.lock; closing: *)
(* Close has released the lock.                                            *)
Stages == {"down", "loaded", "open", "closing"}

(* The steps of rotateLocked and of Access around it, mutex held. *)
Rotating == {"post", "reply", "persist", "failed"}

Steps == {"idle", "access", "fetch", "invalidate"} \cup Rotating

(* freshLocked, with the minute of skew; and the looser test by which      *)
(* Access falls back on a token that has not expired yet.                  *)
Fresh(p) == access[p] # Null /\ age[p] = "fresh"
Usable(p) == access[p] # Null /\ age[p] # "expired"

(* The caller whose rotation the SaaS has made and the file does not show. *)
Bringing(c) == (pc[c] = "reply" /\ got[c] # Null) \/ pc[c] = "persist"

Init ==
    /\ latest = 0
    /\ alive = TRUE
    /\ file = Null
    /\ stage = [p \in Processes |-> "down"]
    /\ age = [p \in Processes |-> "expired"]
    /\ refresh = [p \in Processes |-> 0]
    /\ access = [p \in Processes |-> Null]
    /\ holder = [p \in Processes |-> Null]
    /\ pc = [c \in Callers |-> "idle"]
    /\ got = [c \in Callers |-> Null]
    /\ retried = [c \in Callers |-> FALSE]
    /\ faults = {}

-----------------------------------------------------------------------------
(* The callers of a process. *)

Goto(c, step) == pc' = [pc EXCEPT ![c] = step]
Drop(c) == got' = [got EXCEPT ![c] = Null]

(* The call returns, with the revenue or an error. *)
Done(c) ==
    /\ Goto(c, "idle")
    /\ Drop(c)
    /\ retried' = [retried EXCEPT ![c] = FALSE]

(* saasGet begins (and so does primeSaaSToken, which ends after Access),   *)
(* from Open until the session is closed or the process ends.              *)
Call(c) ==
    /\ pc[c] = "idle"
    /\ stage[Host[c]] \in {"open", "closing"}
    /\ Goto(c, "access")
    /\ UNCHANGED <<saas, file, stage, memory, holder, got, retried, faults>>

(* Access: a fresh token is returned at once, otherwise the mutex is kept  *)
(* for a rotation.                                                         *)
Access(c) ==
    LET p == Host[c]
    IN  /\ pc[c] = "access"
        /\ holder[p] = Null
        /\ \/ /\ Fresh(p)
              /\ got' = [got EXCEPT ![c] = access[p]]
              /\ Goto(c, "fetch")
              /\ UNCHANGED holder
           \/ /\ ~Fresh(p)
              /\ holder' = [holder EXCEPT ![p] = c]
              /\ Goto(c, "post")
              /\ UNCHANGED got
        /\ UNCHANGED <<saas, file, stage, memory, retried, faults>>

(* The refresh request reaches the SaaS: the newest token is exchanged for *)
(* its successor, which makes the copy of any other process a stale one;   *)
(* an older one revokes the family.                                        *)
Post(c) ==
    LET p == Host[c]
    IN  /\ pc[c] = "post"
        /\ Goto(c, "reply")
        /\ \/ /\ alive /\ refresh[p] = latest /\ latest < MaxToken
              /\ latest' = latest + 1
              /\ got' = [got EXCEPT ![c] = latest + 1]
              /\ faults' = IF \A q \in Processes \ {p} : stage[q] = "down"
                           THEN faults ELSE faults \cup {"overlap"}
              /\ UNCHANGED alive
           \/ /\ alive' = (alive /\ refresh[p] = latest)
              /\ Drop(c)
              /\ UNCHANGED <<latest, faults>>
        /\ UNCHANGED <<file, stage, memory, holder, retried>>

(* The request does not reach the SaaS. *)
PostLost(c) ==
    /\ pc[c] = "post"
    /\ Goto(c, "failed")
    /\ UNCHANGED <<saas, file, stage, memory, holder, got, retried, faults>>

(* The answer does not reach the bot, which is an accident if the SaaS     *)
(* rotated.                                                                *)
ReplyLost(c) ==
    /\ pc[c] = "reply"
    /\ faults' = IF got[c] = Null THEN faults ELSE faults \cup {"lostReply"}
    /\ Goto(c, "failed")
    /\ Drop(c)
    /\ UNCHANGED <<saas, file, stage, memory, holder, retried>>

(* The answer arrives: refused, or a pair that replaces the one in memory. *)
Receive(c) ==
    LET p == Host[c]
    IN  /\ pc[c] = "reply"
        /\ \/ /\ got[c] = Null
              /\ Goto(c, "failed")
              /\ UNCHANGED memory
           \/ /\ got[c] # Null
              /\ refresh' = [refresh EXCEPT ![p] = got[c]]
              /\ access' = [access EXCEPT ![p] = got[c]]
              /\ age' = [age EXCEPT ![p] = "expired"]
              /\ Goto(c, "persist")
        /\ Drop(c)
        /\ UNCHANGED <<saas, file, stage, holder, retried, faults>>

(* Access returns the access token in memory. *)
Return(c) ==
    /\ holder' = [holder EXCEPT ![Host[c]] = Null]
    /\ got' = [got EXCEPT ![c] = access[Host[c]]]
    /\ Goto(c, "fetch")

(* Mutant: the pair is handed out, nothing is written. *)
PersistSkipped(c) ==
    /\ pc[c] = "persist"
    /\ Return(c)
    /\ UNCHANGED <<saas, file, stage, memory, retried, faults>>

(* persist writes a temporary file and renames it: all or nothing. *)
Persist(c) ==
    /\ pc[c] = "persist"
    /\ file' = refresh[Host[c]]
    /\ Return(c)
    /\ UNCHANGED <<saas, stage, memory, retried, faults>>

PersistFails(c) ==
    /\ pc[c] = "persist"
    /\ faults' = faults \cup {"disk"}
    /\ Goto(c, "failed")
    /\ UNCHANGED <<saas, file, stage, memory, holder, got, retried>>

(* Mutant: the error path returns with the mutex locked. *)
FailedKeepsLock(c) ==
    /\ pc[c] = "failed"
    /\ Done(c)
    /\ UNCHANGED <<saas, file, stage, memory, holder, faults>>

(* rotateLocked returned an error: the cached token if it is still valid,  *)
(* the error otherwise.                                                    *)
Failed(c) ==
    /\ pc[c] = "failed"
    /\ \/ Usable(Host[c]) /\ Return(c) /\ UNCHANGED retried
       \/ ~Usable(Host[c]) /\ Done(c) /\ holder' = [holder EXCEPT ![Host[c]] = Null]
    /\ UNCHANGED <<saas, file, stage, memory, faults>>

(* The revenue request: done (or failed), or the first 401. *)
Fetch(c) ==
    /\ pc[c] = "fetch"
    /\ \/ Done(c)
       \/ ~retried[c] /\ Goto(c, "invalidate") /\ Drop(c) /\ UNCHANGED retried
    /\ UNCHANGED <<saas, file, stage, memory, holder, faults>>

(* Invalidate, and round again. *)
Invalidate(c) ==
    /\ pc[c] = "invalidate"
    /\ holder[Host[c]] = Null
    /\ age' = [age EXCEPT ![Host[c]] = "expired"]
    /\ retried' = [retried EXCEPT ![c] = TRUE]
    /\ Goto(c, "access")
    /\ UNCHANGED <<saas, file, stage, refresh, access, holder, got, faults>>

-----------------------------------------------------------------------------
(* The processes. *)

(* Time passes. *)
Expire(p) ==
    /\ age[p] # "expired"
    /\ age' = [age EXCEPT ![p] = IF @ = "fresh" THEN "skew" ELSE "expired"]
    /\ UNCHANGED <<saas, file, stage, refresh, access, holder, pc, got, retried, faults>>

(* Mutant: the environment outranks the file. *)
LoadEnvironment(p) ==
    /\ refresh' = [refresh EXCEPT ![p] = 0]
    /\ access' = [access EXCEPT ![p] = Null]
    /\ UNCHANGED age

(* newSaaSToken and load: the file outranks the environment, which holds   *)
(* the first refresh token and no access token.  A pair that was read      *)
(* brings an age of its own.                                               *)
Load(p) ==
    /\ refresh' = [refresh EXCEPT ![p] = IF file = Null THEN 0 ELSE file]
    /\ access' = [access EXCEPT ![p] = file]
    /\ \E a \in IF file = Null THEN {"expired"} ELSE Ages : age' = [age EXCEPT ![p] = a]

(* New, whatever other processes are doing; it reads the pair before the   *)
(* newest if the newest is about to be written. *)
Start(p) ==
    /\ stage[p] = "down"
    /\ stage' = [stage EXCEPT ![p] = "loaded"]
    /\ Load(p)
    /\ faults' = IF \E c \in Callers : Bringing(c) THEN faults \cup {"overlap"} ELSE faults
    /\ UNCHANGED <<saas, file, holder, pc, got, retried>>

(* Open, once bot.lock is free. *)
Open(p) ==
    /\ stage[p] = "loaded"
    /\ \A q \in Processes : stage[q] # "open"
    /\ stage' = [stage EXCEPT ![p] = "open"]
    /\ UNCHANGED <<saas, file, memory, holder, pc, got, retried, faults>>

(* Close releases bot.lock; calls in flight go on. *)
Close(p) ==
    /\ stage[p] = "open"
    /\ stage' = [stage EXCEPT ![p] = "closing"]
    /\ UNCHANGED <<saas, file, memory, holder, pc, got, retried, faults>>

(* The process ends: after Close, because bot.lock was held, or because it *)
(* is killed at any moment.                                                *)
Exit(p) ==
    LET ours == {c \in Callers : Host[c] = p}
    IN  /\ stage[p] # "down"
        /\ stage' = [stage EXCEPT ![p] = "down"]
        /\ faults' = IF \E c \in ours : Bringing(c) THEN faults \cup {"crash"} ELSE faults
        /\ age' = [age EXCEPT ![p] = "expired"]
        /\ refresh' = [refresh EXCEPT ![p] = 0]
        /\ access' = [access EXCEPT ![p] = Null]
        /\ holder' = [holder EXCEPT ![p] = Null]
        /\ pc' = [c \in Callers |-> IF c \in ours THEN "idle" ELSE pc[c]]
        /\ got' = [c \in Callers |-> IF c \in ours THEN Null ELSE got[c]]
        /\ retried' = [c \in Callers |-> IF c \in ours THEN FALSE ELSE retried[c]]
        /\ UNCHANGED <<saas, file>>

CallerStep(c) ==
    \/ Access(c) \/ Post(c) \/ PostLost(c) \/ ReplyLost(c) \/ Receive(c)
    \/ Persist(c) \/ PersistFails(c) \/ Failed(c) \/ Fetch(c) \/ Invalidate(c)

Next ==
    \/ \E c \in Callers : Call(c) \/ CallerStep(c)
    \/ \E p \in Processes : Expire(p) \/ Start(p) \/ Open(p) \/ Close(p) \/ Exit(p)

Spec == Init /\ [][Next]_vars

(* A caller that can move moves; sync.Mutex hands itself to a waiter that  *)
(* has waited too long, hence strong fairness, which says no more than     *)
(* weak fairness where the mutex is not taken.                             *)
Fairness == \A c \in Callers : SF_vars(CallerStep(c))

LiveSpec == Spec /\ Fairness

-----------------------------------------------------------------------------
(* Every variable has the value its declaration allows. *)
TypeOK ==
    /\ latest \in Tokens
    /\ alive \in BOOLEAN
    /\ file \in Tokens \cup {Null}
    /\ stage \in [Processes -> Stages]
    /\ age \in [Processes -> Ages]
    /\ refresh \in [Processes -> Tokens]
    /\ access \in [Processes -> Tokens \cup {Null}]
    /\ holder \in [Processes -> Callers \cup {Null}]
    /\ pc \in [Callers -> Steps]
    /\ got \in [Callers -> Tokens \cup {Null}]
    /\ retried \in [Callers -> BOOLEAN]
    /\ faults \subseteq AllFaults

(* "Never present a refresh token twice": until an accident costs the bot  *)
(* the newest pair, or a token is rotated that an overlapping process has  *)
(* read, no interleaving of callers, expiry, lost requests, 401s, starts   *)
(* and kills makes the SaaS revoke the token family.                       *)
FamilyAlive == faults = {} => alive

(* "persists the replacement before it is used" (saasToken): an access     *)
(* token in a caller's hands comes from a pair the file already has, or    *)
(* has replaced.  Access breaks it when persist fails.                     *)
OnDisk(n) == n # Null /\ file # Null /\ n <= file

PersistBeforeUse == \A c \in Callers : pc[c] = "fetch" => OnDisk(got[c])

(* The same until the file cannot be written: lost answers, kills at any   *)
(* moment and processes that overlap do not break it.                      *)
PersistUnlessDiskFails == "disk" \in faults \/ PersistBeforeUse

(* Every call ends: the mutex is always given back, and a 401 is retried   *)
(* once, "not looped on".                                                  *)
CallEnds == \A c \in Callers : pc[c] # "idle" ~> pc[c] = "idle"

-----------------------------------------------------------------------------
(* The inductive invariant. *)

(* The mutex of a process is held by its caller that rotates, and a        *)
(* process that is down has no callers. *)
MutexInv ==
    /\ \A c \in Callers : pc[c] \in Rotating <=> holder[Host[c]] = c
    /\ \A c \in Callers : stage[Host[c]] = "down" => pc[c] = "idle"

(* What the SaaS issued last is the newest pair anywhere; while it is on   *)
(* its way to the file one caller brings it and nobody else has it.        *)
NewestInv ==
    /\ file # Null => file <= latest
    /\ \A p \in Processes : refresh[p] <= latest
    /\ \A c \in Callers : Bringing(c) =>
          /\ file # Null => file < latest
          /\ \A p \in Processes \ {Host[c]} : refresh[p] < latest
          /\ pc[c] = "reply" => got[c] = latest /\ refresh[Host[c]] < latest
          /\ pc[c] = "persist" => refresh[Host[c]] = latest
    /\ \A c, d \in Callers : Bringing(c) /\ Bringing(d) => c = d

(* What is in the memory of a process or on its way to a caller has been   *)
(* written, except while it is being written.                              *)
DiskInv ==
    /\ \A p \in Processes :
          /\ access[p] \in {refresh[p], Null}
          /\ \/ access[p] = Null
             \/ OnDisk(access[p])
             \/ "disk" \in faults
             \/ \E c \in Callers : Host[c] = p /\ pc[c] = "persist"
    /\ \A c \in Callers : pc[c] = "persist" => access[Host[c]] = refresh[Host[c]]
    /\ PersistUnlessDiskFails

(* Without accidents a process that brings the newest pair is alone; and   *)
(* while nobody does, the file and every process have it.                  *)
ChainInv ==
    /\ alive
    /\ \A c \in Callers : Bringing(c) =>
          \A p \in Processes \ {Host[c]} : stage[p] = "down"
    /\ (\A c \in Callers : ~Bringing(c)) =>
          /\ latest = IF file = Null THEN 0 ELSE file
          /\ \A p \in Processes : stage[p] # "down" => refresh[p] = latest

SaasInv == TypeOK /\ MutexInv /\ NewestInv /\ DiskInv /\ (faults = {} => ChainInv)

=============================================================================
