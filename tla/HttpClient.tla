----------------------------- MODULE HttpClient -----------------------------
(***************************************************************************)
(* infrastructure/client/http/client.go: Do, its retries, and the circuit  *)
(* breaker all callers of a client share.  The breaker is two atomics and  *)
(* one goroutine per opening; nothing makes them move together, so several *)
(* goroutines may sleep at once and an old one may close a circuit a newer *)
(* failure has opened.                                                     *)
(***************************************************************************)
EXTENDS Integers

CONSTANTS
    Callers,
    Threshold,    \* failed calls that open the circuit, 5 in the code
    maxRetries,   \* 2 in the code
    MaxSleeping   \* bound: goroutines that have not closed the circuit yet

ASSUME ClientAssumption ==
    /\ Threshold \in Nat \ {0}
    /\ maxRetries \in Nat
    /\ MaxSleeping \in Nat \ {0}

VARIABLES
    at,             \* where each caller is
    attempt,        \* of its loop in Do
    circuitOpen,
    failureCount,
    sleeping,       \* goroutines within their 30 s
    waking          \* goroutines between their two stores

callVars == <<at, attempt>>
breakerVars == <<circuitOpen, failureCount, sleeping, waking>>
clientVars == <<callVars, breakerVars>>

ClientInit ==
    /\ at = [c \in Callers |-> "idle"]
    /\ attempt = [c \in Callers |-> 0]
    /\ circuitOpen = FALSE
    /\ failureCount = 0
    /\ sleeping = 0
    /\ waking = 0

(* A process that starts again has a client of its own. *)
NewClient ==
    /\ at' = [c \in Callers |-> "idle"]
    /\ attempt' = [c \in Callers |-> 0]
    /\ circuitOpen' = FALSE
    /\ failureCount' = 0
    /\ sleeping' = 0
    /\ waking' = 0

Move(c, from, to) ==
    /\ at[c] = from
    /\ at' = [at EXCEPT ![c] = to]

-----------------------------------------------------------------------------
(* The open circuit refuses the call, and validateURL a URL that is not    *)
(* http(s), names a private address or a host that is not allowed.         *)
Refuse(c, valid) ==
    /\ Move(c, "work", "failed")
    /\ circuitOpen \/ ~valid
    /\ UNCHANGED <<attempt, breakerVars>>

Begin(c, valid) ==
    /\ Move(c, "work", "send")
    /\ ~circuitOpen /\ valid
    /\ attempt' = [attempt EXCEPT ![c] = 0]
    /\ UNCHANGED breakerVars

(* Any answer below 500. *)
Succeed(c) ==
    /\ Move(c, "send", "succeeded")
    /\ failureCount' = 0
    /\ UNCHANGED <<attempt, circuitOpen, sleeping, waking>>

(* No answer, or 5xx: GET, HEAD and OPTIONS are tried again. *)
Fail(c, idempotent) ==
    /\ Move(c, "send", IF idempotent THEN "backoff" ELSE "count")
    /\ UNCHANGED <<attempt, breakerVars>>

Retry(c) ==
    /\ Move(c, "backoff", IF attempt[c] < maxRetries THEN "send" ELSE "count")
    /\ attempt' = [attempt EXCEPT ![c] = IF @ < maxRetries THEN @ + 1 ELSE 0]
    /\ UNCHANGED breakerVars

(* Bound: counts past the threshold are one count. *)
Capped(n) == IF n > Threshold THEN Threshold + 1 ELSE n

Count(c) ==
    /\ failureCount' = Capped(failureCount + 1)
    /\ Move(c, "count", IF failureCount' >= Threshold THEN "open" ELSE "failed")
    /\ UNCHANGED <<attempt, circuitOpen, sleeping, waking>>

Open(c) ==
    /\ Move(c, "open", "failed")
    /\ sleeping + waking < MaxSleeping
    /\ circuitOpen' = TRUE
    /\ sleeping' = sleeping + 1
    /\ UNCHANGED <<attempt, failureCount, waking>>

(* Mutant: the goroutine leaves the count. *)
WakeKeepsCount ==
    /\ sleeping > 0
    /\ sleeping' = sleeping - 1
    /\ waking' = waking + 1
    /\ UNCHANGED <<callVars, circuitOpen, failureCount>>

(* The goroutine of an opening, its two stores. *)
Wake ==
    /\ sleeping > 0
    /\ sleeping' = sleeping - 1
    /\ waking' = waking + 1
    /\ failureCount' = 0
    /\ UNCHANGED <<callVars, circuitOpen>>

(* Mutant: only the count is reset. *)
CloseForgotten ==
    /\ waking > 0
    /\ waking' = waking - 1
    /\ UNCHANGED <<callVars, circuitOpen, failureCount, sleeping>>

CloseCircuit ==
    /\ waking > 0
    /\ waking' = waking - 1
    /\ circuitOpen' = FALSE
    /\ UNCHANGED <<callVars, failureCount, sleeping>>

Goroutine == Wake \/ CloseCircuit

-----------------------------------------------------------------------------
(* No order of calls and goroutines leaves the circuit open for good: while*)
(* it is open somebody is about to close it, and while the count would open*)
(* it at the next failure somebody is about to reset the count.            *)
BreakerRecovers ==
    /\ circuitOpen => sleeping > 0 \/ waking > 0
    /\ failureCount >= Threshold => sleeping > 0 \/ \E c \in Callers : at[c] = "open"

=============================================================================
