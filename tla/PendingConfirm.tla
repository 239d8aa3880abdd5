--------------------------- MODULE PendingConfirm ---------------------------
(***************************************************************************)
(* The confirmation prompts in front of the two steps that cannot be taken *)
(* back: closing a ticket and recording a payout (modules/discordbot,      *)
(* ops.go and interactions.go).                                            *)
(*                                                                         *)
(* A handler first posts the prompt, which only its admin sees, and then   *)
(* registers it in a map under the admin and the ticket; a click on one of *)
(* its buttons takes it out of the map.  Handlers and clicks run           *)
(* concurrently, Discord delivers a double click as two interactions, and  *)
(* the map is lost when the process ends.                                  *)
(***************************************************************************)
EXTENDS Naturals, FiniteSets

CONSTANTS
    Admins, Tickets,
    References,   \* payment references
    Messages,     \* bound: the prompts that are posted
    Cap,          \* the limit of the map, 1000 in the code
    confirmTTL,   \* how long a prompt is good for
    MaxTime,      \* bound: the clock
    Null          \* no entry

VARIABLES
    posted,       \* Discord: what each message shows
    registering,  \* the handlers between the post and putConfirm: their messages
    confirms,     \* the map, by admin and ticket
    now,          \* the clock
    registered,   \* history: when each prompt was registered
    newest,       \* history: the prompt registered last, by admin and ticket
    uses,         \* history: the clicks that were accepted, per message
    recorded      \* history: what the ticket service was asked to do

vars == <<posted, registering, confirms, now, registered, newest, uses, recorded>>

Times == 0..MaxTime

Keys == Admins \X Tickets

(* What a prompt asks: close the ticket, or record a payout under a reference. *)
Prompt == [actor : Admins, ticket : Tickets, ref : References \cup {"close"}]

Entry == [message : Messages, prompt : Prompt, expires : Nat]

ASSUME ConfirmAssumption ==
    /\ Cap \in Nat \ {0}
    /\ confirmTTL \in Nat
    /\ MaxTime \in Nat
    /\ "close" \notin References
    /\ Null \notin Prompt \cup Entry \cup Times \cup Messages

confirmKey(p) == <<p.actor, p.ticket>>

Entries(map) == {k \in Keys : map[k] # Null}

Init ==
    /\ posted = [m \in Messages |-> Null]
    /\ registering = {}
    /\ confirms = [k \in Keys |-> Null]
    /\ now = 0
    /\ registered = [m \in Messages |-> Null]
    /\ newest = [k \in Keys |-> Null]
    /\ uses = [m \in Messages |-> 0]
    /\ recorded = {}

(* /withdraw-paid or the Close button: the follow-up message is posted. *)
Post(m, p) ==
    /\ posted[m] = Null
    /\ posted' = [posted EXCEPT ![m] = p]
    /\ registering' = registering \cup {m}
    /\ UNCHANGED <<confirms, now, registered, newest, uses, recorded>>

(* putConfirm drops what has expired ... *)
Unexpired == [k \in Keys |-> IF confirms[k] # Null /\ now > confirms[k].expires
                             THEN Null ELSE confirms[k]]

(* Mutant: the limit is checked one entry too late. *)
MakeRoomLate(map) ==
    IF Cardinality(Entries(map)) > Cap
    THEN {[map EXCEPT ![k] = Null] : k \in Entries(map)}
    ELSE {map}

(* ... makes room by dropping any one entry when the map is full ... *)
MakeRoom(map) ==
    IF Cardinality(Entries(map)) >= Cap
    THEN {[map EXCEPT ![k] = Null] : k \in Entries(map)}
    ELSE {map}

(* ... and stores the prompt, over an older one for the same ticket. *)
putConfirm(m) ==
    /\ m \in registering
    /\ \E map \in MakeRoom(Unexpired) :
          confirms' = [map EXCEPT ![confirmKey(posted[m])] =
                          [message |-> m, prompt |-> posted[m], expires |-> now + confirmTTL]]
    /\ registering' = registering \ {m}
    /\ registered' = [registered EXCEPT ![m] = now]
    /\ newest' = [newest EXCEPT ![confirmKey(posted[m])] = m]
    /\ UNCHANGED <<posted, now, uses, recorded>>

(* Mutants: the entry stays; the message is not compared. *)
takeConfirmKeeps(m) ==
    LET k == confirmKey(posted[m])
    IN  /\ posted[m] # Null
        /\ confirms[k] # Null /\ confirms[k].message = m
        /\ now <= confirms[k].expires
        /\ uses' = [uses EXCEPT ![m] = @ + 1]
        /\ UNCHANGED confirms

takeConfirmAnyMessage(m) ==
    LET k == confirmKey(posted[m])
    IN  /\ posted[m] # Null
        /\ confirms[k] # Null
        /\ confirms' = [confirms EXCEPT ![k] = Null]
        /\ now <= confirms[k].expires
        /\ uses' = [uses EXCEPT ![m] = @ + 1]

(* takeConfirm accepts a click on message m: the entry of this admin and   *)
(* ticket came from that very message, is removed, and has not expired.    *)
takeConfirm(m) ==
    LET k == confirmKey(posted[m])
    IN  /\ posted[m] # Null
        /\ confirms[k] # Null /\ confirms[k].message = m
        /\ confirms' = [confirms EXCEPT ![k] = Null]
        /\ now <= confirms[k].expires
        /\ uses' = [uses EXCEPT ![m] = @ + 1]

(* An expired one is removed and refused. *)
takeExpired(m) ==
    LET k == confirmKey(posted[m])
    IN  /\ posted[m] # Null
        /\ confirms[k] # Null /\ confirms[k].message = m
        /\ now > confirms[k].expires
        /\ confirms' = [confirms EXCEPT ![k] = Null]
        /\ UNCHANGED <<posted, registering, now, registered, newest, uses, recorded>>

(* The confirm button: Transition to closed, or RecordPayment with the     *)
(* reference the entry holds.                                              *)
Confirm(m) ==
    /\ takeConfirm(m)
    /\ recorded' = recorded \cup {[message |-> m, at |-> now,
                                   prompt |-> confirms[confirmKey(posted[m])].prompt]}
    /\ UNCHANGED <<posted, registering, now, registered, newest>>

(* The cancel button. *)
Cancel(m) ==
    /\ takeConfirm(m)
    /\ UNCHANGED <<posted, registering, now, registered, newest, recorded>>

Tick ==
    /\ now < MaxTime
    /\ now' = now + 1
    /\ UNCHANGED <<posted, registering, confirms, registered, newest, uses, recorded>>

(* The process ends and starts again: the messages stay, the map does not. *)
Restart ==
    /\ confirms' = [k \in Keys |-> Null]
    /\ registering' = {}
    /\ UNCHANGED <<posted, now, registered, newest, uses, recorded>>

Next ==
    \/ \E m \in Messages, p \in Prompt : Post(m, p)
    \/ \E m \in Messages : putConfirm(m) \/ takeExpired(m) \/ Confirm(m) \/ Cancel(m)
    \/ Tick
    \/ Restart

Spec == Init /\ [][Next]_vars

-----------------------------------------------------------------------------
(* Everything has the shape its declaration says. *)
TypeOK ==
    /\ posted \in [Messages -> Prompt \cup {Null}]
    /\ registering \subseteq Messages
    /\ confirms \in [Keys -> Entry \cup {Null}]
    /\ now \in Times
    /\ registered \in [Messages -> Times \cup {Null}]
    /\ newest \in [Keys -> Messages \cup {Null}]
    /\ uses \in [Messages -> Nat]
    /\ recorded \subseteq [message : Messages, at : Times, prompt : Prompt]

(* The map never holds more entries than its limit. *)
WithinCap == Cardinality(Entries(confirms)) <= Cap

(* A prompt is good for one click: however often its buttons are clicked,  *)
(* by a double click, after a cancel or after a restart, one of the clicks *)
(* at most is accepted.                                                    *)
SingleUse == \A m \in Messages : uses[m] <= 1

(* What the ticket service is asked to do is what the clicked message      *)
(* shows, never the reference of another prompt for the same ticket.       *)
ConfirmedAsShown == \A a \in recorded : a.prompt = posted[a.message]

(* A prompt acts within its time to live, counted from its registration.   *)
ConfirmedInTime ==
    \A a \in recorded : a.at <= registered[a.message] + confirmTTL

(* "This confirmation is no longer current. Use the latest prompt.": of    *)
(* the prompts of one admin for one ticket only the one registered last    *)
(* accepts a click, whatever is evicted, cancelled or lost in between.     *)
OnlyNewestActs ==
    [][\A m \in Messages : uses'[m] # uses[m] => newest[confirmKey(posted[m])] = m]_vars

-----------------------------------------------------------------------------
(* The inductive invariant. *)

(* A message not posted has done nothing; one whose handler is about to    *)
(* register it has not acted.                                              *)
PostedInv ==
    \A m \in Messages :
        /\ posted[m] = Null => m \notin registering
        /\ posted[m] = Null \/ m \in registering => registered[m] = Null
        /\ registered[m] = Null => uses[m] = 0

(* An entry of the map stands under the key of its prompt, came from the   *)
(* message registered last for it, and has not been used.                  *)
SoundEntry(k, e) ==
    /\ posted[e.message] = e.prompt
    /\ confirmKey(e.prompt) = k
    /\ newest[k] = e.message
    /\ registered[e.message] # Null
    /\ e.expires = registered[e.message] + confirmTTL
    /\ uses[e.message] = 0

(* What was asked of the ticket service came from such an entry. *)
RecordedInv ==
    \A a \in recorded :
        /\ posted[a.message] = a.prompt
        /\ registered[a.message] # Null
        /\ a.at <= registered[a.message] + confirmTTL

(* What the proofs carry from state to state. *)
ConfirmInv ==
    /\ TypeOK
    /\ PostedInv
    /\ \A k \in Keys : confirms[k] # Null => SoundEntry(k, confirms[k])
    /\ SingleUse
    /\ RecordedInv

=============================================================================
