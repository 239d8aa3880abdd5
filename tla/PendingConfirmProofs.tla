------------------------ MODULE PendingConfirmProofs ------------------------
(***************************************************************************)
(* Proofs about PendingConfirm, for any admins, tickets, references and    *)
(* messages, any limit of the map and any time to live.                    *)
(***************************************************************************)
EXTENDS PendingConfirm, FiniteSetTheorems, TLAPS

(* The key of a prompt is a key of the map. *)
LEMMA KeyOfPrompt ==
    ASSUME NEW p \in Prompt
    PROVE  confirmKey(p) \in Keys
BY DEF confirmKey, Keys, Prompt

(* At the start nothing is posted and the map is empty. *)
LEMMA InitConfirmInv == Init => ConfirmInv
<1> SUFFICES ASSUME Init PROVE ConfirmInv
  OBVIOUS
<1>1. TypeOK
  BY ConfirmAssumption DEF Init, TypeOK, Times
<1> QED
  BY <1>1 DEF Init, ConfirmInv, PostedInv, SingleUse, RecordedInv

(* Dropping entries, as putConfirm does first, leaves entries that were    *)
(* there before.                                                           *)
LEMMA RoomFromMap ==
    ASSUME TypeOK, NEW map \in MakeRoom(Unexpired)
    PROVE  /\ map \in [Keys -> Entry \cup {Null}]
           /\ \A k \in Keys : map[k] # Null => map[k] = confirms[k]
<1>1. /\ Unexpired \in [Keys -> Entry \cup {Null}]
      /\ \A k \in Keys : Unexpired[k] # Null => Unexpired[k] = confirms[k]
  BY DEF Unexpired, TypeOK
<1>2. map = Unexpired \/ \E k \in Keys : map = [Unexpired EXCEPT ![k] = Null]
  BY DEF MakeRoom, Entries
<1> QED
  BY <1>1, <1>2

(* Every step keeps the types. *)
LEMMA TypeStep ==
    ASSUME TypeOK, PostedInv, [Next]_vars
    PROVE  TypeOK'
<1>1. CASE UNCHANGED vars
  BY <1>1 DEF TypeOK, vars
<1>2. ASSUME NEW m \in Messages, NEW p \in Prompt, Post(m, p) PROVE TypeOK'
  BY <1>2 DEF TypeOK, Post
<1>3. ASSUME NEW m \in Messages, putConfirm(m) PROVE TypeOK'
  <2>1. posted[m] \in Prompt
    BY <1>3 DEF TypeOK, PostedInv, putConfirm
  <2>2. PICK map \in MakeRoom(Unexpired) :
          confirms' = [map EXCEPT ![confirmKey(posted[m])] =
                          [message |-> m, prompt |-> posted[m], expires |-> now + confirmTTL]]
    BY <1>3 DEF putConfirm
  <2>3. now + confirmTTL \in Nat
    BY ConfirmAssumption DEF TypeOK, Times
  <2>4. [message |-> m, prompt |-> posted[m], expires |-> now + confirmTTL] \in Entry
    BY <2>1, <2>3 DEF Entry
  <2>5. confirms' \in [Keys -> Entry \cup {Null}]
    BY <2>1, <2>2, <2>4, RoomFromMap, KeyOfPrompt
  <2>6. newest' \in [Keys -> Messages \cup {Null}] /\ registered' \in [Messages -> Times \cup {Null}]
    BY <1>3, <2>1, KeyOfPrompt DEF putConfirm, TypeOK
  <2> QED
    BY <1>3, <2>5, <2>6 DEF putConfirm, TypeOK
<1>4. ASSUME NEW m \in Messages, takeExpired(m) PROVE TypeOK'
  BY <1>4 DEF TypeOK, takeExpired
<1>5. ASSUME NEW m \in Messages, takeConfirm(m)
      PROVE  confirms' \in [Keys -> Entry \cup {Null}] /\ uses' \in [Messages -> Nat]
  <2>1. confirms' = [confirms EXCEPT ![confirmKey(posted[m])] = Null]
        /\ uses' = [uses EXCEPT ![m] = uses[m] + 1]
    BY <1>5 DEF takeConfirm
  <2>2. uses[m] + 1 \in Nat
    BY DEF TypeOK
  <2> QED
    BY <2>1, <2>2 DEF TypeOK
<1>6. ASSUME NEW m \in Messages, takeConfirm(m) PROVE confirms[confirmKey(posted[m])] \in Entry
  BY <1>6, KeyOfPrompt DEF TypeOK, takeConfirm
<1>7. ASSUME NEW m \in Messages, Confirm(m) PROVE TypeOK'
  <2>1. confirms[confirmKey(posted[m])].prompt \in Prompt
    BY <1>6, <1>7 DEF Confirm, Entry
  <2> QED
    BY <1>5, <1>6, <1>7, <2>1 DEF Confirm, TypeOK
<1>8. ASSUME NEW m \in Messages, Cancel(m) PROVE TypeOK'
  BY <1>5, <1>6, <1>8 DEF Cancel, TypeOK
<1>9. CASE Tick
  BY <1>9, ConfirmAssumption DEF Tick, TypeOK, Times
<1>10. CASE Restart
  BY <1>10 DEF Restart, TypeOK
<1> QED
  BY <1>1, <1>2, <1>3, <1>4, <1>7, <1>8, <1>9, <1>10 DEF Next

(* The parts of the invariant that are not about types, to be shown for    *)
(* the next state.                                                         *)
Rest ==
    /\ PostedInv
    /\ \A k \in Keys : confirms[k] # Null => SoundEntry(k, confirms[k])
    /\ SingleUse
    /\ RecordedInv

(* Registering a prompt keeps the entries sound: the new one is the newest *)
(* of its key, and the others are under other keys.                        *)
LEMMA RegisterStep ==
    ASSUME ConfirmInv, NEW m \in Messages, putConfirm(m)
    PROVE  Rest'
<1> USE DEF ConfirmInv
<1>1. posted[m] \in Prompt /\ registered[m] = Null /\ uses[m] = 0
  BY DEF TypeOK, PostedInv, putConfirm
<1>2. /\ registered' = [registered EXCEPT ![m] = now]
      /\ newest' = [newest EXCEPT ![confirmKey(posted[m])] = m]
      /\ registering' = registering \ {m}
      /\ UNCHANGED <<posted, now, uses, recorded>>
  BY DEF putConfirm
<1>3. now # Null
  BY ConfirmAssumption DEF TypeOK
<1>4. PostedInv'
  <2>1. posted[m] # Null
    BY <1>1, ConfirmAssumption
  <2>2. ASSUME NEW n \in Messages
        PROVE  /\ posted[n] = Null => n \notin registering'
               /\ posted[n] = Null \/ n \in registering' => registered'[n] = Null
               /\ registered'[n] = Null => uses[n] = 0
    BY <1>2, <1>3, <2>1 DEF PostedInv, TypeOK
  <2> QED
    BY <1>2, <2>2 DEF PostedInv
<1>5. ASSUME NEW k \in Keys, confirms'[k] # Null PROVE SoundEntry(k, confirms[k])'
  <2>1. PICK map \in MakeRoom(Unexpired) :
          confirms' = [map EXCEPT ![confirmKey(posted[m])] =
                          [message |-> m, prompt |-> posted[m], expires |-> now + confirmTTL]]
    BY DEF putConfirm
  <2>2. CASE k = confirmKey(posted[m])
    <3>1. confirms'[k] = [message |-> m, prompt |-> posted[m], expires |-> now + confirmTTL]
      BY <2>1, <2>2, RoomFromMap
    <3>2. newest'[k] = m /\ registered'[m] = now
      BY <1>2, <2>2 DEF TypeOK
    <3> QED
      BY <1>1, <1>2, <1>3, <2>2, <3>1, <3>2 DEF SoundEntry
  <2>3. CASE k # confirmKey(posted[m])
    <3>1. confirms'[k] = confirms[k] /\ confirms[k] # Null
      BY <1>5, <2>1, <2>3, RoomFromMap
    <3>2. SoundEntry(k, confirms[k]) /\ confirms[k] \in Entry
      BY <3>1 DEF TypeOK
    <3>3. confirms[k].message # m
      BY <1>1, <3>2 DEF SoundEntry
    <3>4. newest'[k] = newest[k] /\ registered'[confirms[k].message] = registered[confirms[k].message]
      BY <1>2, <2>3, <3>2, <3>3 DEF TypeOK, Entry
    <3> QED
      BY <1>2, <3>1, <3>2, <3>4 DEF SoundEntry
  <2> QED
    BY <2>2, <2>3
<1>6. RecordedInv'
  BY <1>1, <1>2 DEF RecordedInv, TypeOK
<1> QED
  BY <1>2, <1>4, <1>5, <1>6 DEF Rest, SingleUse

(* An accepted click uses up its entry; no other entry is of the same      *)
(* message.                                                                *)
LEMMA TakeStep ==
    ASSUME ConfirmInv, NEW m \in Messages, takeConfirm(m),
           UNCHANGED <<posted, registering, now, registered, newest>>
    PROVE  /\ PostedInv'
           /\ \A k \in Keys : confirms'[k] # Null => SoundEntry(k, confirms[k])'
           /\ SingleUse'
<1> USE DEF ConfirmInv
<1> DEFINE key == confirmKey(posted[m])
<1>1. posted[m] \in Prompt /\ key \in Keys
  BY KeyOfPrompt DEF takeConfirm, TypeOK
<1>2. confirms[key] # Null /\ SoundEntry(key, confirms[key]) /\ confirms[key].message = m
  BY <1>1 DEF takeConfirm
<1>3. uses[m] = 0 /\ registered[m] # Null
  BY <1>2 DEF SoundEntry
<1>4. uses' = [uses EXCEPT ![m] = 1] /\ confirms' = [confirms EXCEPT ![key] = Null]
  BY <1>3 DEF takeConfirm
<1>5. PostedInv'
  BY <1>3, <1>4 DEF PostedInv, TypeOK
<1>6. ASSUME NEW k \in Keys, confirms'[k] # Null PROVE SoundEntry(k, confirms[k])'
  <2>1. k # key /\ confirms'[k] = confirms[k]
    BY <1>1, <1>4, <1>6 DEF TypeOK
  <2>2. SoundEntry(k, confirms[k]) /\ confirms[k] \in Entry
    BY <1>6, <2>1 DEF TypeOK
  <2>3. confirms[k].message # m
    BY <2>1, <2>2 DEF SoundEntry
  <2>4. uses'[confirms[k].message] = uses[confirms[k].message]
    BY <1>4, <2>2, <2>3 DEF TypeOK, Entry
  <2> QED
    BY <2>1, <2>2, <2>4 DEF SoundEntry
<1>7. SingleUse'
  BY <1>3, <1>4 DEF SingleUse, TypeOK
<1> QED
  BY <1>5, <1>6, <1>7

(* What the confirm button asks for comes from a sound entry in time. *)
LEMMA ConfirmStep ==
    ASSUME ConfirmInv, NEW m \in Messages, Confirm(m)
    PROVE  RecordedInv'
<1> DEFINE key == confirmKey(posted[m])
<1>1. key \in Keys /\ confirms[key] # Null /\ confirms[key].message = m /\ now <= confirms[key].expires
  BY KeyOfPrompt DEF Confirm, takeConfirm, ConfirmInv, TypeOK
<1>2. SoundEntry(key, confirms[key])
  BY <1>1 DEF ConfirmInv
<1>3. recorded' = recorded \cup {[message |-> m, at |-> now, prompt |-> confirms[key].prompt]}
      /\ UNCHANGED <<posted, registered>>
  BY DEF Confirm
<1> QED
  BY <1>1, <1>2, <1>3 DEF ConfirmInv, RecordedInv, SoundEntry

(* Every step keeps the invariant. *)
LEMMA NextConfirmInv == ConfirmInv /\ [Next]_vars => ConfirmInv'
<1> SUFFICES ASSUME ConfirmInv, [Next]_vars PROVE ConfirmInv'
  OBVIOUS
<1>0. TypeOK'
  BY TypeStep DEF ConfirmInv
<1> SUFFICES Rest'
  BY <1>0 DEF ConfirmInv, Rest
<1>1. CASE UNCHANGED vars
  BY <1>1 DEF vars, ConfirmInv, Rest, PostedInv, SoundEntry, SingleUse, RecordedInv
<1>2. ASSUME NEW m \in Messages, NEW p \in Prompt, Post(m, p) PROVE Rest'
  <2>1. p # Null /\ posted[m] = Null /\ registered[m] = Null /\ uses[m] = 0
    BY <1>2, ConfirmAssumption DEF Post, ConfirmInv, PostedInv
  <2>2. posted' = [posted EXCEPT ![m] = p] /\ registering' = registering \cup {m}
        /\ UNCHANGED <<confirms, now, registered, newest, uses, recorded>>
    BY <1>2 DEF Post
  <2>3. PostedInv'
    BY <2>1, <2>2 DEF ConfirmInv, PostedInv, TypeOK
  <2>4. ASSUME NEW k \in Keys, confirms[k] # Null PROVE SoundEntry(k, confirms[k])'
    <3>1. SoundEntry(k, confirms[k]) /\ confirms[k] \in Entry
      BY <2>4 DEF ConfirmInv, TypeOK
    <3>2. posted'[confirms[k].message] = posted[confirms[k].message]
      BY <2>1, <2>2, <3>1 DEF ConfirmInv, TypeOK, Entry, SoundEntry
    <3> QED
      BY <2>2, <3>1, <3>2 DEF SoundEntry
  <2>5. RecordedInv'
    BY <2>1, <2>2 DEF ConfirmInv, RecordedInv, TypeOK
  <2> QED
    BY <2>2, <2>3, <2>4, <2>5 DEF Rest, ConfirmInv, SingleUse
<1>3. ASSUME NEW m \in Messages, putConfirm(m) PROVE Rest'
  BY <1>3, RegisterStep
<1>4. ASSUME NEW m \in Messages, takeExpired(m) PROVE Rest'
  <2>1. confirms' = [confirms EXCEPT ![confirmKey(posted[m])] = Null]
        /\ UNCHANGED <<posted, registering, now, registered, newest, uses, recorded>>
    BY <1>4 DEF takeExpired
  <2>2. \A k \in Keys : confirms'[k] # Null => confirms'[k] = confirms[k]
    BY <2>1 DEF ConfirmInv, TypeOK
  <2> QED
    BY <2>1, <2>2 DEF Rest, ConfirmInv, PostedInv, SoundEntry, SingleUse, RecordedInv
<1>5. ASSUME NEW m \in Messages, Confirm(m) PROVE Rest'
  BY <1>5, TakeStep, ConfirmStep DEF Confirm, Rest
<1>6. ASSUME NEW m \in Messages, Cancel(m) PROVE Rest'
  <2>1. RecordedInv'
    BY <1>6 DEF Cancel, ConfirmInv, RecordedInv
  <2> QED
    BY <1>6, <2>1, TakeStep DEF Cancel, Rest
<1>7. CASE Tick
  BY <1>7 DEF Tick, ConfirmInv, Rest, PostedInv, SoundEntry, SingleUse, RecordedInv
<1>8. CASE Restart
  BY <1>8 DEF Restart, ConfirmInv, Rest, PostedInv, SingleUse, RecordedInv
<1> QED
  BY <1>1, <1>2, <1>3, <1>4, <1>5, <1>6, <1>7, <1>8 DEF Next

(* The invariant holds in every reachable state. *)
THEOREM ConfirmInvariance == Spec => []ConfirmInv
BY InitConfirmInv, NextConfirmInv, PTL DEF Spec

(* However often a prompt is clicked, one click at most is accepted. *)
THEOREM PromptIsSingleUse == Spec => []SingleUse
<1>1. ConfirmInv => SingleUse
  BY DEF ConfirmInv
<1> QED
  BY <1>1, ConfirmInvariance, PTL

(* The ticket service is asked to do what the clicked message shows. *)
THEOREM WhatIsShownIsDone == Spec => []ConfirmedAsShown
<1>1. ConfirmInv => ConfirmedAsShown
  BY DEF ConfirmInv, RecordedInv, ConfirmedAsShown
<1> QED
  BY <1>1, ConfirmInvariance, PTL

(* A prompt acts within its time to live. *)
THEOREM ExpiredNeverActs == Spec => []ConfirmedInTime
<1>1. ConfirmInv => ConfirmedInTime
  BY DEF ConfirmInv, RecordedInv, ConfirmedInTime
<1> QED
  BY <1>1, ConfirmInvariance, PTL

(* Only the prompt registered last for an admin and a ticket accepts a     *)
(* click.                                                                  *)
THEOREM NewestActs == Spec => OnlyNewestActs
<1>1. ASSUME ConfirmInv, [Next]_vars, NEW m \in Messages, uses'[m] # uses[m]
      PROVE  newest[confirmKey(posted[m])] = m
  <2>1. PICK n \in Messages : takeConfirm(n)
    BY <1>1 DEF Next, vars, Post, putConfirm, takeExpired, Confirm, Cancel, Tick, Restart
  <2>2. n = m
    BY <1>1, <2>1 DEF takeConfirm, ConfirmInv, TypeOK
  <2>3. confirmKey(posted[m]) \in Keys /\ confirms[confirmKey(posted[m])] # Null
    BY <2>1, <2>2, <1>1, KeyOfPrompt DEF takeConfirm, ConfirmInv, TypeOK
  <2> QED
    BY <1>1, <2>1, <2>2, <2>3 DEF takeConfirm, ConfirmInv, SoundEntry
<1>2. ConfirmInv /\ [Next]_vars =>
        [\A m \in Messages : uses'[m] # uses[m] => newest[confirmKey(posted[m])] = m]_vars
  BY <1>1
<1> QED
  BY <1>2, ConfirmInvariance, PTL DEF Spec, OnlyNewestActs

-----------------------------------------------------------------------------
(* The limit of the map.  There may be any number of keys; the entries are *)
(* finitely many because each putConfirm adds one.                         *)

CapInv == IsFiniteSet(Entries(confirms)) /\ WithinCap

(* Fewer entries stay within the limit.                                    *)
LEMMA FewerEntries ==
    ASSUME CapInv, NEW map, Entries(map) \subseteq Entries(confirms)
    PROVE  /\ IsFiniteSet(Entries(map)) /\ Cardinality(Entries(map)) \in Nat
           /\ Cardinality(Entries(map)) <= Cap
<1>1. IsFiniteSet(Entries(confirms)) /\ Cardinality(Entries(confirms)) \in Nat
  BY FS_CardinalityType DEF CapInv
<1>2. /\ IsFiniteSet(Entries(map)) /\ Cardinality(Entries(map)) \in Nat
      /\ Cardinality(Entries(map)) <= Cardinality(Entries(confirms))
  BY <1>1, FS_Subset, FS_CardinalityType
<1> QED
  BY <1>1, <1>2, ConfirmAssumption DEF CapInv, WithinCap

(* putConfirm makes room for one entry, whatever entry it drops.           *)
LEMMA RoomForOne ==
    ASSUME TypeOK, CapInv, NEW map \in MakeRoom(Unexpired)
    PROVE  /\ IsFiniteSet(Entries(map)) /\ Cardinality(Entries(map)) \in Nat
           /\ Cardinality(Entries(map)) < Cap
<1>1. Unexpired \in [Keys -> Entry \cup {Null}] /\ Entries(Unexpired) \subseteq Entries(confirms)
  BY DEF Unexpired, Entries, TypeOK
<1>2. /\ IsFiniteSet(Entries(Unexpired)) /\ Cardinality(Entries(Unexpired)) \in Nat
      /\ Cardinality(Entries(Unexpired)) <= Cap
  BY <1>1, FewerEntries
<1>3. CASE Cardinality(Entries(Unexpired)) >= Cap
  <2>1. PICK k \in Entries(Unexpired) : map = [Unexpired EXCEPT ![k] = Null]
    BY <1>3 DEF MakeRoom
  <2>2. Entries(map) = Entries(Unexpired) \ {k}
    BY <1>1, <2>1 DEF Entries
  <2>3. /\ IsFiniteSet(Entries(Unexpired) \ {k})
        /\ Cardinality(Entries(Unexpired) \ {k}) = Cardinality(Entries(Unexpired)) - 1
    BY <1>2, <2>1, FS_RemoveElement
  <2>4. Cardinality(Entries(map)) \in Nat
    BY <2>2, <2>3, FS_CardinalityType
  <2> QED
    BY <1>2, <2>2, <2>3, <2>4, ConfirmAssumption
<1>4. CASE ~(Cardinality(Entries(Unexpired)) >= Cap)
  <2>1. map = Unexpired
    BY <1>4 DEF MakeRoom
  <2> QED
    BY <1>2, <1>4, <2>1, ConfirmAssumption
<1> QED
  BY <1>3, <1>4

LEMMA CapStep ==
    ASSUME ConfirmInv, CapInv, [Next]_vars
    PROVE  CapInv'
<1> USE DEF ConfirmInv
<1>1. ASSUME Entries(confirms') \subseteq Entries(confirms)
      PROVE  CapInv'
  BY <1>1, FewerEntries DEF CapInv, WithinCap
<1>2. ASSUME NEW m \in Messages, putConfirm(m)
      PROVE  CapInv'
  <2>1. posted[m] \in Prompt /\ confirmKey(posted[m]) \in Keys
    BY <1>2, KeyOfPrompt DEF TypeOK, PostedInv, putConfirm
  <2>2. PICK k \in Keys, map \in MakeRoom(Unexpired) :
                \E e : confirms' = [map EXCEPT ![k] = e]
    BY <1>2, <2>1 DEF putConfirm
  <2>3. Entries(confirms') \subseteq Entries(map) \cup {k}
    BY <2>2, RoomFromMap DEF Entries
  <2>4. /\ IsFiniteSet(Entries(map)) /\ Cardinality(Entries(map)) \in Nat
        /\ Cardinality(Entries(map)) < Cap
    BY RoomForOne
  <2>5. /\ IsFiniteSet(Entries(map) \cup {k})
        /\ Cardinality(Entries(map) \cup {k}) \in {Cardinality(Entries(map)),
                                                   Cardinality(Entries(map)) + 1}
    BY <2>4, FS_AddElement
  <2>6. /\ IsFiniteSet(Entries(confirms')) /\ Cardinality(Entries(confirms')) \in Nat
        /\ Cardinality(Entries(confirms')) <= Cardinality(Entries(map) \cup {k})
    BY <2>3, <2>5, FS_Subset, FS_CardinalityType
  <2> QED
    BY <2>4, <2>5, <2>6, ConfirmAssumption DEF CapInv, WithinCap
<1>3. ASSUME NEW m \in Messages, takeConfirm(m) \/ takeExpired(m)
      PROVE  CapInv'
  <2>1. confirms' = [confirms EXCEPT ![confirmKey(posted[m])] = Null]
    BY <1>3 DEF takeConfirm, takeExpired
  <2> QED
    BY <1>1, <2>1 DEF Entries, TypeOK
<1>4. CASE Restart
  BY <1>1, <1>4 DEF Restart, Entries
<1>5. CASE UNCHANGED confirms
  BY <1>1, <1>5 DEF Entries
<1> QED
  BY <1>2, <1>3, <1>4, <1>5 DEF Next, Post, Confirm, Cancel, Tick, vars

(* The map never holds more entries than its limit, however many admins    *)
(* ask for prompts at once.                                                *)
THEOREM MapStaysWithinCap == Spec => []WithinCap
<1>1. Init => CapInv
  <2> SUFFICES ASSUME Init PROVE CapInv
    OBVIOUS
  <2>1. Entries(confirms) = {}
    BY DEF Init, Entries
  <2> QED
    BY <2>1, FS_EmptySet, ConfirmAssumption DEF CapInv, WithinCap
<1>2. ConfirmInv /\ CapInv /\ [Next]_vars => CapInv'
  BY CapStep
<1>3. CapInv => WithinCap
  BY DEF CapInv
<1> QED
  BY <1>1, <1>2, <1>3, ConfirmInvariance, PTL DEF Spec

=============================================================================
