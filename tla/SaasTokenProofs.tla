-------------------------- MODULE SaasTokenProofs ---------------------------
(***************************************************************************)
(* Proofs about SaasToken, for any number of processes and callers and any *)
(* length of the token chain.                                              *)
(***************************************************************************)
EXTENDS SaasToken, TLAPS

(* The state before the first process starts satisfies the invariant. *)
LEMMA InitSaasInv == Init => SaasInv
<1> SUFFICES ASSUME Init PROVE SaasInv
  OBVIOUS
<1> USE SaasAssumption DEF Init, Tokens, Rotating, Steps, Stages, Ages, AllFaults
<1>1. TypeOK
  BY DEF TypeOK
<1>2. MutexInv
  BY DEF MutexInv
<1>3. NewestInv
  BY DEF NewestInv, Bringing
<1>4. DiskInv
  BY DEF DiskInv, PersistBeforeUse, PersistUnlessDiskFails
<1>5. ChainInv
  BY DEF ChainInv, Bringing
<1> QED
  BY <1>1, <1>2, <1>3, <1>4, <1>5 DEF SaasInv

(* Every step keeps the types. *)
LEMMA TypeStep ==
    ASSUME TypeOK, [Next]_vars
    PROVE  TypeOK'
<1> USE SaasAssumption DEF TypeOK, Tokens, Ages, AllFaults, Stages, Rotating, Steps, Goto, saas, memory
<1>1. CASE UNCHANGED vars
  BY <1>1 DEF vars
<1>2. ASSUME NEW c \in Callers, Call(c) PROVE TypeOK'
  BY <1>2 DEF Call
<1>3. ASSUME NEW c \in Callers, Access(c) PROVE TypeOK'
  BY <1>3 DEF Access, Fresh
<1>4. ASSUME NEW c \in Callers, Post(c) PROVE TypeOK'
  <2>1. latest' \in Tokens /\ got' \in [Callers -> Tokens \cup {Null}]
    BY <1>4 DEF Post, Drop
  <2>2. alive' \in BOOLEAN
    BY <1>4, Zenon DEF Post
  <2>3. pc' \in [Callers -> Steps]
    BY <1>4 DEF Post
  <2>4. faults' \subseteq AllFaults
    <3>1. faults' = faults \/ faults' = faults \cup {"overlap"}
      BY <1>4 DEF Post
    <3> QED
      BY <3>1
  <2>5. UNCHANGED <<file, stage, memory, holder, retried>>
    BY <1>4 DEF Post
  <2> QED
    BY <2>1, <2>2, <2>3, <2>4, <2>5
<1>5. ASSUME NEW c \in Callers, PostLost(c) PROVE TypeOK'
  BY <1>5 DEF PostLost
<1>6. ASSUME NEW c \in Callers, ReplyLost(c) PROVE TypeOK'
  BY <1>6 DEF ReplyLost, Drop
<1>7. ASSUME NEW c \in Callers, Receive(c) PROVE TypeOK'
  BY <1>7 DEF Receive, Drop
<1>8. ASSUME NEW c \in Callers, Persist(c) PROVE TypeOK'
  BY <1>8 DEF Persist, Return
<1>9. ASSUME NEW c \in Callers, PersistFails(c) PROVE TypeOK'
  BY <1>9 DEF PersistFails
<1>10. ASSUME NEW c \in Callers, Failed(c) PROVE TypeOK'
  <2>1. holder' \in [Processes -> Callers \cup {Null}] /\ pc' \in [Callers -> Steps]
    BY <1>10 DEF Failed, Done, Return
  <2>2. got' \in [Callers -> Tokens \cup {Null}]
    BY <1>10 DEF Failed, Done, Drop, Return
  <2>3. retried' \in [Callers -> BOOLEAN]
    BY <1>10 DEF Failed, Done
  <2>4. UNCHANGED <<saas, file, stage, memory, faults>>
    BY <1>10 DEF Failed
  <2> QED
    BY <2>1, <2>2, <2>3, <2>4
<1>11. ASSUME NEW c \in Callers, Fetch(c) PROVE TypeOK'
  BY <1>11 DEF Fetch, Done, Drop
<1>12. ASSUME NEW c \in Callers, Invalidate(c) PROVE TypeOK'
  BY <1>12 DEF Invalidate
<1>13. ASSUME NEW p \in Processes, Expire(p) PROVE TypeOK'
  BY <1>13 DEF Expire
<1>14. ASSUME NEW p \in Processes, Start(p) PROVE TypeOK'
  BY <1>14 DEF Start, Load
<1>15. ASSUME NEW p \in Processes, Open(p) PROVE TypeOK'
  BY <1>15 DEF Open
<1>16. ASSUME NEW p \in Processes, Close(p) PROVE TypeOK'
  BY <1>16 DEF Close
<1>17. ASSUME NEW p \in Processes, Exit(p) PROVE TypeOK'
  <2>1. stage' \in [Processes -> Stages] /\ age' \in [Processes -> Ages]
    BY <1>17 DEF Exit
  <2>2. refresh' \in [Processes -> Tokens] /\ access' \in [Processes -> Tokens \cup {Null}]
    BY <1>17 DEF Exit
  <2>3. holder' \in [Processes -> Callers \cup {Null}] /\ pc' \in [Callers -> Steps]
    BY <1>17 DEF Exit
  <2>4. got' \in [Callers -> Tokens \cup {Null}] /\ retried' \in [Callers -> BOOLEAN]
    BY <1>17 DEF Exit
  <2>5. faults' \subseteq AllFaults /\ UNCHANGED <<saas, file>>
    BY <1>17 DEF Exit
  <2> QED
    BY <2>1, <2>2, <2>3, <2>4, <2>5
<1> QED
  BY <1>1, <1>2, <1>3, <1>4, <1>5, <1>6, <1>7, <1>8, <1>9, <1>10, <1>11, <1>12, <1>13, <1>14, <1>15, <1>16, <1>17 DEF Next, CallerStep

(* The mutex of a process is held exactly while one of its callers         *)
(* rotates.                                                                *)
LEMMA MutexStep ==
    ASSUME TypeOK, MutexInv, [Next]_vars
    PROVE  MutexInv'
<1> USE SaasAssumption DEF TypeOK, MutexInv, Rotating, Steps, Stages, Goto, saas, memory
<1>1. CASE UNCHANGED vars
  BY <1>1 DEF vars
<1>2. ASSUME NEW c \in Callers, Call(c) PROVE MutexInv'
  BY <1>2 DEF Call
<1>3. ASSUME NEW c \in Callers, Access(c) PROVE MutexInv'
  BY <1>3 DEF Access, Fresh
<1>4. ASSUME NEW c \in Callers, Post(c) PROVE MutexInv'
  BY <1>4 DEF Post, Drop
<1>5. ASSUME NEW c \in Callers, PostLost(c) PROVE MutexInv'
  BY <1>5 DEF PostLost
<1>6. ASSUME NEW c \in Callers, ReplyLost(c) PROVE MutexInv'
  BY <1>6 DEF ReplyLost, Drop
<1>7. ASSUME NEW c \in Callers, Receive(c) PROVE MutexInv'
  BY <1>7 DEF Receive, Drop
<1>8. ASSUME NEW c \in Callers, Persist(c) PROVE MutexInv'
  BY <1>8 DEF Persist, Return
<1>9. ASSUME NEW c \in Callers, PersistFails(c) PROVE MutexInv'
  BY <1>9 DEF PersistFails
<1>10. ASSUME NEW c \in Callers, Failed(c) PROVE MutexInv'
  BY <1>10 DEF Failed, Usable, Done, Drop, Return
<1>11. ASSUME NEW c \in Callers, Fetch(c) PROVE MutexInv'
  BY <1>11 DEF Fetch, Done, Drop
<1>12. ASSUME NEW c \in Callers, Invalidate(c) PROVE MutexInv'
  BY <1>12 DEF Invalidate
<1>13. ASSUME NEW p \in Processes, Expire(p) PROVE MutexInv'
  BY <1>13 DEF Expire
<1>14. ASSUME NEW p \in Processes, Start(p) PROVE MutexInv'
  BY <1>14 DEF Start, Load
<1>15. ASSUME NEW p \in Processes, Open(p) PROVE MutexInv'
  BY <1>15 DEF Open
<1>16. ASSUME NEW p \in Processes, Close(p) PROVE MutexInv'
  BY <1>16 DEF Close
<1>17. ASSUME NEW p \in Processes, Exit(p) PROVE MutexInv'
  BY <1>17 DEF Exit
<1> QED
  BY <1>1, <1>2, <1>3, <1>4, <1>5, <1>6, <1>7, <1>8, <1>9, <1>10, <1>11, <1>12, <1>13, <1>14, <1>15, <1>16, <1>17 DEF Next, CallerStep

(* The pair that is being brought to the file is newer than any other.     *)
LEMMA NewestStep ==
    ASSUME TypeOK, MutexInv, NewestInv, [Next]_vars
    PROVE  NewestInv'
<1> USE SaasAssumption DEF TypeOK, MutexInv, NewestInv, Bringing, Tokens, Rotating, Steps, Stages, Goto, saas, memory
<1>1. CASE UNCHANGED vars
  BY <1>1 DEF vars
<1>2. ASSUME NEW c \in Callers, Call(c) PROVE NewestInv'
  BY <1>2 DEF Call
<1>3. ASSUME NEW c \in Callers, Access(c) PROVE NewestInv'
  BY <1>3 DEF Access, Fresh
<1>4. ASSUME NEW c \in Callers, Post(c) PROVE NewestInv'
  BY <1>4 DEF Post, Drop
<1>5. ASSUME NEW c \in Callers, PostLost(c) PROVE NewestInv'
  BY <1>5 DEF PostLost
<1>6. ASSUME NEW c \in Callers, ReplyLost(c) PROVE NewestInv'
  BY <1>6 DEF ReplyLost, Drop
<1>7. ASSUME NEW c \in Callers, Receive(c) PROVE NewestInv'
  <2>1. CASE got[c] = Null
    BY <1>7, <2>1 DEF Receive, Drop
  <2>2. CASE got[c] # Null
    <3>1. got[c] = latest /\ (file # Null => file < latest)
      BY <1>7, <2>2 DEF Receive
    <3>2. \A q \in Processes \ {Host[c]} : refresh[q] < latest
      BY <1>7, <2>2 DEF Receive
    <3>3. refresh' = [refresh EXCEPT ![Host[c]] = latest] /\ pc' = [pc EXCEPT ![c] = "persist"]
      BY <1>7, <2>2, <3>1 DEF Receive
    <3>4. \A d \in Callers : Bringing(d) => d = c
      BY <1>7, <2>2 DEF Receive
    <3> QED
      BY <1>7, <3>1, <3>2, <3>3, <3>4 DEF Receive, Drop
  <2> QED
    BY <2>1, <2>2
<1>8. ASSUME NEW c \in Callers, Persist(c) PROVE NewestInv'
  BY <1>8 DEF Persist, Return
<1>9. ASSUME NEW c \in Callers, PersistFails(c) PROVE NewestInv'
  BY <1>9 DEF PersistFails
<1>10. ASSUME NEW c \in Callers, Failed(c) PROVE NewestInv'
  BY <1>10 DEF Failed, Usable, Done, Drop, Return
<1>11. ASSUME NEW c \in Callers, Fetch(c) PROVE NewestInv'
  BY <1>11 DEF Fetch, Done, Drop
<1>12. ASSUME NEW c \in Callers, Invalidate(c) PROVE NewestInv'
  BY <1>12 DEF Invalidate
<1>13. ASSUME NEW p \in Processes, Expire(p) PROVE NewestInv'
  BY <1>13 DEF Expire
<1>14. ASSUME NEW p \in Processes, Start(p) PROVE NewestInv'
  BY <1>14 DEF Start, Load
<1>15. ASSUME NEW p \in Processes, Open(p) PROVE NewestInv'
  BY <1>15 DEF Open
<1>16. ASSUME NEW p \in Processes, Close(p) PROVE NewestInv'
  BY <1>16 DEF Close
<1>17. ASSUME NEW p \in Processes, Exit(p) PROVE NewestInv'
  BY <1>17 DEF Exit
<1> QED
  BY <1>1, <1>2, <1>3, <1>4, <1>5, <1>6, <1>7, <1>8, <1>9, <1>10, <1>11, <1>12, <1>13, <1>14, <1>15, <1>16, <1>17 DEF Next, CallerStep

(* Nothing is handed out before it is written. *)
LEMMA DiskStep ==
    ASSUME TypeOK, MutexInv, NewestInv, DiskInv, [Next]_vars
    PROVE  DiskInv'
<1> USE SaasAssumption DEF TypeOK, MutexInv, NewestInv, DiskInv, Bringing, PersistBeforeUse, PersistUnlessDiskFails,
                           OnDisk, Tokens, Rotating, Steps, Stages, Goto, saas, memory
<1>1. CASE UNCHANGED vars
  BY <1>1 DEF vars
<1>2. ASSUME NEW c \in Callers, Call(c) PROVE DiskInv'
  BY <1>2 DEF Call
<1>3. ASSUME NEW c \in Callers, Access(c) PROVE DiskInv'
  BY <1>3 DEF Access, Fresh
<1>4. ASSUME NEW c \in Callers, Post(c) PROVE DiskInv'
  BY <1>4 DEF Post, Drop
<1>5. ASSUME NEW c \in Callers, PostLost(c) PROVE DiskInv'
  BY <1>5 DEF PostLost
<1>6. ASSUME NEW c \in Callers, ReplyLost(c) PROVE DiskInv'
  BY <1>6 DEF ReplyLost, Drop
<1>7. ASSUME NEW c \in Callers, Receive(c) PROVE DiskInv'
  BY <1>7 DEF Receive, Drop
<1>8. ASSUME NEW c \in Callers, Persist(c) PROVE DiskInv'
  BY <1>8 DEF Persist, Return
<1>9. ASSUME NEW c \in Callers, PersistFails(c) PROVE DiskInv'
  BY <1>9 DEF PersistFails
<1>10. ASSUME NEW c \in Callers, Failed(c) PROVE DiskInv'
  BY <1>10 DEF Failed, Usable, Done, Drop, Return
<1>11. ASSUME NEW c \in Callers, Fetch(c) PROVE DiskInv'
  BY <1>11 DEF Fetch, Done, Drop
<1>12. ASSUME NEW c \in Callers, Invalidate(c) PROVE DiskInv'
  BY <1>12 DEF Invalidate
<1>13. ASSUME NEW p \in Processes, Expire(p) PROVE DiskInv'
  BY <1>13 DEF Expire
<1>14. ASSUME NEW p \in Processes, Start(p) PROVE DiskInv'
  BY <1>14 DEF Start, Load
<1>15. ASSUME NEW p \in Processes, Open(p) PROVE DiskInv'
  BY <1>15 DEF Open
<1>16. ASSUME NEW p \in Processes, Close(p) PROVE DiskInv'
  BY <1>16 DEF Close
<1>17. ASSUME NEW p \in Processes, Exit(p) PROVE DiskInv'
  BY <1>17 DEF Exit
<1> QED
  BY <1>1, <1>2, <1>3, <1>4, <1>5, <1>6, <1>7, <1>8, <1>9, <1>10, <1>11, <1>12, <1>13, <1>14, <1>15, <1>16, <1>17 DEF Next, CallerStep

(* Until an accident happens, the file and the process that is up follow   *)
(* the newest token.                                                       *)
LEMMA ChainStep ==
    ASSUME TypeOK, MutexInv, NewestInv, DiskInv, faults = {} => ChainInv, faults' = {}, [Next]_vars
    PROVE  ChainInv'
<1>0. faults = {}
  BY DEF Next, vars, CallerStep, Call, Access, Post, PostLost, ReplyLost, Receive, Persist,
         PersistFails, Failed, Fetch, Invalidate, Expire, Start, Open, Close, Exit
<1> USE SaasAssumption, <1>0 DEF TypeOK, MutexInv, NewestInv, ChainInv, Bringing, Tokens, Rotating, Steps, Stages,
                                 Goto, saas, memory
<1>1. CASE UNCHANGED vars
  BY <1>1 DEF vars
<1>2. ASSUME NEW c \in Callers, Call(c) PROVE ChainInv'
  BY <1>2 DEF Call
<1>3. ASSUME NEW c \in Callers, Access(c) PROVE ChainInv'
  BY <1>3 DEF Access, Fresh
<1>4. ASSUME NEW c \in Callers, Post(c) PROVE ChainInv'
  <2> DEFINE p == Host[c]
  <2>1. \A d \in Callers : ~Bringing(d)
    <3>1. stage[p] # "down"
      BY <1>4 DEF Post
    <3>2. \A d \in Callers : Host[d] = p /\ pc[d] \in Rotating => d = c
      BY <1>4 DEF Post
    <3> QED
      BY <1>4, <3>1, <3>2 DEF Post
  <2>2. refresh[p] = latest /\ latest = IF file = Null THEN 0 ELSE file
    BY <1>4, <2>1 DEF Post
  <2>3. alive'
    BY <1>4, <2>2 DEF Post
  <2>4. \A d \in Callers \ {c} : pc'[d] = pc[d] /\ got'[d] = got[d]
    <3>1. got' = [got EXCEPT ![c] = latest + 1] \/ got' = [got EXCEPT ![c] = Null]
      BY <1>4 DEF Post, Drop
    <3>2. pc' = [pc EXCEPT ![c] = "reply"]
      BY <1>4 DEF Post
    <3> QED
      BY <3>1, <3>2
  <2>5. \A d \in Callers : Bringing(d)' => d = c
    BY <2>1, <2>4
  <2>6. UNCHANGED <<file, stage, refresh>> /\ pc'[c] = "reply"
    BY <1>4 DEF Post
  <2>7. CASE latest' = latest /\ got' = [got EXCEPT ![c] = Null]
    <3>1. got'[c] = Null
      BY <2>7
    <3> QED
      BY <2>1, <2>2, <2>3, <2>5, <2>6, <2>7, <3>1
  <2>8. CASE /\ latest' = latest + 1
             /\ latest < MaxToken
             /\ got' = [got EXCEPT ![c] = latest + 1]
             /\ faults' = IF \A q \in Processes \ {p} : stage[q] = "down"
                          THEN faults ELSE faults \cup {"overlap"}
    <3>1. \A q \in Processes \ {p} : stage[q] = "down"
      BY <2>8
    <3>2. got'[c] # Null
      BY <2>8
    <3> QED
      BY <2>3, <2>5, <2>6, <3>1, <3>2
  <2> QED
    BY <1>4, <2>7, <2>8 DEF Post, Drop
<1>5. ASSUME NEW c \in Callers, PostLost(c) PROVE ChainInv'
  BY <1>5 DEF PostLost
<1>6. ASSUME NEW c \in Callers, ReplyLost(c) PROVE ChainInv'
  <2>1. got[c] = Null
    BY <1>6 DEF ReplyLost
  <2>2. \A d \in Callers : Bringing(d)' <=> Bringing(d)
    BY <1>6, <2>1 DEF ReplyLost, Drop
  <2>3. UNCHANGED <<latest, alive, file, stage, refresh>>
    BY <1>6 DEF ReplyLost
  <2> QED
    BY <2>2, <2>3
<1>7. ASSUME NEW c \in Callers, Receive(c) PROVE ChainInv'
  BY <1>7 DEF Receive, Drop
<1>8. ASSUME NEW c \in Callers, Persist(c) PROVE ChainInv'
  BY <1>8 DEF Persist, Return
<1>9. ASSUME NEW c \in Callers, PersistFails(c) PROVE ChainInv'
  BY <1>9 DEF PersistFails
<1>10. ASSUME NEW c \in Callers, Failed(c) PROVE ChainInv'
  BY <1>10 DEF Failed, Usable, Done, Drop, Return
<1>11. ASSUME NEW c \in Callers, Fetch(c) PROVE ChainInv'
  BY <1>11 DEF Fetch, Done, Drop
<1>12. ASSUME NEW c \in Callers, Invalidate(c) PROVE ChainInv'
  BY <1>12 DEF Invalidate
<1>13. ASSUME NEW p \in Processes, Expire(p) PROVE ChainInv'
  BY <1>13 DEF Expire
<1>14. ASSUME NEW p \in Processes, Start(p) PROVE ChainInv'
  <2>1. \A d \in Callers : ~Bringing(d)
    BY <1>14 DEF Start
  <2>2. UNCHANGED <<latest, alive, file, pc, got>>
    BY <1>14 DEF Start
  <2>3. \A d \in Callers : ~Bringing(d)'
    BY <2>1, <2>2
  <2>4. refresh'[p] = latest
    BY <1>14, <2>1 DEF Start, Load
  <2>5. \A q \in Processes \ {p} : UNCHANGED <<stage[q], refresh[q]>>
    BY <1>14 DEF Start, Load
  <2> QED
    BY <2>1, <2>2, <2>3, <2>4, <2>5
<1>15. ASSUME NEW p \in Processes, Open(p) PROVE ChainInv'
  BY <1>15 DEF Open
<1>16. ASSUME NEW p \in Processes, Close(p) PROVE ChainInv'
  BY <1>16 DEF Close
<1>17. ASSUME NEW p \in Processes, Exit(p) PROVE ChainInv'
  <2>1. \A d \in Callers : Host[d] = p => ~Bringing(d)
    BY <1>17 DEF Exit
  <2>2. \A d \in Callers : Bringing(d)' <=> Bringing(d)
    BY <1>17, <2>1 DEF Exit
  <2>3. UNCHANGED <<latest, alive, file>>
    BY <1>17 DEF Exit
  <2>4. stage'[p] = "down" /\ \A q \in Processes \ {p} : UNCHANGED <<stage[q], refresh[q]>>
    BY <1>17 DEF Exit
  <2>5. \A d \in Callers : Bringing(d)' => \A q \in Processes \ {Host[d]} : stage'[q] = "down"
    BY <2>2, <2>4
  <2>6. (\A d \in Callers : ~Bringing(d)') =>
           /\ latest' = IF file' = Null THEN 0 ELSE file'
           /\ \A q \in Processes : stage'[q] # "down" => refresh'[q] = latest'
    BY <2>2, <2>3, <2>4
  <2> QED
    BY <2>3, <2>5, <2>6
<1> QED
  BY <1>1, <1>2, <1>3, <1>4, <1>5, <1>6, <1>7, <1>8, <1>9, <1>10, <1>11, <1>12, <1>13, <1>14, <1>15, <1>16, <1>17 DEF Next, CallerStep

(* The invariant holds in every reachable state, whatever accidents        *)
(* happen.                                                                 *)
THEOREM SaasInvariance == Spec => []SaasInv
<1>1. SaasInv /\ [Next]_vars => SaasInv'
  BY TypeStep, MutexStep, NewestStep, DiskStep, ChainStep DEF SaasInv
<1> QED
  BY InitSaasInv, <1>1, PTL DEF Spec

(* Until an accident costs the bot the newest pair, or a token is rotated  *)
(* that an overlapping process has read, no process presents a rotated     *)
(* refresh token, and the SaaS does not revoke the family.                 *)
THEOREM FamilySurvives == Spec => []FamilyAlive
<1>1. SaasInv => FamilyAlive
  BY DEF SaasInv, ChainInv, FamilyAlive
<1> QED
  BY <1>1, SaasInvariance, PTL

(* Until the file cannot be written, no caller gets an access token that   *)
(* is not in it, even with lost answers, crashes in mid-rotation and       *)
(* processes that overlap.                                                 *)
THEOREM PersistedFirst == Spec => []PersistUnlessDiskFails
<1>1. SaasInv => PersistUnlessDiskFails
  BY DEF SaasInv, DiskInv
<1> QED
  BY <1>1, SaasInvariance, PTL

=============================================================================
