-------------------------- MODULE AuthTokensProofs --------------------------
(***************************************************************************)
(* Proofs about AuthTokens, for any users, any number of requests in       *)
(* flight and any number of tokens.                                        *)
(***************************************************************************)
EXTENDS AuthTokens, TLAPS

(* At the start there are no tokens. *)
LEMMA InitAuthInv == Init => AuthInv
<1> SUFFICES ASSUME Init PROVE AuthInv
  OBVIOUS
<1>1. TypeOK
  BY AuthAssumption DEF Init, TypeOK, Tokens, Request, Idle
<1>2. GeneratedInv /\ SessionUserInv
  BY AuthAssumption DEF Init, GeneratedInv, SessionUserInv, Idle, Tokens
<1>3. RevokingInv /\ SavingInv
  BY DEF Init, RevokingInv, SavingInv, Idle
<1>4. SingleSuccessor /\ OneLivePerSession /\ LoggedOutStays
  BY DEF Init, SingleSuccessor, OneLivePerSession, LoggedOutStays
<1> QED
  BY <1>1, <1>2, <1>3, <1>4 DEF AuthInv

(* A token that is generated is the next number, and a token. *)
LEMMA NextToken ==
    ASSUME TypeOK, generated < MaxToken
    PROVE  /\ generated + 1 \in Tokens
           /\ generated + 1 \in 0..MaxToken
           /\ \A n \in Tokens : n <= generated => n # generated + 1
BY AuthAssumption DEF TypeOK, Tokens

(* A row of a user and a session is a row, with that user and session. *)
LEMMA RowType ==
    ASSUME NEW u \in Users, NEW t \in Tokens
    PROVE  /\ Row(u, t) \in RefreshToken
           /\ Row(u, t) # Null
           /\ Row(u, t).session = t
<1>1. Row(u, t) \in RefreshToken
  BY DEF Row, RefreshToken
<1>2. Row(u, t) # Null
  BY <1>1, AuthAssumption
<1>3. Row(u, t).session = t
  BY DEF Row
<1> QED
  BY <1>1, <1>2, <1>3

(* Login starts a session of its own. *)
LEMMA LoginStep ==
    ASSUME AuthInv, NEW r \in Requests, NEW user \in Users, Login(r, user)
    PROVE  AuthInv'
<1> DEFINE new == generated + 1
<1>1. /\ req[r] = Idle
      /\ generated < MaxToken
      /\ generated' = new
      /\ req' = [req EXCEPT ![r] = [step |-> "save", token |-> new, row |-> Row(user, new)]]
      /\ UNCHANGED <<table, expired, parent, ended>>
  BY DEF Login, GeneratePair
<1>2. /\ TypeOK
      /\ generated \in 0..MaxToken
      /\ new \in Tokens /\ new \in 0..MaxToken
      /\ \A n \in Tokens : n <= generated => n # new
  BY <1>1, NextToken DEF AuthInv, TypeOK
<1>3. Row(user, new) \in RefreshToken /\ Row(user, new) # Null
  BY <1>2, RowType
<1>4. TypeOK'
  BY <1>1, <1>2, <1>3 DEF TypeOK, Request
<1>5. GeneratedInv'
  <2>1. \A k \in Tokens : (k <= generated => k <= generated') /\ (k > generated' => k > generated)
    BY <1>1, <1>2, AuthAssumption DEF Tokens
  <2>2. \A n \in Tokens : table[n] # Null => table[n].session \in Tokens
    BY <1>2 DEF TypeOK, RefreshToken
  <2>3. ended \subseteq Tokens
    BY <1>2 DEF TypeOK
  <2> QED
    BY <1>1, <2>1, <2>2, <2>3 DEF AuthInv, GeneratedInv
<1>6. req'[r] = [step |-> "save", token |-> new, row |-> Row(user, new)]
      /\ \A q \in Requests \ {r} : req'[q] = req[q]
  BY <1>1, <1>2 DEF TypeOK
<1>7. RevokingInv'
  BY <1>1, <1>2, <1>6, AuthAssumption DEF AuthInv, RevokingInv, Tokens
<1>8. SavingInv'
  <2>1. ASSUME NEW q \in Requests, req'[q].step = "save", q # r
        PROVE  /\ req[q].step = "save" /\ req'[q] = req[q]
               /\ req[q].row.session # new /\ req[q].token # new
    BY <1>2, <1>6, <2>1, AuthAssumption DEF AuthInv, SavingInv, Tokens
  <2>2. ASSUME NEW q \in Requests, req'[q].step = "save", q # r
        PROVE  /\ req'[q].row # Null /\ req'[q].row.session \notin ended
               /\ req'[q].token \in 1..generated' /\ req'[q].row.session \in 1..generated'
               /\ table[req'[q].token] = Null
               /\ \A n \in Tokens :
                     table[n] # Null /\ table[n].live => table[n].session # req'[q].row.session
    BY <1>1, <1>2, <2>1, <2>2, AuthAssumption DEF AuthInv, SavingInv, Tokens
  <2>3. /\ Row(user, new).session = new
        /\ new \notin ended /\ new \in 1..generated' /\ table[new] = Null
        /\ \A n \in Tokens : table[n] # Null /\ table[n].live => table[n].session # new
    BY <1>1, <1>2, AuthAssumption DEF AuthInv, GeneratedInv, Row, Tokens, TypeOK
  <2>4. ASSUME NEW p \in Requests, NEW q \in Requests \ {p},
               req'[p].step = "save", req'[q].step = "save"
        PROVE  req'[q].row.session # req'[p].row.session /\ req'[q].token # req'[p].token
    <3>1. CASE p # r /\ q # r
      BY <2>1, <2>4, <3>1 DEF AuthInv, SavingInv
    <3>2. CASE p = r
      BY <1>6, <2>1, <2>3, <2>4, <3>2
    <3>3. CASE q = r
      BY <1>6, <2>1, <2>3, <2>4, <3>3
    <3> QED
      BY <3>1, <3>2, <3>3
  <2> QED
    BY <1>1, <1>3, <1>6, <2>2, <2>3, <2>4 DEF SavingInv
<1>9. SingleSuccessor' /\ OneLivePerSession' /\ LoggedOutStays'
  BY <1>1 DEF AuthInv, SingleSuccessor, OneLivePerSession, LoggedOutStays
<1>10. SessionUserInv'
  <2>1. \A n \in Tokens : table[n] # Null => table[n].session # new
    BY <1>1, <1>2, AuthAssumption DEF AuthInv, GeneratedInv, TypeOK, Tokens, RefreshToken
  <2>2. Row(user, new).session = new
    BY DEF Row
  <2> QED
    BY <1>1, <1>6, <2>1, <2>2 DEF AuthInv, SessionUserInv
<1> QED
  BY <1>4, <1>5, <1>7, <1>8, <1>9, <1>10 DEF AuthInv

(* Finding a token changes nothing but what the request remembers. *)
LEMMA RefreshStep ==
    ASSUME AuthInv, NEW r \in Requests, NEW n \in Tokens, Refresh(r, n)
    PROVE  AuthInv'
<1>1. /\ table[n] # Null
      /\ req' = [req EXCEPT ![r] = [step |-> "revoke", token |-> n, row |-> table[n]]]
      /\ UNCHANGED <<table, expired, generated, parent, ended>>
  BY DEF Refresh, Found
<1>2. table[n] \in RefreshToken /\ n \in 1..generated
  BY <1>1 DEF AuthInv, TypeOK, GeneratedInv, Tokens
<1>3. req'[r] = [step |-> "revoke", token |-> n, row |-> table[n]]
      /\ \A q \in Requests \ {r} : req'[q] = req[q]
  BY <1>1 DEF AuthInv, TypeOK
<1>4. TypeOK'
  BY <1>1, <1>2 DEF AuthInv, TypeOK, Request
<1>5. RevokingInv'
  BY <1>1, <1>2, <1>3 DEF AuthInv, RevokingInv
<1>6. SavingInv'
  BY <1>1, <1>3 DEF AuthInv, SavingInv
<1>7. SessionUserInv'
  BY <1>1, <1>3 DEF AuthInv, SessionUserInv
<1> QED
  BY <1>1, <1>4, <1>5, <1>6, <1>7
     DEF AuthInv, GeneratedInv, SingleSuccessor, OneLivePerSession, LoggedOutStays

(* The winner of the compare-and-swap takes the session over. *)
LEMMA RevokeStep ==
    ASSUME AuthInv, NEW r \in Requests, Revoke(r)
    PROVE  AuthInv'
<1> DEFINE new == generated + 1
           old == req[r].token
           s == req[r].row.session
           user == req[r].row.user
<1>1. /\ req[r].step = "revoke"
      /\ table[old].live
      /\ table' = [table EXCEPT ![old] = [@ EXCEPT !.live = FALSE]]
      /\ generated < MaxToken
      /\ generated' = new
      /\ req' = [req EXCEPT ![r] = [step |-> "save", token |-> new, row |-> Row(user, s)]]
      /\ parent' = [parent EXCEPT ![new] = old]
      /\ UNCHANGED <<expired, ended>>
  BY DEF Revoke, GeneratePair, Revoked
<1>2. /\ TypeOK
      /\ generated \in 0..MaxToken
      /\ new \in Tokens /\ new \in 0..MaxToken
      /\ \A n \in Tokens : n <= generated => n # new
  BY <1>1, NextToken DEF AuthInv, TypeOK
<1>3. /\ req[r] \in Request
      /\ req[r].row \in RefreshToken
      /\ old \in Tokens /\ old <= generated
      /\ table[old] \in RefreshToken /\ table[old] # Null
      /\ table[old].session = s /\ table[old].user = user
  BY <1>1, <1>2, AuthAssumption DEF AuthInv, RevokingInv, TypeOK, Request, Tokens
<1>4. Row(user, s) \in RefreshToken /\ Row(user, s) # Null /\ Row(user, s).session = s
  <2>1. user \in Users /\ s \in Tokens
    BY <1>3 DEF RefreshToken
  <2> QED
    BY <2>1, RowType
<1>5. /\ table'[old] \in RefreshToken /\ table'[old] # Null /\ ~table'[old].live
      /\ table'[old].session = s /\ table'[old].user = user
      /\ \A n \in Tokens \ {old} : table'[n] = table[n]
  <2>1. table'[old] = [table[old] EXCEPT !.live = FALSE]
    BY <1>1, <1>2, <1>3 DEF TypeOK
  <2>2. [table[old] EXCEPT !.live = FALSE] \in RefreshToken
        /\ [table[old] EXCEPT !.live = FALSE].session = s
        /\ [table[old] EXCEPT !.live = FALSE].user = user
        /\ ~[table[old] EXCEPT !.live = FALSE].live
    BY <1>3 DEF RefreshToken
  <2>3. \A n \in Tokens \ {old} : table'[n] = table[n]
    BY <1>1, <1>2 DEF TypeOK
  <2> QED
    BY <2>1, <2>2, <2>3, AuthAssumption
<1>6. TypeOK'
  <2>1. table' \in [Tokens -> RefreshToken \cup {Null}]
    BY <1>1, <1>2, <1>5 DEF TypeOK
  <2>2. req' \in [Requests -> Request]
    BY <1>1, <1>2, <1>4 DEF TypeOK, Request
  <2>3. parent' \in [Tokens -> Tokens \cup {0}]
    BY <1>1, <1>2, <1>3 DEF TypeOK
  <2> QED
    BY <1>1, <1>2, <2>1, <2>2, <2>3 DEF TypeOK
<1>7. parent'[new] = old /\ parent[new] = 0 /\ \A m \in Tokens \ {new} : parent'[m] = parent[m]
  <2>1. new > generated
    BY <1>2
  <2> QED
    BY <1>1, <1>2, <2>1 DEF TypeOK, AuthInv, GeneratedInv
<1>8. \A m \in Tokens : parent[m] # old
  BY <1>1, <1>3 DEF AuthInv, GeneratedInv
<1>9. GeneratedInv'
  <2>1. \A n \in Tokens : table'[n] # Null => n <= generated' /\ table'[n].session <= generated'
    <3>1. \A n \in Tokens : table'[n] # Null => n <= generated /\ table'[n].session <= generated
      BY <1>3, <1>5 DEF AuthInv, GeneratedInv
    <3>2. \A n \in Tokens : table'[n] # Null => table'[n].session \in Tokens
      BY <1>6 DEF TypeOK, RefreshToken
    <3> QED
      BY <1>1, <1>2, <3>1, <3>2 DEF Tokens
  <2>2. \A n \in Tokens : n > generated' => parent'[n] = 0
    BY <1>1, <1>2, <1>7 DEF AuthInv, GeneratedInv, Tokens
  <2>3. \A m, n \in Tokens : parent'[m] = n /\ table'[n] # Null => ~table'[n].live
    BY <1>5, <1>7 DEF AuthInv, GeneratedInv
  <2>4. \A m \in Tokens : parent'[m] # 0 => table'[parent'[m]] # Null
    BY <1>2, <1>3, <1>5, <1>7 DEF AuthInv, GeneratedInv, TypeOK
  <2>5. \A e \in ended' : e <= generated'
    BY <1>1, <1>2 DEF AuthInv, GeneratedInv, TypeOK, Tokens
  <2> QED
    BY <2>1, <2>2, <2>3, <2>4, <2>5 DEF GeneratedInv
<1>10. req'[r] = [step |-> "save", token |-> new, row |-> Row(user, s)]
       /\ \A q \in Requests \ {r} : req'[q] = req[q]
  BY <1>1, <1>2 DEF TypeOK
<1>11. RevokingInv'
  <2> SUFFICES ASSUME NEW q \in Requests \ {r}, req[q].step = "revoke"
               PROVE  /\ req[q].row # Null
                      /\ req[q].token \in 1..generated'
                      /\ table'[req[q].token] # Null
                      /\ table'[req[q].token].user = req[q].row.user
                      /\ table'[req[q].token].session = req[q].row.session
    BY <1>10 DEF RevokingInv
  <2>1. /\ req[q].row # Null
        /\ req[q].token \in 1..generated
        /\ table[req[q].token] # Null
        /\ table[req[q].token].user = req[q].row.user
        /\ table[req[q].token].session = req[q].row.session
    BY DEF AuthInv, RevokingInv
  <2>2. req[q].token \in Tokens
    BY <1>2, <2>1, AuthAssumption DEF Tokens
  <2> QED
    BY <1>1, <1>2, <1>3, <1>5, <2>1, <2>2
<1>12. SavingInv'
  <2>1. s \notin ended /\ s \in 1..generated
    <3>1. s \notin ended /\ s <= generated
      BY <1>1, <1>3 DEF AuthInv, LoggedOutStays, GeneratedInv
    <3>2. s \in Tokens
      BY <1>3 DEF RefreshToken
    <3> QED
      BY <1>2, <3>1, <3>2, AuthAssumption DEF Tokens
  <2>2. \A n \in Tokens : table'[n] # Null /\ table'[n].live => table'[n].session # s
    BY <1>1, <1>3, <1>5 DEF AuthInv, OneLivePerSession
  <2>3. table[new] = Null /\ table'[new] = Null
    BY <1>2, <1>3, <1>5, AuthAssumption DEF AuthInv, GeneratedInv, Tokens
  <2>4. ASSUME NEW q \in Requests \ {r}, req[q].step = "save"
        PROVE  /\ req[q].row # Null /\ req[q].row.session \notin ended
               /\ req[q].token \in 1..generated /\ req[q].row.session \in 1..generated
               /\ req[q].token # new
               /\ req[q].row.session # s
               /\ table'[req[q].token] = Null
               /\ \A n \in Tokens :
                     table'[n] # Null /\ table'[n].live => table'[n].session # req[q].row.session
    <3>1. /\ req[q].row # Null /\ req[q].row.session \notin ended
          /\ req[q].token \in 1..generated /\ req[q].row.session \in 1..generated
          /\ table[req[q].token] = Null
          /\ \A n \in Tokens :
                table[n] # Null /\ table[n].live => table[n].session # req[q].row.session
      BY <2>4 DEF AuthInv, SavingInv
    <3>2. req[q].token \in Tokens /\ req[q].token # new
      BY <1>2, <3>1, AuthAssumption DEF Tokens
    <3>3. req[q].row.session # s
      <4>1. old \in Tokens /\ table[old] # Null /\ table[old].live /\ table[old].session = s
        BY <1>1, <1>3
      <4> HIDE DEF old, s
      <4> QED
        BY <3>1, <4>1
    <3> QED
      BY <1>3, <1>5, <3>1, <3>2, <3>3
  <2>5. 1..generated \subseteq 1..generated' /\ new \in 1..generated'
    BY <1>1, <1>2
  <2>6. ASSUME NEW q \in Requests, req'[q].step = "save"
        PROVE  /\ req'[q].row # Null
               /\ req'[q].row.session \notin ended'
               /\ req'[q].token \in 1..generated'
               /\ req'[q].row.session \in 1..generated'
               /\ table'[req'[q].token] = Null
               /\ \A n \in Tokens :
                     table'[n] # Null /\ table'[n].live => table'[n].session # req'[q].row.session
    <3>1. CASE q = r
      <4>1. req'[q].token = new /\ req'[q].row # Null /\ req'[q].row.session = s
        BY <1>4, <1>10, <3>1
      <4>2. ended' = ended
        BY <1>1
      <4> HIDE DEF new, s
      <4> QED
        BY <4>1, <4>2, <2>1, <2>2, <2>3, <2>5
    <3>2. CASE q # r
      BY <1>1, <1>10, <2>4, <2>5, <2>6, <3>2
    <3> QED
      BY <3>1, <3>2
  <2>7. ASSUME NEW p \in Requests, NEW q \in Requests \ {p},
               req'[p].step = "save", req'[q].step = "save"
        PROVE  req'[q].row.session # req'[p].row.session /\ req'[q].token # req'[p].token
    <3>1. CASE p # r /\ q # r
      BY <1>10, <2>7, <3>1 DEF AuthInv, SavingInv
    <3>2. CASE p = r
      BY <1>4, <1>10, <2>4, <2>7, <3>2
    <3>3. CASE q = r
      BY <1>4, <1>10, <2>4, <2>7, <3>3
    <3> QED
      BY <3>1, <3>2, <3>3
  <2> SUFFICES ASSUME NEW q \in Requests, req'[q].step = "save"
               PROVE  /\ req'[q].row # Null
                      /\ req'[q].row.session \notin ended'
                      /\ req'[q].token \in 1..generated'
                      /\ req'[q].row.session \in 1..generated'
                      /\ table'[req'[q].token] = Null
                      /\ \A n \in Tokens : table'[n] # Null /\ table'[n].live
                                          => table'[n].session # req'[q].row.session
                      /\ \A p \in Requests \ {q} : req'[p].step = "save"
                            => /\ req'[p].row.session # req'[q].row.session
                               /\ req'[p].token # req'[q].token
    BY DEF SavingInv
  <2>8. \A p \in Requests \ {q} : req'[p].step = "save"
            => /\ req'[p].row.session # req'[q].row.session
               /\ req'[p].token # req'[q].token
    BY <2>7
  <2> QED
    BY <2>6, <2>8
<1>13. SingleSuccessor'
  BY <1>3, <1>7, <1>8 DEF AuthInv, SingleSuccessor
<1>14. OneLivePerSession' /\ LoggedOutStays'
  <2>1. \A n \in Tokens : table'[n] # Null /\ table'[n].live =>
           table[n] # Null /\ table[n].live /\ table'[n].session = table[n].session
    BY <1>3, <1>5
  <2>2. \A n \in Tokens : table'[n] # Null => table[n] # Null /\ table'[n].session = table[n].session
    BY <1>3, <1>5
  <2>3. OneLivePerSession'
    BY <2>1 DEF AuthInv, OneLivePerSession
  <2>4. LoggedOutStays'
    BY <1>1, <2>1, <2>2 DEF AuthInv, LoggedOutStays
  <2> QED
    BY <2>3, <2>4
<1>15. SessionUserInv'
  <2>1. \A n \in Tokens : table'[n] # Null =>
           table[n] # Null /\ table'[n].session = table[n].session /\ table'[n].user = table[n].user
    BY <1>3, <1>5
  <2>2. Row(user, s).session = s /\ Row(user, s).user = user
    BY DEF Row
  <2>3. \A n \in Tokens : table[n] # Null /\ table[n].session = s => table[n].user = user
    BY <1>3 DEF AuthInv, SessionUserInv
  <2>4. \A m, n \in Tokens :
           table'[m] # Null /\ table'[n] # Null /\ table'[m].session = table'[n].session =>
               table'[m].user = table'[n].user
    BY <2>1 DEF AuthInv, SessionUserInv
  <2>5. ASSUME NEW q \in Requests, NEW n \in Tokens, req'[q].step = "save",
               table'[n] # Null, table'[n].session = req'[q].row.session
        PROVE  table'[n].user = req'[q].row.user
    <3>1. CASE q = r
      BY <1>10, <2>1, <2>2, <2>3, <2>5, <3>1
    <3>2. CASE q # r
      BY <1>10, <2>1, <2>5, <3>2 DEF AuthInv, SessionUserInv
    <3> QED
      BY <3>1, <3>2
  <2> QED
    BY <2>4, <2>5 DEF SessionUserInv
<1> QED
  BY <1>6, <1>9, <1>11, <1>12, <1>13, <1>14, <1>15 DEF AuthInv

(* The new token is the only live one of its session. *)
LEMMA SaveStep ==
    ASSUME AuthInv, NEW r \in Requests, SaveRefreshToken(r)
    PROVE  AuthInv'
<1> DEFINE new == req[r].token
           row == req[r].row
<1>1. /\ req[r].step = "save"
      /\ table' = [table EXCEPT ![new] = row]
      /\ req' = [req EXCEPT ![r] = Idle]
      /\ UNCHANGED <<expired, generated, parent, ended>>
  BY DEF SaveRefreshToken
<1>2. /\ req[r] \in Request /\ row \in RefreshToken /\ row # Null
      /\ new \in 1..generated /\ new \in Tokens
      /\ row.session \in 1..generated /\ row.session \notin ended
      /\ table[new] = Null
      /\ \A n \in Tokens : table[n] # Null /\ table[n].live => table[n].session # row.session
  BY <1>1 DEF AuthInv, SavingInv, TypeOK, Request, Tokens
<1>3. table'[new] = row /\ \A n \in Tokens \ {new} : table'[n] = table[n]
  BY <1>1, <1>2 DEF AuthInv, TypeOK
<1>4. req'[r] = Idle /\ \A q \in Requests \ {r} : req'[q] = req[q]
  BY <1>1 DEF AuthInv, TypeOK
<1>5. TypeOK'
  BY <1>1, <1>2 DEF AuthInv, TypeOK, Request, Idle
<1>6. \A m \in Tokens : parent[m] # new
  BY <1>2 DEF AuthInv, GeneratedInv, Tokens
<1>7. GeneratedInv'
  <2>1. \A n \in Tokens : table'[n] # Null => n <= generated /\ table'[n].session <= generated
    BY <1>2, <1>3 DEF AuthInv, GeneratedInv, Tokens
  <2>2. \A m, n \in Tokens : parent[m] = n /\ table'[n] # Null => ~table'[n].live
    BY <1>3, <1>6 DEF AuthInv, GeneratedInv
  <2>3. \A m \in Tokens : parent[m] # 0 => table'[parent[m]] # Null
    BY <1>2, <1>3, <1>6 DEF AuthInv, GeneratedInv, TypeOK
  <2> QED
    BY <1>1, <2>1, <2>2, <2>3 DEF AuthInv, GeneratedInv
<1>8. RevokingInv'
  <2> SUFFICES ASSUME NEW q \in Requests \ {r}, req[q].step = "revoke"
               PROVE  /\ req[q].row # Null
                      /\ req[q].token \in 1..generated
                      /\ table'[req[q].token] # Null
                      /\ table'[req[q].token].user = req[q].row.user
                      /\ table'[req[q].token].session = req[q].row.session
    BY <1>1, <1>4 DEF RevokingInv, Idle
  <2>1. /\ req[q].row # Null
        /\ req[q].token \in 1..generated
        /\ table[req[q].token] # Null
        /\ table[req[q].token].user = req[q].row.user
        /\ table[req[q].token].session = req[q].row.session
    BY DEF AuthInv, RevokingInv
  <2>2. req[q].token \in Tokens
    BY <2>1, AuthAssumption DEF Tokens, AuthInv, TypeOK
  <2>3. req[q].token # new
    BY <1>2, <2>1
  <2> QED
    BY <1>3, <2>1, <2>2, <2>3
<1>9. SavingInv'
  <2> SUFFICES ASSUME NEW q \in Requests \ {r}, req[q].step = "save"
               PROVE  /\ req[q].row # Null
                      /\ req[q].row.session \notin ended
                      /\ req[q].token \in 1..generated
                      /\ req[q].row.session \in 1..generated
                      /\ table'[req[q].token] = Null
                      /\ \A n \in Tokens : table'[n] # Null /\ table'[n].live =>
                            table'[n].session # req[q].row.session
                      /\ \A p \in Requests \ {q} : req'[p].step = "save" =>
                            /\ req'[p].row.session # req[q].row.session
                            /\ req'[p].token # req[q].token
    BY <1>1, <1>4 DEF SavingInv, Idle
  <2>1. /\ req[q].row # Null
        /\ req[q].row.session \notin ended
        /\ req[q].token \in 1..generated
        /\ req[q].row.session \in 1..generated
        /\ table[req[q].token] = Null
        /\ \A n \in Tokens : table[n] # Null /\ table[n].live =>
              table[n].session # req[q].row.session
        /\ \A p \in Requests \ {q} : req[p].step = "save" =>
              req[p].row.session # req[q].row.session /\ req[p].token # req[q].token
    BY DEF AuthInv, SavingInv
  <2>2. req[q].token \in Tokens
    BY <2>1, AuthAssumption DEF Tokens, AuthInv, TypeOK
  <2>3. new # req[q].token /\ row.session # req[q].row.session
    BY <1>1, <2>1
  <2> QED
    BY <1>3, <1>4, <2>1, <2>2, <2>3 DEF Idle
<1>10. SingleSuccessor'
  BY <1>1 DEF AuthInv, SingleSuccessor
<1>11. OneLivePerSession' /\ LoggedOutStays'
  BY <1>1, <1>2, <1>3 DEF AuthInv, OneLivePerSession, LoggedOutStays
<1>12. SessionUserInv'
  <2>1. \A n \in Tokens :
           table[n] # Null /\ table[n].session = row.session => table[n].user = row.user
    BY <1>1 DEF AuthInv, SessionUserInv
  <2>2. \A m, n \in Tokens :
           table'[m] # Null /\ table'[n] # Null /\ table'[m].session = table'[n].session =>
               table'[m].user = table'[n].user
    BY <1>3, <2>1 DEF AuthInv, SessionUserInv
  <2>3. ASSUME NEW q \in Requests, NEW n \in Tokens, req'[q].step = "save",
               table'[n] # Null, table'[n].session = req'[q].row.session
        PROVE  table'[n].user = req'[q].row.user
    <3>1. q # r /\ req'[q] = req[q] /\ req[q].step = "save"
      BY <1>4, <2>3 DEF Idle
    <3>2. n # new
      <4>1. row.session # req[q].row.session
        BY <1>1, <3>1 DEF AuthInv, SavingInv
      <4> QED
        BY <1>3, <2>3, <3>1, <4>1
    <3> QED
      BY <1>3, <2>3, <3>1, <3>2 DEF AuthInv, SessionUserInv
  <2> QED
    BY <2>2, <2>3 DEF SessionUserInv
<1> QED
  BY <1>5, <1>7, <1>8, <1>9, <1>10, <1>11, <1>12 DEF AuthInv

(* A request that gives up leaves the table as it is. *)
LEMMA FailStep ==
    ASSUME AuthInv, NEW r \in Requests, Fail(r)
    PROVE  AuthInv'
<1>1. /\ req' = [req EXCEPT ![r] = Idle]
      /\ UNCHANGED <<table, expired, generated, parent, ended>>
  BY DEF Fail
<1>2. req'[r] = Idle /\ \A q \in Requests \ {r} : req'[q] = req[q]
  BY <1>1 DEF AuthInv, TypeOK
<1>3. TypeOK'
  BY <1>1 DEF AuthInv, TypeOK, Request, Idle
<1>4. RevokingInv' /\ SavingInv'
  BY <1>1, <1>2 DEF AuthInv, RevokingInv, SavingInv, Idle
<1>5. SessionUserInv'
  BY <1>1, <1>2 DEF AuthInv, SessionUserInv, Idle
<1> QED
  BY <1>1, <1>3, <1>4, <1>5
     DEF AuthInv, GeneratedInv, SingleSuccessor, OneLivePerSession, LoggedOutStays

(* A logout turns live rows into revoked ones and ends sessions that have  *)
(* no live row left and no request about to store one.                     *)
LEMMA LogoutStep ==
    ASSUME AuthInv,
           table' \in [Tokens -> RefreshToken \cup {Null}],
           \A m \in Tokens : table'[m] # Null <=> table[m] # Null,
           \A m \in Tokens : table[m] # Null =>
              /\ table'[m].user = table[m].user
              /\ table'[m].session = table[m].session
              /\ table'[m].live => table[m].live,
           ended' \subseteq Tokens,
           \A s \in ended' \ ended :
              /\ \E m \in Tokens : table[m] # Null /\ table[m].session = s
              /\ \A m \in Tokens : table'[m] # Null /\ table'[m].session = s => ~table'[m].live
              /\ \A r \in Requests : req[r].step = "save" => req[r].row.session # s,
           UNCHANGED <<expired, generated, req, parent>>
    PROVE  AuthInv'
<1>1. TypeOK'
  BY DEF AuthInv, TypeOK
<1>2. GeneratedInv'
  <2>1. \A n \in Tokens : table'[n] # Null => n <= generated /\ table'[n].session <= generated
    BY DEF AuthInv, GeneratedInv
  <2>2. \A m, n \in Tokens : parent[m] = n /\ table'[n] # Null => ~table'[n].live
    BY DEF AuthInv, GeneratedInv
  <2>3. \A m \in Tokens : parent[m] # 0 => table'[parent[m]] # Null
    BY DEF AuthInv, GeneratedInv, TypeOK
  <2>4. \A s \in ended' : s <= generated
    BY DEF AuthInv, GeneratedInv
  <2> QED
    BY <2>1, <2>2, <2>3, <2>4 DEF AuthInv, GeneratedInv
<1>3. RevokingInv'
  BY DEF AuthInv, RevokingInv, TypeOK, Request, Tokens
<1>4. SavingInv'
  BY DEF AuthInv, SavingInv, TypeOK, Request, Tokens
<1>5. SingleSuccessor'
  BY DEF AuthInv, SingleSuccessor
<1>6. OneLivePerSession' /\ LoggedOutStays'
  BY DEF AuthInv, OneLivePerSession, LoggedOutStays
<1>7. SessionUserInv'
  BY DEF AuthInv, SessionUserInv
<1> QED
  BY <1>1, <1>2, <1>3, <1>4, <1>5, <1>6, <1>7 DEF AuthInv

(* Every step keeps the invariant. *)
LEMMA NextAuthInv == AuthInv /\ [Next]_vars => AuthInv'
<1> SUFFICES ASSUME AuthInv, [Next]_vars PROVE AuthInv'
  OBVIOUS
<1>1. CASE UNCHANGED vars
  BY <1>1 DEF vars, AuthInv, TypeOK, GeneratedInv, RevokingInv, SavingInv, SingleSuccessor,
              SessionUserInv, OneLivePerSession, LoggedOutStays
<1>2. ASSUME NEW n \in Tokens, Logout(n) PROVE AuthInv'
  <2>1. /\ table[n] # Null
        /\ table' = [table EXCEPT ![n] = [@ EXCEPT !.live = FALSE]]
        /\ ended' = IF table[n].live THEN ended \cup {table[n].session} ELSE ended
        /\ UNCHANGED <<expired, generated, req, parent>>
    BY <1>2 DEF Logout, Revoked
  <2>2. table[n] \in RefreshToken
    BY <2>1 DEF AuthInv, TypeOK
  <2>3. /\ table'[n] \in RefreshToken /\ table'[n] # Null /\ ~table'[n].live
        /\ table'[n].user = table[n].user /\ table'[n].session = table[n].session
        /\ \A m \in Tokens \ {n} : table'[m] = table[m]
    <3>1. table'[n] = [table[n] EXCEPT !.live = FALSE]
          /\ \A m \in Tokens \ {n} : table'[m] = table[m]
      BY <2>1 DEF AuthInv, TypeOK
    <3>2. [table[n] EXCEPT !.live = FALSE] \in RefreshToken
          /\ ~[table[n] EXCEPT !.live = FALSE].live
          /\ [table[n] EXCEPT !.live = FALSE].user = table[n].user
          /\ [table[n] EXCEPT !.live = FALSE].session = table[n].session
      BY <2>2 DEF RefreshToken
    <3> QED
      BY <3>1, <3>2, AuthAssumption
  <2>4. table' \in [Tokens -> RefreshToken \cup {Null}]
    BY <2>1, <2>3 DEF AuthInv, TypeOK
  <2>5. ended' \subseteq Tokens
    BY <2>1, <2>2 DEF AuthInv, TypeOK, RefreshToken
  <2>6. ASSUME NEW s \in ended' \ ended
        PROVE  /\ \E m \in Tokens : table[m] # Null /\ table[m].session = s
               /\ \A m \in Tokens : table'[m] # Null /\ table'[m].session = s => ~table'[m].live
               /\ \A r \in Requests : req[r].step = "save" => req[r].row.session # s
    <3>1. s = table[n].session /\ table[n].live
      BY <2>1, <2>6
    <3> QED
      BY <2>1, <2>3, <3>1 DEF AuthInv, OneLivePerSession, SavingInv
  <2> QED
    BY <2>1, <2>3, <2>4, <2>5, <2>6, LogoutStep
<1>3. ASSUME NEW n \in Tokens, LogoutAll(n) PROVE AuthInv'
  <2> DEFINE user == table[n].user
  <2>1. /\ table' = RevokedOfUser(user)
        /\ ended' = ended \cup AtRest(user)
        /\ UNCHANGED <<expired, generated, req, parent>>
    BY <1>3 DEF LogoutAll
  <2>2. ASSUME NEW m \in Tokens
        PROVE  /\ table'[m] \in RefreshToken \cup {Null}
               /\ table'[m] # Null <=> table[m] # Null
               /\ table[m] # Null =>
                    /\ table'[m].user = table[m].user
                    /\ table'[m].session = table[m].session
                    /\ table'[m].live => table[m].live
                    /\ table[m].user = user => ~table'[m].live
    <3>1. table[m] \in RefreshToken \cup {Null}
      BY DEF AuthInv, TypeOK
    <3>2. CASE table[m] # Null /\ table[m].user = user
      <4>1. table'[m] = [table[m] EXCEPT !.live = FALSE]
        BY <2>1, <3>2 DEF RevokedOfUser
      <4>2. [table[m] EXCEPT !.live = FALSE] \in RefreshToken
            /\ ~[table[m] EXCEPT !.live = FALSE].live
            /\ [table[m] EXCEPT !.live = FALSE].user = table[m].user
            /\ [table[m] EXCEPT !.live = FALSE].session = table[m].session
        BY <3>1, <3>2 DEF RefreshToken
      <4> QED
        BY <3>2, <4>1, <4>2, AuthAssumption
    <3>3. CASE ~(table[m] # Null /\ table[m].user = user)
      <4>1. table'[m] = table[m]
        BY <2>1, <3>3 DEF RevokedOfUser
      <4> QED
        BY <3>1, <3>3, <4>1
    <3> QED
      BY <3>2, <3>3
  <2>3. table' \in [Tokens -> RefreshToken \cup {Null}]
    BY <2>1, <2>2 DEF RevokedOfUser
  <2>4. ended' \subseteq Tokens
    BY <2>1 DEF AuthInv, TypeOK, AtRest
  <2>5. ASSUME NEW s \in ended' \ ended
        PROVE  /\ \E m \in Tokens : table[m] # Null /\ table[m].session = s
               /\ \A m \in Tokens : table'[m] # Null /\ table'[m].session = s => ~table'[m].live
               /\ \A r \in Requests : req[r].step = "save" => req[r].row.session # s
    <3>1. s \in AtRest(user)
      BY <2>1, <2>5
    <3>2. PICK k \in Tokens : table[k] # Null /\ table[k].user = user /\ table[k].session = s
      BY <3>1 DEF AtRest
    <3>3. \A r \in Requests : req[r].step = "save" => req[r].row.session # s
      BY <3>1 DEF AtRest
    <3>4. \A m \in Tokens : table[m] # Null /\ table[m].session = s => table[m].user = user
      BY <3>2 DEF AuthInv, SessionUserInv
    <3>5. \A m \in Tokens : table'[m] # Null /\ table'[m].session = s => ~table'[m].live
      BY <2>2, <3>4
    <3> QED
      BY <3>2, <3>3, <3>5
  <2> QED
    BY <2>1, <2>2, <2>3, <2>4, <2>5, LogoutStep
<1>4. ASSUME NEW n \in Tokens, Expire(n) PROVE AuthInv'
  BY <1>4 DEF Expire, AuthInv, TypeOK, GeneratedInv, RevokingInv, SavingInv, SingleSuccessor,
              SessionUserInv, OneLivePerSession, LoggedOutStays
<1> QED
  BY <1>1, <1>2, <1>3, <1>4, LoginStep, RefreshStep, RevokeStep, SaveStep, FailStep DEF Next

(* The invariant holds in every reachable state. *)
THEOREM AuthInvariance == Spec => []AuthInv
BY InitAuthInv, NextAuthInv, PTL DEF Spec

(* At most one successor of a refresh token is ever generated. *)
THEOREM RotationIsSingleUse == Spec => []SingleSuccessor
<1>1. AuthInv => SingleSuccessor
  BY DEF AuthInv
<1> QED
  BY <1>1, AuthInvariance, PTL

(* A session never has two live refresh tokens. *)
THEOREM SessionsDoNotFork == Spec => []OneLivePerSession
<1>1. AuthInv => OneLivePerSession
  BY DEF AuthInv
<1> QED
  BY <1>1, AuthInvariance, PTL

(* A session that was logged out is never refreshed again. *)
THEOREM LogoutIsFinal == Spec => []LoggedOutStays
<1>1. AuthInv => LoggedOutStays
  BY DEF AuthInv
<1> QED
  BY <1>1, AuthInvariance, PTL

=============================================================================
