----------------------------- MODULE AuthTokens -----------------------------
(***************************************************************************)
(* The refresh tokens of the HTTP API (modules/auth): login, single-use    *)
(* rotation, logout of one session and of all sessions of a user, over the *)
(* table refresh_tokens.                                                   *)
(*                                                                         *)
(* Rotation is three database calls (find, compare-and-swap, insert), and  *)
(* every request runs on its own, so logouts and other refreshes step in   *)
(* between; a request may also fail between two of them.  A token carries  *)
(* a random id, so each one that is generated is new: a number stands for  *)
(* it and for its hash.  Access tokens are not stored and are left out.    *)
(***************************************************************************)
EXTENDS Naturals

CONSTANTS
    Users,
    Requests,   \* the requests that may be in flight at once
    MaxToken,   \* bound: tokens generated
    Null        \* no row

Tokens == 1..MaxToken

(* A row; session is history: the token of the login it goes back to. *)
RefreshToken == [user : Users, session : Tokens, live : BOOLEAN]

(* token: the one presented (revoke), the one to be stored (save). *)
Request == [step : {"idle", "revoke", "save"}, token : Tokens \cup {0}, row : RefreshToken \cup {Null}]

Idle == [step |-> "idle", token |-> 0, row |-> Null]

ASSUME AuthAssumption ==
    /\ MaxToken \in Nat
    /\ Null \notin RefreshToken

VARIABLES
    table,     \* table refresh_tokens
    expired,   \* the tokens that are past their time
    generated, \* how many tokens were generated
    req,       \* what each request in flight remembers
    parent,    \* history: the token each one was exchanged for
    ended      \* history: the sessions a logout has ended

vars == <<table, expired, generated, req, parent, ended>>

Init ==
    /\ table = [n \in Tokens |-> Null]
    /\ expired = {}
    /\ generated = 0
    /\ req = [r \in Requests |-> Idle]
    /\ parent = [n \in Tokens |-> 0]
    /\ ended = {}

Row(user, session) == [user |-> user, session |-> session, live |-> TRUE]

(* GeneratePair: the request goes on to store a new token. *)
GeneratePair(r, user, session) ==
    /\ generated < MaxToken
    /\ generated' = generated + 1
    /\ req' = [req EXCEPT ![r] = [step |-> "save", token |-> generated + 1,
                                  row |-> Row(user, session)]]

(* Login, once e-mail and password were found good. *)
Login(r, user) ==
    /\ req[r] = Idle
    /\ GeneratePair(r, user, generated + 1)
    /\ UNCHANGED <<table, expired, parent, ended>>

(* FindRefreshToken: the row is there, not revoked and not expired. *)
Found(n) == table[n] # Null /\ table[n].live /\ n \notin expired

(* Refresh up to the point where the token was found. *)
Refresh(r, n) ==
    /\ req[r] = Idle
    /\ Found(n)
    /\ req' = [req EXCEPT ![r] = [step |-> "revoke", token |-> n, row |-> table[n]]]
    /\ UNCHANGED <<table, expired, generated, parent, ended>>

Revoked(n) == [table EXCEPT ![n] = [@ EXCEPT !.live = FALSE]]

(* Mutants: the number of rows affected is ignored; nothing is revoked. *)
RevokeUnchecked(r) ==
    LET n == req[r].token
    IN  /\ req[r].step = "revoke"
        /\ table' = Revoked(n)
        /\ GeneratePair(r, req[r].row.user, req[r].row.session)
        /\ parent' = [parent EXCEPT ![generated + 1] = n]
        /\ UNCHANGED <<expired, ended>>

RevokeNothing(r) ==
    LET n == req[r].token
    IN  /\ req[r].step = "revoke"
        /\ table[n].live
        /\ GeneratePair(r, req[r].row.user, req[r].row.session)
        /\ parent' = [parent EXCEPT ![generated + 1] = n]
        /\ UNCHANGED <<table, expired, ended>>

(* RevokeRefreshToken decides the winner: the update matches only a row    *)
(* that is not revoked, and only then a new pair is generated.  The loser  *)
(* gives up (Fail).                                                        *)
Revoke(r) ==
    LET n == req[r].token
    IN  /\ req[r].step = "revoke"
        /\ table[n].live
        /\ table' = Revoked(n)
        /\ GeneratePair(r, req[r].row.user, req[r].row.session)
        /\ parent' = [parent EXCEPT ![generated + 1] = n]
        /\ UNCHANGED <<expired, ended>>

SaveRefreshToken(r) ==
    /\ req[r].step = "save"
    /\ table' = [table EXCEPT ![req[r].token] = req[r].row]
    /\ req' = [req EXCEPT ![r] = Idle]
    /\ UNCHANGED <<expired, generated, parent, ended>>

(* The compare-and-swap is lost, a call fails or the process ends; what    *)
(* was revoked stays revoked.                                              *)
Fail(r) ==
    /\ req[r].step # "idle"
    /\ req' = [req EXCEPT ![r] = Idle]
    /\ UNCHANGED <<table, expired, generated, parent, ended>>

(* Logout with a token whose signature is still good; revoking a token     *)
(* twice changes nothing.                                                  *)
Logout(n) ==
    /\ table[n] # Null
    /\ n \notin expired
    /\ table' = Revoked(n)
    /\ ended' = IF table[n].live THEN ended \cup {table[n].session} ELSE ended
    /\ UNCHANGED <<expired, generated, req, parent>>

(* Mutant: only expired tokens are revoked. *)
RevokedOfUserExpired(user) ==
    [n \in Tokens |-> IF table[n] # Null /\ table[n].user = user /\ n \in expired
                      THEN [table[n] EXCEPT !.live = FALSE] ELSE table[n]]

(* RevokeRefreshTokensByUserID. *)
RevokedOfUser(user) ==
    [n \in Tokens |-> IF table[n] # Null /\ table[n].user = user
                      THEN [table[n] EXCEPT !.live = FALSE] ELSE table[n]]

(* The sessions of a user that no request is about to give a new token. *)
AtRest(user) ==
    {s \in Tokens : /\ \E n \in Tokens : table[n] # Null /\ table[n].user = user /\ table[n].session = s
                    /\ \A r \in Requests : req[r].step = "save" => req[r].row.session # s}

(* Logout with revoke_all. *)
LogoutAll(n) ==
    /\ table[n] # Null
    /\ n \notin expired
    /\ table' = RevokedOfUser(table[n].user)
    /\ ended' = ended \cup AtRest(table[n].user)
    /\ UNCHANGED <<expired, generated, req, parent>>

(* Time passes. *)
Expire(n) ==
    /\ table[n] # Null
    /\ n \notin expired
    /\ expired' = expired \cup {n}
    /\ UNCHANGED <<table, generated, req, parent, ended>>

Next ==
    \/ \E r \in Requests :
          \/ \E user \in Users : Login(r, user)
          \/ \E n \in Tokens : Refresh(r, n)
          \/ Revoke(r)
          \/ SaveRefreshToken(r)
          \/ Fail(r)
    \/ \E n \in Tokens : Logout(n) \/ LogoutAll(n) \/ Expire(n)

Spec == Init /\ [][Next]_vars

-----------------------------------------------------------------------------
(* Everything has the shape its declaration says. *)
TypeOK ==
    /\ table \in [Tokens -> RefreshToken \cup {Null}]
    /\ expired \subseteq Tokens
    /\ generated \in 0..MaxToken
    /\ req \in [Requests -> Request]
    /\ parent \in [Tokens -> Tokens \cup {0}]
    /\ ended \subseteq Tokens

(* "Single-use rotation" (Refresh): however many refreshes present one     *)
(* token at once, at most one successor of it is ever generated.           *)
SingleSuccessor ==
    \A m, n \in Tokens : parent[m] # 0 /\ parent[m] = parent[n] => m = n

(* A session never has two tokens that can be refreshed, not even while    *)
(* one is being exchanged.                                                 *)
OneLivePerSession ==
    \A m, n \in Tokens :
        /\ table[m] # Null /\ table[m].live
        /\ table[n] # Null /\ table[n].live
        /\ table[m].session = table[n].session
        => m = n

(* Logout is final: a session that was logged out while its token was      *)
(* good, or by a logout of all sessions that met no exchange half way, is  *)
(* never refreshed again.                                                  *)
LoggedOutStays ==
    \A n \in Tokens : table[n] # Null /\ table[n].session \in ended => ~table[n].live

-----------------------------------------------------------------------------
(* The inductive invariant. *)

(* A request that will store a token owns its session: no live row and no  *)
(* other request has it, nobody else stores that token, and it was not     *)
(* logged out.                                                             *)
SavingInv ==
    \A r \in Requests : req[r].step = "save" =>
        /\ req[r].row # Null
        /\ req[r].row.session \notin ended
        /\ req[r].token \in 1..generated
        /\ req[r].row.session \in 1..generated
        /\ table[req[r].token] = Null
        /\ \A n \in Tokens :
              table[n] # Null /\ table[n].live => table[n].session # req[r].row.session
        /\ \A q \in Requests \ {r} : req[q].step = "save" =>
              req[q].row.session # req[r].row.session /\ req[q].token # req[r].token

(* A request that found a token remembers its row. *)
RevokingInv ==
    \A r \in Requests : req[r].step = "revoke" =>
        /\ req[r].row # Null
        /\ req[r].token \in 1..generated
        /\ table[req[r].token] # Null
        /\ table[req[r].token].user = req[r].row.user
        /\ table[req[r].token].session = req[r].row.session

(* Rows, parents and ended sessions only speak of tokens generated so far; *)
(* a live token has no successor.                                          *)
GeneratedInv ==
    /\ \A n \in Tokens : table[n] # Null => n <= generated /\ table[n].session <= generated
    /\ \A n \in Tokens : n > generated => parent[n] = 0
    /\ \A m, n \in Tokens : parent[m] = n /\ table[n] # Null => ~table[n].live
    /\ \A m \in Tokens : parent[m] # 0 => table[parent[m]] # Null
    /\ \A s \in ended : s <= generated

(* The tokens of a session belong to one user. *)
SessionUserInv ==
    /\ \A m, n \in Tokens :
          table[m] # Null /\ table[n] # Null /\ table[m].session = table[n].session =>
              table[m].user = table[n].user
    /\ \A r \in Requests, n \in Tokens :
          /\ req[r].step = "save"
          /\ table[n] # Null /\ table[n].session = req[r].row.session
          => table[n].user = req[r].row.user

(* What the proofs carry from state to state. *)
AuthInv ==
    /\ TypeOK
    /\ GeneratedInv
    /\ SessionUserInv
    /\ RevokingInv
    /\ SavingInv
    /\ SingleSuccessor
    /\ OneLivePerSession
    /\ LoggedOutStays

=============================================================================
