----------------------------- MODULE Platform_proofs -----------------------------
(***************************************************************************)
(* What every router stands on, for any number of callers.  Sessions:      *)
(* any limits, however logins, refreshes and administration overlap.       *)
(* ProcessResources: what calls that nest, fail and reload the cache keep  *)
(* of the connections, the row locks and the permission cache.  ActionLog: *)
(* what the middleware's decision log and the triggers keep of the actions *)
(* that PATCHes overlap on.                                                *)
(***************************************************************************)
EXTENDS Sessions, ProcessResources, ActionLog, FiniteSetTheorems, WellFoundedInduction,
        TLAPS

(***************************************************************************)
(* Sessions                                                                *)
(***************************************************************************)

Rows == token \in [Tokens -> RefreshToken \cup {Null}]

\* A process that may still issue a token knows its user; one that exchanges a token,
\* or has found it revoked, names its row.
Fits(p) == /\ job[p].at = "login" => job[p].user \in Users
           /\ job[p].at = "login" /\ job[p].ok => user[job[p].user] # Null
           /\ job[p].at \in {"refresh", "reuse"} =>
                  /\ job[p].user \in Users /\ user[job[p].user] # Null
                  /\ job[p].token \in Tokens /\ token[job[p].token] # Null

\* The row of a token's user stays.
Owned == \A t \in Tokens : token[t] # Null => user[token[t].user] # Null

\* A token that has been replaced is there and revoked.
Replaced == \A t \in Tokens : token[t] # Null /\ token[t].from # Null =>
                token[token[t].from] # Null /\ token[token[t].from].revoked

IInv == TypeOK /\ (\A p \in Processes : Fits(p)) /\ Owned /\ Replaced

------------------------------------------------------------------------------
(* Rows *)

LEMMA NewTokenType ==
    ASSUME NEW u \in Users, NEW s \in Tokens \cup {Null}
    PROVE  NewToken(u, s) \in RefreshToken /\ NewToken(u, s) # Null
<1>1. NewToken(u, s) \in RefreshToken
  BY DEF NewToken, RefreshToken
<1> QED BY <1>1, NullAssumption

LEMMA RevokedType ==
    ASSUME NEW r \in RefreshToken, NEW b \in BOOLEAN
    PROVE  [r EXCEPT !.revoked = b] \in RefreshToken /\ [r EXCEPT !.revoked = b] # Null
<1>1. [r EXCEPT !.revoked = b] \in RefreshToken
  BY DEF RefreshToken
<1> QED BY <1>1, NullAssumption

\* A step that only revokes: the rows are those before, each as it was or revoked.
Revokes == /\ token' \in [Tokens -> RefreshToken \cup {Null}]
           /\ \A t \in Tokens :
                 \/ token'[t] = token[t]
                 \/ token[t] # Null /\ token'[t] = [token[t] EXCEPT !.revoked = TRUE]

LEMMA RevokeAllRevokes ==
    ASSUME Rows, NEW u, token' = RevokeAll(u)
    PROVE  Revokes
<1>1. ASSUME NEW t \in Tokens
      PROVE  /\ RevokeAll(u)[t] \in RefreshToken \cup {Null}
             /\ \/ RevokeAll(u)[t] = token[t]
                \/ token[t] # Null /\ RevokeAll(u)[t] = [token[t] EXCEPT !.revoked = TRUE]
  <2>1. token[t] \in RefreshToken \cup {Null}
    BY DEF Rows
  <2> QED BY <2>1, RevokedType DEF RevokeAll
<1>2. DOMAIN RevokeAll(u) = Tokens /\ RevokeAll(u) = [t \in Tokens |-> RevokeAll(u)[t]]
  BY DEF RevokeAll
<1> QED BY <1>1, <1>2 DEF Revokes

LEMMA LogoutRevokes ==
    ASSUME Rows, NEW t \in Tokens, token[t] # Null, token' = [token EXCEPT ![t].revoked = TRUE]
    PROVE  Revokes
<1>1. token[t] \in RefreshToken
  BY DEF Rows
<1>2. [token[t] EXCEPT !.revoked = TRUE] \in RefreshToken
  BY <1>1, RevokedType
<1> QED BY <1>1, <1>2 DEF Rows, Revokes

\* The row is there when it was, of the same user, in exchange for the same token.
SameRow(t) == /\ token'[t] = Null <=> token[t] = Null
              /\ token[t] # Null =>
                     token'[t].user = token[t].user /\ token'[t].from = token[t].from

StaysRevoked(t) == token[t] # Null /\ token[t].revoked => token'[t].revoked

LEMMA RevokesKeeps ==
    ASSUME IInv, Revokes
    PROVE  Rows' /\ Replaced' /\ \A t \in Tokens : SameRow(t) /\ StaysRevoked(t)
<1>1. ASSUME NEW t \in Tokens
      PROVE  SameRow(t) /\ StaysRevoked(t)
  <2>1. token[t] \in RefreshToken \cup {Null}
    BY DEF IInv, TypeOK
  <2>2. CASE token[t] \in RefreshToken
    <3>1. token[t] # Null
      BY <2>2, NullAssumption
    <3>2. [token[t] EXCEPT !.revoked = TRUE] # Null
      BY <2>2, RevokedType
    <3>3. /\ [token[t] EXCEPT !.revoked = TRUE].user = token[t].user
          /\ [token[t] EXCEPT !.revoked = TRUE].from = token[t].from
          /\ [token[t] EXCEPT !.revoked = TRUE].revoked
      BY <2>2 DEF RefreshToken
    <3> QED BY <3>1, <3>2, <3>3 DEF Revokes, SameRow, StaysRevoked
  <2>3. CASE token[t] = Null
    BY <2>3 DEF Revokes, SameRow, StaysRevoked
  <2> QED BY <2>1, <2>2, <2>3
<1>2. ASSUME NEW t \in Tokens, token[t] # Null, token[t].from # Null
      PROVE  token[t].from \in Tokens
  <2>1. token[t] \in RefreshToken
    BY <1>2 DEF IInv, TypeOK
  <2> QED BY <1>2, <2>1 DEF RefreshToken
<1>3. Replaced'
  BY <1>1, <1>2 DEF IInv, Replaced, SameRow, StaysRevoked
<1>4. Rows'
  BY DEF Revokes, Rows
<1> QED BY <1>1, <1>3, <1>4

------------------------------------------------------------------------------
(* The invariant *)

LEMMA EmptyAttempts == <<>> \in Seq(Attempt)
OBVIOUS

LEMMA InitInv == Init => IInv
<1> SUFFICES ASSUME Init PROVE IInv
  OBVIOUS
<1>1. Idle \in Frame
  BY DEF Idle, Frame
<1>2. quarter \in Quarters
  BY SessionsAssumption DEF Init, Quarters
<1>3. TypeOK
  BY <1>1, <1>2, EmptyAttempts DEF Init, TypeOK
<1> QED BY <1>3 DEF Init, IInv, Fits, Owned, Replaced, Idle

RowsStay == \A t \in Tokens : token[t] # Null => token'[t] # Null /\ token'[t].user = token[t].user
UsersStay == \A u \in Users : user[u] # Null => user'[u] # Null

\* A step that leaves rows where they are, and every frame as it was, idle or fit
LEMMA Combine ==
    ASSUME IInv, TypeOK', Replaced', RowsStay, UsersStay,
           \A q \in Processes : job'[q] \in {job[q], Idle} \/ Fits(q)',
           \A t \in Tokens : token[t] = Null /\ token'[t] # Null => user'[token'[t].user] # Null
    PROVE  IInv'
<1>1. ASSUME NEW q \in Processes PROVE Fits(q)'
  <2>1. CASE job'[q] = job[q]
    <3>1. Fits(q)
      BY DEF IInv
    <3> QED BY <2>1, <3>1 DEF Fits, RowsStay, UsersStay
  <2>2. CASE job'[q] = Idle
    BY <2>2 DEF Idle, Fits
  <2> QED BY <2>1, <2>2
<1>2. ASSUME NEW t \in Tokens, token'[t] # Null PROVE user'[token'[t].user] # Null
  <2>1. CASE token[t] # Null
    <3>1. token[t] \in RefreshToken /\ user[token[t].user] # Null
      BY <2>1 DEF IInv, TypeOK, Owned
    <3>2. token[t].user \in Users
      BY <3>1 DEF RefreshToken
    <3> QED BY <2>1, <3>1, <3>2 DEF RowsStay, UsersStay
  <2> QED BY <1>2, <2>1
<1> QED BY <1>1, <1>2 DEF IInv, Owned

LEMMA IdleFrame == Idle \in Frame
BY DEF Idle, Frame

\* A step that only revokes
LEMMA RevokingInv ==
    ASSUME IInv, Revokes, user' \in [Users -> Account \cup {Null}], UsersStay,
           job' = job \/ \E p \in Processes : job' = [job EXCEPT ![p] = Idle],
           quarter' = quarter, attempts' = attempts, shut' = shut,
           refused' = refused
    PROVE  IInv'
<1>1. Rows' /\ Replaced' /\ \A t \in Tokens : SameRow(t)
  BY RevokesKeeps
<1>2. job' \in [Processes -> Frame] /\ \A q \in Processes : job'[q] \in {job[q], Idle}
  BY IdleFrame DEF IInv, TypeOK
<1>3. TypeOK'
  BY <1>1, <1>2 DEF IInv, TypeOK, Rows
<1>4. RowsStay
  BY <1>1 DEF RowsStay, SameRow
<1> QED BY <1>1, <1>2, <1>3, <1>4, Combine DEF SameRow

\* A step that leaves the tokens alone
LEMMA TokensKept ==
    ASSUME IInv, TypeOK', token' = token, UsersStay,
           \A q \in Processes : job'[q] \in {job[q], Idle} \/ Fits(q)'
    PROVE  IInv'
BY Combine DEF IInv, RowsStay, Replaced

\* A step that issues t to u, in exchange for s or for no token
Issues(t, u, s) ==
    /\ t \in Tokens /\ token[t] = Null
    /\ u \in Users /\ user[u] # Null
    /\ s \in Tokens \cup {Null}
    /\ token' \in [Tokens -> RefreshToken \cup {Null}]
    /\ token'[t] = NewToken(u, s)
    /\ \A x \in Tokens \ {t} : SameRow(x) /\ StaysRevoked(x)
    /\ s # Null => token[s] # Null /\ token'[s].revoked

LEMMA IssuingInv ==
    ASSUME IInv, NEW t, NEW u, NEW s, Issues(t, u, s),
           \E p \in Processes : job' = [job EXCEPT ![p] = Idle],
           TypeOK', user' = user
    PROVE  IInv'
<1>1. token'[t] # Null /\ token'[t].user = u /\ token'[t].from = s
  BY NewTokenType DEF Issues, NewToken
<1>2. RowsStay
  BY DEF RowsStay, Issues, SameRow
<1>3. ASSUME NEW x \in Tokens, token'[x] # Null, token'[x].from # Null
      PROVE  token'[token'[x].from] # Null /\ token'[token'[x].from].revoked
  <2>1. CASE x = t
    <3>1. s \in Tokens \ {t} /\ token[s] # Null /\ token'[s].revoked
      BY <1>1, <1>3, <2>1 DEF Issues
    <3> QED BY <1>1, <1>2, <2>1, <3>1 DEF RowsStay
  <2>2. CASE x # t
    <3>1. token[x] # Null /\ token'[x].from = token[x].from
      BY <1>3, <2>2 DEF Issues, SameRow
    <3>2. token[x].from \in Tokens
      BY <1>3, <3>1 DEF IInv, TypeOK, RefreshToken
    <3>3. token[token[x].from] # Null /\ token[token[x].from].revoked
      BY <1>3, <3>1 DEF IInv, Replaced
    <3>4. token[x].from # t
      BY <3>3 DEF Issues
    <3> QED BY <3>1, <3>2, <3>3, <3>4, <1>2 DEF Issues, RowsStay, StaysRevoked
  <2> QED BY <2>1, <2>2
<1>4. \A q \in Processes : job'[q] \in {job[q], Idle}
  BY DEF IInv, TypeOK
<1>5. Replaced'
  BY <1>3 DEF Replaced
<1>6. \A x \in Tokens : token[x] = Null /\ token'[x] # Null => user'[token'[x].user] # Null
  BY <1>1 DEF Issues, SameRow
<1> QED BY <1>2, <1>4, <1>5, <1>6, Combine DEF UsersStay

\* The row of a user that is there
LEMMA UserRow ==
    ASSUME IInv, NEW u \in Users, user[u] # Null
    PROVE  user[u] \in Account /\ user[u].role \in Roles /\ user[u].active \in BOOLEAN
BY DEF IInv, TypeOK, Account

LEMMA TokenRow ==
    ASSUME IInv, NEW t \in Tokens, token[t] # Null
    PROVE  /\ token[t] \in RefreshToken /\ token[t].user \in Users
           /\ token[t].revoked \in BOOLEAN /\ user[token[t].user] # Null
BY DEF IInv, TypeOK, RefreshToken, Owned

LEMMA LoginReadInv ==
    ASSUME IInv, NEW p \in Processes, NEW u \in Users, NEW right \in BOOLEAN,
           LoginRead(p, u, right)
    PROVE  IInv'
<1> DEFINE f == [at |-> "login", user |-> u, role |-> IF HasEmail(u) THEN user[u].role ELSE Null,
                 token |-> Null, ok |-> ~refused /\ HasEmail(u) /\ right /\ user[u].active]
<1>1. HasEmail(u) => user[u] # Null
  BY DEF HasEmail
<1>2. f.ok \in BOOLEAN /\ f.role \in Roles \cup {Null}
  BY <1>1, UserRow
<1>3. f \in Frame
  BY <1>2 DEF Frame
<1>4. job' = [job EXCEPT ![p] = f] /\ token' = token /\ user' = user
  BY DEF LoginRead
<1>5. TypeOK'
  BY <1>3, <1>4 DEF LoginRead, IInv, TypeOK, rules
<1>6. job'[p] = f /\ \A q \in Processes \ {p} : job'[q] = job[q]
  BY <1>4 DEF IInv, TypeOK
<1>7. f.at = "login" /\ f.user = u /\ (f.ok => user[u] # Null)
  BY <1>1
<1> HIDE DEF f
<1>8. Fits(p)'
  BY <1>4, <1>6, <1>7 DEF Fits
<1> QED BY <1>4, <1>5, <1>6, <1>8, TokensKept DEF UsersStay

LEMMA RefreshReadInv ==
    ASSUME IInv, NEW p \in Processes, NEW t \in Tokens, RefreshRead(p, t)
    PROVE  IInv'
<1> DEFINE f == [at |-> IF token[t].revoked THEN "reuse" ELSE "refresh", user |-> token[t].user,
                 role |-> user[token[t].user].role, token |-> t, ok |-> TRUE]
<1>1. token[t] # Null /\ token[t].user \in Users /\ user[token[t].user] # Null
  BY TokenRow DEF RefreshRead
<1>2. f \in Frame
  BY <1>1, UserRow DEF Frame
<1>3. job' = [job EXCEPT ![p] = f] /\ token' = token /\ user' = user
  BY DEF RefreshRead
<1>4. TypeOK'
  BY <1>2, <1>3 DEF RefreshRead, IInv, TypeOK, rules
<1>5. job'[p] = f /\ \A q \in Processes \ {p} : job'[q] = job[q]
  BY <1>3 DEF IInv, TypeOK
<1>6. Fits(p)'
  BY <1>1, <1>3, <1>5 DEF Fits
<1> QED BY <1>3, <1>4, <1>5, <1>6, TokensKept DEF UsersStay

\* One more attempt, in this quarter
LEMMA RecordType ==
    ASSUME IInv, NEW u \in Users, NEW ok \in BOOLEAN, Record(u, ok)
    PROVE  attempts' \in Seq(Attempt)
<1>1. [user |-> u, quarter |-> quarter, ok |-> ok] \in Attempt
  BY DEF IInv, TypeOK, Attempt
<1> QED BY <1>1 DEF Record, IInv, TypeOK

LEMMA LoginFailsInv ==
    ASSUME IInv, NEW p \in Processes, LoginFails(p)
    PROVE  IInv'
<1>1. job[p].user \in Users
  BY DEF LoginFails, IInv, Fits
<1>2. attempts' \in Seq(Attempt)
  BY <1>1, RecordType DEF LoginFails
<1>3. job' \in [Processes -> Frame] /\ \A q \in Processes : job'[q] \in {job[q], Idle}
  BY IdleFrame DEF LoginFails, IInv, TypeOK
<1>4. TypeOK'
  BY <1>2, <1>3 DEF LoginFails, IInv, TypeOK, rules
<1> QED BY <1>3, <1>4, TokensKept DEF LoginFails, UsersStay

LEMMA LoginSucceedsIssues ==
    ASSUME IInv, NEW p \in Processes, LoginSucceeds(p)
    PROVE  \E t \in Tokens : /\ Issues(t, job[p].user, Null)
                             /\ token' = [token EXCEPT ![t] = NewToken(job[p].user, Null)]
<1>1. job[p].user \in Users /\ user[job[p].user] # Null
  BY DEF LoginSucceeds, IInv, Fits
<1>2. PICK t \in Tokens : /\ token[t] = Null
                          /\ token' = [token EXCEPT ![t] = NewToken(job[p].user, Null)]
  BY DEF LoginSucceeds
<1>3. NewToken(job[p].user, Null) \in RefreshToken
  BY <1>1, NewTokenType
<1>4. /\ token' \in [Tokens -> RefreshToken \cup {Null}]
      /\ token'[t] = NewToken(job[p].user, Null)
      /\ \A x \in Tokens \ {t} : token'[x] = token[x]
  BY <1>2, <1>3 DEF IInv, TypeOK
<1> QED BY <1>1, <1>2, <1>4 DEF Issues, SameRow, StaysRevoked

LEMMA LoginSucceedsInv ==
    ASSUME IInv, NEW p \in Processes, LoginSucceeds(p)
    PROVE  IInv'
<1>1. PICK t \in Tokens : Issues(t, job[p].user, Null)
  BY LoginSucceedsIssues
<1>2. attempts' \in Seq(Attempt)
  BY <1>1, RecordType DEF LoginSucceeds, Issues
<1>3. job' \in [Processes -> Frame]
  BY IdleFrame DEF LoginSucceeds, IInv, TypeOK
<1>4. TypeOK'
  BY <1>1, <1>2, <1>3 DEF LoginSucceeds, IInv, TypeOK, Issues, rules
<1> QED BY <1>1, <1>4, IssuingInv DEF LoginSucceeds

\* The rotation revokes the token it exchanges in the same step.
LEMMA RotateIssues ==
    ASSUME IInv, NEW p \in Processes, Rotate(p)
    PROVE  LET s == job[p].token IN
           /\ s \in Tokens /\ token[s] # Null
           /\ \E t \in Tokens : /\ Issues(t, job[p].user, s)
                                /\ token'[s] = [token[s] EXCEPT !.revoked = TRUE]
                                /\ \A x \in Tokens \ {s, t} : token'[x] = token[x]
<1> DEFINE s == job[p].token
           u == job[p].user
<1>1. u \in Users /\ user[u] # Null /\ s \in Tokens /\ token[s] # Null
  BY DEF Rotate, IInv, Fits
<1>2. PICK t \in Tokens : /\ token[t] = Null
                          /\ token' = [token EXCEPT ![s].revoked = TRUE, ![t] = NewToken(u, s)]
  BY DEF Rotate
<1>3. NewToken(u, s) \in RefreshToken
  BY <1>1, NewTokenType
<1>4. token[s] \in RefreshToken
  BY <1>1, TokenRow
<1> DEFINE r == [token[s] EXCEPT !.revoked = TRUE]
<1>5. /\ r \in RefreshToken /\ r # Null
      /\ r.user = token[s].user /\ r.from = token[s].from /\ r.revoked
  BY <1>4, RevokedType DEF RefreshToken
<1>6. token' = [token EXCEPT ![s] = r, ![t] = NewToken(u, s)]
  BY <1>2
<1> HIDE DEF r
<1>7. /\ token' \in [Tokens -> RefreshToken \cup {Null}]
      /\ token'[t] = NewToken(u, s) /\ token'[s] = r
      /\ \A x \in Tokens \ {s, t} : token'[x] = token[x]
  BY <1>1, <1>2, <1>3, <1>5, <1>6, ZenonT(60) DEF IInv, TypeOK
<1>8. Issues(t, u, s)
  BY <1>1, <1>2, <1>5, <1>7 DEF Issues, SameRow, StaysRevoked
<1> QED BY <1>1, <1>7, <1>8 DEF r

LEMMA RotateInv ==
    ASSUME IInv, NEW p \in Processes, Rotate(p)
    PROVE  IInv'
<1>1. PICK t \in Tokens : Issues(t, job[p].user, job[p].token)
  BY RotateIssues
<1>2. job' \in [Processes -> Frame]
  BY IdleFrame DEF Rotate, IInv, TypeOK
<1>3. TypeOK'
  BY <1>1, <1>2 DEF Rotate, IInv, TypeOK, Issues, rules
<1> QED BY <1>1, <1>3, IssuingInv DEF Rotate
LEMMA ReuseInv ==
    ASSUME IInv, NEW p \in Processes, Reuse(p)
    PROVE  Revokes /\ IInv'
<1>1. Revokes
  BY RevokeAllRevokes DEF Reuse, IInv, TypeOK, Rows
<1> QED BY <1>1, RevokingInv DEF Reuse, IInv, TypeOK, UsersStay, rules

LEMMA LogoutInv ==
    ASSUME IInv, NEW p \in Processes, NEW t \in Tokens, Logout(p, t)
    PROVE  Revokes /\ IInv'
<1>1. Revokes
  BY LogoutRevokes DEF Logout, IInv, TypeOK, Rows
<1> QED BY <1>1, RevokingInv DEF Logout, IInv, TypeOK, UsersStay, rules

LEMMA FailInv ==
    ASSUME IInv, NEW p \in Processes, Fail(p)
    PROVE  IInv'
<1>1. job' \in [Processes -> Frame] /\ \A q \in Processes : job'[q] \in {job[q], Idle}
  BY IdleFrame DEF Fail, IInv, TypeOK
<1>2. TypeOK'
  BY <1>1 DEF Fail, IInv, TypeOK, rules
<1> QED BY <1>1, <1>2, TokensKept DEF Fail, UsersStay

\* A change of one account
LEMMA AccountType ==
    ASSUME IInv, NEW u \in Users, NEW a \in Account, user' = [user EXCEPT ![u] = a]
    PROVE  user' \in [Users -> Account \cup {Null}] /\ UsersStay
<1>1. a # Null
  BY NullAssumption
<1> QED BY <1>1 DEF IInv, TypeOK, UsersStay

LEMMA AddUserInv ==
    ASSUME IInv, NEW u \in Users, NEW r \in Roles, AddUser(u, r)
    PROVE  IInv'
<1>1. [email |-> TRUE, active |-> TRUE, role |-> r] \in Account
  BY DEF Account
<1>2. user' \in [Users -> Account \cup {Null}] /\ UsersStay
  BY <1>1, AccountType DEF AddUser
<1>3. TypeOK'
  BY <1>2 DEF AddUser, IInv, TypeOK, rules
<1> QED BY <1>2, <1>3, TokensKept DEF AddUser, IInv, TypeOK

LEMMA SetRoleInv ==
    ASSUME IInv, NEW u \in Users, NEW r \in Roles, SetRole(u, r)
    PROVE  Revokes /\ IInv'
<1>1. Revokes
  BY RevokeAllRevokes DEF SetRole, IInv, TypeOK, Rows
<1> DEFINE a == [user[u] EXCEPT !.role = r]
<1>2. a \in Account
  BY UserRow DEF SetRole, Account
<1>3. user' = [user EXCEPT ![u] = a]
  BY DEF SetRole
<1>4. user' \in [Users -> Account \cup {Null}] /\ UsersStay
  BY <1>2, <1>3, AccountType
<1> QED BY <1>1, <1>4, RevokingInv DEF SetRole, rules

\* A step that keeps every row, revoked or not
LEMMA SameRevokes ==
    ASSUME IInv, token' = token
    PROVE  Revokes
BY DEF IInv, TypeOK, Revokes

LEMMA SetActiveInv ==
    ASSUME IInv, NEW u \in Users, NEW active \in BOOLEAN, SetActive(u, active)
    PROVE  Revokes /\ IInv'
<1>1. Revokes
  BY RevokeAllRevokes, SameRevokes DEF SetActive, IInv, TypeOK, Rows
<1> DEFINE a == [user[u] EXCEPT !.active = active]
<1>2. a \in Account
  BY UserRow DEF SetActive, Account
<1>3. user' = [user EXCEPT ![u] = a]
  BY DEF SetActive
<1>4. user' \in [Users -> Account \cup {Null}] /\ UsersStay
  BY <1>2, <1>3, AccountType
<1> QED BY <1>1, <1>4, RevokingInv DEF SetActive, rules

LEMMA SoftDeleteInv ==
    ASSUME IInv, NEW u \in Users, SoftDelete(u)
    PROVE  Revokes /\ IInv'
<1>1. Revokes
  BY RevokeAllRevokes DEF SoftDelete, IInv, TypeOK, Rows
<1> DEFINE a == [user[u] EXCEPT !.active = FALSE, !.email = FALSE]
<1>2. a \in Account
  BY UserRow DEF SoftDelete, Account
<1>3. user' = [user EXCEPT ![u] = a]
  BY DEF SoftDelete, IInv, TypeOK
<1>4. user' \in [Users -> Account \cup {Null}] /\ UsersStay
  BY <1>2, <1>3, AccountType
<1> QED BY <1>1, <1>4, RevokingInv DEF SoftDelete, rules

LEMMA SetRulesInv ==
    ASSUME IInv, NEW s \in BOOLEAN, NEW r \in BOOLEAN, SetRules(s, r)
    PROVE  IInv'
<1>1. TypeOK'
  BY DEF SetRules, IInv, TypeOK
<1> QED BY <1>1, TokensKept DEF SetRules, UsersStay

LEMMA TickInv ==
    ASSUME IInv, Tick
    PROVE  IInv'
<1>1. quarter' \in Quarters
  BY SessionsAssumption DEF Tick, IInv, TypeOK, Quarters
<1>2. TypeOK'
  BY <1>1 DEF Tick, IInv, TypeOK, rules
<1> QED BY <1>2, TokensKept DEF Tick, UsersStay

\* An expired token keeps its user and what it was issued for.
LEMMA ExpireInv ==
    ASSUME IInv, NEW t \in Tokens, Expire(t)
    PROVE  IInv' /\ \A x \in Tokens : SameRow(x) /\ StaysRevoked(x)
                                      /\ (token[x] # Null => token'[x].revoked = token[x].revoked)
<1> DEFINE r == [token[t] EXCEPT !.expired = TRUE]
<1>1. token[t] \in RefreshToken
  BY TokenRow DEF Expire
<1>2. r \in RefreshToken
  BY <1>1 DEF RefreshToken
<1>3. r # Null
  BY <1>2, NullAssumption
<1>4. r.user = token[t].user /\ r.from = token[t].from /\ r.revoked = token[t].revoked
  BY <1>1 DEF RefreshToken
<1>5. token' = [token EXCEPT ![t] = r]
  BY DEF Expire
<1> HIDE DEF r
<1>6. /\ token' \in [Tokens -> RefreshToken \cup {Null}] /\ token'[t] = r
      /\ \A x \in Tokens \ {t} : token'[x] = token[x]
  BY <1>2, <1>5 DEF IInv, TypeOK
<1>7. \A x \in Tokens : SameRow(x) /\ StaysRevoked(x)
                        /\ (token[x] # Null => token'[x].revoked = token[x].revoked)
  BY <1>3, <1>4, <1>6 DEF Expire, SameRow, StaysRevoked
<1>8. Replaced'
  <2> SUFFICES ASSUME NEW x \in Tokens, token'[x] # Null, token'[x].from # Null
               PROVE  token'[token'[x].from] # Null /\ token'[token'[x].from].revoked
    BY DEF Replaced
  <2>1. token[x] # Null /\ token'[x].from = token[x].from
    BY <1>7 DEF SameRow
  <2>2. token[x].from \in Tokens
    BY <2>1, TokenRow DEF RefreshToken
  <2>3. token[token[x].from] # Null /\ token[token[x].from].revoked
    BY <2>1 DEF IInv, Replaced
  <2> QED BY <1>7, <2>1, <2>2, <2>3 DEF SameRow, StaysRevoked
<1>9. TypeOK'
  BY <1>6 DEF Expire, IInv, TypeOK, rules
<1>10. RowsStay
  BY <1>7 DEF RowsStay, SameRow
<1>11. job' = job /\ user' = user
  BY DEF Expire
<1> QED BY <1>7, <1>8, <1>9, <1>10, <1>11, Combine DEF SameRow, UsersStay
LEMMA StutterInv == IInv /\ UNCHANGED vars => IInv'
<1> SUFFICES ASSUME IInv, UNCHANGED vars PROVE IInv'
  OBVIOUS
<1>1. TypeOK' /\ token' = token /\ user' = user /\ job' = job
  BY DEF vars, rules, IInv, TypeOK
<1> QED BY <1>1, TokensKept DEF UsersStay

LEMMA NextInv == IInv /\ [Next]_vars => IInv'
<1> SUFFICES ASSUME IInv, [Next]_vars PROVE IInv'
  OBVIOUS
<1>1. ASSUME NEW p \in Processes, LoopNext(p) PROVE IInv'
  <2>1. CASE \E u \in Users, right \in BOOLEAN : LoginRead(p, u, right)
    BY <2>1, LoginReadInv
  <2>2. CASE LoginFails(p)
    BY <2>2, LoginFailsInv
  <2>3. CASE LoginSucceeds(p)
    BY <2>3, LoginSucceedsInv
  <2>4. CASE \E t \in Tokens : RefreshRead(p, t) \/ Logout(p, t)
    BY <2>4, RefreshReadInv, LogoutInv
  <2>5. CASE Rotate(p)
    BY <2>5, RotateInv
  <2>6. CASE Reuse(p)
    BY <2>6, ReuseInv
  <2>7. CASE Fail(p)
    BY <2>7, FailInv
  <2> QED BY <1>1, <2>1, <2>2, <2>3, <2>4, <2>5, <2>6, <2>7 DEF LoopNext
<1>2. CASE AdminNext
  BY <1>2, AddUserInv, SetRoleInv, SetActiveInv, SoftDeleteInv, SetRulesInv DEF AdminNext
<1> QED BY <1>1, <1>2, TickInv, ExpireInv, StutterInv DEF Next

LEMMA Invariant == Spec => []IInv
BY InitInv, NextInv, PTL DEF Spec

\* Rows, frames and counters keep the values the schema and the handlers allow.
THEOREM TypeCorrect == Spec => []TypeOK
<1>1. IInv => TypeOK
  BY DEF IInv
<1> QED BY <1>1, Invariant, PTL

------------------------------------------------------------------------------
(* The lineage of the tokens *)

StageOf(t) == IF token[t] = Null THEN "unissued"
              ELSE IF token[t].revoked THEN "ended" ELSE "live"
FromOf(t) == IF token[t] = Null THEN Null ELSE token[t].from

LEMMA LineageInit == Init => Lineage!Init
BY DEF Init, Lineage!Init

\* A step that issues nothing ends tokens, or changes none of the lineage.
LEMMA EndStep ==
    ASSUME \A t \in Tokens : SameRow(t) /\ StaysRevoked(t)
    PROVE  Lineage!Next
<1>1. PICK S \in SUBSET Tokens : S = {t \in Tokens : token'[t] # Null /\ token'[t].revoked}
  OBVIOUS
<1>2. ASSUME NEW t \in Tokens
      PROVE  /\ t \in S => StageOf(t) # "unissued"
             /\ StageOf(t)' = IF t \in S THEN "ended" ELSE StageOf(t)
             /\ FromOf(t)' = FromOf(t)
  BY <1>1 DEF SameRow, StaysRevoked, StageOf, FromOf
<1>3. Lineage!End(S)
  BY <1>2 DEF Lineage!End, StageOf, FromOf
<1> QED BY <1>3 DEF Lineage!Next

LEMMA LoginStep ==
    ASSUME IInv, NEW p \in Processes, LoginSucceeds(p)
    PROVE  Lineage!Next
<1>1. PICK t \in Tokens : /\ Issues(t, job[p].user, Null)
                          /\ token' = [token EXCEPT ![t] = NewToken(job[p].user, Null)]
  BY LoginSucceedsIssues
<1>2. token[t] = Null /\ token'[t] = NewToken(job[p].user, Null) /\ token'[t] # Null
  BY <1>1, NewTokenType DEF Issues
<1>3. StageOf(t) = "unissued" /\ StageOf(t)' = "live" /\ FromOf(t) = Null /\ FromOf(t)' = Null
  BY <1>2 DEF StageOf, FromOf, NewToken
<1>4. \A x \in Tokens \ {t} : token'[x] = token[x]
  BY <1>1 DEF IInv, TypeOK
<1>5. \A x \in Tokens \ {t} : StageOf(x)' = StageOf(x) /\ FromOf(x)' = FromOf(x)
  BY <1>4 DEF StageOf, FromOf
<1>6. Lineage!Issue(t)
  BY <1>3, <1>5 DEF Lineage!Issue, StageOf, FromOf
<1> QED BY <1>6 DEF Lineage!Next

LEMMA RotateStep ==
    ASSUME IInv, NEW p \in Processes, Rotate(p)
    PROVE  Lineage!Next
<1>1. PICK s \in Tokens : s = job[p].token /\ token[s] # Null
  BY RotateIssues
<1>2. PICK t \in Tokens : /\ Issues(t, job[p].user, s)
                          /\ token'[s] = [token[s] EXCEPT !.revoked = TRUE]
                          /\ \A x \in Tokens \ {s, t} : token'[x] = token[x]
  BY <1>1, RotateIssues
<1>3. token[t] = Null /\ token'[t] = NewToken(job[p].user, s) /\ token'[t] # Null
  BY <1>2, NewTokenType DEF Issues
<1>4. /\ StageOf(t) = "unissued" /\ StageOf(t)' = "live"
      /\ FromOf(t) = Null /\ FromOf(t)' = s
  BY <1>3 DEF StageOf, FromOf, NewToken
<1>5. token'[s] # Null /\ token'[s].revoked /\ token'[s].from = token[s].from
  <2>1. token[s] \in RefreshToken
    BY <1>1, TokenRow
  <2>2. [token[s] EXCEPT !.revoked = TRUE] # Null
    BY <2>1, RevokedType
  <2> QED BY <1>2, <2>1, <2>2 DEF RefreshToken
<1>6. StageOf(s) # "unissued" /\ StageOf(s)' = "ended" /\ FromOf(s)' = FromOf(s)
  BY <1>1, <1>5 DEF StageOf, FromOf
<1>7. \A x \in Tokens \ {s, t} : StageOf(x)' = StageOf(x) /\ FromOf(x)' = FromOf(x)
  BY <1>2 DEF StageOf, FromOf
<1>8. s # t
  BY <1>1, <1>3
<1>9. Lineage!Exchange(s, t)
  BY <1>1, <1>4, <1>6, <1>7, <1>8 DEF Lineage!Exchange, StageOf, FromOf
<1> QED BY <1>1, <1>9 DEF Lineage!Next

LEMMA TokensSame ==
    ASSUME token' = token
    PROVE  \A t \in Tokens : SameRow(t) /\ StaysRevoked(t)
BY DEF SameRow, StaysRevoked

LEMMA LineageStep == IInv /\ [Next]_vars => Lineage!Next
<1> SUFFICES ASSUME IInv, [Next]_vars PROVE Lineage!Next
  OBVIOUS
<1>1. ASSUME Revokes PROVE Lineage!Next
  BY <1>1, RevokesKeeps, EndStep
<1>2. ASSUME token' = token PROVE Lineage!Next
  BY <1>2, TokensSame, EndStep
<1>3. ASSUME NEW p \in Processes, LoopNext(p) PROVE Lineage!Next
  <2>1. CASE \E u \in Users, right \in BOOLEAN : LoginRead(p, u, right)
    BY <2>1, <1>2 DEF LoginRead
  <2>2. CASE LoginFails(p)
    BY <2>2, <1>2 DEF LoginFails
  <2>3. CASE LoginSucceeds(p)
    BY <2>3, LoginStep
  <2>4. CASE \E t \in Tokens : RefreshRead(p, t)
    BY <2>4, <1>2 DEF RefreshRead
  <2>5. CASE \E t \in Tokens : Logout(p, t)
    BY <2>5, <1>1, LogoutInv
  <2>6. CASE Rotate(p)
    BY <2>6, RotateStep
  <2>7. CASE Reuse(p)
    BY <2>7, <1>1, ReuseInv
  <2>8. CASE Fail(p)
    BY <2>8, <1>2 DEF Fail
  <2> QED BY <1>3, <2>1, <2>2, <2>3, <2>4, <2>5, <2>6, <2>7, <2>8 DEF LoopNext
<1>4. CASE AdminNext
  <2>1. ASSUME NEW u \in Users, NEW r \in Roles, AddUser(u, r) PROVE Lineage!Next
    BY <2>1, <1>2 DEF AddUser
  <2>2. ASSUME NEW s \in BOOLEAN, NEW r \in BOOLEAN, SetRules(s, r) PROVE Lineage!Next
    BY <2>2, <1>2 DEF SetRules
  <2> QED BY <1>1, <1>4, <2>1, <2>2, SetRoleInv, SetActiveInv, SoftDeleteInv DEF AdminNext
<1>5. CASE Tick
  BY <1>5, <1>2 DEF Tick
<1>6. CASE \E t \in Tokens : Expire(t)
  BY <1>6, ExpireInv, EndStep
<1>7. CASE UNCHANGED vars
  BY <1>7, <1>2 DEF vars
<1> QED BY <1>3, <1>4, <1>5, <1>6, <1>7 DEF Next

\* A login issues a token nobody has, a rotation ends the token it exchanges in the
\* very step that issues its heir, and a token that was revoked or exchanged is never
\* live again, however many processes serve them.
THEOREM LineageKept == Spec => ImplementsLineage
<1>1. Spec => Lineage!Init
  BY LineageInit DEF Spec
<1> QED BY <1>1, Invariant, LineageStep, PTL DEF Spec, ImplementsLineage, Lineage!Spec
------------------------------------------------------------------------------
(* The heirs of a token *)

LEMMA Sizes ==
    /\ \A S \in SUBSET Tokens : IsFiniteSet(S) /\ Cardinality(S) \in Nat
    /\ \A S \in SUBSET Processes : /\ IsFiniteSet(S) /\ Cardinality(S) \in Nat
                                   /\ Cardinality(S) <= Cardinality(Processes)
    /\ Cardinality(Processes) \in Nat
BY SessionsAssumption, FS_Subset, FS_CardinalityType

\* What a step may do to the exchanges of s: it is not exchanged yet, or it gains no
\* heir and no exchange in progress, or one exchange in progress gives it one heir.
Accounted(s) ==
    \/ Heirs(s)' = {}
    \/ Heirs(s)' = Heirs(s) /\ Exchanging(s)' \subseteq Exchanging(s)
    \/ \E t \in Tokens, p \in Processes :
          /\ Heirs(s)' = Heirs(s) \cup {t}
          /\ p \in Exchanging(s) /\ Exchanging(s)' = Exchanging(s) \ {p}

LEMMA AccountedBound ==
    ASSUME HeirsBounded, NEW s \in Tokens, Accounted(s)
    PROVE  (Cardinality(Heirs(s)) + Cardinality(Exchanging(s)) <= Cardinality(Processes))'
<1>1. /\ Heirs(s) \in SUBSET Tokens /\ Heirs(s)' \in SUBSET Tokens
      /\ Exchanging(s) \in SUBSET Processes /\ Exchanging(s)' \in SUBSET Processes
  BY DEF Heirs, Exchanging
<1>2. Cardinality(Heirs(s)) + Cardinality(Exchanging(s)) <= Cardinality(Processes)
  BY DEF HeirsBounded
<1>3. CASE Heirs(s)' = {}
  <2>1. Cardinality(Heirs(s)') = 0
    BY <1>3, FS_EmptySet
  <2>2. Cardinality(Exchanging(s)') \in Nat /\ Cardinality(Exchanging(s)') <= Cardinality(Processes)
    BY <1>1, Sizes
  <2> QED BY <2>1, <2>2, Sizes
<1>4. CASE Heirs(s)' = Heirs(s) /\ Exchanging(s)' \subseteq Exchanging(s)
  <2>1. Cardinality(Heirs(s)') = Cardinality(Heirs(s)) /\ Cardinality(Heirs(s)) \in Nat
    BY <1>1, <1>4, Sizes
  <2>2. Cardinality(Exchanging(s)') <= Cardinality(Exchanging(s))
    BY <1>1, <1>4, Sizes, FS_Subset
  <2>3. Cardinality(Exchanging(s)') \in Nat /\ Cardinality(Exchanging(s)) \in Nat
    BY <1>1, Sizes
  <2> QED BY <1>2, <2>1, <2>2, <2>3, Sizes
<1>5. ASSUME NEW t \in Tokens, NEW p \in Processes, Heirs(s)' = Heirs(s) \cup {t},
             p \in Exchanging(s), Exchanging(s)' = Exchanging(s) \ {p}
      PROVE  (Cardinality(Heirs(s)) + Cardinality(Exchanging(s)) <= Cardinality(Processes))'
  <2>1. IsFiniteSet(Heirs(s)) /\ Cardinality(Heirs(s)) \in Nat
    BY <1>1, Sizes
  <2>2. IsFiniteSet(Exchanging(s)) /\ Cardinality(Exchanging(s)) \in Nat
    BY <1>1, Sizes
  <2>3. Cardinality(Heirs(s)') \in {Cardinality(Heirs(s)), Cardinality(Heirs(s)) + 1}
    BY <1>5, <2>1, FS_AddElement
  <2>4. Cardinality(Exchanging(s)') = Cardinality(Exchanging(s)) - 1
    BY <1>5, <2>2, FS_RemoveElement
  <2> QED BY <1>2, <2>1, <2>2, <2>3, <2>4, Sizes
<1> QED BY <1>3, <1>4, <1>5 DEF Accounted

LEMMA KeepsHeirs ==
    ASSUME \A t \in Tokens : SameRow(t), NEW s \in Tokens
    PROVE  Heirs(s)' = Heirs(s)
BY DEF SameRow, Heirs

\* A step that reads no token and issues none
LEMMA QuietAccounted ==
    ASSUME \A t \in Tokens : SameRow(t), NEW s \in Tokens,
           \A q \in Processes : job'[q] = job[q] \/ job'[q].at # "refresh"
    PROVE  Accounted(s)
<1>1. Exchanging(s)' \subseteq Exchanging(s)
  BY DEF Exchanging
<1> QED BY <1>1, KeepsHeirs DEF Accounted

\* A token that is read to be exchanged has no heir: an heir would have ended it.
LEMMA RefreshReadAccounted ==
    ASSUME IInv, NEW p \in Processes, NEW t \in Tokens, RefreshRead(p, t), NEW s \in Tokens
    PROVE  Accounted(s)
<1>1. token' = token /\ \A x \in Tokens : SameRow(x)
  BY TokensSame DEF RefreshRead
<1>2. Heirs(s)' = Heirs(s)
  BY <1>1, KeepsHeirs
<1>3. /\ job'[p].token = t
      /\ job'[p].at = IF token[t].revoked THEN "reuse" ELSE "refresh"
      /\ \A q \in Processes \ {p} : job'[q] = job[q]
  BY DEF RefreshRead, IInv, TypeOK
<1>4. CASE token[t].revoked \/ s # t
  <2>1. Exchanging(s)' \subseteq Exchanging(s)
    BY <1>3, <1>4 DEF Exchanging
  <2> QED BY <1>2, <2>1 DEF Accounted
<1>5. CASE ~token[t].revoked /\ s = t
  <2>1. \A x \in Tokens : ~(token[x] # Null /\ token[x].from = s)
    BY <1>5, SessionsAssumption DEF IInv, Replaced
  <2>2. Heirs(s) = {}
    BY <2>1 DEF Heirs
  <2> QED BY <1>2, <2>2 DEF Accounted
<1> QED BY <1>4, <1>5

\* A token issued to u in exchange for r is an heir of r alone, of none when r is Null.
LEMMA IssuedHeirs ==
    ASSUME NEW t, NEW u, NEW r, Issues(t, u, r), NEW s \in Tokens
    PROVE  Heirs(s)' = IF s = r THEN Heirs(s) \cup {t} ELSE Heirs(s)
<1>1. token[t] = Null /\ token'[t] # Null /\ token'[t].from = r
  BY NewTokenType DEF Issues, NewToken
<1>2. \A x \in Tokens \ {t} : x \in Heirs(s)' <=> x \in Heirs(s)
  BY DEF Issues, SameRow, Heirs
<1>3. t \in Tokens /\ t \notin Heirs(s) /\ (t \in Heirs(s)' <=> s = r)
  BY <1>1 DEF Heirs, Issues
<1>4. Heirs(s) \subseteq Tokens /\ Heirs(s)' \subseteq Tokens
  BY DEF Heirs
<1> QED BY <1>2, <1>3, <1>4

LEMMA LoginSucceedsAccounted ==
    ASSUME IInv, NEW p \in Processes, LoginSucceeds(p), NEW s \in Tokens
    PROVE  Accounted(s)
<1>1. PICK t \in Tokens : Issues(t, job[p].user, Null)
  BY LoginSucceedsIssues
<1>2. Heirs(s)' = Heirs(s)
  BY <1>1, IssuedHeirs, SessionsAssumption
<1>3. Exchanging(s)' \subseteq Exchanging(s)
  BY DEF LoginSucceeds, Exchanging, Idle, IInv, TypeOK
<1> QED BY <1>2, <1>3 DEF Accounted

LEMMA RotateAccounted ==
    ASSUME IInv, NEW p \in Processes, Rotate(p), NEW s \in Tokens
    PROVE  Accounted(s)
<1>1. PICK t \in Tokens : Issues(t, job[p].user, job[p].token)
  BY RotateIssues
<1>2. Heirs(s)' = IF s = job[p].token THEN Heirs(s) \cup {t} ELSE Heirs(s)
  BY <1>1, IssuedHeirs
<1>3. job[p].at = "refresh" /\ job'[p] = Idle /\ \A q \in Processes \ {p} : job'[q] = job[q]
  BY DEF Rotate, IInv, TypeOK
<1>4. CASE s = job[p].token
  <2>1. p \in Exchanging(s) /\ Exchanging(s)' = Exchanging(s) \ {p}
    BY <1>3, <1>4 DEF Exchanging, Idle
  <2> QED BY <1>2, <1>4, <2>1 DEF Accounted
<1>5. CASE s # job[p].token
  <2>1. Exchanging(s)' \subseteq Exchanging(s)
    BY <1>3 DEF Exchanging, Idle
  <2> QED BY <1>2, <1>5, <2>1 DEF Accounted
<1> QED BY <1>4, <1>5

LEMMA AllAccounted ==
    ASSUME IInv, [Next]_vars, NEW s \in Tokens
    PROVE  Accounted(s)
<1> DEFINE Quiet == \A q \in Processes : job'[q] = job[q] \/ job'[q].at # "refresh"
<1>1. ASSUME Revokes, Quiet PROVE Accounted(s)
  BY <1>1, RevokesKeeps, QuietAccounted
<1>2. ASSUME token' = token, Quiet PROVE Accounted(s)
  BY <1>2, TokensSame, QuietAccounted
<1>3. ASSUME NEW p \in Processes, job' = [job EXCEPT ![p] = Idle] PROVE Quiet
  BY <1>3 DEF IInv, TypeOK, Idle
<1>4. ASSUME job' = job PROVE Quiet
  BY <1>4
<1> HIDE DEF Quiet
<1>5. ASSUME NEW p \in Processes, LoopNext(p) PROVE Accounted(s)
  <2>1. ASSUME NEW u \in Users, NEW right \in BOOLEAN, LoginRead(p, u, right)
        PROVE  Accounted(s)
    <3>1. Quiet
      BY <2>1 DEF LoginRead, IInv, TypeOK, Quiet
    <3> QED BY <1>2, <2>1, <3>1 DEF LoginRead
  <2>2. CASE LoginFails(p)
    BY <1>2, <1>3, <2>2 DEF LoginFails
  <2>3. CASE LoginSucceeds(p)
    BY <2>3, LoginSucceedsAccounted
  <2>4. CASE \E t \in Tokens : RefreshRead(p, t)
    BY <2>4, RefreshReadAccounted
  <2>5. CASE \E t \in Tokens : Logout(p, t)
    BY <1>1, <1>4, <2>5, LogoutInv DEF Logout
  <2>6. CASE Rotate(p)
    BY <2>6, RotateAccounted
  <2>7. CASE Reuse(p)
    BY <1>1, <1>3, <2>7, ReuseInv DEF Reuse
  <2>8. CASE Fail(p)
    BY <1>2, <1>3, <2>8 DEF Fail
  <2> QED BY <1>5, <2>1, <2>2, <2>3, <2>4, <2>5, <2>6, <2>7, <2>8 DEF LoopNext
<1>6. CASE AdminNext
  <2>1. ASSUME NEW u \in Users, NEW r \in Roles, AddUser(u, r) PROVE Accounted(s)
    BY <1>2, <1>4, <2>1 DEF AddUser
  <2>2. ASSUME NEW u \in Users, NEW r \in Roles, SetRole(u, r) PROVE Accounted(s)
    BY <1>1, <1>4, <2>2, SetRoleInv DEF SetRole
  <2>3. ASSUME NEW u \in Users, NEW active \in BOOLEAN, SetActive(u, active) PROVE Accounted(s)
    BY <1>1, <1>4, <2>3, SetActiveInv DEF SetActive
  <2>4. ASSUME NEW u \in Users, SoftDelete(u) PROVE Accounted(s)
    BY <1>1, <1>4, <2>4, SoftDeleteInv DEF SoftDelete
  <2>5. ASSUME NEW x \in BOOLEAN, NEW y \in BOOLEAN, SetRules(x, y) PROVE Accounted(s)
    BY <1>2, <1>4, <2>5 DEF SetRules
  <2> QED BY <1>6, <2>1, <2>2, <2>3, <2>4, <2>5 DEF AdminNext
<1>7. CASE Tick
  BY <1>2, <1>4, <1>7 DEF Tick
<1>8. ASSUME NEW t \in Tokens, Expire(t) PROVE Accounted(s)
  <2>1. Quiet /\ \A x \in Tokens : SameRow(x)
    BY <1>4, <1>8, ExpireInv DEF Expire
  <2> QED BY <2>1, QuietAccounted DEF Quiet
<1>9. CASE UNCHANGED vars
  BY <1>2, <1>4, <1>9 DEF vars
<1> QED BY <1>5, <1>6, <1>7, <1>8, <1>9 DEF Next

LEMMA HeirsInit == Init => HeirsBounded
<1> SUFFICES ASSUME Init, NEW s \in Tokens
             PROVE  Cardinality(Heirs(s)) + Cardinality(Exchanging(s)) <= Cardinality(Processes)
  BY DEF HeirsBounded
<1>1. Heirs(s) = {} /\ Exchanging(s) = {}
  BY DEF Init, Heirs, Exchanging, Idle
<1>2. Cardinality(Heirs(s)) = 0 /\ Cardinality(Exchanging(s)) = 0
  BY <1>1, FS_EmptySet
<1> QED BY <1>2, Sizes

\* A refresh token is exchanged once by each process at most, however its uses overlap.
THEOREM HeirsCounted == Spec => []HeirsBounded
<1>1. IInv /\ HeirsBounded /\ [Next]_vars => HeirsBounded'
  <2> SUFFICES ASSUME IInv, HeirsBounded, [Next]_vars, NEW s \in Tokens
               PROVE  (Cardinality(Heirs(s)) + Cardinality(Exchanging(s))
                           <= Cardinality(Processes))'
    BY DEF HeirsBounded
  <2> QED BY AllAccounted, AccountedBound
<1> QED BY <1>1, HeirsInit, Invariant, PTL DEF Spec

------------------------------------------------------------------------------
(* The flood guard: what is counted, and the logins that have counted already *)

Counted(u) == {p \in Processes : job[p].at = "login" /\ job[p].user = u}
LoggingIn == {p \in Processes : job[p].at = "login"}

\* No attempt is of a quarter to come.
Past == \A n \in DOMAIN attempts : attempts[n].quarter <= quarter

Guarded ==
    /\ \A u \in Users : RecentFailures(u) + Cardinality(Counted(u))
                            < EmailLimit + Cardinality(Processes)
    /\ RecentAttempts + Cardinality(LoggingIn) < IpLimit + Cardinality(Processes)

FloodInv == IInv /\ Past /\ Guarded

LEMMA CountsType ==
    ASSUME TypeOK
    PROVE  /\ \A u : /\ IsFiniteSet(Failures(u)) /\ RecentFailures(u) \in Nat
                     /\ IsFiniteSet(Counted(u)) /\ Cardinality(Counted(u)) \in Nat
                     /\ Cardinality(Counted(u)) <= Cardinality(Processes)
           /\ IsFiniteSet(LastHour) /\ RecentAttempts \in Nat
           /\ IsFiniteSet(LoggingIn) /\ Cardinality(LoggingIn) \in Nat
           /\ Cardinality(LoggingIn) <= Cardinality(Processes)
           /\ Cardinality(Processes) \in Nat /\ EmailLimit \in Nat /\ IpLimit \in Nat
<1>1. IsFiniteSet(DOMAIN attempts)
  <2>1. attempts \in Seq(Attempt)
    BY DEF TypeOK
  <2>2. DOMAIN attempts = 1 .. Len(attempts) /\ Len(attempts) \in Nat
    BY <2>1
  <2> QED BY <2>2, FS_Interval
<1>2. \A u : Failures(u) \in SUBSET DOMAIN attempts /\ Counted(u) \in SUBSET Processes
  BY DEF Failures, Counted
<1>3. LastHour \in SUBSET DOMAIN attempts /\ LoggingIn \in SUBSET Processes
  BY DEF LastHour, LoggingIn
<1>4. IsFiniteSet(Processes)
  BY SessionsAssumption
<1>5. ASSUME NEW u
      PROVE  /\ IsFiniteSet(Failures(u)) /\ Cardinality(Failures(u)) \in Nat
             /\ IsFiniteSet(Counted(u)) /\ Cardinality(Counted(u)) \in Nat
             /\ Cardinality(Counted(u)) <= Cardinality(Processes)
  BY <1>1, <1>2, <1>4, FS_Subset, FS_CardinalityType
<1>6. /\ IsFiniteSet(LastHour) /\ Cardinality(LastHour) \in Nat
      /\ IsFiniteSet(LoggingIn) /\ Cardinality(LoggingIn) \in Nat
      /\ Cardinality(LoggingIn) <= Cardinality(Processes)
  BY <1>1, <1>3, <1>4, FS_Subset, FS_CardinalityType
<1>7. Cardinality(Processes) \in Nat
  BY <1>4, FS_CardinalityType
<1> QED BY <1>5, <1>6, <1>7, SessionsAssumption DEF RecentFailures, RecentAttempts

LEMMA FewerLogins ==
    ASSUME FloodInv, \A q \in Processes : job'[q].at = "login" => job'[q] = job[q]
    PROVE  /\ \A u : /\ Cardinality(Counted(u)') \in Nat
                     /\ Cardinality(Counted(u)') <= Cardinality(Counted(u))
           /\ Cardinality(LoggingIn') \in Nat
           /\ Cardinality(LoggingIn') <= Cardinality(LoggingIn)
<1>1. \A u : IsFiniteSet(Counted(u)) /\ Counted(u)' \in SUBSET Counted(u)
  BY CountsType DEF FloodInv, IInv, Counted
<1>2. IsFiniteSet(LoggingIn) /\ LoggingIn' \in SUBSET LoggingIn
  BY CountsType DEF FloodInv, IInv, LoggingIn
<1> QED BY <1>1, <1>2, FS_Subset, FS_CardinalityType

\* Nothing is recorded and nobody has begun to log in.
LEMMA NoLogin ==
    ASSUME FloodInv, attempts' = attempts, quarter' = quarter,
           \A q \in Processes : job'[q].at = "login" => job'[q] = job[q]
    PROVE  Past' /\ Guarded'
<1>1. /\ Past' /\ RecentAttempts' = RecentAttempts
      /\ \A u : RecentFailures(u)' = RecentFailures(u)
  BY DEF FloodInv, Past, RecentAttempts, LastHour, RecentFailures, Failures
<1>2. ASSUME NEW u \in Users
      PROVE  (RecentFailures(u) + Cardinality(Counted(u)) < EmailLimit + Cardinality(Processes))'
  <2>1. /\ RecentFailures(u) \in Nat /\ Cardinality(Counted(u)) \in Nat
        /\ Cardinality(Processes) \in Nat /\ EmailLimit \in Nat
    BY CountsType DEF FloodInv, IInv
  <2>2. RecentFailures(u) + Cardinality(Counted(u)) < EmailLimit + Cardinality(Processes)
    BY DEF FloodInv, Guarded
  <2> QED BY <1>1, <2>1, <2>2, FewerLogins
<1>3. (RecentAttempts + Cardinality(LoggingIn) < IpLimit + Cardinality(Processes))'
  <2>1. /\ RecentAttempts \in Nat /\ Cardinality(LoggingIn) \in Nat
        /\ Cardinality(Processes) \in Nat /\ IpLimit \in Nat
    BY CountsType DEF FloodInv, IInv
  <2>2. RecentAttempts + Cardinality(LoggingIn) < IpLimit + Cardinality(Processes)
    BY DEF FloodInv, Guarded
  <2> QED BY <1>1, <2>1, <2>2, FewerLogins
<1> QED BY <1>1, <1>2, <1>3 DEF Guarded

\* A login that begins was admitted: the limits were not reached, and those who log in
\* with it are processes.
LEMMA LoginBegins ==
    ASSUME FloodInv, IInv', NEW p \in Processes, NEW v \in Users, NEW right \in BOOLEAN,
           LoginRead(p, v, right)
    PROVE  Past' /\ Guarded'
<1>1. /\ attempts' = attempts /\ quarter' = quarter
      /\ Admits(v) /\ job[p].at = "idle"
      /\ \A q \in Processes \ {p} : job'[q] = job[q]
      /\ job'[p].at = "login" /\ job'[p].user = v
  BY DEF LoginRead, FloodInv, IInv, TypeOK
<1>2. /\ Past' /\ RecentAttempts' = RecentAttempts
      /\ \A u : RecentFailures(u)' = RecentFailures(u)
  BY <1>1 DEF FloodInv, Past, RecentAttempts, LastHour, RecentFailures, Failures
<1>3. /\ IsFiniteSet(Processes) /\ Cardinality(Processes) \in Nat
      /\ EmailLimit \in Nat /\ IpLimit \in Nat
      /\ RecentAttempts \in Nat /\ \A u : RecentFailures(u) \in Nat
  BY CountsType, SessionsAssumption DEF FloodInv, IInv
<1>4. /\ \A u : /\ Cardinality(Counted(u)') \in Nat
                /\ Cardinality(Counted(u)') <= Cardinality(Processes)
      /\ Cardinality(LoggingIn') \in Nat
      /\ Cardinality(LoggingIn') <= Cardinality(Processes)
  <2>1. LoggingIn' \in SUBSET Processes /\ \A u : Counted(u)' \in SUBSET Processes
    BY DEF LoggingIn, Counted
  <2> QED BY <1>3, <2>1, FS_Subset, FS_CardinalityType
<1>5. ASSUME NEW u \in Users
      PROVE  (RecentFailures(u) + Cardinality(Counted(u)) < EmailLimit + Cardinality(Processes))'
  <2>1. CASE u = v
    <3>1. RecentFailures(u) < EmailLimit
      BY <1>1, <2>1 DEF Admits
    <3> QED BY <1>2, <1>3, <1>4, <3>1
  <2>2. CASE u # v
    <3>1. Counted(u)' = Counted(u)
      BY <1>1, <2>2 DEF Counted
    <3> QED BY <1>2, <3>1 DEF FloodInv, Guarded
  <2> QED BY <2>1, <2>2
<1>6. (RecentAttempts + Cardinality(LoggingIn) < IpLimit + Cardinality(Processes))'
  <2>1. RecentAttempts < IpLimit
    BY <1>1 DEF Admits
  <2> QED BY <1>2, <1>3, <1>4, <2>1
<1> QED BY <1>2, <1>5, <1>6 DEF Guarded

\* A login that ends with one more attempt no longer counts as under way.
LEMMA LoginEnds ==
    ASSUME FloodInv, NEW p \in Processes, job[p].at = "login", NEW ok \in BOOLEAN,
           Record(job[p].user, ok), job' = [job EXCEPT ![p] = Idle], quarter' = quarter
    PROVE  Past' /\ Guarded'
<1>1. IInv /\ TypeOK /\ job[p].user \in Users
  BY DEF FloodInv, IInv, Fits
<1>2. PICK v \in Users : v = job[p].user
  BY <1>1
<1>3. PICK new : new = Len(attempts) + 1
  OBVIOUS
<1>4. /\ DOMAIN attempts' = DOMAIN attempts \cup {new} /\ new \notin DOMAIN attempts
      /\ \A n \in DOMAIN attempts : attempts'[n] = attempts[n]
      /\ attempts'[new] = [user |-> v, quarter |-> quarter, ok |-> ok]
  <2>1. attempts \in Seq(Attempt)
    BY <1>1 DEF TypeOK
  <2> QED BY <1>2, <1>3, <2>1 DEF Record
<1>5. quarter \in Nat
  BY <1>1, SessionsAssumption DEF TypeOK, Quarters
<1>6. Past'
  BY <1>4, <1>5 DEF FloodInv, Past
<1>7. job'[p] = Idle /\ \A q \in Processes \ {p} : job'[q] = job[q]
  BY <1>1 DEF TypeOK
<1>8. Idle.at # "login"
  BY DEF Idle
<1>9. /\ \A u : Counted(u)' = IF u = v THEN Counted(u) \ {p} ELSE Counted(u)
      /\ LoggingIn' = LoggingIn \ {p} /\ p \in Counted(v) /\ p \in LoggingIn
  BY <1>7, <1>8, <1>2 DEF Counted, LoggingIn
<1>10. LastHour' = LastHour \cup {new} /\ new \notin LastHour
  BY <1>4, <1>5 DEF LastHour
<1>11. /\ \A u : u # v => Failures(u)' = Failures(u)
       /\ Failures(v)' \in {Failures(v), Failures(v) \cup {new}}
       /\ new \notin Failures(v)
  <2>1. ASSUME NEW u, u # v PROVE Failures(u)' = Failures(u)
    BY <1>4, <2>1 DEF Failures
  <2>2. ASSUME ok = FALSE PROVE Failures(v)' = Failures(v) \cup {new}
    BY <1>4, <2>2 DEF Failures
  <2>3. ASSUME ok = TRUE PROVE Failures(v)' = Failures(v)
    BY <1>4, <2>3 DEF Failures
  <2>4. new \notin Failures(v)
    BY <1>4 DEF Failures
  <2> QED BY <2>1, <2>2, <2>3, <2>4
<1>12. /\ Cardinality(LastHour') = RecentAttempts + 1
       /\ Cardinality(Failures(v)') <= RecentFailures(v) + 1
  <2>1. IsFiniteSet(LastHour) /\ IsFiniteSet(Failures(v)) /\ RecentFailures(v) \in Nat
    BY <1>1, CountsType
  <2>2. Cardinality(LastHour \cup {new}) = Cardinality(LastHour) + 1
    BY <1>10, <2>1, FS_AddElement
  <2>3. Cardinality(Failures(v) \cup {new}) = Cardinality(Failures(v)) + 1
    BY <1>11, <2>1, FS_AddElement
  <2>4. Cardinality(Failures(v)') <= RecentFailures(v) + 1
    <3>1. Cardinality(Failures(v)') \in
              {Cardinality(Failures(v)), Cardinality(Failures(v) \cup {new})}
      BY <1>11
    <3>2. Cardinality(Failures(v)) \in Nat
      BY <2>1 DEF RecentFailures
    <3> QED BY <2>3, <3>1, <3>2 DEF RecentFailures
  <2> QED BY <1>10, <2>2, <2>4 DEF RecentAttempts
<1>13. /\ Cardinality(LoggingIn') = Cardinality(LoggingIn) - 1
       /\ Cardinality(Counted(v)') = Cardinality(Counted(v)) - 1
  <2>1. IsFiniteSet(LoggingIn) /\ IsFiniteSet(Counted(v))
    BY <1>1, CountsType
  <2>2. LoggingIn' = LoggingIn \ {p} /\ Counted(v)' = Counted(v) \ {p}
    BY <1>9
  <2>3. Cardinality(LoggingIn \ {p}) = Cardinality(LoggingIn) - 1
    BY <1>9, <2>1, FS_RemoveElement
  <2>4. Cardinality(Counted(v) \ {p}) = Cardinality(Counted(v)) - 1
    BY <1>9, <2>1, FS_RemoveElement
  <2> QED BY <2>2, <2>3, <2>4
<1>14. ASSUME NEW u \in Users
       PROVE  (RecentFailures(u) + Cardinality(Counted(u)) < EmailLimit + Cardinality(Processes))'
  <2>1. RecentFailures(u) + Cardinality(Counted(u)) < EmailLimit + Cardinality(Processes)
    BY DEF FloodInv, Guarded
  <2>2. CASE u = v
    <3>1. /\ RecentFailures(v) \in Nat /\ Cardinality(Counted(v)) \in Nat
          /\ Cardinality(Processes) \in Nat /\ EmailLimit \in Nat
      BY <1>1, CountsType
    <3>2. Cardinality(Failures(v)') \in Nat
      <4>1. IsFiniteSet(Failures(v))
        BY <1>1, CountsType
      <4>2. Failures(v)' = Failures(v) \/ Failures(v)' = Failures(v) \cup {new}
        BY <1>11
      <4>3. IsFiniteSet(Failures(v) \cup {new})
        BY <4>1, FS_AddElement
      <4> QED BY <4>1, <4>2, <4>3, FS_CardinalityType
    <3> DEFINE a == RecentFailures(v)
               b == Cardinality(Counted(v))
               c == Cardinality(Failures(v)')
               d == Cardinality(Counted(v)')
               m == EmailLimit + Cardinality(Processes)
    <3>3. /\ a + b < m /\ c <= a + 1 /\ d = b - 1
          /\ a \in Nat /\ b \in Nat /\ c \in Nat /\ m \in Nat
      BY <1>12, <1>13, <2>1, <2>2, <3>1, <3>2
    <3> HIDE DEF a, b, c, d, m
    <3>4. c + d < m
      BY <3>3
    <3>5. Cardinality(Failures(v)') + Cardinality(Counted(v)') < EmailLimit + Cardinality(Processes)
      BY <3>4 DEF c, d, m
    <3> QED BY <2>2, <3>5 DEF RecentFailures
  <2>3. CASE u # v
    BY <1>9, <1>11, <2>1, <2>3 DEF RecentFailures
  <2> QED BY <2>2, <2>3
<1>15. (RecentAttempts + Cardinality(LoggingIn) < IpLimit + Cardinality(Processes))'
  <2>1. RecentAttempts + Cardinality(LoggingIn) < IpLimit + Cardinality(Processes)
    BY DEF FloodInv, Guarded
  <2>2. /\ RecentAttempts \in Nat /\ Cardinality(LoggingIn) \in Nat
        /\ Cardinality(Processes) \in Nat /\ IpLimit \in Nat
    BY <1>1, CountsType
  <2> QED BY <1>12, <1>13, <2>1, <2>2 DEF RecentAttempts
<1> QED BY <1>6, <1>14, <1>15 DEF Guarded

\* A quarter begins with no failure, and forgets attempts an hour old.
LEMMA TickGuarded ==
    ASSUME FloodInv, Tick
    PROVE  Past' /\ Guarded'
<1>0. IInv /\ TypeOK /\ Past /\ quarter \in Nat
  BY SessionsAssumption DEF FloodInv, IInv, TypeOK, Quarters
<1>1. /\ attempts' = attempts /\ quarter' = quarter + 1 /\ job' = job
      /\ \A q \in Processes : job[q].at # "login"
  BY DEF Tick
<1>2. \A n \in DOMAIN attempts : attempts[n].quarter \in Nat /\ attempts[n].quarter <= quarter
  <2>1. attempts \in Seq(Attempt)
    BY <1>0 DEF TypeOK
  <2>2. \A n \in DOMAIN attempts : attempts[n] \in Attempt
    BY <2>1
  <2> QED BY <1>0, <2>2, SessionsAssumption DEF Attempt, Quarters, Past
<1>3. Past'
  BY <1>0, <1>1, <1>2 DEF Past
<1>4. /\ LastHour' \in SUBSET LastHour
      /\ \A u : Failures(u)' = {} /\ Counted(u)' = {}
      /\ LoggingIn' = {} /\ LoggingIn = {}
  BY <1>0, <1>1, <1>2 DEF LastHour, Failures, Counted, LoggingIn
<1>5. Cardinality(LastHour') <= RecentAttempts /\ Cardinality(LastHour') \in Nat
  <2>1. IsFiniteSet(LastHour)
    BY <1>0, CountsType
  <2> QED BY <1>4, <2>1, FS_Subset, FS_CardinalityType DEF RecentAttempts
<1>6. Cardinality({}) = 0
  BY FS_EmptySet
<1>7. /\ RecentAttempts \in Nat /\ Cardinality(Processes) \in Nat
      /\ EmailLimit \in Nat \ {0} /\ IpLimit \in Nat
  BY <1>0, CountsType, SessionsAssumption
<1>8. (RecentAttempts + Cardinality(LoggingIn) < IpLimit + Cardinality(Processes))'
  <2>1. RecentAttempts + Cardinality(LoggingIn) < IpLimit + Cardinality(Processes)
    BY DEF FloodInv, Guarded
  <2> QED BY <1>4, <1>5, <1>6, <1>7, <2>1 DEF RecentAttempts
<1>9. ASSUME NEW u \in Users
      PROVE  (RecentFailures(u) + Cardinality(Counted(u)) < EmailLimit + Cardinality(Processes))'
  BY <1>4, <1>6, <1>7 DEF RecentFailures
<1> QED BY <1>3, <1>8, <1>9 DEF Guarded

LEMMA NextFlood ==
    ASSUME FloodInv, [Next]_vars
    PROVE  Past' /\ Guarded'
<1>0. IInv /\ IInv' /\ job \in [Processes -> Frame]
  BY NextInv DEF FloodInv, IInv, TypeOK
<1>1. Idle.at # "login"
  BY DEF Idle
<1>2. ASSUME NEW p \in Processes, job' = [job EXCEPT ![p] = Idle]
      PROVE  \A q \in Processes : job'[q].at = "login" => job'[q] = job[q]
  BY <1>0, <1>1, <1>2
<1>3. ASSUME NEW p \in Processes, LoopNext(p) PROVE Past' /\ Guarded'
  <2>1. CASE \E u \in Users, right \in BOOLEAN : LoginRead(p, u, right)
    BY <1>0, <2>1, LoginBegins
  <2>2. CASE LoginFails(p)
    BY <2>2, LoginEnds DEF LoginFails
  <2>3. CASE LoginSucceeds(p)
    BY <2>3, LoginEnds DEF LoginSucceeds
  <2>4. ASSUME NEW t \in Tokens, RefreshRead(p, t) PROVE Past' /\ Guarded'
    <3>1. job'[p].at # "login" /\ \A q \in Processes \ {p} : job'[q] = job[q]
      BY <1>0, <2>4 DEF RefreshRead
    <3> QED BY <2>4, <3>1, NoLogin DEF RefreshRead
  <2>5. ASSUME NEW t \in Tokens, Logout(p, t) PROVE Past' /\ Guarded'
    BY <2>5, NoLogin DEF Logout
  <2>6. CASE Rotate(p) \/ Reuse(p) \/ Fail(p)
    BY <1>2, <2>6, NoLogin DEF Rotate, Reuse, Fail
  <2> QED BY <1>3, <2>1, <2>2, <2>3, <2>4, <2>5, <2>6 DEF LoopNext
<1>4. CASE AdminNext
  <2>1. attempts' = attempts /\ quarter' = quarter /\ job' = job
    BY <1>4 DEF AdminNext, AddUser, SetRole, SetActive, SoftDelete, SetRules
  <2> QED BY <2>1, NoLogin
<1>5. CASE Tick
  BY <1>5, TickGuarded
<1>6. ASSUME NEW t \in Tokens, Expire(t) PROVE Past' /\ Guarded'
  BY <1>6, NoLogin DEF Expire
<1>7. CASE UNCHANGED vars
  BY <1>7, NoLogin DEF vars
<1> QED BY <1>3, <1>4, <1>5, <1>6, <1>7 DEF Next

LEMMA InitFlood ==
    ASSUME Init
    PROVE  Past /\ Guarded
<1>1. /\ DOMAIN attempts = {} /\ LastHour = {} /\ LoggingIn = {}
      /\ \A u : Failures(u) = {} /\ Counted(u) = {}
  BY DEF Init, LastHour, LoggingIn, Failures, Counted, Idle
<1>2. /\ Cardinality({}) = 0 /\ Cardinality(Processes) \in Nat
      /\ EmailLimit \in Nat \ {0} /\ IpLimit \in Nat \ {0}
  BY FS_EmptySet, FS_CardinalityType, SessionsAssumption
<1>3. /\ \A u : RecentFailures(u) = 0 /\ Cardinality(Counted(u)) = 0
      /\ RecentAttempts = 0 /\ Cardinality(LoggingIn) = 0
  BY <1>1, <1>2 DEF RecentFailures, RecentAttempts
<1>4. 0 + 0 < EmailLimit + Cardinality(Processes) /\ 0 + 0 < IpLimit + Cardinality(Processes)
  BY <1>2
<1>5. Past
  BY <1>1 DEF Past
<1> QED BY <1>3, <1>4, <1>5 DEF Guarded

\* However logins overlap, in as many processes, an email gathers no more failures within
\* the window, and an address no more attempts, than the limit and one for each of the
\* other processes: a login counts, and records, within one turn of its event loop.
THEOREM FloodHeld == Spec => []FloodBounded
<1>1. Init => FloodInv
  BY InitInv, InitFlood DEF FloodInv
<1>2. FloodInv /\ [Next]_vars => FloodInv'
  <2> SUFFICES ASSUME FloodInv, [Next]_vars PROVE FloodInv'
    OBVIOUS
  <2>1. IInv'
    BY NextInv DEF FloodInv
  <2> QED BY <2>1, NextFlood DEF FloodInv
<1>3. FloodInv => FloodBounded
  <2> SUFFICES ASSUME FloodInv PROVE FloodBounded
    OBVIOUS
  <2>1. /\ \A u : RecentFailures(u) \in Nat /\ Cardinality(Counted(u)) \in Nat
        /\ RecentAttempts \in Nat /\ Cardinality(LoggingIn) \in Nat
        /\ Cardinality(Processes) \in Nat /\ EmailLimit \in Nat /\ IpLimit \in Nat
    BY CountsType DEF FloodInv, IInv
  <2> QED BY <2>1 DEF FloodInv, Guarded, FloodBounded
<1> QED BY <1>1, <1>2, <1>3, PTL DEF Spec

(***************************************************************************)
(* ProcessResources.  The scripts of the calls are tables of which the     *)
(* proofs use a few facts, stated first; the rest is about what a thread   *)
(* may hold at each element of its script.                                 *)
(***************************************************************************)

------------------------------------------------------------------------------
(* The scripts *)

Kinds == {"accept", "reject", "close", "skip", "patch_permission", "login"}
OpAt(k, i) == Script[k][i].op

\* The connections a call holds before each of its elements, and after the last.
Depth == [accept |-> <<0, 1, 1, 0, 1, 2, 2, 1, 1, 1, 1, 0, 1, 1, 0>>,
          reject |-> <<0, 1, 1, 0, 1, 1, 1, 1, 0, 1, 1, 0>>,
          close |-> <<0, 1, 1, 0, 1, 1, 1, 1, 1, 0, 1, 1, 0, 1, 1, 1, 1, 0>>,
          skip |-> <<0, 1, 1, 0, 1, 1, 1, 0, 1, 1, 0>>,
          patch_permission |-> <<0, 1, 1, 1, 1, 2, 2, 2, 2, 1, 0>>,
          login |-> <<0, 1, 1, 2, 2, 2, 2, 1, 1, 0>>]

\* What one element does to the connections, and what follows a lock.
Balanced(k, i) ==
    /\ i + 1 \in DOMAIN Depth[k] /\ Depth[k][i] \in 0 .. 2 /\ Depth[k][i + 1] \in 0 .. 2
    /\ OpAt(k, i) \in {"borrow", "try_borrow"} => Depth[k][i + 1] = Depth[k][i] + 1
    /\ OpAt(k, i) = "return" => Depth[k][i + 1] = Depth[k][i] - 1
    /\ OpAt(k, i) \notin {"borrow", "try_borrow", "return"} => Depth[k][i + 1] = Depth[k][i]
    /\ OpAt(k, i) = "lock" => /\ i + 1 \in DOMAIN Script[k]
                              /\ OpAt(k, i + 1) \in {"lock", "commit"}

\* The elements of a load follow each other, and a reload the commit of a permission.
Chained(k, i) ==
    /\ i + 1 \in DOMAIN Script[k] =>
           /\ OpAt(k, i + 1) = "empty" => OpAt(k, i) = "read_rows"
           /\ OpAt(k, i + 1) = "fill" => OpAt(k, i) = "empty"
           /\ OpAt(k, i + 1) = "forget" => OpAt(k, i) = "commit"
    /\ OpAt(k, i) = "empty" => i + 1 \in DOMAIN Script[k] /\ OpAt(k, i + 1) = "fill"
    /\ k = "patch_permission" /\ OpAt(k, i) = "commit"
          => i + 1 \in DOMAIN Script[k] /\ OpAt(k, i + 1) = "forget"

\* A call that leaves a load goes on at its return, or past it, with what it held before.
LeavesAt(k, i, j) ==
    /\ Script[k][j] = Return /\ \A m \in i .. (j - 1) : Script[k][m] # Return
    /\ j + 1 \in DOMAIN Script[k] /\ OpAt(k, j + 1) \in {"return", "commit"}
    /\ OpAt(k, i) = "read_rows" => Depth[k][j] = Depth[k][i]
    /\ OpAt(k, i) # "read_rows" => Depth[k][j + 1] = Depth[k][i]

Leaves(k, i) ==
    OpAt(k, i) \in {"ask", "try_borrow", "read_rows"} =>
        \E j \in i .. Len(Script[k]) : LeavesAt(k, i, j)

WellFormed(k) ==
    /\ Len(Script[k]) \in Nat /\ Len(Script[k]) > 0
    /\ DOMAIN Script[k] = 1 .. Len(Script[k])
    /\ OpAt(k, 1) = "borrow"
    /\ Depth[k][1] = 0 /\ Depth[k][Len(Script[k]) + 1] = 0
    /\ \A i \in DOMAIN Script[k] : Balanced(k, i) /\ Chained(k, i) /\ Leaves(k, i)

LEMMA AcceptFormed == WellFormed("accept")
<1>1. /\ Len(Accept) = 14 /\ DOMAIN Accept = 1 .. 14
      /\ Accept[1].op = "borrow" /\ Accept[2].op = "read" /\ Accept[3].op = "return"
      /\ Accept[4].op = "borrow" /\ Accept[5].op = "borrow" /\ Accept[6].op = "read"
      /\ Accept[7].op = "return" /\ Accept[8].op = "lock" /\ Accept[9].op = "lock"
      /\ Accept[10].op = "commit" /\ Accept[11].op = "return" /\ Accept[12].op = "borrow"
      /\ Accept[13].op = "read" /\ Accept[14].op = "return"
  BY DEF Accept, Reading, Transaction, Borrow, Return, Do, Lock
<1>2. Script["accept"] = Accept
  BY DEF Script
<1>3. Depth["accept"] = <<0, 1, 1, 0, 1, 2, 2, 1, 1, 1, 1, 0, 1, 1, 0>>
  BY DEF Depth
<1>4. ASSUME NEW i \in 1 .. 14
      PROVE  \/ i = 1 \/ i = 2 \/ i = 3 \/ i = 4 \/ i = 5 \/ i = 6 \/ i = 7 \/ i = 8
             \/ i = 9 \/ i = 10 \/ i = 11 \/ i = 12 \/ i = 13 \/ i = 14
  OBVIOUS
<1>5. \A i \in 1 .. 14 : Balanced("accept", i) /\ Chained("accept", i)
  BY <1>1, <1>2, <1>3, <1>4 DEF Balanced, Chained, OpAt
<1>6. \A i \in 1 .. 14 : Leaves("accept", i)
  BY <1>1, <1>2, <1>4 DEF Leaves, OpAt
<1>7. Depth["accept"][1] = 0 /\ Depth["accept"][15] = 0
  BY <1>3
<1>8. Len(Script["accept"]) = 14 /\ DOMAIN Script["accept"] = 1 .. 14
  BY <1>1, <1>2, Zenon
<1>9. OpAt("accept", 1) = "borrow"
  BY <1>1, <1>2 DEF OpAt
<1> QED
  BY <1>5, <1>6, <1>7, <1>8, <1>9 DEF WellFormed

LEMMA RejectFormed == WellFormed("reject")
<1>1. /\ Len(Reject) = 11 /\ DOMAIN Reject = 1 .. 11
      /\ Reject[1].op = "borrow" /\ Reject[2].op = "read" /\ Reject[3].op = "return"
      /\ Reject[4].op = "borrow" /\ Reject[5].op = "lock" /\ Reject[6].op = "lock"
      /\ Reject[7].op = "commit" /\ Reject[8].op = "return" /\ Reject[9].op = "borrow"
      /\ Reject[10].op = "read" /\ Reject[11].op = "return"
  BY DEF Reject, Reading, Transaction, Borrow, Return, Do, Lock
<1>2. Script["reject"] = Reject
  BY DEF Script
<1>3. Depth["reject"] = <<0, 1, 1, 0, 1, 1, 1, 1, 0, 1, 1, 0>>
  BY DEF Depth
<1>4. ASSUME NEW i \in 1 .. 11
      PROVE  \/ i = 1 \/ i = 2 \/ i = 3 \/ i = 4 \/ i = 5 \/ i = 6 \/ i = 7 \/ i = 8
             \/ i = 9 \/ i = 10 \/ i = 11
  OBVIOUS
<1>5. \A i \in 1 .. 11 : Balanced("reject", i) /\ Chained("reject", i)
  BY <1>1, <1>2, <1>3, <1>4 DEF Balanced, Chained, OpAt
<1>6. \A i \in 1 .. 11 : Leaves("reject", i)
  BY <1>1, <1>2, <1>4 DEF Leaves, OpAt
<1>7. Depth["reject"][1] = 0 /\ Depth["reject"][12] = 0
  BY <1>3
<1>8. Len(Script["reject"]) = 11 /\ DOMAIN Script["reject"] = 1 .. 11
  BY <1>1, <1>2, Zenon
<1>9. OpAt("reject", 1) = "borrow"
  BY <1>1, <1>2 DEF OpAt
<1> QED
  BY <1>5, <1>6, <1>7, <1>8, <1>9 DEF WellFormed

LEMMA CloseFormed == WellFormed("close")
<1>1. /\ Len(Close) = 17 /\ DOMAIN Close = 1 .. 17
      /\ Close[1].op = "borrow" /\ Close[2].op = "read" /\ Close[3].op = "return"
      /\ Close[4].op = "borrow" /\ Close[5].op = "lock" /\ Close[6].op = "lock"
      /\ Close[7].op = "lock" /\ Close[8].op = "commit" /\ Close[9].op = "return"
      /\ Close[10].op = "borrow" /\ Close[11].op = "read" /\ Close[12].op = "return"
      /\ Close[13].op = "borrow" /\ Close[14].op = "lock" /\ Close[15].op = "lock"
      /\ Close[16].op = "commit" /\ Close[17].op = "return"
  BY DEF Close, Reading, Transaction, Borrow, Return, Do, Lock
<1>2. Script["close"] = Close
  BY DEF Script
<1>3. Depth["close"] = <<0, 1, 1, 0, 1, 1, 1, 1, 1, 0, 1, 1, 0, 1, 1, 1, 1, 0>>
  BY DEF Depth
<1>4. ASSUME NEW i \in 1 .. 17
      PROVE  \/ i = 1 \/ i = 2 \/ i = 3 \/ i = 4 \/ i = 5 \/ i = 6 \/ i = 7 \/ i = 8
             \/ i = 9 \/ i = 10 \/ i = 11 \/ i = 12 \/ i = 13 \/ i = 14 \/ i = 15
             \/ i = 16 \/ i = 17
  OBVIOUS
<1>5. \A i \in 1 .. 17 : Balanced("close", i) /\ Chained("close", i)
  BY <1>1, <1>2, <1>3, <1>4 DEF Balanced, Chained, OpAt
<1>6. \A i \in 1 .. 17 : Leaves("close", i)
  BY <1>1, <1>2, <1>4 DEF Leaves, OpAt
<1>7. Depth["close"][1] = 0 /\ Depth["close"][18] = 0
  BY <1>3
<1>8. Len(Script["close"]) = 17 /\ DOMAIN Script["close"] = 1 .. 17
  BY <1>1, <1>2, Zenon
<1>9. OpAt("close", 1) = "borrow"
  BY <1>1, <1>2 DEF OpAt
<1> QED
  BY <1>5, <1>6, <1>7, <1>8, <1>9 DEF WellFormed

LEMMA SkipFormed == WellFormed("skip")
<1>1. /\ Len(Skip) = 10 /\ DOMAIN Skip = 1 .. 10
      /\ Skip[1].op = "borrow" /\ Skip[2].op = "read" /\ Skip[3].op = "return"
      /\ Skip[4].op = "borrow" /\ Skip[5].op = "lock" /\ Skip[6].op = "commit"
      /\ Skip[7].op = "return" /\ Skip[8].op = "borrow" /\ Skip[9].op = "read"
      /\ Skip[10].op = "return"
  BY DEF Skip, Reading, Transaction, Borrow, Return, Do, Lock
<1>2. Script["skip"] = Skip
  BY DEF Script
<1>3. Depth["skip"] = <<0, 1, 1, 0, 1, 1, 1, 0, 1, 1, 0>>
  BY DEF Depth
<1>4. ASSUME NEW i \in 1 .. 10
      PROVE  \/ i = 1 \/ i = 2 \/ i = 3 \/ i = 4 \/ i = 5 \/ i = 6 \/ i = 7 \/ i = 8
             \/ i = 9 \/ i = 10
  OBVIOUS
<1>5. \A i \in 1 .. 10 : Balanced("skip", i) /\ Chained("skip", i)
  BY <1>1, <1>2, <1>3, <1>4 DEF Balanced, Chained, OpAt
<1>6. \A i \in 1 .. 10 : Leaves("skip", i)
  BY <1>1, <1>2, <1>4 DEF Leaves, OpAt
<1>7. Depth["skip"][1] = 0 /\ Depth["skip"][11] = 0
  BY <1>3
<1>8. Len(Script["skip"]) = 10 /\ DOMAIN Script["skip"] = 1 .. 10
  BY <1>1, <1>2, Zenon
<1>9. OpAt("skip", 1) = "borrow"
  BY <1>1, <1>2 DEF OpAt
<1> QED
  BY <1>5, <1>6, <1>7, <1>8, <1>9 DEF WellFormed

LEMMA PatchPermissionFormed == WellFormed("patch_permission")
<1>1. /\ Len(PatchPermission) = 10 /\ DOMAIN PatchPermission = 1 .. 10
      /\ PatchPermission[1].op = "borrow" /\ PatchPermission[2].op = "lock"
      /\ PatchPermission[3].op = "commit" /\ PatchPermission[4].op = "forget"
      /\ PatchPermission[5].op = "try_borrow" /\ PatchPermission[6].op = "read_rows"
      /\ PatchPermission[7].op = "empty" /\ PatchPermission[8].op = "fill"
      /\ PatchPermission[9].op = "return" /\ PatchPermission[10].op = "return"
  BY DEF PatchPermission, Load, Borrow, Return, Do, Lock
<1>2. Script["patch_permission"] = PatchPermission
  BY DEF Script
<1>3. Depth["patch_permission"] = <<0, 1, 1, 1, 1, 2, 2, 2, 2, 1, 0>>
  BY DEF Depth
<1>4. ASSUME NEW i \in 1 .. 10
      PROVE  \/ i = 1 \/ i = 2 \/ i = 3 \/ i = 4 \/ i = 5 \/ i = 6 \/ i = 7 \/ i = 8
             \/ i = 9 \/ i = 10
  OBVIOUS
<1>5. \A i \in 1 .. 10 : Balanced("patch_permission", i) /\ Chained("patch_permission", i)
  BY <1>1, <1>2, <1>3, <1>4 DEF Balanced, Chained, OpAt
<1>6. \A i \in 1 .. 10 : Leaves("patch_permission", i)
  <2>1. PatchPermission[9] = Return
    BY DEF PatchPermission, Load, Borrow, Return, Do, Lock
  <2>2. \A m \in 5 .. 8 : PatchPermission[m] # Return
    BY <1>1 DEF Return, Do
  <2>3. ASSUME NEW i \in 1 .. 10,
               OpAt("patch_permission", i) \in {"ask", "try_borrow", "read_rows"}
        PROVE  9 \in i .. 10 /\ LeavesAt("patch_permission", i, 9)
    <3>1. i \in 5 .. 6
      BY <1>1, <1>2, <1>4, <2>3 DEF OpAt
    <3>2. \A m \in i .. (9 - 1) : Script["patch_permission"][m] # Return
      BY <1>2, <2>2, <3>1
    <3>3. /\ 9 + 1 \in DOMAIN Script["patch_permission"]
          /\ OpAt("patch_permission", 9 + 1) \in {"return", "commit"}
          /\ Script["patch_permission"][9] = Return
      BY <1>1, <1>2, <2>1 DEF OpAt
    <3>4. /\ OpAt("patch_permission", i) = "read_rows" =>
                 Depth["patch_permission"][9] = Depth["patch_permission"][i]
          /\ OpAt("patch_permission", i) # "read_rows" =>
                 Depth["patch_permission"][9 + 1] = Depth["patch_permission"][i]
      BY <1>1, <1>2, <1>3, <1>4, <3>1 DEF OpAt
    <3> QED
      BY <3>1, <3>2, <3>3, <3>4 DEF LeavesAt
  <2>4. Len(Script["patch_permission"]) = 10
    BY <1>1, <1>2, Zenon
  <2> QED
    BY <2>3, <2>4 DEF Leaves
<1>7. Depth["patch_permission"][1] = 0 /\ Depth["patch_permission"][11] = 0
  BY <1>3
<1>8. Len(Script["patch_permission"]) = 10 /\ DOMAIN Script["patch_permission"] = 1 .. 10
  BY <1>1, <1>2, Zenon
<1>9. OpAt("patch_permission", 1) = "borrow"
  BY <1>1, <1>2 DEF OpAt
<1> QED
  BY <1>5, <1>6, <1>7, <1>8, <1>9 DEF WellFormed

LEMMA LoginFormed == WellFormed("login")
<1>1. /\ Len(Login) = 9 /\ DOMAIN Login = 1 .. 9
      /\ Login[1].op = "borrow" /\ Login[2].op = "ask" /\ Login[3].op = "try_borrow"
      /\ Login[4].op = "read_rows" /\ Login[5].op = "empty" /\ Login[6].op = "fill"
      /\ Login[7].op = "return" /\ Login[8].op = "commit" /\ Login[9].op = "return"
  BY DEF Login, Load, Borrow, Return, Do, Lock
<1>2. Script["login"] = Login
  BY DEF Script
<1>3. Depth["login"] = <<0, 1, 1, 2, 2, 2, 2, 1, 1, 0>>
  BY DEF Depth
<1>4. ASSUME NEW i \in 1 .. 9
      PROVE  \/ i = 1 \/ i = 2 \/ i = 3 \/ i = 4 \/ i = 5 \/ i = 6 \/ i = 7 \/ i = 8
             \/ i = 9
  OBVIOUS
<1>5. \A i \in 1 .. 9 : Balanced("login", i) /\ Chained("login", i)
  BY <1>1, <1>2, <1>3, <1>4 DEF Balanced, Chained, OpAt
<1>6. \A i \in 1 .. 9 : Leaves("login", i)
  <2>1. Login[7] = Return
    BY DEF Login, Load, Borrow, Return, Do, Lock
  <2>2. \A m \in 2 .. 6 : Login[m] # Return
    BY <1>1 DEF Return, Do
  <2>3. ASSUME NEW i \in 1 .. 9,
               OpAt("login", i) \in {"ask", "try_borrow", "read_rows"}
        PROVE  7 \in i .. 9 /\ LeavesAt("login", i, 7)
    <3>1. i \in 2 .. 4
      BY <1>1, <1>2, <1>4, <2>3 DEF OpAt
    <3>2. \A m \in i .. (7 - 1) : Script["login"][m] # Return
      BY <1>2, <2>2, <3>1
    <3>3. /\ 7 + 1 \in DOMAIN Script["login"]
          /\ OpAt("login", 7 + 1) \in {"return", "commit"}
          /\ Script["login"][7] = Return
      BY <1>1, <1>2, <2>1 DEF OpAt
    <3>4. /\ OpAt("login", i) = "read_rows" =>
                 Depth["login"][7] = Depth["login"][i]
          /\ OpAt("login", i) # "read_rows" =>
                 Depth["login"][7 + 1] = Depth["login"][i]
      BY <1>1, <1>2, <1>3, <1>4, <3>1 DEF OpAt
    <3> QED
      BY <3>1, <3>2, <3>3, <3>4 DEF LeavesAt
  <2>4. Len(Script["login"]) = 9
    BY <1>1, <1>2, Zenon
  <2> QED
    BY <2>3, <2>4 DEF Leaves
<1>7. Depth["login"][1] = 0 /\ Depth["login"][10] = 0
  BY <1>3
<1>8. Len(Script["login"]) = 9 /\ DOMAIN Script["login"] = 1 .. 9
  BY <1>1, <1>2, Zenon
<1>9. OpAt("login", 1) = "borrow"
  BY <1>1, <1>2 DEF OpAt
<1> QED
  BY <1>5, <1>6, <1>7, <1>8, <1>9 DEF WellFormed

LEMMA Scripts ==
    ASSUME NEW k \in Kinds
    PROVE  WellFormed(k)
BY AcceptFormed, RejectFormed, CloseFormed, SkipFormed, PatchPermissionFormed,
   LoginFormed DEF Kinds

LEMMA KindsOfScripts == DOMAIN Script = Kinds
BY DEF Script, Kinds

------------------------------------------------------------------------------
(* A call and what it does next *)

CallRow == [kind : Kinds \cup {"none"}, pc : Nat, held : 0 .. 2, rows : SUBSET Grants]

\* The element a call is at.
Op(c) == IF c.kind = "none" THEN "none" ELSE OpAt(c.kind, c.pc)

\* A call is within its script and holds what its place there says.
Placed(c) ==
    IF c.kind = "none" THEN c.held = 0
    ELSE c.pc \in DOMAIN Script[c.kind] /\ c.held = Depth[c.kind][c.pc]

\* The operations are not "none", and At is about Op.
LEMMA AtIsOp ==
    ASSUME NEW t, NEW op, op # "none"
    PROVE  At(t, op) <=> Op(call[t]) = op /\ Busy(t)
BY DEF At, Op, OpAt, Busy, Element

LEMMA NoCallPlaced == NoCall \in CallRow /\ Placed(NoCall) /\ Op(NoCall) = "none" /\ NoCall.held = 0
BY DEF NoCall, CallRow, Placed, Op

\* A call that goes to an element where it should hold what it holds.
LEMMA Goes ==
    ASSUME NEW c \in CallRow, c.kind \in Kinds,
           NEW i \in 1 .. (Len(Script[c.kind]) + 1), c.held = Depth[c.kind][i]
    PROVE  /\ To(c, i) \in CallRow /\ Placed(To(c, i)) /\ To(c, i).held = c.held
           /\ i \in DOMAIN Script[c.kind] =>
                  To(c, i) = [c EXCEPT !.pc = i] /\ Op(To(c, i)) = OpAt(c.kind, i)
           /\ i \notin DOMAIN Script[c.kind] => To(c, i) = NoCall
<1>1. WellFormed(c.kind) /\ c.kind # "none"
  BY Scripts DEF Kinds
<1>2. DOMAIN Script[c.kind] = 1 .. Len(Script[c.kind]) /\ Len(Script[c.kind]) \in Nat
      /\ Depth[c.kind][Len(Script[c.kind]) + 1] = 0
  BY <1>1 DEF WellFormed
<1>3. CASE i \in DOMAIN Script[c.kind]
  <2>1. To(c, i) = [c EXCEPT !.pc = i]
    BY <1>2, <1>3 DEF To
  <2> QED
    BY <2>1, <1>1, <1>2, <1>3 DEF CallRow, Placed, Op
<1>4. CASE i \notin DOMAIN Script[c.kind]
  <2>1. i = Len(Script[c.kind]) + 1
    BY <1>2, <1>4
  <2>2. To(c, i) = NoCall
    BY <2>1, <1>2 DEF To
  <2> QED
    BY <2>1, <2>2, <1>2, <1>4, NoCallPlaced
<1> QED
  BY <1>3, <1>4

\* The next element, for one that neither borrows nor returns.
LEMMA Steps ==
    ASSUME NEW c \in CallRow, c.kind \in Kinds, Placed(c),
           Op(c) \notin {"borrow", "try_borrow", "return"}
    PROVE  /\ Step(c) \in CallRow /\ Placed(Step(c)) /\ Step(c).held = c.held
           /\ Op(Step(c)) \notin {"empty", "fill", "forget"}
                 \/ (Op(Step(c)) = "empty" /\ Op(c) = "read_rows")
                 \/ (Op(Step(c)) = "fill" /\ Op(c) = "empty")
                 \/ (Op(Step(c)) = "forget" /\ Op(c) = "commit")
           /\ Op(c) = "empty" => Op(Step(c)) = "fill"
           /\ Op(c) = "lock" => Op(Step(c)) \in {"lock", "commit"}
           /\ Op(c) = "commit" /\ c.kind = "patch_permission" => Op(Step(c)) = "forget"
           /\ Op(Step(c)) # "none" => Step(c) = [c EXCEPT !.pc = c.pc + 1]
<1>1. WellFormed(c.kind) /\ c.kind # "none"
  BY Scripts DEF Kinds
<1>2. /\ c.pc \in DOMAIN Script[c.kind] /\ c.held = Depth[c.kind][c.pc]
      /\ Op(c) = OpAt(c.kind, c.pc)
  BY <1>1 DEF Placed, Op
<1>3. Balanced(c.kind, c.pc) /\ Chained(c.kind, c.pc)
  BY <1>1, <1>2 DEF WellFormed
<1>4. Len(Script[c.kind]) \in Nat /\ DOMAIN Script[c.kind] = 1 .. Len(Script[c.kind])
  BY <1>1 DEF WellFormed
<1>5. c.pc + 1 \in 1 .. (Len(Script[c.kind]) + 1) /\ c.held = Depth[c.kind][c.pc + 1]
  BY <1>2, <1>3, <1>4 DEF Balanced
<1>6. Step(c) = To(c, c.pc + 1)
  BY DEF Step
<1>7. CASE c.pc + 1 \in DOMAIN Script[c.kind]
  BY <1>2, <1>3, <1>5, <1>6, <1>7, Goes DEF Balanced, Chained
<1>8. CASE c.pc + 1 \notin DOMAIN Script[c.kind]
  BY <1>2, <1>3, <1>5, <1>6, <1>8, Goes, NoCallPlaced DEF Balanced, Chained
<1> QED
  BY <1>7, <1>8

\* The next element for a call that borrows, and for one that returns.
LEMMA Borrows ==
    ASSUME NEW c \in CallRow, c.kind \in Kinds, Placed(c), Op(c) \in {"borrow", "try_borrow"},
           NEW d, d = Step(Holding(c, 1))
    PROVE  /\ d \in CallRow /\ Placed(d) /\ d.held = c.held + 1
           /\ Op(d) \notin {"empty", "fill", "forget"}
<1> DEFINE e == Holding(c, 1)
<1>1. WellFormed(c.kind) /\ c.kind # "none"
  BY Scripts DEF Kinds
<1>2. /\ c.pc \in DOMAIN Script[c.kind] /\ c.held = Depth[c.kind][c.pc]
      /\ Op(c) = OpAt(c.kind, c.pc)
  BY <1>1 DEF Placed, Op
<1>3. Balanced(c.kind, c.pc) /\ Chained(c.kind, c.pc)
  BY <1>1, <1>2 DEF WellFormed
<1>4. Len(Script[c.kind]) \in Nat /\ DOMAIN Script[c.kind] = 1 .. Len(Script[c.kind])
  BY <1>1 DEF WellFormed
<1>5. /\ Depth[c.kind][c.pc + 1] \in 0 .. 2 /\ c.held \in 0 .. 2
      /\ Depth[c.kind][c.pc + 1] = c.held + 1
  BY <1>2, <1>3 DEF Balanced
<1>6. /\ e \in CallRow /\ e.kind = c.kind /\ e.pc = c.pc /\ e.held = c.held + 1
      /\ e.held = Depth[c.kind][c.pc + 1]
  BY <1>2, <1>5 DEF CallRow, Holding
<1>7. d = To(e, c.pc + 1)
  BY <1>6 DEF Step
<1>8. /\ e.kind \in Kinds /\ e.held = Depth[e.kind][c.pc + 1]
      /\ c.pc + 1 \in 1 .. (Len(Script[e.kind]) + 1)
  BY <1>2, <1>4, <1>6
<1> HIDE DEF e
<1>9. /\ d \in CallRow /\ Placed(d) /\ d.held = c.held + 1
      /\ c.pc + 1 \in DOMAIN Script[c.kind] => Op(d) = OpAt(c.kind, c.pc + 1)
      /\ c.pc + 1 \notin DOMAIN Script[c.kind] => d = NoCall
  BY <1>6, <1>7, <1>8, Goes
<1>10. CASE c.pc + 1 \in DOMAIN Script[c.kind]
  BY <1>2, <1>3, <1>9, <1>10 DEF Chained
<1>11. CASE c.pc + 1 \notin DOMAIN Script[c.kind]
  BY <1>9, <1>11, NoCallPlaced
<1> QED
  BY <1>10, <1>11

LEMMA Returns ==
    ASSUME NEW c \in CallRow, c.kind \in Kinds, Placed(c), Op(c) = "return",
           NEW d, d = Step([Holding(c, -1) EXCEPT !.rows = {}])
    PROVE  /\ d \in CallRow /\ Placed(d) /\ d.held = c.held - 1
           /\ Op(d) \notin {"empty", "fill", "forget"}
<1> DEFINE e == [Holding(c, -1) EXCEPT !.rows = {}]
<1>1. WellFormed(c.kind) /\ c.kind # "none"
  BY Scripts DEF Kinds
<1>2. /\ c.pc \in DOMAIN Script[c.kind] /\ c.held = Depth[c.kind][c.pc]
      /\ Op(c) = OpAt(c.kind, c.pc)
  BY <1>1 DEF Placed, Op
<1>3. Balanced(c.kind, c.pc) /\ Chained(c.kind, c.pc)
  BY <1>1, <1>2 DEF WellFormed
<1>4. Len(Script[c.kind]) \in Nat /\ DOMAIN Script[c.kind] = 1 .. Len(Script[c.kind])
  BY <1>1 DEF WellFormed
<1>5. /\ Depth[c.kind][c.pc + 1] \in 0 .. 2 /\ c.held \in 0 .. 2
      /\ Depth[c.kind][c.pc + 1] = c.held - 1
  BY <1>2, <1>3 DEF Balanced
<1>6. /\ e \in CallRow /\ e.kind = c.kind /\ e.pc = c.pc /\ e.held = c.held - 1
      /\ e.held = Depth[c.kind][c.pc + 1]
  BY <1>2, <1>5 DEF CallRow, Holding
<1>7. d = To(e, c.pc + 1)
  BY <1>6 DEF Step
<1>8. /\ e.kind \in Kinds /\ e.held = Depth[e.kind][c.pc + 1]
      /\ c.pc + 1 \in 1 .. (Len(Script[e.kind]) + 1)
  BY <1>2, <1>4, <1>6
<1> HIDE DEF e
<1>9. /\ d \in CallRow /\ Placed(d) /\ d.held = c.held - 1
      /\ c.pc + 1 \in DOMAIN Script[c.kind] => Op(d) = OpAt(c.kind, c.pc + 1)
      /\ c.pc + 1 \notin DOMAIN Script[c.kind] => d = NoCall
  BY <1>6, <1>7, <1>8, Goes
<1>10. CASE c.pc + 1 \in DOMAIN Script[c.kind]
  BY <1>2, <1>3, <1>9, <1>10 DEF Chained
<1>11. CASE c.pc + 1 \notin DOMAIN Script[c.kind]
  BY <1>9, <1>11, NoCallPlaced
<1> QED
  BY <1>10, <1>11

\* A call that leaves its load: at the return, when the load was going on, else past it.
LEMMA LeavesLoad ==
    ASSUME NEW c \in CallRow, c.kind \in Kinds, Placed(c),
           Op(c) \in {"ask", "try_borrow", "read_rows"}
    PROVE  /\ LoadReturn(c) + 1 \in DOMAIN Script[c.kind]
           /\ LoadReturn(c) \in DOMAIN Script[c.kind]
           /\ OpAt(c.kind, LoadReturn(c)) = "return"
           /\ OpAt(c.kind, LoadReturn(c) + 1) \in {"return", "commit"}
           /\ Op(c) = "read_rows" => /\ Depth[c.kind][LoadReturn(c)] = c.held
                                     /\ Depth[c.kind][LoadReturn(c) + 1] = c.held - 1
           /\ Op(c) # "read_rows" => Depth[c.kind][LoadReturn(c) + 1] = c.held
<1>1. WellFormed(c.kind) /\ c.kind # "none"
  BY Scripts DEF Kinds
<1>2. /\ c.pc \in DOMAIN Script[c.kind] /\ c.held = Depth[c.kind][c.pc]
      /\ Op(c) = OpAt(c.kind, c.pc)
  BY <1>1 DEF Placed, Op
<1>3. Len(Script[c.kind]) \in Nat /\ DOMAIN Script[c.kind] = 1 .. Len(Script[c.kind])
  BY <1>1 DEF WellFormed
<1>4. PICK j \in c.pc .. Len(Script[c.kind]) :
            /\ Script[c.kind][j] = Return
            /\ \A m \in c.pc .. (j - 1) : Script[c.kind][m] # Return
            /\ j + 1 \in DOMAIN Script[c.kind]
            /\ OpAt(c.kind, j + 1) \in {"return", "commit"}
            /\ Op(c) = "read_rows" => Depth[c.kind][j] = Depth[c.kind][c.pc]
            /\ Op(c) # "read_rows" => Depth[c.kind][j + 1] = Depth[c.kind][c.pc]
  BY <1>1, <1>2 DEF WellFormed, Leaves, LeavesAt
<1>5. LoadReturn(c) = j
  <2>1. ASSUME NEW i \in c.pc .. Len(Script[c.kind]),
               Script[c.kind][i] = Return,
               \A m \in c.pc .. (i - 1) : Script[c.kind][m] # Return
        PROVE  i = j
    <3>1. ~ (i < j) /\ ~ (j < i)
      BY <1>2, <1>3, <1>4, <2>1
    <3> QED
      BY <3>1, <1>2, <1>3
  <2>2. /\ j \in c.pc .. Len(Script[c.kind]) /\ Script[c.kind][j] = Return
        /\ \A m \in c.pc .. (j - 1) : Script[c.kind][m] # Return
    BY <1>4
  <2>3. \E i \in c.pc .. Len(Script[c.kind]) :
            /\ Script[c.kind][i] = Return
            /\ \A m \in c.pc .. (i - 1) : Script[c.kind][m] # Return
    BY <2>2
  <2> QED
    BY <2>1, <2>3, Zenon DEF LoadReturn
<1>6. OpAt(c.kind, j) = "return" /\ j \in DOMAIN Script[c.kind]
  BY <1>2, <1>3, <1>4 DEF OpAt, Return, Do
<1>7. Depth[c.kind][j + 1] = Depth[c.kind][j] - 1
  BY <1>1, <1>6 DEF WellFormed, Balanced
<1> QED
  BY <1>2, <1>4, <1>5, <1>6, <1>7

------------------------------------------------------------------------------
(* The connections given *)

Given(f) == {p \in Threads \X (1 .. 2) : p[2] <= f[p[1]].held}
Others(f, t) == {p \in Given(f) : p[1] # t}

LEMMA GivenSplit ==
    ASSUME NEW f \in [Threads -> CallRow], NEW t \in Threads
    PROVE  /\ IsFiniteSet(Given(f)) /\ IsFiniteSet(Others(f, t))
           /\ Cardinality(Given(f)) = Cardinality(Others(f, t)) + f[t].held
<1>1. IsFiniteSet(Threads \X (1 .. 2))
  <2>1. IsFiniteSet(Threads)
    BY ResourcesAssumption
  <2>2. IsFiniteSet(1 .. 2)
    <3>1. \A a, b \in Int : IsFiniteSet(a .. b)
      BY FS_Interval
    <3>2. 1 \in Int /\ 2 \in Int
      OBVIOUS
    <3> QED
      BY <3>1, <3>2, Zenon
  <2> QED
    BY <2>1, <2>2, FS_Product
<1>2. IsFiniteSet(Given(f)) /\ IsFiniteSet(Others(f, t))
  BY <1>1, FS_Subset DEF Given, Others
<1>3. f[t].held \in 0 .. 2
  BY DEF CallRow
<1>4. Cardinality(Others(f, t)) \in Nat
  BY <1>2, FS_CardinalityType
<1>5. CASE f[t].held = 0
  <2>1. Given(f) = Others(f, t)
    BY <1>5 DEF Given, Others
  <2> QED
    BY <2>1, <1>2, <1>4, <1>5
<1>6. CASE f[t].held = 1
  <2>1. /\ Given(f) = Others(f, t) \cup {<<t, 1>>}
        /\ <<t, 1>> \notin Others(f, t)
    BY <1>6 DEF Given, Others
  <2> QED
    BY <2>1, <1>2, <1>6, FS_AddElement
<1>7. CASE f[t].held = 2
  <2> DEFINE One == Others(f, t) \cup {<<t, 1>>}
  <2>1. /\ Given(f) = One \cup {<<t, 2>>}
        /\ <<t, 1>> \notin Others(f, t) /\ <<t, 2>> \notin One
    BY <1>7 DEF Given, Others
  <2>2. IsFiniteSet(One) /\ Cardinality(One) = Cardinality(Others(f, t)) + 1
    BY <2>1, <1>2, FS_AddElement
  <2>3. Cardinality(Given(f)) = Cardinality(One) + 1
    BY <2>1, <2>2, FS_AddElement, SMTT(30)
  <2> QED
    BY <2>2, <2>3, <1>2, <1>4, <1>7
<1> QED
  BY <1>2, <1>3, <1>5, <1>6, <1>7

\* What one call takes or gives back is all that changes.
LEMMA GivenMoves ==
    ASSUME NEW f \in [Threads -> CallRow], NEW g \in [Threads -> CallRow], NEW t \in Threads,
           \A u \in Threads \ {t} : g[u] = f[u]
    PROVE  /\ Cardinality(Given(f)) \in Nat /\ Cardinality(Given(g)) \in Nat
           /\ Cardinality(Given(g)) + f[t].held = Cardinality(Given(f)) + g[t].held
<1>1. Others(g, t) = Others(f, t)
  BY DEF Others, Given
<1>2. /\ Cardinality(Given(f)) = Cardinality(Others(f, t)) + f[t].held
      /\ IsFiniteSet(Given(f)) /\ IsFiniteSet(Others(f, t))
  BY GivenSplit
<1>3. /\ Cardinality(Given(g)) = Cardinality(Others(g, t)) + g[t].held
      /\ IsFiniteSet(Given(g))
  BY GivenSplit
<1>4. /\ Cardinality(Others(f, t)) \in Nat
      /\ Cardinality(Given(f)) \in Nat /\ Cardinality(Given(g)) \in Nat
  BY <1>2, <1>3, FS_CardinalityType
<1>5. f[t].held \in Nat /\ g[t].held \in Nat
  BY DEF CallRow
<1> QED
  BY <1>1, <1>2, <1>3, <1>4, <1>5

------------------------------------------------------------------------------
(* The invariant *)

Typed ==
    /\ free \in Nat /\ broken \in Nat
    /\ call \in [Threads -> CallRow]
    /\ \A t \in Threads : Placed(call[t])
    /\ locked \in [Lockable -> Threads \cup {NoThread}]

Conserved == free + broken + Cardinality(Given(call)) = MaxConn

\* A row is locked by a call whose next element locks another or commits.
LocksPlaced ==
    \A t \in Threads, r \in Lockable : locked[r] = t => Op(call[t]) \in {"lock", "commit"}

PermissionsTyped ==
    /\ matrix \subseteq Grants /\ cache \subseteq Grants
    /\ loaded \in BOOLEAN /\ mixed \in BOOLEAN

InLoad(c) == Op(c) \in {"empty", "fill"}

\* As long as no load has met another, nor a change of a permission: one load is under
\* way at most, what it has still to add completes the cache, and a loaded cache is right
\* unless a load is under way or about to be made.
CacheFollows ==
    mixed = FALSE =>
        /\ \A t, u \in Threads : InLoad(call[t]) /\ InLoad(call[u]) => t = u
        /\ \A t \in Threads :
               /\ Op(call[t]) = "empty" => call[t].rows = matrix
               /\ Op(call[t]) = "fill" => cache \cup call[t].rows = matrix
        /\ loaded = TRUE /\ (\A t \in Threads : ~InLoad(call[t]) /\ Op(call[t]) # "forget")
               => cache = matrix

PoolInv == Typed /\ Conserved /\ LocksPlaced /\ PermissionsTyped /\ CacheFollows

LEMMA LoadingIsInLoad == ASSUME NEW t PROVE Loading(t) <=> InLoad(call[t])
BY DEF Loading, InLoad, Op, OpAt, Busy, Element

LEMMA PoolInitInv == PoolInit => PoolInv
<1> SUFFICES ASSUME PoolInit PROVE PoolInv
  OBVIOUS
<1>1. MaxConn \in Nat /\ NoThread \notin Threads
  BY ResourcesAssumption
<1>2. Typed
  BY <1>1, NoCallPlaced DEF PoolInit, Typed
<1>3. Conserved
  <2>1. Given(call) = {}
    BY NoCallPlaced DEF PoolInit, Given
  <2> QED
    BY <2>1, <1>1, FS_EmptySet DEF PoolInit, Conserved
<1>4. LocksPlaced
  BY <1>1 DEF PoolInit, LocksPlaced
<1>5. PermissionsTyped
  BY DEF PoolInit, PermissionsTyped
<1>6. CacheFollows
  BY NoCallPlaced DEF PoolInit, CacheFollows, InLoad
<1> QED
  BY <1>2, <1>3, <1>4, <1>5, <1>6 DEF PoolInv

------------------------------------------------------------------------------
(* What every step comes to *)

\* The call of t becomes c, and the pool gives or gets what c holds more or less.
Moved(t, c) ==
    /\ c \in CallRow /\ Placed(c)
    /\ call' = [call EXCEPT ![t] = c]
    /\ free' \in Nat /\ broken' \in Nat
    /\ free' + broken' + c.held = free + broken + call[t].held

\* The locks of t are of a call that may have some, and no other changes.
LocksMoved(t, c) ==
    /\ locked' \in [Lockable -> Threads \cup {NoThread}]
    /\ \A r \in Lockable : /\ locked'[r] = t => Op(c) \in {"lock", "commit"}
                           /\ \A u \in Threads \ {t} : locked'[r] = u => locked[r] = u

LEMMA ResourcesKept ==
    ASSUME Typed, Conserved, LocksPlaced, NEW t \in Threads, NEW c,
           Moved(t, c), LocksMoved(t, c)
    PROVE  Typed' /\ Conserved' /\ LocksPlaced'
<1>1. /\ call \in [Threads -> CallRow] /\ c \in CallRow
      /\ call' = [call EXCEPT ![t] = c]
  BY DEF Typed, Moved
<1>2. call' \in [Threads -> CallRow] /\ \A u \in Threads \ {t} : call'[u] = call[u]
  BY <1>1
<1>3. call'[t] = c
  BY <1>1
<1>4. Typed'
  BY <1>2, <1>3 DEF Typed, Moved, LocksMoved
<1>5. Conserved'
  <2>1. /\ Cardinality(Given(call)) \in Nat /\ Cardinality(Given(call')) \in Nat
        /\ Cardinality(Given(call')) + call[t].held = Cardinality(Given(call)) + c.held
    <3> DEFINE f == call
               g == call'
    <3>1. /\ f \in [Threads -> CallRow] /\ g \in [Threads -> CallRow]
          /\ \A u \in Threads \ {t} : g[u] = f[u]
      BY <1>1, <1>2
    <3>2. g[t] = c
      BY <1>3
    <3> HIDE DEF f, g
    <3>3. /\ Cardinality(Given(f)) \in Nat /\ Cardinality(Given(g)) \in Nat
          /\ Cardinality(Given(g)) + f[t].held = Cardinality(Given(f)) + g[t].held
      BY <3>1, GivenMoves
    <3> QED BY <3>2, <3>3 DEF f, g
  <2>2. /\ free \in Nat /\ broken \in Nat /\ free' \in Nat /\ broken' \in Nat
        /\ call[t].held \in Nat /\ c.held \in Nat
        /\ free' + broken' + c.held = free + broken + call[t].held
    BY <1>1 DEF Typed, Moved, CallRow
  <2>3. free' + broken' + Cardinality(Given(call')) = free + broken + Cardinality(Given(call))
    BY <2>1, <2>2
  <2>4. Given(call)' = Given(call')
    BY DEF Given
  <2> QED
    BY <2>3, <2>4 DEF Conserved
<1>6. LocksPlaced'
  BY <1>2, <1>3 DEF LocksPlaced, LocksMoved
<1> QED
  BY <1>4, <1>5, <1>6

\* A step outside loads and reloads, which leaves the permissions alone.
LEMMA CacheKept ==
    ASSUME Typed, PermissionsTyped, CacheFollows, NEW t \in Threads, NEW c, Moved(t, c),
           Op(call[t]) \notin {"empty", "fill", "forget"},
           Op(c) \notin {"empty", "fill", "forget"}, UNCHANGED permissions
    PROVE  PermissionsTyped' /\ CacheFollows'
<1>1. call' = [call EXCEPT ![t] = c] /\ call \in [Threads -> CallRow]
  BY DEF Typed, Moved
<1>2. matrix' = matrix /\ cache' = cache /\ loaded' = loaded /\ mixed' = mixed
  BY DEF permissions
<1>3. PermissionsTyped'
  BY <1>2 DEF PermissionsTyped
<1>4. /\ call'[t] = c /\ \A u \in Threads \ {t} : call'[u] = call[u]
  BY <1>1
<1>5. \A u \in Threads : /\ InLoad(call'[u]) <=> InLoad(call[u])
                         /\ Op(call'[u]) = "forget" <=> Op(call[u]) = "forget"
                         /\ InLoad(call[u]) => call'[u] = call[u]
  BY <1>4 DEF InLoad
<1>6. CacheFollows'
  BY <1>2, <1>5, Zenon DEF CacheFollows, InLoad
<1> QED
  BY <1>3, <1>6

\* What each step starts from.
LEMMA Now ==
    ASSUME Typed, NEW t \in Threads
    PROVE  /\ call[t] \in CallRow /\ Placed(call[t])
           /\ free \in Nat /\ broken \in Nat /\ call[t].held \in 0 .. 2
           /\ Busy(t) => call[t].kind \in Kinds
BY DEF Typed, CallRow, Busy

\* Locks that stay, or go with the transaction of the thread.
LEMMA LocksStay ==
    ASSUME Typed, LocksPlaced, NEW t \in Threads, NEW c, locked' = locked,
           Op(call[t]) \in {"lock", "commit"} => Op(c) \in {"lock", "commit"}
    PROVE  LocksMoved(t, c)
BY DEF Typed, LocksPlaced, LocksMoved

LEMMA LocksGo ==
    ASSUME Typed, NEW t \in Threads, NEW c, locked' = Unlocked(t)
    PROVE  LocksMoved(t, c)
<1>1. NoThread \notin Threads
  BY ResourcesAssumption
<1> QED
  BY <1>1 DEF Typed, Unlocked, LocksMoved

\* A step whose call and locks move as above keeps the invariant.
LEMMA Settles ==
    ASSUME PoolInv, NEW t \in Threads, NEW c, Moved(t, c), LocksMoved(t, c),
           Op(call[t]) \notin {"empty", "fill", "forget"},
           Op(c) \notin {"empty", "fill", "forget"}, UNCHANGED permissions
    PROVE  PoolInv'
BY ResourcesKept, CacheKept DEF PoolInv

\* A call that ends.
LEMMA EndKeeps ==
    ASSUME PoolInv, NEW t \in Threads, NEW given \in 0 .. 2,
           EndCall(t, given), broken' \in Nat, broken' + given = broken + call[t].held,
           Op(call[t]) \notin {"empty", "fill", "forget"}
    PROVE  PoolInv'
<1>1. Typed /\ call[t].held \in 0 .. 2 /\ free \in Nat /\ broken \in Nat
  BY Now DEF PoolInv
<1>2. Moved(t, NoCall)
  BY <1>1, NoCallPlaced DEF EndCall, Moved
<1>3. LocksMoved(t, NoCall)
  BY <1>1, LocksGo DEF EndCall
<1> QED
  BY <1>2, <1>3, Settles, NoCallPlaced DEF EndCall

------------------------------------------------------------------------------
(* The steps *)

LEMMA BeginKeeps ==
    ASSUME PoolInv, NEW t \in Threads, NEW kind \in Served, Begin(t, kind)
    PROVE  PoolInv'
<1> DEFINE c == [NoCall EXCEPT !.kind = kind]
<1>1. Typed /\ LocksPlaced /\ call[t].held \in 0 .. 2 /\ free \in Nat /\ broken \in Nat
  BY Now DEF PoolInv
<1>2. kind \in Kinds /\ kind # "none"
  BY ResourcesAssumption DEF Kinds
<1>3. c = [kind |-> kind, pc |-> 1, held |-> 0, rows |-> {}]
  BY DEF NoCall
<1>4. WellFormed(kind)
  BY <1>2, Scripts
<1>5. 1 \in DOMAIN Script[kind] /\ OpAt(kind, 1) = "borrow" /\ Depth[kind][1] = 0
  BY <1>4 DEF WellFormed
<1>6. c \in CallRow /\ Placed(c) /\ Op(c) = "borrow" /\ c.held = 0
  BY <1>2, <1>3, <1>5 DEF CallRow, Placed, Op
<1>7. Op(call[t]) = "none" /\ call[t].held = 0
  BY <1>1, Now DEF Begin, Busy, Op, Placed
<1>8. Moved(t, c)
  BY <1>1, <1>6, <1>7 DEF Begin, Moved, pool
<1>9. LocksMoved(t, c)
  BY <1>1, <1>7, LocksStay DEF Begin
<1> HIDE DEF c
<1> QED
  BY <1>6, <1>7, <1>8, <1>9, Settles DEF Begin

LEMMA TakeKeeps ==
    ASSUME PoolInv, NEW t \in Threads, TakeConnection(t)
    PROVE  PoolInv'
<1> DEFINE c == Step(Holding(call[t], 1))
<1>1. /\ Typed /\ LocksPlaced /\ call[t] \in CallRow /\ Placed(call[t])
      /\ call[t].held \in 0 .. 2 /\ free \in Nat /\ broken \in Nat /\ free > 0
  BY Now DEF PoolInv, TakeConnection
<1>2. Op(call[t]) \in {"borrow", "try_borrow"} /\ call[t].kind \in Kinds
  BY <1>1, AtIsOp, Now DEF TakeConnection
<1>3. /\ c \in CallRow /\ Placed(c) /\ c.held = call[t].held + 1
      /\ Op(c) \notin {"empty", "fill", "forget"}
  BY <1>1, <1>2, Borrows
<1>4. /\ call' = [call EXCEPT ![t] = c] /\ free' = free - 1
      /\ UNCHANGED <<broken, locked, permissions>>
  BY DEF TakeConnection
<1> HIDE DEF c
<1>5. Moved(t, c)
  BY <1>1, <1>3, <1>4 DEF Moved
<1>6. LocksMoved(t, c)
  BY <1>1, <1>2, <1>4, LocksStay
<1> QED
  BY <1>2, <1>3, <1>4, <1>5, <1>6, Settles

LEMMA GiveKeeps ==
    ASSUME PoolInv, NEW t \in Threads, GiveBack(t)
    PROVE  PoolInv'
<1> DEFINE c == Step([Holding(call[t], -1) EXCEPT !.rows = {}])
<1>1. /\ Typed /\ LocksPlaced /\ call[t] \in CallRow /\ Placed(call[t])
      /\ call[t].held \in 0 .. 2 /\ free \in Nat /\ broken \in Nat
  BY Now DEF PoolInv
<1>2. Op(call[t]) = "return" /\ call[t].kind \in Kinds
  BY <1>1, AtIsOp, Now DEF GiveBack
<1>3. /\ c \in CallRow /\ Placed(c) /\ c.held = call[t].held - 1
      /\ Op(c) \notin {"empty", "fill", "forget"}
  BY <1>1, <1>2, Returns
<1>4. /\ call' = [call EXCEPT ![t] = c] /\ free' = free + 1
      /\ UNCHANGED <<broken, locked, permissions>>
  BY DEF GiveBack
<1> HIDE DEF c
<1>5. Moved(t, c)
  BY <1>1, <1>3, <1>4 DEF Moved, CallRow
<1>6. LocksMoved(t, c)
  BY <1>1, <1>2, <1>4, LocksStay
<1> QED
  BY <1>2, <1>3, <1>4, <1>5, <1>6, Settles

\* A step to the next element that moves no connection.
LEMMA StepMoves ==
    ASSUME Typed, NEW t \in Threads, Busy(t),
           Op(call[t]) \notin {"borrow", "try_borrow", "return"},
           call' = [call EXCEPT ![t] = Step(call[t])], UNCHANGED pool
    PROVE  Moved(t, Step(call[t]))
BY Now, Steps DEF Moved, pool

LEMMA ReadKeeps ==
    ASSUME PoolInv, NEW t \in Threads, Read(t)
    PROVE  PoolInv'
<1> DEFINE c == Step(call[t])
<1>1. /\ Typed /\ LocksPlaced /\ call[t] \in CallRow /\ Placed(call[t]) /\ Busy(t)
      /\ Op(call[t]) = "read" /\ call[t].kind \in Kinds
  BY Now, AtIsOp DEF PoolInv, Read, At
<1>2. Op(c) \notin {"empty", "fill", "forget"}
  BY <1>1, Steps
<1>3. call' = [call EXCEPT ![t] = c] /\ UNCHANGED <<pool, locked, permissions>>
  BY DEF Read
<1>4. Moved(t, c)
  BY <1>1, <1>3, StepMoves
<1> HIDE DEF c
<1>5. LocksMoved(t, c)
  BY <1>1, <1>3, LocksStay
<1> QED
  BY <1>1, <1>2, <1>3, <1>4, <1>5, Settles

LEMMA LockKeeps ==
    ASSUME PoolInv, NEW t \in Threads, LockRow(t)
    PROVE  PoolInv'
<1> DEFINE c == Step(call[t])
<1>1. /\ Typed /\ LocksPlaced /\ call[t] \in CallRow /\ Placed(call[t]) /\ Busy(t)
      /\ Op(call[t]) = "lock" /\ call[t].kind \in Kinds
  BY Now, AtIsOp DEF PoolInv, LockRow, At
<1>2. Op(c) \in {"lock", "commit"}
  BY <1>1, Steps
<1>3. /\ call' = [call EXCEPT ![t] = c] /\ UNCHANGED <<pool, permissions>>
      /\ locked' = [locked EXCEPT ![Element(t).row] = t]
  BY DEF LockRow
<1>4. Moved(t, c)
  BY <1>1, <1>3, StepMoves
<1> HIDE DEF c
<1>5. LocksMoved(t, c)
  BY <1>1, <1>2, <1>3 DEF Typed, LocksMoved
<1> QED
  BY <1>1, <1>2, <1>3, <1>4, <1>5, Settles

LEMMA LeaveMoves ==
    ASSUME Typed, NEW t \in Threads, Busy(t), Op(call[t]) \in {"ask", "try_borrow"},
           NEW c, c = To(call[t], LoadReturn(call[t]) + 1),
           call' = [call EXCEPT ![t] = c], UNCHANGED pool
    PROVE  Moved(t, c) /\ Op(c) \in {"return", "commit"}
<1>1. /\ call[t] \in CallRow /\ Placed(call[t]) /\ call[t].kind \in Kinds
      /\ free \in Nat /\ broken \in Nat /\ call[t].held \in 0 .. 2
  BY Now
<1>2. /\ LoadReturn(call[t]) + 1 \in DOMAIN Script[call[t].kind]
      /\ OpAt(call[t].kind, LoadReturn(call[t]) + 1) \in {"return", "commit"}
      /\ Depth[call[t].kind][LoadReturn(call[t]) + 1] = call[t].held
  BY <1>1, LeavesLoad
<1>3. LoadReturn(call[t]) + 1 \in 1 .. (Len(Script[call[t].kind]) + 1)
  BY <1>1, <1>2, Scripts DEF WellFormed
<1>4. /\ c \in CallRow /\ Placed(c) /\ c.held = call[t].held
      /\ Op(c) \in {"return", "commit"}
  BY <1>1, <1>2, <1>3, Goes
<1> QED
  BY <1>1, <1>4 DEF Moved, pool

LEMMA AskKeeps ==
    ASSUME PoolInv, NEW t \in Threads, Ask(t)
    PROVE  PoolInv'
<1>1. /\ Typed /\ LocksPlaced /\ call[t] \in CallRow /\ Placed(call[t]) /\ Busy(t)
      /\ Op(call[t]) = "ask" /\ call[t].kind \in Kinds
  BY Now, AtIsOp DEF PoolInv, Ask, At
<1>2. UNCHANGED <<pool, locked, permissions>>
  BY DEF Ask
<1>3. CASE call' = [call EXCEPT ![t] = To(call[t], LoadReturn(call[t]) + 1)]
  <2>1. PICK c : c = To(call[t], LoadReturn(call[t]) + 1)
    OBVIOUS
  <2>2. Moved(t, c) /\ Op(c) \in {"return", "commit"}
    BY <1>1, <1>2, <1>3, <2>1, LeaveMoves
  <2>3. LocksMoved(t, c)
    BY <1>1, <1>2, LocksStay
  <2> QED
    BY <1>1, <1>2, <2>2, <2>3, Settles
<1>4. CASE call' = [call EXCEPT ![t] = Step(call[t])]
  <2>1. Moved(t, Step(call[t])) /\ Op(Step(call[t])) \notin {"empty", "fill", "forget"}
    BY <1>1, <1>2, <1>4, StepMoves, Steps
  <2>2. LocksMoved(t, Step(call[t]))
    BY <1>1, <1>2, LocksStay
  <2> QED
    BY <1>1, <1>2, <2>1, <2>2, Settles
<1> QED
  BY <1>3, <1>4 DEF Ask

LEMMA LoadRefusedKeeps ==
    ASSUME PoolInv, NEW t \in Threads, LoadRefused(t)
    PROVE  PoolInv'
<1>1. Typed /\ LocksPlaced /\ Busy(t) /\ Op(call[t]) = "try_borrow"
  BY AtIsOp DEF PoolInv, LoadRefused, At
<1>2. PICK c : c = To(call[t], LoadReturn(call[t]) + 1)
  OBVIOUS
<1>3. call' = [call EXCEPT ![t] = c] /\ UNCHANGED <<pool, locked, permissions>>
  BY <1>2 DEF LoadRefused
<1>4. Moved(t, c) /\ Op(c) \in {"return", "commit"}
  BY <1>1, <1>2, <1>3, LeaveMoves
<1>5. LocksMoved(t, c)
  BY <1>1, <1>3, LocksStay
<1> QED
  BY <1>1, <1>3, <1>4, <1>5, Settles

LEMMA LoadFailsKeeps ==
    ASSUME PoolInv, NEW t \in Threads, LoadFails(t)
    PROVE  PoolInv'
<1>1. /\ Typed /\ LocksPlaced /\ call[t] \in CallRow /\ Placed(call[t]) /\ Busy(t)
      /\ Op(call[t]) = "read_rows" /\ call[t].kind \in Kinds
      /\ free \in Nat /\ broken \in Nat
  BY Now, AtIsOp DEF PoolInv, LoadFails, At
<1>2. PICK c : c = To(call[t], LoadReturn(call[t]))
  OBVIOUS
<1>3. call' = [call EXCEPT ![t] = c] /\ UNCHANGED <<pool, locked, permissions>>
  BY <1>2 DEF LoadFails
<1>4. /\ LoadReturn(call[t]) \in DOMAIN Script[call[t].kind]
      /\ OpAt(call[t].kind, LoadReturn(call[t])) = "return"
      /\ Depth[call[t].kind][LoadReturn(call[t])] = call[t].held
  BY <1>1, LeavesLoad
<1>5. LoadReturn(call[t]) \in 1 .. (Len(Script[call[t].kind]) + 1)
  BY <1>1, <1>4, Scripts DEF WellFormed
<1>6. c \in CallRow /\ Placed(c) /\ c.held = call[t].held /\ Op(c) = "return"
  BY <1>1, <1>2, <1>4, <1>5, Goes
<1>7. Moved(t, c)
  BY <1>1, <1>3, <1>6 DEF Moved, pool, CallRow
<1>8. LocksMoved(t, c)
  BY <1>1, <1>3, LocksStay
<1> QED
  BY <1>1, <1>3, <1>6, <1>7, <1>8, Settles

LEMMA BreakLoadKeeps ==
    ASSUME PoolInv, NEW t \in Threads, BreakLoad(t)
    PROVE  PoolInv'
<1> DEFINE e == Holding(call[t], -1)
<1>1. /\ Typed /\ LocksPlaced /\ call[t] \in CallRow /\ Placed(call[t]) /\ Busy(t)
      /\ Op(call[t]) = "read_rows" /\ call[t].kind \in Kinds
      /\ free \in Nat /\ broken \in Nat /\ call[t].held \in 0 .. 2
  BY Now, AtIsOp DEF PoolInv, BreakLoad, At
<1>2. /\ LoadReturn(call[t]) + 1 \in DOMAIN Script[call[t].kind]
      /\ OpAt(call[t].kind, LoadReturn(call[t]) + 1) \in {"return", "commit"}
      /\ Depth[call[t].kind][LoadReturn(call[t]) + 1] = call[t].held - 1
  BY <1>1, LeavesLoad
<1>3. WellFormed(call[t].kind)
  BY <1>1, Scripts
<1>4. /\ LoadReturn(call[t]) + 1 \in 1 .. (Len(Script[call[t].kind]) + 1)
      /\ Depth[call[t].kind][LoadReturn(call[t]) + 1] \in 0 .. 2
  <2>1. Balanced(call[t].kind, LoadReturn(call[t]) + 1)
    BY <1>2, <1>3 DEF WellFormed
  <2>2. /\ DOMAIN Script[call[t].kind] = 1 .. Len(Script[call[t].kind])
        /\ Len(Script[call[t].kind]) \in Nat
    BY <1>3 DEF WellFormed
  <2> QED
    BY <1>2, <2>1, <2>2 DEF Balanced
<1>5. /\ e \in CallRow /\ e.kind = call[t].kind /\ e.pc = call[t].pc
      /\ e.held = call[t].held - 1
  BY <1>1, <1>2, <1>4 DEF CallRow, Holding
<1>6. LoadReturn(e) = LoadReturn(call[t])
  BY <1>5 DEF LoadReturn
<1>7. PICK c : c = To(e, LoadReturn(e) + 1)
  OBVIOUS
<1>8. /\ call' = [call EXCEPT ![t] = c] /\ broken' = broken + 1
      /\ UNCHANGED <<free, locked, permissions>>
  BY <1>6, <1>7 DEF BreakLoad
<1> HIDE DEF e
<1>9. /\ e.kind \in Kinds /\ LoadReturn(e) + 1 \in 1 .. (Len(Script[e.kind]) + 1)
      /\ e.held = Depth[e.kind][LoadReturn(e) + 1]
      /\ LoadReturn(e) + 1 \in DOMAIN Script[e.kind]
  BY <1>1, <1>2, <1>4, <1>5, <1>6
<1>10. /\ c \in CallRow /\ Placed(c) /\ c.held = call[t].held - 1
       /\ Op(c) \in {"return", "commit"}
  BY <1>2, <1>5, <1>6, <1>7, <1>9, Goes
<1>11. Moved(t, c)
  BY <1>1, <1>8, <1>10 DEF Moved, CallRow
<1>12. LocksMoved(t, c)
  BY <1>1, <1>8, LocksStay
<1> QED
  BY <1>1, <1>8, <1>10, <1>11, <1>12, Settles

LEMMA FailuresKeep ==
    ASSUME PoolInv, NEW t \in Threads,
           CallFails(t) \/ Refuse(t) \/ Timeout(t) \/ (\E n \in 1 .. call[t].held : Break(t, n))
    PROVE  PoolInv'
<1>1. broken \in Nat /\ call[t].held \in 0 .. 2
  BY Now DEF PoolInv
<1>2. Op(call[t]) \notin {"empty", "fill", "forget"}
  BY DEF CallFails, Refuse, Timeout, Break, Exposed, At, Op, OpAt, Busy, Element
<1>3. CASE CallFails(t) \/ Refuse(t)
  BY <1>1, <1>2, <1>3, EndKeeps DEF CallFails, Refuse
<1>4. CASE Timeout(t)
  BY <1>1, <1>2, <1>4, EndKeeps DEF Timeout
<1>5. CASE \E n \in 1 .. call[t].held : Break(t, n)
  <2>1. PICK n \in 1 .. call[t].held : Break(t, n)
    BY <1>5
  <2>2. /\ call[t].held - n \in 0 .. 2 /\ broken' \in Nat
        /\ broken' + (call[t].held - n) = broken + call[t].held
        /\ EndCall(t, call[t].held - n)
    BY <1>1, <2>1 DEF Break
  <2> QED
    BY <1>2, <2>2, EndKeeps
<1> QED
  BY <1>3, <1>4, <1>5

------------------------------------------------------------------------------
(* The steps that touch the permissions *)

\* Committing: a changed permission is about to be reloaded.
LEMMA CommitKeeps ==
    ASSUME PoolInv, NEW t \in Threads, Commit(t)
    PROVE  PoolInv'
<1> DEFINE c == Step(call[t])
<1>1. /\ Typed /\ LocksPlaced /\ call[t] \in CallRow /\ Placed(call[t]) /\ Busy(t)
      /\ Op(call[t]) = "commit" /\ call[t].kind \in Kinds /\ Conserved
      /\ PermissionsTyped /\ CacheFollows
  BY Now, AtIsOp DEF PoolInv, Commit, At
<1>2. /\ call' = [call EXCEPT ![t] = c] /\ UNCHANGED <<pool, cache, loaded>>
      /\ locked' = Unlocked(t)
  BY DEF Commit
<1>3. Moved(t, c)
  BY <1>1, <1>2, StepMoves
<1>4. LocksMoved(t, c)
  BY <1>1, <1>2, LocksGo
<1>5. Op(c) \notin {"empty", "fill"} /\ (call[t].kind = "patch_permission" => Op(c) = "forget")
  BY <1>1, Steps
<1> HIDE DEF c
<1>6. Typed' /\ Conserved' /\ LocksPlaced'
  BY <1>1, <1>3, <1>4, ResourcesKept
<1>7. /\ call'[t] = c /\ \A u \in Threads \ {t} : call'[u] = call[u]
  BY <1>2, <1>1 DEF Typed
<1>8. \A u \in Threads : InLoad(call'[u]) => InLoad(call[u]) /\ call'[u] = call[u]
  BY <1>5, <1>7 DEF InLoad
<1>9. CASE call[t].kind = "patch_permission"
  <2>1. PICK g \in Grants : matrix' \in {matrix \cup {g}, matrix \ {g}}
    BY <1>9 DEF Commit
  <2>2. mixed' = (mixed \/ \E u \in Threads : Loading(u))
    BY <1>9 DEF Commit
  <2>3. PermissionsTyped'
    <3>1. mixed' \in BOOLEAN
      BY <2>2, Zenon
    <3> QED
      BY <1>1, <1>2, <2>1, <3>1 DEF PermissionsTyped
  <2>4. mixed' = FALSE => \A u \in Threads : ~InLoad(call[u])
    BY <2>2, LoadingIsInLoad, Zenon
  <2>5. mixed' = FALSE => \A u \in Threads : ~InLoad(call'[u])
    BY <1>8, <2>4
  <2>6. Op(call'[t]) = "forget"
    BY <1>5, <1>7, <1>9
  <2>7. CacheFollows'
    BY <2>5, <2>6 DEF CacheFollows, InLoad
  <2> QED
    BY <1>6, <2>3, <2>7 DEF PoolInv
<1>10. CASE call[t].kind # "patch_permission"
  <2>1. matrix' = matrix /\ mixed' = mixed /\ cache' = cache /\ loaded' = loaded
    BY <1>2, <1>10 DEF Commit
  <2>2. PermissionsTyped'
    BY <1>1, <2>1 DEF PermissionsTyped
  <2>3. \A u \in Threads : /\ InLoad(call[u]) => InLoad(call'[u])
                           /\ Op(call[u]) = "forget" => Op(call'[u]) = "forget"
    BY <1>1, <1>7 DEF InLoad
  <2>4. CacheFollows'
    BY <1>1, <1>8, <2>1, <2>3, Zenon DEF CacheFollows, InLoad
  <2> QED
    BY <1>6, <2>2, <2>4 DEF PoolInv
<1> QED
  BY <1>9, <1>10

LEMMA ForgetKeeps ==
    ASSUME PoolInv, NEW t \in Threads, Forget(t)
    PROVE  PoolInv'
<1> DEFINE c == Step(call[t])
<1>1. /\ Typed /\ LocksPlaced /\ call[t] \in CallRow /\ Placed(call[t]) /\ Busy(t)
      /\ Op(call[t]) = "forget" /\ call[t].kind \in Kinds /\ Conserved
      /\ PermissionsTyped /\ CacheFollows
  BY Now, AtIsOp DEF PoolInv, Forget, At
<1>2. /\ call' = [call EXCEPT ![t] = c] /\ UNCHANGED <<pool, locked, matrix, cache, mixed>>
      /\ loaded' = FALSE
  BY DEF Forget
<1>3. Moved(t, c)
  BY <1>1, <1>2, StepMoves
<1>4. LocksMoved(t, c)
  BY <1>1, <1>2, LocksStay
<1>5. Op(c) \notin {"empty", "fill"}
  BY <1>1, Steps
<1> HIDE DEF c
<1>6. Typed' /\ Conserved' /\ LocksPlaced'
  BY <1>1, <1>3, <1>4, ResourcesKept
<1>7. PermissionsTyped'
  BY <1>1, <1>2 DEF PermissionsTyped
<1>8. /\ call'[t] = c /\ \A u \in Threads \ {t} : call'[u] = call[u]
  BY <1>2, <1>1 DEF Typed
<1>9. \A u \in Threads : InLoad(call'[u]) => InLoad(call[u]) /\ call'[u] = call[u]
  BY <1>5, <1>8 DEF InLoad
<1>10. CacheFollows'
  BY <1>1, <1>2, <1>9 DEF CacheFollows, InLoad
<1> QED
  BY <1>6, <1>7, <1>10 DEF PoolInv

\* A load that begins when none is under way knows the whole table.
LEMMA ReadRowsKeeps ==
    ASSUME PoolInv, NEW t \in Threads, ReadRows(t)
    PROVE  PoolInv'
<1> DEFINE e == [call[t] EXCEPT !.rows = matrix]
           c == Step(e)
<1>1. /\ Typed /\ LocksPlaced /\ call[t] \in CallRow /\ Placed(call[t]) /\ Busy(t)
      /\ Op(call[t]) = "read_rows" /\ call[t].kind \in Kinds /\ Conserved
      /\ PermissionsTyped /\ CacheFollows
      /\ free \in Nat /\ broken \in Nat
  BY Now, AtIsOp DEF PoolInv, ReadRows, At
<1>2. /\ call' = [call EXCEPT ![t] = c] /\ UNCHANGED <<pool, locked, matrix, cache, loaded>>
      /\ mixed' = (mixed \/ \E u \in Threads : Loading(u))
  BY DEF ReadRows
<1>3. /\ e \in CallRow /\ e.kind = call[t].kind /\ e.pc = call[t].pc
      /\ e.held = call[t].held /\ e.rows = matrix
  BY <1>1 DEF CallRow, PermissionsTyped
<1>4. Placed(e) /\ Op(e) = "read_rows" /\ e.kind \in Kinds
  BY <1>1, <1>3 DEF Placed, Op
<1> HIDE DEF e
<1>5. /\ c \in CallRow /\ Placed(c) /\ c.held = call[t].held
      /\ Op(c) \notin {"fill", "forget"}
      /\ Op(c) = "empty" => c.rows = matrix
  <2>1. /\ c \in CallRow /\ Placed(c) /\ c.held = e.held /\ Op(c) \notin {"fill", "forget"}
        /\ Op(c) # "none" => c = [e EXCEPT !.pc = e.pc + 1]
    BY <1>3, <1>4, Steps
  <2> QED
    BY <1>3, <2>1 DEF CallRow
<1> HIDE DEF c
<1>6. Moved(t, c)
  BY <1>1, <1>2, <1>5 DEF Moved, pool, CallRow
<1>7. LocksMoved(t, c)
  BY <1>1, <1>2, LocksStay
<1>8. Typed' /\ Conserved' /\ LocksPlaced'
  BY <1>1, <1>6, <1>7, ResourcesKept
<1>9. PermissionsTyped'
  <2>1. mixed' \in BOOLEAN
    BY <1>2, Zenon
  <2> QED
    BY <1>1, <1>2, <2>1 DEF PermissionsTyped
<1>10. /\ call'[t] = c /\ \A u \in Threads \ {t} : call'[u] = call[u]
  BY <1>2, <1>1 DEF Typed
<1>11. mixed' = FALSE => mixed = FALSE /\ \A u \in Threads : ~InLoad(call[u])
  <2>1. mixed' = FALSE => ~mixed /\ \A u \in Threads : ~InLoad(call[u])
    BY <1>2, LoadingIsInLoad, Zenon
  <2> QED
    BY <1>1, <2>1 DEF PermissionsTyped
<1>12. CacheFollows'
  <2> SUFFICES ASSUME mixed' = FALSE
               PROVE  /\ \A u, v \in Threads : InLoad(call'[u]) /\ InLoad(call'[v]) => u = v
                      /\ \A u \in Threads :
                             /\ Op(call'[u]) = "empty" => call'[u].rows = matrix
                             /\ Op(call'[u]) = "fill" => cache \cup call'[u].rows = matrix
                      /\ loaded = TRUE
                           /\ (\A u \in Threads : ~InLoad(call'[u]) /\ Op(call'[u]) # "forget")
                             => cache = matrix
    BY <1>2 DEF CacheFollows, InLoad
  <2>1. \A u \in Threads : ~InLoad(call[u])
    BY <1>11
  <2>2. \A u \in Threads : InLoad(call'[u]) => u = t
    BY <1>10, <2>1
  <2>3. \A u \in Threads : /\ Op(call'[u]) = "empty" => call'[u].rows = matrix
                           /\ Op(call'[u]) # "fill"
    BY <1>5, <1>10, <2>1 DEF InLoad
  <2>4. (\A u \in Threads : Op(call'[u]) # "forget")
           => \A u \in Threads : Op(call[u]) # "forget"
    BY <1>1, <1>10
  <2>5. mixed = FALSE /\ CacheFollows
    BY <1>1, <1>11
  <2> QED
    BY <2>1, <2>2, <2>3, <2>4, <2>5 DEF CacheFollows
<1> QED
  BY <1>8, <1>9, <1>12 DEF PoolInv

LEMMA EmptyKeeps ==
    ASSUME PoolInv, NEW t \in Threads, Empty(t)
    PROVE  PoolInv'
<1> DEFINE c == Step(call[t])
<1>1. /\ Typed /\ LocksPlaced /\ call[t] \in CallRow /\ Placed(call[t]) /\ Busy(t)
      /\ Op(call[t]) = "empty" /\ call[t].kind \in Kinds /\ Conserved
      /\ PermissionsTyped /\ CacheFollows
  BY Now, AtIsOp DEF PoolInv, Empty, At
<1>2. /\ call' = [call EXCEPT ![t] = c] /\ cache' = {}
      /\ UNCHANGED <<pool, locked, matrix, loaded, mixed>>
  BY DEF Empty
<1>3. Moved(t, c)
  BY <1>1, <1>2, StepMoves
<1>4. LocksMoved(t, c)
  BY <1>1, <1>2, LocksStay
<1>5. Op(c) = "fill" /\ c.rows = call[t].rows
  <2>1. Op(c) = "fill" /\ c = [call[t] EXCEPT !.pc = call[t].pc + 1]
    BY <1>1, Steps
  <2> QED
    BY <1>1, <2>1 DEF CallRow
<1> HIDE DEF c
<1>6. Typed' /\ Conserved' /\ LocksPlaced'
  BY <1>1, <1>3, <1>4, ResourcesKept
<1>7. PermissionsTyped'
  BY <1>1, <1>2 DEF PermissionsTyped
<1>8. /\ call'[t] = c /\ \A u \in Threads \ {t} : call'[u] = call[u]
  BY <1>2, <1>1 DEF Typed
<1>9. CacheFollows'
  <2> SUFFICES ASSUME mixed = FALSE
               PROVE  CacheFollows'
    BY <1>2 DEF CacheFollows
  <2>1. \A u \in Threads : InLoad(call[u]) => u = t
    BY <1>1 DEF CacheFollows, InLoad
  <2>2. \A u \in Threads : InLoad(call'[u]) => u = t
    BY <1>8, <2>1
  <2>3. InLoad(call'[t]) /\ Op(call'[t]) = "fill" /\ call'[t].rows = matrix
    BY <1>1, <1>5, <1>8 DEF CacheFollows, InLoad
  <2> QED
    BY <1>2, <2>2, <2>3 DEF CacheFollows, InLoad
<1> QED
  BY <1>6, <1>7, <1>9 DEF PoolInv

\* A row added, or the load over: then the cache is the table.
LEMMA FillKeeps ==
    ASSUME PoolInv, NEW t \in Threads, Fill(t)
    PROVE  PoolInv'
<1>1. /\ Typed /\ LocksPlaced /\ call[t] \in CallRow /\ Placed(call[t]) /\ Busy(t)
      /\ Op(call[t]) = "fill" /\ call[t].kind \in Kinds /\ Conserved
      /\ PermissionsTyped /\ CacheFollows
      /\ free \in Nat /\ broken \in Nat
  BY Now, AtIsOp DEF PoolInv, Fill, At
<1>2. UNCHANGED <<pool, locked, matrix, mixed>>
  BY DEF Fill
<1>3. mixed = FALSE => \A u \in Threads : InLoad(call[u]) => u = t
  BY <1>1 DEF CacheFollows, InLoad
<1>4. mixed = FALSE => cache \cup call[t].rows = matrix
  BY <1>1 DEF CacheFollows
<1>5. CASE call[t].rows # {}
  <2>1. PICK g \in call[t].rows :
            cache' = cache \cup {g} /\ call' = [call EXCEPT ![t].rows = @ \ {g}]
    BY <1>5 DEF Fill
  <2> DEFINE c == [call[t] EXCEPT !.rows = @ \ {g}]
  <2>2. /\ c \in CallRow /\ c.kind = call[t].kind /\ c.pc = call[t].pc
        /\ c.held = call[t].held /\ c.rows = call[t].rows \ {g} /\ g \in Grants
    BY <1>1 DEF CallRow
  <2>3. Placed(c) /\ Op(c) = "fill"
    BY <1>1, <2>2 DEF Placed, Op
  <2>4. call' = [call EXCEPT ![t] = c]
    BY <2>1
  <2> HIDE DEF c
  <2>5. Moved(t, c)
    BY <1>1, <1>2, <2>2, <2>3, <2>4 DEF Moved, pool, CallRow
  <2>6. LocksMoved(t, c)
    BY <1>1, <1>2, LocksStay
  <2>7. Typed' /\ Conserved' /\ LocksPlaced'
    BY <1>1, <2>5, <2>6, ResourcesKept
  <2>8. loaded' = loaded
    BY <1>5 DEF Fill
  <2>9. PermissionsTyped'
    BY <1>1, <1>2, <2>1, <2>2, <2>8 DEF PermissionsTyped
  <2>10. /\ call'[t] = c /\ \A u \in Threads \ {t} : call'[u] = call[u]
    BY <1>1, <2>4 DEF Typed
  <2>11. mixed = FALSE => /\ cache' \cup call'[t].rows = matrix
                          /\ \A u \in Threads : InLoad(call'[u]) => u = t
    BY <1>3, <1>4, <2>1, <2>2, <2>10
  <2>12. InLoad(call'[t]) /\ Op(call'[t]) = "fill"
    BY <2>3, <2>10 DEF InLoad
  <2>13. CacheFollows'
    BY <1>2, <2>11, <2>12 DEF CacheFollows, InLoad
  <2> QED
    BY <2>7, <2>9, <2>13 DEF PoolInv
<1>6. CASE call[t].rows = {}
  <2> DEFINE c == Step(call[t])
  <2>1. loaded' = TRUE /\ call' = [call EXCEPT ![t] = c] /\ cache' = cache
    BY <1>6 DEF Fill
  <2>2. Moved(t, c)
    BY <1>1, <1>2, <2>1, StepMoves
  <2>3. Op(c) \notin {"empty", "fill"}
    BY <1>1, Steps
  <2> HIDE DEF c
  <2>4. LocksMoved(t, c)
    BY <1>1, <1>2, LocksStay
  <2>5. Typed' /\ Conserved' /\ LocksPlaced'
    BY <1>1, <2>2, <2>4, ResourcesKept
  <2>6. PermissionsTyped'
    BY <1>1, <1>2, <2>1 DEF PermissionsTyped
  <2>7. /\ call'[t] = c /\ \A u \in Threads \ {t} : call'[u] = call[u]
    BY <1>1, <2>1 DEF Typed
  <2>8. mixed = FALSE => cache = matrix /\ \A u \in Threads : ~InLoad(call'[u])
    BY <1>3, <1>4, <1>6, <2>3, <2>7 DEF InLoad
  <2>9. CacheFollows'
    BY <1>2, <2>1, <2>8 DEF CacheFollows, InLoad
  <2> QED
    BY <2>5, <2>6, <2>9 DEF PoolInv
<1> QED
  BY <1>5, <1>6

------------------------------------------------------------------------------
(* The theorems *)

LEMMA PoolStepInv == PoolInv /\ [PoolNext]_pvars => PoolInv'
<1> SUFFICES ASSUME PoolInv, [PoolNext]_pvars
             PROVE  PoolInv'
  OBVIOUS
<1>1. ASSUME NEW t \in Threads, NEW kind \in Served, Begin(t, kind)
      PROVE  PoolInv'
  BY <1>1, BeginKeeps
<1>2. ASSUME NEW t \in Threads, Works(t)
      PROVE  PoolInv'
  BY <1>2, TakeKeeps, GiveKeeps, ReadKeeps, LockKeeps, CommitKeeps, ForgetKeeps, AskKeeps,
     ReadRowsKeeps, EmptyKeeps, FillKeeps, FailuresKeep, LoadRefusedKeeps DEF Works
<1>3. ASSUME NEW t \in Threads,
             \/ Timeout(t) \/ CallFails(t) \/ LoadFails(t) \/ BreakLoad(t)
             \/ \E n \in 1 .. call[t].held : Break(t, n)
      PROVE  PoolInv'
  BY <1>3, FailuresKeep, LoadFailsKeeps, BreakLoadKeeps
<1>4. CASE UNCHANGED pvars
  BY <1>4 DEF pvars, PoolInv, Typed, Conserved, Given, LocksPlaced, PermissionsTyped,
              CacheFollows, InLoad
<1> QED
  BY <1>1, <1>2, <1>3, <1>4 DEF PoolNext

LEMMA TypesFollow == PoolInv => PoolTypeOK
<1> SUFFICES ASSUME PoolInv PROVE PoolTypeOK
  OBVIOUS
<1>1. Typed /\ Conserved /\ PermissionsTyped
  BY DEF PoolInv
<1>2. free \in 0 .. MaxConn /\ broken \in 0 .. MaxConn
  <2>1. Threads = {} => Given(call) = {}
    BY DEF Given
  <2>2. Cardinality(Given(call)) \in Nat
    <3>1. CASE Threads = {}
      BY <2>1, <3>1, FS_EmptySet
    <3>2. ASSUME NEW t \in Threads
          PROVE  Cardinality(Given(call)) \in Nat
      BY <1>1, GivenSplit, FS_CardinalityType DEF Typed
    <3> QED
      BY <3>1, <3>2
  <2>3. MaxConn \in Nat
    BY ResourcesAssumption
  <2> QED
    BY <1>1, <2>2, <2>3 DEF Typed, Conserved
<1>3. ASSUME NEW t \in Threads
      PROVE  /\ call[t].kind \in DOMAIN Script \cup {"none"}
             /\ Busy(t) => call[t].pc \in DOMAIN Script[call[t].kind]
             /\ call[t].held \in 0 .. 2 /\ call[t].rows \subseteq Grants
  BY <1>1, Now, KindsOfScripts DEF CallRow, Busy, Placed
<1> QED
  BY <1>1, <1>2, <1>3 DEF PoolTypeOK, Typed, PermissionsTyped

LEMMA PoolFollows == PoolInv => PoolConserved
<1> SUFFICES ASSUME PoolInv PROVE PoolConserved
  OBVIOUS
<1>1. free + broken
          + Cardinality({p \in Threads \X (1 .. 2) : p[2] <= call[p[1]].held}) = MaxConn
  BY DEF PoolInv, Conserved, Given
<1>2. ASSUME NEW t \in Threads, ~Busy(t)
      PROVE  call[t].held = 0 /\ \A r \in Lockable : locked[r] # t
  BY <1>2, Now DEF PoolInv, Busy, Placed, Op, LocksPlaced
<1> QED
  BY <1>1, <1>2 DEF PoolConserved

LEMMA CacheIsRight == PoolInv => CacheSettled
<1> SUFFICES ASSUME PoolInv, mixed = FALSE, loaded = TRUE,
                    \A t \in Threads : ~Loading(t) /\ ~At(t, "forget")
             PROVE  cache = matrix
  BY DEF CacheSettled, PoolInv, PermissionsTyped
<1>1. \A t \in Threads : ~InLoad(call[t])
  BY LoadingIsInLoad
<1>2. ASSUME NEW t \in Threads
      PROVE  Op(call[t]) # "forget"
  BY DEF Op, OpAt, At, Busy, Element
<1> QED
  BY <1>1, <1>2 DEF PoolInv, CacheFollows

\* Every variable keeps its type, a call its place in its script.
THEOREM PoolTyped == PoolSpec => []PoolTypeOK
<1>1. PoolInit => PoolInv
  BY PoolInitInv
<1>2. PoolInv /\ [PoolNext]_pvars => PoolInv'
  BY PoolStepInv
<1>3. PoolInv => PoolTypeOK
  BY TypesFollow
<1> QED
  BY <1>1, <1>2, <1>3, PTL DEF PoolSpec

\* The pool of api/db.py gives each connection back once: those that are free, given to
\* calls or broken off are DB_POOL_MAX, and a call that has ended holds nothing, however
\* many threads there are and wherever each fails.
THEOREM ConnectionsConserved == PoolSpec => []PoolConserved
<1>1. PoolInit => PoolInv
  BY PoolInitInv
<1>2. PoolInv /\ [PoolNext]_pvars => PoolInv'
  BY PoolStepInv
<1>3. PoolInv => PoolConserved
  BY PoolFollows
<1> QED
  BY <1>1, <1>2, <1>3, PTL DEF PoolSpec

\* The permission cache is the table whenever it says it is loaded and no load or reload
\* is under way, unless two loads have met or a permission has changed during one.
THEOREM CacheFollowsTable == PoolSpec => []CacheSettled
<1>1. PoolInit => PoolInv
  BY PoolInitInv
<1>2. PoolInv /\ [PoolNext]_pvars => PoolInv'
  BY PoolStepInv
<1>3. PoolInv => CacheSettled
  BY CacheIsRight
<1> QED
  BY <1>1, <1>2, <1>3, PTL DEF PoolSpec

(***************************************************************************)
(* ActionLog                                                               *)
(***************************************************************************)

(* Sums over finite sets *)

LEMMA Least ==
    ASSUME NEW B \in SUBSET Nat, B # {}
    PROVE  \E n \in B : \A m \in B : n <= m
<1> DEFINE R == {ss \in Nat \X Nat : ss[1] < ss[2]}
<1>1. IsWellFoundedOn(R, Nat)
  BY NatLessThanWellFounded DEF OpToRel
<1> HIDE DEF R
<1>2. PICK n \in B : \A m \in B : <<m, n>> \notin R
  BY <1>1, WFMin
<1>3. ASSUME NEW m \in B PROVE n <= m
  <2>1. <<m, n>> \in Nat \X Nat /\ <<m, n>>[1] = m /\ <<m, n>>[2] = n
    OBVIOUS
  <2> QED BY <1>2, <2>1 DEF R
<1> QED BY <1>3

LEMMA Counting ==
    ASSUME NEW P \in SUBSET Nat, 0 \in P, \A n \in P : n + 1 \in P
    PROVE  P = Nat
<1>1. ASSUME Nat \ P # {} PROVE FALSE
  <2>1. PICK n \in Nat \ P : \A m \in Nat \ P : n <= m
    BY <1>1, Least
  <2>2. n - 1 \in Nat /\ n - 1 + 1 = n /\ ~ (n <= n - 1)
    <3>1. n # 0
      OBVIOUS
    <3> QED BY <3>1
  <2> QED BY <2>1, <2>2
<1> QED BY <1>1

\* Whatever holds of a subset as soon as it holds of it without any one element
LEMMA SubsetsOf ==
    ASSUME NEW S, IsFiniteSet(S), NEW Good \in SUBSET SUBSET S,
           \A t \in SUBSET S : (\A x \in t : t \ {x} \in Good) => t \in Good
    PROVE  Good = SUBSET S
<1> DEFINE P == {n \in Nat : \A t \in SUBSET S : Cardinality(t) <= n => t \in Good}
<1>0. \A t \in SUBSET S : /\ IsFiniteSet(t) /\ Cardinality(t) \in Nat
                          /\ \A x \in t : Cardinality(t \ {x}) = Cardinality(t) - 1
  BY FS_Subset, FS_CardinalityType, FS_RemoveElement
<1>1. 0 \in P
  <2>1. ASSUME NEW t \in SUBSET S, Cardinality(t) <= 0 PROVE t \in Good
    <3>1. t = {}
      BY <1>0, <2>1, FS_EmptySet
    <3> QED BY <3>1
  <2> QED BY <2>1
<1>2. ASSUME NEW n \in P PROVE n + 1 \in P
  <2>1. ASSUME NEW t \in SUBSET S, Cardinality(t) <= n + 1 PROVE t \in Good
    <3>1. ASSUME NEW x \in t PROVE t \ {x} \in Good
      BY <1>0, <2>1
    <3> QED BY <3>1
  <2> QED BY <2>1
<1> HIDE DEF P
<1>3. P = Nat
  <2>1. P \in SUBSET Nat
    BY DEF P
  <2> QED BY <1>1, <1>2, <2>1, Counting
<1>4. ASSUME NEW t \in SUBSET S PROVE t \in Good
  BY <1>0, <1>3 DEF P
<1> QED BY <1>4

AnyOf(s) == CHOOSE x \in s : TRUE

\* The function by which the sum is defined
Adds(f, S, g) ==
    g = [s \in SUBSET S |-> IF s = {} THEN 0 ELSE f[AnyOf(s)] + g[s \ {AnyOf(s)}]]

LEMMA SumIs ==
    ASSUME NEW f, NEW S
    PROVE  SumFunctionOnSet(f, S) = (CHOOSE g : Adds(f, S, g))[S]
BY DEF SumFunctionOnSet, FoldFunctionOnSet, MapThenFoldSet, Adds, AnyOf

Numbers(f, S) == \A x \in S : f[x] \in Nat

\* It exists: right for the sets of n elements at most, n by n.
LEMMA SumExists ==
    ASSUME NEW f, NEW S, IsFiniteSet(S), Numbers(f, S)
    PROVE  \E g : Adds(f, S, g)
<1> DEFINE Right(g, s) == IF s = {} THEN 0 ELSE f[AnyOf(s)] + g[s \ {AnyOf(s)}]
           Upto(g, n) == \A s \in SUBSET S : Cardinality(s) <= n => g[s] = Right(g, s)
           P == {n \in Nat : \E g \in [SUBSET S -> Nat] : Upto(g, n)}
<1>0. \A s \in SUBSET S : /\ IsFiniteSet(s) /\ Cardinality(s) \in Nat
                          /\ s # {} => /\ AnyOf(s) \in s
                                       /\ Cardinality(s \ {AnyOf(s)}) = Cardinality(s) - 1
                          /\ Cardinality(s) = 0 => s = {}
  <2>1. \A s \in SUBSET S : s # {} => AnyOf(s) \in s
    BY DEF AnyOf
  <2> QED BY <2>1, FS_Subset, FS_CardinalityType, FS_RemoveElement, FS_EmptySet
<1>1. 0 \in P
  <2> DEFINE g == [s \in SUBSET S |-> 0]
  <2>1. g \in [SUBSET S -> Nat]
    OBVIOUS
  <2>2. ASSUME NEW s \in SUBSET S, Cardinality(s) <= 0 PROVE g[s] = Right(g, s)
    <3>1. Cardinality(s) \in Nat /\ (Cardinality(s) = 0 => s = {})
      BY <1>0
    <3> HIDE DEF g
    <3>2. s = {}
      BY <2>2, <3>1
    <3> USE DEF g
    <3> QED BY <3>2
  <2> QED BY <2>1, <2>2
<1>2. ASSUME NEW n \in P PROVE n + 1 \in P
  <2>1. PICK g \in [SUBSET S -> Nat] : Upto(g, n)
    OBVIOUS
  <2> DEFINE h == [s \in SUBSET S |-> IF Cardinality(s) <= n THEN g[s] ELSE Right(g, s)]
  <2>2. h \in [SUBSET S -> Nat]
    <3>1. ASSUME NEW s \in SUBSET S PROVE Right(g, s) \in Nat
      <4>1. CASE s = {}
        BY <4>1
      <4>2. CASE s # {}
        <5>1. AnyOf(s) \in S
          BY <1>0, <4>2
        <5>2. f[AnyOf(s)] \in Nat /\ g[s \ {AnyOf(s)}] \in Nat
          BY <5>1 DEF Numbers
        <5> QED BY <4>2, <5>2
      <4> QED BY <4>1, <4>2
    <3> HIDE DEF Right
    <3> QED BY <3>1
  <2>3. ASSUME NEW s \in SUBSET S, Cardinality(s) <= n + 1 PROVE h[s] = Right(h, s)
    <3>1. h[s] = Right(g, s)
      BY <2>1
    <3>2. s # {} => h[s \ {AnyOf(s)}] = g[s \ {AnyOf(s)}]
      BY <1>0, <2>3
    <3> HIDE DEF h
    <3> QED BY <3>1, <3>2
  <2> HIDE DEF h
  <2>4. Upto(h, n + 1)
    BY <2>3
  <2>5. n + 1 \in Nat
    OBVIOUS
  <2> HIDE DEF Upto, Right
  <2> QED BY <2>2, <2>4, <2>5
<1>3. P = Nat
  <2>1. P \in SUBSET Nat
    OBVIOUS
  <2> HIDE DEF P
  <2> QED BY <1>1, <1>2, <2>1, Counting
<1>4. Cardinality(S) \in P
  BY <1>3, FS_CardinalityType
<1>5. PICK g \in [SUBSET S -> Nat] : Upto(g, Cardinality(S))
  BY <1>4
<1>6. ASSUME NEW s \in SUBSET S PROVE g[s] = Right(g, s)
  BY <1>5, FS_Subset
<1>7. g = [s \in SUBSET S |-> Right(g, s)]
  BY <1>6
<1> QED BY <1>7 DEF Adds

\* It is the only one, on the subsets on which the functions agree.
LEMMA SumUnique ==
    ASSUME NEW f, NEW S, IsFiniteSet(S), NEW g, Adds(f, S, g), Numbers(f, S),
           NEW e, NEW T \in SUBSET S, NEW h, Adds(e, T, h), \A x \in T : e[x] = f[x]
    PROVE  \A t \in SUBSET T : g[t] = h[t] /\ g[t] \in Nat
<1> DEFINE Good == {t \in SUBSET T : g[t] = h[t] /\ g[t] \in Nat}
<1>1. ASSUME NEW t \in SUBSET T, \A x \in t : t \ {x} \in Good PROVE t \in Good
  <2>1. /\ g[t] = IF t = {} THEN 0 ELSE f[AnyOf(t)] + g[t \ {AnyOf(t)}]
        /\ h[t] = IF t = {} THEN 0 ELSE e[AnyOf(t)] + h[t \ {AnyOf(t)}]
    BY DEF Adds
  <2>2. CASE t = {}
    BY <2>1, <2>2
  <2>3. CASE t # {}
    <3>1. AnyOf(t) \in t
      BY <2>3 DEF AnyOf
    <3>2. t \ {AnyOf(t)} \in Good
      BY <1>1, <3>1
    <3> QED BY <2>1, <2>3, <3>1, <3>2 DEF Numbers
  <2> QED BY <2>2, <2>3
<1>2. Good \in SUBSET SUBSET T /\ IsFiniteSet(T)
  BY FS_Subset
<1> HIDE DEF Good
<1>3. Good = SUBSET T
  BY <1>1, <1>2, SubsetsOf
<1> QED BY <1>3 DEF Good

\* The sum over S, as that function gives it for any of its subsets
LEMMA SumOn ==
    ASSUME NEW f, NEW S, IsFiniteSet(S), Numbers(f, S)
    PROVE  \E g : /\ Adds(f, S, g)
                  /\ \A t \in SUBSET S : SumFunctionOnSet(f, t) = g[t] /\ g[t] \in Nat
<1>1. PICK g : Adds(f, S, g)
  BY SumExists
<1>2. ASSUME NEW t \in SUBSET S PROVE SumFunctionOnSet(f, t) = g[t] /\ g[t] \in Nat
  <2>1. IsFiniteSet(t) /\ Numbers(f, t)
    BY FS_Subset DEF Numbers
  <2> DEFINE h == CHOOSE h : Adds(f, t, h)
  <2>2. Adds(f, t, h)
    BY <2>1, SumExists
  <2>3. SumFunctionOnSet(f, t) = h[t]
    BY SumIs
  <2> HIDE DEF h
  <2> QED BY <1>1, <2>2, <2>3, SumUnique
<1> QED BY <1>1, <1>2

LEMMA SumType ==
    ASSUME NEW f, NEW S, IsFiniteSet(S), Numbers(f, S)
    PROVE  SumFunctionOnSet(f, S) \in Nat
BY SumOn

\* Any element may be taken out, not only the one the definition takes.
LEMMA SumTakeOut ==
    ASSUME NEW f, NEW S, IsFiniteSet(S), Numbers(f, S), NEW y \in S
    PROVE  /\ SumFunctionOnSet(f, S) = f[y] + SumFunctionOnSet(f, S \ {y})
           /\ SumFunctionOnSet(f, S \ {y}) \in Nat
<1>1. PICK g : /\ Adds(f, S, g)
               /\ \A t \in SUBSET S : SumFunctionOnSet(f, t) = g[t] /\ g[t] \in Nat
  BY SumOn
<1> DEFINE Good == {t \in SUBSET S : \A x \in t : g[t] = f[x] + g[t \ {x}]}
<1>2. ASSUME NEW t \in SUBSET S, \A x \in t : t \ {x} \in Good PROVE t \in Good
  <2> SUFFICES ASSUME NEW x \in t PROVE g[t] = f[x] + g[t \ {x}]
    OBVIOUS
  <2> DEFINE z == AnyOf(t)
  <2>1. z \in t
    BY DEF AnyOf
  <2>2. g[t] = f[z] + g[t \ {z}]
    BY <1>1 DEF Adds
  <2> HIDE DEF z
  <2>3. CASE x = z
    BY <2>2, <2>3
  <2>4. CASE x # z
    <3>1. g[t \ {z}] = f[x] + g[(t \ {z}) \ {x}]
      BY <1>2, <2>1, <2>4
    <3>2. g[t \ {x}] = f[z] + g[(t \ {x}) \ {z}]
      BY <1>2, <2>1, <2>4
    <3>3. (t \ {z}) \ {x} = (t \ {x}) \ {z}
      OBVIOUS
    <3>4. f[x] \in Nat /\ f[z] \in Nat /\ g[(t \ {x}) \ {z}] \in Nat
      BY <1>1, <2>1 DEF Numbers
    <3> HIDE DEF Good
    <3> DEFINE a == f[x]
               b == f[z]
               c == g[(t \ {x}) \ {z}]
    <3>5. a \in Nat /\ b \in Nat /\ c \in Nat
      BY <3>4
    <3>6. g[t] = b + (a + c) /\ g[t \ {x}] = b + c
      BY <2>2, <3>1, <3>2, <3>3
    <3> HIDE DEF a, b, c
    <3>7. g[t] = a + g[t \ {x}]
      BY <3>5, <3>6
    <3> QED BY <3>7 DEF a
  <2> QED BY <2>3, <2>4
<1>3. Good \in SUBSET SUBSET S
  OBVIOUS
<1> HIDE DEF Good
<1>4. Good = SUBSET S
  BY <1>2, <1>3, SubsetsOf
<1>5. g[S] = f[y] + g[S \ {y}]
  BY <1>4 DEF Good
<1> QED BY <1>1, <1>5

LEMMA SumSame ==
    ASSUME NEW f, NEW S, IsFiniteSet(S), Numbers(f, S), NEW e, \A x \in S : e[x] = f[x]
    PROVE  SumFunctionOnSet(e, S) = SumFunctionOnSet(f, S)
<1>1. PICK g : Adds(f, S, g) /\ \A t \in SUBSET S : SumFunctionOnSet(f, t) = g[t]
  BY SumOn
<1>2. PICK h : Adds(e, S, h) /\ \A t \in SUBSET S : SumFunctionOnSet(e, t) = h[t]
  BY SumOn DEF Numbers
<1>3. g[S] = h[S]
  BY <1>1, <1>2, SumUnique
<1> QED BY <1>1, <1>2, <1>3

LEMMA SumNone ==
    ASSUME NEW f
    PROVE  SumFunctionOnSet(f, {}) = 0
<1>1. IsFiniteSet({}) /\ Numbers(f, {})
  BY FS_EmptySet DEF Numbers
<1>2. PICK g : Adds(f, {}, g) /\ \A t \in SUBSET {} : SumFunctionOnSet(f, t) = g[t]
  BY <1>1, SumOn
<1>3. g[{}] = 0
  BY <1>2 DEF Adds
<1> QED BY <1>2, <1>3

----------------------------------------------------------------------------
(* The rows the triggers accept *)

Timed(r) ==
    /\ r.time > 0
    /\ r.start # None /\ r.end # None => r.time = r.end - r.start

\* A row as a statement gives it to the triggers
Submitted == [inter : Interventions, start : Clock \cup {None}, end : Clock \cup {None},
              time : (Clock \ {0}) \cup {None}, score : Scores, factor : Factors]

LEMMA ComputedFits ==
    ASSUME NEW o \in Submitted, NEW r \in Computed(o)
    PROVE  /\ r \in Row /\ Timed(r)
           /\ r.inter = o.inter /\ r.score = o.score /\ r.factor = o.factor
<1>1. CASE o.start # None /\ o.end # None
  <2>1. r = [o EXCEPT !.time = o.end - o.start] /\ o.start < o.end
    BY <1>1 DEF Computed
  <2>2. o.start \in Clock /\ o.end \in Clock
    BY <1>1 DEF Submitted
  <2>3. o.end - o.start \in Clock /\ o.end - o.start > 0
    BY <2>1, <2>2, LogAssumption DEF Clock
  <2>4. r \in Row
    BY <2>1, <2>3 DEF Row, Submitted
  <2>5. /\ r.inter = o.inter /\ r.start = o.start /\ r.end = o.end
        /\ r.time = o.end - o.start /\ r.score = o.score /\ r.factor = o.factor
    BY <2>1 DEF Submitted
  <2> QED BY <2>3, <2>4, <2>5 DEF Timed
<1>2. CASE ~(o.start # None /\ o.end # None)
  <2>1. r = o /\ o.time # None
    BY <1>2 DEF Computed
  <2>2. o.time \in Clock /\ o.time > 0
    BY <2>1, LogAssumption DEF Clock, Submitted
  <2>3. o \in Row
    BY <2>2 DEF Row, Submitted
  <2> QED BY <1>2, <2>1, <2>2, <2>3 DEF Timed
<1> QED BY <1>1, <1>2

LEMMA StoredFits ==
    ASSUME NEW r \in Row, Timed(r), NEW p \in Patch, NEW q \in Stored(r, p)
    PROVE  /\ q \in Row /\ Timed(q)
           /\ q.inter = r.inter
           /\ q.score = Or(p.score, r.score) /\ q.factor = Or(p.factor, r.factor)
<1> DEFINE o == Patched(r, p)
<1>1. r.time \in Clock \ {0}
  BY LogAssumption DEF Row, Timed, Clock
<1>2. /\ o.inter = r.inter
      /\ o.score = Or(p.score, r.score) /\ o.factor = Or(p.factor, r.factor)
  BY DEF Patched, Row
<1>3. o \in Submitted
  BY <1>1, ZenonT(60) DEF Patched, Or, Row, Patch, Submitted
<1>4. CASE Untimed(p)
  <2>1. q = o
    BY <1>4 DEF Stored
  <2>2. o.start = r.start /\ o.end = r.end /\ o.time = r.time
    BY <1>4 DEF Patched, Untimed, Or, Row
  <2> HIDE DEF o
  <2>3. o \in Row
    BY <1>1, <1>3, <2>2 DEF Submitted, Row
  <2> QED BY <1>2, <2>1, <2>2, <2>3 DEF Timed
<1>5. CASE ~Untimed(p)
  <2>1. q \in Computed(o)
    BY <1>5 DEF Stored
  <2> HIDE DEF o
  <2> QED BY <1>2, <1>3, <2>1, ComputedFits
<1> QED BY <1>4, <1>5

----------------------------------------------------------------------------
(* The inductive invariant *)

\* What the middleware keeps of a row
Trace == [Logged -> Scores \cup Factors \cup {None}]

JobStates ==
    {NoPatch}
    \cup [at : {"read"}, action : Actions, patch : Patch, old : Trace]
    \cup [at : {"write"}, action : Actions, patch : Patch, old : Trace, read : Trace]
    \cup [at : {"observe"}, action : Actions, old : Trace]
    \cup [at : {"log"}, action : Actions, old : Trace, new : Trace, fields : SUBSET Logged]

LogTyped ==
    /\ LogTypeOK
    /\ load \in DOMAIN Loads
    /\ born \in [Actions -> Trace \cup {None}]
    /\ work \in [Workers -> JobStates]

\* A PATCH is of a row, which nothing deletes, and so is a decision.
Exist ==
    /\ \A w \in Workers : work[w] # NoPatch => action[work[w].action] # None
    /\ \A n \in 1 .. Len(trail) : action[trail[n].action] # None

\* Unless it is torn, an action has one PATCH at a time,
Alone ==
    \A w, v \in Workers :
        (/\ work[w] # NoPatch /\ work[v] # NoPatch
         /\ work[w].action = work[v].action /\ work[w].action \notin torn) => w = v

\* which judges the row as it is.
ReadIsCurrent ==
    \A w \in Workers :
        work[w].at = "write" /\ work[w].action \notin torn
            => work[w].read = Traced(action[work[w].action])

Latest(a, f) == Replayed(a, f, Len(trail) + 1)

\* Every decision starts from what was said before it.
ChainHolds(a, f) ==
    \A n \in Decisions(a, f, Len(trail) + 1) : trail[n].old = Replayed(a, f, n)

\* What the log says of a field at each stage of a PATCH: the value of the row until
\* the row is written, then the value it had, until that field is logged.
AtStage(a, f, w) ==
    /\ work[w].at \in {"read", "write"} =>
          work[w].old = Traced(action[a]) /\ Latest(a, f) = Traced(action[a])[f]
    /\ work[w].at = "observe" => Latest(a, f) = work[w].old[f]
    /\ work[w].at = "log" =>
          /\ work[w].new = Traced(action[a])
          /\ f \in work[w].fields => Latest(a, f) = work[w].old[f]
          /\ f \notin work[w].fields => Latest(a, f) = Traced(action[a])[f]

Told(a, f) ==
    /\ ChainHolds(a, f)
    /\ PatchesOf(a) = {} => Latest(a, f) = Traced(action[a])[f]
    /\ \A w \in PatchesOf(a) : AtStage(a, f, w)

TrailTells ==
    \A a \in Actions, f \in Logged :
        action[a] # None /\ a \notin torn \cup gaps => Told(a, f)

LogInv ==
    /\ LogTyped /\ Exist
    /\ HoursAccounted
    /\ ComplexityExplained /\ Alone /\ ReadIsCurrent
    /\ TrailTells

----------------------------------------------------------------------------
(* What each step leaves as it is *)

\* The steps of a PATCH that write neither the row nor the log
Quiet(w) ==
    \/ \E a \in Actions, p \in Patch : Snapshot(w, a, p)
    \/ ReadAction(w) \/ RefusePatch(w) \/ LoseAnswer(w) \/ Observe(w)
    \/ \E f \in Logged : LogLost(w, f)
    \/ Answer(w)

LEMMA PatchSteps ==
    ASSUME LogTyped, LogNext
    PROVE  \/ \E a \in Actions, i \in Interventions, p \in Patch : Create(a, i, p)
           \/ \E w \in Workers : Quiet(w) \/ Write(w) \/ \E f \in Logged : Log(w, f)
           \/ \E i \in Interventions : CloseIntervention(i)
                                       \/ \E m \in Machines : MoveIntervention(i, m)
<1>1. Loads[load] \subseteq Patch
  BY LogAssumption DEF LogTyped
<1> QED BY <1>1 DEF LogNext, Quiet

LEMMA QuietKeeps ==
    ASSUME NEW w \in Workers, Quiet(w)
    PROVE  /\ UNCHANGED <<load, machineOf, closed, action, hours, trail, born, moved>>
           /\ torn \subseteq torn' /\ gaps \subseteq gaps'
BY DEF Quiet, Snapshot, ReadAction, RefusePatch, LoseAnswer, Observe, LogLost, Answer, Gapped

LEMMA TraceOf ==
    ASSUME NEW r \in Row
    PROVE  /\ Traced(r) \in Trace /\ Unread \in Trace
           /\ Traced(r).score = r.score /\ Traced(r).factor = r.factor
<1>1. \A f \in Logged : r[f] \in Scores \cup Factors
  BY DEF Logged, Row
<1>2. Unread \in Trace
  BY DEF Unread, Trace, Logged, Factors
<1> QED BY <1>1, <1>2 DEF Traced, Trace, Logged

\* The stages of a PATCH
LEMMA Stages ==
    ASSUME LogTyped, NEW w \in Workers, work[w] # NoPatch
    PROVE  /\ work[w].action \in Actions /\ work[w].old \in Trace
           /\ work[w].at \in {"read", "write", "observe", "log"}
           /\ work[w].at \in {"read", "write"} => work[w].patch \in Patch
           /\ work[w].at = "write" => work[w].read \in Trace
           /\ work[w].at = "log" =>
                 /\ work[w].new \in Trace /\ work[w].fields \subseteq Logged
                 /\ work[w] \in [at : {"log"}, action : Actions, old : Trace, new : Trace,
                                fields : SUBSET Logged]
BY DEF LogTyped, JobStates

LEMMA Busies ==
    ASSUME LogTyped, NEW w \in Workers
    PROVE  (work[w].at \in {"read", "write", "observe", "log"}) <=> work[w] # NoPatch
BY DEF LogTyped, JobStates, NoPatch

----------------------------------------------------------------------------
(* Types *)

LEMMA TypedQuiet ==
    ASSUME LogTyped, Exist, NEW w \in Workers, Quiet(w)
    PROVE  LogTyped'
<1>0. UNCHANGED <<load, machineOf, closed, action, hours, trail, born, moved>>
  BY QuietKeeps
<1> DEFINE Good == work' \in [Workers -> JobStates] /\ torn' \subseteq Actions
                   /\ gaps' \subseteq Actions
<1>1. ASSUME NEW a \in Actions, NEW p \in Patch, Snapshot(w, a, p) PROVE Good
  <2>1. Traced(action[a]) \in Trace /\ Unread \in Trace
    BY <1>1, TraceOf DEF Snapshot, LogTyped, LogTypeOK
  <2>2. PICK seen \in {Traced(action[a]), Unread} :
            /\ work' = [work EXCEPT ![w] =
                          [at |-> "read", action |-> a, patch |-> p, old |-> seen]]
            /\ gaps' = Gapped(a, seen)
    BY <1>1 DEF Snapshot
  <2>3. [at |-> "read", action |-> a, patch |-> p, old |-> seen] \in JobStates
    BY <2>1 DEF JobStates
  <2> QED BY <1>1, <2>2, <2>3 DEF Snapshot, Gapped, LogTyped, LogTypeOK
<1>2. ASSUME ReadAction(w) PROVE Good
  <2>1. work[w] # NoPatch
    BY <1>2 DEF ReadAction, NoPatch
  <2>2. Traced(action[work[w].action]) \in Trace
    BY <2>1, Stages, TraceOf DEF Exist, LogTyped, LogTypeOK
  <2>3. [at |-> "write", action |-> work[w].action, patch |-> work[w].patch,
         old |-> work[w].old, read |-> Traced(action[work[w].action])] \in JobStates
    BY <1>2, <2>1, <2>2, Stages DEF JobStates, ReadAction
  <2> QED BY <1>2, <2>3 DEF ReadAction, LogTyped, LogTypeOK
<1>3. ASSUME RefusePatch(w) \/ Answer(w) PROVE Good
  BY <1>3 DEF RefusePatch, Answer, LogTyped, LogTypeOK, JobStates
<1>4. ASSUME Observe(w) PROVE Good
  <2>1. work[w] # NoPatch
    BY <1>4 DEF Observe, NoPatch
  <2>2. work[w].action \in Actions /\ action[work[w].action] \in Row
    BY <2>1, Stages DEF Exist, LogTyped, LogTypeOK
  <2>4. Traced(action[work[w].action]) \in Trace /\ Unread \in Trace
    BY <2>2, TraceOf
  <2>5. PICK new \in {Traced(action[work[w].action]), Unread} :
            /\ work' = [work EXCEPT ![w] = [at |-> "log", action |-> work[w].action,
                  old |-> work[w].old, new |-> new, fields |-> Changed(work[w].old, new)]]
            /\ gaps' = Gapped(work[w].action, new)
    BY <1>4 DEF Observe
  <2>3. [at |-> "log", action |-> work[w].action, old |-> work[w].old, new |-> new,
         fields |-> Changed(work[w].old, new)] \in JobStates
    BY <2>1, <2>4, Stages DEF JobStates, Changed
  <2> QED BY <1>4, <2>2, <2>3, <2>5 DEF Observe, Gapped, LogTyped, LogTypeOK
<1>5. ASSUME NEW f \in Logged, LogLost(w, f) PROVE Good
  <2>1. work[w] # NoPatch
    BY <1>5 DEF LogLost, NoPatch
  <2>2. [work[w] EXCEPT !.fields = @ \ {f}] \in JobStates
    BY <1>5, <2>1, Stages DEF JobStates, LogLost
  <2> QED BY <1>5, <2>1, <2>2, Stages DEF LogLost, LogTyped, LogTypeOK
<1>6. ASSUME LoseAnswer(w) PROVE Good
  <2>1. work[w] # NoPatch
    BY <1>6 DEF LoseAnswer, NoPatch
  <2> QED BY <1>6, <2>1, Stages DEF LoseAnswer, LogTyped, LogTypeOK, JobStates
<1>7. Good
  BY <1>1, <1>2, <1>3, <1>4, <1>5, <1>6 DEF Quiet
<1> QED BY <1>0, <1>7 DEF LogTyped, LogTypeOK

\* Accumulate on any machine
LEMMA Accumulated ==
    ASSUME LogTyped, NEW i \in Interventions, NEW old \in Nat, NEW new \in Nat,
           Accumulate(i, old, new)
    PROVE  /\ hours' \in [Machines -> Nat]
           /\ machineOf[i] \in Machines
           /\ \A m \in Machines \ {machineOf[i]} : hours'[m] = hours[m]
           /\ hours[machineOf[i]] >= old =>
                hours'[machineOf[i]] = hours[machineOf[i]] + (new - old)
<1> DEFINE h == hours[machineOf[i]] + (new - old)
<1>1. machineOf[i] \in Machines /\ hours \in [Machines -> Nat]
  BY DEF LogTyped, LogTypeOK
<1>2. hours[machineOf[i]] \in Nat /\ h \in Int
  BY <1>1
<1>3. h >= 0 => Max({0, h}) = h
  BY <1>2 DEF Max
<1>4. h < 0 => Max({0, h}) = 0
  BY <1>2 DEF Max
<1>5. hours' = [hours EXCEPT ![machineOf[i]] = Max({0, h})]
  BY DEF Accumulate
<1> DEFINE x == Max({0, h})
<1>6. x \in Nat /\ (hours[machineOf[i]] >= old => x = h)
  BY <1>2, <1>3, <1>4
<1> HIDE DEF h, x
<1>7. hours' = [hours EXCEPT ![machineOf[i]] = x]
  BY <1>5 DEF x
<1> QED BY <1>1, <1>6, <1>7 DEF h

LEMMA CreateFits ==
    ASSUME LogTyped, NEW a \in Actions, NEW i \in Interventions, NEW p \in Patch,
           Create(a, i, p)
    PROVE  \E r \in Row : /\ Timed(r) /\ r.inter = i
                          /\ r.score = "high" => r.factor = "named"
                          /\ action' = [action EXCEPT ![a] = r]
                          /\ born' = [born EXCEPT ![a] = Traced(r)]
                          /\ Accumulate(i, 0, r.time)
<1> DEFINE o == [inter |-> i, start |-> OrNone(p.start), end |-> OrNone(p.end),
                 time |-> OrNone(p.time), score |-> p.score, factor |-> p.factor]
<1>1. o \in Submitted
  BY DEF Submitted, Create, OrNone, Patch
<1>2. o.inter = i /\ o.score = p.score /\ o.factor = p.factor
  OBVIOUS
<1>3. PICK r \in Computed(o) : /\ action' = [action EXCEPT ![a] = r]
                               /\ born' = [born EXCEPT ![a] = Traced(r)]
                               /\ Accumulate(i, 0, r.time)
  BY DEF Create
<1> HIDE DEF o
<1>4. /\ r \in Row /\ Timed(r)
      /\ r.inter = o.inter /\ r.score = o.score /\ r.factor = o.factor
  BY <1>1, ComputedFits
<1>5. p.score = "high" => p.factor = "named"
  BY DEF Create
<1> QED BY <1>2, <1>3, <1>4, <1>5

LEMMA WriteFits ==
    ASSUME LogTyped, Exist, NEW w \in Workers, Write(w)
    PROVE  /\ work[w] # NoPatch /\ work[w].at = "write"
           /\ work[w].action \in Actions /\ work[w].patch \in Patch
           /\ action[work[w].action] \in Row /\ Timed(action[work[w].action])
           /\ \E r \in Row :
                 /\ Timed(r) /\ r.inter = action[work[w].action].inter
                 /\ r.score = Or(work[w].patch.score, action[work[w].action].score)
                 /\ r.factor = Or(work[w].patch.factor, action[work[w].action].factor)
                 /\ action' = [action EXCEPT ![work[w].action] = r]
                 /\ Accumulate(r.inter, action[work[w].action].time, r.time)
                 /\ work' = [work EXCEPT ![w] = [at |-> "observe", action |-> work[w].action,
                                               old |-> work[w].old]]
<1>1. work[w] # NoPatch /\ work[w].at = "write"
  BY DEF Write, NoPatch
<1>2. work[w].action \in Actions /\ work[w].patch \in Patch
  BY <1>1, Stages
<1>3. action[work[w].action] \in Row /\ Timed(action[work[w].action])
  BY <1>1, <1>2 DEF Exist, LogTyped, LogTypeOK, Timed
<1>4. PICK r \in Stored(action[work[w].action], work[w].patch) :
          /\ action' = [action EXCEPT ![work[w].action] = r]
          /\ Accumulate(r.inter, action[work[w].action].time, r.time)
          /\ work' = [work EXCEPT ![w] = [at |-> "observe", action |-> work[w].action,
                                        old |-> work[w].old]]
  BY DEF Write
<1>5. /\ r \in Row /\ Timed(r)
      /\ r.inter = action[work[w].action].inter
      /\ r.score = Or(work[w].patch.score, action[work[w].action].score)
      /\ r.factor = Or(work[w].patch.factor, action[work[w].action].factor)
  BY <1>2, <1>3, StoredFits
<1> QED BY <1>1, <1>2, <1>3, <1>4, <1>5

\* A decision is added to the end of the log.
LEMMA LogFits ==
    ASSUME LogTyped, NEW w \in Workers, NEW f \in Logged, Log(w, f)
    PROVE  /\ work[w] # NoPatch /\ work[w].at = "log" /\ f \in work[w].fields
           /\ work[w].action \in Actions
           /\ trail' \in Seq(Entry) /\ Len(trail) \in Nat /\ Len(trail') = Len(trail) + 1
           /\ \A k \in 1 .. Len(trail) : trail'[k] = trail[k]
           /\ trail'[Len(trail) + 1] = [action |-> work[w].action, field |-> f,
                                        old |-> work[w].old[f], new |-> work[w].new[f]]
           /\ work' = [work EXCEPT ![w] = [work[w] EXCEPT !.fields = @ \ {f}]]
           /\ [work[w] EXCEPT !.fields = @ \ {f}] \in JobStates
<1>1. work[w] # NoPatch /\ work[w].at = "log" /\ f \in work[w].fields
  BY DEF Log, NoPatch
<1>2. work[w].action \in Actions /\ work[w].old \in Trace /\ work[w].new \in Trace
  BY <1>1, Stages
<1> DEFINE e == [action |-> work[w].action, field |-> f,
                 old |-> work[w].old[f], new |-> work[w].new[f]]
<1>3. e \in Entry
  BY <1>2 DEF Entry, Trace
<1>4. trail \in Seq(Entry) /\ trail' = Append(trail, e)
  BY DEF LogTyped, LogTypeOK, Log
<1>5. [work[w] EXCEPT !.fields = @ \ {f}] \in JobStates
  BY <1>1, Stages DEF JobStates
<1> HIDE DEF e
<1>6. /\ trail' \in Seq(Entry) /\ Len(trail) \in Nat /\ Len(trail') = Len(trail) + 1
      /\ \A k \in 1 .. Len(trail) : trail'[k] = trail[k]
      /\ trail'[Len(trail) + 1] = e
  BY <1>3, <1>4
<1> QED BY <1>1, <1>2, <1>5, <1>6 DEF e, Log

LEMMA TypedNext ==
    ASSUME LogTyped, Exist, LogNext
    PROVE  LogTyped'
<1>1. ASSUME NEW a \in Actions, NEW i \in Interventions, NEW p \in Patch, Create(a, i, p)
      PROVE  LogTyped'
  <2>1. PICK r \in Row : /\ Timed(r) /\ r.inter = i
                         /\ action' = [action EXCEPT ![a] = r]
                         /\ born' = [born EXCEPT ![a] = Traced(r)]
                         /\ Accumulate(i, 0, r.time)
    BY <1>1, CreateFits
  <2>2. hours' \in [Machines -> Nat]
    BY <2>1, Accumulated, LogAssumption DEF Row, Clock
  <2>3. Traced(r) \in Trace
    BY TraceOf
  <2>4. UNCHANGED <<load, machineOf, closed, trail, work, moved, torn, gaps>>
    BY <1>1 DEF Create
  <2> QED BY <2>1, <2>2, <2>3, <2>4 DEF LogTyped, LogTypeOK, Timed
<1>2. ASSUME NEW w \in Workers, Write(w) PROVE LogTyped'
  <2>1. PICK r \in Row :
            /\ Timed(r) /\ r.inter = action[work[w].action].inter
            /\ action' = [action EXCEPT ![work[w].action] = r]
            /\ Accumulate(r.inter, action[work[w].action].time, r.time)
            /\ work' = [work EXCEPT ![w] = [at |-> "observe", action |-> work[w].action,
                                          old |-> work[w].old]]
    BY <1>2, WriteFits
  <2>2. work[w] # NoPatch /\ work[w].action \in Actions /\ action[work[w].action] \in Row
    BY <1>2, WriteFits
  <2>3. hours' \in [Machines -> Nat]
    <3>1. r.inter \in Interventions /\ r.time \in Nat /\ action[work[w].action].time \in Nat
      BY <2>2, LogAssumption DEF Row, Clock
    <3> QED BY <2>1, <3>1, Accumulated
  <2>4. [at |-> "observe", action |-> work[w].action, old |-> work[w].old] \in JobStates
    BY <2>2, Stages DEF JobStates
  <2>5. UNCHANGED <<load, machineOf, closed, trail, born, moved, torn, gaps>>
    BY <1>2 DEF Write
  <2> QED BY <2>1, <2>2, <2>3, <2>4, <2>5 DEF LogTyped, LogTypeOK, Timed
<1>3. ASSUME NEW w \in Workers, NEW f \in Logged, Log(w, f) PROVE LogTyped'
  <2>1. UNCHANGED <<load, machineOf, closed, action, hours, born, moved, torn, gaps>>
    BY <1>3 DEF Log
  <2>2. PICK c \in JobStates : trail' \in Seq(Entry) /\ work' = [work EXCEPT ![w] = c]
    BY <1>3, LogFits
  <2>3. work' \in [Workers -> JobStates]
    BY <2>2 DEF LogTyped
  <2> QED BY <2>1, <2>2, <2>3 DEF LogTyped, LogTypeOK
<1>4. ASSUME NEW i \in Interventions, CloseIntervention(i) PROVE LogTyped'
  BY <1>4 DEF CloseIntervention, LogTyped, LogTypeOK
<1>5. ASSUME NEW i \in Interventions, NEW m \in Machines, MoveIntervention(i, m)
      PROVE  LogTyped'
  <2>1. machineOf' \in [Interventions -> Machines] /\ moved' \subseteq Machines
    BY <1>5 DEF MoveIntervention, LogTyped, LogTypeOK
  <2>2. UNCHANGED <<load, closed, action, hours, trail, work, born, torn, gaps>>
    BY <1>5 DEF MoveIntervention
  <2> QED BY <2>1, <2>2 DEF LogTyped, LogTypeOK
<1> QED BY <1>1, <1>2, <1>3, <1>4, <1>5, PatchSteps, TypedQuiet

----------------------------------------------------------------------------
(* No row disappears, and each action has one PATCH at a time *)

\* What a step does to the job of a worker, and to whose PATCH it is
LEMMA JobsMove ==
    ASSUME LogTyped, Exist, NEW w \in Workers,
           Quiet(w) \/ Write(w) \/ \E f \in Logged : Log(w, f)
    PROVE  /\ \A v \in Workers \ {w} : work'[v] = work[v]
           /\ \/ work[w] # NoPatch /\ (work'[w] = NoPatch \/ work'[w].action = work[w].action)
              \/ \E a \in Actions, p \in Patch :
                    /\ Snapshot(w, a, p)
                    /\ work'[w].action = a /\ work'[w].at = "read"
                    /\ a \notin gaps' => work'[w].old = Traced(action[a])
<1>0. work \in [Workers -> JobStates]
  BY DEF LogTyped
<1>1. ASSUME NEW a \in Actions, NEW p \in Patch, Snapshot(w, a, p)
      PROVE  /\ \A v \in Workers \ {w} : work'[v] = work[v]
             /\ work'[w].action = a /\ work'[w].at = "read"
             /\ a \notin gaps' => work'[w].old = Traced(action[a])
  BY <1>0, <1>1 DEF Snapshot, Gapped
<1> DEFINE Left == /\ \A v \in Workers \ {w} : work'[v] = work[v]
                   /\ work[w] # NoPatch
                   /\ work'[w] = NoPatch \/ work'[w].action = work[w].action
<1>2. ASSUME ReadAction(w) PROVE Left
  BY <1>0, <1>2 DEF ReadAction, NoPatch
<1>3. ASSUME RefusePatch(w) \/ LoseAnswer(w) \/ Answer(w) PROVE Left
  BY <1>0, <1>3 DEF RefusePatch, LoseAnswer, Answer, NoPatch
<1>4. ASSUME Observe(w) PROVE Left
  BY <1>0, <1>4 DEF Observe, NoPatch
<1>5. ASSUME NEW f \in Logged, LogLost(w, f) \/ Log(w, f) PROVE Left
  <2>1. work[w] # NoPatch
    BY <1>5 DEF LogLost, Log, NoPatch
  <2>2. [work[w] EXCEPT !.fields = @ \ {f}].action = work[w].action
    BY <1>5, <2>1, Stages DEF LogLost, Log
  <2>3. work' = [work EXCEPT ![w] = [work[w] EXCEPT !.fields = @ \ {f}]]
    BY <1>0, <1>5 DEF LogLost, Log
  <2> QED BY <1>0, <2>1, <2>2, <2>3
<1>6. ASSUME Write(w) PROVE Left
  <2>1. work[w] # NoPatch
    BY <1>6 DEF Write, NoPatch
  <2>2. work' = [work EXCEPT ![w] = [at |-> "observe", action |-> work[w].action,
                                   old |-> work[w].old]]
    BY <1>6 DEF Write
  <2> QED BY <1>0, <2>1, <2>2
<1> QED BY <1>1, <1>2, <1>3, <1>4, <1>5, <1>6 DEF Quiet

\* A row stays, whatever is written in it.
LEMMA ActionsStay ==
    ASSUME LogTyped, Exist, LogNext
    PROVE  \A a \in Actions : action[a] # None => action'[a] # None
<1>1. ASSUME NEW a \in Actions, NEW i \in Interventions, NEW p \in Patch, Create(a, i, p)
      PROVE  \A b \in Actions : action[b] # None => action'[b] # None
  <2>1. action[a] = None
    BY <1>1 DEF Create
  <2>2. PICK r \in Row : action' = [action EXCEPT ![a] = r]
    BY <1>1, CreateFits
  <2> QED BY <2>1, <2>2 DEF LogTyped, LogTypeOK
<1>2. ASSUME NEW w \in Workers, Write(w)
      PROVE  \A b \in Actions : action[b] # None => action'[b] # None
  <2>1. PICK r \in Row : action' = [action EXCEPT ![work[w].action] = r]
    BY <1>2, WriteFits
  <2>2. r # None
    BY LogAssumption
  <2> QED BY <2>1, <2>2 DEF LogTyped, LogTypeOK
<1>3. ASSUME UNCHANGED action
      PROVE  \A b \in Actions : action[b] # None => action'[b] # None
  BY <1>3
<1>4. \A w \in Workers : Quiet(w) => UNCHANGED action
  BY QuietKeeps
<1> QED BY <1>1, <1>2, <1>3, <1>4, PatchSteps DEF Log, CloseIntervention, MoveIntervention

LEMMA ExistNext ==
    ASSUME LogTyped, Exist, LogNext
    PROVE  Exist'
<1>0. \A a \in Actions : action[a] # None => action'[a] # None
  BY ActionsStay
<1>1. \A n \in 1 .. Len(trail) : trail[n].action \in Actions
  <2>1. \A n \in 1 .. Len(trail) : trail[n] \in Entry
    BY DEF LogTyped, LogTypeOK
  <2> QED BY <2>1 DEF Entry
<1>2. ASSUME NEW w \in Workers, Quiet(w) \/ Write(w) \/ \E f \in Logged : Log(w, f)
      PROVE  \A v \in Workers : work'[v] # NoPatch => action'[work'[v].action] # None
  <2> SUFFICES ASSUME NEW v \in Workers, work'[v] # NoPatch
               PROVE  action'[work'[v].action] # None
    OBVIOUS
  <2>1. CASE v # w
    <3>1. work'[v] = work[v]
      BY <1>2, <2>1, JobsMove
    <3>2. action[work[v].action] # None /\ work[v].action \in Actions
      BY <3>1, Stages DEF Exist
    <3> QED BY <1>0, <3>1, <3>2
  <2>2. CASE v = w
    <3>1. CASE work[w] # NoPatch /\ work'[w].action = work[w].action
      <4>1. action[work[w].action] # None /\ work[w].action \in Actions
        BY <3>1, Stages DEF Exist
      <4> QED BY <1>0, <2>2, <3>1, <4>1
    <3>2. ASSUME NEW a \in Actions, NEW p \in Patch, Snapshot(w, a, p), work'[w].action = a
          PROVE  action'[work'[v].action] # None
      BY <1>0, <2>2, <3>2 DEF Snapshot
    <3> QED BY <1>2, <2>2, <3>1, <3>2, JobsMove
  <2> QED BY <2>1, <2>2
<1>3. ASSUME UNCHANGED work
      PROVE  \A v \in Workers : work'[v] # NoPatch => action'[work'[v].action] # None
  <2> SUFFICES ASSUME NEW v \in Workers, work[v] # NoPatch
               PROVE  action'[work[v].action] # None
    BY <1>3
  <2>1. action[work[v].action] # None /\ work[v].action \in Actions
    BY Stages DEF Exist
  <2> QED BY <1>0, <2>1
<1>4. \A v \in Workers : work'[v] # NoPatch => action'[work'[v].action] # None
  BY <1>2, <1>3, PatchSteps DEF Create, CloseIntervention, MoveIntervention
<1>5. ASSUME UNCHANGED trail
      PROVE  \A n \in 1 .. Len(trail') : action'[trail'[n].action] # None
  BY <1>0, <1>1, <1>5 DEF Exist
<1>6. ASSUME NEW w \in Workers, NEW f \in Logged, Log(w, f)
      PROVE  \A n \in 1 .. Len(trail') : action'[trail'[n].action] # None
  <2> SUFFICES ASSUME NEW n \in 1 .. Len(trail') PROVE action'[trail'[n].action] # None
    OBVIOUS
  <2>1. /\ work[w] # NoPatch /\ work[w].action \in Actions
        /\ Len(trail) \in Nat /\ Len(trail') = Len(trail) + 1
        /\ \A k \in 1 .. Len(trail) : trail'[k] = trail[k]
        /\ trail'[Len(trail) + 1].action = work[w].action
    <3>1. trail'[Len(trail) + 1] = [action |-> work[w].action, field |-> f,
                                    old |-> work[w].old[f], new |-> work[w].new[f]]
      BY <1>6, LogFits
    <3>2. trail'[Len(trail) + 1].action = work[w].action
      BY <3>1
    <3> QED BY <1>6, <3>2, LogFits
  <2>2. CASE n \in 1 .. Len(trail)
    BY <1>0, <1>1, <2>1, <2>2 DEF Exist
  <2>3. CASE n = Len(trail) + 1
    BY <1>0, <2>1, <2>3 DEF Exist
  <2> QED BY <2>1, <2>2, <2>3
<1>7. \A w \in Workers : Quiet(w) => UNCHANGED trail
  BY QuietKeeps
<1>8. \A n \in 1 .. Len(trail') : action'[trail'[n].action] # None
  BY <1>5, <1>6, <1>7, PatchSteps DEF Create, Write, CloseIntervention, MoveIntervention
<1> QED BY <1>4, <1>8 DEF Exist

LEMMA TornGrows ==
    ASSUME LogTyped, LogNext
    PROVE  torn \subseteq torn' /\ gaps \subseteq gaps'
<1>1. \A w \in Workers : Quiet(w) => torn \subseteq torn' /\ gaps \subseteq gaps'
  BY QuietKeeps
<1> QED BY <1>1, PatchSteps DEF Create, Write, Log, CloseIntervention, MoveIntervention

LEMMA AloneNext ==
    ASSUME LogTyped, Exist, Alone, LogNext
    PROVE  Alone'
<1>0. torn \subseteq torn'
  BY TornGrows
<1>1. ASSUME NEW w \in Workers, Quiet(w) \/ Write(w) \/ \E f \in Logged : Log(w, f)
      PROVE  Alone'
  <2>0. \A v \in Workers \ {w} : work'[v] = work[v]
    BY <1>1, JobsMove
  <2>1. CASE work[w] # NoPatch /\ (work'[w] = NoPatch \/ work'[w].action = work[w].action)
    BY <1>0, <2>0, <2>1 DEF Alone
  <2>2. ASSUME NEW a \in Actions, NEW p \in Patch, Snapshot(w, a, p), work'[w].action = a
        PROVE  Alone'
    <3>1. ASSUME NEW v \in Workers \ {w}, work[v] # NoPatch, work[v].action = a
          PROVE  a \in torn'
      BY <2>2, <3>1 DEF Snapshot, PatchesOf
    <3> QED BY <1>0, <2>0, <2>2, <3>1 DEF Alone
  <2> QED BY <1>1, <2>1, <2>2, JobsMove
<1>2. ASSUME UNCHANGED work PROVE Alone'
  BY <1>0, <1>2 DEF Alone
<1> QED BY <1>1, <1>2, PatchSteps DEF Create, CloseIntervention, MoveIntervention

----------------------------------------------------------------------------
(* Complexity: a PATCH alone on its action judges the row it then writes. *)

LEMMA ReadNext ==
    ASSUME LogTyped, Exist, Alone, ReadIsCurrent, LogNext
    PROVE  ReadIsCurrent'
<1>0. /\ torn \subseteq torn' /\ work \in [Workers -> JobStates]
      /\ action \in [Actions -> Row \cup {None}]
  BY TornGrows DEF LogTyped, LogTypeOK
<1> SUFFICES ASSUME NEW v \in Workers, work'[v].at = "write", work'[v].action \notin torn'
             PROVE  work'[v].read = Traced(action'[work'[v].action])
  BY DEF ReadIsCurrent
<1>1. ASSUME NEW a \in Actions, NEW i \in Interventions, NEW p \in Patch, Create(a, i, p)
      PROVE  work'[v].read = Traced(action'[work'[v].action])
  <2>1. action[a] = None /\ work' = work
    BY <1>1 DEF Create
  <2>2. work[v] # NoPatch /\ work[v].action \in Actions /\ work[v].action # a
    BY <2>1, Stages DEF Exist, NoPatch
  <2>3. PICK r : action' = [action EXCEPT ![a] = r]
    BY <1>1, CreateFits
  <2> QED BY <1>0, <2>1, <2>2, <2>3 DEF ReadIsCurrent
<1>2. ASSUME NEW w \in Workers, Write(w)
      PROVE  work'[v].read = Traced(action'[work'[v].action])
  <2>1. PICK r : /\ action' = [action EXCEPT ![work[w].action] = r]
                 /\ work' = [work EXCEPT ![w] = [at |-> "observe", action |-> work[w].action,
                                               old |-> work[w].old]]
    BY <1>2, WriteFits
  <2>2. v # w /\ work'[v] = work[v]
    BY <1>0, <2>1
  <2>3. /\ work[w] # NoPatch /\ work[w].action \in Actions
        /\ work[v] # NoPatch /\ work[v].action \in Actions
    BY <1>2, <2>2, WriteFits, Stages DEF NoPatch
  <2>4. work[v].action # work[w].action
    BY <1>0, <2>2, <2>3 DEF Alone
  <2> QED BY <1>0, <2>1, <2>2, <2>3, <2>4 DEF ReadIsCurrent
<1>3. ASSUME UNCHANGED <<action, work>>
      PROVE  work'[v].read = Traced(action'[work'[v].action])
  BY <1>0, <1>3 DEF ReadIsCurrent
<1>4. ASSUME NEW w \in Workers, Quiet(w) \/ \E f \in Logged : Log(w, f)
      PROVE  work'[v].read = Traced(action'[work'[v].action])
  <2>0. action' = action
    BY <1>4, QuietKeeps DEF Log
  <2>1. CASE v # w
    <3>1. work'[v] = work[v]
      BY <1>4, <2>1, JobsMove
    <3> QED BY <1>0, <2>0, <3>1 DEF ReadIsCurrent
  <2>2. CASE v = w
    <3>1. ASSUME ReadAction(w) PROVE work'[v].read = Traced(action'[work'[v].action])
      BY <1>0, <2>0, <2>2, <3>1 DEF ReadAction
    <3>2. ASSUME NEW a \in Actions, NEW p \in Patch, Snapshot(w, a, p) PROVE FALSE
      BY <1>0, <2>2, <3>2 DEF Snapshot
    <3>3. ASSUME RefusePatch(w) \/ LoseAnswer(w) \/ Answer(w) \/ Observe(w) PROVE FALSE
      BY <1>0, <2>2, <3>3 DEF RefusePatch, LoseAnswer, Answer, Observe, NoPatch
    <3>4. ASSUME NEW f \in Logged, LogLost(w, f) \/ Log(w, f) PROVE FALSE
      <4>1. work[w] # NoPatch /\ work[w].at = "log"
        BY <3>4 DEF LogLost, Log, NoPatch
      <4>2. [work[w] EXCEPT !.fields = @ \ {f}].at = "log"
        BY <4>1, Stages
      <4>3. work' = [work EXCEPT ![w] = [work[w] EXCEPT !.fields = @ \ {f}]]
        BY <1>0, <3>4 DEF LogLost, Log
      <4> QED BY <1>0, <2>2, <4>2, <4>3
    <3> QED BY <1>4, <3>1, <3>2, <3>3, <3>4 DEF Quiet
  <2> QED BY <2>1, <2>2
<1> QED BY <1>1, <1>2, <1>3, <1>4, PatchSteps DEF CloseIntervention, MoveIntervention

LEMMA ComplexityNext ==
    ASSUME LogTyped, Exist, ReadIsCurrent, ComplexityExplained, LogNext
    PROVE  ComplexityExplained'
<1>0. torn \subseteq torn' /\ action \in [Actions -> Row \cup {None}]
  BY TornGrows DEF LogTyped, LogTypeOK
<1>1. ASSUME NEW a \in Actions, NEW i \in Interventions, NEW p \in Patch, Create(a, i, p)
      PROVE  ComplexityExplained'
  <2>1. PICK r : /\ r.score = "high" => r.factor = "named"
                 /\ action' = [action EXCEPT ![a] = r]
    BY <1>1, CreateFits
  <2> QED BY <1>0, <2>1 DEF ComplexityExplained
<1>2. ASSUME NEW w \in Workers, Write(w) PROVE ComplexityExplained'
  <2> DEFINE a == work[w].action
             p == work[w].patch
  <2>1. PICK r : /\ r.score = Or(p.score, action[a].score)
                 /\ r.factor = Or(p.factor, action[a].factor)
                 /\ action' = [action EXCEPT ![a] = r]
    BY <1>2, WriteFits
  <2>2. ASSUME a \notin torn, r.score = "high" PROVE r.factor = "named"
    <3>1. work[w].at = "write" /\ action[a] \in Row
      BY <1>2, WriteFits
    <3>2. work[w].read = Traced(action[a])
      BY <2>2, <3>1 DEF ReadIsCurrent
    <3>3. work[w].read.score = action[a].score /\ work[w].read.factor = action[a].factor
      BY <3>1, <3>2, TraceOf
    <3>4. Explained(p, work[w].read)
      BY <1>2 DEF Write, Accepts
    <3> QED BY <2>1, <2>2, <3>3, <3>4 DEF Explained
  <2>3. a \in Actions
    BY <1>2, WriteFits
  <2> HIDE DEF a, p
  <2> QED BY <1>0, <2>1, <2>2, <2>3 DEF ComplexityExplained
<1>3. ASSUME UNCHANGED action PROVE ComplexityExplained'
  BY <1>0, <1>3 DEF ComplexityExplained
<1>4. \A w \in Workers : Quiet(w) => UNCHANGED action
  BY QuietKeeps
<1> QED BY <1>1, <1>2, <1>3, <1>4, PatchSteps DEF Log, CloseIntervention, MoveIntervention

----------------------------------------------------------------------------
(* Hours: one action of one machine changes at a time, by what is accumulated. *)

LEMMA SpentFits ==
    ASSUME LogTyped, NEW m
    PROVE  IsFiniteSet(ActionsOn(m)) /\ Numbers(Spent, ActionsOn(m))
<1>1. IsFiniteSet(ActionsOn(m))
  BY FS_Subset, LogAssumption DEF ActionsOn
<1>2. ASSUME NEW a \in ActionsOn(m) PROVE Spent[a] \in Nat
  BY LogAssumption DEF ActionsOn, Spent, LogTyped, LogTypeOK, Row, Clock
<1> QED BY <1>1, <1>2 DEF Numbers

\* The sum on a machine after one of its actions changed, or was added
LEMMA SpentMore ==
    ASSUME LogTyped, LogTyped', NEW m, NEW a \in ActionsOn(m)',
           ActionsOn(m)' \ {a} = ActionsOn(m) \ {a},
           \A b \in ActionsOn(m) \ {a} : Spent'[b] = Spent[b]
    PROVE  \E rest \in Nat :
               /\ SumFunctionOnSet(Spent, ActionsOn(m))' = action'[a].time + rest
               /\ SumFunctionOnSet(Spent, ActionsOn(m))
                    = (IF a \in ActionsOn(m) THEN action[a].time ELSE 0) + rest
<1> DEFINE S == ActionsOn(m)
           T == ActionsOn(m)'
           f == Spent
           g == Spent'
           rest == SumFunctionOnSet(f, S \ {a})
<1>1. /\ IsFiniteSet(S) /\ Numbers(f, S)
      /\ a \in T /\ T \ {a} = S \ {a} /\ \A b \in S \ {a} : g[b] = f[b]
  BY SpentFits
<1>2. IsFiniteSet(T) /\ Numbers(g, T)
  <2>1. (IsFiniteSet(ActionsOn(m)) /\ Numbers(Spent, ActionsOn(m)))'
    BY SpentFits, PTL
  <2> QED BY <2>1 DEF Numbers
<1>3. g[a] = action'[a].time /\ a \in Actions /\ (a \in S => f[a] = action[a].time)
  BY DEF ActionsOn, Spent
<1>4. SumFunctionOnSet(Spent, ActionsOn(m))' = SumFunctionOnSet(g, T)
  BY DEF SumFunctionOnSet, FoldFunctionOnSet, MapThenFoldSet
<1> HIDE DEF S, T, f, g
<1>5. SumFunctionOnSet(g, T) = g[a] + SumFunctionOnSet(g, T \ {a})
  BY <1>1, <1>2, SumTakeOut
<1>6. IsFiniteSet(S \ {a}) /\ Numbers(f, S \ {a})
  BY <1>1, FS_Subset DEF Numbers
<1>7. SumFunctionOnSet(g, S \ {a}) = rest /\ rest \in Nat
  BY <1>1, <1>6, SumSame, SumType
<1>8. a \in S => SumFunctionOnSet(f, S) = f[a] + rest
  BY <1>1, SumTakeOut
<1>9. a \notin S => SumFunctionOnSet(f, S) = rest
  <2>1. a \notin S => S \ {a} = S
    OBVIOUS
  <2> QED BY <2>1
<1> HIDE DEF rest
<1>10. SumFunctionOnSet(g, T) = action'[a].time + rest
  BY <1>1, <1>3, <1>5, <1>7
<1>11. SumFunctionOnSet(f, S) = (IF a \in S THEN action[a].time ELSE 0) + rest
  <2>1. CASE a \in S
    BY <1>3, <1>8, <2>1
  <2>2. CASE a \notin S
    BY <1>7, <1>9, <2>2
  <2> QED BY <2>1, <2>2
<1> QED BY <1>4, <1>7, <1>10, <1>11 DEF S, T, f, g

LEMMA SpentSame ==
    ASSUME LogTyped, NEW m, ActionsOn(m)' = ActionsOn(m),
           \A b \in ActionsOn(m) : Spent'[b] = Spent[b]
    PROVE  SumFunctionOnSet(Spent, ActionsOn(m))' = SumFunctionOnSet(Spent, ActionsOn(m))
<1> DEFINE S == ActionsOn(m)
           T == ActionsOn(m)'
           f == Spent
           g == Spent'
<1>1. IsFiniteSet(S) /\ Numbers(f, S) /\ T = S /\ \A b \in S : g[b] = f[b]
  BY SpentFits
<1>2. SumFunctionOnSet(Spent, ActionsOn(m))' = SumFunctionOnSet(g, T)
  BY DEF SumFunctionOnSet, FoldFunctionOnSet, MapThenFoldSet
<1> HIDE DEF S, T, f, g
<1>3. SumFunctionOnSet(g, T) = SumFunctionOnSet(f, S)
  BY <1>1, SumSame
<1> QED BY <1>2, <1>3 DEF S, f

\* One action of intervention i changes, or is created, and its hours with it.
LEMMA HoursFollow ==
    ASSUME LogTyped, LogTyped', HoursAccounted, NEW a \in Actions, NEW r \in Row,
           action' = [action EXCEPT ![a] = r], UNCHANGED <<machineOf, moved>>,
           action[a] # None => action[a].inter = r.inter,
           Accumulate(r.inter, IF action[a] = None THEN 0 ELSE action[a].time, r.time)
    PROVE  HoursAccounted'
<1>0. /\ action \in [Actions -> Row \cup {None}] /\ r # None
      /\ r.inter \in Interventions /\ r.time \in Nat
  BY LogAssumption DEF LogTyped, LogTypeOK, Row, Clock
<1> DEFINE was == IF action[a] = None THEN 0 ELSE action[a].time
           h == machineOf[r.inter]
<1>1. was \in Nat
  BY <1>0, LogAssumption DEF Row, Clock
<1>2. action'[a] = r /\ \A b \in Actions \ {a} : action'[b] = action[b]
  BY <1>0
<1>3. \A b \in Actions \ {a} : Spent'[b] = Spent[b]
  BY <1>2 DEF Spent
<1>4. h \in Machines /\ \A m \in Machines \ {h} : hours'[m] = hours[m]
  BY <1>0, <1>1, Accumulated
<1>5. hours[h] >= was => hours'[h] = hours[h] + (r.time - was)
  BY <1>0, <1>1, Accumulated
<1> SUFFICES ASSUME NEW m \in Machines \ moved
             PROVE  hours'[m] = SumFunctionOnSet(Spent, ActionsOn(m))'
  BY DEF HoursAccounted
<1>6. hours[m] = SumFunctionOnSet(Spent, ActionsOn(m))
  BY DEF HoursAccounted
<1>7. CASE m = h
  <2>1. a \in ActionsOn(m)' /\ ActionsOn(m)' \ {a} = ActionsOn(m) \ {a}
    BY <1>0, <1>2, <1>7 DEF ActionsOn
  <2>2. a \in ActionsOn(m) <=> action[a] # None
    BY <1>7 DEF ActionsOn
  <2>3. \A b \in ActionsOn(m) \ {a} : Spent'[b] = Spent[b]
    BY <1>3 DEF ActionsOn
  <2>4. PICK rest \in Nat :
            /\ SumFunctionOnSet(Spent, ActionsOn(m))' = action'[a].time + rest
            /\ SumFunctionOnSet(Spent, ActionsOn(m))
                  = (IF a \in ActionsOn(m) THEN action[a].time ELSE 0) + rest
    BY <2>1, <2>3, SpentMore
  <2>5. hours[m] = was + rest
    BY <1>6, <2>2, <2>4
  <2> HIDE DEF was
  <2>6. hours'[m] = r.time + rest
    BY <1>0, <1>1, <1>5, <1>7, <2>5
  <2> QED BY <1>2, <2>4, <2>6
<1>8. CASE m # h
  <2>1. a \notin ActionsOn(m) /\ ActionsOn(m)' = ActionsOn(m)
    BY <1>0, <1>2, <1>8 DEF ActionsOn
  <2>2. \A b \in ActionsOn(m) : Spent'[b] = Spent[b]
    BY <1>3, <2>1 DEF ActionsOn
  <2>3. SumFunctionOnSet(Spent, ActionsOn(m))' = SumFunctionOnSet(Spent, ActionsOn(m))
    BY <2>1, <2>2, SpentSame
  <2> QED BY <1>4, <1>6, <1>8, <2>3
<1> QED BY <1>7, <1>8

LEMMA HoursNext ==
    ASSUME LogTyped, LogTyped', Exist, HoursAccounted, LogNext
    PROVE  HoursAccounted'
<1>1. ASSUME NEW a \in Actions, NEW i \in Interventions, NEW p \in Patch, Create(a, i, p)
      PROVE  HoursAccounted'
  <2>1. PICK r \in Row : /\ r.inter = i
                         /\ action' = [action EXCEPT ![a] = r]
                         /\ Accumulate(i, 0, r.time)
    BY <1>1, CreateFits
  <2>2. action[a] = None /\ UNCHANGED <<machineOf, moved>>
    BY <1>1 DEF Create
  <2> QED BY <2>1, <2>2, HoursFollow
<1>2. ASSUME NEW w \in Workers, Write(w) PROVE HoursAccounted'
  <2> DEFINE a == work[w].action
  <2>1. PICK r \in Row : /\ r.inter = action[a].inter
                         /\ action' = [action EXCEPT ![a] = r]
                         /\ Accumulate(r.inter, action[a].time, r.time)
    BY <1>2, WriteFits
  <2>2. a \in Actions /\ action[a] # None /\ UNCHANGED <<machineOf, moved>>
    BY <1>2, WriteFits, LogAssumption DEF Write
  <2> HIDE DEF a
  <2> QED BY <2>1, <2>2, HoursFollow
<1>3. ASSUME UNCHANGED <<action, hours, machineOf, moved>> PROVE HoursAccounted'
  <2>1. \A m : ActionsOn(m)' = ActionsOn(m) /\ Spent' = Spent
    BY <1>3 DEF ActionsOn, Spent
  <2>2. \A m : SumFunctionOnSet(Spent, ActionsOn(m))' = SumFunctionOnSet(Spent, ActionsOn(m))
    BY <2>1, SpentSame
  <2> QED BY <1>3, <2>2 DEF HoursAccounted
<1>4. ASSUME NEW i \in Interventions, NEW n \in Machines, MoveIntervention(i, n)
      PROVE  HoursAccounted'
  <2> SUFFICES ASSUME NEW m \in Machines \ moved'
               PROVE  hours'[m] = SumFunctionOnSet(Spent, ActionsOn(m))'
    BY DEF HoursAccounted
  <2>1. /\ machineOf' = [machineOf EXCEPT ![i] = n] /\ UNCHANGED <<action, hours>>
        /\ moved \subseteq moved'
        /\ ActionsOf(i) # {} => {machineOf[i], n} \subseteq moved'
    BY <1>4 DEF MoveIntervention
  <2>2. machineOf \in [Interventions -> Machines] /\ action \in [Actions -> Row \cup {None}]
    BY DEF LogTyped, LogTypeOK
  <2>3. \A b \in Actions : action[b] # None => action[b].inter \in Interventions
    BY <2>2 DEF Row
  <2>4. CASE ActionsOf(i) = {}
    <3>1. \A b \in Actions : action[b] # None => action[b].inter # i
      BY <2>4 DEF ActionsOf
    <3> QED BY <2>1, <2>2, <2>3, <3>1, SpentSame DEF ActionsOn, Spent, HoursAccounted
  <2>5. CASE ActionsOf(i) # {}
    <3>1. m # machineOf[i] /\ m # n
      BY <2>1, <2>5
    <3>2. ActionsOn(m)' = ActionsOn(m) /\ Spent' = Spent
      BY <2>1, <2>2, <2>3, <3>1 DEF ActionsOn, Spent
    <3>3. SumFunctionOnSet(Spent, ActionsOn(m))' = SumFunctionOnSet(Spent, ActionsOn(m))
      BY <3>2, SpentSame
    <3> QED BY <2>1, <3>3 DEF HoursAccounted
  <2> QED BY <2>4, <2>5
<1>5. \A w \in Workers : Quiet(w) => UNCHANGED <<action, hours, machineOf, moved>>
  BY QuietKeeps
<1> QED BY <1>1, <1>2, <1>3, <1>4, <1>5, PatchSteps DEF Log, CloseIntervention

----------------------------------------------------------------------------
(* The decision log: what is last said of a field *)

LEMMA HasMax ==
    ASSUME NEW n \in Nat, NEW S \in SUBSET (1 .. n), S # {}
    PROVE  Max(S) \in S
<1> DEFINE B == {b \in Nat : \A x \in S : x <= b}
<1>1. n \in B
  OBVIOUS
<1>2. PICK b \in B : \A c \in B : b <= c
  <2>1. B \in SUBSET Nat /\ B # {}
    BY <1>1
  <2> HIDE DEF B
  <2> QED BY <2>1, Least
<1>3. b \in S
  <2>1. SUFFICES ASSUME b \notin S PROVE FALSE
    OBVIOUS
  <2>2. b \in Nat /\ \A x \in S : x \in Nat /\ x > 0 /\ x <= b /\ x # b
    BY <1>2, <2>1
  <2>4. b > 0
    <3>1. PICK x \in S : TRUE
      OBVIOUS
    <3>2. x \in Nat /\ b \in Nat /\ x > 0 /\ x <= b
      BY <2>2
    <3> QED BY <3>2
  <2>5. b - 1 \in Nat
    BY <2>2, <2>4
  <2>6. \A x \in S : x <= b - 1
    <3> SUFFICES ASSUME NEW x \in S PROVE x <= b - 1
      OBVIOUS
    <3>1. x \in Nat /\ b \in Nat /\ x <= b /\ x # b
      BY <2>2
    <3> QED BY <3>1
  <2>3. b - 1 \in B
    BY <2>5, <2>6
  <2> HIDE DEF B
  <2>7. b <= b - 1
    BY <1>2, <2>3
  <2> QED BY <2>2, <2>7
<1>4. \A x \in S : x <= b
  BY <1>2
<1> QED BY <1>3, <1>4 DEF Max

LEMMA MaxAbove ==
    ASSUME NEW S \in SUBSET Nat, NEW n \in S, \A x \in S : x <= n
    PROVE  Max(S) = n
<1>1. \A x \in S : n >= x
  OBVIOUS
<1>2. Max(S) \in S /\ \A x \in S : Max(S) >= x
  BY <1>1 DEF Max
<1>3. Max(S) >= n /\ n >= Max(S) /\ Max(S) \in Nat
  BY <1>1, <1>2
<1> QED BY <1>3

LEMMA Says ==
    ASSUME LogTyped, NEW a \in Actions, NEW f \in Logged, NEW n \in 1 .. Len(trail) + 1
    PROVE  /\ Len(trail) \in Nat
           /\ Decisions(a, f, n) \subseteq 1 .. Len(trail)
           /\ Decisions(a, f, n) # {} => Max(Decisions(a, f, n)) \in Decisions(a, f, n)
<1>1. Len(trail) \in Nat
  BY DEF LogTyped, LogTypeOK
<1>2. Decisions(a, f, n) \in SUBSET (1 .. Len(trail))
  BY <1>1 DEF Decisions
<1> QED BY <1>1, <1>2, HasMax

\* What was said before the last decision stands.
LEMMA SaysStill ==
    ASSUME LogTyped, NEW a \in Actions, NEW f \in Logged, NEW n \in 1 .. Len(trail) + 1,
           born'[a] = born[a], Len(trail') \in Nat, Len(trail') >= Len(trail),
           \A k \in 1 .. Len(trail) : trail'[k] = trail[k]
    PROVE  /\ Decisions(a, f, n)' = Decisions(a, f, n)
           /\ Replayed(a, f, n)' = Replayed(a, f, n)
<1>1. Len(trail) \in Nat
  BY DEF LogTyped, LogTypeOK
<1>2. \A k \in 1 .. n - 1 : trail'[k] = trail[k]
  BY <1>1
<1>3. Decisions(a, f, n)' = Decisions(a, f, n)
  BY <1>2 DEF Decisions
<1>4. CASE Decisions(a, f, n) = {}
  BY <1>3, <1>4 DEF Replayed
<1>5. CASE Decisions(a, f, n) # {}
  <2> DEFINE m == Max(Decisions(a, f, n))
  <2>1. m \in 1 .. Len(trail)
    BY <1>5, Says
  <2>2. Replayed(a, f, n) = trail[m].new
    BY <1>5 DEF Replayed
  <2>3. Max(Decisions(a, f, n))' = m
    BY <1>3 DEF Max
  <2>4. Replayed(a, f, n)' = trail'[m].new
    BY <1>3, <1>5, <2>3 DEF Replayed
  <2> QED BY <1>2, <1>3, <2>1, <2>2, <2>4
<1> QED BY <1>4, <1>5

\* A log that does not change says the same.
LEMMA SaysSame ==
    ASSUME LogTyped, NEW a \in Actions, NEW f \in Logged, trail' = trail, born'[a] = born[a]
    PROVE  /\ Latest(a, f)' = Latest(a, f)
           /\ Decisions(a, f, Len(trail) + 1)' = Decisions(a, f, Len(trail) + 1)
           /\ \A n \in Decisions(a, f, Len(trail) + 1) :
                 Replayed(a, f, n)' = Replayed(a, f, n)
<1>1. Len(trail) \in Nat /\ Len(trail') = Len(trail)
  BY DEF LogTyped, LogTypeOK
<1>2. \A n \in 1 .. Len(trail) + 1 : /\ Decisions(a, f, n)' = Decisions(a, f, n)
                                     /\ Replayed(a, f, n)' = Replayed(a, f, n)
  BY <1>1, SaysStill
<1>3. Len(trail) + 1 \in 1 .. Len(trail) + 1
  BY <1>1
<1>4. /\ Replayed(a, f, Len(trail) + 1)' = Replayed(a, f, Len(trail) + 1)
      /\ Decisions(a, f, Len(trail) + 1)' = Decisions(a, f, Len(trail) + 1)
  <2>1. PICK n \in 1 .. Len(trail) + 1 : n = Len(trail) + 1 /\ n = Len(trail') + 1
    BY <1>1, <1>3
  <2>2. Replayed(a, f, n)' = Replayed(a, f, n) /\ Decisions(a, f, n)' = Decisions(a, f, n)
    BY <1>2
  <2>3. /\ Replayed(a, f, Len(trail) + 1)' = Replayed(a, f, n)'
        /\ Decisions(a, f, Len(trail) + 1)' = Decisions(a, f, n)'
    BY <2>1
  <2> QED BY <2>1, <2>2, <2>3
<1>5. \A n \in Decisions(a, f, Len(trail) + 1) : n \in 1 .. Len(trail) + 1
  BY <1>1 DEF Decisions
<1> QED BY <1>2, <1>4, <1>5 DEF Latest

\* One decision more: it is the latest of its field, and what the others say stands.
LEMMA SaysMore ==
    ASSUME LogTyped, NEW w \in Workers, NEW f \in Logged, Log(w, f),
           NEW a \in Actions, NEW g \in Logged
    PROVE  /\ \A n \in Decisions(a, g, Len(trail) + 1) :
                 Replayed(a, g, n)' = Replayed(a, g, n) /\ trail'[n] = trail[n]
           /\ (a = work[w].action /\ g = f) =>
                 /\ Latest(a, g)' = work[w].new[f]
                 /\ \A n \in Decisions(a, g, Len(trail) + 1)' :
                       \/ n \in Decisions(a, g, Len(trail) + 1)
                       \/ trail'[n].old = work[w].old[f] /\ Replayed(a, g, n)' = Latest(a, g)
           /\ ~(a = work[w].action /\ g = f) =>
                 /\ Latest(a, g)' = Latest(a, g)
                 /\ Decisions(a, g, Len(trail) + 1)' = Decisions(a, g, Len(trail) + 1)
<1>1. /\ Len(trail) \in Nat /\ Len(trail') = Len(trail) + 1
      /\ \A k \in 1 .. Len(trail) : trail'[k] = trail[k]
      /\ born' = born
  BY LogFits DEF Log
<1> DEFINE e == [action |-> work[w].action, field |-> f,
                 old |-> work[w].old[f], new |-> work[w].new[f]]
<1>2. /\ trail'[Len(trail) + 1] = e
      /\ e.action = work[w].action /\ e.field = f
      /\ e.old = work[w].old[f] /\ e.new = work[w].new[f]
  BY LogFits
<1> HIDE DEF e
<1>3. PICK l \in Nat : l = Len(trail) /\ Len(trail') = l + 1
  BY <1>1
<1> DEFINE D == Decisions(a, g, l + 1)
           mine == a = work[w].action /\ g = f
<1>4. \A n \in 1 .. l + 1 : /\ Decisions(a, g, n)' = Decisions(a, g, n)
                            /\ Replayed(a, g, n)' = Replayed(a, g, n)
  BY <1>1, <1>3, SaysStill
<1>5. D \subseteq 1 .. l
  BY DEF Decisions
<1>6. Decisions(a, g, l + 2)' = IF mine THEN D \cup {l + 1} ELSE D
  <2>1. Decisions(a, g, l + 2)'
          = {k \in 1 .. l + 1 : trail'[k].action = a /\ trail'[k].field = g}
    BY <1>3 DEF Decisions
  <2>2. D = {k \in 1 .. l : trail'[k].action = a /\ trail'[k].field = g}
    BY <1>1, <1>3 DEF Decisions
  <2>3. (trail'[l + 1].action = a /\ trail'[l + 1].field = g) <=> mine
    BY <1>2, <1>3
  <2> HIDE DEF D, mine
  <2>4. 1 .. l + 1 = (1 .. l) \cup {l + 1}
    OBVIOUS
  <2> QED BY <2>1, <2>2, <2>3, <2>4
<1>7. /\ Latest(a, g) = Replayed(a, g, l + 1)
      /\ Latest(a, g)' = Replayed(a, g, l + 2)'
      /\ Decisions(a, g, Len(trail) + 1) = D
      /\ Decisions(a, g, Len(trail) + 1)' = Decisions(a, g, l + 2)'
  <2>1. Len(trail) + 1 = l + 1 /\ Len(trail') + 1 = l + 2
    BY <1>3
  <2> QED BY <2>1 DEF Latest
<1>8. ASSUME mine PROVE Latest(a, g)' = work[w].new[f]
  <2>1. Decisions(a, g, l + 2)' = D \cup {l + 1}
    BY <1>6, <1>8
  <2>2. Max(D \cup {l + 1}) = l + 1
    <3>1. D \cup {l + 1} \in SUBSET Nat /\ \A x \in D \cup {l + 1} : x <= l + 1
      BY <1>5
    <3> HIDE DEF D
    <3> QED BY <3>1, MaxAbove
  <2>3. Replayed(a, g, l + 2)' = trail'[l + 1].new
    <3>1. Decisions(a, g, l + 2)' # {}
      BY <2>1
    <3>2. Replayed(a, g, l + 2)' = trail'[Max(Decisions(a, g, l + 2)')].new
      BY <3>1 DEF Replayed, Max
    <3> QED BY <2>1, <2>2, <3>2
  <2> QED BY <1>2, <1>3, <1>7, <2>3
<1>9. ASSUME ~mine PROVE Latest(a, g)' = Latest(a, g)
  <2>1. Decisions(a, g, l + 2)' = Decisions(a, g, l + 1)
    BY <1>6, <1>9
  <2>2. CASE D = {}
    BY <1>1, <1>7, <2>1, <2>2 DEF Replayed
  <2>3. CASE D # {}
    <3>1. Replayed(a, g, l + 2)' = trail'[Max(Decisions(a, g, l + 1))].new
      BY <2>1, <2>3 DEF Replayed, Max
    <3>2. Replayed(a, g, l + 1) = trail[Max(Decisions(a, g, l + 1))].new
      BY <2>3 DEF Replayed
    <3>3. Max(Decisions(a, g, l + 1)) \in 1 .. Len(trail)
      <4>1. l + 1 \in 1 .. Len(trail) + 1
        BY <1>3
      <4> QED BY <2>3, <4>1, Says
    <3> QED BY <1>1, <1>7, <3>1, <3>2, <3>3
  <2> QED BY <2>2, <2>3
<1>10. \A n \in D : n \in 1 .. l + 1 /\ n \in 1 .. Len(trail)
  BY <1>3, <1>5
<1>11. ASSUME mine, NEW n \in D \cup {l + 1}
       PROVE  \/ n \in D
              \/ trail'[n].old = work[w].old[f] /\ Replayed(a, g, n)' = Latest(a, g)
  <2>1. CASE n = l + 1
    <3>1. l + 1 \in 1 .. l + 1
      OBVIOUS
    <3>2. Replayed(a, g, l + 1)' = Latest(a, g)
      BY <1>4, <1>7, <3>1
    <3> QED BY <1>2, <1>3, <2>1, <3>2
  <2> QED BY <1>11, <2>1
<1>12. \A n \in D : Replayed(a, g, n)' = Replayed(a, g, n) /\ trail'[n] = trail[n]
  BY <1>1, <1>4, <1>10
<1> HIDE DEF D, mine
<1>13. /\ mine => \A n \in Decisions(a, g, Len(trail) + 1)' :
                    \/ n \in D
                    \/ trail'[n].old = work[w].old[f] /\ Replayed(a, g, n)' = Latest(a, g)
       /\ ~mine => Decisions(a, g, Len(trail) + 1)' = D
  BY <1>6, <1>7, <1>11
<1> QED BY <1>7, <1>8, <1>9, <1>12, <1>13 DEF mine

LEMMA ChainSame ==
    ASSUME LogTyped, NEW a \in Actions, NEW f \in Logged, trail' = trail, born'[a] = born[a],
           ChainHolds(a, f)
    PROVE  ChainHolds(a, f)'
BY SaysSame DEF ChainHolds

\* A step that is not about an action leaves what the log tells of it.
LEMMA ToldSame ==
    ASSUME LogTyped, NEW a \in Actions, NEW f \in Logged, Told(a, f),
           trail' = trail, born'[a] = born[a], action'[a] = action[a],
           PatchesOf(a)' = PatchesOf(a), \A v \in PatchesOf(a) : work'[v] = work[v]
    PROVE  Told(a, f)'
<1>1. Latest(a, f)' = Latest(a, f)
  BY SaysSame
<1>2. ChainHolds(a, f)'
  BY ChainSame DEF Told
<1>3. \A w \in PatchesOf(a) : AtStage(a, f, w)'
  BY <1>1 DEF Told, AtStage
<1> QED BY <1>1, <1>2, <1>3 DEF Told

\* Whose PATCH it is
LEMMA BusyOne ==
    ASSUME LogTyped, Alone, NEW w \in Workers, work[w] # NoPatch, work[w].action \notin torn
    PROVE  PatchesOf(work[w].action) = {w}
BY DEF Alone, PatchesOf

LEMMA BusyOther ==
    ASSUME LogTyped, NEW w \in Workers, \A v \in Workers \ {w} : work'[v] = work[v],
           NEW a \in Actions, w \notin PatchesOf(a), w \notin PatchesOf(a)'
    PROVE  PatchesOf(a)' = PatchesOf(a) /\ \A v \in PatchesOf(a) : work'[v] = work[v]
BY DEF PatchesOf

LEMMA CreateTells ==
    ASSUME LogTyped, Exist, TrailTells, NEW b \in Actions, NEW i \in Interventions,
           NEW p \in Patch, Create(b, i, p),
           NEW a \in Actions, NEW f \in Logged, action'[a] # None, a \notin (torn \cup gaps)'
    PROVE  Told(a, f)'
<1>1. PICK r \in Row : /\ action' = [action EXCEPT ![b] = r]
                       /\ born' = [born EXCEPT ![b] = Traced(r)]
  BY CreateFits
<1>2. action[b] = None /\ UNCHANGED <<trail, work, torn, gaps>>
  BY DEF Create
<1>3. \A c : PatchesOf(c)' = PatchesOf(c)
  BY <1>2 DEF PatchesOf
<1>4. CASE a # b
  <2>1. action'[a] = action[a] /\ born'[a] = born[a]
    BY <1>1, <1>4 DEF LogTyped, LogTypeOK
  <2>2. Told(a, f)
    BY <1>2, <2>1 DEF TrailTells
  <2> QED BY <1>2, <1>3, <2>1, <2>2, ToldSame
<1>5. CASE a = b
  <2>1. action'[a] = r /\ born'[a] = Traced(r)
    BY <1>1, <1>5 DEF LogTyped, LogTypeOK
  <2>2. PatchesOf(a)' = {}
    BY <1>2, <1>3, <1>5 DEF Exist, PatchesOf
  <2>3. \A k \in 1 .. Len(trail) : trail[k].action # a
    BY <1>2, <1>5 DEF Exist
  <2>4. Len(trail) \in Nat
    BY DEF LogTyped, LogTypeOK
  <2>5. Decisions(a, f, Len(trail) + 1)' = {}
    BY <1>2, <2>3, <2>4 DEF Decisions
  <2>6. Latest(a, f)' = Traced(r)[f]
    BY <2>1, <2>5 DEF Latest, Replayed
  <2>7. ChainHolds(a, f)'
    BY <2>5 DEF ChainHolds
  <2> QED BY <2>1, <2>2, <2>6, <2>7 DEF Told
<1> QED BY <1>4, <1>5

LEMMA QuietTells ==
    ASSUME LogTyped, Exist, Alone, TrailTells, NEW w \in Workers, Quiet(w),
           NEW a \in Actions, NEW f \in Logged, action'[a] # None, a \notin (torn \cup gaps)'
    PROVE  Told(a, f)'
<1>0. /\ UNCHANGED <<action, trail, born>> /\ torn \subseteq torn' /\ gaps \subseteq gaps'
      /\ work \in [Workers -> JobStates]
      /\ \A v \in Workers \ {w} : work'[v] = work[v]
  BY QuietKeeps, JobsMove DEF LogTyped
<1>1. Told(a, f)
  BY <1>0 DEF TrailTells
<1>2. /\ Latest(a, f)' = Latest(a, f) /\ ChainHolds(a, f)'
      /\ Traced(action[a])' = Traced(action[a])
  BY <1>0, <1>1, SaysSame, ChainSame DEF Told
<1>3. CASE w \notin PatchesOf(a) /\ w \notin PatchesOf(a)'
  BY <1>0, <1>1, <1>3, BusyOther, ToldSame
<1>4. CASE w \in PatchesOf(a)
  <2>1. work[w] # NoPatch /\ work[w].action = a /\ PatchesOf(a) = {w}
    BY <1>0, <1>4, BusyOne DEF PatchesOf
  <2>2. AtStage(a, f, w)
    BY <1>1, <1>4 DEF Told
  <2>3. PatchesOf(a)' \subseteq {w}
    BY <1>0, <2>1 DEF PatchesOf
  <2>4. /\ PatchesOf(a)' = {} => Latest(a, f) = Traced(action[a])[f]
        /\ w \in PatchesOf(a)' => AtStage(a, f, w)'
    <3>1. ASSUME ReadAction(w) PROVE work'[w] # NoPatch /\ AtStage(a, f, w)'
      <4>1. /\ work'[w].at = "write" /\ work'[w].old = work[w].old /\ work[w].at = "read"
            /\ work'[w].action = a
        BY <1>0, <2>1, <3>1 DEF ReadAction
      <4> QED BY <1>2, <2>2, <4>1 DEF AtStage, NoPatch
    <3>2. ASSUME RefusePatch(w) PROVE work'[w] = NoPatch /\ Latest(a, f) = Traced(action[a])[f]
      BY <1>0, <2>2, <3>2 DEF RefusePatch, AtStage
    <3>3. ASSUME Observe(w) PROVE work'[w] # NoPatch /\ AtStage(a, f, w)'
      <4> DEFINE new == Traced(action[a])
      <4>1. /\ work'[w].at = "log" /\ work'[w].old = work[w].old /\ work'[w].new = new
            /\ work'[w].fields = Changed(work[w].old, new) /\ work[w].at = "observe"
        BY <1>0, <2>1, <3>3 DEF Observe, Gapped
      <4>2. f \notin Changed(work[w].old, new) => work[w].old[f] = new[f]
        BY DEF Changed
      <4>3. Latest(a, f) = work[w].old[f]
        BY <2>2, <4>1 DEF AtStage
      <4> HIDE DEF new
      <4>4. /\ Traced(action[a])' = new /\ Latest(a, f)' = work'[w].old[f]
            /\ f \notin work'[w].fields => Latest(a, f)' = new[f]
        BY <1>2, <4>1, <4>2, <4>3 DEF new
      <4> QED BY <4>1, <4>4 DEF AtStage, NoPatch
    <3>4. ASSUME NEW g \in Logged, LogLost(w, g) \/ LoseAnswer(w) PROVE FALSE
      BY <2>1, <3>4 DEF LogLost, LoseAnswer
    <3>5. ASSUME Answer(w) PROVE work'[w] = NoPatch /\ Latest(a, f) = Traced(action[a])[f]
      BY <1>0, <2>2, <3>5 DEF Answer, AtStage
    <3>6. ASSUME NEW b \in Actions, NEW p \in Patch, Snapshot(w, b, p) PROVE FALSE
      BY <2>1, <3>6 DEF Snapshot
    <3>7. \/ work'[w] = NoPatch /\ Latest(a, f) = Traced(action[a])[f]
          \/ work'[w] # NoPatch /\ AtStage(a, f, w)'
      BY <3>1, <3>2, <3>3, <3>4, <3>5, <3>6 DEF Quiet
    <3>8. w \in PatchesOf(a)' <=> work'[w] # NoPatch
      <4>1. work'[w] = NoPatch \/ work'[w].action = work[w].action
        <5>1. \A b \in Actions, p \in Patch : ~Snapshot(w, b, p)
          BY <3>6
        <5> QED BY <5>1, JobsMove
      <4> QED BY <2>1, <4>1 DEF PatchesOf
    <3> QED BY <3>7, <3>8
  <2> QED BY <1>2, <2>3, <2>4 DEF Told
<1>5. CASE w \notin PatchesOf(a) /\ w \in PatchesOf(a)'
  <2>1. PICK p \in Patch : Snapshot(w, a, p) /\ work'[w].at = "read"
                           /\ work'[w].old = Traced(action[a])
    <3>1. /\ work'[w] # NoPatch /\ work'[w].action = a
          /\ ~(work[w] # NoPatch /\ work[w].action = a)
      BY <1>5 DEF PatchesOf
    <3> QED BY <3>1, JobsMove
  <2>2. PatchesOf(a) = {}
    BY <2>1 DEF Snapshot
  <2>3. PatchesOf(a)' = {w}
    BY <1>0, <1>5, <2>2 DEF PatchesOf
  <2>4. Latest(a, f) = Traced(action[a])[f]
    BY <1>1, <2>2 DEF Told
  <2>5. AtStage(a, f, w)'
    BY <1>2, <2>1, <2>4 DEF AtStage
  <2> QED BY <1>2, <2>3, <2>5 DEF Told
<1> QED BY <1>3, <1>4, <1>5

LEMMA WriteTells ==
    ASSUME LogTyped, Exist, Alone, TrailTells, NEW w \in Workers, Write(w),
           NEW a \in Actions, NEW f \in Logged, action'[a] # None, a \notin (torn \cup gaps)'
    PROVE  Told(a, f)'
<1> DEFINE b == work[w].action
<1>1. PICK r \in Row : /\ action' = [action EXCEPT ![b] = r]
                       /\ work' = [work EXCEPT ![w] = [at |-> "observe", action |-> b,
                                                     old |-> work[w].old]]
  BY WriteFits
<1>2. work[w] # NoPatch /\ work[w].at = "write" /\ b \in Actions /\ action[b] # None
  BY WriteFits, LogAssumption
<1>3. /\ UNCHANGED <<trail, born, torn, gaps>> /\ work \in [Workers -> JobStates]
      /\ \A v \in Workers \ {w} : work'[v] = work[v]
  BY JobsMove DEF Write, LogTyped
<1>4. /\ work'[w].at = "observe" /\ work'[w].action = b /\ work'[w].old = work[w].old
      /\ work'[w] # NoPatch
  BY <1>1, <1>3 DEF NoPatch
<1>5. CASE a # b
  <2>1. action'[a] = action[a]
    BY <1>1, <1>5 DEF LogTyped, LogTypeOK
  <2>2. w \notin PatchesOf(a) /\ w \notin PatchesOf(a)'
    BY <1>4, <1>5 DEF PatchesOf
  <2>3. Told(a, f)
    BY <1>3, <2>1 DEF TrailTells
  <2> QED BY <1>3, <2>1, <2>2, <2>3, BusyOther, ToldSame
<1>6. CASE a = b
  <2>1. Told(a, f) /\ PatchesOf(a) = {w}
    BY <1>2, <1>3, <1>6, BusyOne DEF TrailTells
  <2>2. work[w].old = Traced(action[a]) /\ Latest(a, f) = Traced(action[a])[f]
    BY <1>2, <2>1 DEF Told, AtStage
  <2>3. Latest(a, f)' = Latest(a, f) /\ ChainHolds(a, f)'
    BY <1>3, <2>1, SaysSame, ChainSame DEF Told
  <2>4. PatchesOf(a)' = {w}
    BY <1>3, <1>4, <1>6, <2>1 DEF PatchesOf
  <2>5. AtStage(a, f, w)'
    BY <1>4, <2>2, <2>3 DEF AtStage
  <2> QED BY <2>3, <2>4, <2>5 DEF Told
<1> QED BY <1>5, <1>6

LEMMA LogTells ==
    ASSUME LogTyped, Exist, Alone, TrailTells, NEW w \in Workers, NEW g \in Logged, Log(w, g),
           NEW a \in Actions, NEW f \in Logged, action'[a] # None, a \notin (torn \cup gaps)'
    PROVE  Told(a, f)'
<1> DEFINE b == work[w].action
<1>1. /\ work[w] # NoPatch /\ work[w].at = "log" /\ g \in work[w].fields /\ b \in Actions
      /\ work' = [work EXCEPT ![w] = [work[w] EXCEPT !.fields = @ \ {g}]]
  BY LogFits
<1>2. /\ UNCHANGED <<action, born, torn, gaps>> /\ work \in [Workers -> JobStates]
      /\ \A v \in Workers \ {w} : work'[v] = work[v]
  BY JobsMove DEF Log, LogTyped
<1>3. /\ work'[w].at = "log" /\ work'[w].action = b
      /\ work'[w].old = work[w].old /\ work'[w].new = work[w].new
      /\ work'[w].fields = work[w].fields \ {g}
      /\ work'[w] # NoPatch
  <2>1. work'[w] = [work[w] EXCEPT !.fields = @ \ {g}]
    BY <1>1, <1>2
  <2>2. work[w] \in [at : {"log"}, action : Actions, old : Trace, new : Trace,
                    fields : SUBSET Logged]
    BY <1>1, Stages
  <2>3. /\ work'[w].at = "log" /\ work'[w].action = b
        /\ work'[w].old = work[w].old /\ work'[w].new = work[w].new
        /\ work'[w].fields = work[w].fields \ {g}
    BY <2>1, <2>2
  <2> QED BY <2>3 DEF NoPatch
<1>4. PatchesOf(a)' = PatchesOf(a)
  BY <1>1, <1>2, <1>3 DEF PatchesOf
<1>5. Told(a, f) /\ Traced(action[a])' = Traced(action[a])
  BY <1>2 DEF TrailTells
<1>6. \A n \in Decisions(a, f, Len(trail) + 1) :
          Replayed(a, f, n)' = Replayed(a, f, n) /\ trail'[n] = trail[n]
  BY SaysMore
<1>7. CASE a = b /\ f = g
  <2>1. PatchesOf(a) = {w}
    BY <1>1, <1>2, <1>7, BusyOne
  <2>2. work[w].new = Traced(action[a]) /\ Latest(a, f) = work[w].old[f]
    BY <1>1, <1>5, <1>7, <2>1 DEF Told, AtStage
  <2>3. Latest(a, f)' = Traced(action[a])[f]
    BY <1>7, <2>2, SaysMore
  <2>4. AtStage(a, f, w)'
    BY <1>3, <1>5, <1>7, <2>2, <2>3 DEF AtStage
  <2>5. ASSUME NEW n \in Decisions(a, f, Len(trail) + 1)'
        PROVE  trail'[n].old = Replayed(a, f, n)'
    <3>1. \/ n \in Decisions(a, f, Len(trail) + 1)
          \/ trail'[n].old = work[w].old[f] /\ Replayed(a, f, n)' = Latest(a, f)
      BY <1>7, <2>5, SaysMore
    <3> QED BY <1>5, <1>6, <2>2, <3>1 DEF Told, ChainHolds
  <2>6. ChainHolds(a, f)'
    BY <2>5 DEF ChainHolds
  <2> QED BY <1>4, <2>1, <2>4, <2>6 DEF Told
<1>8. CASE ~(a = b /\ f = g)
  <2>1. /\ Latest(a, f)' = Latest(a, f)
        /\ Decisions(a, f, Len(trail) + 1)' = Decisions(a, f, Len(trail) + 1)
    BY <1>8, SaysMore
  <2>2. ChainHolds(a, f)'
    BY <1>5, <1>6, <2>1 DEF Told, ChainHolds
  <2>3. ASSUME NEW v \in PatchesOf(a) PROVE AtStage(a, f, v)'
    <3>1. AtStage(a, f, v)
      BY <1>5 DEF Told
    <3>2. CASE v = w
      <4>1. a = b /\ f # g
        BY <1>8, <2>3, <3>2 DEF PatchesOf
      <4>2. f \in work'[w].fields <=> f \in work[w].fields
        BY <1>3, <4>1
      <4> QED BY <1>1, <1>3, <1>5, <2>1, <3>1, <3>2, <4>2 DEF AtStage
    <3>3. CASE v # w
      <4>1. work'[v] = work[v]
        BY <1>2, <3>3 DEF PatchesOf
      <4> QED BY <1>5, <2>1, <3>1, <4>1 DEF AtStage
    <3> QED BY <3>2, <3>3
  <2> QED BY <1>4, <1>5, <2>1, <2>2, <2>3 DEF Told
<1> QED BY <1>7, <1>8

LEMMA TellsNext ==
    ASSUME LogTyped, Exist, Alone, TrailTells, LogNext
    PROVE  TrailTells'
<1> SUFFICES ASSUME NEW a \in Actions, NEW f \in Logged, action'[a] # None,
                    a \notin (torn \cup gaps)'
             PROVE  Told(a, f)'
  BY DEF TrailTells
<1>1. ASSUME UNCHANGED <<action, trail, work, born, torn, gaps>> PROVE Told(a, f)'
  <2>1. PatchesOf(a)' = PatchesOf(a) /\ Told(a, f)
    BY <1>1 DEF PatchesOf, TrailTells
  <2> QED BY <1>1, <2>1, ToldSame
<1> QED BY <1>1, PatchSteps, CreateTells, QuietTells, WriteTells, LogTells
         DEF CloseIntervention, MoveIntervention

----------------------------------------------------------------------------
(* The theorems *)

LEMMA LogInitInv == LogInit => LogInv
<1> SUFFICES ASSUME LogInit PROVE LogInv
  OBVIOUS
<1>1. /\ machineOf \in [Interventions -> Machines] /\ closed = {} /\ moved = {} /\ torn = {} /\ gaps = {}
      /\ action = [a \in Actions |-> None] /\ born = [a \in Actions |-> None]
      /\ hours = [m \in Machines |-> 0] /\ trail = <<>>
      /\ work = [w \in Workers |-> NoPatch] /\ load \in DOMAIN Loads
  BY DEF LogInit
<1>2. LogTyped
  BY <1>1 DEF LogTyped, LogTypeOK, JobStates
<1>3. Exist /\ Alone /\ ComplexityExplained /\ TrailTells
  BY <1>1 DEF Exist, Alone, ComplexityExplained, TrailTells
<1>4. ReadIsCurrent
  BY <1>1 DEF ReadIsCurrent, NoPatch
<1>5. HoursAccounted
  <2>1. ASSUME NEW m \in Machines PROVE hours[m] = SumFunctionOnSet(Spent, ActionsOn(m))
    <3>1. ActionsOn(m) = {}
      BY <1>1 DEF ActionsOn
    <3>2. SumFunctionOnSet(Spent, {}) = 0
      BY SumNone
    <3> QED BY <1>1, <3>1, <3>2
  <2> QED BY <2>1 DEF HoursAccounted
<1> QED BY <1>2, <1>3, <1>4, <1>5 DEF LogInv

LEMMA LogStutterInv == LogInv /\ UNCHANGED logvars => LogInv'
<1> SUFFICES ASSUME LogInv, UNCHANGED logvars PROVE LogInv'
  OBVIOUS
<1>0. UNCHANGED <<load, machineOf, closed, action, hours, trail, work, born, moved, torn, gaps>>
  BY DEF logvars
<1>1. LogTyped'
  BY <1>0 DEF LogInv, LogTyped, LogTypeOK
<1>2. Exist' /\ Alone' /\ ComplexityExplained' /\ ReadIsCurrent'
  BY <1>0 DEF LogInv, Exist, Alone, ComplexityExplained, ReadIsCurrent
<1>3. HoursAccounted'
  <2>1. \A m : ActionsOn(m)' = ActionsOn(m) /\ Spent' = Spent
    BY <1>0 DEF ActionsOn, Spent
  <2>2. \A m : SumFunctionOnSet(Spent, ActionsOn(m))' = SumFunctionOnSet(Spent, ActionsOn(m))
    BY <2>1, SpentSame DEF LogInv
  <2> QED BY <1>0, <2>2 DEF LogInv, HoursAccounted
<1>4. TrailTells'
  <2> SUFFICES ASSUME NEW a \in Actions, NEW f \in Logged, action'[a] # None,
                      a \notin (torn \cup gaps)'
               PROVE  Told(a, f)'
    BY DEF TrailTells
  <2>1. PatchesOf(a)' = PatchesOf(a) /\ Told(a, f)
    BY <1>0 DEF PatchesOf, LogInv, TrailTells
  <2> QED BY <1>0, <2>1, ToldSame DEF LogInv
<1> QED BY <1>1, <1>2, <1>3, <1>4 DEF LogInv

LEMMA LogNextInv == LogInv /\ LogNext => LogInv'
<1> SUFFICES ASSUME LogInv, LogNext PROVE LogInv'
  OBVIOUS
<1>1. /\ LogTyped /\ Exist /\ HoursAccounted /\ ComplexityExplained /\ Alone /\ ReadIsCurrent
      /\ TrailTells
  BY DEF LogInv
<1>2. LogTyped' /\ Exist'
  BY <1>1, TypedNext, ExistNext
<1>3. HoursAccounted'
  BY <1>1, <1>2, HoursNext
<1>4. ComplexityExplained' /\ Alone' /\ ReadIsCurrent'
  BY <1>1, ComplexityNext, AloneNext, ReadNext
<1>5. TrailTells'
  BY <1>1, TellsNext
<1> QED BY <1>2, <1>3, <1>4, <1>5 DEF LogInv

LEMMA LogInvariance == LogSpec => []LogInv
<1> QED BY LogInitInv, LogNextInv, LogStutterInv, PTL DEF LogSpec

\* Every row stays one that the triggers accept, its time that of its bounds when it
\* has both, and the log holds decisions only on the fields it can hold.
THEOREM RowsTyped == LogSpec => []LogTypeOK
<1>1. LogInv => LogTypeOK
  BY DEF LogInv, LogTyped
<1> QED BY <1>1, LogInvariance, PTL

\* The hours of a machine are the time of its actions, for any number of PATCHes in
\* progress: the triggers account for a change in the statement that makes it.
THEOREM HoursAddUp == LogSpec => []HoursAccounted
<1>1. LogInv => HoursAccounted
  BY DEF LogInv
<1> QED BY <1>1, LogInvariance, PTL

\* An action whose PATCHes never overlapped names the factor of a score above 5.
THEOREM FactorsNamed == LogSpec => []ComplexityExplained
<1>1. LogInv => ComplexityExplained
  BY DEF LogInv
<1> QED BY <1>1, LogInvariance, PTL

\* For an action whose PATCHes never overlapped and whose every PATCH the middleware
\* read before and after, saw answered and logged, the decision log, read from its
\* creation, leads to the row.
THEOREM LogReplays == LogSpec => []TrailReplays
<1>1. LogInv => TrailReplays
  <2> SUFFICES ASSUME LogInv, NEW a \in Actions \ (torn \cup gaps), NEW f \in Logged,
                      action[a] # None, PatchesOf(a) = {}
               PROVE  /\ ChainHolds(a, f)
                      /\ Replayed(a, f, Len(trail) + 1) = action[a][f]
    BY DEF TrailReplays, ChainHolds
  <2>1. Told(a, f)
    BY DEF LogInv, TrailTells
  <2>2. Traced(action[a])[f] = action[a][f]
    BY DEF Traced
  <2> QED BY <2>1, <2>2 DEF Told, Latest
<1> QED BY <1>1, LogInvariance, PTL

==================================================================================
