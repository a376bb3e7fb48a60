------------------------------- MODULE Sessions -------------------------------
(***************************************************************************)
(* Logins, the rotation of refresh tokens, the counters that slow repeated *)
(* failures down, and the administration of the accounts.        *)
(* An async handler runs on the event loop of its process without giving   *)
(* it up between its statements: a process serves one login or refresh at  *)
(* a time, while the other processes and the threads that serve /admin go  *)
(* on.                                                                     *)
(***************************************************************************)
EXTENDS Integers, Sequences, FiniteSets

CONSTANTS
    Processes,   \* the uvicorn workers, each with its event loop
    Users, Roles, Tokens,
    EmailLimit,  \* failures of an email within 15 minutes
    IpLimit,     \* attempts of an address within an hour
    MaxQuarter,     \* bound on the clock, in quarters of an hour
    Null

ASSUME SessionsAssumption ==
    /\ IsFiniteSet(Processes) /\ Processes # {}
    /\ IsFiniteSet(Tokens)
    /\ EmailLimit \in Nat \ {0} /\ IpLimit \in Nat \ {0} /\ MaxQuarter \in Nat
    /\ Null \notin Users \cup Roles \cup Tokens

\* Without provisioning there is no row; a soft-deleted row keeps its id and
\* loses its email.
Account == [email : BOOLEAN, active : BOOLEAN, role : Roles]
RefreshToken == [user : Users, revoked : BOOLEAN, expired : BOOLEAN,
                 from : Tokens \cup {Null}]

\* Null stands for the absence of a row.
ASSUME NullAssumption == Null \notin Account \cup RefreshToken

VARIABLES
    quarter,  \* now(), in quarters of an hour
    user,     \* tunnel_user, Null without a row
    token,    \* refresh_token, Null without a row; from is the token it replaced
    attempts, \* auth_attempt, in the order of insertion
    shut,     \* whether the client's address is in ip_blocklist
    refused,  \* whether the rules refuse the domain of the emails
    job       \* what each event loop is serving

vars == <<quarter, user, token, attempts, shut, refused, job>>
rules == <<shut, refused>>

Quarters == 0 .. MaxQuarter
Attempt == [user : Users, quarter : Quarters, ok : BOOLEAN]

Idle == [at |-> "idle", user |-> Null, role |-> Null, token |-> Null, ok |-> FALSE]
Frame == [at : {"idle", "login", "refresh", "reuse"}, user : Users \cup {Null},
          role : Roles \cup {Null}, token : Tokens \cup {Null}, ok : BOOLEAN]

Init == /\ quarter = 0
        /\ user = [u \in Users |-> Null]
        /\ token = [t \in Tokens |-> Null]
        /\ attempts = <<>>
        /\ shut = FALSE /\ refused = FALSE
        /\ job = [p \in Processes |-> Idle]

------------------------------------------------------------------------------
(* What the handlers read *)

\* created_at > now() - INTERVAL '15 minutes': of the model's quarters, this one.
Failures(u) == {n \in DOMAIN attempts : /\ attempts[n].user = u /\ ~attempts[n].ok
                                        /\ attempts[n].quarter = quarter}
RecentFailures(u) == Cardinality(Failures(u))

\* ... '1 hour', whatever the email and the outcome
LastHour == {n \in DOMAIN attempts : attempts[n].quarter > quarter - 4}
RecentAttempts == Cardinality(LastHour)

\* Fault: the limit itself is let through.
LetsLimitThrough(u) == ~shut /\ RecentFailures(u) <= EmailLimit /\ RecentAttempts < IpLimit

\* check_ip_blocklist, check_email_flood, check_ip_flood
Admits(u) == ~shut /\ RecentFailures(u) < EmailLimit /\ RecentAttempts < IpLimit

HasEmail(u) == user[u] # Null /\ user[u].email

\* A token that refresh_token exchanges.
Exchangeable(t) == ~token[t].revoked /\ ~token[t].expired /\ user[token[t].user].active

\* UPDATE refresh_token SET revoked = true WHERE user_id = ...
RevokeAll(u) == [t \in Tokens |-> IF token[t] # Null /\ token[t].user = u
                                  THEN [token[t] EXCEPT !.revoked = TRUE] ELSE token[t]]

\* record_attempt
Record(u, ok) == attempts' = Append(attempts, [user |-> u, quarter |-> quarter, ok |-> ok])

NewToken(u, from) == [user |-> u, revoked |-> FALSE, expired |-> FALSE, from |-> from]

------------------------------------------------------------------------------
(* POST /auth/login and /auth/refresh *)

\* Everything a login reads: a refusal of the flood checks is not recorded, a
\* refusal of the domain is. right tells whether the password is the right one.
LoginRead(p, u, right) ==
    /\ job[p].at = "idle"
    /\ Admits(u)
    /\ job' = [job EXCEPT ![p] =
           [at |-> "login", user |-> u, role |-> IF HasEmail(u) THEN user[u].role ELSE Null,
            token |-> Null, ok |-> ~refused /\ HasEmail(u) /\ right /\ user[u].active]]
    /\ UNCHANGED <<quarter, user, token, attempts, rules>>

\* created_at is the start of the transaction; the model lets a login last less
\* than a quarter (Tick waits for it).
LoginFails(p) ==
    /\ job[p].at = "login" /\ ~job[p].ok
    /\ Record(job[p].user, FALSE)
    /\ job' = [job EXCEPT ![p] = Idle]
    /\ UNCHANGED <<quarter, user, token, rules>>

LoginSucceeds(p) ==
    /\ job[p].at = "login" /\ job[p].ok
    /\ \E t \in Tokens : /\ token[t] = Null
                         /\ token' = [token EXCEPT ![t] = NewToken(job[p].user, Null)]
    /\ Record(job[p].user, TRUE)
    /\ job' = [job EXCEPT ![p] = Idle]
    /\ UNCHANGED <<quarter, user, rules>>

\* A refresh reads the token with its user; one that is neither exchangeable nor
\* revoked is refused.
RefreshRead(p, t) ==
    /\ job[p].at = "idle"
    /\ token[t] # Null
    /\ token[t].revoked \/ Exchangeable(t)
    /\ job' = [job EXCEPT ![p] =
           [at |-> IF token[t].revoked THEN "reuse" ELSE "refresh", user |-> token[t].user,
            role |-> user[token[t].user].role, token |-> t, ok |-> TRUE]]
    /\ UNCHANGED <<quarter, user, token, attempts, rules>>

\* Fault: the exchanged token is not revoked.
RotateKeeping(p) ==
    /\ job[p].at = "refresh"
    /\ \E t \in Tokens :
           /\ token[t] = Null
           /\ token' = [token EXCEPT ![t] = NewToken(job[p].user, job[p].token)]
    /\ job' = [job EXCEPT ![p] = Idle]
    /\ UNCHANGED <<quarter, user, attempts, rules>>

\* The rotation: from its first UPDATE to its commit the token's row is locked.
Rotate(p) ==
    /\ job[p].at = "refresh"
    /\ \E t \in Tokens :
           /\ token[t] = Null
           /\ token' = [token EXCEPT ![job[p].token].revoked = TRUE,
                                     ![t] = NewToken(job[p].user, job[p].token)]
    /\ job' = [job EXCEPT ![p] = Idle]
    /\ UNCHANGED <<quarter, user, attempts, rules>>

\* A revoked token is presented again: all the tokens of its user are revoked.
Reuse(p) ==
    /\ job[p].at = "reuse"
    /\ token' = RevokeAll(job[p].user)
    /\ job' = [job EXCEPT ![p] = Idle]
    /\ UNCHANGED <<quarter, user, attempts, rules>>

\* POST /auth/logout
Logout(p, t) ==
    /\ job[p].at = "idle"
    /\ token[t] # Null
    /\ token' = [token EXCEPT ![t].revoked = TRUE]
    /\ UNCHANGED <<quarter, user, attempts, rules, job>>

\* A statement fails, or the process is stopped: nothing is committed.
Fail(p) ==
    /\ job[p].at # "idle"
    /\ job' = [job EXCEPT ![p] = Idle]
    /\ UNCHANGED <<quarter, user, token, attempts, rules>>

------------------------------------------------------------------------------
(* Administration of the accounts *)

AddUser(u, r) ==
    /\ user[u] = Null
    /\ user' = [user EXCEPT ![u] = [email |-> TRUE, active |-> TRUE, role |-> r]]
    /\ UNCHANGED <<quarter, token, attempts, rules, job>>

SetRole(u, r) ==
    /\ user[u] # Null
    /\ user' = [user EXCEPT ![u].role = r]
    /\ token' = RevokeAll(u)
    /\ UNCHANGED <<quarter, attempts, rules, job>>

\* Fault: revoked = NOT is_active, which gives a reactivated user his tokens back.
SetActiveAndTokens(u, active) ==
    /\ user[u] # Null
    /\ user' = [user EXCEPT ![u].active = active]
    /\ token' = [t \in Tokens |-> IF token[t] # Null /\ token[t].user = u
                                 THEN [token[t] EXCEPT !.revoked = ~active] ELSE token[t]]
    /\ UNCHANGED <<quarter, attempts, rules, job>>

SetActive(u, active) ==
    /\ user[u] # Null
    /\ user' = [user EXCEPT ![u].active = active]
    /\ token' = IF active THEN token ELSE RevokeAll(u)
    /\ UNCHANGED <<quarter, attempts, rules, job>>

\* It takes the email away, so the account cannot log in even reactivated.
SoftDelete(u) ==
    /\ user[u] # Null
    /\ user' = [user EXCEPT ![u].active = FALSE, ![u].email = FALSE]
    /\ token' = RevokeAll(u)
    /\ UNCHANGED <<quarter, attempts, rules, job>>

\* add_ip_block, remove_ip_block, add_email_domain_rule, remove_email_domain_rule
SetRules(s, r) ==
    /\ shut' = s
    /\ refused' = r
    /\ rules' # rules
    /\ UNCHANGED <<quarter, user, token, attempts, job>>

------------------------------------------------------------------------------

Tick == /\ quarter < MaxQuarter
        /\ \A p \in Processes : job[p].at # "login"
        /\ quarter' = quarter + 1
        /\ UNCHANGED <<user, token, attempts, rules, job>>

Expire(t) == /\ token[t] # Null
             /\ token' = [token EXCEPT ![t].expired = TRUE]
             /\ UNCHANGED <<quarter, user, attempts, rules, job>>

LoopNext(p) == \/ \E u \in Users, right \in BOOLEAN : LoginRead(p, u, right)
               \/ LoginFails(p) \/ LoginSucceeds(p)
               \/ \E t \in Tokens : RefreshRead(p, t) \/ Logout(p, t)
               \/ Rotate(p) \/ Reuse(p) \/ Fail(p)

AdminNext == \/ \E u \in Users : \/ \E r \in Roles : AddUser(u, r) \/ SetRole(u, r)
                                 \/ \E active \in BOOLEAN : SetActive(u, active)
                                 \/ SoftDelete(u)
             \/ \E s, r \in BOOLEAN : SetRules(s, r)

Next == \/ \E p \in Processes : LoopNext(p)
        \/ AdminNext
        \/ Tick
        \/ \E t \in Tokens : Expire(t)

Spec == Init /\ [][Next]_vars

------------------------------------------------------------------------------
(* Properties *)

\* Rows and frames keep the values the schema and the code allow.
TypeOK ==
    /\ quarter \in Quarters
    /\ user \in [Users -> Account \cup {Null}]
    /\ token \in [Tokens -> RefreshToken \cup {Null}]
    /\ attempts \in Seq(Attempt)
    /\ shut \in BOOLEAN /\ refused \in BOOLEAN
    /\ job \in [Processes -> Frame]

\* A refresh token is exchanged once by each process at most, however its uses
\* overlap: in one process it has a single heir, and where others have read it
\* before the first has revoked it, one more for each of them.
Heirs(s) == {t \in Tokens : token[t] # Null /\ token[t].from = s}
Exchanging(s) == {p \in Processes : job[p].at = "refresh" /\ job[p].token = s}

HeirsBounded ==
    \A s \in Tokens :
        Cardinality(Heirs(s)) + Cardinality(Exchanging(s)) <= Cardinality(Processes)

\* An email gathers at most EmailLimit failures within the window, plus one for
\* every other process that had counted before the last one was recorded; an
\* address likewise.
FloodBounded ==
    /\ \A u \in Users : RecentFailures(u) < EmailLimit + Cardinality(Processes)
    /\ RecentAttempts < IpLimit + Cardinality(Processes)

\* Rotation, logout, reuse and administration implement TokenLineage: a token
\* that has been exchanged or revoked is never live again.
Lineage == INSTANCE TokenLineage WITH
    NoToken <- Null,
    stage <- [t \in Tokens |-> IF token[t] = Null THEN "unissued"
                               ELSE IF token[t].revoked THEN "ended" ELSE "live"],
    from <- [t \in Tokens |-> IF token[t] = Null THEN Null ELSE token[t].from]

ImplementsLineage == Lineage!Spec
==============================================================================
