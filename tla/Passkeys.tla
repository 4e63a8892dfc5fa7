------------------------------ MODULE Passkeys ------------------------------
(***************************************************************************)
(* Passkeys: registration and login ceremonies, the sign counter of a      *)
(* credential and its removal.                                             *)
(*                                                                         *)
(* Code: identity/src/passkey.rs, authorization-server/src/domain/         *)
(* passkey.rs, persistence-postgres/src/repositories/passkeys.rs,          *)
(* http-actix/src/passkey.rs and the ceremony store in                     *)
(* state-store-valkey/src/authentication.rs.                               *)
(*                                                                         *)
(* A ceremony is a Valkey entry, a credential a PostgreSQL row.  A login   *)
(* reads the account, then the credential, and writes the counter last.    *)
(* An authenticator may exist in copies that count on their own.           *)
(***************************************************************************)
EXTENDS Integers, Sequences

CONSTANTS
  Handlers, Users,
  Credentials,     \* credential ids
  Counting,        \* those whose authenticators count; the others always say 0
  Copies,          \* copies of an authenticator
  CeremonyTtl,
  MaxCeremonies, MaxCount, MaxTime, MaxEvents,   \* bounds
  None, Gone

VARIABLES
  now,
  users,       \* [active, mfa, fresh]: fresh is a recent enough interactive login
  creds,       \* credential -> [user, count], or None
  authenticators, \* external: credential -> what each copy has counted to, or None
  ceremonies,
  job,
  accepted,    \* ghost: sign counts accepted from each credential, in order
  sessions,    \* ghost: [user, full]
  events

vars == <<now, users, creds, authenticators, ceremonies, job, accepted, sessions, events>>

Ids == 1..MaxCeremonies
Idle == [phase |-> "idle"]
Event == events < MaxEvents /\ events' = events + 1
Finish(h) == job' = [job EXCEPT ![h] = Idle]
Live(i) == ceremonies[i] \notin {None, Gone} /\ ceremonies[i].exp > now
CredentialsOf(u) == {c \in Credentials : creds[c] # None /\ creds[c].user = u}

Init ==
  /\ now = 0
  /\ users \in [Users -> [active : {TRUE}, mfa : BOOLEAN, fresh : {TRUE}]]
  /\ creds = [c \in Credentials |-> None]
  /\ authenticators = [c \in Credentials |-> None]
  /\ ceremonies = [i \in Ids |-> None]
  /\ job = [h \in Handlers |-> Idle]
  /\ accepted = [c \in Credentials |-> <<>>]
  /\ sessions = {}
  /\ events = 0

\* store_registration and store_authentication: under a fresh id, for its lifetime.
Stored(kind, u, dummy) ==
  \E i \in Ids :
    /\ ceremonies[i] = None
    /\ \A j \in Ids : j < i => ceremonies[j] # None
    /\ ceremonies' = [ceremonies EXCEPT ![i] =
         [kind |-> kind, user |-> u, dummy |-> dummy, exp |-> now + CeremonyTtl]]

\* take_registration and take_authentication: read and removed at once.
Taken(i, kind) ==
  /\ Live(i) /\ ceremonies[i].kind = kind
  /\ ceremonies' = [ceremonies EXCEPT ![i] = Gone]

\* An authenticator makes a credential once, with a first count of its choice.
Created(c, n) ==
  /\ authenticators[c] = None
  /\ n \in (IF c \in Counting THEN {0, 1} ELSE {0})
  /\ authenticators' = [authenticators EXCEPT ![c] = [k \in Copies |-> n]]

\* A copy answers a challenge: its next count, or always 0.
Answered(c, k, n) ==
  /\ authenticators[c] # None
  /\ IF c \in Counting
       THEN /\ authenticators[c][k] < MaxCount
            /\ n = authenticators[c][k] + 1
            /\ authenticators' = [authenticators EXCEPT ![c][k] = n]
       ELSE n = 0 /\ UNCHANGED authenticators

\* current_account: managing passkeys takes a session whose authentication is recent.
MayManage(u) == users[u].active /\ users[u].fresh

RegistrationBegin ==
  \E u \in Users :
    /\ MayManage(u)
    /\ Stored("registration", u, FALSE)
    /\ UNCHANGED <<now, users, creds, authenticators, job, accepted, sessions, events>>

\* registration_finish up to the attestation; another user's ceremony is lost and
\* the rejection recorded.
RegistrationFinish(h) ==
  \E i \in Ids, u \in Users, c \in Credentials, n \in 0..MaxCount :
    /\ job[h] = Idle
    /\ MayManage(u)
    /\ Taken(i, "registration")
    /\ Created(c, n)
    /\ job' = IF ceremonies[i].user # u THEN job
              ELSE [job EXCEPT ![h] = [phase |-> "insert", user |-> u, cred |-> c, count |-> n]]
    /\ UNCHANGED <<now, users, creds, accepted, sessions, events>>

\* insert: the credential id is unique.
Insert(h) ==
  /\ job[h].phase = "insert"
  /\ creds' = IF creds[job[h].cred] # None THEN creds
              ELSE [creds EXCEPT ![job[h].cred] = [user |-> job[h].user, count |-> job[h].count]]
  /\ Finish(h)
  /\ UNCHANGED <<now, users, authenticators, ceremonies, accepted, sessions, events>>

\* delete, for the user's own credential.
Delete ==
  \E c \in Credentials :
    /\ Event
    /\ creds[c] # None /\ MayManage(creds[c].user)
    /\ creds' = [creds EXCEPT ![c] = None]
    /\ UNCHANGED <<now, users, authenticators, ceremonies, job, accepted, sessions>>

\* login_begin: without an account or credentials, a ceremony that cannot succeed.
LoginBegin ==
  \E u \in Users :
    /\ Stored("authentication", u, ~users[u].active \/ CredentialsOf(u) = {})
    /\ UNCHANGED <<now, users, creds, authenticators, job, accepted, sessions, events>>

\* login_finish: the ceremony is taken before anything is looked up.
LoginFinish(h) ==
  \E i \in Ids, c \in Credentials, k \in Copies, n \in 0..MaxCount, uv \in BOOLEAN :
    /\ job[h] = Idle
    /\ Taken(i, "authentication")
    /\ Answered(c, k, n)
    /\ job' = IF ceremonies[i].dummy THEN job
              ELSE [job EXCEPT ![h] = [phase |-> "account", user |-> ceremonies[i].user,
                                       cred |-> c, count |-> n, uv |-> uv]]
    /\ UNCHANGED <<now, users, creds, accepted, sessions, events>>

LoadAccount(h) ==
  /\ job[h].phase = "account"
  /\ job' = [job EXCEPT ![h] = IF ~users[job[h].user].active THEN Idle
             ELSE [phase |-> "credential", user |-> @.user, cred |-> @.cred, count |-> @.count,
                   uv |-> @.uv, mfa |-> users[job[h].user].mfa]]
  /\ UNCHANGED <<now, users, creds, authenticators, ceremonies, accepted, sessions, events>>

\* by_credential_id, for the user of the ceremony; then the assertion is verified.
LoadCredential(h) ==
  LET j == job[h] IN
  /\ j.phase = "credential"
  /\ job' = [job EXCEPT ![h] = IF j.cred \notin CredentialsOf(j.user) THEN Idle
             ELSE [phase |-> "counter", user |-> j.user, cred |-> j.cred, count |-> j.count,
                   uv |-> j.uv, mfa |-> j.mfa, expected |-> creds[j.cred].count]]
  /\ UNCHANGED <<now, users, creds, authenticators, ceremonies, accepted, sessions, events>>

\* update_counter: counts grow, except that 0 may follow 0, and the row still has the
\* count that was read.
Grows(expected, n) == n > expected \/ (expected = 0 /\ n = 0)
CountUnread(c, u, expected) == c \in CredentialsOf(u)   \* mutant: whatever the row says now
CountUnchanged(c, u, expected) == c \in CredentialsOf(u) /\ creds[c].count = expected

UpdateCounter(h) ==
  LET j == job[h] IN
  /\ j.phase = "counter"
  /\ IF Grows(j.expected, j.count) /\ CountUnchanged(j.cred, j.user, j.expected)
       THEN /\ creds' = [creds EXCEPT ![j.cred].count = j.count]
            /\ accepted' = [accepted EXCEPT ![j.cred] = Append(@, j.count)]
            /\ job' = [job EXCEPT ![h] = [phase |-> "session", user |-> j.user,
                                          full |-> j.uv \/ ~j.mfa]]
       ELSE Finish(h) /\ UNCHANGED <<creds, accepted>>
  /\ UNCHANGED <<now, users, authenticators, ceremonies, sessions, events>>

\* create_session: full after user verification or without MFA, or for a device that
\* was remembered; pending the second factor otherwise.
CreateSession(h) ==
  /\ job[h].phase = "session"
  /\ \E remembered \in BOOLEAN :
       sessions' = sessions \cup {[user |-> job[h].user, full |-> job[h].full \/ remembered]}
  /\ Finish(h)
  /\ UNCHANGED <<now, users, creds, authenticators, ceremonies, accepted, events>>

\* The account is suspended, or its session grows too old to manage passkeys.
Change ==
  \E u \in Users :
    /\ Event
    /\ \/ users[u].active /\ users' = [users EXCEPT ![u].active = FALSE]
       \/ users[u].fresh /\ users' = [users EXCEPT ![u].fresh = FALSE]
    /\ UNCHANGED <<now, creds, authenticators, ceremonies, job, accepted, sessions>>

\* The request ends early: a store is unavailable, or verification fails.
Abandon(h) ==
  /\ Event
  /\ job[h] # Idle
  /\ Finish(h)
  /\ UNCHANGED <<now, users, creds, authenticators, ceremonies, accepted, sessions>>

Tick ==
  /\ now < MaxTime
  /\ now' = now + 1
  /\ UNCHANGED <<users, creds, authenticators, ceremonies, job, accepted, sessions, events>>

\* The endpoints, and the steps that follow a taken ceremony.
Endpoints ==
  \/ RegistrationBegin \/ LoginBegin \/ Delete
  \/ \E h \in Handlers : RegistrationFinish(h) \/ LoginFinish(h)

Continue(h) ==
  \/ Insert(h) \/ LoadAccount(h) \/ LoadCredential(h) \/ UpdateCounter(h)
  \/ CreateSession(h) \/ Abandon(h)

Next == Endpoints \/ (\E h \in Handlers : Continue(h)) \/ Change \/ Tick

Spec == Init /\ [][Next]_vars

TypeOK ==
  /\ \A c \in Credentials : creds[c] # None => creds[c].user \in Users /\ creds[c].count \in 0..MaxCount
  /\ \A h \in Handlers : job[h] # Idle => job[h].user \in Users
  /\ \A s \in sessions : s.user \in Users

\* The sign counts one credential logs in with strictly grow, or are all 0: of two
\* copies of an authenticator that reach the same count, at most one is let in, and
\* neither after the other has gone further, whatever the requests interleave.
CountsAdvance ==
  \A c \in Credentials : \A m, n \in 1..Len(accepted[c]) :
    m < n => \/ accepted[c][m] < accepted[c][n]
             \/ accepted[c][m] = 0 /\ accepted[c][n] = 0

=============================================================================
