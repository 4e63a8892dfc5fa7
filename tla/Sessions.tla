------------------------------ MODULE Sessions ------------------------------
(***************************************************************************)
(* Browser sessions and the second factor of one account: password login,  *)
(* TOTP enrolment, challenge, step-up, backup codes, remembered devices    *)
(* and the removal of MFA.                                                 *)
(*                                                                         *)
(* Code: identity/src/{authentication,session,mfa,mfa_service}.rs,         *)
(* authorization-server/src/domain/mfa_profile.rs,                         *)
(* persistence-postgres/src/repositories/mfa/ and                          *)
(* state-store-valkey/src/session.rs.                                      *)
(*                                                                         *)
(* Sessions live in Valkey, factors in PostgreSQL: every operation below   *)
(* crosses both, so each of its reads and writes is a step.  A refused     *)
(* request changes nothing and is left out; rate limits only refuse more.  *)
(***************************************************************************)
EXTENDS Integers, FiniteSets

CONSTANTS
  Handlers,    \* requests served concurrently
  Ops,         \* the MFA operations the handlers serve
  Offsets,     \* how far the clocks of the user's devices are off, in TOTP periods
  Enrolled,    \* whether the account has MFA to begin with
  CodeCount,   \* MFA_BACKUP_CODE_COUNT
  DeviceTtl,   \* remembered_mfa_ttl_seconds, in TOTP periods
  MaxSid, MaxSeed, MaxTime, MaxEvents,   \* bounds
  None, Gone

VARIABLES
  now,        \* in TOTP periods
  user,       \* [active, epoch, mfa]
  totp,       \* row of user_totp_credentials, or None
  codes,      \* rows of user_mfa_backup_codes
  devices,    \* rows of user_mfa_remembered_devices
  sessions,   \* session id -> record
  seeds,      \* TOTP secrets generated so far
  job,        \* what each handler is doing
  accepted,   \* ghost: every acceptance of a factor
  delivered,  \* ghost: every step-up handed to a browser
  events

vars == <<now, user, totp, codes, devices, sessions, seeds, job, accepted, delivered, events>>

Idle == [op |-> "idle"]
Sids == 1..MaxSid
Row(s) == sessions[s] \notin {None, Gone}
Event == events < MaxEvents /\ events' = events + 1
Finish(h) == job' = [job EXCEPT ![h] = Idle]

\* A fresh, unguessable session id.
Fresh(s) == sessions[s] = None /\ \A t \in Sids : t < s => sessions[t] # None

Confirmed == totp # None /\ totp.confirmed
Batch(gen, n) == [gen : {gen}, batch : {n}, code : 1..CodeCount]

\* An account that has MFA or not, and one full session.
Init ==
  /\ now = 1
  /\ seeds = 1
  /\ \E mfa \in Enrolled :
       /\ user = [active |-> TRUE, epoch |-> 0, mfa |-> mfa]
       /\ totp = IF mfa THEN [gen |-> 1, seed |-> 1, confirmed |-> TRUE, last |-> 0] ELSE None
       /\ codes = IF mfa THEN Batch(1, 0) ELSE {}
  /\ devices = {}
  /\ sessions = [s \in Sids |-> IF s = 1 THEN [epoch |-> 0, pending |-> FALSE, mfa |-> FALSE,
                                               bound |-> FALSE] ELSE None]
  /\ job = [h \in Handlers |-> Idle]
  /\ accepted = {}
  /\ delivered = {}
  /\ events = 0

(***************************************************************************)
(* Sessions                                                                *)
(***************************************************************************)

\* resolve: the account is active and at the session's authorization epoch.
Present(s) == Row(s) /\ user.active /\ sessions[s].epoch = user.epoch

\* resolve deletes the session of an account that moved on.
Invalidate(s) ==
  /\ Row(s) /\ ~Present(s)
  /\ sessions' = [sessions EXCEPT ![s] = Gone]
  /\ UNCHANGED <<now, user, totp, codes, devices, seeds, job, accepted, delivered, events>>

\* Logout, or the end of the record's lifetime.
Delete(s) ==
  /\ Row(s)
  /\ Event
  /\ sessions' = [sessions EXCEPT ![s] = Gone]
  /\ UNCHANGED <<now, user, totp, codes, devices, seeds, job, accepted, delivered>>

\* bind_client, at the compare-and-set that applies.
BindClient(s) ==
  /\ Row(s) /\ ~sessions[s].bound
  /\ Event
  /\ sessions' = [sessions EXCEPT ![s].bound = TRUE]
  /\ UNCHANGED <<now, user, totp, codes, devices, seeds, job, accepted, delivered>>

\* authenticate_password, after the password was verified: the account is read
\* again, and a remembered device with it.
DeviceValid(d) == d # None /\ d.exp > now
ReadLoginState(h, previous, d) ==
  /\ job[h] = Idle
  /\ user.active
  /\ job' = [job EXCEPT ![h] =
       [op |-> "login", previous |-> previous, epoch |-> user.epoch,
        pending |-> user.mfa /\ ~DeviceValid(d), mfa |-> user.mfa /\ DeviceValid(d)]]
  /\ UNCHANGED <<now, user, totp, codes, devices, sessions, seeds, accepted, delivered, events>>

\* create_replacing: the session of the presented cookie goes with it.
CreateReplacing(h) ==
  /\ job[h].op = "login"
  /\ \E s \in Sids :
       /\ Fresh(s)
       /\ sessions' = [t \in Sids |->
            IF t = s THEN [epoch |-> job[h].epoch, pending |-> job[h].pending,
                           mfa |-> job[h].mfa, bound |-> FALSE]
            ELSE IF t = job[h].previous /\ Row(t) THEN Gone ELSE sessions[t]]
  /\ Finish(h)
  /\ UNCHANGED <<now, user, totp, codes, devices, seeds, accepted, delivered, events>>

(***************************************************************************)
(* Factors                                                                 *)
(***************************************************************************)

\* verified_totp_step: the code of a step at most one period away.
InWindow(step, at) == step \in (at - 1)..(at + 1)
TotpFactor(step) == [kind |-> "totp", seed |-> totp.seed, step |-> step]
BackupFactor(c) == [kind |-> "backup", code |-> c]

\* begin_totp_enrollment: an unconfirmed row keeps its id and gets a new secret.
BeginTotp(s) ==
  /\ Present(s) /\ ~sessions[s].pending
  /\ ~Confirmed
  /\ seeds < MaxSeed
  /\ seeds' = seeds + 1
  /\ totp' = [gen |-> IF totp = None THEN seeds' ELSE totp.gen, seed |-> seeds',
              confirmed |-> FALSE, last |-> 0]
  /\ UNCHANGED <<now, user, codes, devices, sessions, job, accepted, delivered, events>>

\* current_account with each operation's own conditions; a confirmation also
\* checks the code against the pending enrolment.
Served(op, s) ==
  /\ Present(s)
  /\ sessions[s].pending = (op = "challenge")
  /\ op \in {"step_up", "regenerate", "disable"} => user.mfa

Start(h, op, s) ==
  /\ op \in Ops
  /\ job[h] = Idle
  /\ Served(op, s)
  /\ totp # None
  /\ \E f \in {TotpFactor(now + d) : d \in Offsets}
           \cup {BackupFactor(c) : c \in codes} :
       /\ op = "confirm" => f.kind = "totp" /\ ~totp.confirmed
       /\ job' = [job EXCEPT ![h] =
            [op |-> op, at |-> IF op = "confirm" THEN "load" ELSE "consume",
             session |-> s, factor |-> f, started |-> now]]
  /\ UNCHANGED <<now, user, totp, codes, devices, sessions, seeds, accepted, delivered, events>>

Accept(h) ==
  accepted' = accepted \cup {[factor |-> job[h].factor, n |-> Cardinality(accepted)]}

\* verify_and_consume_totp and consume_backup_code_candidate.
TotpFresh(f) == f.step > totp.last
TotpAccepts(f, at) == Confirmed /\ f.seed = totp.seed /\ InWindow(f.step, at) /\ TotpFresh(f)
BackupAccepts(f) == Confirmed /\ f.code \in codes

AfterFactor(op) == IF op = "disable" THEN "clear" ELSE "load"
Consume(h) ==
  LET j == job[h]
      f == j.factor
  IN /\ j.op # "idle" /\ j.op # "login" /\ j.at = "consume"
     /\ \/ /\ f.kind = "totp" /\ TotpAccepts(f, j.started)
           /\ totp' = [totp EXCEPT !.last = f.step]
           /\ UNCHANGED codes
        \/ /\ f.kind = "backup" /\ BackupAccepts(f)
           /\ codes' = codes \ {f.code}
           /\ UNCHANGED totp
     /\ Accept(h)
     /\ \E at \in {AfterFactor(j.op)} \cup (IF j.op = "challenge" THEN {"remember"} ELSE {}) :
          job' = [job EXCEPT ![h] =
            [op |-> j.op, at |-> at, session |-> j.session, factor |-> f, gen |-> totp.gen]]
     /\ UNCHANGED <<now, user, devices, sessions, seeds, delivered, events>>

\* A factor that is no longer good ends the request.
Refuse(h) ==
  LET j == job[h]
  IN /\ j.op \notin {"idle", "login"} /\ j.at = "consume"
     /\ IF j.factor.kind = "totp" THEN ~TotpAccepts(j.factor, j.started)
                                   ELSE ~BackupAccepts(j.factor)
     /\ Finish(h)
     /\ UNCHANGED <<now, user, totp, codes, devices, sessions, seeds, accepted, delivered, events>>

\* The factor's generation is still the account's confirmed one.
StillConfirmed(gen) == Confirmed
GenerationHolds(gen) == Confirmed /\ totp.gen = gen

Remembered(gen) ==
  IF GenerationHolds(gen)
  THEN {d \in devices : d.exp > now} \cup {[gen |-> gen, exp |-> now + DeviceTtl]}
  ELSE devices

\* remember_device: without it the challenge goes on, and no cookie is set.
RememberDevice(h) ==
  /\ job[h].op = "challenge" /\ job[h].at = "remember"
  /\ devices' = Remembered(job[h].gen)
  /\ job' = [job EXCEPT ![h].at = "load"]
  /\ UNCHANGED <<now, user, totp, codes, sessions, seeds, accepted, delivered, events>>

(***************************************************************************)
(* step_up: the session is read, then rotated if it is still what was read *)
(***************************************************************************)

Load(h) ==
  LET j == job[h]
  IN /\ j.op \notin {"idle", "login"} /\ j.at = "load"
     /\ IF Row(j.session) /\ (j.op = "challenge" => sessions[j.session].pending)
        THEN job' = [job EXCEPT ![h] =
               [op |-> j.op, at |-> "rotate", session |-> j.session, factor |-> j.factor,
                raw |-> sessions[j.session],
                rest |-> IF j.op = "confirm" THEN j.started
                         ELSE IF j.op = "regenerate" THEN j.gen ELSE None]]
        ELSE Finish(h)
     /\ UNCHANGED <<now, user, totp, codes, devices, sessions, seeds, accepted, delivered, events>>

Deliver(h) ==
  delivered' = delivered \cup {[from |-> job[h].session, factor |-> job[h].factor,
                                n |-> Cardinality(delivered)]}

\* ROTATE_SCRIPT.
AnyVersion(s, raw) == TRUE
SameVersion(s, raw) == sessions[s] = raw

Rotate(h) ==
  LET j == job[h]
  IN /\ j.op \notin {"idle", "login"} /\ j.at = "rotate"
     /\ IF SameVersion(j.session, j.raw)
        THEN \E s \in Sids :
          /\ Fresh(s)
          /\ sessions' = [sessions EXCEPT ![s] = [j.raw EXCEPT !.pending = FALSE, !.mfa = TRUE],
                                          ![j.session] = Gone]
          /\ IF j.op \in {"challenge", "step_up"}
             THEN Deliver(h) /\ Finish(h)
             ELSE /\ UNCHANGED delivered
                  /\ job' = [job EXCEPT ![h] =
                       [op |-> j.op, at |-> "commit", session |-> j.session, to |-> s,
                        factor |-> j.factor, rest |-> j.rest]]
        ELSE Finish(h) /\ UNCHANGED <<sessions, delivered>>
     /\ UNCHANGED <<now, user, totp, codes, devices, seeds, accepted, events>>

\* discard_unpublished_rotation.
Discard(h) ==
  /\ sessions' = [sessions EXCEPT ![job[h].to] = IF Row(job[h].to) THEN Gone ELSE sessions[job[h].to]]
  /\ Finish(h)

\* verify_and_confirm_totp, with its backup codes and the account's flag.
Confirms(f, at) ==
  totp # None /\ ~totp.confirmed /\ f.seed = totp.seed /\ InWindow(f.step, at) /\ user.active

ConfirmTotp(h) ==
  LET j == job[h]
  IN /\ j.op = "confirm" /\ j.at = "commit"
     /\ IF Confirms(j.factor, j.rest)
        THEN /\ totp' = [totp EXCEPT !.confirmed = TRUE, !.last = j.factor.step]
             /\ codes' = Batch(totp.gen, Cardinality(accepted) + 1)
             /\ user' = [user EXCEPT !.mfa = TRUE]
             /\ Accept(h) /\ Deliver(h) /\ Finish(h)
             /\ UNCHANGED sessions
        ELSE Discard(h) /\ UNCHANGED <<user, totp, codes, accepted, delivered>>
     /\ UNCHANGED <<now, devices, seeds, events>>

\* replace_backup_code_hashes.
ReplaceBackupCodes(h) ==
  LET j == job[h]
  IN /\ j.op = "regenerate" /\ j.at = "commit"
     /\ IF GenerationHolds(j.rest) /\ user.active /\ user.mfa
        THEN /\ codes' = Batch(totp.gen, Cardinality(accepted) + 1)
             /\ Deliver(h) /\ Finish(h)
             /\ UNCHANGED sessions
        ELSE Discard(h) /\ UNCHANGED <<codes, delivered>>
     /\ UNCHANGED <<now, user, totp, devices, seeds, accepted, events>>

\* clear_mfa_state_if_current.
ClearMfaState(h) ==
  LET j == job[h]
  IN /\ j.op = "disable" /\ j.at = "clear"
     /\ IF GenerationHolds(j.gen) /\ user.active
        THEN totp' = None /\ codes' = {} /\ devices' = {} /\ user' = [user EXCEPT !.mfa = FALSE]
        ELSE UNCHANGED <<user, totp, codes, devices>>
     /\ Finish(h)
     /\ UNCHANGED <<now, sessions, seeds, accepted, delivered, events>>

(***************************************************************************)
(* Everything else that may happen                                         *)
(***************************************************************************)

\* The administrator deactivates the account, or restores it.
SetActive ==
  /\ Event
  /\ user' = IF user.active THEN [user EXCEPT !.active = FALSE, !.epoch = @ + 1]
                            ELSE [user EXCEPT !.active = TRUE]
  /\ UNCHANGED <<now, totp, codes, devices, sessions, seeds, job, accepted, delivered>>

\* The security state clean-up removes expired devices.
ExpireDevices ==
  /\ \E d \in devices : d.exp <= now
  /\ devices' = {d \in devices : d.exp > now}
  /\ UNCHANGED <<now, user, totp, codes, sessions, seeds, job, accepted, delivered, events>>

Crash(h) ==
  /\ job[h] # Idle
  /\ Event
  /\ Finish(h)
  /\ UNCHANGED <<now, user, totp, codes, devices, sessions, seeds, accepted, delivered>>

Tick ==
  /\ now < MaxTime
  /\ now' = now + 1
  /\ UNCHANGED <<user, totp, codes, devices, sessions, seeds, job, accepted, delivered, events>>

Login(h) ==
  \/ \E p \in {None} \cup {s \in Sids : Row(s)}, d \in {None} \cup devices : ReadLoginState(h, p, d)
  \/ CreateReplacing(h)

\* The operations on the account's factors.  Each consumes its factor first,
\* except the confirmation, which rotates the session before it enrols.
VerifyChallenge(h, s) == Start(h, "challenge", s)
StepUp(h, s) == Start(h, "step_up", s)
ConfirmEnrollment(h, s) == Start(h, "confirm", s)
RegenerateBackupCodes(h, s) == Start(h, "regenerate", s)
Disable(h, s) == Start(h, "disable", s)
MfaProfile(h) ==
  \E s \in Sids :
    \/ VerifyChallenge(h, s) \/ StepUp(h, s) \/ ConfirmEnrollment(h, s)
    \/ RegenerateBackupCodes(h, s) \/ Disable(h, s)

Handle(h) ==
  \/ Login(h) \/ MfaProfile(h)
  \/ Consume(h) \/ Refuse(h) \/ RememberDevice(h)
  \/ Load(h) \/ Rotate(h)
  \/ ConfirmTotp(h) \/ ReplaceBackupCodes(h) \/ ClearMfaState(h)
  \/ Crash(h)

Next ==
  \/ \E h \in Handlers : Handle(h)
  \/ \E s \in Sids : BeginTotp(s) \/ Invalidate(s) \/ Delete(s) \/ BindClient(s)
  \/ SetActive \/ ExpireDevices \/ Tick

Spec == Init /\ [][Next]_vars

(***************************************************************************)
(* Properties                                                              *)
(***************************************************************************)

\* Records have their shape, and a session that waits for its second factor has
\* no evidence of one.
TypeOK ==
  /\ now \in 1..MaxTime /\ seeds \in 1..MaxSeed /\ events \in 0..MaxEvents
  /\ user \in [active : BOOLEAN, epoch : 0..MaxEvents, mfa : BOOLEAN]
  /\ totp = None \/ totp \in [gen : 1..MaxSeed, seed : 1..MaxSeed, confirmed : BOOLEAN,
                              last : 0..(MaxTime + 1)]
  /\ \A s \in Sids : Row(s) => ~(sessions[s].pending /\ sessions[s].mfa)

\* What the account keeps is of one enrolment: MFA is on exactly while a
\* confirmed credential exists, and every backup code and remembered device was
\* issued under that credential, whatever removal and new enrolment raced with
\* the request that wrote it.
FactorsOfGeneration ==
  /\ user.mfa <=> Confirmed
  /\ \A x \in codes \cup devices : Confirmed /\ x.gen = totp.gen

\* One factor raises one session once: no code is accepted twice, every
\* delivered step-up has an accepted factor of its own, and no session is
\* rotated into two however many requests present it at the same time.
StepUpBacked ==
  /\ \A a, b \in accepted : a.factor = b.factor => a = b
  /\ \A d \in delivered : \E a \in accepted : a.factor = d.factor
  /\ \A d, e \in delivered : d.factor = e.factor \/ d.from = e.from => d = e
=============================================================================
