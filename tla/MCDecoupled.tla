----------------------------- MODULE MCDecoupled ----------------------------
(***************************************************************************)
(* The decoupled grants: device authorization and CIBA.  Every behaviour   *)
(* follows one flow.  Device: two workers decide for two users and the     *)
(* device redeems; its polls before the approval are left to Polled, with  *)
(* one decision.  Grant: two CIBA decisions race a poll and                *)
(* the deadline in either mode, while no ping worker runs.  Ping: one      *)
(* decision in ping mode, and three workers that deliver its ping with     *)
(* crashes and lapsed leases, while no poll redeems.                       *)
(***************************************************************************)
EXTENDS Naturals, FiniteSets, TLC

CONSTANTS None, h1, h2, u1, u2, w1, w2, w3

VARIABLE slice   \* the component a behaviour follows

VARIABLES
    clock, entry, expires, op, poll, intents, principals, fence, issued   \* of several components

VARIABLES   \* of DeviceGrant
    mapping, until, receipt, grants, written

VARIABLES   \* of CibaGrant
    queue, worker

deviceGrantVars == <<mapping, until, receipt, grants, written>>
cibaGrantVars == <<queue, worker>>

common == <<clock, entry, expires, op, poll, intents, principals, fence, issued>>

vars == <<slice, common, deviceGrantVars, cibaGrantVars>>

\* Ping mode with one decision: the two deciders are told apart by nothing,
\* so that only one of them need act.
OneDecision == \A d, e \in {h1, h2} : op[d] = op[e] /\ op[d].user = "o"

Turn(d) == \A e \in {h1, h2} \ {d} : op[e].pc = "idle"

Device == INSTANCE DeviceGrant WITH
    Deciders <- {h1, h2}, Nobody <- None, Users <- {u1, u2},
    Pollers <- {"p"}, TTL <- 2, Lag <- 1, ClaimTimeout <- 1, Interval <- 1,
    SlowDown <- 1, Attempts <- 4, Retention <- 1, MaxSlow <- 0, MaxTime <- 3

Polled == INSTANCE DeviceGrant WITH
    Deciders <- {h1}, Nobody <- None, Users <- {u1, u2}, Pollers <- {"p"},
    TTL <- 2, Lag <- 1, ClaimTimeout <- 1, Interval <- 1, SlowDown <- 1,
    Attempts <- 4, Retention <- 1, MaxSlow <- 1, MaxTime <- 3

Ciba == INSTANCE CibaGrant WITH
    Deciders <- {h1, h2}, Nobody <- None, Users <- {"o", "v"}, Owner <- "o",
    Pollers <- {"p"}, Workers <- {"w"}, Modes <- {"poll", "ping"}, TTL <- 1,
    Retain <- 1, Interval <- 1, SlowDown <- 1, Attempts <- 4, Lock <- 1,
    Backoff <- <<1, 1>>, Retention <- 1, MaxSlow <- 1, MaxTime <- 2

Ping == INSTANCE CibaGrant WITH
    Deciders <- {h1, h2}, Nobody <- None, Users <- {"o", "v"}, Owner <- "o",
    Pollers <- {"p"}, Workers <- {w1, w2, w3}, Modes <- {"poll", "ping"},
    TTL <- 2, Retain <- 1, Interval <- 1, SlowDown <- 1, Attempts <- 4,
    Lock <- 1, Backoff <- <<1, 1>>, Retention <- 1, MaxSlow <- 1,
    MaxTime <- 4

NoDeviceGrant ==
    /\ mapping = None /\ until = None /\ receipt = None /\ grants = None
    /\ written = None

NoCibaGrant ==
    /\ queue = None /\ worker = None

Init ==
    \/ /\ slice = "device"
       /\ Device!Init
       /\ NoCibaGrant
    \/ /\ slice = "polled"
       /\ Polled!Init
       /\ NoCibaGrant
    \/ /\ slice = "grant"
       /\ Ciba!Init
       /\ NoDeviceGrant
    \/ /\ slice = "ping"
       /\ Ping!Init /\ OneDecision
       /\ NoDeviceGrant

Next ==
    /\ UNCHANGED slice
    /\ \/ /\ slice = "device"
          /\ /\ Device!Next
             /\ poll["p"].pc # poll'["p"].pc => entry.st = "approved"
          /\ UNCHANGED <<cibaGrantVars>>
       \/ /\ slice = "polled"
          /\ Polled!Next
          /\ UNCHANGED <<cibaGrantVars>>
       \/ /\ slice = "grant"
          /\ \/ \E mode \in {"poll", "ping"} : Ciba!Create(mode)
             \/ \E d \in {h1, h2} : Ciba!DecideStep(d)
             \/ Ciba!PollStep("p") \/ Ciba!Deactivate \/ Ciba!PurgeIssuance \/ Ciba!Tick
          /\ UNCHANGED <<deviceGrantVars>>
       \/ /\ slice = "ping"
          /\ \/ Ping!Create("ping")
             \/ \E d \in {h1, h2} : Turn(d) /\ Ping!DecideStep(d)
             \/ Ping!PollRead("p") \/ Ping!PollTouch("p") \/ Ping!PollDiscard("p")
             \/ \E w \in {w1, w2, w3} : Ping!Deliver(w) \/ Ping!WorkerCrash(w)
             \/ Ping!Tick
          /\ UNCHANGED <<deviceGrantVars>>

Spec == Init /\ [][Next]_vars

Symmetry == Permutations({h1, h2}) \cup Permutations({w1, w2, w3}) \cup
    Permutations({u1, u2})

ASSUME SettingsHold ==
    Device!Settings /\ Polled!Settings /\ Ciba!Settings /\ Ping!Settings

-----------------------------------------------------------------------------
\* Device authorization: the grant of a device code is written at most once,
\* tokens are issued only for an approval whose intent was audited and whose
\* grant was written for the same user, and no decision shows before the
\* ledger acknowledged its intent; whatever the workers that claim, stall and
\* lose their claims do (device_grant.rs, commit_device_approval).
DeviceGrantSound ==
    /\ slice = "device" =>
         /\ Device!TypeOK /\ Device!GrantWrittenOnce
         /\ Device!TokenBacked /\ Device!DecisionAudited
    /\ slice = "polled" =>
         /\ Polled!TypeOK /\ Polled!GrantWrittenOnce
         /\ Polled!TokenBacked /\ Polled!DecisionAudited

\* Backchannel authorization: tokens are issued only for an audited approval
\* of the user the request named, the ping queue and the entry agree after
\* every script, and no two workers deliver one ping while both hold it
\* (ciba.rs, CLAIM_DUE_PING_SCRIPT, FINISH_PING_SCRIPT).
PingSound ==
    /\ slice = "grant" => Ciba!TypeOK /\ Ciba!TokenBacked /\ Ciba!QueueMatches
    /\ slice = "ping" => Ping!TypeOK /\ Ping!QueueMatches /\ Ping!LeaseExclusive

\* Both decoupled grants issue tokens for what their user approved, and only
\* for that.
DecoupledSound == DeviceGrantSound /\ PingSound

\* A decision is taken before the deadline of its request and is final: no
\* poll, late worker or second decision changes it, and from the first claim
\* on an approval stays that of the user who made it.
DecisionsHold ==
    [][/\ slice = "device" => Device!DecisionFinal /\ Device!ClaimKept
       /\ slice = "polled" => Polled!DecisionFinal /\ Polled!ClaimKept
       /\ slice = "grant" => Ciba!DecisionFinal /\ Ciba!DecidedInTime
       /\ slice = "ping" => Ping!DecisionFinal /\ Ping!DecidedInTime]_vars

\* Issuances are numbered in order; a second one is already too many.
Tokens == INSTANCE SingleUseGrant WITH
    Grants <- {"code"}, Issuances <- {1, 2}, minted <- {<<"code", i>> : i \in DOMAIN issued},
    dead <- {}

\* Polls leave an approved entry in place, so only the issuance receipt makes
\* a device code or an auth_req_id single-use: both flows implement
\* SingleUseGrant.
ImplementsSingleUse == Tokens!Spec
=============================================================================
