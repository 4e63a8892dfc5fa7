-------------------------- MODULE CodeRedemption --------------------------
(* Redemption of authorization codes at the token endpoint.  A code lives in   *)
(* two stores.  The Valkey entry leases it (pending, consuming, failed, and    *)
(* gone after its TTL); it can be lost, and a failover can bring back a state  *)
(* it has left.  The row of oauth_token_issuances is the receipt: only its     *)
(* insert redeems the code, and it names the tokens that a replay revokes.     *)
(*                                                                             *)
(* token_authorization_code_with_service awaits between its steps: it reads    *)
(* the entry, leases it, reads principals and signs, commits one transaction,  *)
(* and cleans the entry up.  Any request may stop for good at any await.       *)
EXTENDS Naturals, FiniteSets

CONSTANTS
    Requests,   \* token requests that may be in flight together
    Codes,      \* authorization codes
    Keys,       \* DPoP keys; the key "none" is a bearer presentation
    Presented,  \* what the requests may present: a subset of Facts
    CodeTTL,    \* auth_code_ttl_seconds
    AccessTTL,  \* access_token_ttl_seconds
    Skew,       \* MAX_ACCESS_TOKEN_CLOCK_SKEW_SECONDS
    MaxId, MaxTime   \* bounds of the model

(* What a request proves: whose client credentials it carries, whether its     *)
(* PKCE verifier fits the code, and the key of its sender proof.               *)
Facts ==
    [client : {"own", "other"}, verifier : {"right", "wrong"},
     key : Keys \cup {"none"}]

ASSUME ConstantsAssumption ==
    /\ Presented \subseteq Facts
    /\ "none" \notin Keys
    /\ CodeTTL \in Nat /\ AccessTTL \in Nat /\ Skew \in Nat
    /\ MaxId \in Nat /\ MaxTime \in Nat

VARIABLES
    clock,     \* the clock every node, Valkey and the database read
    code,      \* approved payload of each code and its publication
    entry,     \* the Valkey entry of each code
    subject,   \* whether client and user are active
    receipts,  \* single-use rows of oauth_token_issuances
    revoked,   \* access_token_revocations
    dead,      \* refresh families revoked by a replay, by issuance
    nextId,    \* next UUIDv7 issuance id
    req,       \* requests in flight
    issued     \* history: the issuances that committed

vars == <<clock, code, entry, subject, receipts, revoked, dead, nextId, req,
          issued>>

Ids      == 1..MaxId
Times    == 0..MaxTime
Expiries == 0..(MaxTime + AccessTTL)
Horizon  == 0..(MaxTime + CodeTTL + AccessTTL + Skew)

CodeRow ==
    [stage : {"none", "approved", "published"}, expires : Horizon,
     bound : Keys \cup {"none"}, until : Horizon]

Entry == [state : {"absent", "pending", "consuming", "failed"}, until : Horizon]

Gone == [state |-> "absent", until |-> 0]

Receipt ==
    [code : Codes, client : {"own", "other"}, key : Keys \cup {"none"},
     id : Ids, expires : Expiries, retain : Horizon]

Issuance == [code : Codes, id : Ids, facts : Facts, expires : Expiries]

(* stage: where the handler is.  pending: what it first read of the entry.     *)
(* then: what follows the receipt lookup, refusing the request or marking the  *)
(* entry failed first.  id: the issuance whose receipt it found.  expires: the  *)
(* deadline of the access token it signed.                                     *)
Request ==
    [stage : {"idle", "loaded", "lookup", "revoking", "begun", "prepared",
              "committed", "marking", "refused"},
     code : Codes \cup {"none"}, facts : Facts,
     pending : {"fresh", "expired", "none"},
     then : {"refuse", "mark"}, id : Ids \cup {0}, expires : Expiries]

Idle ==
    [stage |-> "idle", code |-> "none",
     facts |-> [client |-> "other", verifier |-> "wrong", key |-> "none"],
     pending |-> "none", then |-> "refuse", id |-> 0, expires |-> 0]

(* Type correctness of the code entries, the receipts and the handlers: no    *)
(* entry carries a state that the code handler does not write.                *)
TypeOK ==
    /\ clock \in Times
    /\ code \in [Codes -> CodeRow]
    /\ entry \in [Codes -> Entry]
    /\ subject \in {"active", "inactive"}
    /\ receipts \subseteq Receipt
    /\ revoked \subseteq [id : Ids, until : Horizon]
    /\ dead \subseteq Ids
    /\ nextId \in 1..(MaxId + 1)
    /\ req \in [Requests -> Request]
    /\ issued \subseteq Issuance

Init ==
    /\ clock = 0
    /\ \E b \in Keys \cup {"none"} :
        code = [c \in Codes |-> [stage |-> "none", expires |-> 0, bound |-> b,
                                 until |-> 0]]
    /\ entry = [c \in Codes |-> Gone]
    /\ subject = "active"
    /\ receipts = {} /\ revoked = {} /\ dead = {}
    /\ nextId = 1
    /\ req = [q \in Requests |-> Idle]
    /\ issued = {}

-----------------------------------------------------------------------------
(* What the queries and the scripts see.                                      *)

(* A key past its TTL is missing.                                              *)
Cached(c) == IF entry[c].until > clock THEN entry[c].state ELSE "absent"

Expired(c) == code[c].expires <= clock

(* validate_pending_authorization_code_request and the sender proof against    *)
(* the payload's own binding.                                                  *)
Proves(f, c) ==
    /\ f.client = "own"
    /\ f.verifier = "right"
    /\ code[c].bound = "none" \/ f.key = code[c].bound

(* Mutant: an unneeded proof must be absent as well.                           *)
MatchesExactly(f, client, key) ==
    f.client = client /\ f.verifier = "right" /\ f.key = key

(* holder_matches_original: a proof the original did not need is ignored.      *)
Matches(f, client, key) ==
    /\ f.client = client
    /\ f.verifier = "right"
    /\ key = "none" \/ f.key = key

(* Mutant: any holder of the code finds its receipt.                           *)
EvidenceOfAnyone(c, f) == {r \in receipts : r.code = c /\ r.retain > clock}

(* single_use_redemption, then the holder check of                             *)
(* committed_single_use_redemption.                                            *)
Evidence(c, f) ==
    {r \in receipts : /\ r.code = c
                      /\ r.retain > clock
                      /\ Matches(f, r.client, r.key)}

(* Mutant: the receipt lapses with the code.                                   *)
RetentionOfGrant(c, expires) == code[c].expires

(* A receipt is retained until the token's acceptance window and the grant's   *)
(* own deadline have both closed.                                              *)
Retention(c, expires) ==
    IF expires + Skew > code[c].expires THEN expires + Skew ELSE code[c].expires

Accepted(i) == clock < i.expires + Skew /\ \A r \in revoked : r.id # i.id

Goto(q, s) == req' = [req EXCEPT ![q] = [req[q] EXCEPT !.stage = s]]

Lookup(q, then) ==
    req' = [req EXCEPT ![q] = [req[q] EXCEPT !.stage = "lookup", !.then = then]]

Finish(q) == req' = [req EXCEPT ![q] = Idle]

-----------------------------------------------------------------------------
(* The authorization endpoint.                                                *)

(* prepare_authorization_code inside a committed decision.                     *)
Approve(c) ==
    /\ code[c].stage = "none"
    /\ code' = [code EXCEPT ![c] = [code[c] EXCEPT !.stage = "approved",
                                                  !.expires = clock + CodeTTL]]
    /\ UNCHANGED <<clock, entry, subject, receipts, revoked, dead, nextId, req,
                   issued>>

(* store_authorization_code: the TTL starts when the entry is written, so the  *)
(* entry can outlive the payload's own deadline.                               *)
Publish(c) ==
    /\ code[c].stage = "approved"
    /\ code' = [code EXCEPT ![c] = [code[c] EXCEPT !.stage = "published",
                                                  !.until = clock + CodeTTL]]
    /\ entry' = [entry EXCEPT ![c] = [state |-> "pending", until |-> clock + CodeTTL]]
    /\ UNCHANGED <<clock, subject, receipts, revoked, dead, nextId, req, issued>>

-----------------------------------------------------------------------------
(* The token endpoint.                                                        *)

(* The entry is read and a pending payload is validated; a payload that fails  *)
(* validation ends the request here, with the code still pending.              *)
Present(q, c, f) ==
    LET pending == IF Cached(c) # "pending" THEN "none"
                   ELSE IF Expired(c) THEN "expired" ELSE "fresh"
    IN  /\ req[q].stage = "idle"
        /\ code[c].stage = "published"
        /\ pending # "none" => f.client = "own"
        /\ pending = "fresh" => Proves(f, c)
        /\ req' = [req EXCEPT ![q] =
                     [Idle EXCEPT !.stage = "loaded", !.code = c, !.facts = f,
                                  !.pending = pending]]
        /\ UNCHANGED <<clock, code, entry, subject, receipts, revoked, dead,
                       nextId, issued>>

(* A pending payload that has expired by now is replay evidence only.          *)
FindExpired(q) ==
    /\ req[q].stage = "loaded"
    /\ \/ req[q].pending = "expired"
       \/ req[q].pending = "fresh" /\ Expired(req[q].code)
    /\ Lookup(q, "refuse")
    /\ UNCHANGED <<clock, code, entry, subject, receipts, revoked, dead, nextId,
                   issued>>

(* BEGIN_AUTHORIZATION_CODE_CONSUMPTION_SCRIPT.  SET ... KEEPTTL keeps the     *)
(* entry's deadline.  A reply that is lost leaves the lease behind.            *)
Begin(q) ==
    LET c == req[q].code
    IN  /\ req[q].stage = "loaded"
        /\ \/ req[q].pending = "none"
           \/ req[q].pending = "fresh" /\ ~Expired(c)
        /\ \/ /\ Cached(c) = "pending"
              /\ entry' = [entry EXCEPT ![c] = [entry[c] EXCEPT !.state = "consuming"]]
              /\ Goto(q, "begun") \/ Finish(q)
           \/ /\ Cached(c) # "pending"
              /\ Lookup(q, "refuse")
              /\ UNCHANGED entry
        /\ UNCHANGED <<clock, code, subject, receipts, revoked, dead, nextId,
                       issued>>

(* Mutant: a payload that came back after the first read is trusted.           *)
AdmitUnread(q) ==
    LET c == req[q].code
    IN  /\ req[q].stage = "begun"
        /\ \/ Expired(c) /\ Lookup(q, "mark")
           \/ ~Expired(c) /\ Goto(q, "marking")
           \/ /\ ~Expired(c) /\ subject = "active"
              /\ req' = [req EXCEPT ![q] = [req[q] EXCEPT !.stage = "prepared",
                                              !.expires = clock + AccessTTL]]
        /\ UNCHANGED <<clock, code, entry, subject, receipts, revoked, dead,
                       nextId, issued>>

(* The leased payload is checked again: it may have expired, and a failover    *)
(* may have restored it after this request's first read found nothing.         *)
(* Otherwise principals are read and the tokens are signed; each of those      *)
(* steps may fail and mark the code failed.                                    *)
Admit(q) ==
    LET c == req[q].code
    IN  /\ req[q].stage = "begun"
        /\ \/ Expired(c) /\ Lookup(q, "mark")
           \/ ~Expired(c) /\ Goto(q, "marking")
           \/ /\ ~Expired(c) /\ req[q].pending = "fresh" /\ subject = "active"
              /\ req' = [req EXCEPT ![q] = [req[q] EXCEPT !.stage = "prepared",
                                              !.expires = clock + AccessTTL]]
        /\ UNCHANGED <<clock, code, entry, subject, receipts, revoked, dead,
                       nextId, issued>>

(* Mutant: the insert does not compare the grant's deadline.                   *)
CommitUndated(q) ==
    LET r == req[q]
        c == r.code
    IN  /\ r.stage = "prepared"
        /\ subject = "active"
        /\ \A o \in receipts : o.code # c \/ o.client # r.facts.client
        /\ nextId \in Ids
        /\ receipts' = receipts \cup
             {[code |-> c, client |-> r.facts.client, key |-> r.facts.key,
               id |-> nextId, expires |-> r.expires,
               retain |-> Retention(c, r.expires)]}
        /\ issued' = issued \cup
             {[code |-> c, id |-> nextId, facts |-> r.facts,
               expires |-> r.expires]}
        /\ nextId' = nextId + 1
        /\ Goto(q, "committed") \/ Finish(q)
        /\ UNCHANGED <<clock, code, entry, subject, revoked, dead>>

(* commit_token_issuance: principals, single-use insert, deadline, refresh     *)
(* family and audit in one transaction.  A reply that is lost leaves the       *)
(* request without an answer and the entry leased.                             *)
Commit(q) ==
    LET r == req[q]
        c == r.code
    IN  /\ r.stage = "prepared"
        /\ subject = "active"
        /\ \A o \in receipts : o.code # c \/ o.client # r.facts.client
        /\ ~Expired(c)
        /\ nextId \in Ids
        /\ receipts' = receipts \cup
             {[code |-> c, client |-> r.facts.client, key |-> r.facts.key,
               id |-> nextId, expires |-> r.expires,
               retain |-> Retention(c, r.expires)]}
        /\ issued' = issued \cup
             {[code |-> c, id |-> nextId, facts |-> r.facts,
               expires |-> r.expires]}
        /\ nextId' = nextId + 1
        /\ Goto(q, "committed") \/ Finish(q)
        /\ UNCHANGED <<clock, code, entry, subject, revoked, dead>>

(* The transaction's other outcomes: ClientInactive, SubjectInactive and       *)
(* GrantExpired mark the code failed, AlreadyUsed reads the receipt.           *)
CommitRefused(q) ==
    LET r == req[q]
        used == \E o \in receipts : o.code = r.code /\ o.client = r.facts.client
    IN  /\ r.stage = "prepared"
        /\ \/ /\ subject = "inactive" \/ (~used /\ Expired(r.code))
              /\ Goto(q, "marking")
           \/ subject = "active" /\ used /\ Lookup(q, "refuse")
        /\ UNCHANGED <<clock, code, entry, subject, receipts, revoked, dead,
                       nextId, issued>>

(* finalize_authorization_code: the entry is deleted whatever its state.       *)
Finalize(q) ==
    /\ req[q].stage = "committed"
    /\ entry' = [entry EXCEPT ![req[q].code] = Gone]
    /\ Finish(q)
    /\ UNCHANGED <<clock, code, subject, receipts, revoked, dead, nextId, issued>>

(* Mutant: the lease ends in the retired marker.                               *)
MarkConsumed(q) ==
    /\ req[q].stage = "marking"
    /\ entry' = [entry EXCEPT ![req[q].code] = [state |-> "consumed",
                                                 until |-> clock + CodeTTL]]
    /\ Finish(q)
    /\ UNCHANGED <<clock, code, subject, receipts, revoked, dead, nextId, issued>>

(* MARK_AUTHORIZATION_CODE_SCRIPT: only a leased entry is marked.              *)
MarkFailed(q) ==
    LET c == req[q].code
    IN  /\ req[q].stage = "marking"
        /\ entry' = IF Cached(c) = "consuming"
                    THEN [entry EXCEPT ![c] = [state |-> "failed",
                                               until |-> clock + CodeTTL]]
                    ELSE entry
        /\ Finish(q)
        /\ UNCHANGED <<clock, code, subject, receipts, revoked, dead, nextId,
                       issued>>

(* No receipt, or one that belongs to another holder.  The request is refused, *)
(* after marking the entry failed if it holds the lease.                       *)
FindNothing(q) ==
    LET r == req[q]
    IN  /\ r.stage = "lookup"
        /\ Evidence(r.code, r.facts) = {}
        /\ \/ r.then = "refuse" /\ Goto(q, "refused")
           \/ r.then = "mark" /\ Goto(q, "marking")
        /\ UNCHANGED <<clock, code, entry, subject, receipts, revoked, dead,
                       nextId, issued>>

(* committed_single_use_redemption returns the receipt.                        *)
FindReceipt(q) ==
    /\ req[q].stage = "lookup"
    /\ \E o \in Evidence(req[q].code, req[q].facts) :
        req' = [req EXCEPT ![q] = [req[q] EXCEPT !.stage = "revoking", !.id = o.id,
                                                 !.expires = o.expires]]
    /\ UNCHANGED <<clock, code, entry, subject, receipts, revoked, dead, nextId,
                   issued>>

(* Mutant: the revocation fact lapses at exp.                                  *)
DeadlineAtExpiry(expires) == expires

(* access_token_revocation_deadline.                                           *)
RevocationDeadline(expires) == expires + Skew

(* revoke_issued_tokens: the access-token fact (its deadline only ever grows)  *)
(* and the family's revoked_at in one transaction.                             *)
RevokeReplayed(q) ==
    LET r == req[q]
        deadline == RevocationDeadline(r.expires)
    IN  /\ r.stage = "revoking"
        /\ revoked' = IF \E o \in revoked : o.id = r.id /\ o.until >= deadline
                      THEN revoked
                      ELSE {o \in revoked : o.id # r.id}
                           \cup {[id |-> r.id, until |-> deadline]}
        /\ dead' = dead \cup {r.id}
        /\ \/ r.then = "refuse" /\ Goto(q, "refused")
           \/ r.then = "mark" /\ Goto(q, "marking")
        /\ UNCHANGED <<clock, code, entry, subject, receipts, nextId, issued>>

(* The handler ends where it is: it has answered, or a storage error, a        *)
(* cancelled connection or a crash of the node cuts it short.                  *)
Abandon(q) ==
    /\ req[q].stage # "idle"
    /\ Finish(q)
    /\ UNCHANGED <<clock, code, entry, subject, receipts, revoked, dead, nextId,
                   issued>>

-----------------------------------------------------------------------------
(* The stores and the administrator.                                          *)

(* Valkey fails over to a replica that missed writes: the entry is back in a   *)
(* state it had before, or was never stored.                                   *)
Failover(c) ==
    /\ code[c].stage = "published"
    /\ \/ /\ clock < code[c].until
          /\ \E s \in {"pending", "consuming"} :
               entry' = [entry EXCEPT ![c] = [state |-> s, until |-> code[c].until]]
       \/ entry' = [entry EXCEPT ![c] = Gone]
    /\ UNCHANGED <<clock, code, subject, receipts, revoked, dead, nextId, req,
                   issued>>

Deactivate ==
    /\ subject = "active"
    /\ subject' = "inactive"
    /\ UNCHANGED <<clock, code, entry, receipts, revoked, dead, nextId, req,
                   issued>>

(* nazo_oauth_cleanup_expired_security_state, on the two tables of this model. *)
(* A batch limit or a locked row leaves some of the due rows for a later call. *)
Reclaim ==
    /\ \E due \in SUBSET {r \in receipts : r.retain <= clock} :
        receipts' = receipts \ due
    /\ \E due \in SUBSET {r \in revoked : r.until <= clock} :
        revoked' = revoked \ due
    /\ UNCHANGED <<clock, code, entry, subject, dead, nextId, req, issued>>

Tick ==
    /\ clock < MaxTime
    /\ clock' = clock + 1
    /\ UNCHANGED <<code, entry, subject, receipts, revoked, dead, nextId, req,
                   issued>>

Next ==
    \/ \E c \in Codes : Approve(c) \/ Publish(c) \/ Failover(c)
    \/ \E q \in Requests, c \in Codes, f \in Presented : Present(q, c, f)
    \/ \E q \in Requests :
         \/ FindExpired(q) \/ Begin(q) \/ Admit(q)
         \/ Commit(q) \/ CommitRefused(q) \/ Finalize(q) \/ MarkFailed(q)
         \/ FindNothing(q) \/ FindReceipt(q) \/ RevokeReplayed(q) \/ Abandon(q)
    \/ Deactivate \/ Reclaim \/ Tick

Spec == Init /\ [][Next]_vars

-----------------------------------------------------------------------------
(* Properties.                                                                *)

(* A code is redeemed at most once, ever: the insert into                      *)
(* oauth_token_issuances under its unique key decides, and a receipt that was  *)
(* reclaimed leaves only a code that commit_token_issuance finds expired.  No  *)
(* failover of the entry, lost reply or slow request changes that.             *)
RedeemedOnce == \A i, j \in issued : i.code = j.code => i = j

(* Tokens are minted only to a request that proved, against the payload it was *)
(* minted from, its client, its PKCE verifier and the key the code is bound    *)
(* to; also when a failover restored the payload after the first read.         *)
ProofBeforeMint == \A i \in issued : Proves(i.facts, i.code)

(* While a minted access token can still be accepted, or its code could still  *)
(* be presented, the receipt that a replay would revoke it by is there.        *)
EvidenceOutlivesToken ==
    \A i \in issued :
        clock < i.expires + Skew \/ ~Expired(i.code) =>
            \E r \in receipts : r.id = i.id /\ r.retain > clock

(* A request that is refused without a receipt, or goes on to mark the code,   *)
(* while tokens of that code can be accepted, does not hold what the original  *)
(* one proved: a replay by the holder always reaches revoke_issued_tokens.     *)
HolderFinds ==
    \A q \in Requests, i \in issued :
        /\ req[q].stage = "lookup" /\ req'[q].stage \in {"refused", "marking"}
        /\ req[q].code = i.code
        /\ clock < i.expires + Skew
        => \/ req[q].facts.client # i.facts.client
           \/ req[q].facts.verifier = "wrong"
           \/ i.facts.key \notin {"none", req[q].facts.key}

ReplayRevoked == [][HolderFinds]_vars

(* Tokens revoked for a replay are not accepted again, however late the        *)
(* cleanup of access_token_revocations and whatever the clock skew.            *)
RevocationHolds == \A i \in issued : i.id \in dead => ~Accepted(i)

(* Tokens are revoked only for a request that re-proved what the original one  *)
(* proved: the receipt is no oracle or lever for another holder of the code.   *)
HolderRevokes ==
    \A i \in issued :
        i.id \in dead' \ dead =>
            \E q \in Requests :
                /\ req[q].stage = "revoking" /\ req[q].code = i.code
                /\ req[q].facts.client = i.facts.client
                /\ req[q].facts.verifier = "right"
                /\ i.facts.key \in {"none", req[q].facts.key}

OnlyHolderRevokes == [][HolderRevokes]_vars

(* Every minted token is guarded from its issue to its end: it went to the     *)
(* proven holder, a replay of its code finds the receipt to revoke it by, and  *)
(* once revoked it is not accepted again.                                      *)
TokensGuarded == ProofBeforeMint /\ EvidenceOutlivesToken /\ RevocationHolds

(* A replay revokes the tokens of its code exactly when it comes from their    *)
(* holder.                                                                     *)
ReplaysAnswered == ReplayRevoked /\ OnlyHolderRevokes

(* The two stores together implement a single-use grant: oauth_token_issuances *)
(* may forget receipts, the entry may change at will, and still every code is  *)
(* redeemed once and revoked tokens stay revoked.                              *)
SU == INSTANCE SingleUseGrant WITH
        Grants <- Codes, Issuances <- Ids,
        minted <- {<<i.code, i.id>> : i \in issued}, dead <- dead

(* The redemption of codes implements SingleUseGrant.                          *)
ImplementsSingleUse == SU!Spec
=============================================================================
