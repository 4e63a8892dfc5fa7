------------------------- MODULE ControllerIdentity -------------------------
(***************************************************************************)
(* Who may operate a deployment: the controller slots, the single-use      *)
(* approvals that gate every change of them, the Recovery Root and the     *)
(* break-glass challenges (controller_registry/{mod,slots,approvals}.rs,   *)
(* recovery_root.rs and the HTTP layers above them).                       *)
(*                                                                         *)
(* A request reads the clock and checks its caller first (job[h].at); its  *)
(* transaction runs later under the deployment identity lock, so it is one *)
(* action.  A refused transaction rolls everything back.  The failed       *)
(* attempt of a recovery answer is counted by a statement of its own,      *)
(* after that rollback.                                                    *)
(***************************************************************************)
EXTENDS Integers, Sequences, FiniteSets, FiniteSetsExt

CONSTANTS
    Handlers,       \* requests in flight
    Changes,        \* identity changes that may be proposed
    Proposals,      \* recovery proposals: [nonce, kid, next]
    Roots,          \* recovery keys some operator holds
    SlotIndices,    \* SLOT_INDEX_RANGE
    KeyTtl,         \* CONTROLLER_KEY_TTL_SECONDS
    ApprovalTtl,    \* IDENTITY_APPROVAL_TTL_SECONDS
    ChallengeTtl,   \* RECOVERY_CHALLENGE_TTL_SECONDS
    MaxAttempts,    \* MAX_RECOVERY_CHALLENGE_ATTEMPTS
    First,          \* the bind that enrolled the deployment, or None
    MaxApprovals, MaxChallenges, MaxTime, MaxEvents,
    None

VARIABLES
    now,
    actor,       \* the administrator: "fresh" (recent MFA), "admin" or "removed"
    slots,       \* controller_registry_slots, indexed by controller id
    approvals,   \* controller_identity_approvals, indexed by token
    roots,       \* controller_recovery_root_key_history; the last one is the root
    challenges,  \* controller_recovery_challenges, indexed by challenge id
    job,
    events

vars == <<now, actor, slots, approvals, roots, challenges, job, events>>

-----------------------------------------------------------------------------
(* Changes and their validation.                                           *)

\* IdentityChange: the digest an approval is bound to covers every field
\* (action_sha256), so the change stands for its own digest.
SlotActions == {"bind", "add", "rotate", "revoke"}

\* ApprovalRequestBody::change: each action takes its own fields and no other.
FieldsOf(c) ==
    /\ (c.root # None) = (c.action \in {"bind", "root"})
    /\ (c.target # None) = (c.action \in {"rotate", "revoke"})
    /\ (c.kid # None) = (c.action \in {"bind", "add", "rotate"})

\* IdentityChange::validate and the field rules under it.
WellFormed(c) == c.action \in SlotActions /\ FieldsOf(c)

\* validate_rotation_request: a Recovery Root change names the next key.
WellFormedRoot(c) == c.action = "root" /\ FieldsOf(c)

Active(i) == slots[i].status = "active"
ActiveSlots == {i \in DOMAIN slots : Active(i)}

\* admitted_controllers: an expired key fails exactly at the boundary.
Admitted(at) == {i \in ActiveSlots : slots[i].expires > at}

FreeIndices == SlotIndices \ {slots[i].index : i \in ActiveSlots}

\* ux_controller_registry_slots_deployment_kid also covers revoked slots.
KidFree(kid, except) == \A i \in DOMAIN slots \ except : slots[i].kid # kid

CurrentRoot == IF roots = <<>> THEN None ELSE roots[Len(roots)]

\* Only the key being replaced is compared.
DiffersFromCurrent(key) == CurrentRoot # key

\* record_fresh_root_key_on_connection: a key serves one generation only.
FreshRoot(key) == \A g \in DOMAIN roots : roots[g] # key

\* insert_slot_on_connection at the lowest free index.
NewSlot(kid, at) ==
    [kid |-> kid, index |-> Min(FreeIndices), expires |-> at + KeyTtl,
     status |-> "active", revoked |-> None]

Revoked(s, at) == [s EXCEPT !.status = "revoked", !.revoked = at]

-----------------------------------------------------------------------------
(* Requests.                                                               *)

Idle(h) == job[h] = None
Open(h, request) == Idle(h) /\ job' = [job EXCEPT ![h] = request]
Close(h) == job' = [job EXCEPT ![h] = None]

\* An approval is asked for with a recent second factor; its transaction
\* comes later.
BeginApproval(h, c) ==
    /\ actor = "fresh"
    /\ Len(approvals) < MaxApprovals
    /\ Open(h, [op |-> "approve", at |-> now, change |-> c])
    /\ UNCHANGED <<now, actor, slots, approvals, roots, challenges, events>>

\* admin_controller_approval.
ControllerApproval(h, c) == WellFormed(c) /\ BeginApproval(h, c)

\* admin_recovery_root_approval.
RecoveryRootApproval(h, c) == WellFormedRoot(c) /\ BeginApproval(h, c)

\* A commit needs an administrator session and an approval token.
BeginCommit(h, token, c) ==
    /\ actor # "removed"
    /\ Open(h, [op |-> "commit", at |-> now, change |-> c, token |-> token])
    /\ UNCHANGED <<now, actor, slots, approvals, roots, challenges, events>>

\* admin_controller_slot_commit.
SlotCommit(h, token, c) ==
    c.action \in {"bind", "add"} /\ WellFormed(c) /\ BeginCommit(h, token, c)

\* admin_controller_slot_rotate.
SlotRotate(h, token, c) == c.action = "rotate" /\ WellFormed(c) /\ BeginCommit(h, token, c)

\* admin_controller_slot_revoke.
SlotRevoke(h, token, c) == c.action = "revoke" /\ WellFormed(c) /\ BeginCommit(h, token, c)

\* admin_recovery_root_rotate.
RootRotate(h, token, c) == WellFormedRoot(c) /\ BeginCommit(h, token, c)

\* The challenge endpoints take no session, only a recovery secret.
BeginChallenge(h, p, signer) ==
    /\ Open(h, [op |-> "challenge", at |-> now, proposal |-> p, signer |-> signer])
    /\ UNCHANGED <<now, actor, slots, approvals, roots, challenges, events>>

BeginRecovery(h, id, signer, nonceHeld) ==
    /\ Open(h, [op |-> "recover", at |-> now, id |-> id, signer |-> signer,
                nonceHeld |-> nonceHeld])
    /\ UNCHANGED <<now, actor, slots, approvals, roots, challenges, events>>

-----------------------------------------------------------------------------
(* Approvals and approved changes.                                         *)

\* issue_identity_approval_owned: authorize_actor re-reads the administrator.
IssueApproval(h) ==
    /\ job[h].op = "approve"
    /\ actor # "removed"
    /\ approvals' = Append(approvals,
           [change |-> job[h].change, expires |-> job[h].at + ApprovalTtl, used |-> FALSE])
    /\ Close(h)
    /\ UNCHANGED <<now, actor, slots, roots, challenges, events>>

\* consume_approval_on_connection: known, unused, unexpired, exactly this change.
Redeems(token, c, at) ==
    /\ token \in DOMAIN approvals
    /\ ~approvals[token].used
    /\ approvals[token].expires > at
    /\ approvals[token].change = c

\* commit_slot_creation_owned: a bind also enrolls the first Recovery Root.
CreateSlot(c, at) ==
    /\ c.action \in {"bind", "add"}
    /\ c.action = "bind" => roots = <<>>
    /\ FreeIndices # {}
    /\ KidFree(c.kid, {})
    /\ slots' = Append(slots, NewSlot(c.kid, at))
    /\ roots' = IF c.action = "bind" THEN <<c.root>> ELSE roots
    /\ UNCHANGED challenges

\* rotate_slot_on_connection: a new key and a new term for an active slot.
RotateSlot(c, at) ==
    /\ c.action = "rotate"
    /\ c.target \in ActiveSlots
    /\ KidFree(c.kid, {c.target})
    /\ slots' = [slots EXCEPT ![c.target].kid = c.kid, ![c.target].expires = at + KeyTtl]
    /\ UNCHANGED <<roots, challenges>>

\* revoke_slot_on_connection: terminal.
RevokeSlot(c, at) ==
    /\ c.action = "revoke"
    /\ c.target \in ActiveSlots
    /\ slots' = [slots EXCEPT ![c.target] = Revoked(@, at)]
    /\ UNCHANGED <<roots, challenges>>

\* replace_root_on_connection: a fresh key, and every open challenge closed.
ReplaceRoot(key, rows, at) ==
    /\ FreshRoot(key)
    /\ roots' = Append(roots, key)
    /\ challenges' = [i \in DOMAIN rows |->
           IF rows[i].consumed = None THEN [rows[i] EXCEPT !.consumed = at] ELSE rows[i]]

\* commit_rotation_owned of the Recovery Root.
RotateRoot(c, at) ==
    /\ c.action = "root"
    /\ ReplaceRoot(c.root, challenges, at)
    /\ UNCHANGED slots

Mutates(c, at) ==
    \/ CreateSlot(c, at) \/ RotateSlot(c, at) \/ RevokeSlot(c, at) \/ RotateRoot(c, at)

\* The approval is consumed in the transaction of the change it authorises.
CommitChange(h) ==
    /\ job[h].op = "commit"
    /\ actor # "removed"
    /\ Redeems(job[h].token, job[h].change, job[h].at)
    /\ Mutates(job[h].change, job[h].at)
    /\ approvals' = [approvals EXCEPT ![job[h].token].used = TRUE]
    /\ Close(h)
    /\ UNCHANGED <<now, actor, events>>

-----------------------------------------------------------------------------
(* Break-glass recovery.                                                   *)

\* Expired challenges free the pending slot and keep their nonce as evidence.
Lapsed(at) ==
    [i \in DOMAIN challenges |->
        IF challenges[i].consumed = None /\ challenges[i].expires <= at
        THEN [challenges[i] EXCEPT !.consumed = challenges[i].expires] ELSE challenges[i]]

Pending(rows) == {i \in DOMAIN rows : rows[i].consumed = None}
OfNonce(rows, n) == {i \in DOMAIN rows : rows[i].proposal.nonce = n}

\* issue_recovery_challenge: proof by the current root, no admitted key left,
\* the nonce unused and no other challenge pending; a repeat of the pending
\* allocation answers with that one.
IssueChallenge(h) ==
    LET at == job[h].at
        p == job[h].proposal
        rows == Lapsed(at)
    IN /\ job[h].op = "challenge"
       /\ job[h].signer = CurrentRoot
       /\ Admitted(at) = {}
       /\ \/ /\ Pending(rows) = {}
             /\ OfNonce(rows, p.nonce) = {}
             /\ Len(challenges) < MaxChallenges
             /\ challenges' = Append(rows, [proposal |-> p, attempts |-> 0,
                    expires |-> at + ChallengeTtl, consumed |-> None, receipt |-> None])
          \/ /\ \E i \in Pending(rows) : rows[i].proposal = p
             /\ challenges' = rows
       /\ Close(h)
       /\ UNCHANGED <<now, actor, slots, approvals, roots, events>>

\* The recovery that trusts the check made when its challenge was issued.
NoneAdmittedAssumed(at) == TRUE

\* Checked again inside the recovery's transaction.
NoneAdmitted(at) == Admitted(at) = {}

Answerable(id, at) ==
    /\ id \in DOMAIN challenges
    /\ challenges[id].consumed = None
    /\ challenges[id].expires > at

\* verify_challenge_signature reads the root stored now, under the lock.
Proves(h) == job[h].nonceHeld /\ job[h].signer = CurrentRoot

\* submit_recovery_challenge, accepted: every active slot revoked, one new
\* slot, the next root, and the receipt that answers an exact retry.
AcceptRecovery(h) ==
    LET at == job[h].at
        id == job[h].id
        p == challenges[id].proposal
        cleared == [i \in DOMAIN slots |-> IF Active(i) THEN Revoked(slots[i], at) ELSE slots[i]]
        slot == [kid |-> p.kid, index |-> Min(SlotIndices), expires |-> at + KeyTtl,
                 status |-> "active", revoked |-> None]
    IN /\ job[h].op = "recover"
       /\ Answerable(id, at)
       /\ Proves(h)
       /\ NoneAdmitted(at)
       /\ KidFree(p.kid, {})
       /\ slots' = Append(cleared, slot)
       /\ ReplaceRoot(p.next, [challenges EXCEPT ![id].consumed = at,
              ![id].receipt = [slot |-> Len(slots) + 1, generation |-> Len(roots) + 1,
                               signer |-> job[h].signer]], at)
       /\ Close(h)
       /\ UNCHANGED <<now, actor, approvals, events>>

\* NonceMismatch and InvalidSignature: rolled back, then counted.
RejectRecovery(h) ==
    /\ job[h].op = "recover"
    /\ Answerable(job[h].id, job[h].at)
    /\ ~Proves(h)
    /\ job' = [job EXCEPT ![h].op = "count"]
    /\ UNCHANGED <<now, actor, slots, approvals, roots, challenges, events>>

\* record_failed_attempt: the attempt that reaches the cap ends the challenge.
RecordFailedAttempt(h) ==
    LET id == job[h].id
        at == job[h].at
        tried == challenges[id].attempts + 1
    IN /\ job[h].op = "count"
       /\ challenges' = IF Answerable(id, at) /\ challenges[id].attempts < MaxAttempts
                        THEN [challenges EXCEPT ![id].attempts = tried,
                                  ![id].consumed = IF tried >= MaxAttempts THEN at ELSE @]
                        ELSE challenges
       /\ Close(h)
       /\ UNCHANGED <<now, actor, slots, approvals, roots, events>>

\* The byte-identical answer of an accepted recovery reads its receipt back.
ReturnReceipt(h) ==
    /\ job[h].op = "recover"
    /\ job[h].nonceHeld
    /\ job[h].id \in DOMAIN challenges
    /\ challenges[job[h].id].receipt # None
    /\ challenges[job[h].id].receipt.signer = job[h].signer
    /\ Close(h)
    /\ UNCHANGED <<now, actor, slots, approvals, roots, challenges, events>>

\* Every other outcome is a refusal that changes nothing.
Refuse(h) ==
    /\ ~Idle(h)
    /\ Close(h)
    /\ UNCHANGED <<now, actor, slots, approvals, roots, challenges, events>>

-----------------------------------------------------------------------------
(* Time and the administrator.                                             *)

Tick ==
    /\ now < MaxTime
    /\ now' = now + 1
    /\ UNCHANGED <<actor, slots, approvals, roots, challenges, job, events>>

\* The MFA step-up ages, is repeated, or the account loses its role.
ActorChanges ==
    /\ events < MaxEvents
    /\ actor # "removed"
    /\ actor' \in {"fresh", "admin", "removed"} \ {actor}
    /\ events' = events + 1
    /\ UNCHANGED <<now, slots, approvals, roots, challenges, job>>

\* A new deployment, or one whose first controller was bound at time 0.
Init ==
    /\ now = 0
    /\ actor = "fresh"
    /\ slots = IF First = None THEN <<>>
               ELSE <<[kid |-> First.kid, index |-> Min(SlotIndices), expires |-> KeyTtl,
                       status |-> "active", revoked |-> None]>>
    /\ approvals = IF First = None THEN <<>>
                   ELSE <<[change |-> First, expires |-> ApprovalTtl, used |-> TRUE]>>
    /\ roots = IF First = None THEN <<>> ELSE <<First.root>>
    /\ challenges = <<>>
    /\ job = [h \in Handlers |-> None]
    /\ events = 0

Begin(h) ==
    \/ \E c \in Changes : ControllerApproval(h, c) \/ RecoveryRootApproval(h, c)
    \/ \E c \in Changes, token \in DOMAIN approvals :
           \/ SlotCommit(h, token, c) \/ SlotRotate(h, token, c)
           \/ SlotRevoke(h, token, c) \/ RootRotate(h, token, c)
    \/ \E p \in Proposals, r \in Roots : BeginChallenge(h, p, r)
    \/ \E id \in DOMAIN challenges, r \in Roots, held \in BOOLEAN :
           BeginRecovery(h, id, r, held)

Finish(h) ==
    /\ ~Idle(h)
    /\ \/ IssueApproval(h) \/ CommitChange(h) \/ IssueChallenge(h)
       \/ AcceptRecovery(h) \/ RejectRecovery(h) \/ RecordFailedAttempt(h)
       \/ ReturnReceipt(h) \/ Refuse(h)

Next == Tick \/ ActorChanges \/ \E h \in Handlers : Begin(h) \/ Finish(h)

Spec == Init /\ [][Next]_vars

-----------------------------------------------------------------------------
(* Properties.                                                             *)

\* Type correctness, with the slot bound the registry keeps: never two active
\* slots on one index and never one key enrolled twice.
TypeOK ==
    /\ now \in 0 .. MaxTime
    /\ actor \in {"fresh", "admin", "removed"}
    /\ \A i \in DOMAIN slots :
          /\ slots[i].index \in SlotIndices
          /\ slots[i].status \in {"active", "revoked"}
          /\ (slots[i].revoked = None) = Active(i)
    /\ \A i, j \in DOMAIN slots : i # j =>
          /\ slots[i].kid # slots[j].kid
          /\ Active(i) /\ Active(j) => slots[i].index # slots[j].index
    /\ Cardinality(Pending(challenges)) <= 1

\* A working controller key is cut off only by an approved revocation of that
\* slot: a recovery that was allowed when its challenge was issued never
\* revokes a key bound since, however its answer and the bind interleave.
CutOffOnlyByApproval ==
    \A i \in DOMAIN slots :
        slots[i].status = "revoked" /\ slots[i].expires > slots[i].revoked =>
            \E t \in DOMAIN approvals :
                /\ approvals[t].used
                /\ approvals[t].change.action = "revoke"
                /\ approvals[t].change.target = i

\* Every generation of the Recovery Root has one authority: the first bind, an
\* approved rotation used once, or a challenge answered with the secret of
\* the generation it replaced; no key serves two generations.
RootLineage ==
    LET rotations == {t \in DOMAIN approvals : approvals[t].used
                          /\ approvals[t].change.action \in {"bind", "root"}}
        recoveries == {i \in DOMAIN challenges : challenges[i].receipt # None}
    IN /\ Len(roots) = Cardinality(rotations) + Cardinality(recoveries)
       /\ \A g, k \in DOMAIN roots : g # k => roots[g] # roots[k]
       /\ \A i \in recoveries :
             /\ challenges[i].receipt.generation \in 2 .. Len(roots)
             /\ roots[challenges[i].receipt.generation - 1] = challenges[i].receipt.signer

=============================================================================
