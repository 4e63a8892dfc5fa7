------------------------------ MODULE Avatars ------------------------------
(***************************************************************************)
(* A user's avatar.  The database row names the selected object; the       *)
(* object itself lives in an S3 bucket or a local directory, which no      *)
(* transaction spans.  With direct uploads the browser PUTs to a staging   *)
(* object through a presigned URL and asks for completion; the upload's    *)
(* progress is a Valkey record claimed under a lease                       *)
(* (state-store-valkey/src/avatar_upload_state.rs), so several workers may *)
(* complete one upload (identity/src/avatar.rs).  With local storage the   *)
(* request carries the bytes (nazoauth/src/adapters/avatar_files.rs).  In  *)
(* both the row changes by a compare-and-set on a revision that a trigger  *)
(* advances.                                                               *)
(***************************************************************************)
EXTENDS Naturals

CONSTANTS
    Workers,     \* concurrent requests of the user
    Direct,      \* TRUE: S3 with direct uploads; FALSE: local storage
    Images,      \* contents with a PNG, JPEG or WebP signature
    Junk,        \* contents without
    UploadTtl,
    ClaimLease,
    MaxUploads,
    MaxClaims,   \* claims of one upload
    MaxRevision, \* account changes
    MaxTime,
    MaxEvents,   \* unknown database outcomes
    None

VARIABLES
    now,
    account,  \* users row: [url, rev]
    staging,  \* upload -> staged content
    final,    \* object id -> its content
    uploads,  \* Valkey: upload -> None | the upload record
    begun,    \* upload -> the revision its request read
    count,
    job,
    reads,    \* reads that failed: <<revision at the request, revision at the failure>>
    events

vars == <<now, account, staging, final, uploads, begun, count, job, reads, events>>

Contents == Images \cup Junk
Uploads == 0..MaxUploads  \* 0: an upload completed earlier
Objects == Uploads \X Contents
Accounts == [url : Objects \cup {None}, rev : 0..MaxRevision]

\* final_object_id: the upload and the digest of the bytes.
FinalId(u, bytes) == <<u, bytes>>
\* An ETag stands for the bytes it was given for.
ETag(bytes) == bytes

Idle(w) == job[w] = None
At(w, pc) == job[w] # None /\ job[w].pc = pc
Goto(w, pc) == job' = [job EXCEPT ![w].pc = pc]
Done(w) == job' = [job EXCEPT ![w] = None]
Start(w, kind, pc, u, cand) ==
    job' = [job EXCEPT ![w] = [kind |-> kind, pc |-> pc, u |-> u, acc |-> account, gen |-> 0,
                               exp |-> account, expires |-> 0, version |-> None, cand |-> cand]]
KeepStore == UNCHANGED <<staging, final>>
KeepRest == UNCHANGED <<now, begun, count, reads, events>>

-----------------------------------------------------------------------------
(* The upload record.                                                      *)

\* An expired record is deleted by whichever script meets it.
Live(u) == uploads[u] # None /\ uploads[u].expires > now
\* claim_generation and an unexpired lease prove ownership.
Owns(u, gen) == Live(u) /\ uploads[u].gen = gen /\ uploads[u].lease > now
Write(u, record) == uploads' = [uploads EXCEPT ![u] = IF Live(u) THEN record ELSE None]

\* RECORD_CANDIDATE_SCRIPT.
MayRecord(u, gen, version, cand) ==
    /\ Owns(u, gen)
    /\ \/ uploads[u].status = "pending"
       \/ uploads[u].status = "publishing" /\ uploads[u].version = version /\ uploads[u].cand = cand
RecordCandidate(u, gen, version, cand) ==
    IF MayRecord(u, gen, version, cand)
    THEN Write(u, [uploads[u] EXCEPT !.status = "publishing", !.version = version, !.cand = cand])
    ELSE Write(u, uploads[u])

\* COMPLETE_SCRIPT; a completed record accepts its own result again.
MayComplete(u, gen, cand) ==
    \/ Live(u) /\ uploads[u].status = "completed" /\ uploads[u].cand = cand
    \/ Owns(u, gen) /\ uploads[u].status = "publishing"
CompleteRecord(u, gen, cand) ==
    IF MayComplete(u, gen, cand)
    THEN Write(u, [uploads[u] EXCEPT !.status = "completed", !.cand = cand, !.lease = 0])
    ELSE Write(u, uploads[u])

\* RELEASE_SCRIPT.
Release(u, gen) ==
    IF Owns(u, gen) /\ uploads[u].status \in {"pending", "publishing"}
    THEN Write(u, [uploads[u] EXCEPT !.lease = 0])
    ELSE Write(u, uploads[u])

-----------------------------------------------------------------------------
(* Direct upload.                                                          *)

\* begin_upload: the expectation is the account the request loaded; the record is
\* created with SET NX under a fresh identifier.
BeginUpload ==
    /\ Direct /\ count < MaxUploads /\ account.rev < MaxRevision
    /\ count' = count + 1
    /\ begun' = [begun EXCEPT ![count + 1] = account.rev]
    /\ uploads' = [uploads EXCEPT ![count + 1] =
           [status |-> "pending", exp |-> account, expires |-> now + UploadTtl, gen |-> 0,
            lease |-> 0, version |-> None, cand |-> None]]
    /\ UNCHANGED <<now, account, staging, final, job, reads, events>>

\* The browser PUTs as often as it likes while the presigned URL lasts.
BrowserPut(u, bytes) ==
    /\ Live(u) /\ staging[u] # bytes
    /\ staging' = [staging EXCEPT ![u] = bytes]
    /\ UNCHANGED <<now, account, final, uploads, begun, count, job, reads, events>>

\* complete_direct_avatar_upload: the session's account is loaded first.
RequestCompletion(w, u) ==
    /\ Idle(w) /\ u <= count /\ uploads[u] # None
    /\ Start(w, "direct", "claim", u, None)
    /\ UNCHANGED <<account, uploads>> /\ KeepStore /\ KeepRest

\* CLAIM_SCRIPT, and complete_upload's branch on its answer.
Claimable(u) == Live(u) /\ uploads[u].status # "completed" /\ uploads[u].lease <= now
Claim(w) ==
    LET u == job[w].u IN
    /\ At(w, "claim")
    /\ \/ /\ Claimable(u) /\ uploads[u].gen < MaxClaims
          /\ Write(u, [uploads[u] EXCEPT !.gen = @ + 1, !.lease = now + ClaimLease])
          /\ job' = [job EXCEPT ![w] =
                 [@ EXCEPT !.gen = uploads[u].gen + 1, !.exp = uploads[u].exp,
                           !.expires = uploads[u].expires, !.version = uploads[u].version,
                           !.cand = uploads[u].cand,
                           !.pc = IF uploads[u].status = "pending" THEN "read" ELSE "resume"]]
       \/ ~Claimable(u) /\ Write(u, uploads[u]) /\ Done(w)
    /\ UNCHANGED account /\ KeepStore /\ KeepRest

\* The pending branch: an expired authorization, a missing staging object or bytes of
\* no known type release the claim.
Readable(w) == job[w].expires > now /\ staging[job[w].u] \in Images
ReadStaged(w) ==
    LET u == job[w].u IN
    /\ At(w, "read")
    /\ \/ /\ Readable(w)
          /\ job' = [job EXCEPT ![w] = [@ EXCEPT !.pc = "record", !.version = ETag(staging[u]),
                                                 !.cand = FinalId(u, staging[u])]]
          /\ UNCHANGED uploads
       \/ ~Readable(w) /\ Release(u, job[w].gen) /\ Done(w)
    /\ UNCHANGED account /\ KeepStore /\ KeepRest
Record(w) ==
    LET j == job[w] IN
    /\ At(w, "record")
    /\ RecordCandidate(j.u, j.gen, j.version, j.cand)
    /\ IF MayRecord(j.u, j.gen, j.version, j.cand) /\ j.expires > now
       THEN Goto(w, "head") ELSE Done(w)
    /\ UNCHANGED account /\ KeepStore /\ KeepRest

\* The publishing branch: the candidate is already selected, or the staged bytes are
\* still the ones it was computed from.
SameStaged(w) ==
    LET bytes == staging[job[w].u] IN
    bytes \in Images /\ ETag(bytes) = job[w].version /\ FinalId(job[w].u, bytes) = job[w].cand
Resume(w) ==
    /\ At(w, "resume")
    /\ CASE job[w].expires <= now -> Done(w)
         [] job[w].expires > now /\ job[w].acc.url = job[w].cand -> Goto(w, "retire")
         [] job[w].expires > now /\ job[w].acc.url # job[w].cand ->
                IF SameStaged(w) THEN Goto(w, "head") ELSE Done(w)
    /\ UNCHANGED <<account, uploads>> /\ KeepStore /\ KeepRest

\* publish_staged: a candidate already there must be the expected bytes; otherwise it
\* is copied if the staging object still has the expected ETag, and looked at again.
Matches(w) == final[job[w].cand] # None /\ ETag(final[job[w].cand]) = job[w].version
Head(w) ==
    /\ At(w, "head")
    /\ CASE final[job[w].cand] = None -> Goto(w, "copy")
         [] final[job[w].cand] # None -> IF Matches(w) THEN Goto(w, "cas") ELSE Done(w)
    /\ UNCHANGED <<account, uploads>> /\ KeepStore /\ KeepRest
IfMatch(w) == staging[job[w].u] # None /\ ETag(staging[job[w].u]) = job[w].version
CopyStaged(w) ==
    /\ At(w, "copy")
    /\ IF IfMatch(w)
       THEN final' = [final EXCEPT ![job[w].cand] = staging[job[w].u]] /\ Goto(w, "verify")
       ELSE UNCHANGED final /\ Done(w)
    /\ UNCHANGED <<account, staging, uploads>> /\ KeepRest
Verify(w) ==
    /\ At(w, "verify")
    /\ IF Matches(w) THEN Goto(w, "cas") ELSE Done(w)
    /\ UNCHANGED <<account, uploads>> /\ KeepStore /\ KeepRest

-----------------------------------------------------------------------------
(* Selecting an object.                                                    *)

\* compare_and_set_avatar: the row is the expected one, or this candidate is already
\* what followed it.  The trigger advances the revision when the reference changes.
MatchesUrlOnly(exp, cand) == account.url = exp.url \/ (account.url = cand /\ cand # None)
MatchesExpected(exp, cand) == account = exp
Swappable(exp, cand) ==
    \/ account = exp
    \/ account.rev = exp.rev + 1 /\ cand # None /\ account.url = cand
AdvanceRevision(url) == IF url # account.url THEN account.rev + 1 ELSE account.rev
Select(w) ==
    /\ AdvanceRevision(job[w].cand) <= MaxRevision
    /\ account' = [url |-> job[w].cand, rev |-> AdvanceRevision(job[w].cand)]

\* The statement's answer decides the cleanup; an error may follow a commit.
CompareAndSet(w) ==
    /\ At(w, "cas")
    /\ \/ Swappable(job[w].exp, job[w].cand) /\ Select(w) /\ Goto(w, "retire") /\ UNCHANGED events
       \/ /\ ~Swappable(job[w].exp, job[w].cand) /\ UNCHANGED <<account, events>>
          /\ IF job[w].cand = None THEN Done(w) ELSE Goto(w, "miss")
       \/ /\ events < MaxEvents /\ events' = events + 1
          /\ (Swappable(job[w].exp, job[w].cand) /\ Select(w)) \/ UNCHANGED account
          /\ Done(w)
    /\ UNCHANGED <<now, begun, count, reads, uploads>> /\ KeepStore

\* A confirmed miss: delete_final of the candidate, or rollback of the local one.
DeleteCandidate(w) ==
    /\ At(w, "miss")
    /\ final' = [final EXCEPT ![job[w].cand] = None]
    /\ Done(w)
    /\ UNCHANGED <<account, staging, uploads>> /\ KeepRest

\* retire_previous_avatar, commit, and delete's cleanup.
RetirePrevious(w) ==
    /\ At(w, "retire")
    /\ final' = IF job[w].exp.url = None THEN final ELSE [final EXCEPT ![job[w].exp.url] = None]
    /\ IF job[w].kind = "direct" THEN Goto(w, "complete") ELSE Done(w)
    /\ UNCHANGED <<account, staging, uploads>> /\ KeepRest
Complete(w) ==
    LET j == job[w] IN
    /\ At(w, "complete")
    /\ CompleteRecord(j.u, j.gen, j.cand)
    /\ IF MayComplete(j.u, j.gen, j.cand) THEN Goto(w, "clean") ELSE Done(w)
    /\ UNCHANGED account /\ KeepStore /\ KeepRest
DeleteStaging(w) ==
    /\ At(w, "clean")
    /\ staging' = [staging EXCEPT ![job[w].u] = None]
    /\ Done(w)
    /\ UNCHANGED <<account, final, uploads>> /\ KeepRest

-----------------------------------------------------------------------------
(* Local upload, deletion and reading.                                     *)

\* upload, begin_replace: detected bytes are written to a directory of their own
\* before the row is touched.
Upload(w, bytes) ==
    /\ ~Direct /\ Idle(w) /\ bytes \in Images /\ count < MaxUploads /\ account.rev < MaxRevision
    /\ count' = count + 1
    /\ begun' = [begun EXCEPT ![count + 1] = account.rev]
    /\ final' = [final EXCEPT ![FinalId(count + 1, bytes)] = bytes]
    /\ Start(w, "local", "cas", count + 1, FinalId(count + 1, bytes))
    /\ UNCHANGED <<now, account, staging, uploads, reads, events>>

\* delete: begin_delete touches no file; the row is set to no avatar.
Delete(w) ==
    /\ Idle(w) /\ account.rev < MaxRevision /\ Start(w, "delete", "cas", 0, None)
    /\ UNCHANGED <<account, uploads>> /\ KeepStore /\ KeepRest

\* get_avatar: an object that is gone or not the expected one is looked for once more
\* through a freshly loaded account.
Get(w) ==
    /\ Idle(w) /\ account.url # None /\ Start(w, "get", "fetch", 0, None)
    /\ UNCHANGED <<account, uploads>> /\ KeepStore /\ KeepRest
Served(url) == url = None \/ final[url] # None
RefreshNothing(w) == Goto(w, "again")
RefreshAccount(w) == job' = [job EXCEPT ![w] = [@ EXCEPT !.pc = "again", !.acc = account]]
Fetch(w) ==
    /\ At(w, "fetch")
    /\ IF Served(job[w].acc.url) THEN Done(w) ELSE Goto(w, "refresh")
    /\ UNCHANGED <<account, uploads>> /\ KeepStore /\ KeepRest
Refresh(w) ==
    /\ At(w, "refresh") /\ RefreshAccount(w)
    /\ UNCHANGED <<account, uploads>> /\ KeepStore /\ KeepRest
FetchAgain(w) ==
    /\ At(w, "again") /\ Done(w)
    /\ reads' = IF Served(job[w].acc.url) THEN reads
                ELSE reads \cup {<<job[w].exp.rev, account.rev>>}
    /\ UNCHANGED <<now, account, uploads, begun, count, events>> /\ KeepStore

\* A storage or state-store error ends the request where it is; so does a crash.
Abandon(w) ==
    /\ ~Idle(w) /\ Done(w)
    /\ UNCHANGED <<account, uploads>> /\ KeepStore /\ KeepRest
Tick ==
    /\ now < MaxTime /\ now' = now + 1
    /\ UNCHANGED <<account, staging, final, uploads, begun, count, job, reads, events>>

-----------------------------------------------------------------------------
Init ==
    /\ now = 0
    /\ account \in {[url |-> None, rev |-> 0]} \cup {[url |-> <<0, i>>, rev |-> 1] : i \in Images}
    /\ staging = [u \in Uploads |-> None]
    /\ final = [o \in Objects |-> IF o = account.url THEN o[2] ELSE None]
    /\ uploads = [u \in Uploads |-> None]
    /\ begun = [u \in Uploads |-> 0]
    /\ count = 0
    /\ job = [w \in Workers |-> None]
    /\ reads = {}
    /\ events = 0

Next ==
    \/ BeginUpload
    \/ \E u \in Uploads, bytes \in Contents : BrowserPut(u, bytes)
    \/ \E w \in Workers, u \in Uploads : RequestCompletion(w, u)
    \/ \E w \in Workers : \/ Claim(w) \/ ReadStaged(w) \/ Record(w) \/ Resume(w)
                          \/ Head(w) \/ CopyStaged(w) \/ Verify(w)
                          \/ CompareAndSet(w) \/ DeleteCandidate(w) \/ RetirePrevious(w)
                          \/ Complete(w) \/ DeleteStaging(w)
                          \/ Delete(w) \/ Get(w) \/ Fetch(w) \/ Refresh(w) \/ FetchAgain(w)
                          \/ Abandon(w)
    \/ \E w \in Workers, bytes \in Contents : Upload(w, bytes)
    \/ Tick

Spec == Init /\ [][Next]_vars

-----------------------------------------------------------------------------
\* The state has its shape: staged bytes, final objects, upload records under their
\* claim generations and one request per worker.
TypeOK ==
    /\ now \in 0..MaxTime
    /\ account \in Accounts
    /\ staging \in [Uploads -> Contents \cup {None}]
    /\ final \in [Objects -> Contents \cup {None}]
    /\ \A u \in Uploads : uploads[u] # None =>
           uploads[u].status \in {"pending", "publishing", "completed"} /\ uploads[u].gen \in 0..MaxClaims
    /\ begun \in [Uploads -> 0..MaxRevision]
    /\ count \in 0..MaxUploads
    /\ \A w \in Workers : job[w] # None => job[w].acc \in Accounts /\ job[w].exp \in Accounts
    /\ events \in 0..MaxEvents

\* The avatar the row selects is there and holds the image bytes its identifier was
\* computed from: no worker that lost its claim, was told nothing by the database, or
\* came second with the same candidate removes it, and a browser that replaces the
\* staged bytes after they were inspected does not get them published
\* (complete_upload, publish_staged, rollback_after_cas_miss).
SelectedIntact ==
    account.url # None => final[account.url] = account.url[2] /\ account.url[2] \in Images

\* A selected upload follows directly on the account its request saw: an upload begun
\* before another upload or a deletion never brings its image back, even where the
\* reference it expected has returned (compare_and_set_avatar, avatar_revision).
UploadFenced == account.url # None => account.rev = begun[account.url[1]] + 1

\* One refresh is enough for one concurrent change: get_avatar fails for want of the
\* object only when the account changed at least twice during the request.
ReadsServed == \A r \in reads : r[2] >= r[1] + 2
=============================================================================
