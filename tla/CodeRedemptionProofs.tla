----------------------- MODULE CodeRedemptionProofs -----------------------
(* A code is redeemed at most once, and the redemption of codes implements a   *)
(* single-use grant, for any number of requests, codes, keys and any           *)
(* lifetimes.  The inductive invariant says why receipts may be forgotten:     *)
(* whatever was issued still has its receipt, or its code has expired.         *)
EXTENDS CodeRedemption, TLAPS

Stages == {"idle", "loaded", "lookup", "revoking", "begun", "prepared",
           "committed", "marking", "refused"}

(* A request in flight presents a published code; a payload it read belongs to *)
(* its client; only such a request is prepared; and the receipt it is about to *)
(* act on names an issuance.                                                   *)
RequestOK(s) ==
    s.stage # "idle" =>
        /\ s.code \in Codes
        /\ code[s.code].stage = "published"
        /\ s.pending # "none" => s.facts.client = "own"
        /\ s.stage = "prepared" => s.pending = "fresh"
        /\ s.stage = "revoking" => s.id \in Ids /\ \E i \in issued : i.id = s.id

RequestsOK == \A q \in Requests : RequestOK(req[q])

ReceiptsOK ==
    \A r \in receipts :
        /\ r.client = "own"
        /\ code[r.code].stage = "published"
        /\ r.retain >= code[r.code].expires
        /\ \E i \in issued : i.id = r.id

IssuedOK ==
    \A i \in issued :
        /\ i.id < nextId
        /\ code[i.code].stage = "published"
        /\ Expired(i.code) \/ \E r \in receipts : r.code = i.code

Inv == TypeOK /\ RequestsOK /\ ReceiptsOK /\ IssuedOK /\ RedeemedOnce

-----------------------------------------------------------------------------
(* The forms in which an action updates its request.                          *)

Kept(q, s) ==
    /\ s.code = req[q].code /\ s.facts = req[q].facts
    /\ s.pending = req[q].pending /\ s.id = req[q].id

(* The idle request is a request.                                              *)
LEMMA IdleTyped == Idle \in Request /\ Idle.stage = "idle"
BY ConstantsAssumption DEF Idle, Request, Facts, Expiries

(* A handler that moves to another stage keeps what it holds.                  *)
LEMMA GotoMoves ==
    ASSUME TypeOK, NEW q \in Requests, NEW st \in Stages, Goto(q, st)
    PROVE  \E s \in Request :
            req' = [req EXCEPT ![q] = s] /\ s.stage = st /\ Kept(q, s)
<1>1. PICK r \in Request : r = req[q]
  BY Zenon DEF TypeOK
<1> DEFINE s == [r EXCEPT !.stage = st]
<1>2. s \in Request
  BY Zenon DEF Request, Stages
<1>3. s.stage = st /\ s.code = r.code /\ s.facts = r.facts /\ s.pending = r.pending
      /\ s.id = r.id
  BY Zenon DEF Request
<1>4. req' = [req EXCEPT ![q] = s]
  BY Zenon, <1>1 DEF Goto
<1> HIDE DEF s
<1> QED BY Zenon, <1>1, <1>2, <1>3, <1>4 DEF Kept

(* So does a handler that turns to the receipt.                                *)
LEMMA LookupMoves ==
    ASSUME TypeOK, NEW q \in Requests, NEW t \in {"refuse", "mark"}, Lookup(q, t)
    PROVE  \E s \in Request :
            req' = [req EXCEPT ![q] = s] /\ s.stage = "lookup" /\ Kept(q, s)
<1>1. PICK r \in Request : r = req[q]
  BY Zenon DEF TypeOK
<1> DEFINE s == [r EXCEPT !.stage = "lookup", !.then = t]
<1>2. s \in Request
  BY Zenon DEF Request
<1>3. s.stage = "lookup" /\ s.code = r.code /\ s.facts = r.facts
      /\ s.pending = r.pending /\ s.id = r.id
  BY Zenon DEF Request
<1>4. req' = [req EXCEPT ![q] = s]
  BY Zenon, <1>1 DEF Lookup
<1> HIDE DEF s
<1> QED BY Zenon, <1>1, <1>2, <1>3, <1>4 DEF Kept

(* Storing an acceptable request keeps all requests acceptable, as long as     *)
(* published codes stay published and issuances stay issued.                   *)
LEMMA StoreRequest ==
    ASSUME TypeOK, RequestsOK, NEW q \in Requests, NEW s \in Request,
           req' = [req EXCEPT ![q] = s],
           RequestOK(s)',
           \A c \in Codes : code[c].stage = "published" => code'[c].stage = "published",
           issued \subseteq issued'
    PROVE  req' \in [Requests -> Request] /\ RequestsOK'
<1>1. req' \in [Requests -> Request]
  BY Zenon DEF TypeOK
<1>2. ASSUME NEW p \in Requests PROVE RequestOK(req[p])'
  <2>1. CASE p = q
    <3>1. req'[p] = s
      BY Zenon, <2>1 DEF TypeOK
    <3> QED BY Zenon, <3>1 DEF RequestOK
  <2>2. CASE p # q
    <3>1. req'[p] = req[p]
      BY Zenon, <2>2 DEF TypeOK
    <3>2. RequestOK(req[p])
      BY Zenon DEF RequestsOK
    <3> QED BY Zenon, <3>1, <3>2 DEF RequestOK
  <2> QED BY Zenon, <2>1, <2>2
<1> QED BY Zenon, <1>1, <1>2 DEF RequestsOK

(* Requests stay as they are.                                                  *)
LEMMA KeepRequests ==
    ASSUME TypeOK, RequestsOK, req' = req,
           \A c \in Codes : code[c].stage = "published" => code'[c].stage = "published",
           issued \subseteq issued'
    PROVE  req' \in [Requests -> Request] /\ RequestsOK'
BY Zenon DEF TypeOK, RequestsOK, RequestOK

(* The invariants of the tables hold on while the tables do not change.        *)
LEMMA Quiet ==
    ASSUME ReceiptsOK, IssuedOK, RedeemedOnce,
           UNCHANGED <<clock, code, receipts, issued, nextId>>
    PROVE  ReceiptsOK' /\ IssuedOK' /\ RedeemedOnce'
BY Zenon DEF ReceiptsOK, IssuedOK, RedeemedOnce, Expired

-----------------------------------------------------------------------------
(* Every way for one request to move on.                                      *)

(* A request in flight that goes to a stage with no obligations of its own.    *)
LEMMA GotoOK ==
    ASSUME TypeOK, RequestsOK, NEW q \in Requests,
           NEW st \in Stages \ {"prepared", "revoking"},
           Goto(q, st), req[q].stage # "idle", UNCHANGED code, issued \subseteq issued'
    PROVE  req' \in [Requests -> Request] /\ RequestsOK'
<1>1. PICK s \in Request :
        req' = [req EXCEPT ![q] = s] /\ s.stage = st /\ Kept(q, s)
  BY Zenon, GotoMoves
<1>2. RequestOK(s)'
  BY Zenon, <1>1 DEF RequestsOK, RequestOK, Kept
<1> QED BY Zenon, <1>1, <1>2, StoreRequest

(* A request in flight that turns to the receipt.                              *)
LEMMA LookupOK ==
    ASSUME TypeOK, RequestsOK, NEW q \in Requests, NEW t \in {"refuse", "mark"},
           Lookup(q, t), req[q].stage # "idle", UNCHANGED <<code, issued>>
    PROVE  req' \in [Requests -> Request] /\ RequestsOK'
<1>1. PICK s \in Request :
        req' = [req EXCEPT ![q] = s] /\ s.stage = "lookup" /\ Kept(q, s)
  BY Zenon, LookupMoves
<1>2. RequestOK(s)'
  BY Zenon, <1>1 DEF RequestsOK, RequestOK, Kept
<1> QED BY Zenon, <1>1, <1>2, StoreRequest

(* A request that ends.                                                        *)
LEMMA FinishOK ==
    ASSUME TypeOK, RequestsOK, NEW q \in Requests, Finish(q), UNCHANGED code,
           issued \subseteq issued'
    PROVE  req' \in [Requests -> Request] /\ RequestsOK'
<1>1. RequestOK(Idle)'
  BY Zenon, IdleTyped DEF RequestOK, Idle
<1> QED BY Zenon, <1>1, IdleTyped, StoreRequest DEF Finish

(* Present stores a request whose client the payload named, if it read one.    *)
LEMMA PresentOK ==
    ASSUME TypeOK, RequestsOK, NEW q \in Requests, NEW c \in Codes,
           NEW f \in Presented, Present(q, c, f)
    PROVE  req' \in [Requests -> Request] /\ RequestsOK'
<1>1. PICK p \in {"fresh", "expired", "none"} :
        p = IF Cached(c) # "pending" THEN "none"
            ELSE IF Expired(c) THEN "expired" ELSE "fresh"
  BY Zenon
<1> DEFINE s == [Idle EXCEPT !.stage = "loaded", !.code = c, !.facts = f,
                             !.pending = p]
<1>2. code[c].stage = "published" /\ (p # "none" => f.client = "own")
      /\ req' = [req EXCEPT ![q] = s] /\ UNCHANGED <<code, issued>>
  BY Zenon, <1>1 DEF Present
<1>3. s \in Request
  <2>1. f \in Facts
    BY Zenon, ConstantsAssumption
  <2> QED BY Zenon, <2>1, IdleTyped DEF Request
<1>4. s.stage = "loaded" /\ s.code = c /\ s.facts = f /\ s.pending = p
  BY Zenon, IdleTyped DEF Request
<1> HIDE DEF s
<1>5. RequestOK(s)'
  BY Zenon, <1>2, <1>4 DEF RequestOK
<1>6. issued \subseteq issued'
      /\ \A d \in Codes : code[d].stage = "published" => code'[d].stage = "published"
  BY Zenon, <1>2
<1> QED BY Zenon, <1>2, <1>3, <1>5, <1>6, StoreRequest

(* Admit prepares only a request that read the payload fresh.                  *)
LEMMA AdmitOK ==
    ASSUME TypeOK, RequestsOK, NEW q \in Requests, Admit(q)
    PROVE  req' \in [Requests -> Request] /\ RequestsOK'
<1>1. req[q].stage # "idle" /\ UNCHANGED <<code, issued>>
  BY Zenon DEF Admit
<1>2. CASE Lookup(q, "mark")
  BY Zenon, <1>1, <1>2, LookupOK
<1>3. CASE Goto(q, "marking")
  BY Zenon, <1>1, <1>3, GotoOK DEF Stages
<1>4. CASE /\ req[q].pending = "fresh"
           /\ req' = [req EXCEPT ![q] = [req[q] EXCEPT !.stage = "prepared",
                                                       !.expires = clock + AccessTTL]]
  <2>1. PICK r \in Request, t \in Times : r = req[q] /\ t = clock
    BY Zenon DEF TypeOK
  <2> DEFINE s == [r EXCEPT !.stage = "prepared", !.expires = t + AccessTTL]
  <2>2. t + AccessTTL \in Expiries
    BY ConstantsAssumption DEF Times, Expiries
  <2>3. s \in Request
    BY Zenon, <2>2 DEF Request
  <2>4. s.stage = "prepared" /\ s.code = r.code /\ s.facts = r.facts
        /\ s.pending = r.pending
    BY Zenon DEF Request
  <2>5. req' = [req EXCEPT ![q] = s]
    BY Zenon, <1>4, <2>1
  <2> HIDE DEF s
  <2>6. RequestOK(s)'
    BY Zenon, <1>1, <1>4, <2>1, <2>4 DEF RequestsOK, RequestOK
  <2> QED BY Zenon, <1>1, <2>3, <2>5, <2>6, StoreRequest
<1> QED BY Zenon, <1>2, <1>3, <1>4 DEF Admit

(* FindReceipt names an issuance that a receipt records.                       *)
LEMMA FindReceiptOK ==
    ASSUME TypeOK, RequestsOK, ReceiptsOK, NEW q \in Requests, FindReceipt(q)
    PROVE  req' \in [Requests -> Request] /\ RequestsOK'
<1>1. UNCHANGED <<code, issued>> /\ req[q].stage # "idle"
  BY Zenon DEF FindReceipt
<1>2. PICK o \in receipts :
        req' = [req EXCEPT ![q] = [req[q] EXCEPT !.stage = "revoking", !.id = o.id,
                                                 !.expires = o.expires]]
  BY Zenon DEF FindReceipt, Evidence
<1>3. PICK i \in Ids, e \in Expiries : i = o.id /\ e = o.expires
  BY Zenon DEF TypeOK, Receipt
<1>4. \E j \in issued : j.id = i
  BY Zenon, <1>3 DEF ReceiptsOK
<1>5. PICK r \in Request : r = req[q]
  BY Zenon DEF TypeOK
<1> DEFINE s == [r EXCEPT !.stage = "revoking", !.id = i, !.expires = e]
<1>6. s \in Request
  BY Zenon DEF Request
<1>7. s.stage = "revoking" /\ s.code = r.code /\ s.facts = r.facts
      /\ s.pending = r.pending /\ s.id = i
  BY Zenon DEF Request
<1>8. req' = [req EXCEPT ![q] = s]
  BY Zenon, <1>2, <1>3, <1>5
<1> HIDE DEF s
<1>9. RequestOK(s)'
  BY Zenon, <1>1, <1>4, <1>5, <1>7 DEF RequestsOK, RequestOK
<1> QED BY Zenon, <1>1, <1>6, <1>8, <1>9, StoreRequest
-----------------------------------------------------------------------------
(* Typing of the entry writes.                                                *)

(* An entry whose state changes is still an entry.                             *)
LEMMA EntryTyped ==
    ASSUME TypeOK, NEW c \in Codes, NEW st \in {"absent", "pending", "consuming", "failed"},
           NEW u \in Horizon
    PROVE  [entry EXCEPT ![c] = [state |-> st, until |-> u]] \in [Codes -> Entry]
<1>1. [state |-> st, until |-> u] \in Entry
  BY Zenon DEF Entry
<1> QED BY Zenon, <1>1 DEF TypeOK

(* Every action but Commit that a request takes leaves codes, tables and clock *)
(* alone and keeps the types.                                                  *)
LEMMA RequestStep ==
    ASSUME Inv, NEW q \in Requests,
           \/ FindExpired(q) \/ Begin(q) \/ Admit(q) \/ CommitRefused(q)
           \/ Finalize(q) \/ MarkFailed(q) \/ FindNothing(q) \/ FindReceipt(q)
           \/ RevokeReplayed(q) \/ Abandon(q)
    PROVE  Inv'
<1> USE DEF Inv
<1>1. UNCHANGED <<clock, code, subject, receipts, issued, nextId>>
  BY Zenon DEF FindExpired, Begin, Admit, CommitRefused, Finalize, MarkFailed, FindNothing,
         FindReceipt, RevokeReplayed, Abandon
<1>2. ReceiptsOK' /\ IssuedOK' /\ RedeemedOnce'
  BY Zenon, <1>1, Quiet
<1>3. req' \in [Requests -> Request] /\ RequestsOK'
  <2>0. issued \subseteq issued' /\ UNCHANGED <<code, issued>>
    BY Zenon, <1>1
  <2>1. CASE FindExpired(q)
    BY Zenon, <2>0, <2>1, LookupOK DEF FindExpired
  <2>2. CASE Begin(q)
    BY Zenon, <2>0, <2>2, LookupOK, GotoOK, FinishOK DEF Begin, Stages
  <2>3. CASE Admit(q)
    BY Zenon, <2>3, AdmitOK
  <2>4. CASE CommitRefused(q)
    BY Zenon, <2>0, <2>4, LookupOK, GotoOK DEF CommitRefused, Stages
  <2>5. CASE Finalize(q)
    BY Zenon, <2>0, <2>5, FinishOK DEF Finalize
  <2>6. CASE MarkFailed(q)
    BY Zenon, <2>0, <2>6, FinishOK DEF MarkFailed
  <2>7. CASE FindNothing(q)
    BY Zenon, <2>0, <2>7, GotoOK DEF FindNothing, Stages
  <2>8. CASE FindReceipt(q)
    BY Zenon, <2>8, FindReceiptOK
  <2>9. CASE RevokeReplayed(q)
    BY Zenon, <2>0, <2>9, GotoOK DEF RevokeReplayed, Stages
  <2>10. CASE Abandon(q)
    BY Zenon, <2>0, <2>10, FinishOK DEF Abandon
  <2> QED BY Zenon, <2>1, <2>2, <2>3, <2>4, <2>5, <2>6, <2>7, <2>8, <2>9, <2>10
<1>4. entry' \in [Codes -> Entry]
  <2>0. req[q].stage # "idle" => req[q].code \in Codes
    BY Zenon DEF RequestsOK, RequestOK
  <2>1. CASE Begin(q)
    <3>2. \/ entry' = entry
          \/ entry' = [entry EXCEPT ![req[q].code] =
                          [entry[req[q].code] EXCEPT !.state = "consuming"]]
      BY Zenon, <2>1 DEF Begin
    <3>3. PICK e \in Entry : e = entry[req[q].code]
      BY Zenon, <2>0, <2>1 DEF Begin, TypeOK
    <3>4. [e EXCEPT !.state = "consuming"] \in Entry
      BY Zenon DEF Entry
    <3> QED BY Zenon, <2>0, <2>1, <3>2, <3>3, <3>4 DEF TypeOK, Begin
  <2>2. CASE Finalize(q)
    <3>1. Gone \in Entry
      BY ConstantsAssumption DEF Gone, Entry, Horizon
    <3> QED BY Zenon, <2>2, <3>1 DEF TypeOK, Finalize
  <2>3. CASE MarkFailed(q)
    <3>1. clock + CodeTTL \in Horizon
      BY ConstantsAssumption DEF TypeOK, Times, Horizon
    <3>2. req[q].code \in Codes
      BY Zenon, <2>0, <2>3 DEF MarkFailed
    <3>3. [entry EXCEPT ![req[q].code] = [state |-> "failed", until |-> clock + CodeTTL]]
            \in [Codes -> Entry]
      BY Zenon, <3>1, <3>2, EntryTyped
    <3> QED BY Zenon, <2>3, <3>3 DEF TypeOK, MarkFailed
  <2>4. CASE ~(Begin(q) \/ Finalize(q) \/ MarkFailed(q))
    BY Zenon, <2>4 DEF TypeOK, FindExpired, Admit, CommitRefused, FindNothing, FindReceipt,
                RevokeReplayed, Abandon
  <2> QED BY Zenon, <2>1, <2>2, <2>3, <2>4
<1>5. revoked' \subseteq [id : Ids, until : Horizon] /\ dead' \subseteq Ids
  <2>1. CASE RevokeReplayed(q)
    <3>1. req[q].id \in Ids
      BY Zenon, <2>1 DEF RevokeReplayed, RequestsOK, RequestOK
    <3>2. RevocationDeadline(req[q].expires) \in Horizon
      BY ConstantsAssumption
         DEF TypeOK, Request, Expiries, Horizon, RevocationDeadline
    <3>3. [id |-> req[q].id, until |-> RevocationDeadline(req[q].expires)]
            \in [id : Ids, until : Horizon]
      BY Zenon, <3>1, <3>2
    <3> QED BY Zenon, <2>1, <3>1, <3>3 DEF RevokeReplayed, TypeOK
  <2>2. CASE ~RevokeReplayed(q)
    BY Zenon, <2>2 DEF TypeOK, FindExpired, Begin, Admit, CommitRefused, Finalize, MarkFailed,
                FindNothing, FindReceipt, Abandon
  <2> QED BY Zenon, <2>1, <2>2
<1>6. TypeOK'
  BY Zenon, <1>1, <1>3, <1>4, <1>5 DEF TypeOK
<1> QED BY Zenon, <1>2, <1>3, <1>6
-----------------------------------------------------------------------------
(* The commit: the only step that issues.                                     *)

(* A commit finds no receipt and an unexpired code, so nothing was issued for  *)
(* the code before; it leaves a receipt that outlives the code.                *)
LEMMA CommitStep ==
    ASSUME Inv, NEW q \in Requests, Commit(q)
    PROVE  Inv'
<1> USE DEF Inv
<1> DEFINE c == req[q].code
           new == [code |-> c, id |-> nextId, facts |-> req[q].facts,
                   expires |-> req[q].expires]
           receipt == [code |-> c, client |-> req[q].facts.client,
                       key |-> req[q].facts.key, id |-> nextId,
                       expires |-> req[q].expires,
                       retain |-> Retention(c, req[q].expires)]
<1>1. /\ req[q].stage = "prepared" /\ c \in Codes
      /\ code[c].stage = "published" /\ req[q].facts.client = "own"
  BY Zenon DEF Commit, RequestsOK, RequestOK
<1>2. /\ \A o \in receipts : o.code # c \/ o.client # "own"
      /\ ~Expired(c) /\ nextId \in Ids
      /\ receipts' = receipts \cup {receipt} /\ issued' = issued \cup {new}
      /\ nextId' = nextId + 1
      /\ UNCHANGED <<clock, code, entry, subject, revoked, dead>>
      /\ Goto(q, "committed") \/ Finish(q)
  BY Zenon, <1>1 DEF Commit
<1>3. req' \in [Requests -> Request] /\ RequestsOK'
  BY Zenon, <1>1, <1>2, GotoOK, FinishOK DEF Stages
<1>4. Retention(c, req[q].expires) \in Horizon
      /\ Retention(c, req[q].expires) >= code[c].expires
  BY <1>1, ConstantsAssumption
     DEF Retention, TypeOK, CodeRow, Request, Expiries, Horizon
<1>5. new \in Issuance /\ receipt \in Receipt
  <2>1. req[q].facts \in Facts /\ req[q].expires \in Expiries
    BY Zenon DEF TypeOK, Request
  <2>2. req[q].facts.key \in Keys \cup {"none"}
    BY Zenon, <2>1 DEF Facts
  <2> QED BY Zenon, <1>1, <1>2, <1>4, <2>1, <2>2 DEF Issuance, Receipt
<1>6. new.code = c /\ new.id = nextId /\ receipt.code = c /\ receipt.client = "own"
      /\ receipt.id = nextId /\ receipt.retain = Retention(c, req[q].expires)
  BY Zenon, <1>1
<1>7. nextId \in Nat /\ nextId' \in 1..(MaxId + 1)
  BY <1>2, ConstantsAssumption DEF Ids
<1> HIDE DEF new, receipt, c
<1>8. TypeOK'
  BY Zenon, <1>2, <1>3, <1>5, <1>7 DEF TypeOK
<1>9. ReceiptsOK'
  BY ZenonT(60), <1>1, <1>2, <1>4, <1>6 DEF ReceiptsOK
<1>10. IssuedOK'
  <2>1. ASSUME NEW i \in issued'
        PROVE  /\ i.id < nextId' /\ code'[i.code].stage = "published"
               /\ Expired(i.code)' \/ \E r \in receipts' : r.code = i.code
    <3>1. CASE i \in issued
      <4>1. i.id \in Nat
        BY <3>1 DEF TypeOK, Issuance, Ids
      <4> QED BY <1>2, <1>7, <3>1, <4>1 DEF IssuedOK, Expired
    <3>2. CASE i = new
      BY SMTT(60), <1>1, <1>2, <1>6, <1>7, <3>2
    <3> QED BY Zenon, <1>2, <3>1, <3>2
  <2> QED BY Zenon, <2>1 DEF IssuedOK
<1>11. \A i \in issued : i.code # c
  BY Zenon, <1>2 DEF IssuedOK, ReceiptsOK
<1>12. RedeemedOnce'
  BY Zenon, <1>2, <1>6, <1>11 DEF RedeemedOnce
<1> QED BY Zenon, <1>3, <1>8, <1>9, <1>10, <1>12

-----------------------------------------------------------------------------
(* The other actions.                                                         *)

(* A first read changes nothing but its request.                               *)
LEMMA PresentStep ==
    ASSUME Inv, NEW q \in Requests, NEW c \in Codes, NEW f \in Presented, Present(q, c, f)
    PROVE  Inv'
<1> USE DEF Inv
<1>1. UNCHANGED <<clock, code, entry, subject, receipts, revoked, dead, nextId, issued>>
  BY Zenon DEF Present
<1>2. req' \in [Requests -> Request] /\ RequestsOK'
  BY Zenon, PresentOK
<1>3. ReceiptsOK' /\ IssuedOK' /\ RedeemedOnce'
  BY Zenon, <1>1, Quiet
<1>4. TypeOK'
  BY Zenon, <1>1, <1>2 DEF TypeOK
<1> QED BY Zenon, <1>2, <1>3, <1>4

(* Approval and publication change a code nobody has presented.                *)
LEMMA CodeStep ==
    ASSUME Inv, NEW c \in Codes, Approve(c) \/ Publish(c)
    PROVE  Inv'
<1> USE DEF Inv
<1>1. UNCHANGED <<clock, subject, receipts, revoked, dead, nextId, req, issued>>
      /\ code[c].stage # "published"
  BY Zenon DEF Approve, Publish
<1>2. PICK r \in CodeRow : r = code[c]
  BY Zenon DEF TypeOK
<1>3. PICK t \in Horizon : t = clock + CodeTTL
  BY ConstantsAssumption DEF TypeOK, Times, Horizon
<1>4. [r EXCEPT !.stage = "approved", !.expires = t] \in CodeRow
  BY Zenon DEF CodeRow
<1>5. [r EXCEPT !.stage = "published", !.until = t] \in CodeRow
  BY Zenon DEF CodeRow
<1>6. PICK s \in CodeRow : code' = [code EXCEPT ![c] = s]
  BY Zenon, <1>2, <1>3, <1>4, <1>5 DEF Approve, Publish
<1>7. code' \in [Codes -> CodeRow]
      /\ \A d \in Codes : d # c => code'[d] = code[d]
  BY Zenon, <1>6 DEF TypeOK
<1>8. \A d \in Codes : code[d].stage = "published" => code'[d] = code[d]
  BY Zenon, <1>1, <1>7
<1>9. entry' \in [Codes -> Entry]
  <2>1. CASE Approve(c)
    BY Zenon, <2>1 DEF TypeOK, Approve
  <2>2. CASE Publish(c)
    BY Zenon, <1>3, <2>2, EntryTyped DEF Publish
  <2> QED BY Zenon, <2>1, <2>2
<1>10. req' \in [Requests -> Request] /\ RequestsOK'
  BY Zenon, <1>1, <1>8, KeepRequests
<1>11. ReceiptsOK'
  <2>1. \A x \in receipts : x.code \in Codes
    BY Zenon DEF TypeOK, Receipt
  <2> QED BY Zenon, <1>1, <1>8, <2>1 DEF ReceiptsOK
<1>12. IssuedOK'
  <2>1. \A i \in issued : i.code \in Codes
    BY Zenon DEF TypeOK, Issuance
  <2> QED BY Zenon, <1>1, <1>8, <2>1 DEF IssuedOK, Expired
<1>13. TypeOK' /\ RedeemedOnce'
  BY Zenon, <1>1, <1>7, <1>9, <1>10 DEF TypeOK, RedeemedOnce
<1> QED BY Zenon, <1>10, <1>11, <1>12, <1>13

(* The entry may change at will.                                               *)
LEMMA FailoverStep ==
    ASSUME Inv, NEW c \in Codes, Failover(c)
    PROVE  Inv'
<1> USE DEF Inv
<1>1. UNCHANGED <<clock, code, subject, receipts, revoked, dead, nextId, req, issued>>
  BY Zenon DEF Failover
<1>2. code[c].until \in Horizon /\ 0 \in Horizon
  BY ConstantsAssumption DEF TypeOK, CodeRow, Horizon
<1>3. entry' \in [Codes -> Entry]
  <2>1. [entry EXCEPT ![c] = Gone] \in [Codes -> Entry]
    BY Zenon, <1>2, EntryTyped DEF Gone
  <2>2. \A s \in {"pending", "consuming"} :
          [entry EXCEPT ![c] = [state |-> s, until |-> code[c].until]] \in [Codes -> Entry]
    BY Zenon, <1>2, EntryTyped
  <2> QED BY Zenon, <2>1, <2>2 DEF Failover
<1>4. ReceiptsOK' /\ IssuedOK' /\ RedeemedOnce'
  BY Zenon, <1>1, Quiet
<1>5. req' \in [Requests -> Request] /\ RequestsOK'
  BY Zenon, <1>1, KeepRequests
<1>6. TypeOK'
  BY Zenon, <1>1, <1>3, <1>5 DEF TypeOK
<1> QED BY Zenon, <1>4, <1>5, <1>6

(* A receipt is reclaimed only once its code has expired, and time only        *)
(* expires codes.                                                              *)
LEMMA EnvironmentStep ==
    ASSUME Inv, Deactivate \/ Reclaim \/ Tick
    PROVE  Inv'
<1> USE DEF Inv
<1>1. UNCHANGED <<code, entry, dead, nextId, req, issued>>
  BY Zenon DEF Deactivate, Reclaim, Tick
<1>2. clock \in Nat /\ clock' \in Times /\ clock' >= clock
  BY ConstantsAssumption DEF Deactivate, Reclaim, Tick, TypeOK, Times
<1>3. /\ receipts' \subseteq receipts /\ revoked' \subseteq revoked
      /\ \A r \in receipts : r \notin receipts' => r.retain <= clock'
      /\ subject' \in {"active", "inactive"}
  BY Zenon DEF Deactivate, Reclaim, Tick, TypeOK
<1>4. req' \in [Requests -> Request] /\ RequestsOK'
  BY Zenon, <1>1, KeepRequests
<1>5. TypeOK'
  BY Zenon, <1>1, <1>2, <1>3, <1>4 DEF TypeOK
<1>6. ReceiptsOK' /\ RedeemedOnce'
  BY Zenon, <1>1, <1>3 DEF ReceiptsOK, RedeemedOnce
<1>7. IssuedOK'
  <2>1. ASSUME NEW i \in issued
        PROVE  Expired(i.code)' \/ \E r \in receipts' : r.code = i.code
    <3>1. i.code \in Codes /\ code[i.code].expires \in Nat
      BY ConstantsAssumption DEF TypeOK, Issuance, CodeRow, Horizon
    <3>2. CASE Expired(i.code)
      <4>1. code[i.code].expires <= clock /\ clock' \in Nat
        BY <1>2, <3>2, ConstantsAssumption DEF Expired, Times
      <4>2. code[i.code].expires <= clock'
        BY <1>2, <3>1, <4>1
      <4> QED BY Zenon, <1>1, <4>2 DEF Expired
    <3>3. CASE ~Expired(i.code)
      <4>1. PICK r \in receipts : r.code = i.code
        BY Zenon, <3>3 DEF IssuedOK
      <4>2. r.retain \in Nat /\ r.retain >= code[i.code].expires
        BY <4>1, ConstantsAssumption DEF ReceiptsOK, TypeOK, Receipt, Horizon
      <4>3. CASE r \in receipts'
        BY Zenon, <4>1, <4>3
      <4>4. CASE r \notin receipts'
        <5>1. r.retain <= clock'
          BY Zenon, <1>3, <4>4
        <5>2. code[i.code].expires <= clock'
          BY <1>2, <3>1, <4>2, <5>1, ConstantsAssumption DEF Times
        <5> QED BY Zenon, <1>1, <5>2 DEF Expired
      <4> QED BY Zenon, <4>3, <4>4
    <3> QED BY Zenon, <3>2, <3>3
  <2> QED BY Zenon, <1>1, <2>1 DEF IssuedOK
<1> QED BY Zenon, <1>4, <1>5, <1>6, <1>7
-----------------------------------------------------------------------------
(* The theorems.                                                              *)

(* No code has been presented or redeemed when the system starts.              *)
LEMMA InitInv == Init => Inv
<1> SUFFICES ASSUME Init PROVE Inv
  BY Zenon
<1>1. PICK b \in Keys \cup {"none"} :
        code = [c \in Codes |-> [stage |-> "none", expires |-> 0, bound |-> b, until |-> 0]]
  BY Zenon DEF Init
<1>2. [stage |-> "none", expires |-> 0, bound |-> b, until |-> 0] \in CodeRow
  BY ConstantsAssumption DEF CodeRow, Horizon
<1>3. Gone \in Entry
  BY ConstantsAssumption DEF Gone, Entry, Horizon
<1>4. TypeOK
  BY <1>1, <1>2, <1>3, IdleTyped, ConstantsAssumption DEF Init, TypeOK, Times
<1>5. RequestsOK
  BY Zenon, IdleTyped DEF Init, RequestsOK, RequestOK
<1>6. ReceiptsOK /\ IssuedOK /\ RedeemedOnce
  BY Zenon DEF Init, ReceiptsOK, IssuedOK, RedeemedOnce
<1> QED BY Zenon, <1>4, <1>5, <1>6 DEF Inv

(* The invariant is inductive.                                                 *)
LEMMA NextInv == Inv /\ [Next]_vars => Inv'
<1> SUFFICES ASSUME Inv, [Next]_vars PROVE Inv'
  BY Zenon
<1>1. CASE \E c \in Codes : Approve(c) \/ Publish(c) \/ Failover(c)
  BY Zenon, <1>1, CodeStep, FailoverStep
<1>2. CASE \E q \in Requests, c \in Codes, f \in Presented : Present(q, c, f)
  BY Zenon, <1>2, PresentStep
<1>3. CASE \E q \in Requests : Commit(q)
  BY Zenon, <1>3, CommitStep
<1>4. CASE \E q \in Requests :
            \/ FindExpired(q) \/ Begin(q) \/ Admit(q) \/ CommitRefused(q)
            \/ Finalize(q) \/ MarkFailed(q) \/ FindNothing(q) \/ FindReceipt(q)
            \/ RevokeReplayed(q) \/ Abandon(q)
  BY Zenon, <1>4, RequestStep
<1>5. CASE Deactivate \/ Reclaim \/ Tick
  BY Zenon, <1>5, EnvironmentStep
<1>6. CASE UNCHANGED vars
  <2>1. UNCHANGED <<clock, code, entry, subject, receipts, revoked, dead, nextId, req, issued>>
    BY Zenon, <1>6 DEF vars
  <2>2. ReceiptsOK' /\ IssuedOK' /\ RedeemedOnce'
    BY Zenon, <2>1, Quiet DEF Inv
  <2>3. RequestsOK' /\ TypeOK'
    BY Zenon, <2>1, KeepRequests DEF Inv, TypeOK
  <2> QED BY Zenon, <2>2, <2>3 DEF Inv
<1> QED BY Zenon, <1>1, <1>2, <1>3, <1>4, <1>5, <1>6 DEF Next

(* The values the handler and the stores hold have the types of the code.      *)
THEOREM TypeCorrect == Spec => []TypeOK
<1>1. Inv => TypeOK
  BY Zenon DEF Inv
<1> QED BY <1>1, InitInv, NextInv, PTL DEF Spec

(* commit_token_issuance never redeems a code twice, for any number of         *)
(* concurrent requests and whatever Valkey and the cleanup do.                 *)
THEOREM CodeRedeemedOnce == Spec => []RedeemedOnce
<1>1. Inv => RedeemedOnce
  BY Zenon DEF Inv
<1> QED BY <1>1, InitInv, NextInv, PTL DEF Spec

(* The authorization-code handler implements the single-use grant: a commit    *)
(* redeems, a replay retires what was issued, and nothing else is visible.     *)
THEOREM CodeImplementsSingleUse == Spec => ImplementsSingleUse
<1> DEFINE minted == {<<i.code, i.id>> : i \in issued}
<1>1. Init => SU!Init
  BY Zenon DEF Init, SU!Init
<1>2. Inv /\ [Next]_vars => [SU!Next]_(SU!vars)
  <2> SUFFICES ASSUME Inv, [Next]_vars PROVE SU!Next \/ UNCHANGED <<minted, dead>>
    BY Zenon DEF SU!vars
  <2>1. CASE \E q \in Requests : Commit(q)
    <3>1. PICK q \in Requests : Commit(q)
      BY Zenon, <2>1
    <3> DEFINE c == req[q].code
               new == [code |-> c, id |-> nextId, facts |-> req[q].facts,
                       expires |-> req[q].expires]
    <3>2. /\ c \in Codes /\ nextId \in Ids /\ UNCHANGED dead
          /\ issued' = issued \cup {new} /\ new.code = c /\ new.id = nextId
      BY Zenon, <3>1 DEF Commit, Inv, RequestsOK, RequestOK
    <3>3. \A i \in issued : i.id \in Nat /\ i.id < nextId
      BY DEF Inv, IssuedOK, TypeOK, Issuance, Ids
    <3>4. Inv'
      BY Zenon, <3>1, CommitStep
    <3> HIDE DEF new, c
    <3>5. new \notin issued
      BY <3>2, <3>3, ConstantsAssumption DEF Ids
    <3>6. \A i \in issued : i.code # c
      BY Zenon, <3>2, <3>4, <3>5 DEF Inv, RedeemedOnce
    <3>7. \A p \in minted : p[1] # c /\ p[2] # nextId
      BY <3>2, <3>3, <3>6, ConstantsAssumption DEF Ids
    <3>8. minted' = minted \cup {<<c, nextId>>}
      BY Zenon, <3>2
    <3>9. PICK g \in Codes, i \in Ids : g = c /\ i = nextId
      BY Zenon, <3>2
    <3>10. SU!Redeem(g, i)
      BY Zenon, <3>2, <3>7, <3>8, <3>9 DEF SU!Redeem
    <3> QED BY Zenon, <3>10 DEF SU!Next
  <2>2. CASE \E q \in Requests : RevokeReplayed(q)
    <3>1. PICK q \in Requests : RevokeReplayed(q)
      BY Zenon, <2>2
    <3>2. req[q].id \in Ids /\ \E i \in issued : i.id = req[q].id
      BY Zenon, <3>1 DEF RevokeReplayed, Inv, RequestsOK, RequestOK
    <3>3. \E p \in minted : p[2] = req[q].id
      <4>1. PICK i \in issued : i.id = req[q].id
        BY Zenon, <3>2
      <4>2. <<i.code, i.id>> \in minted /\ <<i.code, i.id>>[2] = i.id
        BY Zenon
      <4> QED BY Zenon, <4>1, <4>2
    <3>4. dead' = dead \cup {req[q].id} /\ minted' = minted
      BY Zenon, <3>1 DEF RevokeReplayed
    <3>5. SU!Retire(req[q].id)
      BY Zenon, <3>3, <3>4 DEF SU!Retire
    <3> QED BY Zenon, <3>2, <3>5 DEF SU!Next
  <2>3. CASE ~\E q \in Requests : Commit(q) \/ RevokeReplayed(q)
    BY ZenonT(60), <2>3 DEF Next, vars, Approve, Publish, Failover, Present, FindExpired, Begin, Admit,
                CommitRefused, Finalize, MarkFailed, FindNothing, FindReceipt, Abandon,
                Deactivate, Reclaim, Tick
  <2> QED BY Zenon, <2>1, <2>2, <2>3
<1> QED BY <1>1, <1>2, InitInv, NextInv, PTL DEF Spec, ImplementsSingleUse, SU!Spec

-----------------------------------------------------------------------------
(* What a code's receipt is for: the tokens a code minted went to the holder   *)
(* that proved it, a replay by that holder finds them, and once revoked they   *)
(* stay so.                                                                    *)

(* An issuance is known by its id.                                             *)
IdsUnique == \A i, j \in issued : i.id = j.id => i = j

(* A request that read a fresh payload proved itself against it, and one about *)
(* to revoke holds what the issuance it names was proved with.                 *)
RequestTrue(s) ==
    s.stage # "idle" =>
        /\ s.pending = "fresh" => Proves(s.facts, s.code)
        /\ s.stage = "revoking" =>
            \E i \in issued :
                /\ i.id = s.id /\ i.code = s.code /\ i.expires = s.expires
                /\ Matches(s.facts, i.facts.client, i.facts.key)

RequestsTrue == \A q \in Requests : RequestTrue(req[q])

(* A receipt says of its issuance what the commit that wrote both knew.        *)
ReceiptTrue(r) ==
    \E i \in issued :
        /\ i.id = r.id /\ i.code = r.code /\ i.expires = r.expires
        /\ i.facts.client = r.client /\ i.facts.key = r.key
        /\ r.retain = Retention(i.code, i.expires)

ReceiptsTrue == \A r \in receipts : ReceiptTrue(r)

(* An issuance keeps its receipt for as long as it is retained, and one that   *)
(* was revoked keeps its revocation for as long as its token is accepted.      *)
ReceiptKept ==
    \A i \in issued : Retention(i.code, i.expires) > clock =>
        \E r \in receipts : r.id = i.id

RevocationKept ==
    \A i \in issued : i.id \in dead /\ clock < i.expires + Skew =>
        \E r \in revoked : r.id = i.id /\ r.until >= i.expires + Skew

DeadIssued == \A d \in dead : \E i \in issued : i.id = d

GuardInv ==
    /\ IdsUnique /\ RequestsTrue /\ ReceiptsTrue /\ ReceiptKept
    /\ RevocationKept /\ DeadIssued /\ ProofBeforeMint

-----------------------------------------------------------------------------
(* The requests.                                                              *)

(* Storing a true request keeps all requests true, as long as the bindings of  *)
(* the codes stay and issuances stay issued.                                   *)
LEMMA StoreTrue ==
    ASSUME TypeOK, RequestsOK, RequestsTrue, NEW q \in Requests, NEW s \in Request,
           req' = [req EXCEPT ![q] = s],
           RequestTrue(s)',
           \A c \in Codes : code'[c].bound = code[c].bound,
           issued \subseteq issued'
    PROVE  RequestsTrue'
<1>1. ASSUME NEW p \in Requests PROVE RequestTrue(req[p])'
  <2>1. CASE p = q
    <3>1. req'[p] = s
      BY Zenon, <2>1 DEF TypeOK
    <3> QED BY Zenon, <3>1 DEF RequestTrue
  <2>2. CASE p # q
    <3>1. req'[p] = req[p]
      BY Zenon, <2>2 DEF TypeOK
    <3>2. RequestTrue(req[p]) /\ (req[p].stage # "idle" => req[p].code \in Codes)
      BY Zenon DEF RequestsTrue, RequestsOK, RequestOK
    <3> QED BY <3>1, <3>2 DEF RequestTrue, Proves, Matches
  <2> QED BY Zenon, <2>1, <2>2
<1> QED BY Zenon, <1>1 DEF RequestsTrue

(* Requests that stay as they are stay true.                                   *)
LEMMA KeepTrue ==
    ASSUME RequestsOK, RequestsTrue, req' = req,
           \A c \in Codes : code'[c].bound = code[c].bound,
           issued \subseteq issued'
    PROVE  RequestsTrue'
<1>1. ASSUME NEW p \in Requests PROVE RequestTrue(req[p])'
  <2>1. RequestTrue(req[p]) /\ (req[p].stage # "idle" => req[p].code \in Codes)
    BY Zenon DEF RequestsTrue, RequestsOK, RequestOK
  <2> QED BY Zenon, <2>1 DEF RequestTrue, Proves, Matches
<1> QED BY Zenon, <1>1 DEF RequestsTrue

(* A request in flight that goes to a stage other than the revocation.         *)
LEMMA GotoTrue ==
    ASSUME TypeOK, RequestsOK, RequestsTrue, NEW q \in Requests,
           NEW st \in Stages \ {"revoking"},
           Goto(q, st), req[q].stage # "idle", UNCHANGED code, issued \subseteq issued'
    PROVE  RequestsTrue'
<1>1. PICK s \in Request :
        req' = [req EXCEPT ![q] = s] /\ s.stage = st /\ Kept(q, s)
  BY Zenon, GotoMoves
<1>2. RequestTrue(s)'
  BY Zenon, <1>1 DEF RequestsTrue, RequestTrue, Kept, Proves
<1> QED BY Zenon, <1>1, <1>2, StoreTrue

(* A request in flight that turns to the receipt.                              *)
LEMMA LookupTrue ==
    ASSUME TypeOK, RequestsOK, RequestsTrue, NEW q \in Requests,
           NEW t \in {"refuse", "mark"},
           Lookup(q, t), req[q].stage # "idle", UNCHANGED <<code, issued>>
    PROVE  RequestsTrue'
<1>1. PICK s \in Request :
        req' = [req EXCEPT ![q] = s] /\ s.stage = "lookup" /\ Kept(q, s)
  BY Zenon, LookupMoves
<1>2. RequestTrue(s)'
  BY Zenon, <1>1 DEF RequestsTrue, RequestTrue, Kept, Proves
<1> QED BY Zenon, <1>1, <1>2, StoreTrue

(* A request that ends.                                                        *)
LEMMA FinishTrue ==
    ASSUME TypeOK, RequestsOK, RequestsTrue, NEW q \in Requests, Finish(q),
           UNCHANGED code, issued \subseteq issued'
    PROVE  RequestsTrue'
<1>1. RequestTrue(Idle)'
  BY Zenon, IdleTyped DEF RequestTrue, Idle
<1> QED BY Zenon, <1>1, IdleTyped, StoreTrue DEF Finish

(* Present keeps a fresh payload only for a request that proved itself.        *)
LEMMA PresentTrue ==
    ASSUME TypeOK, RequestsOK, RequestsTrue, NEW q \in Requests, NEW c \in Codes,
           NEW f \in Presented, Present(q, c, f)
    PROVE  RequestsTrue'
<1>1. PICK p \in {"fresh", "expired", "none"} :
        p = IF Cached(c) # "pending" THEN "none"
            ELSE IF Expired(c) THEN "expired" ELSE "fresh"
  BY Zenon
<1>2. PICK s : s = [Idle EXCEPT !.stage = "loaded", !.code = c, !.facts = f,
                                !.pending = p]
  BY Zenon
<1>3. (p = "fresh" => Proves(f, c)) /\ req' = [req EXCEPT ![q] = s]
      /\ UNCHANGED <<code, issued>>
  BY Zenon, <1>1, <1>2 DEF Present
<1>4. f \in Facts
  BY Zenon, ConstantsAssumption
<1>5. s \in Request /\ s.stage = "loaded" /\ s.code = c /\ s.facts = f /\ s.pending = p
  BY Zenon, <1>2, <1>4, IdleTyped DEF Request
<1>6. RequestTrue(s)'
  BY Zenon, <1>3, <1>5 DEF RequestTrue, Proves
<1> QED BY Zenon, <1>3, <1>5, <1>6, StoreTrue

(* Admit signs for the request as it stands.                                   *)
LEMMA AdmitTrue ==
    ASSUME TypeOK, RequestsOK, RequestsTrue, NEW q \in Requests, Admit(q)
    PROVE  RequestsTrue'
<1>1. req[q].stage # "idle" /\ UNCHANGED <<code, issued>>
  BY Zenon DEF Admit
<1>2. CASE Lookup(q, "mark")
  BY Zenon, <1>1, <1>2, LookupTrue
<1>3. CASE Goto(q, "marking")
  BY Zenon, <1>1, <1>3, GotoTrue DEF Stages
<1>4. CASE req' = [req EXCEPT ![q] = [req[q] EXCEPT !.stage = "prepared",
                                                    !.expires = clock + AccessTTL]]
  <2>1. PICK r \in Request, t \in Times : r = req[q] /\ t = clock
    BY Zenon DEF TypeOK
  <2>2. t + AccessTTL \in Expiries
    BY ConstantsAssumption DEF Times, Expiries
  <2>3. PICK s : s = [r EXCEPT !.stage = "prepared", !.expires = t + AccessTTL]
    BY Zenon
  <2>4. s \in Request /\ s.stage = "prepared" /\ s.code = r.code
        /\ s.facts = r.facts /\ s.pending = r.pending
    BY Zenon, <2>2, <2>3 DEF Request
  <2>5. req' = [req EXCEPT ![q] = s]
    BY Zenon, <1>4, <2>1, <2>3
  <2>6. RequestTrue(s)'
    BY Zenon, <1>1, <2>1, <2>4 DEF RequestsTrue, RequestTrue, Proves
  <2> QED BY Zenon, <1>1, <2>4, <2>5, <2>6, StoreTrue
<1> QED BY Zenon, <1>2, <1>3, <1>4 DEF Admit

(* FindReceipt takes up only a receipt that the request matches, and with it   *)
(* the issuance that the receipt records.                                      *)
LEMMA FindReceiptTrue ==
    ASSUME TypeOK, RequestsOK, RequestsTrue, ReceiptsTrue, NEW q \in Requests,
           FindReceipt(q)
    PROVE  RequestsTrue'
<1>1. UNCHANGED <<code, issued>> /\ req[q].stage # "idle"
  BY Zenon DEF FindReceipt
<1>2. PICK r \in Request : r = req[q]
  BY Zenon DEF TypeOK
<1>3. PICK o \in receipts :
        /\ o.code = r.code /\ Matches(r.facts, o.client, o.key)
        /\ req' = [req EXCEPT ![q] = [req[q] EXCEPT !.stage = "revoking", !.id = o.id,
                                                 !.expires = o.expires]]
  BY Zenon, <1>2 DEF FindReceipt, Evidence
<1>4. PICK n \in Ids, e \in Expiries : n = o.id /\ e = o.expires
  BY Zenon DEF TypeOK, Receipt
<1>5. PICK i \in issued :
        /\ i.id = n /\ i.code = r.code /\ i.expires = e
        /\ i.facts.client = o.client /\ i.facts.key = o.key
  BY <1>3, <1>4 DEF ReceiptsTrue, ReceiptTrue
<1>6. PICK s : s = [r EXCEPT !.stage = "revoking", !.id = n, !.expires = e]
  BY Zenon
<1>7. s \in Request /\ s.stage = "revoking" /\ s.code = r.code /\ s.facts = r.facts
      /\ s.pending = r.pending /\ s.id = n /\ s.expires = e
  BY Zenon, <1>6 DEF Request
<1>8. req' = [req EXCEPT ![q] = s]
  BY Zenon, <1>2, <1>3, <1>4, <1>6
<1>9. s.pending = "fresh" => Proves(s.facts, s.code)
  BY Zenon, <1>1, <1>2, <1>7 DEF RequestsTrue, RequestTrue
<1>10. Matches(s.facts, i.facts.client, i.facts.key)
  BY Zenon, <1>3, <1>5, <1>7
<1>11. RequestTrue(s)'
  BY Zenon, <1>1, <1>5, <1>7, <1>9, <1>10 DEF RequestTrue, Proves
<1> QED BY Zenon, <1>1, <1>7, <1>8, <1>11, StoreTrue

-----------------------------------------------------------------------------
(* The steps.                                                                 *)

(* The guards hold on while the stores do not change.                          *)
LEMMA StillGuarded ==
    ASSUME GuardInv, RequestsTrue',
           UNCHANGED <<clock, code, receipts, revoked, dead, issued>>
    PROVE  GuardInv'
<1>1. IdsUnique' /\ DeadIssued'
  BY Zenon DEF GuardInv, IdsUnique, DeadIssued
<1>2. ReceiptsTrue' /\ ReceiptKept'
  BY ZenonT(60) DEF GuardInv, ReceiptsTrue, ReceiptTrue, ReceiptKept, Retention
<1>3. RevocationKept'
  BY Zenon DEF GuardInv, RevocationKept
<1>4. ProofBeforeMint'
  BY Zenon DEF GuardInv, ProofBeforeMint, Proves
<1> QED BY Zenon, <1>1, <1>2, <1>3, <1>4 DEF GuardInv

(* A request that neither commits nor revokes only moves on.                   *)
LEMMA RequestGuarded ==
    ASSUME Inv, GuardInv, NEW q \in Requests,
           \/ FindExpired(q) \/ Begin(q) \/ Admit(q) \/ CommitRefused(q)
           \/ Finalize(q) \/ MarkFailed(q) \/ FindNothing(q) \/ FindReceipt(q)
           \/ Abandon(q)
    PROVE  GuardInv'
<1> USE DEF Inv
<1>1. UNCHANGED <<clock, code, receipts, revoked, dead, issued>>
  BY Zenon DEF FindExpired, Begin, Admit, CommitRefused, Finalize, MarkFailed, FindNothing,
         FindReceipt, Abandon
<1>2. issued \subseteq issued' /\ UNCHANGED <<code, issued>> /\ RequestsTrue
      /\ ReceiptsTrue
  BY Zenon, <1>1 DEF GuardInv
<1>3. RequestsTrue'
  <2>1. CASE FindExpired(q)
    BY Zenon, <1>2, <2>1, LookupTrue DEF FindExpired
  <2>2. CASE Begin(q)
    BY Zenon, <1>2, <2>2, LookupTrue, GotoTrue, FinishTrue DEF Begin, Stages
  <2>3. CASE Admit(q)
    BY Zenon, <1>2, <2>3, AdmitTrue
  <2>4. CASE CommitRefused(q)
    BY Zenon, <1>2, <2>4, LookupTrue, GotoTrue DEF CommitRefused, Stages
  <2>5. CASE Finalize(q) \/ MarkFailed(q) \/ Abandon(q)
    BY Zenon, <1>2, <2>5, FinishTrue DEF Finalize, MarkFailed, Abandon
  <2>6. CASE FindNothing(q)
    BY Zenon, <1>2, <2>6, GotoTrue DEF FindNothing, Stages
  <2>7. CASE FindReceipt(q)
    BY Zenon, <1>2, <2>7, FindReceiptTrue
  <2> QED BY Zenon, <2>1, <2>2, <2>3, <2>4, <2>5, <2>6, <2>7
<1> QED BY Zenon, <1>1, <1>3, StillGuarded

(* A commit mints to a request that proved itself, under a new id, and leaves  *)
(* the receipt of what it minted.                                              *)
LEMMA CommitGuarded ==
    ASSUME Inv, GuardInv, NEW q \in Requests, Commit(q)
    PROVE  GuardInv'
<1> USE DEF Inv
<1>1. PICK r \in Request : r = req[q]
  BY Zenon DEF TypeOK
<1>2. PICK new : new = [code |-> r.code, id |-> nextId, facts |-> r.facts,
                        expires |-> r.expires]
  BY Zenon
<1>3. PICK receipt :
        receipt = [code |-> r.code, client |-> r.facts.client, key |-> r.facts.key,
                   id |-> nextId, expires |-> r.expires,
                   retain |-> Retention(r.code, r.expires)]
  BY Zenon
<1>4. /\ r.stage = "prepared"
      /\ receipts' = receipts \cup {receipt} /\ issued' = issued \cup {new}
      /\ UNCHANGED <<clock, code, revoked, dead>>
      /\ Goto(q, "committed") \/ Finish(q)
  BY Zenon, <1>1, <1>2, <1>3 DEF Commit
<1>5. new.code = r.code /\ new.id = nextId /\ new.facts = r.facts
      /\ new.expires = r.expires
  BY Zenon, <1>2
<1>6. /\ receipt.code = r.code /\ receipt.id = nextId
      /\ receipt.client = r.facts.client /\ receipt.key = r.facts.key
      /\ receipt.expires = r.expires
      /\ receipt.retain = Retention(r.code, r.expires)
  BY Zenon, <1>3
<1>7. Proves(r.facts, r.code)
  BY Zenon, <1>1, <1>4 DEF GuardInv, RequestsTrue, RequestTrue, RequestsOK, RequestOK
<1>8. \A i \in issued : i.id # nextId
  <2>1. \A i \in issued : i.id \in Nat /\ i.id < nextId /\ nextId \in Nat
    BY ConstantsAssumption DEF IssuedOK, TypeOK, Issuance, Ids
  <2> QED BY <2>1
<1>9. RequestsTrue'
  BY Zenon, <1>1, <1>4, GotoTrue, FinishTrue DEF GuardInv, Stages
<1>10. IdsUnique'
  BY Zenon, <1>4, <1>5, <1>8 DEF GuardInv, IdsUnique
<1>11. DeadIssued' /\ \A d \in dead : d # nextId
  BY Zenon, <1>4, <1>8 DEF GuardInv, DeadIssued
<1>12. ReceiptsTrue'
  <2>1. ReceiptTrue(receipt)'
    BY Zenon, <1>4, <1>5, <1>6 DEF ReceiptTrue, Retention
  <2>2. \A o \in receipts : ReceiptTrue(o)'
    BY <1>4 DEF GuardInv, ReceiptsTrue, ReceiptTrue, Retention
  <2> QED BY Zenon, <1>4, <2>1, <2>2 DEF ReceiptsTrue
<1>13. ReceiptKept'
  BY Zenon, <1>4, <1>5, <1>6 DEF GuardInv, ReceiptKept, Retention
<1>14. RevocationKept'
  BY Zenon, <1>4, <1>5, <1>11 DEF GuardInv, RevocationKept
<1>15. ProofBeforeMint'
  BY Zenon, <1>4, <1>5, <1>7 DEF GuardInv, ProofBeforeMint, Proves
<1> QED BY Zenon, <1>9, <1>10, <1>11, <1>12, <1>13, <1>14, <1>15 DEF GuardInv

(* A revocation covers the issuance it names until its token has run out, and  *)
(* leaves every other revocation in place.                                     *)
LEMMA RevokeGuarded ==
    ASSUME Inv, GuardInv, NEW q \in Requests, RevokeReplayed(q)
    PROVE  GuardInv'
<1> USE DEF Inv
<1>1. PICK r \in Request : r = req[q]
  BY Zenon DEF TypeOK
<1>2. PICK n, e : n = r.id /\ e = r.expires + Skew
  BY Zenon
<1>3. /\ r.stage = "revoking"
      /\ UNCHANGED <<clock, code, receipts, issued>>
      /\ dead' = dead \cup {n}
      /\ Goto(q, "refused") \/ Goto(q, "marking")
  BY Zenon, <1>1, <1>2 DEF RevokeReplayed
<1>4. revoked' = IF \E o \in revoked : o.id = n /\ o.until >= e
                 THEN revoked
                 ELSE {o \in revoked : o.id # n} \cup {[id |-> n, until |-> e]}
  BY Zenon, <1>1, <1>2 DEF RevokeReplayed, RevocationDeadline
<1>5. e \in Nat
  BY <1>2, ConstantsAssumption DEF Request, Expiries
<1>6. /\ \E o \in revoked' : o.id = n /\ o.until >= e
      /\ \A o \in revoked : o.id # n => o \in revoked'
  <2>1. [id |-> n, until |-> e].id = n /\ [id |-> n, until |-> e].until >= e
    BY <1>5
  <2> QED BY Zenon, <1>4, <2>1
<1>7. PICK i \in issued : i.id = n /\ i.expires + Skew = e
  BY Zenon, <1>1, <1>2, <1>3 DEF GuardInv, RequestsTrue, RequestTrue
<1>8. RequestsTrue'
  <2>1. req[q].stage # "idle" /\ UNCHANGED code /\ issued \subseteq issued'
        /\ RequestsTrue
    BY Zenon, <1>1, <1>3 DEF GuardInv
  <2> QED BY Zenon, <1>3, <2>1, GotoTrue DEF Stages
<1>9. RevocationKept'
  <2>1. ASSUME NEW j \in issued, j.id \in dead', clock < j.expires + Skew
        PROVE  \E o \in revoked' : o.id = j.id /\ o.until >= j.expires + Skew
    <3>1. CASE j.id = n
      <4>1. j = i
        BY Zenon, <1>7, <3>1 DEF GuardInv, IdsUnique
      <4> QED BY Zenon, <1>6, <1>7, <4>1
    <3>2. CASE j.id # n
      <4>1. PICK o \in revoked : o.id = j.id /\ o.until >= j.expires + Skew
        BY Zenon, <1>3, <2>1, <3>2 DEF GuardInv, RevocationKept
      <4> QED BY Zenon, <1>6, <3>2, <4>1
    <3> QED BY Zenon, <3>1, <3>2
  <2> QED BY Zenon, <1>3, <2>1 DEF RevocationKept
<1>10. DeadIssued' /\ IdsUnique'
  BY Zenon, <1>3, <1>7 DEF GuardInv, DeadIssued, IdsUnique
<1>11. ReceiptsTrue' /\ ReceiptKept'
  BY ZenonT(60), <1>3 DEF GuardInv, ReceiptsTrue, ReceiptTrue, ReceiptKept, Retention
<1>12. ProofBeforeMint'
  BY Zenon, <1>3 DEF GuardInv, ProofBeforeMint, Proves
<1> QED BY Zenon, <1>8, <1>9, <1>10, <1>11, <1>12 DEF GuardInv

(* Approval and publication leave the binding of every code and the deadline   *)
(* of every code that was redeemed.                                            *)
LEMMA CodeGuarded ==
    ASSUME Inv, GuardInv, NEW c \in Codes, Approve(c) \/ Publish(c)
    PROVE  GuardInv'
<1> USE DEF Inv
<1>1. UNCHANGED <<clock, receipts, revoked, dead, req, issued>>
      /\ code[c].stage # "published"
  BY Zenon DEF Approve, Publish
<1>2. PICK r \in CodeRow : r = code[c]
  BY Zenon DEF TypeOK
<1>3. PICK s : code' = [code EXCEPT ![c] = s] /\ s.bound = r.bound
  <2>1. CASE Approve(c)
    <3>1. PICK s : s = [r EXCEPT !.stage = "approved", !.expires = clock + CodeTTL]
      BY Zenon
    <3>2. s.bound = r.bound
      BY Zenon, <3>1 DEF CodeRow
    <3> QED BY Zenon, <1>2, <2>1, <3>1, <3>2 DEF Approve
  <2>2. CASE Publish(c)
    <3>1. PICK s : s = [r EXCEPT !.stage = "published", !.until = clock + CodeTTL]
      BY Zenon
    <3>2. s.bound = r.bound
      BY Zenon, <3>1 DEF CodeRow
    <3> QED BY Zenon, <1>2, <2>2, <3>1, <3>2 DEF Publish
  <2> QED BY Zenon, <2>1, <2>2
<1>4. \A d \in Codes : /\ code'[d].bound = code[d].bound
                       /\ d # c => code'[d] = code[d]
  BY Zenon, <1>2, <1>3 DEF TypeOK
<1>5. RequestsTrue'
  BY Zenon, <1>1, <1>4, KeepTrue DEF GuardInv
<1>6. \A i \in issued : i.code \in Codes /\ i.code # c /\ code'[i.code] = code[i.code]
  BY Zenon, <1>1, <1>4 DEF IssuedOK, TypeOK, Issuance
<1>7. ReceiptsTrue' /\ ReceiptKept'
  <2>1. \A i \in issued : Retention(i.code, i.expires)' = Retention(i.code, i.expires)
    BY Zenon, <1>6 DEF Retention
  <2>2. ReceiptsTrue'
    <3>1. ASSUME NEW o \in receipts PROVE ReceiptTrue(o)'
      <4>1. PICK i \in issued :
              /\ i.id = o.id /\ i.code = o.code /\ i.expires = o.expires
              /\ i.facts.client = o.client /\ i.facts.key = o.key
              /\ o.retain = Retention(i.code, i.expires)
        BY Zenon DEF GuardInv, ReceiptsTrue, ReceiptTrue
      <4>2. o.retain = Retention(i.code, i.expires)'
        BY Zenon, <2>1, <4>1
      <4> QED BY Zenon, <1>1, <4>1, <4>2 DEF ReceiptTrue
    <3> QED BY Zenon, <1>1, <3>1 DEF ReceiptsTrue
  <2>3. ReceiptKept'
    <3>1. ASSUME NEW i \in issued, Retention(i.code, i.expires)' > clock
          PROVE  \E r1 \in receipts : r1.id = i.id
      <4>1. Retention(i.code, i.expires) > clock
        BY Zenon, <2>1, <3>1
      <4> QED BY Zenon, <4>1 DEF GuardInv, ReceiptKept
    <3> QED BY Zenon, <1>1, <3>1 DEF ReceiptKept
  <2> QED BY Zenon, <2>2, <2>3
<1>8. RevocationKept' /\ DeadIssued' /\ IdsUnique'
  BY Zenon, <1>1 DEF GuardInv, RevocationKept, DeadIssued, IdsUnique
<1>9. ProofBeforeMint'
  BY Zenon, <1>1, <1>6 DEF GuardInv, ProofBeforeMint, Proves
<1> QED BY Zenon, <1>5, <1>7, <1>8, <1>9 DEF GuardInv

(* The receipt of an issuance is retained as long as the issuance asks.        *)
LEMMA ReceiptOf ==
    ASSUME GuardInv, NEW i \in issued, NEW r \in receipts, r.id = i.id
    PROVE  /\ r.code = i.code /\ r.client = i.facts.client /\ r.key = i.facts.key
           /\ r.retain = Retention(i.code, i.expires)
<1>1. PICK j \in issued :
        /\ j.id = r.id /\ j.code = r.code /\ j.expires = r.expires
        /\ j.facts.client = r.client /\ j.facts.key = r.key
        /\ r.retain = Retention(j.code, j.expires)
  BY Zenon DEF GuardInv, ReceiptsTrue, ReceiptTrue
<1>2. j = i
  BY Zenon, <1>1 DEF GuardInv, IdsUnique
<1> QED BY Zenon, <1>1, <1>2

(* The deadlines that the guards compare with the clock are numbers.           *)
LEMMA Deadlines ==
    ASSUME TypeOK, NEW i \in issued
    PROVE  /\ clock \in Nat /\ i.expires \in Nat /\ i.expires + Skew \in Nat
           /\ i.code \in Codes /\ code[i.code].expires \in Nat
           /\ Retention(i.code, i.expires) \in Nat
           /\ Retention(i.code, i.expires) >= i.expires + Skew
           /\ Retention(i.code, i.expires) >= code[i.code].expires
<1>1. clock \in Nat /\ i.expires \in Nat /\ i.code \in Codes
  BY ConstantsAssumption DEF TypeOK, Times, Issuance, Expiries
<1>2. code[i.code].expires \in Nat
  BY <1>1, ConstantsAssumption DEF TypeOK, CodeRow, Horizon
<1>3. i.expires + Skew \in Nat
  BY <1>1, ConstantsAssumption
<1> QED BY <1>1, <1>2, <1>3 DEF Retention

(* The cleanup takes only receipts and revocations whose time is over, and     *)
(* time only ends obligations.                                                 *)
LEMMA EnvironmentGuarded ==
    ASSUME Inv, GuardInv, Deactivate \/ Reclaim \/ Tick
    PROVE  GuardInv'
<1> USE DEF Inv
<1>1. UNCHANGED <<code, dead, req, issued>>
  BY Zenon DEF Deactivate, Reclaim, Tick
<1>2. clock \in Nat /\ clock' \in Nat /\ clock' >= clock
  BY ConstantsAssumption DEF Deactivate, Reclaim, Tick, TypeOK, Times
<1>3. /\ receipts' \subseteq receipts
      /\ \A r \in receipts : r \notin receipts' => r.retain <= clock'
      /\ \A r \in revoked : r \notin revoked' => r.until <= clock'
  BY Zenon DEF Deactivate, Reclaim, Tick, TypeOK
<1>4. RequestsTrue'
  BY Zenon, <1>1, KeepTrue DEF GuardInv
<1>5. IdsUnique' /\ DeadIssued' /\ ProofBeforeMint'
  BY Zenon, <1>1 DEF GuardInv, IdsUnique, DeadIssued, ProofBeforeMint, Proves
<1>6. ReceiptsTrue'
  BY Zenon, <1>1, <1>3 DEF GuardInv, ReceiptsTrue, ReceiptTrue, Retention
<1>7. \A i \in issued : Retention(i.code, i.expires)' = Retention(i.code, i.expires)
  BY Zenon, <1>1 DEF Retention
<1>8. ReceiptKept'
  <2>1. ASSUME NEW i \in issued, Retention(i.code, i.expires) > clock'
        PROVE  \E r \in receipts' : r.id = i.id
    <3>1. PICK d \in Nat : d = Retention(i.code, i.expires)
      BY Zenon, Deadlines
    <3>2. d > clock /\ d > clock'
      BY <1>2, <2>1, <3>1
    <3>3. PICK r \in receipts : r.id = i.id
      BY Zenon, <3>1, <3>2 DEF GuardInv, ReceiptKept
    <3>4. r.retain = d
      BY Zenon, <3>1, <3>3, ReceiptOf
    <3>5. ~(r.retain <= clock')
      BY <1>2, <3>2, <3>4
    <3> QED BY Zenon, <1>3, <3>3, <3>5
  <2>2. ASSUME NEW i \in issued, Retention(i.code, i.expires)' > clock'
        PROVE  \E r \in receipts' : r.id = i.id
    BY Zenon, <1>7, <2>1, <2>2
  <2> QED BY Zenon, <1>1, <2>2 DEF ReceiptKept
<1>9. RevocationKept'
  <2>1. ASSUME NEW i \in issued, i.id \in dead, clock' < i.expires + Skew
        PROVE  \E r \in revoked' : r.id = i.id /\ r.until >= i.expires + Skew
    <3>1. PICK d \in Nat : d = i.expires + Skew
      BY Zenon, Deadlines
    <3>2. clock < d /\ clock' < d
      BY <1>2, <2>1, <3>1
    <3>3. PICK r \in revoked : r.id = i.id /\ r.until >= d
      BY Zenon, <2>1, <3>1, <3>2 DEF GuardInv, RevocationKept
    <3>4. r.until \in Nat
      BY ConstantsAssumption DEF TypeOK, Horizon
    <3>5. ~(r.until <= clock')
      BY <1>2, <3>2, <3>3, <3>4
    <3> QED BY Zenon, <1>3, <3>1, <3>3, <3>5
  <2> QED BY Zenon, <1>1, <2>1 DEF RevocationKept
<1> QED BY Zenon, <1>4, <1>5, <1>6, <1>8, <1>9 DEF GuardInv

-----------------------------------------------------------------------------
(* The guards, and what follows from them.                                    *)

(* Nothing is issued when the system starts.                                   *)
LEMMA InitGuard == Init => GuardInv
<1> SUFFICES ASSUME Init PROVE GuardInv
  BY Zenon
<1>1. issued = {} /\ receipts = {} /\ dead = {}
  BY Zenon DEF Init
<1>2. RequestsTrue
  BY Zenon, IdleTyped DEF Init, RequestsTrue, RequestTrue
<1> QED BY Zenon, <1>1, <1>2
        DEF GuardInv, IdsUnique, ReceiptsTrue, ReceiptKept, RevocationKept, DeadIssued,
            ProofBeforeMint

(* The guards are inductive.                                                   *)
LEMMA NextGuard == Inv /\ GuardInv /\ [Next]_vars => GuardInv'
<1> SUFFICES ASSUME Inv, GuardInv, [Next]_vars PROVE GuardInv'
  BY Zenon
<1>1. CASE \E c \in Codes : Approve(c) \/ Publish(c)
  BY Zenon, <1>1, CodeGuarded
<1>2. CASE \E c \in Codes : Failover(c)
  <2>1. UNCHANGED <<clock, code, receipts, revoked, dead, issued, req>>
    BY Zenon, <1>2 DEF Failover
  <2>2. RequestsTrue'
    BY Zenon, <2>1, KeepTrue DEF Inv, GuardInv
  <2> QED BY Zenon, <2>1, <2>2, StillGuarded
<1>3. CASE \E q \in Requests, c \in Codes, f \in Presented : Present(q, c, f)
  <2>1. PICK q \in Requests, c \in Codes, f \in Presented : Present(q, c, f)
    BY Zenon, <1>3
  <2>2. UNCHANGED <<clock, code, receipts, revoked, dead, issued>>
    BY Zenon, <2>1 DEF Present
  <2>3. RequestsTrue'
    BY Zenon, <2>1, PresentTrue DEF Inv, GuardInv
  <2> QED BY Zenon, <2>2, <2>3, StillGuarded
<1>4. CASE \E q \in Requests : Commit(q)
  BY Zenon, <1>4, CommitGuarded
<1>5. CASE \E q \in Requests : RevokeReplayed(q)
  BY Zenon, <1>5, RevokeGuarded
<1>6. CASE \E q \in Requests :
            \/ FindExpired(q) \/ Begin(q) \/ Admit(q) \/ CommitRefused(q)
            \/ Finalize(q) \/ MarkFailed(q) \/ FindNothing(q) \/ FindReceipt(q)
            \/ Abandon(q)
  BY Zenon, <1>6, RequestGuarded
<1>7. CASE Deactivate \/ Reclaim \/ Tick
  BY Zenon, <1>7, EnvironmentGuarded
<1>8. CASE UNCHANGED vars
  <2>1. UNCHANGED <<clock, code, receipts, revoked, dead, issued, req>>
    BY Zenon, <1>8 DEF vars
  <2>2. RequestsTrue'
    BY Zenon, <2>1, KeepTrue DEF Inv, GuardInv
  <2> QED BY Zenon, <2>1, <2>2, StillGuarded
<1> QED BY Zenon, <1>1, <1>2, <1>3, <1>4, <1>5, <1>6, <1>7, <1>8 DEF Next

(* A token that is accepted, or whose code is alive, has a receipt that a      *)
(* lookup finds.                                                               *)
LEMMA EvidenceThere ==
    ASSUME Inv, GuardInv, NEW i \in issued,
           clock < i.expires + Skew \/ ~Expired(i.code)
    PROVE  \E r \in receipts : r.id = i.id /\ r.retain > clock
<1>1. PICK d \in Nat, s \in Nat, e \in Nat, t \in Nat :
        /\ d = Retention(i.code, i.expires) /\ s = i.expires + Skew
        /\ e = code[i.code].expires /\ t = clock /\ d >= s /\ d >= e
  BY Zenon, Deadlines DEF Inv
<1>2. t < s \/ ~(e <= t)
  BY Zenon, <1>1 DEF Expired
<1>3. d > t
  BY <1>1, <1>2
<1>4. PICK r \in receipts : r.id = i.id
  BY Zenon, <1>1, <1>3 DEF GuardInv, ReceiptKept
<1>5. r.retain = d
  BY Zenon, <1>1, <1>4, ReceiptOf
<1> QED BY Zenon, <1>1, <1>3, <1>4, <1>5

(* What the invariants say about every issued token.                           *)
LEMMA GuardFollows == Inv /\ GuardInv => TokensGuarded
<1> SUFFICES ASSUME Inv, GuardInv PROVE TokensGuarded
  BY Zenon
<1>1. ProofBeforeMint
  BY Zenon DEF GuardInv
<1>2. EvidenceOutlivesToken
  BY Zenon, EvidenceThere DEF EvidenceOutlivesToken
<1>3. RevocationHolds
  BY Zenon DEF GuardInv, RevocationKept, RevocationHolds, Accepted
<1> QED BY Zenon, <1>1, <1>2, <1>3 DEF TokensGuarded

(* Only a lookup that finds nothing is refused or goes on to mark the code.    *)
LEMMA LookupEnds ==
    ASSUME TypeOK, [Next]_vars, NEW q \in Requests, req[q].stage = "lookup",
           req'[q].stage \in {"refused", "marking"}
    PROVE  FindNothing(q)
<1>1. req' # req
  BY Zenon
<1>2. ASSUME NEW p \in Requests, NEW s, req' = [req EXCEPT ![p] = s] PROVE p = q
  BY Zenon, <1>2 DEF TypeOK
<1>3. \A s : req' = [req EXCEPT ![q] = s] => s = req'[q]
  BY Zenon DEF TypeOK
<1>4. ~\E p \in Requests, c \in Codes, f \in Presented : Present(p, c, f)
  <2> SUFFICES ASSUME NEW p \in Requests, NEW c \in Codes, NEW f \in Presented,
                      Present(p, c, f)
               PROVE  FALSE
    BY Zenon
  <2>1. req[p].stage = "idle" /\ \E s : req' = [req EXCEPT ![p] = s]
    BY Zenon DEF Present
  <2> QED BY Zenon, <1>2, <2>1
<1>5. PICK p \in Requests :
        \/ FindExpired(p) \/ Begin(p) \/ Admit(p) \/ Commit(p) \/ CommitRefused(p)
        \/ Finalize(p) \/ MarkFailed(p) \/ FindNothing(p) \/ FindReceipt(p)
        \/ RevokeReplayed(p) \/ Abandon(p)
  BY Zenon, <1>1, <1>4 DEF Next, vars, Approve, Publish, Failover, Deactivate, Reclaim, Tick
<1>6. \E s : req' = [req EXCEPT ![p] = s]
  BY Zenon, <1>5 DEF FindExpired, Begin, Admit, Commit, CommitRefused, Finalize, MarkFailed,
              FindNothing, FindReceipt, RevokeReplayed, Abandon, Goto, Lookup, Finish
<1>7. p = q
  BY Zenon, <1>2, <1>6
<1>8. ~(FindExpired(p) \/ Begin(p) \/ Admit(p) \/ Commit(p) \/ CommitRefused(p)
        \/ Finalize(p) \/ MarkFailed(p) \/ RevokeReplayed(p))
  BY Zenon, <1>7 DEF FindExpired, Begin, Admit, Commit, CommitRefused, Finalize, MarkFailed,
              RevokeReplayed
<1>9. ~Abandon(p)
  BY Zenon, <1>3, <1>7, IdleTyped DEF Abandon, Finish
<1>10. ~FindReceipt(p)
  <2> SUFFICES ASSUME FindReceipt(p) PROVE FALSE
    BY Zenon
  <2>1. PICK o \in receipts :
          req' = [req EXCEPT ![q] = [req[q] EXCEPT !.stage = "revoking", !.id = o.id,
                                                   !.expires = o.expires]]
    BY Zenon, <1>7 DEF FindReceipt, Evidence
  <2>2. PICK r \in Request : r = req[q]
    BY Zenon DEF TypeOK
  <2>3. [r EXCEPT !.stage = "revoking", !.id = o.id, !.expires = o.expires].stage
          = "revoking"
    BY Zenon DEF Request
  <2> QED BY Zenon, <1>3, <2>1, <2>2, <2>3
<1> QED BY Zenon, <1>5, <1>7, <1>8, <1>9, <1>10

(* A replay that the lookup turns away is not the holder's.                    *)
LEMMA HolderFindsStep == Inv /\ GuardInv /\ [Next]_vars => HolderFinds
<1> SUFFICES ASSUME Inv, GuardInv, [Next]_vars, NEW q \in Requests, NEW i \in issued,
                    req[q].stage = "lookup", req'[q].stage \in {"refused", "marking"},
                    req[q].code = i.code, clock < i.expires + Skew
             PROVE  \/ req[q].facts.client # i.facts.client
                    \/ req[q].facts.verifier = "wrong"
                    \/ i.facts.key \notin {"none", req[q].facts.key}
  BY Zenon DEF HolderFinds
<1>1. FindNothing(q)
  BY Zenon, LookupEnds DEF Inv
<1>2. Evidence(req[q].code, req[q].facts) = {}
  BY Zenon, <1>1 DEF FindNothing
<1>3. PICK r \in receipts : r.id = i.id /\ r.retain > clock
  BY Zenon, EvidenceThere
<1>4. r.code = req[q].code /\ r.client = i.facts.client /\ r.key = i.facts.key
  BY Zenon, <1>3, ReceiptOf
<1>5. ~Matches(req[q].facts, i.facts.client, i.facts.key)
  BY Zenon, <1>2, <1>3, <1>4 DEF Evidence
<1>6. req[q].facts.verifier \in {"right", "wrong"}
  BY Zenon DEF Inv, TypeOK, Request, Facts
<1> QED BY Zenon, <1>5, <1>6 DEF Matches

(* Only the holder's replay revokes.                                           *)
LEMMA HolderRevokesStep == Inv /\ GuardInv /\ [Next]_vars => HolderRevokes
<1> SUFFICES ASSUME Inv, GuardInv, [Next]_vars, NEW i \in issued, i.id \in dead' \ dead
             PROVE  \E q \in Requests :
                        /\ req[q].stage = "revoking" /\ req[q].code = i.code
                        /\ req[q].facts.client = i.facts.client
                        /\ req[q].facts.verifier = "right"
                        /\ i.facts.key \in {"none", req[q].facts.key}
  BY Zenon DEF HolderRevokes
<1>1. dead' # dead
  BY Zenon
<1>2. PICK q \in Requests : RevokeReplayed(q)
  BY ZenonT(60), <1>1 DEF Next, vars, Approve, Publish, Failover, Present, FindExpired, Begin, Admit,
              Commit, CommitRefused, Finalize, MarkFailed, FindNothing, FindReceipt,
              Abandon, Deactivate, Reclaim, Tick
<1>3. req[q].stage = "revoking" /\ i.id = req[q].id
  BY Zenon, <1>2 DEF RevokeReplayed
<1>4. PICK j \in issued :
        /\ j.id = req[q].id /\ j.code = req[q].code
        /\ Matches(req[q].facts, j.facts.client, j.facts.key)
  BY Zenon, <1>3 DEF GuardInv, RequestsTrue, RequestTrue
<1>5. j = i
  BY Zenon, <1>3, <1>4 DEF GuardInv, IdsUnique
<1> QED BY Zenon, <1>3, <1>4, <1>5 DEF Matches

(* Every token that commit_token_issuance records went to a request that       *)
(* proved the code, keeps the receipt a replay needs for as long as it can be  *)
(* accepted, and is never accepted again once revoke_issued_tokens ran.        *)
THEOREM TokensStayGuarded == Spec => []TokensGuarded
<1>1. Init => Inv /\ GuardInv
  BY Zenon, InitInv, InitGuard
<1>2. Inv /\ GuardInv /\ [Next]_vars => (Inv /\ GuardInv)'
  BY Zenon, NextInv, NextGuard
<1> QED BY <1>1, <1>2, GuardFollows, PTL DEF Spec

(* committed_single_use_redemption turns away only a replay that does not      *)
(* match the original holder, and revoke_issued_tokens acts only for one that  *)
(* does.                                                                       *)
THEOREM ReplaysAreAnswered == Spec => ReplaysAnswered
<1>1. Init => Inv /\ GuardInv
  BY Zenon, InitInv, InitGuard
<1>2. Inv /\ GuardInv /\ [Next]_vars => (Inv /\ GuardInv)'
  BY Zenon, NextInv, NextGuard
<1>3. Inv /\ GuardInv /\ [Next]_vars => [HolderFinds]_vars /\ [HolderRevokes]_vars
  BY Zenon, HolderFindsStep, HolderRevokesStep
<1> QED BY <1>1, <1>2, <1>3, PTL
        DEF Spec, ReplaysAnswered, ReplayRevoked, OnlyHolderRevokes
=============================================================================
