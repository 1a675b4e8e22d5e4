---------------------------- MODULE LedgerProofs ----------------------------
(***************************************************************************)
(* Enrollment implements EnrollmentLedger: its initial state maps to the   *)
(* ledger's, and under the inductive invariant each of its steps maps to a *)
(* step of the ledger or leaves the ledger as it is.                       *)
(***************************************************************************)
EXTENDS EnrollmentProofs

LedgerNext == [Ledger!Next]_(Ledger!Stages)

\* Steps that write no document and print no token.
LEMMA QuietLedger ==
  ASSUME UNCHANGED objects, UNCHANGED tokens, UNCHANGED listed
  PROVE  LedgerNext
BY DEF LedgerNext, Ledger!Stages, objects, LedgerInvite, InviteStage, LedgerRequest,
   LedgerMade, Members

\* Only an invite's stage changes: that of invite i, to the given stage.
LEMMA InviteStep ==
  ASSUME NEW i \in InviteIds, NEW stage, InviteStage(i)' = stage,
         \A k \in InviteIds \ {i} : InviteStage(k)' = InviteStage(k),
         UNCHANGED <<recipients, requests, listed>>
  PROVE  /\ LedgerInvite' = [LedgerInvite EXCEPT ![i] = stage]
         /\ UNCHANGED <<LedgerRequest, LedgerMade, Members, listed>>
<1>1. UNCHANGED <<LedgerRequest, LedgerMade, Members, listed>>
  BY DEF LedgerRequest, LedgerMade, Members
<1>2. LedgerInvite' = [LedgerInvite EXCEPT ![i] = stage]
  BY DEF LedgerInvite
<1> QED
  BY <1>1, <1>2

\* The recipients document is written: those of its entries that come from
\* enrollment trace to saved requests, which are then listed.
LEMMA RewriteStep ==
  ASSUME IInv, Provenance', NEW s, PutRecipients(s),
         UNCHANGED <<invites, requests, tokens>>
  PROVE  LedgerNext
<1>1. UNCHANGED <<LedgerInvite, LedgerRequest, LedgerMade>>
  BY DEF LedgerInvite, InviteStage, LedgerRequest, LedgerMade
<1>2. ASSUME NEW r \in Members'
      PROVE  r \in RequestIds /\ LedgerRequest[r] # "unknown" /\ r \in listed'
  <2>1. PICK i \in DOMAIN s : r \in RequestIds /\ s[i].via = r
    BY <1>2 DEF Members, PutRecipients
  <2>2. r \in DOMAIN requests /\ s[i].key = requests[r].key
    BY <2>1 DEF Provenance, Traced, PutRecipients
  <2>3. Lists(s, r)
    BY <2>1, <2>2 DEF Lists, Duplicate, Clash, Entry
  <2>4. requests[r].status # "unknown"
    BY <2>2, RequestType DEF IInv, Request
  <2> QED
    BY <2>1, <2>2, <2>3, <2>4 DEF PutRecipients, LedgerRequest
<1>3. listed \subseteq listed'
  BY DEF PutRecipients
<1>4. Ledger!Rewrite
  BY <1>1, <1>2, <1>3 DEF Ledger!Rewrite
<1> QED
  BY <1>4 DEF LedgerNext, Ledger!Next

\* The PUT of a new invite is the ledger's Save.
LEMMA InvitePutLedger ==
  ASSUME IInv, NEW p \in Proc, InvitePut(p)
  PROVE  LedgerNext
<1>1. PICK i \in InviteIds : i = job[p].invite /\ i \notin DOMAIN invites /\ i \notin tokens
  <2>1. job[p] \in InviteJob
    BY JobShape DEF InvitePut, At, IInv, TypeOK
  <2> QED
    BY <2>1 DEF InviteJob, InvitePut, At, IInv, FreshIds, TokensSaved
<1>2. /\ DOMAIN invites' = DOMAIN invites \cup {i}
      /\ invites'[i].status = "active"
      /\ \A k \in DOMAIN invites : k # i => invites'[k] = invites[k]
      /\ UNCHANGED <<tokens, recipients, requests, listed>>
  BY <1>1 DEF InvitePut, Put, Rest, KeepRecipients
<1>3. InviteStage(i) = "unknown" /\ InviteStage(i)' = "saved"
  BY <1>1, <1>2 DEF InviteStage
<1>4. \A k \in InviteIds \ {i} : InviteStage(k)' = InviteStage(k)
  BY <1>2 DEF InviteStage
<1>5. LedgerInvite[i] = "unknown"
  BY <1>3 DEF LedgerInvite
<1>6. Ledger!Save(i)
  BY <1>2, <1>3, <1>4, <1>5, InviteStep DEF Ledger!Save
<1> QED
  BY <1>6 DEF LedgerNext, Ledger!Next

\* The token on the screen is the ledger's HandOut.
LEMMA InvitePrintLedger ==
  ASSUME IInv, NEW p \in Proc, InvitePrint(p)
  PROVE  LedgerNext
<1>1. PICK i \in InviteIds : i = job[p].invite /\ i \in DOMAIN invites
  BY DEF InvitePrint, At, IInv, TypeOK, Documents, TokensSaved
<1>2. tokens' = tokens \cup {i} /\ UNCHANGED <<invites, recipients, requests, listed>>
  BY <1>1 DEF InvitePrint, objects
<1>3. \A k \in InviteIds \ {i} : InviteStage(k)' = InviteStage(k)
  BY <1>2 DEF InviteStage
<1>4. \/ InviteStage(i)' = InviteStage(i)
      \/ InviteStage(i) = "saved" /\ InviteStage(i)' = "handed out"
  BY <1>1, <1>2 DEF InviteStage
<1>5. CASE InviteStage(i)' = InviteStage(i)
  <2>1. UNCHANGED LedgerInvite
    BY <1>3, <1>5 DEF LedgerInvite
  <2> QED
    BY <2>1, <1>2 DEF LedgerNext, Ledger!Stages, LedgerRequest, LedgerMade, Members
<1>6. CASE InviteStage(i) = "saved" /\ InviteStage(i)' = "handed out"
  <2>1. LedgerInvite[i] = "saved"
    BY <1>6 DEF LedgerInvite
  <2>2. Ledger!HandOut(i)
    BY <1>2, <1>3, <1>6, <2>1, InviteStep DEF Ledger!HandOut
  <2> QED
    BY <2>2 DEF LedgerNext, Ledger!Next
<1> QED
  BY <1>4, <1>5, <1>6

\* An invite whose token is out is handed out or used.
LEMMA OutStage ==
  ASSUME IInv, NEW i \in tokens
  PROVE  i \in InviteIds /\ LedgerInvite[i] \in {"handed out", "used"}
<1>1. i \in InviteIds /\ i \in DOMAIN invites
  BY DEF IInv, TypeOK, TokensSaved
<1>2. InviteStage(i) \in {"handed out", "used"}
  BY <1>1 DEF InviteStage
<1> QED
  BY <1>1, <1>2 DEF LedgerInvite

\* Saving request r, and nothing else, changes the stage of r only.
LEMMA RequestStep ==
  ASSUME NEW r \in RequestIds, NEW v, requests' = Put(requests, r, v),
         UNCHANGED <<recipients, invites, tokens, listed>>
  PROVE  /\ LedgerRequest' = [LedgerRequest EXCEPT ![r] = v.status]
         /\ LedgerMade' = [LedgerMade EXCEPT ![r] = {v.invite}]
         /\ UNCHANGED <<LedgerInvite, Members, listed>>
<1>1. UNCHANGED <<LedgerInvite, Members, listed>>
  BY DEF LedgerInvite, InviteStage, Members
<1>2. /\ DOMAIN requests' = DOMAIN requests \cup {r}
      /\ requests'[r] = v
      /\ \A x \in DOMAIN requests : x # r => requests'[x] = requests[x]
  BY DEF Put
<1>3. LedgerRequest' = [LedgerRequest EXCEPT ![r] = v.status]
  BY <1>2 DEF LedgerRequest
<1>4. LedgerMade' = [LedgerMade EXCEPT ![r] = {v.invite}]
  BY <1>2 DEF LedgerMade
<1> QED
  BY <1>1, <1>3, <1>4

\* The PUT of a new request is the ledger's Submit.
LEMMA JoinPutLedger ==
  ASSUME IInv, NEW p \in Proc, JoinPut(p)
  PROVE  LedgerNext
<1>1. PICK r \in RequestIds, d \in Request : r = job[p].id /\ d = job[p].doc
  BY JobShape DEF JoinPut, At, IInv, TypeOK, JoinAt
<1>2. r \notin DOMAIN requests /\ d.status = "pending" /\ d.invite \in tokens
  BY <1>1 DEF JoinPut, At, IInv, JobsOK, JobOK, JoinAt
<1>3. /\ requests' = Put(requests, r, d)
      /\ UNCHANGED <<recipients, invites, tokens, listed>>
  BY <1>1 DEF JoinPut, KeepRecipients, Rest
<1>4. LedgerRequest[r] = "unknown"
  BY <1>2 DEF LedgerRequest
<1>5. PICK i \in InviteIds : i = d.invite /\ LedgerInvite[i] \in {"handed out", "used"}
  BY <1>2, OutStage
<1>6. /\ LedgerRequest' = [LedgerRequest EXCEPT ![r] = "pending"]
      /\ LedgerMade' = [LedgerMade EXCEPT ![r] = {i}]
      /\ UNCHANGED <<LedgerInvite, Members, listed>>
  BY <1>2, <1>3, <1>5, RequestStep
<1>7. Ledger!Submit(r, i)
  BY <1>4, <1>5, <1>6 DEF Ledger!Submit
<1> QED
  BY <1>7 DEF LedgerNext, Ledger!Next

\* A decision is saved: stage is "approved" or "rejected".
LEMMA DecisionLedger ==
  ASSUME IInv, NEW p \in Proc, job[p].at \in DecideAt,
         NEW stage \in {"approved", "rejected"},
         requests' = Put(requests, job[p].id, [job[p].doc EXCEPT !.status = stage]),
         stage = "approved" => job[p].id \in listed,
         UNCHANGED <<recipients, invites, tokens, listed>>
  PROVE  LedgerNext
<1>1. PICK r \in RequestIds, v \in Request :
        r = job[p].id /\ v = [job[p].doc EXCEPT !.status = stage]
  BY JobShape DEF IInv, TypeOK, Request
<1>2. r \in DOMAIN requests /\ SameDevice(job[p].doc, requests[r]) /\ job[p].doc \in Request
  BY <1>1, JobShape DEF IInv, TypeOK, JobsOK, JobOK
<1>3. v.status = stage /\ v.invite = requests[r].invite
  BY <1>1, <1>2 DEF Request, SameDevice
<1>4. requests' = Put(requests, r, v) /\ (stage = "approved" => r \in listed)
  BY <1>1
<1>5. requests[r].status # "unknown"
  BY <1>2, RequestType DEF IInv, Request
<1>6. LedgerRequest[r] # "unknown" /\ LedgerMade[r] = {v.invite}
  BY <1>2, <1>3, <1>5 DEF LedgerRequest, LedgerMade
<1>7. /\ LedgerRequest' = [LedgerRequest EXCEPT ![r] = stage]
      /\ LedgerMade' = [LedgerMade EXCEPT ![r] = {v.invite}]
      /\ UNCHANGED <<LedgerInvite, Members, listed>>
  BY <1>3, <1>4, RequestStep
<1>8. UNCHANGED LedgerMade
  BY <1>6, <1>7 DEF LedgerMade
<1>9. Ledger!Decide(r, stage)
  BY <1>4, <1>6, <1>7, <1>8 DEF Ledger!Decide
<1> QED
  BY <1>9 DEF LedgerNext, Ledger!Next, Ledger!Decided

\* The last PUT of an approval is the ledger's Burn.
LEMMA ApprovePutInviteLedger ==
  ASSUME IInv, NEW p \in Proc, ApprovePutInvite(p)
  PROVE  LedgerNext
<1>1. PICK r \in RequestIds, i \in InviteIds : r = job[p].id /\ i = job[p].doc.invite
  BY JobShape DEF ApprovePutInvite, At, IInv, TypeOK, DecideAt, Request
<1>2. /\ r \in DOMAIN requests /\ requests[r] \in Request
      /\ requests[r].invite = i /\ requests[r].status # "pending"
  BY <1>1, RequestType DEF ApprovePutInvite, At, IInv, JobsOK, JobOK, DecideAt, SameDevice
<1>3. i \in tokens
  BY <1>2 DEF IInv, RequestsInvited
<1>4. i \in InviteIds /\ LedgerInvite[i] \in {"handed out", "used"}
  BY <1>3, OutStage
<1>5. /\ DOMAIN invites' = DOMAIN invites \cup {i}
      /\ invites'[i].status = "used"
      /\ \A k \in DOMAIN invites : k # i => invites'[k] = invites[k]
      /\ UNCHANGED <<tokens, recipients, requests, listed>>
  BY <1>1 DEF ApprovePutInvite, Put, Rest, KeepRecipients
<1>6. InviteStage(i)' = "used"
  BY <1>5 DEF InviteStage
<1>7. \A k \in InviteIds \ {i} : InviteStage(k)' = InviteStage(k)
  BY <1>5 DEF InviteStage
<1>8. LedgerMade[r] = {i} /\ LedgerRequest[r] \in Ledger!Decided
  BY <1>2 DEF LedgerMade, LedgerRequest, Ledger!Decided, Request
<1>9. Ledger!Burn(i)
  BY <1>4, <1>5, <1>6, <1>7, <1>8, InviteStep DEF Ledger!Burn
<1> QED
  BY <1>4, <1>9 DEF LedgerNext, Ledger!Next

\* Each later step of a command is a step of the ledger or a stutter.
LEMMA ContinueLedger ==
  ASSUME IInv, IInv', NEW p \in Proc, Continue(p)
  PROVE  LedgerNext
<1>1. CASE InitPut(p) \/ RecipientsPut(p) \/ ApprovePutRecipients(p)
  <2>1. PutRecipients(job[p].store) /\ UNCHANGED <<invites, requests, tokens>>
    BY <1>1 DEF InitPut, RecipientsPut, ApprovePutRecipients, Rest
  <2> QED
    BY <2>1, RewriteStep DEF IInv
<1>2. CASE InvitePut(p)
  BY <1>2, InvitePutLedger
<1>3. CASE InvitePrint(p)
  BY <1>3, InvitePrintLedger
<1>4. CASE JoinPut(p)
  BY <1>4, JoinPutLedger
<1>5. CASE ApprovePutRequest(p)
  <2>1. job[p].at \in DecideAt /\ job[p].id \in listed
    BY <1>5 DEF ApprovePutRequest, At, DecideAt, IInv, JobsOK, JobOK
  <2>2. /\ requests' = Put(requests, job[p].id, [job[p].doc EXCEPT !.status = "approved"])
        /\ UNCHANGED <<recipients, invites, tokens, listed>>
    BY <1>5 DEF ApprovePutRequest, KeepRecipients, Rest
  <2> QED
    BY <2>1, <2>2, DecisionLedger
<1>6. CASE RejectPut(p)
  <2>1. job[p].at \in DecideAt
    BY <1>6 DEF RejectPut, At, DecideAt
  <2>2. /\ requests' = Put(requests, job[p].id, [job[p].doc EXCEPT !.status = "rejected"])
        /\ UNCHANGED <<recipients, invites, tokens, listed>>
    BY <1>6 DEF RejectPut, KeepRecipients, Rest
  <2> QED
    BY <2>1, <2>2, DecisionLedger
<1>7. CASE ApprovePutInvite(p)
  BY <1>7, ApprovePutInviteLedger
<1>8. CASE \/ InitConfig(p) \/ JoinList(p) \/ JoinScan(p) \/ JoinDecide(p)
           \/ ApproveInvite(p) \/ ApproveRecipients(p)
  BY <1>8, QuietLedger DEF InitConfig, JoinList, JoinScan, JoinDecide, ApproveInvite,
     ApproveRecipients, Rest
<1> QED
  BY <1>1, <1>2, <1>3, <1>4, <1>5, <1>6, <1>7, <1>8 DEF Continue

\* So is every step.
LEMMA StepLedger ==
  ASSUME IInv, IInv', [Next]_vars
  PROVE  LedgerNext
<1>1. ASSUME NEW p \in Proc, Begin(p) PROVE LedgerNext
  BY <1>1, QuietLedger DEF Begin, InitLoad, AddLoad, RemoveLoad, NewInvite, JoinLoad,
     ApproveLoad, RejectLoad, Rest
<1>2. ASSUME NEW p \in Proc, Continue(p) PROVE LedgerNext
  BY <1>2, ContinueLedger
<1>3. ASSUME NEW p \in Proc, Abort(p) \/ Clone(p) PROVE LedgerNext
  BY <1>3, QuietLedger DEF Abort, Clone
<1>4. ASSUME NEW i \in InviteIds, Expire(i) PROVE LedgerNext
  BY <1>4, QuietLedger DEF Expire
<1>5. CASE UNCHANGED vars
  BY <1>5, QuietLedger DEF vars, objects
<1> QED
  BY <1>1, <1>2, <1>3, <1>4, <1>5 DEF Next

\* The empty bucket is the empty ledger.
LEMMA InitLedger == Init => Ledger!Init
<1> SUFFICES ASSUME Init PROVE Ledger!Init
  OBVIOUS
<1>1. LedgerInvite = [i \in InviteIds |-> "unknown"]
  BY DEF Init, LedgerInvite, InviteStage
<1>2. LedgerRequest = [r \in RequestIds |-> "unknown"] /\ LedgerMade = [r \in RequestIds |-> {}]
  BY DEF Init, LedgerRequest, LedgerMade
<1>3. Members = {} /\ listed = {}
  BY DEF Init, Members
<1> QED
  BY <1>1, <1>2, <1>3 DEF Ledger!Init

\* Whatever runs against the bucket, in whatever order and however often it
\* is cut short, a project goes through the stages of the ledger.
THEOREM EnrollmentKeepsLedger == Spec => KeepsLedger
<1>1. IInv /\ IInv' /\ [Next]_vars => LedgerNext
  BY StepLedger
<1> QED
  BY <1>1, InitLedger, Invariance, PTL DEF Spec, KeepsLedger, Ledger!Spec, LedgerNext

=============================================================================
