----------------------------- MODULE SoloProofs -----------------------------
(***************************************************************************)
(* What holds when commands run one at a time, wherever they are cut       *)
(* short: there is one process, and what it has read is still so when it   *)
(* writes.                                                                 *)
(***************************************************************************)
EXTENDS EnrollmentProofs

\* No two commands run at once.
OneAtATime == \A p, q \in Proc : p = q

\* What IInv says of the saved recipients.
LEMMA RecipientsFacts ==
  ASSUME IInv
  PROVE  recipients \in Store /\ NoDuplicates(recipients)
BY DEF IInv, TypeOK, NoDuplicateRecipients

-----------------------------------------------------------------------------
(***************************************************************************)
(* Steps by what the process holds after them.                             *)
(***************************************************************************)
LEMMA OnlyJob ==
  ASSUME OneAtATime, IInv, NEW p \in Proc, NEW j, Goto(p, j)
  PROVE  \A q \in Proc : job'[q] = j
BY DEF OneAtATime, IInv, TypeOK, Goto

ApproveAt == {"approveRecipients", "approvePutRecipients", "approvePutRequest"}

Quiet(j) == j.at \notin StoreAt \cup {"joinScan", "joinPut"} \cup ApproveAt

\* A process between two commands holds nothing.
LEMMA IdleQuiet == Quiet(Idle)
BY DEF Quiet, Idle, StoreAt, ApproveAt

\* A step that saves no request keeps what is promised of requests.
LEMMA SameRequests ==
  ASSUME SoloInv, UNCHANGED requests, aborts' = 0 => aborts = 0
  PROVE  PendingUnique' /\ SingleUseUncut'
BY DEF SoloInv, PendingUnique, SingleUseUncut, InviteSingleUse

\* A step after which the process holds nothing that has to be current.
LEMMA QuietSolo ==
  ASSUME OneAtATime, IInv, NEW p \in Proc, NEW j, Goto(p, j), Quiet(j),
         PendingUnique', SingleUseUncut'
  PROVE  SoloInv'
BY OnlyJob DEF SoloInv, SoloJob, Quiet, ApproveAt

\* A step that writes nothing to the bucket.
LEMMA ReadSolo ==
  ASSUME OneAtATime, IInv, SoloInv, NEW p \in Proc, NEW j, Goto(p, j),
         UNCHANGED objects, UNCHANGED aborts, SoloJob(j)
  PROVE  SoloInv'
<1>1. \A q \in Proc : job'[q] = j
  BY OnlyJob
<1>2. PendingUnique' /\ SingleUseUncut'
  BY SameRequests DEF objects
<1>3. SoloJob(j)'
  BY DEF SoloJob, objects, StillRevoked
<1> QED
  BY <1>1, <1>2, <1>3 DEF SoloInv

\* The process goes on with a document it has just computed.
LEMMA StoreSolo ==
  ASSUME OneAtATime, IInv, SoloInv, NEW p \in Proc, NEW j, Goto(p, j),
         UNCHANGED objects, UNCHANGED aborts, j.at \in {"initPut", "putRecipients"},
         RevokedIn(recipients, j.store)
  PROVE  SoloInv'
<1>1. SoloJob(j)
  BY DEF SoloJob, StoreAt, StillRevoked, RevokedIn
<1> QED
  BY <1>1, ReadSolo

\* No request made with the invite of document d is approved, as long as no
\* command has been cut short.
Unspent(d) ==
  aborts = 0 =>
    \A r \in DOMAIN requests :
      requests[r].invite = d.invite => requests[r].status # "approved"

-----------------------------------------------------------------------------
\* project init computes on the document as it is in the bucket.
LEMMA InitLoadSolo ==
  ASSUME OneAtATime, IInv, SoloInv, NEW p \in Proc, InitLoad(p)
  PROVE  SoloInv'
<1>1. PICK name \in Names \ {Blank}, key \in Keys :
        LET r == Entry(name, key, "local-init") IN
        /\ Goto(p, [at |-> "initPut", key |-> key,
                    store |-> IF Duplicate(recipients, r) THEN recipients
                                                          ELSE Add(recipients, r)])
        /\ UNCHANGED objects /\ UNCHANGED aborts
  BY DEF InitLoad, Rest
<1> DEFINE r == Entry(name, key, "local-init")
           s == IF Duplicate(recipients, r) THEN recipients ELSE Add(recipients, r)
           j == [at |-> "initPut", key |-> key, store |-> s]
<1>2. r \in Recipient
  BY EntryType DEF Origins
<1>3. RevokedIn(recipients, s)
  <2> HIDE DEF r
  <2> QED
    BY <1>2, RecipientsFacts, SelfRevoked, AddRevoked
<1> HIDE DEF s
<1>4. j.at = "initPut" /\ j.store = s
  OBVIOUS
<1> HIDE DEF j
<1>5. Goto(p, j) /\ UNCHANGED objects /\ UNCHANGED aborts
  BY <1>1 DEF j, s
<1> QED
  BY <1>3, <1>4, <1>5, StoreSolo

\* recipients add does.
LEMMA AddLoadSolo ==
  ASSUME OneAtATime, IInv, SoloInv, NEW p \in Proc, AddLoad(p)
  PROVE  SoloInv'
<1>1. PICK name \in Names \ {Blank}, key \in Keys :
        LET r == Entry(name, key, "manual") IN
        /\ ~Duplicate(recipients, r)
        /\ Goto(p, [at |-> "putRecipients", store |-> Add(recipients, r)])
        /\ UNCHANGED objects /\ UNCHANGED aborts
  BY DEF AddLoad, Rest
<1> DEFINE r == Entry(name, key, "manual")
           j == [at |-> "putRecipients", store |-> Add(recipients, r)]
<1>2. r \in Recipient
  BY EntryType DEF Origins
<1>3. RevokedIn(recipients, Add(recipients, r))
  <2>1. ~Duplicate(recipients, r)
    BY <1>1
  <2> HIDE DEF r
  <2> QED
    BY <1>2, <2>1, RecipientsFacts, AddRevoked
<1>4. j.at = "putRecipients" /\ j.store = Add(recipients, r)
  OBVIOUS
<1>5. Goto(p, j) /\ UNCHANGED objects /\ UNCHANGED aborts
  BY <1>1
<1> HIDE DEF j, r
<1> QED
  BY <1>3, <1>4, <1>5, StoreSolo

\* recipients remove does.
LEMMA RemoveLoadSolo ==
  ASSUME OneAtATime, IInv, SoloInv, NEW p \in Proc, RemoveLoad(p)
  PROVE  SoloInv'
<1>1. PICK i \in DOMAIN recipients :
        /\ \/ Goto(p, [at |-> "putRecipients", store |-> Revoke(recipients, i)])
           \/ Goto(p, [at |-> "putRecipients", store |-> Delete(recipients, i)])
        /\ UNCHANGED objects /\ UNCHANGED aborts
  BY DEF RemoveLoad, Rest
<1>2. RevokedIn(recipients, Revoke(recipients, i)) /\ RevokedIn(recipients, Delete(recipients, i))
  BY RecipientsFacts, RemoveRevoked
<1>3. ASSUME NEW s, RevokedIn(recipients, s), Goto(p, [at |-> "putRecipients", store |-> s])
      PROVE  SoloInv'
  <2> DEFINE j == [at |-> "putRecipients", store |-> s]
  <2>1. j.at = "putRecipients" /\ j.store = s
    OBVIOUS
  <2>2. Goto(p, j)
    BY <1>3
  <2> HIDE DEF j
  <2> QED
    BY <1>1, <1>3, <2>1, <2>2, StoreSolo
<1> QED
  BY <1>1, <1>2, <1>3

\* enroll approve does.
LEMMA ApproveRecipientsSolo ==
  ASSUME OneAtATime, IInv, SoloInv, NEW p \in Proc, ApproveRecipients(p)
  PROVE  SoloInv'
<1> DEFINE doc == job[p].doc
           e == Entry(doc.name, doc.key, job[p].id)
<1>1. CASE Goto(p, Idle)
  BY <1>1, IdleQuiet, QuietSolo, SameRequests DEF ApproveRecipients, objects, Rest
<1>2. ASSUME NEW s \in Grant(recipients, e),
             Goto(p, [at |-> "approvePutRecipients", id |-> job[p].id, doc |-> doc,
                      store |-> s])
      PROVE  SoloInv'
  <2>1. e \in Recipient
    <3>1. job[p].id \in RequestIds /\ doc \in Request
      BY JobFacts, JobShape DEF ApproveRecipients, At, DecideAt
    <3> QED
      BY <3>1, EntryType DEF Origins, Request
  <2>2. \/ s = recipients
        \/ ~Duplicate(recipients, e) /\ s = Add(recipients, e)
    BY <1>2 DEF Grant
  <2> HIDE DEF e
  <2>3. RevokedIn(recipients, s)
    BY <2>1, <2>2, RecipientsFacts, SelfRevoked, AddRevoked
  <2> DEFINE j == [at |-> "approvePutRecipients", id |-> job[p].id, doc |-> doc, store |-> s]
  <2>4. Unspent(doc)
    BY DEF ApproveRecipients, At, SoloInv, SoloJob, Unspent
  <2>5. j.at = "approvePutRecipients" /\ j.store = s /\ j.doc = doc
    OBVIOUS
  <2>6. Goto(p, j) /\ UNCHANGED objects /\ UNCHANGED aborts
    BY <1>2 DEF ApproveRecipients, Rest
  <2> HIDE DEF j, doc
  <2>7. SoloJob(j)
    BY <2>3, <2>4, <2>5 DEF SoloJob, StoreAt, StillRevoked, RevokedIn, Unspent
  <2> QED
    BY <2>6, <2>7, ReadSolo
<1> QED
  BY <1>1, <1>2 DEF ApproveRecipients

-----------------------------------------------------------------------------
(***************************************************************************)
(* The scan of a join: what it has passed does not block, and nothing      *)
(* changes before the request is saved.                                    *)
(***************************************************************************)
LEMMA JoinListSolo ==
  ASSUME OneAtATime, IInv, SoloInv, NEW p \in Proc, JoinList(p)
  PROVE  SoloInv'
<1> DEFINE j == [at |-> "joinScan", doc |-> job[p].doc,
                 todo |-> DOMAIN requests, blocked |-> FALSE]
<1>1. SoloJob(j)
  BY DEF SoloJob, StoreAt
<1>2. Goto(p, j) /\ UNCHANGED objects /\ UNCHANGED aborts
  BY DEF JoinList, Rest
<1> HIDE DEF j
<1> QED
  BY <1>1, <1>2, ReadSolo

\* A request that is read now is the one in the bucket.
LEMMA JoinScanSolo ==
  ASSUME OneAtATime, IInv, SoloInv, NEW p \in Proc, JoinScan(p)
  PROVE  SoloInv'
<1>1. PICK r \in RequestIds :
        /\ Goto(p, [job[p] EXCEPT !.todo = @ \ {r},
                                  !.blocked = @ \/ Blocks(requests[r], job[p].doc)])
        /\ UNCHANGED objects /\ UNCHANGED aborts
  BY DEF JoinScan, Rest
<1>2. PICK d \in ScanJob : d = job[p] /\ SoloJob(d)
  BY JobFacts, JobShape DEF JoinScan, At, SoloInv
<1> DEFINE b == d.blocked \/ Blocks(requests[r], d.doc)
           j == [d EXCEPT !.todo = @ \ {r}, !.blocked = b]
<1>3. b \in BOOLEAN
  BY <1>2 DEF ScanJob
<1>4. b = FALSE => ~d.blocked /\ ~Blocks(requests[r], d.doc)
  OBVIOUS
<1> HIDE DEF b
<1>5. j.at = "joinScan" /\ j.todo = d.todo \ {r} /\ j.blocked = b /\ j.doc = d.doc
  BY <1>2 DEF ScanJob
<1>6. d.at = "joinScan"
  BY <1>2 DEF ScanJob
<1>7. Goto(p, j) /\ UNCHANGED objects /\ UNCHANGED aborts
  BY <1>1, <1>2 DEF b
<1> HIDE DEF j
<1>8. SoloJob(j)
  BY <1>2, <1>3, <1>4, <1>5, <1>6 DEF SoloJob, StoreAt
<1> QED
  BY <1>7, <1>8, ReadSolo

\* A scan that found nothing in the way is still right at its end.
LEMMA JoinDecideSolo ==
  ASSUME OneAtATime, IInv, SoloInv, NEW p \in Proc, JoinDecide(p)
  PROVE  SoloInv'
<1>1. CASE Goto(p, Idle)
  BY <1>1, IdleQuiet, QuietSolo, SameRequests DEF JoinDecide, objects, Rest
<1>2. ASSUME NEW r \in RequestIds, ~job[p].blocked,
             Goto(p, [at |-> "joinPut", id |-> r, doc |-> job[p].doc])
      PROVE  SoloInv'
  <2> DEFINE j == [at |-> "joinPut", id |-> r, doc |-> job[p].doc]
  <2>1. \A x \in DOMAIN requests : ~Blocks(requests[x], job[p].doc)
    BY <1>2 DEF JoinDecide, At, SoloInv, SoloJob
  <2>2. SoloJob(j)
    BY <2>1 DEF SoloJob, StoreAt
  <2>3. Goto(p, j) /\ UNCHANGED objects /\ UNCHANGED aborts
    BY <1>2 DEF JoinDecide, Rest
  <2> HIDE DEF j
  <2> QED
    BY <2>2, <2>3, ReadSolo
<1> QED
  BY <1>1, <1>2 DEF JoinDecide

\* So the request that is saved is the only pending one of its kind.
LEMMA JoinPutSolo ==
  ASSUME OneAtATime, IInv, SoloInv, NEW p \in Proc, JoinPut(p)
  PROVE  SoloInv'
<1>1. PICK r, d : r = job[p].id /\ d = job[p].doc
  OBVIOUS
<1>2. d.status = "pending" /\ \A x \in DOMAIN requests : ~Blocks(requests[x], d)
  BY <1>1, JobFacts DEF JoinPut, At, JobOK, JoinAt, SoloInv, SoloJob
<1>3. requests' = Put(requests, r, d) /\ Goto(p, Idle)
  BY <1>1 DEF JoinPut
<1>4. \A x \in DOMAIN requests' : IF x = r THEN requests'[x] = d
                                  ELSE x \in DOMAIN requests /\ requests'[x] = requests[x]
  BY <1>3 DEF Put
<1>5. PendingUnique'
  BY <1>2, <1>4 DEF SoloInv, PendingUnique, Blocks
<1>6. SingleUseUncut'
  BY <1>2, <1>4 DEF JoinPut, Rest, SoloInv, SingleUseUncut, InviteSingleUse
<1> QED
  BY <1>3, <1>5, <1>6, IdleQuiet, QuietSolo

\* A decision makes no request pending.
LEMMA DecisionSolo ==
  ASSUME PendingUnique, NEW r, NEW d, d.status # "pending", requests' = Put(requests, r, d)
  PROVE  PendingUnique'
<1>1. \A x \in DOMAIN requests' : requests'[x].status = "pending" =>
        x \in DOMAIN requests /\ requests'[x] = requests[x]
  BY DEF Put
<1> QED
  BY <1>1 DEF PendingUnique

\* A decision sets the status of the request in hand.
LEMMA RequestDecided ==
  ASSUME IInv, NEW p \in Proc, NEW stage,
         job[p].at \in {"approvePutRequest", "rejectPut"}
  PROVE  [job[p].doc EXCEPT !.status = stage].status = stage
BY JobFacts, JobShape DEF DecideAt, Request

-----------------------------------------------------------------------------
\* The steps after which the process holds nothing that has to be current.
LEMMA QuietSteps ==
  ASSUME OneAtATime, IInv, SoloInv, NEW p \in Proc,
         \/ NewInvite(p) \/ JoinLoad(p) \/ ApproveLoad(p) \/ RejectLoad(p)
         \/ InitPut(p) \/ InitConfig(p) \/ RecipientsPut(p)
         \/ InvitePut(p) \/ InvitePrint(p)
         \/ ApprovePutInvite(p) \/ Abort(p)
  PROVE  SoloInv'
<1>1. PendingUnique' /\ SingleUseUncut'
  <2>1. UNCHANGED requests
    BY DEF NewInvite, JoinLoad, ApproveLoad, RejectLoad, InitPut, InitConfig,
       RecipientsPut, InvitePut, InvitePrint, ApprovePutInvite, Abort, objects
  <2>2. aborts' = 0 => aborts = 0
    <3>1. CASE Abort(p)
      <4>1. aborts \in Nat /\ aborts' = aborts + 1
        BY <3>1, EnrollmentAssumption DEF IInv, TypeOK, Abort
      <4> QED
        BY <4>1
    <3>2. CASE ~Abort(p)
      BY <3>2 DEF NewInvite, JoinLoad, ApproveLoad, RejectLoad, InitPut, InitConfig,
         RecipientsPut, InvitePut, InvitePrint, ApprovePutInvite, Rest
    <3> QED
      BY <3>1, <3>2
  <2> QED
    BY <2>1, <2>2, SameRequests
<1>2. SUFFICES \E j : Goto(p, j) /\ Quiet(j)
  BY <1>1, QuietSolo
<1>3. CASE InitConfig(p) \/ RecipientsPut(p) \/ InvitePrint(p) \/ ApprovePutInvite(p) \/ Abort(p)
  BY <1>3, IdleQuiet DEF InitConfig, RecipientsPut, InvitePrint, ApprovePutInvite, Abort
<1>4. CASE NewInvite(p) \/ JoinLoad(p) \/ ApproveLoad(p) \/ RejectLoad(p)
  <2>1. CASE NewInvite(p)
    BY <2>1 DEF NewInvite, Quiet, StoreAt, ApproveAt
  <2>2. CASE JoinLoad(p)
    <3>1. PICK doc : Goto(p, [at |-> "joinList", doc |-> doc])
      BY <2>2 DEF JoinLoad
    <3> QED
      BY <3>1 DEF Quiet, StoreAt, ApproveAt
  <2>3. CASE ApproveLoad(p)
    BY <2>3 DEF ApproveLoad, Quiet, StoreAt, ApproveAt
  <2>4. CASE RejectLoad(p)
    BY <2>4 DEF RejectLoad, Quiet, StoreAt, ApproveAt
  <2> QED
    BY <1>4, <2>1, <2>2, <2>3, <2>4
<1>5. CASE InitPut(p)
  BY <1>5 DEF InitPut, Quiet, StoreAt, ApproveAt
<1>6. CASE InvitePut(p)
  <2>1. job[p] \in InviteJob
    BY <1>6, JobFacts, JobShape DEF InvitePut, At
  <2>2. Quiet([job[p] EXCEPT !.at = "invitePrint"])
    BY <2>1 DEF Quiet, StoreAt, ApproveAt, InviteJob
  <2> QED
    BY <1>6, <2>2 DEF InvitePut
<1> QED
  BY <1>3, <1>4, <1>5, <1>6

-----------------------------------------------------------------------------
(***************************************************************************)
(* An approval under way: its invite is active, so no request made with it *)
(* is approved, and nobody else approves one meanwhile.                    *)
(***************************************************************************)

\* The process goes on with step a of an approval and writes no request.
LEMMA ApprovalSolo ==
  ASSUME OneAtATime, IInv, SoloInv, NEW p \in Proc, NEW j, Goto(p, j),
         UNCHANGED requests, UNCHANGED aborts,
         j.at \in {"approveRecipients", "approvePutRequest"}, Unspent(j.doc)
  PROVE  SoloInv'
<1>1. \A q \in Proc : job'[q] = j
  BY OnlyJob
<1>2. PendingUnique' /\ SingleUseUncut'
  BY SameRequests
<1>3. SoloJob(j)'
  BY DEF SoloJob, StoreAt, Unspent
<1> QED
  BY <1>1, <1>2, <1>3 DEF SoloInv

\* The invite was active when the approval checked it.
LEMMA ApproveInviteSolo ==
  ASSUME OneAtATime, IInv, ApprovalBurnsInvite, SoloInv, NEW p \in Proc, ApproveInvite(p)
  PROVE  SoloInv'
<1>1. CASE Goto(p, Idle)
  BY <1>1, IdleQuiet, QuietSolo, SameRequests DEF ApproveInvite, objects, Rest
<1>2. CASE /\ invites[job[p].doc.invite].status = "active"
           /\ Goto(p, [job[p] EXCEPT !.at = "approveRecipients"])
  <2>1. PICK j : j = [job[p] EXCEPT !.at = "approveRecipients"]
    OBVIOUS
  <2>2. job[p] \in RequestJob
    BY JobFacts, JobShape DEF ApproveInvite, At, DecideAt
  <2>3. j.at = "approveRecipients" /\ j.doc = job[p].doc
    BY <2>1, <2>2 DEF RequestJob
  <2>4. \A q \in Proc : ~At(q, "approvePutInvite")
    BY DEF OneAtATime, ApproveInvite, At
  <2>5. Unspent(j.doc)
    BY <1>2, <2>3, <2>4 DEF ApprovalBurnsInvite, Unspent
  <2> QED
    BY <1>2, <2>1, <2>3, <2>5, ApprovalSolo DEF ApproveInvite, objects, Rest
<1> QED
  BY <1>1, <1>2 DEF ApproveInvite

\* It still is when the recipients have been saved.
LEMMA ApprovePutRecipientsSolo ==
  ASSUME OneAtATime, IInv, SoloInv, NEW p \in Proc, ApprovePutRecipients(p)
  PROVE  SoloInv'
<1> DEFINE j == [at |-> "approvePutRequest", id |-> job[p].id, doc |-> job[p].doc]
<1>1. Unspent(j.doc)
  BY DEF ApprovePutRecipients, At, SoloInv, SoloJob, Unspent
<1>2. Goto(p, j) /\ UNCHANGED requests /\ UNCHANGED aborts
  BY DEF ApprovePutRecipients, Rest
<1>3. j.at = "approvePutRequest"
  OBVIOUS
<1> HIDE DEF j
<1> QED
  BY <1>1, <1>2, <1>3, ApprovalSolo

\* So no other request of the invite is approved when this one is.
LEMMA ApprovePutRequestSolo ==
  ASSUME OneAtATime, IInv, SoloInv, NEW p \in Proc, ApprovePutRequest(p)
  PROVE  SoloInv'
<1>1. PICK d : d = [job[p].doc EXCEPT !.status = "approved"]
  OBVIOUS
<1>2. /\ d.status = "approved" /\ d.invite = job[p].doc.invite
      /\ requests' = Put(requests, job[p].id, d)
  BY <1>1, DecideFacts DEF ApprovePutRequest, At, SameDevice
<1>3. PendingUnique'
  BY <1>2, DecisionSolo DEF SoloInv
<1>4. SingleUseUncut'
  <2>1. Unspent(d)
    BY <1>2 DEF ApprovePutRequest, At, SoloInv, SoloJob, Unspent
  <2>2. \A r \in DOMAIN requests' : IF r = job[p].id THEN requests'[r] = d
                                    ELSE r \in DOMAIN requests /\ requests'[r] = requests[r]
    BY <1>2 DEF Put
  <2> QED
    BY <2>1, <2>2 DEF ApprovePutRequest, Rest, Unspent, SoloInv, SingleUseUncut, InviteSingleUse
<1>5. job[p] \in RequestJob
  BY JobFacts, JobShape DEF ApprovePutRequest, At, DecideAt
<1>6. Quiet([job[p] EXCEPT !.at = "approvePutInvite"])
  BY <1>5 DEF Quiet, StoreAt, ApproveAt, RequestJob
<1> QED
  BY <1>3, <1>4, <1>6, QuietSolo DEF ApprovePutRequest

\* A rejection opens nothing.
LEMMA RejectPutSolo ==
  ASSUME OneAtATime, IInv, SoloInv, NEW p \in Proc, RejectPut(p)
  PROVE  SoloInv'
<1>1. PICK d : d = [job[p].doc EXCEPT !.status = "rejected"]
  OBVIOUS
<1>2. d.status = "rejected" /\ requests' = Put(requests, job[p].id, d)
  BY <1>1, RequestDecided DEF RejectPut, At
<1>3. PendingUnique'
  BY <1>2, DecisionSolo DEF SoloInv
<1>4. SingleUseUncut'
  <2>1. \A r \in DOMAIN requests' : requests'[r].status = "approved" =>
          r \in DOMAIN requests /\ requests'[r] = requests[r]
    BY <1>2 DEF Put
  <2> QED
    BY <2>1 DEF RejectPut, Rest, SoloInv, SingleUseUncut, InviteSingleUse
<1> QED
  BY <1>3, <1>4, IdleQuiet, QuietSolo DEF RejectPut

\* Every step of the only process.
LEMMA StepSolo ==
  ASSUME OneAtATime, IInv, ApprovalBurnsInvite, SoloInv, [Next]_vars
  PROVE  SoloInv'
<1>1. ASSUME NEW p \in Proc, Begin(p) PROVE SoloInv'
  BY <1>1, InitLoadSolo, AddLoadSolo, RemoveLoadSolo, QuietSteps DEF Begin
<1>2. ASSUME NEW p \in Proc, Continue(p) PROVE SoloInv'
  BY <1>2, QuietSteps, JoinListSolo, JoinScanSolo, JoinDecideSolo, JoinPutSolo,
     ApproveInviteSolo, ApproveRecipientsSolo, ApprovePutRecipientsSolo,
     ApprovePutRequestSolo, RejectPutSolo DEF Continue
<1>3. ASSUME NEW p \in Proc, Abort(p) PROVE SoloInv'
  BY <1>3, QuietSteps
<1>4. ASSUME UNCHANGED <<recipients, requests, job, aborts>> PROVE SoloInv'
  BY <1>4, SameRequests DEF SoloInv, SoloJob, StillRevoked
<1> QED
  BY <1>1, <1>2, <1>3, <1>4 DEF Next, Clone, Expire, vars, objects

\* The empty bucket.
LEMMA InitSolo == Init => SoloInv
BY DEF Init, SoloInv, SoloJob, PendingUnique, SingleUseUncut, InviteSingleUse, Idle, StoreAt

\* However often commands are cut short, when they run one at a time.
THEOREM SoloInvariance ==
  ASSUME OneAtATime
  PROVE  Spec => []SoloInv
<1>1. IInv /\ ApprovalBurnsInvite /\ SoloInv /\ [Next]_vars => SoloInv'
  BY StepSolo
<1> QED
  BY <1>1, InitSolo, Invariance, ApprovalBurns, PTL DEF Spec

\* NewJoinRequest then keeps its promise: one pending request for an invite,
\* and one for a device.
THEOREM OnePendingRequest ==
  ASSUME OneAtATime
  PROVE  Spec => []PendingUnique
<1>1. SoloInv => PendingUnique
  BY DEF SoloInv
<1> QED
  BY <1>1, SoloInvariance, PTL

\* An invite then gets one device approved at most, as the documentation
\* promises, as long as no command is cut short.
THEOREM SingleUse ==
  ASSUME OneAtATime
  PROVE  Spec => []SingleUseUncut
<1>1. SoloInv => SingleUseUncut
  BY DEF SoloInv
<1> QED
  BY <1>1, SoloInvariance, PTL

\* Add, init and approve then do not bring a revoked device back.
THEOREM NoRevokedReturns ==
  ASSUME OneAtATime
  PROVE  Spec => RevokedStaysRevoked
<1>1. ASSUME IInv, SoloInv, Next PROVE StillRevoked(recipients')
  <2>1. ASSUME UNCHANGED recipients PROVE StillRevoked(recipients')
    BY <1>1, <2>1, RecipientsFacts, SelfRevoked DEF StillRevoked, RevokedIn
  <2>2. ASSUME NEW p \in Proc, InitPut(p) \/ RecipientsPut(p) \/ ApprovePutRecipients(p)
        PROVE  StillRevoked(recipients')
    <3>1. recipients' = job[p].store /\ job[p].at \in StoreAt
      BY <2>2 DEF InitPut, RecipientsPut, ApprovePutRecipients, PutRecipients, At, StoreAt
    <3> QED
      BY <1>1, <3>1 DEF SoloInv, SoloJob, StillRevoked
  <2>3. \/ UNCHANGED recipients
        \/ \E p \in Proc : InitPut(p) \/ RecipientsPut(p) \/ ApprovePutRecipients(p)
    BY <1>1 DEF Next, Begin, Continue, InitLoad, AddLoad, RemoveLoad, NewInvite, JoinLoad,
       ApproveLoad, RejectLoad, InitConfig, InvitePut, InvitePrint, JoinList, JoinScan,
       JoinDecide, JoinPut, ApproveInvite, ApproveRecipients, ApprovePutRequest,
       ApprovePutInvite, RejectPut, Abort, Clone, Expire, KeepRecipients, objects
  <2> QED
    BY <2>1, <2>2, <2>3
<1>2. IInv /\ SoloInv /\ [Next]_vars => [StillRevoked(recipients')]_vars
  BY <1>1
<1> QED
  BY <1>2, SoloInvariance, Invariance, PTL DEF Spec, RevokedStaysRevoked

=============================================================================
