-------------------------- MODULE EnrollmentProofs --------------------------
(***************************************************************************)
(* Proofs about the enrollment commands, for any number of processes,      *)
(* invites and requests and any bound on aborted commands.                 *)
(***************************************************************************)
EXTENDS Enrollment, RecipientsProofs

\* What a job holds at each step.
LEMMA JobShape ==
  ASSUME NEW j \in Job
  PROVE  /\ j.at \in StoreAt => j.store \in Store
         /\ j.at \in {"initPut", "initConfig"} => j.key \in Keys
         /\ j.at \in {"invitePut", "invitePrint"} => j \in InviteJob
         /\ j.at \in JoinAt \cup DecideAt => j.doc \in Request
         /\ j.at \in DecideAt \cup {"joinPut"} => j.id \in RequestIds
         /\ j.at = "joinScan" => j \in ScanJob
         /\ j.at \in (DecideAt \ {"approvePutRecipients"}) \cup {"joinPut"}
              => j \in RequestJob
<1>1. CASE j = Idle
  BY <1>1 DEF Idle, StoreAt, JoinAt, DecideAt
<1>2. CASE j \in RecipientsJob
  BY <1>2 DEF RecipientsJob, StoreAt, JoinAt, DecideAt
<1>3. CASE j \in InitJob
  BY <1>3 DEF InitJob, StoreAt, JoinAt, DecideAt
<1>4. CASE j \in ConfigJob
  BY <1>4 DEF ConfigJob, StoreAt, JoinAt, DecideAt
<1>5. CASE j \in InviteJob
  BY <1>5 DEF InviteJob, StoreAt, JoinAt, DecideAt
<1>6. CASE j \in ListJob
  BY <1>6 DEF ListJob, StoreAt, JoinAt, DecideAt
<1>7. CASE j \in ScanJob
  BY <1>7 DEF ScanJob, StoreAt, JoinAt, DecideAt
<1>8. CASE j \in RequestJob
  BY <1>8 DEF RequestJob, StoreAt, JoinAt, DecideAt
<1>9. CASE j \in GrantJob
  BY <1>9 DEF GrantJob, StoreAt, JoinAt, DecideAt
<1> QED
  BY <1>1, <1>2, <1>3, <1>4, <1>5, <1>6, <1>7, <1>8, <1>9 DEF Job

\* Going to step j changes the job of one process.
LEMMA GotoJob ==
  ASSUME TypeOK, NEW p \in Proc, NEW j \in Job, Goto(p, j)
  PROVE  /\ job' \in [Proc -> Job]
         /\ job'[p] = j
         /\ \A q \in Proc : q # p => job'[q] = job[q]
BY DEF TypeOK, Goto

\* Saving a document leaves a prefix with documents of one kind.
LEMMA PutType ==
  ASSUME NEW objs, NEW Ids, NEW Doc, Documents(objs, Ids, Doc),
         NEW id \in Ids, NEW v \in Doc
  PROVE  Documents(Put(objs, id, v), Ids, Doc)
BY DEF Documents, Put

\* The empty bucket is well typed.
LEMMA InitTypeOK == Init => TypeOK
<1> SUFFICES ASSUME Init PROVE TypeOK
  OBVIOUS
<1>1. recipients \in Store
  BY EmptySeq DEF Init, Store
<1>2. Documents(invites, InviteIds, Invite) /\ Documents(requests, RequestIds, Request)
  BY DEF Init, Documents
<1>3. job \in [Proc -> Job] /\ aborts \in 0..MaxAborts
  BY EnrollmentAssumption DEF Init, Job
<1> QED
  BY <1>1, <1>2, <1>3 DEF Init, TypeOK

-----------------------------------------------------------------------------
(***************************************************************************)
(* Type correctness.  Three lemmas cover the steps by what they write: no  *)
(* document, the recipients, or one invite or request.                     *)
(***************************************************************************)
LEMMA ReadType ==
  ASSUME TypeOK, NEW p \in Proc, NEW j \in Job, Goto(p, j),
         UNCHANGED objects, UNCHANGED listed, Rest
  PROVE  TypeOK'
BY GotoJob DEF TypeOK, objects, Rest, Documents

\* Saved recipients keep the bucket well typed.
LEMMA StoreType ==
  ASSUME TypeOK, NEW p \in Proc, NEW j \in Job, Goto(p, j),
         NEW s \in Store, PutRecipients(s),
         UNCHANGED <<invites, requests>>, Rest
  PROVE  TypeOK'
BY GotoJob DEF TypeOK, PutRecipients, Rest, Documents

\* A saved invite does too.
LEMMA InvitePutType ==
  ASSUME TypeOK, NEW p \in Proc, NEW j \in Job, Goto(p, j),
         NEW i \in InviteIds, NEW v \in Invite, invites' = Put(invites, i, v),
         UNCHANGED requests, KeepRecipients, Rest
  PROVE  TypeOK'
<1>1. Documents(invites', InviteIds, Invite)
  BY PutType DEF TypeOK
<1> QED
  BY <1>1, GotoJob DEF TypeOK, KeepRecipients, Rest, Documents

\* So does a saved request.
LEMMA RequestPutType ==
  ASSUME TypeOK, NEW p \in Proc, NEW j \in Job, Goto(p, j),
         NEW r \in RequestIds, NEW v \in Request, requests' = Put(requests, r, v),
         UNCHANGED invites, KeepRecipients, Rest
  PROVE  TypeOK'
<1>1. Documents(requests', RequestIds, Request)
  BY PutType DEF TypeOK
<1> QED
  BY <1>1, GotoJob DEF TypeOK, KeepRecipients, Rest, Documents

\* The request r, when there is one, is a request.
LEMMA RequestType ==
  ASSUME TypeOK, NEW r \in DOMAIN requests
  PROVE  r \in RequestIds /\ requests[r] \in Request
BY DEF TypeOK, Documents


-----------------------------------------------------------------------------
(***************************************************************************)
(* The inductive invariant.  A write of one process leaves what the job of *)
(* another process relies on: requests keep device and decision, and the   *)
(* history only grows.                                                     *)
(***************************************************************************)
LEMMA JobStaysOK ==
  ASSUME NEW j, NEW reqs, NEW reqs2, NEW toks, NEW toks2, NEW seen, NEW seen2,
         JobOK(j, reqs, toks, seen),
         \A r \in DOMAIN reqs :
           /\ r \in DOMAIN reqs2
           /\ SameDevice(reqs[r], reqs2[r])
           /\ reqs[r].status # "pending" => reqs2[r].status # "pending",
         toks \subseteq toks2,
         seen \subseteq seen2,
         j.at = "joinPut" => j.id \notin DOMAIN reqs2
  PROVE  JobOK(j, reqs2, toks2, seen2)
<1>1. \A s : Traced(s, reqs, toks) => Traced(s, reqs2, toks2)
  BY DEF Traced, SameDevice
<1>2. j.at \in StoreAt => NoDuplicates(j.store) /\ Traced(j.store, reqs2, toks2)
  BY <1>1 DEF JobOK
<1>3. j.at \in JoinAt => j.doc.status = "pending" /\ j.doc.invite \in toks2
  BY DEF JobOK
<1>4. j.at \in DecideAt => j.id \in DOMAIN reqs2 /\ SameDevice(j.doc, reqs2[j.id])
  BY DEF JobOK, SameDevice
<1>5. /\ j.at = "approvePutRecipients" =>
           Duplicate(j.store, Entry(j.doc.name, j.doc.key, j.id))
      /\ j.at = "approvePutRequest" => j.id \in seen2
  BY DEF JobOK
<1>6. j.at = "approvePutInvite" => reqs2[j.id].status # "pending"
  BY DEF JobOK, DecideAt
<1> QED
  BY <1>2, <1>3, <1>4, <1>5, <1>6 DEF JobOK

\* The id a new job draws is in nobody's hands, and a token that is to be
\* printed is that of a saved invite.
NewIdOK(j) ==
  /\ j.at = "joinPut" => FreshRequest(j.id)
  /\ j.at = "invitePut" => FreshInvite(j.invite)
  /\ j.at = "invitePrint" => j.invite \in DOMAIN invites

\* No document is written; tokens may be printed.
LEMMA QuietKeeps ==
  ASSUME IInv, TypeOK', UNCHANGED objects, UNCHANGED listed,
         tokens \subseteq tokens', tokens' \subseteq DOMAIN invites, NEW p,
         \A q \in Proc : q # p => job'[q] = job[q],
         \/ job'[p] = job[p]
         \/ NewIdOK(job'[p]) /\ JobOK(job'[p], requests, tokens', listed)
  PROVE  IInv'
<1>1. NoDuplicateRecipients' /\ Provenance'
  BY DEF IInv, NoDuplicateRecipients, Provenance, Traced, objects
<1>2. UsedInviteSettled' /\ ApprovedWasListed' /\ RequestsInvited'
  BY DEF IInv, UsedInviteSettled, ApprovedWasListed, RequestsInvited, objects
<1>3. JobsOK'
  <2> SUFFICES ASSUME NEW q \in Proc
               PROVE  JobOK(job'[q], requests', tokens', listed')
    BY DEF JobsOK
  <2>1. JobOK(job[q], requests, tokens, listed)
    BY DEF IInv, JobsOK
  <2>2. JobOK(job[q], requests, tokens', listed)
    <3>1. job[q].at = "joinPut" => job[q].id \notin DOMAIN requests
      BY <2>1 DEF JobOK
    <3>2. \A r \in DOMAIN requests : SameDevice(requests[r], requests[r])
      BY DEF SameDevice
    <3> QED
      BY <2>1, <3>1, <3>2, JobStaysOK
  <2> QED
    BY <2>2 DEF objects
<1>4. FreshIds'
  <2>1. \A q \in Proc : job'[q] = job[q] \/ (q = p /\ NewIdOK(job'[p]))
    OBVIOUS
  <2> QED
    BY <2>1 DEF IInv, FreshIds, NewIdOK, FreshRequest, FreshInvite, At, objects
<1>5. TokensSaved'
  BY DEF IInv, TokensSaved, NewIdOK, At, objects
<1> QED
  BY <1>1, <1>2, <1>3, <1>4, <1>5 DEF IInv

\* A process reads, and goes on with job j.
LEMMA ReadKeeps ==
  ASSUME IInv, NEW p \in Proc, NEW j \in Job, Goto(p, j),
         UNCHANGED objects, UNCHANGED listed, Rest,
         NewIdOK(j), JobOK(j, requests, tokens, listed)
  PROVE  IInv'
BY GotoJob, ReadType, QuietKeeps DEF IInv, TokensSaved, Rest

\* Entries that no request stands behind leave a traced document traced.
LEMMA TracedOperations ==
  ASSUME NEW s \in Store, NEW reqs, NEW toks, Traced(s, reqs, toks)
  PROVE  /\ \A i \in DOMAIN s : Traced(Revoke(s, i), reqs, toks)
         /\ \A i \in DOMAIN s : Traced(Delete(s, i), reqs, toks)
         /\ \A r \in Recipient :
              (r.via \in RequestIds =>
                 /\ r.via \in DOMAIN reqs
                 /\ r.name = reqs[r.via].name
                 /\ r.key = reqs[r.via].key
                 /\ reqs[r.via].invite \in toks)
              => Traced(Add(s, r), reqs, toks)
<1>1. ASSUME NEW i \in DOMAIN s
      PROVE  Traced(Revoke(s, i), reqs, toks)
  <2> DEFINE t == Revoke(s, i)
  <2>1. /\ DOMAIN t = DOMAIN s
        /\ \A j \in DOMAIN s : /\ t[j].name = s[j].name
                               /\ t[j].key = s[j].key
                               /\ t[j].via = s[j].via
    BY RevokeProperties
  <2> HIDE DEF t
  <2>2. Traced(t, reqs, toks)
    BY <2>1 DEF Traced
  <2> QED
    BY <2>2 DEF t
<1>2. ASSUME NEW i \in DOMAIN s
      PROVE  Traced(Delete(s, i), reqs, toks)
  <2> DEFINE t == Delete(s, i)
  <2>1. Len(s) \in Nat /\ DOMAIN s = 1..Len(s) /\ i \in 1..Len(s)
    BY LenProperties DEF Store
  <2>2. DOMAIN t = 1..(Len(s) - 1)
    BY DeleteProperties, LenProperties DEF Store
  <2>3. \A j \in 1..(Len(s) - 1) : t[j] = IF j < i THEN s[j] ELSE s[j + 1]
    BY DeleteProperties
  <2> HIDE DEF t
  <2>4. \A j \in DOMAIN t : \E k \in DOMAIN s : t[j] = s[k]
    BY <2>1, <2>2, <2>3
  <2>5. Traced(t, reqs, toks)
    BY <2>4 DEF Traced
  <2> QED
    BY <2>5 DEF t
<1>3. ASSUME NEW r \in Recipient,
             r.via \in RequestIds =>
               /\ r.via \in DOMAIN reqs
               /\ r.name = reqs[r.via].name
               /\ r.key = reqs[r.via].key
               /\ reqs[r.via].invite \in toks
      PROVE  Traced(Add(s, r), reqs, toks)
  <2> DEFINE t == Add(s, r)
  <2>1. /\ \A k \in DOMAIN s : t[k] = s[k]
        /\ t[Len(s) + 1] = r
        /\ DOMAIN t = DOMAIN s \cup {Len(s) + 1}
    BY AddProperties
  <2> HIDE DEF t
  <2>2. Traced(t, reqs, toks)
    BY <1>3, <2>1 DEF Traced
  <2> QED
    BY <2>2 DEF t
<1> QED
  BY <1>1, <1>2, <1>3

\* A job that holds a clean document, about to write it, or no document.
LEMMA InitLoadKeeps ==
  ASSUME IInv, NEW p \in Proc, InitLoad(p)
  PROVE  IInv'
<1>1. PICK name \in Names \ {Blank}, key \in Keys :
        LET r == Entry(name, key, "local-init") IN
        /\ Goto(p, [at |-> "initPut", key |-> key,
                    store |-> IF Duplicate(recipients, r) THEN recipients
                                                          ELSE Add(recipients, r)])
        /\ UNCHANGED objects /\ UNCHANGED listed /\ Rest
  BY DEF InitLoad
<1> DEFINE r == Entry(name, key, "local-init")
           s == IF Duplicate(recipients, r) THEN recipients ELSE Add(recipients, r)
           j == [at |-> "initPut", key |-> key, store |-> s]
<1>2. r \in Recipient /\ r.via \notin RequestIds
  BY EntryType, RecipientsAssumption DEF Origins, Entry
<1>3. recipients \in Store /\ NoDuplicates(recipients) /\ Traced(recipients, requests, tokens)
  BY DEF IInv, TypeOK, NoDuplicateRecipients, Provenance
<1>4. s \in Store /\ NoDuplicates(s) /\ Traced(s, requests, tokens)
  <2> HIDE DEF r
  <2> QED
    BY <1>2, <1>3, AddProperties, AddKeepsNoDuplicates, TracedOperations
<1> HIDE DEF s
<1>5. j \in Job
  BY <1>4 DEF Job, InitJob
<1>6. NewIdOK(j) /\ JobOK(j, requests, tokens, listed)
  BY <1>4 DEF NewIdOK, JobOK, StoreAt, JoinAt, DecideAt
<1> HIDE DEF j
<1>7. Goto(p, j) /\ UNCHANGED objects /\ UNCHANGED listed /\ Rest
  BY <1>1 DEF j, s
<1> QED
  BY <1>5, <1>6, <1>7, ReadKeeps

\* A process goes on to save the document s it has computed.
LEMMA RecipientsLoadKeeps ==
  ASSUME IInv, NEW p \in Proc, NEW s \in Store,
         NoDuplicates(s), Traced(s, requests, tokens),
         Goto(p, [at |-> "putRecipients", store |-> s]),
         UNCHANGED objects, UNCHANGED listed, Rest
  PROVE  IInv'
<1> DEFINE j == [at |-> "putRecipients", store |-> s]
<1>1. j \in Job
  BY DEF Job, RecipientsJob
<1>2. NewIdOK(j) /\ JobOK(j, requests, tokens, listed)
  BY DEF NewIdOK, JobOK, StoreAt, JoinAt, DecideAt
<1> HIDE DEF j
<1>3. Goto(p, j)
  BY DEF j
<1> QED
  BY <1>1, <1>2, <1>3, ReadKeeps

\* recipients add loads the document and adds its entry.
LEMMA AddLoadKeeps ==
  ASSUME IInv, NEW p \in Proc, AddLoad(p)
  PROVE  IInv'
<1>1. PICK name \in Names \ {Blank}, key \in Keys :
        LET r == Entry(name, key, "manual") IN
        /\ ~Duplicate(recipients, r)
        /\ Goto(p, [at |-> "putRecipients", store |-> Add(recipients, r)])
        /\ UNCHANGED objects /\ UNCHANGED listed /\ Rest
  BY DEF AddLoad
<1> DEFINE r == Entry(name, key, "manual")
<1>2. r \in Recipient /\ r.via \notin RequestIds
  BY EntryType, RecipientsAssumption DEF Origins, Entry
<1>3. recipients \in Store /\ NoDuplicates(recipients) /\ Traced(recipients, requests, tokens)
  BY DEF IInv, TypeOK, NoDuplicateRecipients, Provenance
<1>4. /\ ~Duplicate(recipients, r)
      /\ Goto(p, [at |-> "putRecipients", store |-> Add(recipients, r)])
      /\ UNCHANGED objects /\ UNCHANGED listed /\ Rest
  BY <1>1
<1> HIDE DEF r
<1>5. /\ Add(recipients, r) \in Store
      /\ NoDuplicates(Add(recipients, r))
      /\ Traced(Add(recipients, r), requests, tokens)
  BY <1>2, <1>3, <1>4, AddProperties, AddKeepsNoDuplicates, TracedOperations
<1> QED
  BY <1>4, <1>5, RecipientsLoadKeeps

\* recipients remove loads the document and changes or drops one entry.
LEMMA RemoveLoadKeeps ==
  ASSUME IInv, NEW p \in Proc, RemoveLoad(p)
  PROVE  IInv'
<1>1. PICK i \in DOMAIN recipients :
        /\ \/ Goto(p, [at |-> "putRecipients", store |-> Revoke(recipients, i)])
           \/ Goto(p, [at |-> "putRecipients", store |-> Delete(recipients, i)])
        /\ UNCHANGED objects /\ UNCHANGED listed /\ Rest
  BY DEF RemoveLoad
<1>2. recipients \in Store /\ NoDuplicates(recipients) /\ Traced(recipients, requests, tokens)
  BY DEF IInv, TypeOK, NoDuplicateRecipients, Provenance
<1>3. /\ Revoke(recipients, i) \in Store
      /\ NoDuplicates(Revoke(recipients, i))
      /\ Traced(Revoke(recipients, i), requests, tokens)
  BY <1>2, RevokeProperties, RevokeKeepsNoDuplicates, TracedOperations
<1>4. /\ Delete(recipients, i) \in Store
      /\ NoDuplicates(Delete(recipients, i))
      /\ Traced(Delete(recipients, i), requests, tokens)
  BY <1>2, DeleteProperties, DeleteKeepsNoDuplicates, TracedOperations
<1> QED
  BY <1>1, <1>3, <1>4, RecipientsLoadKeeps

\* What the type and the invariant say of the job of p.
LEMMA JobFacts ==
  ASSUME IInv, NEW p \in Proc
  PROVE  job[p] \in Job /\ JobOK(job[p], requests, tokens, listed)
BY DEF IInv, TypeOK, JobsOK

\* enroll invite draws an id and a token.
LEMMA NewInviteKeeps ==
  ASSUME IInv, NEW p \in Proc, NewInvite(p)
  PROVE  IInv'
<1>1. PICK i \in InviteIds :
        /\ FreshInvite(i)
        /\ Goto(p, [at |-> "invitePut", invite |-> i])
        /\ UNCHANGED objects /\ UNCHANGED listed /\ Rest
  BY DEF NewInvite
<1> DEFINE j == [at |-> "invitePut", invite |-> i]
<1>2. j \in Job
  BY DEF Job, InviteJob
<1>3. NewIdOK(j) /\ JobOK(j, requests, tokens, listed)
  BY <1>1 DEF NewIdOK, JobOK, StoreAt, JoinAt, DecideAt
<1> QED
  BY <1>1, <1>2, <1>3, ReadKeeps

\* enroll join loads the invite of its token.
LEMMA JoinLoadKeeps ==
  ASSUME IInv, NEW p \in Proc, JoinLoad(p)
  PROVE  IInv'
<1>1. PICK i \in DOMAIN invites, t \in tokens, name \in Names \ {Blank}, key \in Keys :
        /\ TokenOpens(i, t)
        /\ Goto(p, [at |-> "joinList",
                    doc |-> [invite |-> i, name |-> name, key |-> key,
                             status |-> "pending"]])
        /\ UNCHANGED objects /\ UNCHANGED listed /\ Rest
  BY DEF JoinLoad
<1> DEFINE doc == [invite |-> i, name |-> name, key |-> key, status |-> "pending"]
           j == [at |-> "joinList", doc |-> doc]
<1>2. doc \in Request
  BY DEF IInv, TypeOK, Documents, Request
<1>3. doc.status = "pending" /\ doc.invite \in tokens
  BY <1>1 DEF TokenOpens
<1> HIDE DEF doc
<1>4. j \in Job
  BY <1>2 DEF Job, ListJob
<1>5. NewIdOK(j) /\ JobOK(j, requests, tokens, listed)
  BY <1>3 DEF NewIdOK, JobOK, StoreAt, JoinAt, DecideAt
<1> HIDE DEF j
<1>6. Goto(p, j) /\ UNCHANGED objects /\ UNCHANGED listed /\ Rest
  BY <1>1 DEF j, doc
<1> QED
  BY <1>4, <1>5, <1>6, ReadKeeps

\* enroll join lists the requests.
LEMMA JoinListKeeps ==
  ASSUME IInv, NEW p \in Proc, JoinList(p)
  PROVE  IInv'
<1> DEFINE j == [at |-> "joinScan", doc |-> job[p].doc,
                 todo |-> DOMAIN requests, blocked |-> FALSE]
<1>1. /\ job[p].doc \in Request
      /\ job[p].doc.status = "pending" /\ job[p].doc.invite \in tokens
  BY JobFacts, JobShape DEF JoinList, At, JobOK, JoinAt
<1>2. DOMAIN requests \in SUBSET RequestIds
  BY DEF IInv, TypeOK, Documents
<1>3. j \in Job
  BY <1>1, <1>2 DEF Job, ScanJob
<1>4. NewIdOK(j) /\ JobOK(j, requests, tokens, listed)
  BY <1>1 DEF NewIdOK, JobOK, StoreAt, JoinAt, DecideAt
<1> QED
  BY <1>3, <1>4, ReadKeeps DEF JoinList

\* enroll join reads one of them.
LEMMA JoinScanKeeps ==
  ASSUME IInv, NEW p \in Proc, JoinScan(p)
  PROVE  IInv'
<1>1. PICK r \in RequestIds :
        /\ At(p, "joinScan")
        /\ Goto(p, [job[p] EXCEPT !.todo = @ \ {r},
                                  !.blocked = @ \/ Blocks(requests[r], job[p].doc)])
        /\ UNCHANGED objects /\ UNCHANGED listed /\ Rest
  BY DEF JoinScan
<1> DEFINE b == job[p].blocked \/ Blocks(requests[r], job[p].doc)
           j == [job[p] EXCEPT !.todo = @ \ {r}, !.blocked = b]
<1>2. /\ job[p] \in ScanJob
      /\ job[p].doc.status = "pending" /\ job[p].doc.invite \in tokens
  BY <1>1, JobFacts, JobShape DEF At, JobOK, JoinAt
<1>3. b \in BOOLEAN
  BY DEF Blocks
<1> HIDE DEF b
<1>4. j \in ScanJob /\ j.at = "joinScan" /\ j.doc = job[p].doc
  BY <1>2, <1>3 DEF ScanJob
<1> HIDE DEF j
<1>5. j \in Job
  BY <1>4 DEF Job
<1>6. NewIdOK(j) /\ JobOK(j, requests, tokens, listed)
  BY <1>2, <1>4 DEF NewIdOK, JobOK, StoreAt, JoinAt, DecideAt
<1>7. Goto(p, j)
  BY <1>1 DEF j, b
<1> QED
  BY <1>1, <1>5, <1>6, <1>7, ReadKeeps

\* A process goes back to the prompt without having written.
LEMMA ReturnKeeps ==
  ASSUME IInv, NEW p \in Proc, Goto(p, Idle),
         UNCHANGED objects, UNCHANGED listed, Rest
  PROVE  IInv'
<1>1. Idle \in Job
  BY DEF Job
<1>2. NewIdOK(Idle) /\ JobOK(Idle, requests, tokens, listed)
  BY DEF Idle, NewIdOK, JobOK, StoreAt, JoinAt, DecideAt
<1> QED
  BY <1>1, <1>2, ReadKeeps

\* enroll join draws the id of its request, or ends.
LEMMA JoinDecideKeeps ==
  ASSUME IInv, NEW p \in Proc, JoinDecide(p)
  PROVE  IInv'
<1>1. CASE Goto(p, Idle)
  BY <1>1, ReturnKeeps DEF JoinDecide
<1>2. CASE ~Goto(p, Idle)
  <2>1. PICK r \in RequestIds :
          /\ FreshRequest(r)
          /\ Goto(p, [at |-> "joinPut", id |-> r, doc |-> job[p].doc])
    BY <1>2 DEF JoinDecide
  <2> DEFINE j == [at |-> "joinPut", id |-> r, doc |-> job[p].doc]
  <2>2. /\ job[p].doc \in Request
        /\ job[p].doc.status = "pending" /\ job[p].doc.invite \in tokens
    BY JobFacts, JobShape DEF JoinDecide, At, JobOK, JoinAt
  <2>3. j \in Job
    BY <2>2 DEF Job, RequestJob
  <2>4. NewIdOK(j) /\ JobOK(j, requests, tokens, listed)
    BY <2>1, <2>2 DEF NewIdOK, FreshRequest, JobOK, StoreAt, JoinAt, DecideAt
  <2> QED
    BY <2>1, <2>3, <2>4, ReadKeeps DEF JoinDecide
<1> QED
  BY <1>1, <1>2

\* A process has loaded request r and is about to decide it.
LEMMA RequestLoadKeeps ==
  ASSUME IInv, NEW p \in Proc, NEW r \in DOMAIN requests,
         NEW a \in {"approveInvite", "rejectPut"},
         Goto(p, [at |-> a, id |-> r, doc |-> requests[r]]),
         UNCHANGED objects, UNCHANGED listed, Rest
  PROVE  IInv'
<1> DEFINE j == [at |-> a, id |-> r, doc |-> requests[r]]
<1>1. j \in Job
  BY RequestType DEF IInv, Job, RequestJob
<1>2. NewIdOK(j) /\ JobOK(j, requests, tokens, listed)
  BY DEF NewIdOK, JobOK, StoreAt, JoinAt, DecideAt, SameDevice
<1> QED
  BY <1>1, <1>2, ReadKeeps

\* enroll approve checks the invite it has loaded.
LEMMA ApproveInviteKeeps ==
  ASSUME IInv, NEW p \in Proc, ApproveInvite(p)
  PROVE  IInv'
<1>1. CASE Goto(p, Idle)
  BY <1>1, ReturnKeeps DEF ApproveInvite
<1>2. CASE Goto(p, [job[p] EXCEPT !.at = "approveRecipients"])
  <2> DEFINE j == [job[p] EXCEPT !.at = "approveRecipients"]
  <2>1. /\ job[p] \in RequestJob
        /\ job[p].id \in DOMAIN requests /\ SameDevice(job[p].doc, requests[job[p].id])
    BY JobFacts, JobShape DEF ApproveInvite, At, JobOK, DecideAt
  <2>2. j \in RequestJob /\ j.at = "approveRecipients" /\ j.id = job[p].id /\ j.doc = job[p].doc
    BY <2>1 DEF RequestJob
  <2> HIDE DEF j
  <2>3. j \in Job
    BY <2>2 DEF Job
  <2>4. NewIdOK(j) /\ JobOK(j, requests, tokens, listed)
    BY <2>1, <2>2 DEF NewIdOK, JobOK, StoreAt, JoinAt, DecideAt
  <2>5. Goto(p, j)
    BY <1>2 DEF j
  <2> QED
    BY <2>3, <2>4, <2>5, ReadKeeps DEF ApproveInvite
<1> QED
  BY <1>1, <1>2 DEF ApproveInvite

\* An approval computes a clean document that lists its device.
LEMMA ApproveRecipientsKeeps ==
  ASSUME IInv, NEW p \in Proc, ApproveRecipients(p)
  PROVE  IInv'
<1> DEFINE doc == job[p].doc
           id == job[p].id
           e == Entry(doc.name, doc.key, id)
<1>1. /\ id \in RequestIds /\ doc \in Request
      /\ id \in DOMAIN requests /\ SameDevice(doc, requests[id])
  BY JobFacts, JobShape DEF ApproveRecipients, At, JobOK, DecideAt
<1>2. CASE Goto(p, Idle)
  BY <1>2, ReturnKeeps DEF ApproveRecipients
<1>3. ASSUME NEW s \in Grant(recipients, e),
             Goto(p, [at |-> "approvePutRecipients", id |-> id, doc |-> doc, store |-> s])
      PROVE  IInv'
  <2>1. e \in Recipient
    BY <1>1, EntryType DEF Origins, Request
  <2>2. /\ e.via = id /\ e.name = requests[id].name /\ e.key = requests[id].key
        /\ requests[id].invite \in tokens
    BY <1>1 DEF Entry, SameDevice, IInv, RequestsInvited
  <2>3. recipients \in Store /\ NoDuplicates(recipients) /\ Traced(recipients, requests, tokens)
    BY DEF IInv, TypeOK, NoDuplicateRecipients, Provenance
  <2>4. \/ Duplicate(recipients, e) /\ s = recipients
        \/ ~Duplicate(recipients, e) /\ s = Add(recipients, e)
    BY <1>3 DEF Grant
  <2> HIDE DEF e
  <2>5. s \in Store /\ NoDuplicates(s)
    BY <2>1, <2>3, <2>4, AddProperties, AddKeepsNoDuplicates
  <2>6. Traced(s, requests, tokens)
    BY <1>1, <2>1, <2>2, <2>3, <2>4, TracedOperations
  <2>7. Duplicate(s, e)
    <3>1. CASE Duplicate(recipients, e) /\ s = recipients
      BY <3>1
    <3>2. CASE s = Add(recipients, e)
      <4>1. Len(recipients) + 1 \in DOMAIN s /\ s[Len(recipients) + 1] = e
        BY <2>1, <2>3, <3>2, AddProperties
      <4> QED
        BY <4>1 DEF Duplicate, Clash
    <3> QED
      BY <2>4, <3>1, <3>2
  <2> DEFINE j == [at |-> "approvePutRecipients", id |-> id, doc |-> doc, store |-> s]
  <2> HIDE DEF doc, id
  <2>8. j \in Job
    BY <1>1, <2>5 DEF Job, GrantJob
  <2>9. NewIdOK(j) /\ JobOK(j, requests, tokens, listed)
    BY <1>1, <2>5, <2>6, <2>7 DEF e, NewIdOK, JobOK, StoreAt, JoinAt, DecideAt
  <2> HIDE DEF j
  <2>10. Goto(p, j)
    BY <1>3 DEF j
  <2> QED
    BY <2>8, <2>9, <2>10, ReadKeeps DEF ApproveRecipients
<1> QED
  BY <1>2, <1>3 DEF ApproveRecipients

-----------------------------------------------------------------------------
(***************************************************************************)
(* The steps that write recipients.json.                                   *)
(***************************************************************************)
LEMMA StoreKeeps ==
  ASSUME IInv, NEW p \in Proc, NEW j \in Job, Goto(p, j),
         NEW s \in Store, NoDuplicates(s), Traced(s, requests, tokens),
         PutRecipients(s), UNCHANGED <<invites, requests>>, Rest,
         NewIdOK(j), JobOK(j, requests, tokens, listed')
  PROVE  IInv'
<1>1. TypeOK'
  BY StoreType DEF IInv
<1>2. NoDuplicateRecipients' /\ Provenance'
  BY DEF NoDuplicateRecipients, Provenance, Traced, PutRecipients, Rest
<1>3. UsedInviteSettled' /\ ApprovedWasListed' /\ RequestsInvited'
  BY DEF IInv, UsedInviteSettled, ApprovedWasListed, RequestsInvited, PutRecipients, Rest
<1>4. JobsOK'
  <2> SUFFICES ASSUME NEW q \in Proc
               PROVE  JobOK(job'[q], requests', tokens', listed')
    BY DEF JobsOK
  <2>1. CASE q = p
    BY <2>1, GotoJob DEF IInv, Rest
  <2>2. CASE q # p
    <3>1. job'[q] = job[q]
      BY <2>2, GotoJob DEF IInv
    <3>2. JobOK(job[q], requests, tokens, listed)
      BY JobFacts
    <3>3. job[q].at = "joinPut" => job[q].id \notin DOMAIN requests
      BY <3>2 DEF JobOK
    <3>4. listed \subseteq listed' /\ \A r \in DOMAIN requests : SameDevice(requests[r], requests[r])
      BY DEF PutRecipients, SameDevice
    <3>5. JobOK(job[q], requests, tokens, listed')
      BY <3>2, <3>3, <3>4, JobStaysOK
    <3> QED
      BY <3>1, <3>5 DEF Rest
  <2> QED
    BY <2>1, <2>2
<1>5. FreshIds'
  <2>1. job'[p] = j /\ \A q \in Proc : q # p => job'[q] = job[q]
    BY GotoJob DEF IInv
  <2> QED
    BY <2>1 DEF IInv, FreshIds, NewIdOK, FreshRequest, FreshInvite, At
<1>6. TokensSaved'
  BY GotoJob DEF IInv, TokensSaved, NewIdOK, At, Rest
<1> QED
  BY <1>1, <1>2, <1>3, <1>4, <1>5, <1>6 DEF IInv

\* project init saves the recipients.
LEMMA InitPutKeeps ==
  ASSUME IInv, NEW p \in Proc, InitPut(p)
  PROVE  IInv'
<1> DEFINE s == job[p].store
           j == [at |-> "initConfig", key |-> job[p].key]
<1>1. s \in Store /\ NoDuplicates(s) /\ Traced(s, requests, tokens) /\ job[p].key \in Keys
  BY JobFacts, JobShape DEF InitPut, At, JobOK, StoreAt
<1>2. j \in Job
  BY <1>1 DEF Job, ConfigJob
<1>3. NewIdOK(j) /\ JobOK(j, requests, tokens, listed')
  BY DEF NewIdOK, JobOK, StoreAt, JoinAt, DecideAt
<1> QED
  BY <1>1, <1>2, <1>3, StoreKeeps DEF InitPut

\* recipients add and remove save them.
LEMMA RecipientsPutKeeps ==
  ASSUME IInv, NEW p \in Proc, RecipientsPut(p)
  PROVE  IInv'
<1> DEFINE s == job[p].store
<1>1. s \in Store /\ NoDuplicates(s) /\ Traced(s, requests, tokens)
  BY JobFacts, JobShape DEF RecipientsPut, At, JobOK, StoreAt
<1>2. Idle \in Job
  BY DEF Job
<1>3. NewIdOK(Idle) /\ JobOK(Idle, requests, tokens, listed')
  BY DEF Idle, NewIdOK, JobOK, StoreAt, JoinAt, DecideAt
<1> QED
  BY <1>1, <1>2, <1>3, StoreKeeps DEF RecipientsPut

\* Once its recipients are saved, the request of the approval is listed.
LEMMA ApprovePutRecipientsKeeps ==
  ASSUME IInv, NEW p \in Proc, ApprovePutRecipients(p)
  PROVE  IInv'
<1> DEFINE s == job[p].store
           doc == job[p].doc
           id == job[p].id
           j == [at |-> "approvePutRequest", id |-> id, doc |-> doc]
<1>1. s \in Store /\ NoDuplicates(s) /\ Traced(s, requests, tokens)
  BY JobFacts, JobShape DEF ApprovePutRecipients, At, JobOK, StoreAt
<1>2. /\ id \in RequestIds /\ doc \in Request
      /\ id \in DOMAIN requests /\ SameDevice(doc, requests[id])
      /\ Duplicate(s, Entry(doc.name, doc.key, id))
  BY JobFacts, JobShape DEF ApprovePutRecipients, At, JobOK, DecideAt
<1>3. Lists(s, id)
  BY <1>2 DEF Lists, SameDevice
<1>4. id \in listed'
  BY <1>2, <1>3 DEF ApprovePutRecipients, PutRecipients
<1>5. j \in Job
  BY <1>2 DEF Job, RequestJob
<1>6. NewIdOK(j) /\ JobOK(j, requests, tokens, listed')
  BY <1>2, <1>4 DEF NewIdOK, JobOK, StoreAt, JoinAt, DecideAt
<1> QED
  BY <1>1, <1>5, <1>6, StoreKeeps DEF ApprovePutRecipients

-----------------------------------------------------------------------------
(***************************************************************************)
(* The steps that write an invite or a request.                            *)
(***************************************************************************)

\* Invite i becomes v, which is settled when it is used.
LEMMA InvitePutKeeps ==
  ASSUME IInv, NEW p \in Proc, NEW j \in Job, Goto(p, j),
         NEW i \in InviteIds, NEW v \in Invite, invites' = Put(invites, i, v),
         UNCHANGED requests, KeepRecipients, Rest,
         v.status = "used" =>
           /\ v.usedBy \in DOMAIN requests
           /\ requests[v.usedBy].invite = i
           /\ requests[v.usedBy].status # "pending",
         \/ i \in DOMAIN invites
         \/ At(p, "invitePut") /\ job[p].invite = i,
         j.at \notin {"joinPut", "invitePut"},
         j.at = "invitePrint" => j.invite = i,
         JobOK(j, requests, tokens, listed)
  PROVE  IInv'
<1>1. TypeOK'
  BY InvitePutType DEF IInv
<1>2. /\ DOMAIN invites' = DOMAIN invites \cup {i}
      /\ invites'[i] = v
      /\ \A x \in DOMAIN invites : x # i => invites'[x] = invites[x]
  BY DEF Put
<1>3. NoDuplicateRecipients' /\ Provenance' /\ ApprovedWasListed' /\ RequestsInvited'
  BY DEF IInv, NoDuplicateRecipients, Provenance, Traced, ApprovedWasListed,
         RequestsInvited, KeepRecipients, Rest
<1>4. UsedInviteSettled'
  BY <1>2 DEF IInv, UsedInviteSettled
<1>5. job'[p] = j /\ \A q \in Proc : q # p => job'[q] = job[q]
  BY GotoJob DEF IInv
<1>6. JobsOK'
  BY <1>5, JobFacts DEF JobsOK, KeepRecipients, Rest
<1>7. FreshIds'
  BY <1>2, <1>5 DEF IInv, FreshIds, At
<1>8. TokensSaved'
  BY <1>2, <1>5 DEF IInv, TokensSaved, At, Rest
<1> QED
  BY <1>1, <1>3, <1>4, <1>6, <1>7, <1>8 DEF IInv

\* enroll invite saves the invite under a new id.
LEMMA InvitePutStepKeeps ==
  ASSUME IInv, NEW p \in Proc, InvitePut(p)
  PROVE  IInv'
<1> DEFINE i == job[p].invite
           v == [status |-> "active", usedBy |-> Blank]
           j == [job[p] EXCEPT !.at = "invitePrint"]
<1>1. job[p] \in InviteJob
  BY JobFacts, JobShape DEF InvitePut, At
<1>2. i \in InviteIds /\ j \in InviteJob /\ j.at = "invitePrint" /\ j.invite = i
  BY <1>1 DEF InviteJob
<1>3. v \in Invite /\ v.status = "active"
  BY DEF Invite
<1> HIDE DEF j, v
<1>4. j \in Job
  BY <1>2 DEF Job
<1>5. JobOK(j, requests, tokens, listed)
  BY <1>2 DEF JobOK, StoreAt, JoinAt, DecideAt
<1>6. invites' = Put(invites, i, v) /\ Goto(p, j)
  BY DEF InvitePut, v, j
<1> QED
  BY <1>2, <1>3, <1>4, <1>5, <1>6, InvitePutKeeps DEF InvitePut

\* The approval that burns an invite has saved its decision before.
LEMMA ApprovePutInviteKeeps ==
  ASSUME IInv, NEW p \in Proc, ApprovePutInvite(p)
  PROVE  IInv'
<1> DEFINE i == job[p].doc.invite
           v == [status |-> "used", usedBy |-> job[p].id]
<1>1. /\ job[p].id \in RequestIds /\ job[p].doc \in Request
      /\ job[p].id \in DOMAIN requests
      /\ SameDevice(job[p].doc, requests[job[p].id])
      /\ requests[job[p].id].status # "pending"
  BY JobFacts, JobShape DEF ApprovePutInvite, At, JobOK, DecideAt
<1>2. i \in InviteIds /\ v \in Invite
  BY <1>1 DEF Invite, Request
<1>3. /\ v.usedBy \in DOMAIN requests
      /\ requests[v.usedBy].invite = i
      /\ requests[v.usedBy].status # "pending"
      /\ i \in DOMAIN invites
  BY <1>1 DEF SameDevice, IInv, RequestsInvited, TokensSaved
<1> HIDE DEF v
<1>4. invites' = Put(invites, i, v)
  BY DEF ApprovePutInvite, v
<1>5. Idle \in Job /\ Idle.at = "idle"
  BY DEF Job, Idle
<1>6. JobOK(Idle, requests, tokens, listed)
  BY DEF Idle, JobOK, StoreAt, JoinAt, DecideAt
<1> QED
  BY <1>2, <1>3, <1>4, <1>5, <1>6, InvitePutKeeps DEF ApprovePutInvite

\* Request r becomes v: a new pending request, or r decided.
LEMMA RequestPutKeeps ==
  ASSUME IInv, NEW p \in Proc, NEW j \in Job, Goto(p, j),
         NEW r \in RequestIds, NEW v \in Request, requests' = Put(requests, r, v),
         UNCHANGED invites, KeepRecipients, Rest,
         r \in DOMAIN requests => SameDevice(requests[r], v) /\ v.status # "pending",
         r \notin DOMAIN requests => At(p, "joinPut") /\ job[p].id = r,
         v.status = "approved" => r \in listed,
         v.invite \in tokens,
         j.at \notin {"joinPut", "invitePut", "invitePrint"},
         JobOK(j, requests', tokens, listed)
  PROVE  IInv'
<1>1. TypeOK'
  BY RequestPutType DEF IInv
<1>2. /\ DOMAIN requests' = DOMAIN requests \cup {r}
      /\ requests'[r] = v
      /\ \A x \in DOMAIN requests : x # r => requests'[x] = requests[x]
  BY DEF Put
<1>3. \A x \in DOMAIN requests :
        /\ x \in DOMAIN requests'
        /\ SameDevice(requests[x], requests'[x])
        /\ requests[x].status # "pending" => requests'[x].status # "pending"
  BY <1>2 DEF SameDevice
<1>4. NoDuplicateRecipients' /\ Provenance'
  BY <1>3 DEF IInv, NoDuplicateRecipients, Provenance, Traced, SameDevice, KeepRecipients, Rest
<1>5. ApprovedWasListed' /\ RequestsInvited'
  BY <1>2 DEF IInv, ApprovedWasListed, RequestsInvited, KeepRecipients, Rest
<1>6. UsedInviteSettled'
  BY <1>3 DEF IInv, UsedInviteSettled, SameDevice
<1>7. job'[p] = j /\ \A q \in Proc : q # p => job'[q] = job[q]
  BY GotoJob DEF IInv
<1>8. \A q \in Proc : q # p /\ job[q].at = "joinPut" => job[q].id \notin DOMAIN requests'
  <2> SUFFICES ASSUME NEW q \in Proc, q # p, job[q].at = "joinPut"
               PROVE  job[q].id \notin DOMAIN requests /\ job[q].id # r
    BY <1>2
  <2>1. job[q].id \notin DOMAIN requests
    BY JobFacts DEF JobOK
  <2> QED
    BY <2>1 DEF IInv, FreshIds, At
<1>9. JobsOK'
  <2> SUFFICES ASSUME NEW q \in Proc
               PROVE  JobOK(job'[q], requests', tokens, listed)
    BY DEF JobsOK, KeepRecipients, Rest
  <2>1. CASE q = p
    BY <2>1, <1>7
  <2>2. CASE q # p
    <3>1. JobOK(job[q], requests, tokens, listed)
      BY JobFacts
    <3>2. JobOK(job[q], requests', tokens, listed)
      BY <2>2, <3>1, <1>3, <1>8, JobStaysOK
    <3> QED
      BY <2>2, <3>2, <1>7
  <2> QED
    BY <2>1, <2>2
<1>10. FreshIds'
  BY <1>7, <1>8 DEF IInv, FreshIds, At
<1>11. TokensSaved'
  BY <1>7 DEF IInv, TokensSaved, At, Rest
<1> QED
  BY <1>1, <1>4, <1>5, <1>6, <1>9, <1>10, <1>11 DEF IInv

\* enroll join saves the request under a new id.
LEMMA JoinPutKeeps ==
  ASSUME IInv, NEW p \in Proc, JoinPut(p)
  PROVE  IInv'
<1> DEFINE r == job[p].id
           v == job[p].doc
<1>1. /\ r \in RequestIds /\ v \in Request
      /\ r \notin DOMAIN requests
      /\ v.status = "pending" /\ v.invite \in tokens
  BY JobFacts, JobShape DEF JoinPut, At, JobOK, JoinAt
<1>2. Idle \in Job /\ Idle.at = "idle"
  BY DEF Job, Idle
<1>3. JobOK(Idle, requests', tokens, listed)
  BY DEF Idle, JobOK, StoreAt, JoinAt, DecideAt
<1> QED
  BY <1>1, <1>2, <1>3, RequestPutKeeps DEF JoinPut, At

\* What a process knows of the request it is deciding.
LEMMA DecideFacts ==
  ASSUME IInv, NEW p \in Proc, job[p].at \in {"approvePutRequest", "rejectPut"},
         NEW st \in {"approved", "rejected"}
  PROVE  LET v == [job[p].doc EXCEPT !.status = st] IN
         /\ job[p] \in RequestJob /\ job[p].id \in DOMAIN requests
         /\ v \in Request /\ v.status = st
         /\ SameDevice(job[p].doc, v)
         /\ SameDevice(requests[job[p].id], v)
         /\ v.invite \in tokens
<1> DEFINE v == [job[p].doc EXCEPT !.status = st]
<1>1. /\ job[p] \in RequestJob /\ job[p].doc \in Request
      /\ job[p].id \in DOMAIN requests
      /\ SameDevice(job[p].doc, requests[job[p].id])
  BY JobFacts, JobShape DEF JobOK, DecideAt
<1>2. v \in Request /\ v.status = st /\ SameDevice(job[p].doc, v)
  BY <1>1 DEF Request, SameDevice
<1> HIDE DEF v
<1>3. SameDevice(requests[job[p].id], v)
  BY <1>1, <1>2 DEF SameDevice
<1>4. v.invite \in tokens
  BY <1>1, <1>3 DEF IInv, RequestsInvited, SameDevice
<1> QED
  BY <1>1, <1>2, <1>3, <1>4 DEF v

\* An approval decides a request whose device it has seen listed.
LEMMA ApprovePutRequestKeeps ==
  ASSUME IInv, NEW p \in Proc, ApprovePutRequest(p)
  PROVE  IInv'
<1> DEFINE r == job[p].id
           v == [job[p].doc EXCEPT !.status = "approved"]
           j == [job[p] EXCEPT !.at = "approvePutInvite"]
<1>1. /\ job[p] \in RequestJob /\ r \in DOMAIN requests
      /\ v \in Request /\ v.status = "approved"
      /\ SameDevice(job[p].doc, v)
      /\ SameDevice(requests[r], v)
      /\ v.invite \in tokens
  BY DecideFacts DEF ApprovePutRequest, At
<1>2. r \in RequestIds /\ r \in listed
  BY JobFacts, JobShape DEF ApprovePutRequest, At, JobOK, DecideAt
<1>3. /\ j \in RequestJob /\ j.at = "approvePutInvite"
      /\ j.id = r /\ j.doc = job[p].doc
  BY <1>1 DEF RequestJob
<1>4. requests' = Put(requests, r, v) /\ Goto(p, j)
  BY DEF ApprovePutRequest
<1> HIDE DEF v, j
<1>5. r \in DOMAIN requests' /\ requests'[r] = v
  BY <1>4 DEF Put
<1>6. JobOK(j, requests', tokens, listed)
  BY <1>1, <1>3, <1>5 DEF JobOK, StoreAt, JoinAt, DecideAt
<1>7. j \in Job
  BY <1>3 DEF Job
<1> QED
  BY <1>1, <1>2, <1>3, <1>4, <1>6, <1>7, RequestPutKeeps DEF ApprovePutRequest

\* enroll reject saves the request it has loaded, rejected.
LEMMA RejectPutKeeps ==
  ASSUME IInv, NEW p \in Proc, RejectPut(p)
  PROVE  IInv'
<1> DEFINE r == job[p].id
           v == [job[p].doc EXCEPT !.status = "rejected"]
<1>1. /\ r \in DOMAIN requests
      /\ v \in Request /\ v.status = "rejected"
      /\ SameDevice(requests[r], v)
      /\ v.invite \in tokens
  BY DecideFacts DEF RejectPut, At
<1>2. r \in RequestIds
  BY <1>1 DEF IInv, TypeOK, Documents
<1>3. requests' = Put(requests, r, v)
  BY DEF RejectPut
<1> HIDE DEF v
<1>4. Idle \in Job /\ Idle.at = "idle"
  BY DEF Job, Idle
<1>5. JobOK(Idle, requests', tokens, listed)
  BY DEF Idle, JobOK, StoreAt, JoinAt, DecideAt
<1> QED
  BY <1>1, <1>2, <1>3, <1>4, <1>5, RequestPutKeeps DEF RejectPut

-----------------------------------------------------------------------------
(***************************************************************************)
(* The steps that write no document.                                       *)
(***************************************************************************)

\* A command ends, for one reason or another, without writing a document.
LEMMA EndKeeps ==
  ASSUME IInv, NEW p \in Proc, Goto(p, Idle),
         UNCHANGED objects, UNCHANGED listed,
         tokens \subseteq tokens', tokens' \subseteq DOMAIN invites,
         expired' = expired, configured' \subseteq Proc, aborts' \in 0..MaxAborts
  PROVE  IInv'
<1>1. Idle \in Job
  BY DEF Job
<1>2. /\ job' \in [Proc -> Job] /\ job'[p] = Idle
      /\ \A q \in Proc : q # p => job'[q] = job[q]
  BY <1>1, GotoJob DEF IInv
<1>3. TypeOK'
  BY <1>2 DEF IInv, TypeOK, objects, Documents
<1>4. NewIdOK(Idle) /\ JobOK(Idle, requests, tokens', listed)
  BY DEF Idle, NewIdOK, JobOK, StoreAt, JoinAt, DecideAt
<1> QED
  BY <1>2, <1>3, <1>4, QuietKeeps

\* Steps that end a command and write nothing to the bucket.
LEMMA EndingsKeep ==
  ASSUME IInv, NEW p \in Proc, InitConfig(p) \/ InvitePrint(p) \/ Abort(p)
  PROVE  IInv'
<1>1. tokens \subseteq DOMAIN invites /\ aborts \in 0..MaxAborts /\ configured \subseteq Proc
  BY DEF IInv, TokensSaved, TypeOK
<1>2. CASE InitConfig(p)
  BY <1>1, <1>2, EndKeeps DEF InitConfig
<1>3. CASE InvitePrint(p)
  <2>1. job[p].invite \in DOMAIN invites
    BY <1>3 DEF InvitePrint, IInv, TokensSaved
  <2> QED
    BY <1>1, <1>3, <2>1, EndKeeps DEF InvitePrint
<1>4. CASE Abort(p)
  <2>1. aborts' \in 0..MaxAborts
    BY <1>1, <1>4, EnrollmentAssumption DEF Abort
  <2> QED
    BY <1>1, <1>4, <2>1, EndKeeps DEF Abort
<1> QED
  BY <1>2, <1>3, <1>4

\* The environment: a clone of the repository, time, and nothing at all.
LEMMA EnvironmentKeeps ==
  ASSUME IInv,
         \/ \E p \in Proc : Clone(p)
         \/ \E i \in InviteIds : Expire(i)
         \/ UNCHANGED vars
  PROVE  IInv'
<1>1. UNCHANGED <<recipients, invites, requests, tokens, job, aborts, listed>>
  BY DEF Clone, Expire, objects, vars
<1>2. configured' \subseteq Proc /\ expired' \subseteq InviteIds
  BY DEF Clone, Expire, IInv, TypeOK, Documents, vars
<1>3. TypeOK'
  BY <1>1, <1>2 DEF IInv, TypeOK, Documents
<1>4. tokens' \subseteq DOMAIN invites
  BY <1>1 DEF IInv, TokensSaved
<1> QED
  BY <1>1, <1>3, <1>4, QuietKeeps DEF objects

-----------------------------------------------------------------------------
(***************************************************************************)
(* The theorems.                                                           *)
(***************************************************************************)
LEMMA InitIInv == Init => IInv
<1> SUFFICES ASSUME Init PROVE IInv
  OBVIOUS
<1>1. TypeOK
  BY InitTypeOK
<1>2. NoDuplicateRecipients /\ Provenance
  BY DEF Init, NoDuplicateRecipients, NoDuplicates, Provenance, Traced
<1>3. UsedInviteSettled /\ ApprovedWasListed /\ RequestsInvited
  BY DEF Init, UsedInviteSettled, ApprovedWasListed, RequestsInvited
<1>4. JobsOK
  BY DEF Init, JobsOK, Idle, JobOK, StoreAt, JoinAt, DecideAt
<1>5. FreshIds /\ TokensSaved
  BY DEF Init, FreshIds, TokensSaved, Idle, At
<1> QED
  BY <1>1, <1>2, <1>3, <1>4, <1>5 DEF IInv

\* The first step of every command.
LEMMA BeginKeeps ==
  ASSUME IInv, NEW p \in Proc, Begin(p)
  PROVE  IInv'
<1>1. CASE InitLoad(p)
  BY <1>1, InitLoadKeeps
<1>2. CASE AddLoad(p)
  BY <1>2, AddLoadKeeps
<1>3. CASE RemoveLoad(p)
  BY <1>3, RemoveLoadKeeps
<1>4. CASE NewInvite(p)
  BY <1>4, NewInviteKeeps
<1>5. CASE JoinLoad(p)
  BY <1>5, JoinLoadKeeps
<1>6. CASE ApproveLoad(p)
  BY <1>6, RequestLoadKeeps DEF ApproveLoad
<1>7. CASE RejectLoad(p)
  BY <1>7, RequestLoadKeeps DEF RejectLoad
<1> QED
  BY <1>1, <1>2, <1>3, <1>4, <1>5, <1>6, <1>7 DEF Begin

\* The later steps.
LEMMA ContinueKeeps ==
  ASSUME IInv, NEW p \in Proc, Continue(p)
  PROVE  IInv'
<1>1. CASE InitPut(p)
  BY <1>1, InitPutKeeps
<1>2. CASE InitConfig(p)
  BY <1>2, EndingsKeep
<1>3. CASE RecipientsPut(p)
  BY <1>3, RecipientsPutKeeps
<1>4. CASE InvitePut(p)
  BY <1>4, InvitePutStepKeeps
<1>5. CASE InvitePrint(p)
  BY <1>5, EndingsKeep
<1>6. CASE JoinList(p)
  BY <1>6, JoinListKeeps
<1>7. CASE JoinScan(p)
  BY <1>7, JoinScanKeeps
<1>8. CASE JoinDecide(p)
  BY <1>8, JoinDecideKeeps
<1>9. CASE JoinPut(p)
  BY <1>9, JoinPutKeeps
<1>10. CASE ApproveInvite(p)
  BY <1>10, ApproveInviteKeeps
<1>11. CASE ApproveRecipients(p)
  BY <1>11, ApproveRecipientsKeeps
<1>12. CASE ApprovePutRecipients(p)
  BY <1>12, ApprovePutRecipientsKeeps
<1>13. CASE ApprovePutRequest(p)
  BY <1>13, ApprovePutRequestKeeps
<1>14. CASE ApprovePutInvite(p)
  BY <1>14, ApprovePutInviteKeeps
<1>15. CASE RejectPut(p)
  BY <1>15, RejectPutKeeps
<1> QED
  BY <1>1, <1>2, <1>3, <1>4, <1>5, <1>6, <1>7, <1>8, <1>9, <1>10, <1>11,
     <1>12, <1>13, <1>14, <1>15 DEF Continue

\* Every step keeps the inductive invariant.
LEMMA StepIInv == IInv /\ [Next]_vars => IInv'
<1> SUFFICES ASSUME IInv, [Next]_vars PROVE IInv'
  OBVIOUS
<1>1. ASSUME NEW p \in Proc, Begin(p) PROVE IInv'
  BY <1>1, BeginKeeps
<1>2. ASSUME NEW p \in Proc, Continue(p) PROVE IInv'
  BY <1>2, ContinueKeeps
<1>3. ASSUME NEW p \in Proc, Abort(p) PROVE IInv'
  BY <1>3, EndingsKeep
<1>4. ASSUME NEW p \in Proc, Clone(p) PROVE IInv'
  BY <1>4, EnvironmentKeeps
<1>5. ASSUME NEW i \in InviteIds, Expire(i) PROVE IInv'
  BY <1>5, EnvironmentKeeps
<1>6. CASE UNCHANGED vars
  BY <1>6, EnvironmentKeeps
<1> QED
  BY <1>1, <1>2, <1>3, <1>4, <1>5, <1>6 DEF Next

\* The invariant holds of every state the commands can reach.
THEOREM Invariance == Spec => []IInv
BY InitIInv, StepIInv, PTL DEF Spec

\* Every document and every job in flight has its type.
THEOREM TypeCorrect == Spec => []TypeOK
<1>1. IInv => TypeOK
  BY DEF IInv
<1> QED
  BY <1>1, Invariance, PTL

\* recipients.json never lists a name, a key or a fingerprint twice: Store.Add
\* checks the copy it was given, and no other command writes a longer one.
THEOREM NoDuplicatesEver == Spec => []NoDuplicateRecipients
<1>1. IInv => NoDuplicateRecipients
  BY DEF IInv
<1> QED
  BY <1>1, Invariance, PTL

\* Enrollment adds only devices that were given the token of an invite.
THEOREM EnrolledByToken == Spec => []Provenance
<1>1. IInv => Provenance
  BY DEF IInv
<1> QED
  BY <1>1, Invariance, PTL

\* A used invite names a decided request of its own.
THEOREM UsedMeansSettled == Spec => []UsedInviteSettled
<1>1. IInv => UsedInviteSettled
  BY DEF IInv
<1> QED
  BY <1>1, Invariance, PTL

\* An approved request has had its device listed in recipients.json.
THEOREM ApprovedMeansListed == Spec => []ApprovedWasListed
<1>1. IInv => ApprovedWasListed
  BY DEF IInv
<1> QED
  BY <1>1, Invariance, PTL

-----------------------------------------------------------------------------
(***************************************************************************)
(* The action property: what a write may do to the document it replaces.   *)
(***************************************************************************)
LEMMA KeepAdvances ==
  ASSUME UNCHANGED <<invites, requests>>
  PROVE  Advance
BY DEF Advance

\* A new request, or a decision on the same device.
LEMMA RequestPutAdvances ==
  ASSUME NEW r, NEW v, requests' = Put(requests, r, v), UNCHANGED invites,
         r \in DOMAIN requests => SameDevice(requests[r], v) /\ v.status # "pending"
  PROVE  Advance
BY DEF Advance, Put, SameDevice

\* A new invite, or one that is used up.
LEMMA InvitePutAdvances ==
  ASSUME NEW i, NEW v, invites' = Put(invites, i, v), UNCHANGED requests,
         i \in DOMAIN invites => v.status # "active"
  PROVE  Advance
BY DEF Advance, Put

\* The first steps, interruptions and clones save no invite or request.
LEMMA BeginAdvances ==
  ASSUME NEW p \in Proc, Begin(p) \/ Abort(p) \/ Clone(p)
  PROVE  Advance
<1>1. UNCHANGED objects
  BY DEF Begin, InitLoad, AddLoad, RemoveLoad, NewInvite, JoinLoad, ApproveLoad,
         RejectLoad, Abort, Clone
<1> QED
  BY <1>1, KeepAdvances DEF objects

\* The later steps save them as the two lemmas above allow.
LEMMA ContinueAdvances ==
  ASSUME IInv, NEW p \in Proc, Continue(p)
  PROVE  Advance
<1>1. CASE InvitePut(p)
  <2>1. job[p].invite \notin DOMAIN invites
    BY <1>1 DEF InvitePut, IInv, FreshIds
  <2> QED
    BY <1>1, <2>1, InvitePutAdvances DEF InvitePut
<1>2. CASE ApprovePutInvite(p)
  <2> DEFINE v == [status |-> "used", usedBy |-> job[p].id]
  <2>1. v.status # "active"
    OBVIOUS
  <2>2. invites' = Put(invites, job[p].doc.invite, v) /\ UNCHANGED requests
    BY <1>2 DEF ApprovePutInvite
  <2> HIDE DEF v
  <2> QED
    BY <2>1, <2>2, InvitePutAdvances
<1>3. CASE JoinPut(p)
  <2>1. job[p].id \notin DOMAIN requests
    BY <1>3, JobFacts DEF JoinPut, At, JobOK
  <2> QED
    BY <1>3, <2>1, RequestPutAdvances DEF JoinPut
<1>4. CASE ApprovePutRequest(p)
  <2> DEFINE v == [job[p].doc EXCEPT !.status = "approved"]
  <2>1. SameDevice(requests[job[p].id], v) /\ v.status = "approved"
    BY <1>4, DecideFacts DEF ApprovePutRequest, At
  <2>2. requests' = Put(requests, job[p].id, v) /\ UNCHANGED invites
    BY <1>4 DEF ApprovePutRequest
  <2> HIDE DEF v
  <2> QED
    BY <2>1, <2>2, RequestPutAdvances
<1>5. CASE RejectPut(p)
  <2> DEFINE v == [job[p].doc EXCEPT !.status = "rejected"]
  <2>1. SameDevice(requests[job[p].id], v) /\ v.status = "rejected"
    BY <1>5, DecideFacts DEF RejectPut, At
  <2>2. requests' = Put(requests, job[p].id, v) /\ UNCHANGED invites
    BY <1>5 DEF RejectPut
  <2> HIDE DEF v
  <2> QED
    BY <2>1, <2>2, RequestPutAdvances
<1>6. CASE ~( \/ InvitePut(p) \/ ApprovePutInvite(p) \/ JoinPut(p)
              \/ ApprovePutRequest(p) \/ RejectPut(p))
  <2>1. UNCHANGED <<invites, requests>>
    BY <1>6 DEF Continue, InitPut, InitConfig, RecipientsPut, InvitePrint, JoinList,
       JoinScan, JoinDecide, ApproveInvite, ApproveRecipients, ApprovePutRecipients,
       objects
  <2> QED
    BY <2>1, KeepAdvances
<1> QED
  BY <1>1, <1>2, <1>3, <1>4, <1>5, <1>6

\* Every step of every command advances the documents.
LEMMA StepAdvances ==
  ASSUME IInv, Next
  PROVE  Advance
<1>1. ASSUME NEW p \in Proc, Begin(p) \/ Abort(p) \/ Clone(p) PROVE Advance
  BY <1>1, BeginAdvances
<1>2. ASSUME NEW p \in Proc, Continue(p) PROVE Advance
  BY <1>2, ContinueAdvances
<1>3. ASSUME NEW i \in InviteIds, Expire(i) PROVE Advance
  BY <1>3, KeepAdvances DEF Expire, objects
<1> QED
  BY <1>1, <1>2, <1>3 DEF Next

\* Requests keep their device and are not reopened; used invites stay used.
THEOREM OnlyAdvance == Spec => DocumentsOnlyAdvance
<1>1. IInv /\ [Next]_vars => [Advance]_vars
  BY StepAdvances
<1> QED
  BY <1>1, Invariance, PTL DEF Spec, DocumentsOnlyAdvance

-----------------------------------------------------------------------------
(***************************************************************************)
(* An approval that is not cut short burns its invite.                     *)
(***************************************************************************)

\* Every newly approved request has somebody who is about to burn its
\* invite, and nobody who is about to do so goes on without doing it.
LEMMA BurnKeeps ==
  ASSUME IInv, TypeOK', Advance, ApprovalBurnsInvite, aborts' = 0 => aborts = 0,
         \A r \in DOMAIN requests' : requests'[r].status = "approved" =>
           \/ r \in DOMAIN requests /\ requests[r].status = "approved"
           \/ \E p \in Proc : job'[p].at = "approvePutInvite" /\ job'[p].id = r,
         \A p \in Proc : At(p, "approvePutInvite") =>
           \/ job'[p] = job[p]
           \/ invites'[requests[job[p].id].invite].status = "used"
  PROVE  ApprovalBurnsInvite'
<1> SUFFICES ASSUME aborts' = 0, NEW r \in DOMAIN requests',
                    requests'[r].status = "approved"
             PROVE  \/ invites'[requests'[r].invite].status = "used"
                    \/ \E p \in Proc : job'[p].at = "approvePutInvite" /\ job'[p].id = r
  BY DEF ApprovalBurnsInvite, At
<1>1. CASE r \in DOMAIN requests /\ requests[r].status = "approved"
  <2>1. requests'[r].invite = requests[r].invite
    BY <1>1 DEF Advance
  <2>2. requests[r].invite \in DOMAIN invites
    BY <1>1 DEF IInv, RequestsInvited, TokensSaved
  <2>3. CASE invites[requests[r].invite].status = "used"
    <3>1. /\ requests[r].invite \in DOMAIN invites'
          /\ invites'[requests[r].invite].status # "active"
      BY <2>2, <2>3 DEF Advance
    <3>2. invites'[requests[r].invite] \in Invite
      BY <3>1 DEF TypeOK, Documents
    <3> QED
      BY <2>1, <3>1, <3>2 DEF Invite
  <2>4. ASSUME NEW p \in Proc, At(p, "approvePutInvite"), job[p].id = r
        PROVE  \/ invites'[requests'[r].invite].status = "used"
               \/ \E q \in Proc : job'[q].at = "approvePutInvite" /\ job'[q].id = r
    BY <2>1, <2>4 DEF At
  <2> QED
    BY <1>1, <2>3, <2>4 DEF ApprovalBurnsInvite
<1> QED
  BY <1>1

\* The steps that neither decide a request nor end an approval.
LEMMA BurnStays ==
  ASSUME IInv, TypeOK', Advance, ApprovalBurnsInvite, NEW p \in Proc, NEW j,
         ~At(p, "approvePutInvite"), Goto(p, j), UNCHANGED <<requests, aborts>>
  PROVE  ApprovalBurnsInvite'
<1>1. \A q \in Proc : q # p => job'[q] = job[q]
  BY DEF IInv, TypeOK, Goto
<1> QED
  BY <1>1, BurnKeeps DEF At

\* The steps that write a request or an invite, one by one.
LEMMA StepBurns ==
  ASSUME IInv, ApprovalBurnsInvite, [Next]_vars
  PROVE  ApprovalBurnsInvite'
<1>1. TypeOK'
  BY StepIInv DEF IInv
<1>2. Next => Advance
  BY StepAdvances
<1>3. job \in [Proc -> Job] /\ aborts \in Nat
  BY EnrollmentAssumption DEF IInv, TypeOK
<1>4. ASSUME NEW p \in Proc, Begin(p) PROVE ApprovalBurnsInvite'
  <2>1. (\E j : Goto(p, j)) /\ At(p, "idle")
    BY <1>4 DEF Begin, InitLoad, AddLoad, RemoveLoad, NewInvite, JoinLoad, ApproveLoad,
       RejectLoad, Start
  <2>2. UNCHANGED <<requests, aborts>>
    BY <1>4 DEF Begin, InitLoad, AddLoad, RemoveLoad, NewInvite, JoinLoad, ApproveLoad,
       RejectLoad, objects, Rest
  <2> QED
    BY <1>1, <1>2, <1>4, <2>1, <2>2, BurnStays DEF Next, At
<1>5. ASSUME NEW p \in Proc,
             \/ InitPut(p) \/ InitConfig(p) \/ RecipientsPut(p)
             \/ InvitePut(p) \/ InvitePrint(p)
             \/ JoinList(p) \/ JoinScan(p) \/ JoinDecide(p)
             \/ ApproveInvite(p) \/ ApproveRecipients(p) \/ ApprovePutRecipients(p)
      PROVE  ApprovalBurnsInvite'
  <2>1. (\E j : Goto(p, j)) /\ ~At(p, "approvePutInvite")
    BY <1>5 DEF InitPut, InitConfig, RecipientsPut, InvitePut, InvitePrint, JoinList,
       JoinScan, JoinDecide, ApproveInvite, ApproveRecipients, ApprovePutRecipients, At
  <2>2. UNCHANGED <<requests, aborts>>
    BY <1>5 DEF InitPut, InitConfig, RecipientsPut, InvitePut, InvitePrint, JoinList,
       JoinScan, JoinDecide, ApproveInvite, ApproveRecipients, ApprovePutRecipients,
       objects, Rest
  <2> QED
    BY <1>1, <1>2, <1>5, <2>1, <2>2, BurnStays DEF Next, Continue
<1>6. ASSUME NEW p \in Proc, JoinPut(p) PROVE ApprovalBurnsInvite'
  <2>1. job[p].doc.status = "pending" /\ requests' = Put(requests, job[p].id, job[p].doc)
    BY <1>6, JobFacts DEF JoinPut, At, JobOK, JoinAt
  <2>2. \A r \in DOMAIN requests' : requests'[r].status = "approved" =>
          r \in DOMAIN requests /\ requests[r].status = "approved"
    BY <2>1 DEF Put
  <2>3. \A q \in Proc : At(q, "approvePutInvite") => job'[q] = job[q]
    BY <1>3, <1>6 DEF JoinPut, Goto, At
  <2> QED
    BY <1>1, <1>2, <1>6, <2>2, <2>3, BurnKeeps DEF JoinPut, Rest, Next, Continue
<1>7. ASSUME NEW p \in Proc, RejectPut(p) PROVE ApprovalBurnsInvite'
  <2> DEFINE v == [job[p].doc EXCEPT !.status = "rejected"]
  <2>1. v.status = "rejected"
    BY <1>7, DecideFacts DEF RejectPut, At
  <2>2. requests' = Put(requests, job[p].id, v)
    BY <1>7 DEF RejectPut
  <2> HIDE DEF v
  <2>3. \A r \in DOMAIN requests' : requests'[r].status = "approved" =>
          r \in DOMAIN requests /\ requests[r].status = "approved"
    BY <2>1, <2>2 DEF Put
  <2>4. \A q \in Proc : At(q, "approvePutInvite") => job'[q] = job[q]
    BY <1>3, <1>7 DEF RejectPut, Goto, At
  <2> QED
    BY <1>1, <1>2, <1>7, <2>3, <2>4, BurnKeeps DEF RejectPut, Rest, Next, Continue
<1>8. ASSUME NEW p \in Proc, ApprovePutRequest(p) PROVE ApprovalBurnsInvite'
  <2> DEFINE r == job[p].id
  <2>1. \A x \in DOMAIN requests' : x # r => x \in DOMAIN requests /\ requests'[x] = requests[x]
    BY <1>8 DEF ApprovePutRequest, Put
  <2>2. job[p] \in RequestJob
    BY <1>8, JobFacts, JobShape DEF ApprovePutRequest, At, DecideAt
  <2>3. job'[p].at = "approvePutInvite" /\ job'[p].id = r
    BY <1>3, <1>8, <2>2 DEF ApprovePutRequest, Goto, RequestJob
  <2>4. \A q \in Proc : At(q, "approvePutInvite") => job'[q] = job[q]
    BY <1>3, <1>8 DEF ApprovePutRequest, Goto, At
  <2> QED
    BY <1>1, <1>2, <1>8, <2>1, <2>3, <2>4, BurnKeeps DEF ApprovePutRequest, Rest, Next, Continue
<1>9. ASSUME NEW p \in Proc, ApprovePutInvite(p) PROVE ApprovalBurnsInvite'
  <2>1. requests[job[p].id].invite = job[p].doc.invite
    BY <1>9, JobFacts DEF ApprovePutInvite, At, JobOK, DecideAt, SameDevice
  <2>2. invites'[job[p].doc.invite].status = "used"
    BY <1>9 DEF ApprovePutInvite, Put
  <2>3. \A q \in Proc : q # p => job'[q] = job[q]
    BY <1>3, <1>9 DEF ApprovePutInvite, Goto
  <2> QED
    BY <1>1, <1>2, <1>9, <2>1, <2>2, <2>3, BurnKeeps DEF ApprovePutInvite, Rest, Next, Continue
<1>10. ASSUME NEW p \in Proc, Abort(p) PROVE ApprovalBurnsInvite'
  BY <1>3, <1>10 DEF Abort, ApprovalBurnsInvite
<1>11. ASSUME UNCHANGED <<invites, requests, job, aborts>> PROVE ApprovalBurnsInvite'
  BY <1>11 DEF ApprovalBurnsInvite, At
<1> QED
  BY <1>4, <1>5, <1>6, <1>7, <1>8, <1>9, <1>10, <1>11
     DEF Next, Continue, Clone, Expire, objects, vars

\* The invite of an approved request is used, or about to be, as long as no
\* command has been cut short: runEnrollApprove writes the invite last, and
\* no other write of an invite or a request undoes what it has written.
THEOREM ApprovalBurns == Spec => []ApprovalBurnsInvite
<1>1. Init => ApprovalBurnsInvite
  BY DEF Init, ApprovalBurnsInvite
<1> QED
  BY <1>1, StepBurns, Invariance, PTL DEF Spec

=============================================================================
