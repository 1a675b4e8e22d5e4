---------------------------- MODULE HistoryProofs ----------------------------
(***************************************************************************)
(* What concurrent commands can do to each other's changes, for any number *)
(* of processes: proofs about EnrollmentHistory.                           *)
(***************************************************************************)
EXTENDS EnrollmentHistory, EnrollmentProofs

-----------------------------------------------------------------------------
(***************************************************************************)
(* One change to a document.                                               *)
(***************************************************************************)

\* An addition that is skipped when the entry is there already.
LEMMA AddIsOneChange ==
  ASSUME NEW s \in Store, NEW t, NEW r \in Recipient,
         t = s \/ (~Duplicate(s, r) /\ t = Add(s, r))
  PROVE  OneChange(s, t)
<1>1. ASSUME t = Add(s, r) PROVE Len(s) + 1 \in DOMAIN t /\ t[Len(s) + 1] = r
  BY <1>1, AddProperties
<1> QED
  BY <1>1 DEF OneChange

\* One change does not make a key active that the document lists as revoked.
LEMMA OneChangeRevoked ==
  ASSUME NEW s \in Store, NoDuplicates(s), NEW t \in Store, OneChange(s, t)
  PROVE  RevokedIn(s, t)
<1>1. \A i \in DOMAIN t : t[i] \in Recipient
  BY DEF Store
<1> QED
  BY <1>1, SelfRevoked, AddRevoked, RemoveRevoked DEF OneChange

-----------------------------------------------------------------------------
(***************************************************************************)
(* The document a command has loaded.                                      *)
(***************************************************************************)

\* A step of process q leaves the jobs of the others alone.
LEMMA OthersWait ==
  ASSUME IInv, NEW q \in Proc, Begin(q) \/ Continue(q) \/ Abort(q) \/ Clone(q),
         NEW p \in Proc, p # q
  PROVE  job'[p] = job[p]
<1>1. UNCHANGED job \/ \E j : Goto(q, j)
  BY DEF Begin, Continue, InitLoad, AddLoad, RemoveLoad, NewInvite, JoinLoad,
     ApproveLoad, RejectLoad, InitPut, InitConfig, RecipientsPut, InvitePut,
     InvitePrint, JoinList, JoinScan, JoinDecide, JoinPut, ApproveInvite,
     ApproveRecipients, ApprovePutRecipients, ApprovePutRequest,
     ApprovePutInvite, RejectPut, Abort, Clone
<1> QED
  BY <1>1 DEF IInv, TypeOK, Goto

\* The steps after which a command holds no document to save.
LEMMA OtherSteps ==
  ASSUME IInv, NEW p \in Proc,
         \/ NewInvite(p) \/ JoinLoad(p) \/ ApproveLoad(p) \/ RejectLoad(p)
         \/ InitPut(p) \/ InitConfig(p) \/ RecipientsPut(p)
         \/ InvitePut(p) \/ InvitePrint(p)
         \/ JoinList(p) \/ JoinScan(p) \/ JoinDecide(p) \/ JoinPut(p)
         \/ ApproveInvite(p) \/ ApprovePutRecipients(p)
         \/ ApprovePutRequest(p) \/ ApprovePutInvite(p) \/ RejectPut(p)
         \/ Abort(p)
  PROVE  job'[p].at \notin StoreAt
<1>1. ASSUME NEW j, Goto(p, j) PROVE job'[p] = j
  BY <1>1 DEF IInv, TypeOK, Goto
<1>2. ASSUME Goto(p, Idle) PROVE job'[p].at \notin StoreAt
  BY <1>1, <1>2 DEF Idle, StoreAt
<1>3. CASE \/ InitConfig(p) \/ RecipientsPut(p) \/ InvitePrint(p) \/ JoinPut(p)
           \/ ApprovePutInvite(p) \/ RejectPut(p) \/ Abort(p)
  BY <1>2, <1>3 DEF InitConfig, RecipientsPut, InvitePrint, JoinPut,
     ApprovePutInvite, RejectPut, Abort
<1>4. CASE NewInvite(p)
  BY <1>1, <1>4 DEF NewInvite, StoreAt
<1>5. CASE JoinLoad(p)
  <2>1. PICK d : Goto(p, [at |-> "joinList", doc |-> d])
    BY <1>5 DEF JoinLoad
  <2> QED
    BY <1>1, <2>1 DEF StoreAt
<1>6. CASE ApproveLoad(p) \/ RejectLoad(p)
  <2>1. PICK a \in {"approveInvite", "rejectPut"}, r \in DOMAIN requests :
          Goto(p, [at |-> a, id |-> r, doc |-> requests[r]])
    BY <1>6 DEF ApproveLoad, RejectLoad
  <2> QED
    BY <1>1, <2>1 DEF StoreAt
<1>7. CASE InitPut(p) \/ JoinList(p) \/ ApprovePutRecipients(p)
  BY <1>1, <1>7 DEF InitPut, JoinList, ApprovePutRecipients, StoreAt
<1>8. CASE InvitePut(p)
  <2>1. job[p] \in InviteJob
    BY <1>8, JobFacts, JobShape DEF InvitePut, At
  <2>2. job'[p] = [job[p] EXCEPT !.at = "invitePrint"]
    BY <1>1, <1>8 DEF InvitePut
  <2> QED
    BY <2>1, <2>2 DEF InviteJob, StoreAt
<1>9. CASE JoinScan(p)
  <2>1. job[p] \in ScanJob
    BY <1>9, JobFacts, JobShape DEF JoinScan, At
  <2>2. PICK t, b : job'[p] = [job[p] EXCEPT !.todo = t, !.blocked = b]
    BY <1>1, <1>9 DEF JoinScan
  <2> QED
    BY <2>1, <2>2 DEF ScanJob, StoreAt
<1>10. CASE JoinDecide(p)
  <2>1. CASE Goto(p, Idle)
    BY <1>2, <2>1
  <2>2. CASE ~Goto(p, Idle)
    <3>1. PICK r, d : Goto(p, [at |-> "joinPut", id |-> r, doc |-> d])
      BY <1>10, <2>2 DEF JoinDecide
    <3> QED
      BY <1>1, <3>1 DEF StoreAt
  <2> QED
    BY <2>1, <2>2
<1>11. CASE ApproveInvite(p) \/ ApprovePutRequest(p)
  <2>1. job[p] \in RequestJob
    BY <1>11, JobFacts, JobShape DEF ApproveInvite, ApprovePutRequest, At, DecideAt
  <2>2. \/ Goto(p, Idle)
        \/ \E a \in {"approveRecipients", "approvePutInvite"} :
             Goto(p, [job[p] EXCEPT !.at = a])
    BY <1>11 DEF ApproveInvite, ApprovePutRequest
  <2> QED
    BY <1>1, <1>2, <2>1, <2>2 DEF RequestJob, StoreAt
<1> QED
  BY <1>3, <1>4, <1>5, <1>6, <1>7, <1>8, <1>9, <1>10, <1>11

\* A command that comes to hold a document has made one change to the
\* document in the bucket.
LEMMA LoadIsOneChange ==
  ASSUME IInv, Next, NEW p \in Proc, job'[p] # job[p], job'[p].at \in StoreAt
  PROVE  OneChange(recipients, job'[p].store)
<1>1. job \in [Proc -> Job] /\ recipients \in Store
  BY DEF IInv, TypeOK
<1>2. ASSUME NEW j, Goto(p, j) PROVE job'[p] = j
  BY <1>1, <1>2 DEF Goto
<1>3. CASE InitLoad(p)
  <2>1. PICK name \in Names \ {Blank}, key \in Keys :
          LET r == Entry(name, key, "local-init") IN
          Goto(p, [at |-> "initPut", key |-> key,
                   store |-> IF Duplicate(recipients, r) THEN recipients
                                                         ELSE Add(recipients, r)])
    BY <1>3 DEF InitLoad
  <2>2. PICK r : r = Entry(name, key, "local-init")
    OBVIOUS
  <2>3. r \in Recipient
    BY <2>2, EntryType DEF Origins
  <2>4. job'[p].store = IF Duplicate(recipients, r) THEN recipients ELSE Add(recipients, r)
    BY <1>2, <2>1, <2>2
  <2> QED
    BY <1>1, <2>3, <2>4, AddIsOneChange
<1>4. CASE AddLoad(p)
  <2>1. PICK name \in Names \ {Blank}, key \in Keys :
          LET r == Entry(name, key, "manual") IN
          /\ ~Duplicate(recipients, r)
          /\ Goto(p, [at |-> "putRecipients", store |-> Add(recipients, r)])
    BY <1>4 DEF AddLoad
  <2>2. PICK r : r = Entry(name, key, "manual")
    OBVIOUS
  <2>3. r \in Recipient
    BY <2>2, EntryType DEF Origins
  <2>4. ~Duplicate(recipients, r) /\ job'[p].store = Add(recipients, r)
    BY <1>2, <2>1, <2>2
  <2> QED
    BY <1>1, <2>3, <2>4, AddIsOneChange
<1>5. CASE RemoveLoad(p)
  <2>1. PICK i \in DOMAIN recipients :
          \/ Goto(p, [at |-> "putRecipients", store |-> Revoke(recipients, i)])
          \/ Goto(p, [at |-> "putRecipients", store |-> Delete(recipients, i)])
    BY <1>5 DEF RemoveLoad
  <2>2. job'[p].store = Revoke(recipients, i) \/ job'[p].store = Delete(recipients, i)
    BY <1>2, <2>1
  <2> QED
    BY <2>2 DEF OneChange
<1>6. CASE ApproveRecipients(p)
  <2>1. PICK e : e = Entry(job[p].doc.name, job[p].doc.key, job[p].id)
    OBVIOUS
  <2>2. e \in Recipient
    <3>1. job[p].id \in RequestIds /\ job[p].doc \in Request
      BY <1>6, JobFacts, JobShape DEF ApproveRecipients, At, DecideAt
    <3> QED
      BY <2>1, <3>1, EntryType DEF Origins, Request
  <2>3. ~Goto(p, Idle)
    BY <1>2 DEF Idle, StoreAt
  <2>4. PICK s \in Grant(recipients, e) :
          Goto(p, [at |-> "approvePutRecipients", id |-> job[p].id,
                   doc |-> job[p].doc, store |-> s])
    BY <1>6, <2>1, <2>3 DEF ApproveRecipients
  <2>5. job'[p].store = s
    BY <1>2, <2>4
  <2>6. s = recipients \/ (~Duplicate(recipients, e) /\ s = Add(recipients, e))
    BY <2>4 DEF Grant
  <2> QED
    BY <1>1, <2>2, <2>5, <2>6, AddIsOneChange
<1>7. PICK q \in Proc : Begin(q) \/ Continue(q) \/ Abort(q) \/ Clone(q)
  BY DEF Next, Expire
<1>8. q = p
  BY <1>7, OthersWait
<1>9. InitLoad(p) \/ AddLoad(p) \/ RemoveLoad(p) \/ ApproveRecipients(p)
  BY <1>7, <1>8, OtherSteps DEF Begin, Continue, Clone
<1> QED
  BY <1>3, <1>4, <1>5, <1>6, <1>9

\* A process that goes on from the PUT of a recipients document has saved it,
\* unless its command was cut short.
LEMMA SavesStore ==
  ASSUME IInv, Next, NEW p \in Proc, Saves(p)
  PROVE  recipients' = job[p].store
<1>1. PICK q \in Proc : Begin(q) \/ Continue(q) \/ Abort(q) \/ Clone(q)
  BY DEF Next, Expire, Saves
<1>2. q = p
  BY <1>1, OthersWait DEF Saves
<1>3. ~Begin(p) /\ ~Clone(p)
  BY DEF Saves, StoreAt, Begin, InitLoad, AddLoad, RemoveLoad, NewInvite, JoinLoad,
     ApproveLoad, RejectLoad, Start, Clone, At
<1>4. ~Abort(p)
  <2>1. aborts \in Nat
    BY EnrollmentAssumption DEF IInv, TypeOK
  <2>2. ASSUME Abort(p) PROVE aborts' = aborts + 1
    BY <2>2 DEF Abort
  <2> QED
    BY <2>1, <2>2 DEF Saves
<1>5. InitPut(p) \/ RecipientsPut(p) \/ ApprovePutRecipients(p)
  BY <1>1, <1>2, <1>3, <1>4 DEF Saves, StoreAt, Continue, InitConfig, InvitePut,
     InvitePrint, JoinList, JoinScan, JoinDecide, JoinPut, ApproveInvite,
     ApproveRecipients, ApprovePutRequest, ApprovePutInvite, RejectPut, At
<1> QED
  BY <1>5 DEF InitPut, RecipientsPut, ApprovePutRecipients, PutRecipients

\* A document about to be saved stays one change away from the one loaded.
LEMMA StepBaseOK ==
  ASSUME IInv, HTypeOK, BaseOK, Next, Remember
  PROVE  BaseOK'
<1> SUFFICES ASSUME NEW p \in Proc, job'[p].at \in StoreAt
             PROVE  NoDuplicates(base'[p]) /\ OneChange(base'[p], job'[p].store)
  BY DEF BaseOK
<1>1. CASE job'[p] = job[p]
  BY <1>1 DEF Remember, BaseOK
<1>2. CASE job'[p] # job[p]
  <2>1. base'[p] = recipients
    BY <1>2 DEF Remember
  <2> QED
    BY <1>2, <2>1, LoadIsOneChange DEF IInv, NoDuplicateRecipients
<1> QED
  BY <1>1, <1>2

-----------------------------------------------------------------------------
(***************************************************************************)
(* The requests a join has listed.                                         *)
(***************************************************************************)

\* A request that does not block a join does not come to block it.
LEMMA UnblockedStays ==
  ASSUME Advance, NEW r \in DOMAIN requests, NEW d, ~Blocks(requests[r], d)
  PROVE  r \in DOMAIN requests' /\ ~Blocks(requests'[r], d)
BY DEF Advance, Blocks

\* No command begins in the middle of a join.
LEMMA BeginGoes ==
  ASSUME NEW p \in Proc, Begin(p)
  PROVE  \E j : Goto(p, j) /\ j.at \notin {"joinScan", "joinPut"}
<1>1. CASE InitLoad(p)
  <2>1. PICK k, s : Goto(p, [at |-> "initPut", key |-> k, store |-> s])
    BY <1>1 DEF InitLoad
  <2> QED
    BY <2>1
<1>2. CASE AddLoad(p) \/ RemoveLoad(p)
  <2>1. PICK s : Goto(p, [at |-> "putRecipients", store |-> s])
    BY <1>2 DEF AddLoad, RemoveLoad
  <2> QED
    BY <2>1
<1>3. CASE NewInvite(p)
  <2>1. PICK i : Goto(p, [at |-> "invitePut", invite |-> i])
    BY <1>3 DEF NewInvite
  <2> QED
    BY <2>1
<1>4. CASE JoinLoad(p)
  <2>1. PICK d : Goto(p, [at |-> "joinList", doc |-> d])
    BY <1>4 DEF JoinLoad
  <2> QED
    BY <2>1
<1>5. CASE ApproveLoad(p) \/ RejectLoad(p)
  <2>1. PICK a \in {"approveInvite", "rejectPut"}, r \in DOMAIN requests :
          Goto(p, [at |-> a, id |-> r, doc |-> requests[r]])
    BY <1>5 DEF ApproveLoad, RejectLoad
  <2> QED
    BY <2>1
<1> QED
  BY <1>1, <1>2, <1>3, <1>4, <1>5 DEF Begin

\* The step by which the job of a join becomes or stays unblocked.
LEMMA UnblockedStep ==
  ASSUME IInv, Next, NEW p \in Proc, Unblocked(job'[p])
  PROVE  \/ job'[p] = job[p]
         \/ JoinList(p)
         \/ JoinScan(p)
         \/ JoinDecide(p)
<1>1. ASSUME NEW j, Goto(p, j) PROVE job'[p] = j
  BY <1>1 DEF IInv, TypeOK, Goto
<1>2. SUFFICES ASSUME job'[p] # job[p], ~JoinList(p), ~JoinScan(p), ~JoinDecide(p)
               PROVE  FALSE
  OBVIOUS
<1>3. PICK q \in Proc : Begin(q) \/ Continue(q) \/ Abort(q) \/ Clone(q)
  BY <1>2 DEF Next, Expire
<1>4. q = p
  BY <1>2, <1>3, OthersWait
<1>5. job'[p].at \in {"joinScan", "joinPut"}
  BY DEF Unblocked
<1>6. ~Begin(p) /\ ~Clone(p) /\ ~Abort(p)
  <2>1. ~Begin(p)
    BY <1>1, <1>5, BeginGoes
  <2>2. ~Clone(p)
    BY <1>2 DEF Clone
  <2>3. ~Abort(p)
    BY <1>1, <1>5 DEF Abort, Idle
  <2> QED
    BY <2>1, <2>2, <2>3
<1>7. \/ InitPut(p) \/ InitConfig(p) \/ RecipientsPut(p) \/ InvitePut(p) \/ InvitePrint(p)
      \/ JoinPut(p) \/ ApproveInvite(p) \/ ApproveRecipients(p)
      \/ ApprovePutRecipients(p) \/ ApprovePutRequest(p) \/ ApprovePutInvite(p)
      \/ RejectPut(p)
  BY <1>2, <1>3, <1>4, <1>6 DEF Continue
<1>8. ~Goto(p, Idle)
  BY <1>1, <1>5 DEF Idle
<1>9. CASE \/ InitConfig(p) \/ RecipientsPut(p) \/ InvitePrint(p) \/ JoinPut(p)
           \/ ApprovePutInvite(p) \/ RejectPut(p)
  BY <1>8, <1>9 DEF InitConfig, RecipientsPut, InvitePrint, JoinPut, ApprovePutInvite, RejectPut
<1>10. CASE InitPut(p) \/ ApprovePutRecipients(p)
  BY <1>1, <1>5, <1>10 DEF InitPut, ApprovePutRecipients
<1>11. CASE ApproveRecipients(p)
  <2>1. PICK s : Goto(p, [at |-> "approvePutRecipients", id |-> job[p].id,
                          doc |-> job[p].doc, store |-> s])
    BY <1>8, <1>11 DEF ApproveRecipients
  <2> QED
    BY <1>1, <1>5, <2>1
<1>12. CASE InvitePut(p)
  <2>1. job[p] \in InviteJob
    BY <1>12, JobFacts, JobShape DEF InvitePut, At
  <2>2. job'[p] = [job[p] EXCEPT !.at = "invitePrint"]
    BY <1>1, <1>12 DEF InvitePut
  <2> QED
    BY <1>5, <2>1, <2>2 DEF InviteJob
<1>13. CASE ApproveInvite(p) \/ ApprovePutRequest(p)
  <2>1. job[p] \in RequestJob
    BY <1>13, JobFacts, JobShape DEF ApproveInvite, ApprovePutRequest, At, DecideAt
  <2>2. \E a \in {"approveRecipients", "approvePutInvite"} :
          Goto(p, [job[p] EXCEPT !.at = a])
    BY <1>8, <1>13 DEF ApproveInvite, ApprovePutRequest
  <2> QED
    BY <1>1, <1>5, <2>1, <2>2 DEF RequestJob
<1> QED
  BY <1>7, <1>9, <1>10, <1>11, <1>12, <1>13

\* A join stays right about the requests it has passed.
LEMMA StepCountOK ==
  ASSUME IInv, HTypeOK, CountOK, Next, Count
  PROVE  CountOK'
<1> SUFFICES ASSUME NEW p \in Proc, Unblocked(job'[p])
             PROVE  /\ counted'[p] \subseteq DOMAIN requests'
                    /\ \A r \in Passed(p)' : ~Blocks(requests'[r], job'[p].doc)
  BY DEF CountOK
<1>1. Advance
  BY StepAdvances
<1>2. ASSUME NEW j, Goto(p, j) PROVE job'[p] = j
  BY <1>2 DEF IInv, TypeOK, Goto
<1>3. CASE job'[p] = job[p]
  <2>1. ~At(p, "joinList")
    BY <1>3 DEF Unblocked, At
  <2>2. counted'[p] = counted[p] /\ Passed(p)' = Passed(p)
    BY <1>3, <2>1 DEF Count, Passed, At
  <2>3. /\ counted[p] \subseteq DOMAIN requests
        /\ \A r \in Passed(p) : ~Blocks(requests[r], job[p].doc)
    BY <1>3 DEF CountOK
  <2>4. Passed(p) \subseteq counted[p]
    BY DEF Passed
  <2> QED
    BY <1>1, <1>3, <2>2, <2>3, <2>4, UnblockedStays DEF Advance
<1>4. CASE JoinList(p)
  <2>1. job'[p] = [at |-> "joinScan", doc |-> job[p].doc,
                   todo |-> DOMAIN requests, blocked |-> FALSE]
    BY <1>2, <1>4 DEF JoinList
  <2>2. counted'[p] = DOMAIN requests
    BY <1>4 DEF JoinList, Count
  <2>3. Passed(p)' = {}
    BY <2>1, <2>2 DEF Passed, At
  <2> QED
    BY <1>1, <2>2, <2>3 DEF Advance
<1>5. CASE JoinScan(p)
  <2>1. PICK x \in RequestIds :
          Goto(p, [job[p] EXCEPT !.todo = @ \ {x},
                                 !.blocked = @ \/ Blocks(requests[x], job[p].doc)])
    BY <1>5 DEF JoinScan
  <2>2. PICK d \in ScanJob : d = job[p] /\ d.at = "joinScan"
    BY <1>5, JobFacts, JobShape DEF JoinScan, At
  <2>3. PICK b : b = (d.blocked \/ Blocks(requests[x], d.doc))
    OBVIOUS
  <2>4. job'[p] = [d EXCEPT !.todo = @ \ {x}, !.blocked = b]
    BY <1>2, <2>1, <2>2, <2>3
  <2>5. /\ job'[p].at = "joinScan" /\ job'[p].doc = d.doc
        /\ job'[p].todo = d.todo \ {x} /\ job'[p].blocked = b
    BY <2>2, <2>4 DEF ScanJob
  <2>6. ~b
    BY <2>5 DEF Unblocked
  <2>7. ~d.blocked /\ ~Blocks(requests[x], d.doc)
    BY <2>3, <2>6
  <2>8. counted'[p] = counted[p]
    BY <2>2 DEF Count, At
  <2>9. /\ counted[p] \subseteq DOMAIN requests
        /\ \A r \in counted[p] \ d.todo : ~Blocks(requests[r], d.doc)
    BY <2>2, <2>7 DEF CountOK, Unblocked, Passed, At
  <2>10. Passed(p)' = counted[p] \ (d.todo \ {x})
    BY <2>5, <2>8 DEF Passed, At
  <2>11. \A r \in counted[p] \ (d.todo \ {x}) : ~Blocks(requests[r], d.doc)
    BY <2>7, <2>9
  <2> QED
    BY <1>1, <2>5, <2>8, <2>9, <2>10, <2>11, UnblockedStays DEF Advance
<1>6. CASE JoinDecide(p)
  <2>0. ~Goto(p, Idle)
    BY <1>2 DEF Unblocked, Idle
  <2>1. PICK x : Goto(p, [at |-> "joinPut", id |-> x, doc |-> job[p].doc]) /\ ~job[p].blocked
    BY <1>6, <2>0 DEF JoinDecide
  <2>2. job'[p] = [at |-> "joinPut", id |-> x, doc |-> job[p].doc]
    BY <1>2, <2>1
  <2>3. job[p].at = "joinScan" /\ job[p].todo = {}
    BY <1>6 DEF JoinDecide, At
  <2>4. /\ counted[p] \subseteq DOMAIN requests
        /\ \A r \in counted[p] : ~Blocks(requests[r], job[p].doc)
    BY <2>1, <2>3 DEF CountOK, Unblocked, Passed, At
  <2>5. counted'[p] = counted[p] /\ Passed(p)' = counted[p]
    BY <2>2, <2>3 DEF Count, Passed, At
  <2> QED
    BY <1>1, <2>2, <2>4, <2>5, UnblockedStays DEF Advance
<1> QED
  BY <1>3, <1>4, <1>5, <1>6, UnblockedStep

-----------------------------------------------------------------------------
(***************************************************************************)
(* The theorems.                                                           *)
(***************************************************************************)
LEMMA InitHInv == HInit => HInv
<1> SUFFICES ASSUME HInit PROVE HInv
  OBVIOUS
<1>1. \A p \in Proc : job[p] = Idle
  BY DEF HInit, Init
<1>2. HTypeOK
  BY EmptySeq DEF HInit, HTypeOK, Forget, Store
<1>3. BaseOK /\ CountOK
  BY <1>1 DEF BaseOK, CountOK, Unblocked, Idle, StoreAt
<1> QED
  BY <1>2, <1>3 DEF HInv

\* What is remembered is a document and a set of ids.
LEMMA StepHTypeOK ==
  ASSUME IInv, HTypeOK, Remember, Count
  PROVE  HTypeOK'
<1>1. Forget \in Store /\ recipients \in Store
  BY EmptySeq DEF Forget, Store, IInv, TypeOK
<1>2. DOMAIN requests \subseteq RequestIds
  BY DEF IInv, TypeOK, Documents
<1>3. base' \in [Proc -> Store]
  BY <1>1 DEF HTypeOK, Remember
<1>4. counted' \in [Proc -> SUBSET RequestIds]
  BY <1>2 DEF HTypeOK, Count
<1> QED
  BY <1>3, <1>4 DEF HTypeOK

\* Every step keeps the invariant of the history.
LEMMA StepHInv == IInv /\ HInv /\ [HNext]_hvars => HInv'
<1> SUFFICES ASSUME IInv, HInv, [HNext]_hvars PROVE HInv'
  OBVIOUS
<1>1. CASE HNext
  BY <1>1, StepHTypeOK, StepBaseOK, StepCountOK DEF HNext, HInv
<1>2. CASE UNCHANGED hvars
  BY <1>2 DEF hvars, vars, HInv, HTypeOK, BaseOK, CountOK, Unblocked, Passed, At
<1> QED
  BY <1>1, <1>2

\* The history only watches: what the commands do is what Enrollment says.
THEOREM HistoryWatches == HSpec => Spec
<1>1. HInit => Init
  BY DEF HInit
<1>2. [HNext]_hvars => [Next]_vars
  BY DEF HNext, hvars
<1> QED
  BY <1>1, <1>2, PTL DEF HSpec, Spec

\* What a command has read keeps its worth until the command saves: the
\* document is one change away, and a request passed in the scan of a join
\* does not come to block it.
THEOREM HistoryInvariance == HSpec => []HInv
BY InitHInv, StepHInv, HistoryWatches, Invariance, PTL DEF HSpec

\* Every save of recipients.json is one change of the document the command
\* has loaded, however long ago that was and whoever has written since.
THEOREM SingleUpdates == HSpec => UpdatesAreSingle
<1>1. ASSUME IInv, HInv, HNext
      PROVE  \A p \in Proc : Saves(p) => OneChange(base[p], recipients')
  BY <1>1, SavesStore DEF HNext, HInv, BaseOK, Saves
<1>2. IInv /\ HInv /\ [HNext]_hvars
        => [\A p \in Proc : Saves(p) => OneChange(base[p], recipients')]_hvars
  BY <1>1
<1> QED
  BY <1>2, HistoryInvariance, HistoryWatches, Invariance, PTL DEF HSpec, UpdatesAreSingle

\* A command that has read a revoked entry does not make its key active.
THEOREM RevocationSeenIsKept == HSpec => RevokedReturnsUnseen
<1> DEFINE Kept == \A p \in Proc : Saves(p) =>
             \A i \in DOMAIN base[p] : base[p][i].status = "revoked"
               => base[p][i].key \notin ActiveKeys(recipients')
<1>1. ASSUME IInv, HInv, HNext PROVE Kept
  <2> SUFFICES ASSUME NEW p \in Proc, Saves(p)
               PROVE  RevokedIn(base[p], recipients')
    BY DEF RevokedIn
  <2>1. recipients' = job[p].store
    BY <1>1, SavesStore DEF HNext
  <2>2. base[p] \in Store /\ NoDuplicates(base[p]) /\ OneChange(base[p], job[p].store)
    BY <1>1 DEF HInv, HTypeOK, BaseOK, Saves
  <2>3. recipients' \in Store
    BY <1>1, StepIInv DEF HNext, IInv, TypeOK
  <2> QED
    BY <2>1, <2>2, <2>3, OneChangeRevoked
<1>2. IInv /\ HInv /\ [HNext]_hvars => [Kept]_hvars
  BY <1>1
<1> QED
  BY <1>2, HistoryInvariance, HistoryWatches, Invariance, PTL DEF HSpec, RevokedReturnsUnseen

\* A join saves its request only when no request it has listed blocks it.
THEOREM JoinsRespectListed == HSpec => []CountedNeverBlock
<1>1. HInv => CountedNeverBlock
  BY DEF HInv, CountOK, CountedNeverBlock, Unblocked, Passed, At
<1> QED
  BY <1>1, HistoryInvariance, PTL

=============================================================================
