----------------------------- MODULE Enrollment -----------------------------
(***************************************************************************)
(* The enrollment and recipients commands of the envlock CLI, run by       *)
(* several machines against one bucket.                                    *)
(*                                                                         *)
(* The bucket holds the recipients document, one document per invite and   *)
(* one per enrollment request.  A command reads and writes whole documents *)
(* with GET and PUT: there is no lock, no version and no conditional       *)
(* write.  A step of this specification is one of these remote calls, with *)
(* the local computation up to the next call; a command that is waiting    *)
(* to make its next call is a record in job.                               *)
(*                                                                         *)
(* Simplifications: all processes use the same bucket and prefix; the      *)
(* store is strongly consistent for each object; a PUT that is reported    *)
(* as failed has either taken effect by then or never will; the clocks of  *)
(* the machines agree; random ids do not collide; the listing of the       *)
(* request keys is one step, although it fetches page after page.          *)
(***************************************************************************)
EXTENDS Recipients

CONSTANTS
  Proc,        \* working directories in which commands run, one at a time
  InviteIds,   \* ids of invites
  Commands,    \* the commands this instance explores
  MaxAborts    \* how many commands may be cut short

AllCommands ==
  {"init", "init --force", "add", "revoke", "delete", "invite", "join", "approve", "reject"}

ASSUME EnrollmentAssumption ==
  /\ Commands \subseteq AllCommands
  /\ MaxAborts \in Nat

VARIABLES
  recipients,   \* recipients.json
  invites,      \* the documents under enroll/invites/
  requests,     \* the documents under enroll/requests/
  tokens,       \* invites whose token has been printed
  expired,      \* invites whose ExpiresAt has passed
  configured,   \* processes whose directory has a project.toml
  job,          \* what each process is about to do
  aborts,       \* commands cut short so far
  listed        \* history: requests whose device recipients.json has held

vars == <<recipients, invites, requests, tokens, expired, configured, job,
          aborts, listed>>

objects == <<recipients, invites, requests>>

-----------------------------------------------------------------------------
Invite == [status: {"active", "used"}, usedBy: RequestIds \cup {Blank}]

Request == [invite: InviteIds, name: Names, key: Keys,
            status: {"pending", "approved", "rejected"}]

Idle == [at |-> "idle"]

RecipientsJob == [at: {"putRecipients"}, store: Store]
InitJob    == [at: {"initPut"}, key: Keys, store: Store]
ConfigJob  == [at: {"initConfig"}, key: Keys]
InviteJob  == [at: {"invitePut", "invitePrint"}, invite: InviteIds]
ListJob    == [at: {"joinList"}, doc: Request]
ScanJob    == [at: {"joinScan"}, doc: Request,
               todo: SUBSET RequestIds, blocked: BOOLEAN]
RequestJob == [at: {"joinPut", "approveInvite", "approveRecipients",
                    "approvePutRequest", "approvePutInvite", "rejectPut"},
               id: RequestIds, doc: Request]
GrantJob   == [at: {"approvePutRecipients"}, id: RequestIds, doc: Request,
               store: Store]

Job == {Idle} \cup RecipientsJob \cup InitJob \cup ConfigJob \cup InviteJob
       \cup ListJob \cup ScanJob \cup RequestJob \cup GrantJob

\* A prefix of the bucket: documents of one kind under their ids.
Documents(objs, Ids, Doc) ==
  DOMAIN objs \subseteq Ids /\ objs \in [DOMAIN objs -> Doc]

TypeOK ==
  /\ recipients \in Store
  /\ Documents(invites, InviteIds, Invite)
  /\ Documents(requests, RequestIds, Request)
  /\ tokens \subseteq InviteIds
  /\ expired \subseteq InviteIds
  /\ configured \subseteq Proc
  /\ job \in [Proc -> Job]
  /\ aborts \in 0..MaxAborts
  /\ listed \subseteq RequestIds

Init ==
  /\ recipients = <<>>
  /\ invites = [i \in {} |-> Blank]
  /\ requests = [r \in {} |-> Blank]
  /\ tokens = {}
  /\ expired = {}
  /\ configured = {}
  /\ job = [p \in Proc |-> Idle]
  /\ aborts = 0
  /\ listed = {}

-----------------------------------------------------------------------------
(***************************************************************************)
(* Steps of a command.                                                     *)
(***************************************************************************)

\* PutJSON: the object at id becomes v, whatever was there.
Put(objs, id, v) == [x \in DOMAIN objs \cup {id} |-> IF x = id THEN v ELSE objs[x]]

\* s lists the device of request r, or an entry that clashes with it.
Lists(s, r) == Duplicate(s, Entry(requests[r].name, requests[r].key, r))

PutRecipients(s) ==
  /\ recipients' = s
  /\ listed' = listed \cup {r \in DOMAIN requests : Lists(s, r)}

KeepRecipients == UNCHANGED <<recipients, listed>>

\* Process p goes on with step j.
Goto(p, j) == job' = [job EXCEPT ![p] = j]

\* The process is at step a.
At(p, a) == job[p].at = a

\* remoteStoreFromCWD: a command starts in a directory with a project file.
Start(p, cmd) ==
  /\ cmd \in Commands
  /\ At(p, "idle")
  /\ p \in configured

Rest == UNCHANGED <<tokens, expired, configured, aborts>>

-----------------------------------------------------------------------------
(***************************************************************************)
(* envlock project init: load recipients.json, add this machine's key,     *)
(* tolerate that it is there already, write the document back, then write  *)
(* the project file.                                                       *)
(***************************************************************************)
\* Mutant: init starts a new document instead of the one it has loaded.
InitAnew(p) ==
  \E name \in Names \ {Blank}, key \in Keys :
    /\ At(p, "idle")
    /\ \/ "init" \in Commands /\ p \notin configured
       \/ "init --force" \in Commands
    /\ Goto(p, [at |-> "initPut", key |-> key,
                store |-> <<Entry(name, key, "local-init")>>])
    /\ UNCHANGED objects /\ UNCHANGED listed /\ Rest

InitLoad(p) ==
  \E name \in Names \ {Blank}, key \in Keys :
    LET r == Entry(name, key, "local-init") IN
    /\ At(p, "idle")
    /\ \/ "init" \in Commands /\ p \notin configured
       \/ "init --force" \in Commands
    /\ Goto(p, [at |-> "initPut", key |-> key,
                store |-> IF Duplicate(recipients, r) THEN recipients
                                                      ELSE Add(recipients, r)])
    /\ UNCHANGED objects /\ UNCHANGED listed /\ Rest

InitPut(p) ==
  /\ At(p, "initPut")
  /\ PutRecipients(job[p].store)
  /\ Goto(p, [at |-> "initConfig", key |-> job[p].key])
  /\ UNCHANGED <<invites, requests>> /\ Rest

InitConfig(p) ==
  /\ At(p, "initConfig")
  /\ configured' = configured \cup {p}
  /\ Goto(p, Idle)
  /\ UNCHANGED objects /\ UNCHANGED <<tokens, expired, aborts, listed>>

\* Outside the program: the project file reaches another machine with the
\* repository it is kept in.
Clone(p) ==
  /\ configured # {}
  /\ At(p, "idle")
  /\ configured' = configured \cup {p}
  /\ UNCHANGED objects /\ UNCHANGED <<tokens, expired, job, aborts, listed>>

-----------------------------------------------------------------------------
(***************************************************************************)
(* envlock recipients add and remove [--hard].                             *)
(***************************************************************************)
AddLoad(p) ==
  \E name \in Names \ {Blank}, key \in Keys :
    LET r == Entry(name, key, "manual") IN
    /\ Start(p, "add")
    /\ ~Duplicate(recipients, r)
    /\ Goto(p, [at |-> "putRecipients", store |-> Add(recipients, r)])
    /\ UNCHANGED objects /\ UNCHANGED listed /\ Rest

RemoveLoad(p) ==
  \E q \in Queries, i \in DOMAIN recipients :
    /\ IsFirstMatch(recipients, q, i)
    /\ \/ /\ Start(p, "revoke")
          /\ Goto(p, [at |-> "putRecipients", store |-> Revoke(recipients, i)])
       \/ /\ Start(p, "delete")
          /\ Goto(p, [at |-> "putRecipients", store |-> Delete(recipients, i)])
    /\ UNCHANGED objects /\ UNCHANGED listed /\ Rest

RecipientsPut(p) ==
  /\ At(p, "putRecipients")
  /\ PutRecipients(job[p].store)
  /\ Goto(p, Idle)
  /\ UNCHANGED <<invites, requests>> /\ Rest

-----------------------------------------------------------------------------
(***************************************************************************)
(* envlock enroll invite: save a new invite, then print its token.         *)
(***************************************************************************)

\* randomHex(8): an id no process has drawn before.
FreshInvite(i) ==
  /\ i \notin DOMAIN invites
  /\ \A p \in Proc : At(p, "invitePut") => job[p].invite # i

NewInvite(p) ==
  \E i \in InviteIds :
    /\ Start(p, "invite")
    /\ FreshInvite(i)
    /\ Goto(p, [at |-> "invitePut", invite |-> i])
    /\ UNCHANGED objects /\ UNCHANGED listed /\ Rest

InvitePut(p) ==
  /\ At(p, "invitePut")
  /\ invites' = Put(invites, job[p].invite, [status |-> "active", usedBy |-> Blank])
  /\ Goto(p, [job[p] EXCEPT !.at = "invitePrint"])
  /\ UNCHANGED requests /\ KeepRecipients /\ Rest

InvitePrint(p) ==
  /\ At(p, "invitePrint")
  /\ tokens' = tokens \cup {job[p].invite}
  /\ Goto(p, Idle)
  /\ UNCHANGED objects /\ UNCHANGED <<expired, configured, aborts, listed>>

\* Time passes the ExpiresAt of invite i.
Expire(i) ==
  /\ i \in DOMAIN invites \ expired
  /\ expired' = expired \cup {i}
  /\ UNCHANGED objects /\ UNCHANGED <<tokens, configured, job, aborts, listed>>

-----------------------------------------------------------------------------
(***************************************************************************)
(* envlock enroll join: load the invite the token names, check the token   *)
(* and the invite, list the requests, load each, and save a new one.       *)
(***************************************************************************)

\* Mutant: the secret in the token is not compared.
AnyTokenOpens(i, j) == TRUE

\* VerifyToken: the secret of the token printed for invite j is the one
\* hashed in invite i.
TokenOpens(i, j) == i = j

Expired(i) == i \in expired

JoinLoad(p) ==
  \E i \in DOMAIN invites, j \in tokens, name \in Names \ {Blank}, key \in Keys :
    /\ Start(p, "join")
    /\ TokenOpens(i, j)
    /\ invites[i].status = "active"
    /\ ~Expired(i)
    /\ Goto(p, [at |-> "joinList",
                doc |-> [invite |-> i, name |-> name, key |-> key,
                         status |-> "pending"]])
    /\ UNCHANGED objects /\ UNCHANGED listed /\ Rest

JoinList(p) ==
  /\ At(p, "joinList")
  /\ Goto(p, [at |-> "joinScan", doc |-> job[p].doc,
              todo |-> DOMAIN requests, blocked |-> FALSE])
  /\ UNCHANGED objects /\ UNCHANGED listed /\ Rest

\* Mutant: a pending request for the same invite does not block.
BlocksByDevice(old, new) ==
  old.status = "pending" /\ Fingerprint[old.key] = Fingerprint[new.key]

\* A listed request keeps NewJoinRequest from making another.
Blocks(old, new) ==
  /\ old.status = "pending"
  /\ \/ old.invite = new.invite
     \/ Fingerprint[old.key] = Fingerprint[new.key]

JoinScan(p) ==
  \E r \in RequestIds :
    /\ At(p, "joinScan")
    /\ r \in job[p].todo
    /\ Goto(p, [job[p] EXCEPT !.todo = @ \ {r},
                              !.blocked = @ \/ Blocks(requests[r], job[p].doc)])
    /\ UNCHANGED objects /\ UNCHANGED listed /\ Rest

\* Mutant: an id can be drawn again once its request is saved.
ReusedRequest(r) == \A p \in Proc : At(p, "joinPut") => job[p].id # r

\* Mutant: an id that is not in use may be drawn by two processes at once.
UnusedRequest(r) == r \notin DOMAIN requests

FreshRequest(r) ==
  /\ r \notin DOMAIN requests
  /\ \A p \in Proc : At(p, "joinPut") => job[p].id # r

\* Mutant: the rest of the listing is not looked at.
JoinDecideEarly(p) ==
  /\ At(p, "joinScan")
  /\ \/ /\ ~job[p].blocked
        /\ ~Expired(job[p].doc.invite)
        /\ \E r \in RequestIds :
             /\ FreshRequest(r)
             /\ Goto(p, [at |-> "joinPut", id |-> r, doc |-> job[p].doc])
     \/ /\ job[p].blocked \/ Expired(job[p].doc.invite)
        /\ Goto(p, Idle)
  /\ UNCHANGED objects /\ UNCHANGED listed /\ Rest

JoinDecide(p) ==
  /\ At(p, "joinScan")
  /\ job[p].todo = {}
  /\ \/ /\ ~job[p].blocked
        /\ ~Expired(job[p].doc.invite)
        /\ \E r \in RequestIds :
             /\ FreshRequest(r)
             /\ Goto(p, [at |-> "joinPut", id |-> r, doc |-> job[p].doc])
     \/ /\ job[p].blocked \/ Expired(job[p].doc.invite)
        /\ Goto(p, Idle)
  /\ UNCHANGED objects /\ UNCHANGED listed /\ Rest

JoinPut(p) ==
  /\ At(p, "joinPut")
  /\ requests' = Put(requests, job[p].id, job[p].doc)
  /\ Goto(p, Idle)
  /\ UNCHANGED invites /\ KeepRecipients /\ Rest

-----------------------------------------------------------------------------
(***************************************************************************)
(* envlock enroll approve: load the request, its invite and the recipients *)
(* and check them; then save recipients, request and invite in this order. *)
(***************************************************************************)
ApproveLoad(p) ==
  \E r \in DOMAIN requests :
    /\ Start(p, "approve")
    /\ requests[r].status = "pending"
    /\ Goto(p, [at |-> "approveInvite", id |-> r, doc |-> requests[r]])
    /\ UNCHANGED objects /\ UNCHANGED listed /\ Rest

\* ValidateInviteForApproval looks at the status and not at ExpiresAt.
ApproveInvite(p) ==
  /\ At(p, "approveInvite")
  /\ IF invites[job[p].doc.invite].status = "active"
       THEN Goto(p, [job[p] EXCEPT !.at = "approveRecipients"])
       ELSE Goto(p, Idle)
  /\ UNCHANGED objects /\ UNCHANGED listed /\ Rest

\* Mutant: the entry is added without a look at the document.
GrantBlindly(s, r) == {Add(s, r)}

\* Mutant: a duplicate makes the approval fail.
GrantOnce(s, r) == IF Duplicate(s, r) THEN {} ELSE {Add(s, r)}

\* The document an approval will write: an entry that clashes is enough.
Grant(s, r) == IF Duplicate(s, r) THEN {s} ELSE {Add(s, r)}

\* Mutant: the recipients are not saved.
ApproveUnsaved(p) ==
  /\ At(p, "approveRecipients")
  /\ Goto(p, [job[p] EXCEPT !.at = "approvePutRequest"])
  /\ UNCHANGED objects /\ UNCHANGED listed /\ Rest

ApproveRecipients(p) ==
  LET doc == job[p].doc
      docs == Grant(recipients, Entry(doc.name, doc.key, job[p].id))
  IN /\ At(p, "approveRecipients")
     /\ \/ \E s \in docs :
             Goto(p, [at |-> "approvePutRecipients", id |-> job[p].id,
                      doc |-> doc, store |-> s])
        \/ docs = {} /\ Goto(p, Idle)
     /\ UNCHANGED objects /\ UNCHANGED listed /\ Rest

\* Mutant: the decision is not saved in the request.
ApproveUndecided(p) ==
  /\ At(p, "approvePutRecipients")
  /\ PutRecipients(job[p].store)
  /\ Goto(p, [at |-> "approvePutInvite", id |-> job[p].id, doc |-> job[p].doc])
  /\ UNCHANGED <<invites, requests>> /\ Rest

ApprovePutRecipients(p) ==
  /\ At(p, "approvePutRecipients")
  /\ PutRecipients(job[p].store)
  /\ Goto(p, [at |-> "approvePutRequest", id |-> job[p].id, doc |-> job[p].doc])
  /\ UNCHANGED <<invites, requests>> /\ Rest

\* Mutant: the approval ends with the request, and the invite stays active.
ApproveKeepsInvite(p) ==
  /\ At(p, "approvePutRequest")
  /\ requests' = Put(requests, job[p].id, [job[p].doc EXCEPT !.status = "approved"])
  /\ Goto(p, Idle)
  /\ UNCHANGED invites /\ KeepRecipients /\ Rest

ApprovePutRequest(p) ==
  /\ At(p, "approvePutRequest")
  /\ requests' = Put(requests, job[p].id, [job[p].doc EXCEPT !.status = "approved"])
  /\ Goto(p, [job[p] EXCEPT !.at = "approvePutInvite"])
  /\ UNCHANGED invites /\ KeepRecipients /\ Rest

ApprovePutInvite(p) ==
  /\ At(p, "approvePutInvite")
  /\ invites' = Put(invites, job[p].doc.invite,
                    [status |-> "used", usedBy |-> job[p].id])
  /\ Goto(p, Idle)
  /\ UNCHANGED requests /\ KeepRecipients /\ Rest

-----------------------------------------------------------------------------
(***************************************************************************)
(* envlock enroll reject.                                                  *)
(***************************************************************************)
RejectLoad(p) ==
  \E r \in DOMAIN requests :
    /\ Start(p, "reject")
    /\ requests[r].status = "pending"
    /\ Goto(p, [at |-> "rejectPut", id |-> r, doc |-> requests[r]])
    /\ UNCHANGED objects /\ UNCHANGED listed /\ Rest

\* Mutant: the request gets the status that revokes an invite.
RejectRevokes(p) ==
  /\ At(p, "rejectPut")
  /\ requests' = Put(requests, job[p].id, [job[p].doc EXCEPT !.status = "revoked"])
  /\ Goto(p, Idle)
  /\ UNCHANGED invites /\ KeepRecipients /\ Rest

RejectPut(p) ==
  /\ At(p, "rejectPut")
  /\ requests' = Put(requests, job[p].id, [job[p].doc EXCEPT !.status = "rejected"])
  /\ Goto(p, Idle)
  /\ UNCHANGED invites /\ KeepRecipients /\ Rest

-----------------------------------------------------------------------------
(***************************************************************************)
(* A command ends before its next step: the process is killed, or the call *)
(* fails and the command returns the error.  A PUT that takes effect and   *)
(* is reported as failed is that PUT followed by Abort.                    *)
(***************************************************************************)
Abort(p) ==
  /\ ~At(p, "idle")
  /\ aborts < MaxAborts
  /\ aborts' = aborts + 1
  /\ Goto(p, Idle)
  /\ UNCHANGED objects /\ UNCHANGED <<tokens, expired, configured, listed>>

\* The user starts a command.
Begin(p) ==
  \/ InitLoad(p) \/ AddLoad(p) \/ RemoveLoad(p) \/ NewInvite(p)
  \/ JoinLoad(p) \/ ApproveLoad(p) \/ RejectLoad(p)

\* A command that has started takes its next step.
Continue(p) ==
  \/ InitPut(p) \/ InitConfig(p) \/ RecipientsPut(p)
  \/ InvitePut(p) \/ InvitePrint(p)
  \/ JoinList(p) \/ JoinScan(p) \/ JoinDecide(p) \/ JoinPut(p)
  \/ ApproveInvite(p) \/ ApproveRecipients(p) \/ ApprovePutRecipients(p)
  \/ ApprovePutRequest(p) \/ ApprovePutInvite(p)
  \/ RejectPut(p)

Next ==
  \/ \E p \in Proc : Begin(p) \/ Continue(p) \/ Abort(p) \/ Clone(p)
  \/ \E i \in InviteIds : Expire(i)

Spec == Init /\ [][Next]_vars

\* A command that runs takes its next step: the CLI never waits for anyone.
FairSpec == Spec /\ \A p \in Proc : WF_vars(Continue(p))

\* Moreover an administrator at each machine runs approve again as long as
\* there is something to approve.
RetrySpec == FairSpec /\ \A p \in Proc : SF_vars(ApproveLoad(p))

-----------------------------------------------------------------------------
(***************************************************************************)
(* What holds for any number of processes and any interleaving.            *)
(***************************************************************************)

\* recipients.json never lists a name, key or fingerprint twice, although
\* every command writes back a document it loaded some time before.
NoDuplicateRecipients == NoDuplicates(recipients)

\* An entry that enrollment added is the device of a saved request, and the
\* token of the invite of that request was handed out: a device that nobody
\* gave a token cannot become a recipient through enroll approve.
Traced(s, reqs, toks) ==
  \A i \in DOMAIN s : s[i].via \in RequestIds =>
    /\ s[i].via \in DOMAIN reqs
    /\ s[i].name = reqs[s[i].via].name
    /\ s[i].key = reqs[s[i].via].key
    /\ reqs[s[i].via].invite \in toks

Provenance == Traced(recipients, requests, tokens)

\* A used invite names a request that was made with it and that has been
\* decided: runEnrollApprove saves the request before it burns the invite.
UsedInviteSettled ==
  \A i \in DOMAIN invites : invites[i].status = "used" =>
    /\ invites[i].usedBy \in DOMAIN requests
    /\ requests[invites[i].usedBy].invite = i
    /\ requests[invites[i].usedBy].status # "pending"

\* As long as no command has been cut short, the invite of an approved
\* request is used, or an approval of that request is about to mark it used,
\* however the approvals, rejections and joins of several machines mix.
ApprovalBurnsInvite ==
  aborts = 0 =>
    \A r \in DOMAIN requests : requests[r].status = "approved" =>
      \/ invites[requests[r].invite].status = "used"
      \/ \E p \in Proc : At(p, "approvePutInvite") /\ job[p].id = r

\* An approved request left its mark: recipients.json has at some time held
\* its device or an entry Store.Add takes for the same device, wherever the
\* approval or another command was cut short.
ApprovedWasListed ==
  \A r \in DOMAIN requests : requests[r].status = "approved" => r \in listed

\* A request keeps its device and its invite, and once it is decided it does
\* not become pending again; a used invite does not become active again.
\* Each of these writes puts back a whole document read before.
Advance ==
  /\ \A r \in DOMAIN requests :
       /\ r \in DOMAIN requests'
       /\ requests'[r].invite = requests[r].invite
       /\ requests'[r].name = requests[r].name
       /\ requests'[r].key = requests[r].key
       /\ requests'[r].status = "pending" => requests[r].status = "pending"
  /\ \A i \in DOMAIN invites :
       /\ i \in DOMAIN invites'
       /\ invites'[i].status = "active" => invites[i].status = "active"

DocumentsOnlyAdvance == [][Advance]_vars

(***************************************************************************)
(* The inductive invariant behind the properties above: what a command     *)
(* that is under way still knows of the bucket, although other commands    *)
(* have written to it since.                                               *)
(***************************************************************************)
StoreAt == {"initPut", "putRecipients", "approvePutRecipients"}
JoinAt == {"joinList", "joinScan", "joinPut"}
DecideAt == {"approveInvite", "approveRecipients", "approvePutRecipients",
             "approvePutRequest", "approvePutInvite", "rejectPut"}

SameDevice(d, e) == d.invite = e.invite /\ d.name = e.name /\ d.key = e.key

\* Job j, when the requests are reqs, the printed tokens toks and the
\* requests listed so far are seen.
JobOK(j, reqs, toks, seen) ==
  /\ j.at \in StoreAt => NoDuplicates(j.store) /\ Traced(j.store, reqs, toks)
  /\ j.at \in JoinAt => j.doc.status = "pending" /\ j.doc.invite \in toks
  /\ j.at \in DecideAt => j.id \in DOMAIN reqs /\ SameDevice(j.doc, reqs[j.id])
  /\ j.at = "joinPut" => j.id \notin DOMAIN reqs
  /\ j.at = "approvePutRecipients" =>
       Duplicate(j.store, Entry(j.doc.name, j.doc.key, j.id))
  /\ j.at = "approvePutRequest" => j.id \in seen
  /\ j.at = "approvePutInvite" => reqs[j.id].status # "pending"

JobsOK == \A p \in Proc : JobOK(job[p], requests, tokens, listed)

\* No two processes hold the same new id, nor one that is in use.
FreshIds ==
  /\ \A p, q \in Proc :
       At(p, "joinPut") /\ At(q, "joinPut") /\ p # q => job[p].id # job[q].id
  /\ \A p \in Proc : At(p, "invitePut") => job[p].invite \notin DOMAIN invites
  /\ \A p, q \in Proc :
       At(p, "invitePut") /\ At(q, "invitePut") /\ p # q
         => job[p].invite # job[q].invite

\* A printed token, or one about to be printed, is that of a saved invite.
TokensSaved ==
  /\ tokens \subseteq DOMAIN invites
  /\ \A p \in Proc : At(p, "invitePrint") => job[p].invite \in DOMAIN invites

RequestsInvited == \A r \in DOMAIN requests : requests[r].invite \in tokens

IInv ==
  /\ TypeOK
  /\ NoDuplicateRecipients
  /\ Provenance
  /\ UsedInviteSettled
  /\ ApprovedWasListed
  /\ JobsOK
  /\ FreshIds
  /\ TokensSaved
  /\ RequestsInvited

(***************************************************************************)
(* What holds when commands run one at a time, some of them cut short.     *)
(***************************************************************************)

\* An invite has one pending request at most, and so has a device.
PendingUnique ==
  \A r1, r2 \in {r \in DOMAIN requests : requests[r].status = "pending"} :
    r1 # r2 => /\ requests[r1].invite # requests[r2].invite
               /\ Fingerprint[requests[r1].key] # Fingerprint[requests[r2].key]

\* A key whose entry is revoked is not active after the next step: it takes
\* a remove --hard and then another command to bring the device back.
StillRevoked(s) ==
  \A i \in DOMAIN recipients :
    recipients[i].status = "revoked" => recipients[i].key \notin ActiveKeys(s)

RevokedStaysRevoked == [][StillRevoked(recipients')]_vars

\* The documentation promises that an invite is single-use: it gets one
\* device approved at most.
InviteSingleUse ==
  \A r1, r2 \in DOMAIN requests :
    /\ requests[r1].status = "approved"
    /\ requests[r2].status = "approved"
    /\ requests[r1].invite = requests[r2].invite
    => r1 = r2

\* It keeps the promise as long as no command is cut short.
SingleUseUncut == aborts = 0 => InviteSingleUse

\* The inductive invariant behind these three: what job j knows of the
\* bucket when nobody else has written to it since it started.
SoloJob(j) ==
  /\ j.at \in StoreAt => StillRevoked(j.store)
  /\ j.at = "joinScan" /\ ~j.blocked =>
       \A r \in DOMAIN requests \ j.todo : ~Blocks(requests[r], j.doc)
  /\ j.at = "joinPut" => \A r \in DOMAIN requests : ~Blocks(requests[r], j.doc)
  /\ j.at \in {"approveRecipients", "approvePutRecipients", "approvePutRequest"}
       /\ aborts = 0 =>
       \A r \in DOMAIN requests :
         requests[r].invite = j.doc.invite => requests[r].status # "approved"

SoloInv == PendingUnique /\ SingleUseUncut /\ \A p \in Proc : SoloJob(job[p])

\* A pending request whose invite is active is decided in the end when the
\* approval is repeated: what an approval that was cut short has already
\* saved does not stop the next one.
RetryDecides ==
  \A r \in RequestIds :
    (r \in DOMAIN requests /\ requests[r].status = "pending")
      ~> (r \in DOMAIN requests /\ requests[r].status # "pending")

(***************************************************************************)
(* What the documentation promises.                                        *)
(***************************************************************************)

\* enroll approve accepts an invite only within its time to live.
ApprovalWithinTTL ==
  [][\A p \in Proc :
       At(p, "approveInvite") /\ job'[p].at = "approveRecipients"
         => ~Expired(job[p].doc.invite)]_vars

\* When enroll approve or project init has ended, the device is an active
\* recipient.
SuccessGrantsAccess ==
  [][\A p \in Proc :
       (At(p, "approvePutInvite") /\ ApprovePutInvite(p)
          => job[p].doc.key \in ActiveKeys(recipients))
       /\ (At(p, "initConfig") /\ InitConfig(p)
          => job[p].key \in ActiveKeys(recipients))]_vars

(***************************************************************************)
(* The abstract ledger that the commands implement.                        *)
(***************************************************************************)
InviteStage(i) ==
  IF i \notin DOMAIN invites THEN "unknown"
  ELSE IF invites[i].status = "used" THEN "used"
  ELSE IF i \in tokens THEN "handed out" ELSE "saved"

LedgerInvite == [i \in InviteIds |-> InviteStage(i)]

LedgerRequest ==
  [r \in RequestIds |-> IF r \in DOMAIN requests THEN requests[r].status ELSE "unknown"]

LedgerMade ==
  [r \in RequestIds |-> IF r \in DOMAIN requests THEN {requests[r].invite} ELSE {}]

Members == {r \in RequestIds : \E i \in DOMAIN recipients : recipients[i].via = r}

Ledger == INSTANCE EnrollmentLedger WITH
  invite <- LedgerInvite,
  request <- LedgerRequest,
  made <- LedgerMade,
  members <- Members,
  acknowledged <- listed

\* Seen through the mapping, every step of every command is a step of the
\* ledger or changes nothing: documents read long before they are written,
\* and commands that stop half way, make no other difference to a project.
KeepsLedger == Ledger!Spec

=============================================================================
