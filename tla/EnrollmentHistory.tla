------------------------- MODULE EnrollmentHistory -------------------------
(***************************************************************************)
(* Enrollment with a memory of what each command has read: the document a  *)
(* command that writes recipients.json started from, and the requests a    *)
(* join has found listed.  The commands are those of Enrollment and know   *)
(* nothing of it.  With it one can say of concurrent commands which        *)
(* changes can get lost, and that no others do.                            *)
(***************************************************************************)
EXTENDS Enrollment

VARIABLES
  base,      \* base[p]: recipients.json as the command of p has loaded it
  counted    \* counted[p]: ids of the requests listed for the join of p

hvars == <<vars, base, counted>>

\* Nothing is remembered of a command that holds no document.
Forget == <<>>

HTypeOK ==
  /\ base \in [Proc -> Store]
  /\ counted \in [Proc -> SUBSET RequestIds]

HInit ==
  /\ Init
  /\ base = [p \in Proc |-> Forget]
  /\ counted = [p \in Proc |-> {}]

\* InitLoad, AddLoad, RemoveLoad and ApproveRecipients load the document in
\* the step that leads to the PUT; the PUT ends what was loaded.
Remember ==
  base' = [p \in Proc |->
             IF job'[p].at \notin StoreAt THEN Forget
             ELSE IF job'[p] = job[p] THEN base[p] ELSE recipients]

\* Job j is that of a join which nothing has blocked so far.
Unblocked(j) == j.at = "joinPut" \/ (j.at = "joinScan" /\ ~j.blocked)

Count ==
  counted' = [p \in Proc |->
                IF ~Unblocked(job'[p]) THEN {}
                ELSE IF At(p, "joinList") THEN DOMAIN requests ELSE counted[p]]

HNext == Next /\ Remember /\ Count

HSpec == HInit /\ [][HNext]_hvars

-----------------------------------------------------------------------------
\* Document t is s after one of the operations of the recipients package.
OneChange(s, t) ==
  \/ t = s
  \/ \E i \in DOMAIN t : ~Duplicate(s, t[i]) /\ t = Add(s, t[i])
  \/ \E i \in DOMAIN s : t = Revoke(s, i) \/ t = Delete(s, i)

\* Process p saves a recipients document in this step.
Saves(p) == job[p].at \in StoreAt /\ job'[p] # job[p] /\ aborts' = aborts

\* Whatever the others do in between, a command writes the document it has
\* loaded with one change: of what it has read, nothing but the entry the
\* user named is lost, and at most one new entry appears.
UpdatesAreSingle ==
  [][\A p \in Proc : Saves(p) => OneChange(base[p], recipients')]_hvars

\* A revoked device comes back only through a command that had loaded the
\* document before the device was revoked: a command that has read the
\* revoked entry does not write its key as active, whatever has become of
\* the entry since.
RevokedReturnsUnseen ==
  [][\A p \in Proc : Saves(p) =>
       \A i \in DOMAIN base[p] : base[p][i].status = "revoked"
         => base[p][i].key \notin ActiveKeys(recipients')]_hvars

\* Two requests for one invite or one device are pending at once only if
\* neither was there when the other's join listed the requests: a join that
\* saves its request is not blocked by any request it has found listed, be
\* it decided by now or not.
CountedNeverBlock ==
  \A p \in Proc : At(p, "joinPut") =>
    \A r \in counted[p] : r \in DOMAIN requests /\ ~Blocks(requests[r], job[p].doc)

(***************************************************************************)
(* The inductive invariant behind these three, together with IInv: the     *)
(* document a command is about to save is one change away from the one it  *)
(* has loaded, and what a join has passed in its scan does not block it,   *)
(* whatever has become of it since.                                        *)
(***************************************************************************)
BaseOK ==
  \A p \in Proc : job[p].at \in StoreAt =>
    NoDuplicates(base[p]) /\ OneChange(base[p], job[p].store)

\* The listed requests the join of p has looked at.
Passed(p) == IF At(p, "joinScan") THEN counted[p] \ job[p].todo ELSE counted[p]

CountOK ==
  \A p \in Proc : Unblocked(job[p]) =>
    /\ counted[p] \subseteq DOMAIN requests
    /\ \A r \in Passed(p) : ~Blocks(requests[r], job[p].doc)

HInv == HTypeOK /\ BaseOK /\ CountOK

=============================================================================
