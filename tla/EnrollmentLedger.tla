-------------------------- MODULE EnrollmentLedger --------------------------
(***************************************************************************)
(* What enrollment promises of a project, whoever runs which commands: how *)
(* an invite and a request get from one stage to the next, and what has to *)
(* have happened by then.  Enrollment implements it (see InviteStage and   *)
(* the following definitions there): no step of any command, interrupted   *)
(* or working from stale copies, does anything else to the project.        *)
(***************************************************************************)
CONSTANTS
  InviteIds,    \* invites
  RequestIds    \* requests

VARIABLES
  invite,       \* the stage of each invite
  request,      \* the stage of each request
  made,         \* made[r]: the invites request r was made with, one or none
  members,      \* requests whose entry is on the list of recipients
  acknowledged  \* requests whose device the list has shown at some time

Stages == <<invite, request, made, members, acknowledged>>

Decided == {"approved", "rejected"}

Init ==
  /\ invite = [i \in InviteIds |-> "unknown"]
  /\ request = [r \in RequestIds |-> "unknown"]
  /\ made = [r \in RequestIds |-> {}]
  /\ members = {}
  /\ acknowledged = {}

\* An invite is saved first and its token handed out later, once.
Save(i) ==
  /\ invite[i] = "unknown"
  /\ invite' = [invite EXCEPT ![i] = "saved"]
  /\ UNCHANGED <<request, made, members, acknowledged>>

HandOut(i) ==
  /\ invite[i] = "saved"
  /\ invite' = [invite EXCEPT ![i] = "handed out"]
  /\ UNCHANGED <<request, made, members, acknowledged>>

\* A request is made with an invite whose token is out, used or not.
Submit(r, i) ==
  /\ invite[i] \in {"handed out", "used"}
  /\ request[r] = "unknown"
  /\ request' = [request EXCEPT ![r] = "pending"]
  /\ made' = [made EXCEPT ![r] = {i}]
  /\ UNCHANGED <<invite, members, acknowledged>>

\* The list is written anew: its entries that come from enrollment are
\* those of requests somebody has made, and what it shows is remembered.
Rewrite ==
  /\ \A r \in members' : r \in RequestIds /\ request[r] # "unknown"
  /\ members' \cup acknowledged \subseteq acknowledged'
  /\ UNCHANGED <<invite, request, made>>

\* A request is decided, or its decision is changed: it is approved only
\* when the list has shown the device.
Decide(r, stage) ==
  /\ request[r] # "unknown"
  /\ stage = "approved" => r \in acknowledged
  /\ request' = [request EXCEPT ![r] = stage]
  /\ UNCHANGED <<invite, made, members, acknowledged>>

\* An invite is used up when a request made with it has been decided.
Burn(i) ==
  /\ invite[i] \in {"handed out", "used"}
  /\ \E r \in RequestIds : made[r] = {i} /\ request[r] \in Decided
  /\ invite' = [invite EXCEPT ![i] = "used"]
  /\ UNCHANGED <<request, made, members, acknowledged>>

Next ==
  \/ Rewrite
  \/ \E i \in InviteIds : Save(i) \/ HandOut(i) \/ Burn(i)
  \/ \E r \in RequestIds, i \in InviteIds : Submit(r, i)
  \/ \E r \in RequestIds, stage \in Decided : Decide(r, stage)

Spec == Init /\ [][Next]_Stages

=============================================================================
