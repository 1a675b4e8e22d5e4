----------------------------- MODULE LocalFiles -----------------------------
(***************************************************************************)
(* The files of one machine - the device key, the auth file, the project   *)
(* file of a directory - and the commands that read and write them, run in *)
(* several shells at once.                                                 *)
(*                                                                         *)
(* Every file is written the same way: open with O_TRUNC, then one write   *)
(* of the whole document at the beginning of the file.  Nothing is locked  *)
(* or renamed, so a command can stop between the two calls, read a file    *)
(* another command has truncated, or write a short document over a longer  *)
(* one that arrived after its own truncation.                              *)
(*                                                                         *)
(* Simplifications: one key profile and one project directory; a write     *)
(* happens wholly or not at all, and a read sees what one instant shows;   *)
(* nobody else edits the files; generated keys differ; TIGRIS_ENDPOINT is  *)
(* the same in every shell.  Of the bucket only the keys of this machine   *)
(* are kept, those listed at each place and those that asked to join;      *)
(* names, and what other machines write, are left to Enrollment.           *)
(***************************************************************************)
EXTENDS Naturals

CONSTANTS
  Shell,         \* shells in which commands run, one at a time
  Keys,          \* identities the key generator may draw
  Prefixes,      \* buckets and prefixes in them
  Endpoints,     \* S3 endpoints
  NoEndpoint,    \* no endpoint is given
  Projects,      \* settings given to `project init`
  Environments,  \* values TIGRIS_ENDPOINT may have
  Servers,       \* server URLs given to login
  Size,          \* Size[d]: bytes of the file that holds d
  Nothing        \* the content of a file no document can be read from

\* What a project file says, and where a recipients document can be.
Setting == [prefix: Prefixes, endpoint: Endpoints \cup {NoEndpoint}]
Place == [prefix: Prefixes, endpoint: Endpoints]

ASSUME LocalFilesAssumption ==
  /\ NoEndpoint \notin Endpoints
  /\ Projects \subseteq Setting
  /\ Environments \subseteq Endpoints \cup {NoEndpoint}
  /\ Size \in [Keys \cup Projects \cup Servers -> Nat \ {0}]
  /\ Nothing \notin Keys \cup Setting \cup Servers

VARIABLES
  keyFile,      \* ~/.config/envlock/keys/default.agekey
  authFile,     \* ~/.config/envlock/auth.toml
  projectFile,  \* .envlock/project.toml
  lists,        \* lists[x]: keys in recipients.json at place x
  asked,        \* keys in requests to join
  job,          \* what each shell is about to do
  env,          \* TIGRIS_ENDPOINT, which no command changes
  drawn,        \* keys generated so far
  forced,       \* history: files --force was given for, until overlapped
  cut,          \* history: a command was cut short, until overlapped
  emptied,      \* history: places whose list remove --hard has left empty
  overlapped    \* history: a command has started while another was running

files == <<keyFile, authFile, projectFile>>
bucket == <<lists, asked, emptied>>
vars == <<files, bucket, job, env, drawn, forced, cut, overlapped>>

-----------------------------------------------------------------------------
\* A file: whether it exists, the document that can be read, its length.
File(Docs) == [there: BOOLEAN, doc: Docs \cup {Nothing}, size: Nat]

Absent == [there |-> FALSE, doc |-> Nothing, size |-> 0]
Truncated == [there |-> TRUE, doc |-> Nothing, size |-> 0]
Whole(d, n) == [there |-> TRUE, doc |-> d, size |-> n]

\* Document d of n bytes is written at the start of file f.  The end of a
\* longer document stays behind it and spoils the last line of a key.
KeyAfter(f, d, n) == IF f.size <= n THEN Whole(d, n) ELSE [f EXCEPT !.doc = Nothing]

\* TOML may still decode: keys it does not know are ignored.  A key or table
\* that comes twice is an error, so the end of an auth file, all of whose
\* fields are written each time, adds nothing.
TomlAfter(f, d, n) == {KeyAfter(f, d, n), Whole(d, IF f.size > n THEN f.size ELSE n)}

\* The endpoints whose line the end of project file f may hold.
EndpointsIn(f) == IF f.doc = Nothing THEN Endpoints ELSE {f.doc.endpoint}

\* Project x is written over f.  The endpoint is left out of a file when
\* there is none, and may then be read from what is left of a longer file.
ProjectAfter(f, x) ==
  TomlAfter(f, x, Size[x]) \cup
    {Whole([x EXCEPT !.endpoint = e], f.size) :
       e \in IF f.size > Size[x] /\ x.endpoint = NoEndpoint THEN EndpointsIn(f) ELSE {}}

\* Mutant: the endpoint of the project goes before that of the environment.
ReachedFirst(x) == IF x.endpoint # NoEndpoint THEN x ELSE [x EXCEPT !.endpoint = env]

\* NewFromProject: where a command run for project x finds the bucket ...
Reached(x) == IF env # NoEndpoint THEN [x EXCEPT !.endpoint = env] ELSE x

\* ... if it is told by one or the other.
Reaches(x) == Reached(x).endpoint # NoEndpoint

Idle == [at |-> "idle"]
InitJob == [at: {"initOpen", "initWrite"}, key: Keys]
LoginJob == [at: {"loginOpen", "loginWrite"}, server: Servers]
StatJob == [at: {"projectStat"}, project: Projects, key: Keys, force: BOOLEAN]
ProjectJob == [at: {"projectLoad"}, project: Projects, key: Keys]
DeviceJob == [at: {"projectPut"}, project: Projects, list: SUBSET Keys]
FileJob == [at: {"projectOpen", "projectWrite"}, project: Projects]
PlaceJob == [at: {"open"}, place: Place]
AskJob == [at: {"joinPut"}, place: Place, key: Keys]
ListJob == [at: {"listPut"}, place: Place, list: SUBSET Keys, empties: BOOLEAN]

Job == {Idle} \cup InitJob \cup LoginJob \cup StatJob \cup ProjectJob \cup DeviceJob
         \cup FileJob \cup PlaceJob \cup AskJob \cup ListJob

TypeOK ==
  /\ keyFile \in File(Keys)
  /\ authFile \in File(Servers)
  /\ projectFile \in File(Setting)
  /\ lists \in [Place -> SUBSET Keys]
  /\ asked \subseteq Keys
  /\ job \in [Shell -> Job]
  /\ env \in Environments
  /\ drawn \subseteq Keys
  /\ forced \subseteq {"key", "project"}
  /\ emptied \subseteq Place
  /\ cut \in BOOLEAN
  /\ overlapped \in BOOLEAN

Init ==
  /\ keyFile = Absent /\ authFile = Absent /\ projectFile = Absent
  /\ lists = [x \in Place |-> {}]
  /\ asked = {}
  /\ job = [p \in Shell |-> Idle]
  /\ env \in Environments
  /\ drawn = {}
  /\ forced = {} /\ emptied = {}
  /\ cut = FALSE
  /\ overlapped = FALSE

At(p, a) == job[p].at = a
Goto(p, j) == job' = [job EXCEPT ![p] = j]

\* The user starts a command in shell p, with --force for the files in f.
Start(p, f) ==
  /\ At(p, "idle")
  /\ overlapped' = (overlapped \/ \E q \in Shell \ {p} : ~At(q, "idle"))
  /\ forced' = IF overlapped' THEN {} ELSE forced \cup f
  /\ cut' = (cut /\ ~overlapped')
  /\ UNCHANGED env

\* A command that runs takes a step.
Step == UNCHANGED <<env, forced, cut, overlapped>>

-----------------------------------------------------------------------------
(***************************************************************************)
(* envlock init: generate a key; unless --force is given see that there is *)
(* no key file; truncate the file; write it and print the public key.      *)
(***************************************************************************)

\* Mutant: the file is not looked at.
InitUnchecked(force) == TRUE

\* WriteIdentity: any file there is refused, whatever it holds.
InitAllowed(force) == force \/ ~keyFile.there

InitCheck(p) ==
  \E k \in Keys \ drawn, force \in BOOLEAN :
    /\ Start(p, IF force THEN {"key"} ELSE {})
    /\ InitAllowed(force)
    /\ drawn' = drawn \cup {k}
    /\ Goto(p, [at |-> "initOpen", key |-> k])
    /\ UNCHANGED files /\ UNCHANGED bucket

\* Mutant: the file is opened without O_TRUNC.
InitOpenKeeps(p) ==
  /\ At(p, "initOpen")
  /\ keyFile' = [keyFile EXCEPT !.there = TRUE]
  /\ Goto(p, [job[p] EXCEPT !.at = "initWrite"])
  /\ UNCHANGED <<authFile, projectFile, drawn>> /\ UNCHANGED bucket /\ Step

InitOpen(p) ==
  /\ At(p, "initOpen")
  /\ keyFile' = Truncated
  /\ Goto(p, [job[p] EXCEPT !.at = "initWrite"])
  /\ UNCHANGED <<authFile, projectFile, drawn>> /\ UNCHANGED bucket /\ Step

InitWrite(p) ==
  /\ At(p, "initWrite")
  /\ keyFile' = KeyAfter(keyFile, job[p].key, Size[job[p].key])
  /\ Goto(p, Idle)
  /\ UNCHANGED <<authFile, projectFile, drawn>> /\ UNCHANGED bucket /\ Step

\* Mutant: the file is there.
KeyThere == keyFile.there

\* LoadIdentity finds an identity in the key file.
KeyLoads == keyFile.doc # Nothing

-----------------------------------------------------------------------------
(***************************************************************************)
(* envlock login: load the auth file, if there is one; get a token; then   *)
(* truncate the file and write the whole state.                            *)
(***************************************************************************)

\* Mutant: an empty file is not accepted for an auth file.
AuthLoadsFull == ~authFile.there \/ authFile.doc # Nothing

\* Load: no file, or an empty one, which decodes to an empty state, or a
\* state.
AuthLoads == authFile.size = 0 \/ authFile.doc # Nothing

\* The server is that of --server or the one in the file; nothing else of
\* what was loaded is kept.
LoginLoad(p) ==
  \E s \in Servers :
    /\ Start(p, {})
    /\ AuthLoads
    /\ Goto(p, [at |-> "loginOpen", server |-> s])
    /\ UNCHANGED files /\ UNCHANGED bucket /\ UNCHANGED drawn

LoginOpen(p) ==
  /\ At(p, "loginOpen")
  /\ authFile' = Truncated
  /\ Goto(p, [job[p] EXCEPT !.at = "loginWrite"])
  /\ UNCHANGED <<keyFile, projectFile, drawn>> /\ UNCHANGED bucket /\ Step

LoginWrite(p) ==
  /\ At(p, "loginWrite")
  /\ authFile' \in TomlAfter(authFile, job[p].server, Size[job[p].server])
  /\ Goto(p, Idle)
  /\ UNCHANGED <<keyFile, projectFile, drawn>> /\ UNCHANGED bucket /\ Step

-----------------------------------------------------------------------------
(***************************************************************************)
(* envlock project init: load the key, see whether there is a project      *)
(* file, load recipients.json, write it with this device, and then write   *)
(* the project file.                                                       *)
(***************************************************************************)
ProjectKey(p) ==
  \E x \in Projects, force \in BOOLEAN :
    /\ Start(p, IF force THEN {"project"} ELSE {})
    /\ KeyLoads
    /\ Goto(p, [at |-> "projectStat", project |-> x, key |-> keyFile.doc,
                force |-> force])
    /\ UNCHANGED files /\ UNCHANGED bucket /\ UNCHANGED drawn

\* Mutant: a project file is overwritten without --force.
ProjectUnchecked(p) == TRUE

ProjectAllowed(p) == job[p].force \/ ~projectFile.there

ProjectStat(p) ==
  /\ At(p, "projectStat")
  /\ IF ProjectAllowed(p)
       THEN Goto(p, [at |-> "projectLoad", project |-> job[p].project, key |-> job[p].key])
       ELSE Goto(p, Idle)
  /\ UNCHANGED files /\ UNCHANGED bucket /\ UNCHANGED drawn /\ Step

\* Store.Add of key k, under a name given with --name or stored with the
\* key.  The name may be that of any entry there is, and the refusal of a
\* duplicate is ignored here.
WithDevice(list, k) == {list \cup {k}} \cup ({list} \ {{}})

ProjectLoad(p) ==
  LET x == job[p].project IN
    /\ At(p, "projectLoad")
    /\ \/ /\ Reaches(x)
          /\ \E list \in WithDevice(lists[Reached(x)], job[p].key) :
               Goto(p, [at |-> "projectPut", project |-> x, list |-> list])
       \/ /\ ~Reaches(x)
          /\ Goto(p, Idle)
    /\ UNCHANGED files /\ UNCHANGED bucket /\ UNCHANGED drawn /\ Step

\* Mutant: the project file is written and the recipients are not.
ProjectNotPut(p) ==
  /\ At(p, "projectPut")
  /\ Goto(p, [at |-> "projectOpen", project |-> job[p].project])
  /\ UNCHANGED files /\ UNCHANGED bucket /\ UNCHANGED drawn /\ Step

ProjectPut(p) ==
  /\ At(p, "projectPut")
  /\ lists' = [lists EXCEPT ![Reached(job[p].project)] = job[p].list]
  /\ emptied' = emptied \ {Reached(job[p].project)}
  /\ Goto(p, [at |-> "projectOpen", project |-> job[p].project])
  /\ UNCHANGED files /\ UNCHANGED <<asked, drawn>> /\ Step

ProjectOpen(p) ==
  /\ At(p, "projectOpen")
  /\ projectFile' = Truncated
  /\ Goto(p, [job[p] EXCEPT !.at = "projectWrite"])
  /\ UNCHANGED <<keyFile, authFile, drawn>> /\ UNCHANGED bucket /\ Step

ProjectWrite(p) ==
  /\ At(p, "projectWrite")
  /\ projectFile' \in ProjectAfter(projectFile, job[p].project)
  /\ Goto(p, Idle)
  /\ UNCHANGED <<keyFile, authFile, drawn>> /\ UNCHANGED bucket /\ Step

-----------------------------------------------------------------------------
(***************************************************************************)
(* The commands of a project directory, as far as they depend on its file, *)
(* on the key or change the recipients: enroll join; recipients add and    *)
(* enroll approve; recipients remove.                                      *)
(***************************************************************************)

\* An empty project file decodes, but remote.New refuses its prefix.
ProjectLoads == projectFile.doc # Nothing /\ Reaches(projectFile.doc)

OpenProject(p) ==
  /\ Start(p, {})
  /\ ProjectLoads
  /\ Goto(p, [at |-> "open", place |-> Reached(projectFile.doc)])
  /\ UNCHANGED files /\ UNCHANGED bucket /\ UNCHANGED drawn

JoinKey(p) ==
  /\ At(p, "open")
  /\ KeyLoads
  /\ Goto(p, [at |-> "joinPut", place |-> job[p].place, key |-> keyFile.doc])
  /\ UNCHANGED files /\ UNCHANGED bucket /\ UNCHANGED drawn /\ Step

JoinPut(p) ==
  /\ At(p, "joinPut")
  /\ asked' = asked \cup {job[p].key}
  /\ Goto(p, Idle)
  /\ UNCHANGED files /\ UNCHANGED <<lists, emptied, drawn>> /\ Step

\* The recipients are loaded; the command goes on to save list.
ListChanged(p, list, hard) ==
  /\ Goto(p, [at |-> "listPut", place |-> job[p].place, list |-> list,
              empties |-> hard /\ list = {}])
  /\ UNCHANGED files /\ UNCHANGED bucket /\ UNCHANGED drawn /\ Step

\* A key the user has been shown: the one in the key file, or one in a request.
ShownKeys == asked \cup ({keyFile.doc} \ {Nothing})

\* enroll approve saves the list also when the device is a duplicate.
AddLoad(p) ==
  /\ At(p, "open")
  /\ \E k \in ShownKeys : \E list \in WithDevice(lists[job[p].place], k) :
       ListChanged(p, list, FALSE)

\* remove marks an entry that it finds, remove --hard deletes it.
RemoveLoad(p) ==
  /\ At(p, "open")
  /\ LET list == lists[job[p].place] IN
       \E k \in list, hard \in BOOLEAN :
         ListChanged(p, IF hard THEN list \ {k} ELSE list, hard)

\* There is no key, no entry that matches, or the entry is there already.
Refused(p) ==
  /\ At(p, "open")
  /\ Goto(p, Idle)
  /\ UNCHANGED files /\ UNCHANGED bucket /\ UNCHANGED drawn /\ Step

ListPut(p) ==
  /\ At(p, "listPut")
  /\ lists' = [lists EXCEPT ![job[p].place] = job[p].list]
  /\ emptied' = IF job[p].empties THEN emptied \cup {job[p].place}
                ELSE emptied \ {job[p].place}
  /\ Goto(p, Idle)
  /\ UNCHANGED files /\ UNCHANGED <<asked, drawn>> /\ Step

-----------------------------------------------------------------------------
\* A command is killed or one of its calls fails.
Abort(p) ==
  /\ ~At(p, "idle")
  /\ cut' = ~overlapped
  /\ Goto(p, Idle)
  /\ UNCHANGED files /\ UNCHANGED bucket /\ UNCHANGED <<env, drawn, forced, overlapped>>

Next ==
  \E p \in Shell :
    \/ InitCheck(p) \/ InitOpen(p) \/ InitWrite(p)
    \/ LoginLoad(p) \/ LoginOpen(p) \/ LoginWrite(p)
    \/ ProjectKey(p) \/ ProjectStat(p) \/ ProjectLoad(p) \/ ProjectPut(p)
    \/ ProjectOpen(p) \/ ProjectWrite(p)
    \/ OpenProject(p) \/ JoinKey(p) \/ JoinPut(p)
    \/ AddLoad(p) \/ RemoveLoad(p) \/ Refused(p) \/ ListPut(p)
    \/ Abort(p)

Spec == Init /\ [][Next]_vars

-----------------------------------------------------------------------------
\* A device that is listed, or has asked to be, still has its identity,
\* unless the user gave init --force or ran commands at the same time: an
\* interrupted init leaves no key that has been shown to anybody.
HeldBy(k) == keyFile.doc = k

ListedKeyHeld ==
  ~overlapped /\ "key" \notin forced =>
    /\ \A x \in Place : \A k \in lists[x] : HeldBy(k)
    /\ \A k \in asked : HeldBy(k)

\* Somebody is listed at place x, or remove --hard took the last one away.
Backed(x) == lists[x] # {} \/ x \in emptied

\* A project file that can be read leads to recipients that were saved, and
\* to an empty list only after a remove --hard, although inits of several
\* projects may write over each other's file, commands may save lists they
\* loaded long before, and each may stop anywhere; and a device that asks to
\* join asks at such a place.
ProjectBacked ==
  /\ projectFile.doc # Nothing => /\ Reaches(projectFile.doc)
                                  /\ Backed(Reached(projectFile.doc))
  /\ \A p \in Shell : At(p, "joinPut") => Backed(job[p].place)

\* Whatever login was interrupted, login can be run again, unless two of
\* them have written at once.
LoginRepeatable == ~overlapped => AuthLoads

\* Where a command finds no key and says to run init first, init without
\* --force is not refused, whatever was forced before: only a command cut
\* short or commands run at the same time leave a key file without a key,
\* and an init that is about to write one.
InitFirstHelps ==
  ~cut /\ ~overlapped /\ ~KeyLoads
    => InitAllowed(FALSE) \/ \E p \in Shell : At(p, "initWrite")

\* A project file that can be read is replaced by init --force only.
ProjectKept ==
  [][~overlapped' /\ projectFile.doc # Nothing /\ "project" \notin forced'
       => projectFile' = projectFile]_vars

(***************************************************************************)
(* The inductive invariant behind these properties: what a command that is *)
(* under way knows of the bucket, and of the files when it runs alone.     *)
(***************************************************************************)

\* --force has not been given for file f.
Unforced(f) == f \notin forced

\* Job j will not name a project without recipients.
JobBacked(j) ==
  /\ j.at = "projectPut" => Reaches(j.project) /\ j.list # {}
  /\ j.at \in {"projectOpen", "projectWrite"}
       => Reaches(j.project) /\ Backed(Reached(j.project))
  /\ j.at \in {"open", "joinPut"} => Backed(j.place)
  /\ j.at = "listPut" => j.empties \/ j.list # {}

\* Job j, when it runs alone.
JobAlone(j) ==
  /\ j.at = "initOpen" /\ Unforced("key") => ~keyFile.there
  /\ j.at = "initWrite" => keyFile.doc = Nothing /\ keyFile.size = 0
  /\ j.at = "projectStat" /\ j.force => ~Unforced("project")
  /\ j.at \in {"projectStat", "projectLoad", "joinPut"} /\ Unforced("key")
       => HeldBy(j.key)
  /\ j.at \in {"projectPut", "listPut"} /\ Unforced("key") => \A k \in j.list : HeldBy(k)
  /\ j.at \in {"projectLoad", "projectPut", "projectOpen", "projectWrite"}
       /\ Unforced("project") => projectFile.doc = Nothing
  /\ j.at = "loginWrite" => authFile.size = 0

OneJob == \A p, q \in Shell : ~At(p, "idle") /\ ~At(q, "idle") => p = q

FInv ==
  /\ TypeOK
  /\ ~keyFile.there => keyFile.doc = Nothing
  /\ ~projectFile.there => projectFile.doc = Nothing
  /\ \A p \in Shell : JobBacked(job[p])
  /\ ~overlapped => OneJob /\ \A p \in Shell : JobAlone(job[p])
  /\ ListedKeyHeld
  /\ ProjectBacked
  /\ LoginRepeatable

=============================================================================
