-------------------------- MODULE LocalFilesProofs --------------------------
(***************************************************************************)
(* The properties of the files of a machine, for any number of shells,     *)
(* keys, projects, servers and commands cut short, and documents of any    *)
(* size.  FInv is inductive; every action moves one shell to another job,  *)
(* and GotoStep says what is left to show of it.                           *)
(***************************************************************************)
EXTENDS LocalFiles, TLAPS

DataType ==
  /\ keyFile \in File(Keys) /\ authFile \in File(Servers)
  /\ projectFile \in File(Setting)
  /\ lists \in [Place -> SUBSET Keys]
  /\ asked \subseteq Keys /\ drawn \subseteq Keys
  /\ env \in Environments
  /\ forced \subseteq {"key", "project"}
  /\ emptied \subseteq Place
  /\ cut \in BOOLEAN /\ overlapped \in BOOLEAN

\* What FInv says of the files.
FilesOK ==
  /\ ~keyFile.there => keyFile.doc = Nothing
  /\ ~projectFile.there => projectFile.doc = Nothing
  /\ projectFile.doc # Nothing => Reaches(projectFile.doc) /\ Backed(Reached(projectFile.doc))

\* A step leaves a place backed.
StaysBacked == env' = env /\ \A x \in Place : Backed(x) => Backed(x)'

\* The step of shell p leaves it alone if it is alone.
StaysAlone(p) ==
  ~overlapped' => ~overlapped /\ \A q \in Shell \ {p} : At(q, "idle")

\* The step a job is at tells what it holds.
LEMMA JobShape ==
  ASSUME NEW j \in Job
  PROVE  /\ j.at = "idle" => j = Idle
         /\ j.at \in {"initOpen", "initWrite"} => j \in InitJob
         /\ j.at \in {"loginOpen", "loginWrite"} => j \in LoginJob
         /\ j.at = "projectStat" => j \in StatJob
         /\ j.at = "projectLoad" => j \in ProjectJob
         /\ j.at = "projectPut" => j \in DeviceJob
         /\ j.at \in {"projectOpen", "projectWrite"} => j \in FileJob
         /\ j.at = "open" => j \in PlaceJob
         /\ j.at = "joinPut" => j \in AskJob
         /\ j.at = "listPut" => j \in ListJob
BY DEF Job, Idle, InitJob, LoginJob, StatJob, ProjectJob, DeviceJob, FileJob, PlaceJob,
   AskJob, ListJob

\* A shell at its prompt holds nothing that could go stale.
LEMMA IdleJob == Idle \in Job /\ JobBacked(Idle)' /\ JobAlone(Idle)'
BY DEF Idle, Job, JobBacked, JobAlone

\* Types of the files and of the jobs, apart.
LEMMA TypeParts == TypeOK <=> DataType /\ job \in [Shell -> Job]
BY DEF TypeOK, DataType

\* The place where a project is kept, and that it does not move.
LEMMA ReachedPlace ==
  ASSUME NEW x \in Setting, env \in Environments
  PROVE  /\ Reaches(x) => Reached(x) \in Place
         /\ UNCHANGED env => Reached(x)' = Reached(x) /\ (Reaches(x)' <=> Reaches(x))
<1>1. Environments \subseteq Endpoints \cup {NoEndpoint}
  BY LocalFilesAssumption
<1> QED
  BY <1>1 DEF Setting, Place, Reached, Reaches

\* What a job relies on stays there, whoever takes a step.
LEMMA JobStaysBacked ==
  ASSUME NEW k \in Job, JobBacked(k), env \in Environments, StaysBacked
  PROVE  JobBacked(k)'
<1>1. \A x \in Projects : /\ Reached(x)' = Reached(x) /\ (Reaches(x)' <=> Reaches(x))
                          /\ Reaches(x) => Reached(x) \in Place
  BY ReachedPlace, LocalFilesAssumption DEF StaysBacked
<1>2. k.at \in {"projectPut", "projectOpen", "projectWrite"} => k.project \in Projects
  BY JobShape DEF DeviceJob, FileJob
<1>3. k.at \in {"open", "joinPut"} => k.place \in Place
  BY JobShape DEF PlaceJob, AskJob
<1>4. ASSUME k.at \in {"projectOpen", "projectWrite"}
      PROVE  Reaches(k.project)' /\ Backed(Reached(k.project))'
  <2>1. Reaches(k.project) /\ Backed(Reached(k.project))
    BY <1>4 DEF JobBacked
  <2>2. PICK y \in Place : y = Reached(k.project) /\ y = Reached(k.project)' /\ Backed(y)'
    BY <1>1, <1>2, <1>4, <2>1 DEF StaysBacked
  <2> QED
    BY <1>1, <1>2, <1>4, <2>1, <2>2 DEF Backed
<1> QED
  BY <1>1, <1>2, <1>3, <1>4 DEF JobBacked, StaysBacked

\* Shell p goes on with job j.
LEMMA GotoStep ==
  ASSUME FInv, NEW p \in Shell, NEW j \in Job, Goto(p, j),
         DataType', FilesOK', StaysBacked, StaysAlone(p),
         JobBacked(j)', ~overlapped' => JobAlone(j)',
         ListedKeyHeld', LoginRepeatable'
  PROVE  FInv'
<1>1. job' \in [Shell -> Job] /\ job'[p] = j /\ \A q \in Shell \ {p} : job'[q] = job[q]
  BY TypeParts DEF FInv, Goto
<1>2. \A q \in Shell : JobBacked(job[q])'
  <2> TAKE q \in Shell
  <2>1. CASE q = p
    BY <1>1, <2>1 DEF JobBacked
  <2>2. CASE q # p
    <3>1. PICK k \in Job : k = job[q] /\ k = job'[q] /\ JobBacked(k)
      BY <1>1, <2>2, TypeParts DEF FInv
    <3>2. JobBacked(k)'
      BY <3>1, JobStaysBacked DEF FInv, TypeOK
    <3> QED
      BY <3>1, <3>2
  <2> QED
    BY <2>1, <2>2
<1>3. ASSUME ~overlapped'
      PROVE  OneJob' /\ \A q \in Shell : JobAlone(job[q])'
  <2>1. \A q \in Shell \ {p} : job'[q].at = "idle"
    BY <1>1, <1>3 DEF StaysAlone, At
  <2>2. OneJob'
    BY <2>1 DEF OneJob, At
  <2>3. \A q \in Shell : JobAlone(job[q])'
    BY <1>1, <1>3, <2>1 DEF JobAlone
  <2> QED
    BY <2>2, <2>3
<1>4. ProjectBacked'
  BY <1>2 DEF ProjectBacked, FilesOK, JobBacked, At
<1>5. TypeOK'
  BY <1>1 DEF TypeOK, DataType
<1> QED
  BY <1>2, <1>3, <1>4, <1>5 DEF FInv, FilesOK

\* A step that neither writes the project file nor saves recipients leaves
\* the file backed.
LEMMA FilesStay ==
  ASSUME FInv, UNCHANGED <<projectFile, lists, emptied, env>>,
         ~keyFile'.there => keyFile'.doc = Nothing
  PROVE  FilesOK' /\ StaysBacked
<1>1. StaysBacked
  BY DEF StaysBacked, Backed
<1>2. projectFile.doc # Nothing => projectFile.doc \in Setting
  BY DEF FInv, TypeOK, File
<1> QED
  BY <1>1, <1>2 DEF FInv, FilesOK, ProjectBacked, Reached, Reaches, Backed

\* A command that starts, and one that goes on, is alone or not; what it may
\* do by force is remembered as long as it is.
LEMMA StartAlone ==
  ASSUME FInv, NEW p \in Shell, NEW f \in SUBSET {"key", "project"}, Start(p, f)
  PROVE  /\ StaysAlone(p)
         /\ forced' \subseteq {"key", "project"} /\ cut' \in BOOLEAN
         /\ overlapped' \in BOOLEAN /\ env' = env
         /\ ~overlapped' => forced' = forced \cup f
BY DEF Start, StaysAlone, FInv, TypeOK

\* Without overlap the shell that takes a step is the only busy one.
LEMMA StepAlone ==
  ASSUME FInv, NEW p \in Shell, ~At(p, "idle"), UNCHANGED overlapped
  PROVE  StaysAlone(p)
BY DEF FInv, OneJob, StaysAlone

\* A file that has just been opened with O_TRUNC is a file.
LEMMA TruncatedType == \A S : Truncated \in File(S)
BY DEF Truncated, File

\* A document written into a file leaves a file.
LEMMA WriteType ==
  ASSUME NEW S, NEW f \in File(S), NEW d \in S, NEW n \in Nat
  PROVE  /\ KeyAfter(f, d, n) \in File(S)
         /\ \A g \in TomlAfter(f, d, n) : /\ g \in File(S)
                                          /\ g.doc \in {d, Nothing}
                                          /\ ~g.there => g.doc = Nothing
                                          /\ f.size <= n => g.doc = d
<1>1. /\ f.there \in BOOLEAN /\ f.doc \in S \cup {Nothing} /\ f.size \in Nat
  BY DEF File
<1>2. \A m \in Nat : Whole(d, m) \in File(S) /\ Whole(d, m).doc = d /\ Whole(d, m).there
  BY DEF Whole, File
<1>3. LET g == [f EXCEPT !.doc = Nothing]
      IN g \in File(S) /\ g.doc = Nothing
  BY DEF File
<1>4. (IF f.size > n THEN f.size ELSE n) \in Nat
  BY <1>1
<1>5. /\ KeyAfter(f, d, n) \in File(S)
      /\ KeyAfter(f, d, n).doc \in {d, Nothing}
      /\ ~KeyAfter(f, d, n).there => KeyAfter(f, d, n).doc = Nothing
      /\ f.size <= n => KeyAfter(f, d, n).doc = d
  BY <1>2, <1>3 DEF KeyAfter
<1> QED
  BY <1>2, <1>4, <1>5 DEF TomlAfter

\* Documents have a length.
LEMMA SizeType ==
  ASSUME NEW d \in Keys \cup Projects \cup Servers
  PROVE  Size[d] \in Nat
BY LocalFilesAssumption

\* What an empty or a spoiled file holds is no document.
LEMMA NoDocument == Nothing \notin Keys /\ Nothing \notin Setting /\ Nothing \notin Servers
BY LocalFilesAssumption

\* Whatever is left behind a project that is written, its recipients are
\* found where those of the project are: an endpoint is left only where the
\* project has none, and then the environment has one.
LEMMA ProjectAfterPlace ==
  ASSUME NEW f \in File(Setting), NEW x \in Projects, Reaches(x), env \in Environments,
         NEW g \in ProjectAfter(f, x)
  PROVE  /\ g \in File(Setting)
         /\ ~g.there => g.doc = Nothing
         /\ g.doc # Nothing => Reaches(g.doc) /\ Reached(g.doc) = Reached(x)
<1>1. x \in Setting /\ Size[x] \in Nat /\ f.size \in Nat
  BY SizeType, LocalFilesAssumption DEF File
<1>2. CASE g \in TomlAfter(f, x, Size[x])
  BY <1>1, <1>2, WriteType
<1>3. ASSUME g \notin TomlAfter(f, x, Size[x]) PROVE
        /\ x.endpoint = NoEndpoint
        /\ \E e \in Endpoints \cup {NoEndpoint} : g = Whole([x EXCEPT !.endpoint = e], f.size)
  BY <1>3 DEF ProjectAfter, EndpointsIn, File, Setting
<1>4. CASE g \notin TomlAfter(f, x, Size[x])
  <2>1. PICK e \in Endpoints \cup {NoEndpoint} :
          g = Whole([x EXCEPT !.endpoint = e], f.size)
    BY <1>3, <1>4
  <2>2. PICK y \in Setting : y = [x EXCEPT !.endpoint = e]
    BY <1>1 DEF Setting
  <2>3. g \in File(Setting) /\ g.doc = y /\ g.there
    BY <1>1, <2>1, <2>2 DEF Whole, File
  <2>4. env # NoEndpoint
    BY <1>3, <1>4 DEF Reaches, Reached
  <2>5. Reached(y) = Reached(x)
    BY <1>1, <2>2, <2>4 DEF Reached, Setting
  <2> QED
    BY <2>3, <2>5 DEF Reaches
<1> QED
  BY <1>2, <1>4

\* A command starts in shell p and has only read files so far.
LEMMA BeginStep ==
  ASSUME FInv, NEW p \in Shell, NEW f \in SUBSET {"key", "project"}, Start(p, f),
         NEW j \in Job, Goto(p, j), UNCHANGED files, UNCHANGED bucket, drawn' \subseteq Keys,
         JobBacked(j)', ~overlapped' => JobAlone(j)'
  PROVE  FInv'
<1>1. UNCHANGED <<keyFile, authFile, projectFile, lists, asked, emptied>>
  BY DEF files, bucket
<1>2. /\ StaysAlone(p)
      /\ forced' \subseteq {"key", "project"} /\ cut' \in BOOLEAN
      /\ overlapped' \in BOOLEAN /\ env' = env
      /\ ~overlapped' => forced' = forced \cup f
  BY StartAlone
<1>3. DataType'
  BY <1>1, <1>2 DEF FInv, TypeOK, DataType
<1>4. FilesOK' /\ StaysBacked
  BY <1>1, <1>2, FilesStay DEF FInv
<1>5. ListedKeyHeld' /\ LoginRepeatable'
  BY <1>1, <1>2 DEF FInv, StaysAlone, ListedKeyHeld, HeldBy, LoginRepeatable, AuthLoads
<1> QED
  BY <1>2, <1>3, <1>4, <1>5, GotoStep

\* A command goes on in shell p without touching files or bucket.
LEMMA ReadStep ==
  ASSUME FInv, NEW p \in Shell, ~At(p, "idle"), NEW j \in Job, Goto(p, j),
         UNCHANGED files, UNCHANGED bucket, UNCHANGED drawn, Step,
         JobBacked(j)', ~overlapped' => JobAlone(j)'
  PROVE  FInv'
<1>1. UNCHANGED <<keyFile, authFile, projectFile, lists, asked, emptied, env, drawn, forced,
                  cut, overlapped>>
  BY DEF files, bucket, Step
<1>2. StaysAlone(p)
  BY <1>1, StepAlone
<1>3. DataType'
  BY <1>1 DEF FInv, TypeOK, DataType
<1>4. FilesOK' /\ StaysBacked
  BY <1>1, FilesStay DEF FInv
<1>5. ListedKeyHeld' /\ LoginRepeatable'
  BY <1>1 DEF FInv, ListedKeyHeld, HeldBy, LoginRepeatable, AuthLoads
<1> QED
  BY <1>2, <1>3, <1>4, <1>5, GotoStep

-----------------------------------------------------------------------------
(***************************************************************************)
(* envlock init.                                                           *)
(***************************************************************************)
LEMMA InitCheckStep ==
  ASSUME FInv, NEW p \in Shell, InitCheck(p)
  PROVE  FInv'
<1>1. PICK k \in Keys, force \in BOOLEAN :
        /\ Start(p, IF force THEN {"key"} ELSE {}) /\ InitAllowed(force)
        /\ drawn' = drawn \cup {k}
        /\ Goto(p, [at |-> "initOpen", key |-> k])
        /\ UNCHANGED files /\ UNCHANGED bucket
  BY DEF InitCheck
<1>2. PICK j \in Job : j = [at |-> "initOpen", key |-> k]
  BY DEF Job, InitJob
<1>3. PICK f \in SUBSET {"key", "project"} : f = IF force THEN {"key"} ELSE {}
  OBVIOUS
<1>4. ~overlapped' => forced' = forced \cup f
  BY <1>1, <1>3, StartAlone
<1>5. JobBacked(j)' /\ (~overlapped' => JobAlone(j)')
  BY <1>1, <1>2, <1>3, <1>4 DEF JobBacked, JobAlone, InitAllowed, Unforced, files
<1>6. drawn' \subseteq Keys
  BY <1>1 DEF FInv, TypeOK
<1> QED
  BY <1>1, <1>2, <1>3, <1>5, <1>6, BeginStep

\* envlock init truncates the key file.
LEMMA InitOpenStep ==
  ASSUME FInv, NEW p \in Shell, InitOpen(p)
  PROVE  FInv'
<1>1. PICK i \in InitJob : i = job[p] /\ i.at = "initOpen"
  BY JobShape DEF InitOpen, At, FInv, TypeOK
<1>2. PICK j \in Job : j = [i EXCEPT !.at = "initWrite"] /\ j.at = "initWrite" /\ j.key = i.key
  <2> DEFINE j == [i EXCEPT !.at = "initWrite"]
  <2>1. j \in InitJob /\ j.at = "initWrite" /\ j.key = i.key
    BY DEF InitJob
  <2>2. j \in Job
    BY <2>1 DEF Job
  <2> QED
    BY <2>1, <2>2
<1>3. /\ keyFile' = Truncated /\ Goto(p, j)
      /\ UNCHANGED <<authFile, projectFile, lists, asked, emptied, env, drawn, forced, cut,
                     overlapped>>
  BY <1>1, <1>2 DEF InitOpen, bucket, Step
<1>4. StaysAlone(p)
  BY <1>3, StepAlone DEF InitOpen, At
<1>5. DataType'
  BY <1>3, TruncatedType DEF FInv, TypeOK, DataType
<1>6. FilesOK' /\ StaysBacked
  BY <1>3, FilesStay DEF Truncated
<1>7. JobBacked(j)' /\ JobAlone(j)'
  BY <1>2, <1>3 DEF JobBacked, JobAlone, Truncated
<1>8. ListedKeyHeld'
  <2>1. ASSUME ~overlapped, "key" \notin forced
        PROVE  keyFile.doc = Nothing
    BY <1>1, <2>1 DEF FInv, JobAlone, Unforced
  <2> QED
    BY <1>3, <2>1, NoDocument DEF FInv, TypeOK, ListedKeyHeld, HeldBy, Truncated
<1>9. LoginRepeatable'
  BY <1>3 DEF FInv, LoginRepeatable, AuthLoads
<1> QED
  BY <1>3, <1>4, <1>5, <1>6, <1>7, <1>8, <1>9, GotoStep

\* envlock init writes the key it has drawn.
LEMMA InitWriteStep ==
  ASSUME FInv, NEW p \in Shell, InitWrite(p)
  PROVE  FInv'
<1>1. PICK i \in InitJob : i = job[p] /\ i.at = "initWrite"
  BY JobShape DEF InitWrite, At, FInv, TypeOK
<1>2. /\ keyFile' = KeyAfter(keyFile, i.key, Size[i.key]) /\ Goto(p, Idle)
      /\ UNCHANGED <<authFile, projectFile, lists, asked, emptied, env, drawn, forced, cut,
                     overlapped>>
  BY <1>1 DEF InitWrite, bucket, Step
<1>3. StaysAlone(p)
  BY <1>2, StepAlone DEF InitWrite, At
<1>4. /\ keyFile' \in File(Keys)
      /\ ~keyFile'.there => keyFile'.doc = Nothing
  <2>1. i.key \in Keys /\ Size[i.key] \in Nat /\ keyFile \in File(Keys)
    BY SizeType DEF InitJob, FInv, TypeOK
  <2>2. keyFile' \in File(Keys)
    BY <1>2, <2>1, WriteType
  <2>3. ~keyFile'.there => keyFile'.doc = Nothing
    BY <1>2 DEF KeyAfter, Whole, FInv
  <2> QED
    BY <2>2, <2>3
<1>5. DataType'
  BY <1>2, <1>4 DEF FInv, TypeOK, DataType
<1>6. FilesOK' /\ StaysBacked
  BY <1>2, <1>4, FilesStay
<1>7. ListedKeyHeld'
  <2>1. ASSUME ~overlapped PROVE  keyFile.doc = Nothing
    BY <1>1, <2>1 DEF FInv, JobAlone
  <2> QED
    BY <1>2, <2>1, NoDocument DEF FInv, TypeOK, ListedKeyHeld, HeldBy
<1>8. LoginRepeatable'
  BY <1>2 DEF FInv, LoginRepeatable, AuthLoads
<1> QED
  BY <1>2, <1>3, <1>5, <1>6, <1>7, <1>8, GotoStep, IdleJob

-----------------------------------------------------------------------------
(***************************************************************************)
(* envlock login.                                                          *)
(***************************************************************************)
LEMMA LoginLoadStep ==
  ASSUME FInv, NEW p \in Shell, LoginLoad(p)
  PROVE  FInv'
<1>1. PICK s \in Servers :
        /\ Start(p, {})
        /\ Goto(p, [at |-> "loginOpen", server |-> s])
        /\ UNCHANGED files /\ UNCHANGED bucket /\ UNCHANGED drawn
  BY DEF LoginLoad
<1>2. PICK j \in Job : j = [at |-> "loginOpen", server |-> s]
  BY DEF Job, LoginJob
<1>3. JobBacked(j)' /\ JobAlone(j)'
  BY <1>2 DEF JobBacked, JobAlone
<1>4. drawn' \subseteq Keys
  BY <1>1 DEF FInv, TypeOK
<1> QED
  BY <1>1, <1>2, <1>3, <1>4, BeginStep

\* login truncates the auth file.
LEMMA LoginOpenStep ==
  ASSUME FInv, NEW p \in Shell, LoginOpen(p)
  PROVE  FInv'
<1>1. PICK i \in LoginJob : i = job[p] /\ i.at = "loginOpen"
  BY JobShape DEF LoginOpen, At, FInv, TypeOK
<1>2. PICK j \in Job : j = [i EXCEPT !.at = "loginWrite"] /\ j.at = "loginWrite"
  <2> DEFINE j == [i EXCEPT !.at = "loginWrite"]
  <2>1. j \in LoginJob /\ j.at = "loginWrite"
    BY DEF LoginJob
  <2>2. j \in Job
    BY <2>1 DEF Job
  <2> QED
    BY <2>1, <2>2
<1>3. /\ authFile' = Truncated /\ Goto(p, j)
      /\ UNCHANGED <<keyFile, projectFile, lists, asked, emptied, env, drawn, forced, cut,
                     overlapped>>
  BY <1>1, <1>2 DEF LoginOpen, bucket, Step
<1>4. StaysAlone(p)
  BY <1>3, StepAlone DEF LoginOpen, At
<1>5. DataType'
  BY <1>3, TruncatedType DEF FInv, TypeOK, DataType
<1>6. FilesOK' /\ StaysBacked
  BY <1>3, FilesStay DEF FInv
<1>7. JobBacked(j)' /\ JobAlone(j)'
  BY <1>2, <1>3 DEF JobBacked, JobAlone, Truncated
<1>8. ListedKeyHeld' /\ LoginRepeatable'
  BY <1>3 DEF FInv, ListedKeyHeld, HeldBy, LoginRepeatable, AuthLoads, Truncated
<1> QED
  BY <1>3, <1>4, <1>5, <1>6, <1>7, <1>8, GotoStep

\* login writes the auth file.
LEMMA LoginWriteStep ==
  ASSUME FInv, NEW p \in Shell, LoginWrite(p)
  PROVE  FInv'
<1>1. PICK i \in LoginJob : i = job[p] /\ i.at = "loginWrite"
  BY JobShape DEF LoginWrite, At, FInv, TypeOK
<1>2. i.server \in Servers /\ Size[i.server] \in Nat
  BY SizeType DEF LoginJob
<1>3. /\ authFile' \in TomlAfter(authFile, i.server, Size[i.server]) /\ Goto(p, Idle)
      /\ UNCHANGED <<keyFile, projectFile, lists, asked, emptied, env, drawn, forced, cut,
                     overlapped>>
  BY <1>1 DEF LoginWrite, bucket, Step
<1>4. /\ authFile' \in File(Servers)
      /\ authFile.size <= Size[i.server] => authFile'.doc = i.server
  BY <1>2, <1>3, WriteType DEF FInv, TypeOK
<1>5. StaysAlone(p)
  BY <1>3, StepAlone DEF LoginWrite, At
<1>6. DataType'
  BY <1>3, <1>4 DEF FInv, TypeOK, DataType
<1>7. FilesOK' /\ StaysBacked
  BY <1>3, FilesStay DEF FInv
<1>8. ListedKeyHeld'
  BY <1>3 DEF FInv, ListedKeyHeld, HeldBy
<1>9. LoginRepeatable'
  <2>1. ASSUME ~overlapped PROVE authFile'.doc # Nothing
    <3>1. authFile.size = 0
      BY <1>1, <2>1 DEF FInv, JobAlone
    <3> QED
      BY <1>2, <1>4, <3>1, NoDocument
  <2> QED
    BY <1>3, <2>1 DEF LoginRepeatable, AuthLoads
<1> QED
  BY <1>3, <1>5, <1>6, <1>7, <1>8, <1>9, GotoStep, IdleJob

-----------------------------------------------------------------------------
(***************************************************************************)
(* envlock project init.                                                   *)
(***************************************************************************)
LEMMA ProjectKeyStep ==
  ASSUME FInv, NEW p \in Shell, ProjectKey(p)
  PROVE  FInv'
<1>1. PICK x \in Projects, force \in BOOLEAN :
        /\ Start(p, IF force THEN {"project"} ELSE {}) /\ KeyLoads
        /\ Goto(p, [at |-> "projectStat", project |-> x, key |-> keyFile.doc,
                    force |-> force])
        /\ UNCHANGED files /\ UNCHANGED bucket /\ UNCHANGED drawn
  BY DEF ProjectKey
<1>2. keyFile.doc \in Keys
  BY <1>1 DEF KeyLoads, FInv, TypeOK, File
<1>3. PICK j \in Job : j = [at |-> "projectStat", project |-> x, key |-> keyFile.doc,
                            force |-> force]
  BY <1>2 DEF Job, StatJob
<1>4. PICK f \in SUBSET {"key", "project"} : f = IF force THEN {"project"} ELSE {}
  OBVIOUS
<1>5. ~overlapped' => forced' = forced \cup f
  BY <1>1, <1>4, StartAlone
<1>6. JobBacked(j)' /\ (~overlapped' => JobAlone(j)')
  BY <1>1, <1>3, <1>4, <1>5 DEF JobBacked, JobAlone, HeldBy, Unforced, files
<1>7. drawn' \subseteq Keys
  BY <1>1 DEF FInv, TypeOK
<1> QED
  BY <1>1, <1>3, <1>4, <1>6, <1>7, BeginStep

\* project init finds no project file, or is forced.
LEMMA ProjectStatStep ==
  ASSUME FInv, NEW p \in Shell, ProjectStat(p)
  PROVE  FInv'
<1>1. PICK i \in StatJob : i = job[p] /\ i.at = "projectStat"
  BY JobShape DEF ProjectStat, At, FInv, TypeOK
<1>2. /\ ~At(p, "idle") /\ UNCHANGED files /\ UNCHANGED bucket /\ UNCHANGED drawn /\ Step
  BY DEF ProjectStat, At
<1>3. CASE ProjectAllowed(p)
  <2>1. PICK j \in Job : j = [at |-> "projectLoad", project |-> i.project, key |-> i.key]
    BY DEF Job, StatJob, ProjectJob
  <2>2. Goto(p, j)
    BY <1>1, <1>3, <2>1 DEF ProjectStat
  <2>3. ASSUME ~overlapped' PROVE JobAlone(j)'
    <3>1. UNCHANGED <<keyFile, projectFile, forced, overlapped>>
      BY <1>2 DEF files, Step
    <3>2. JobAlone(i)
      BY <1>1, <2>3, <3>1 DEF FInv
    <3>3. "project" \notin forced => projectFile.doc = Nothing
      BY <1>1, <1>3, <3>2 DEF ProjectAllowed, JobAlone, Unforced, FInv
    <3>4. "key" \notin forced => keyFile.doc = i.key
      BY <1>1, <3>2 DEF JobAlone, Unforced, HeldBy
    <3> QED
      BY <2>1, <3>1, <3>3, <3>4 DEF JobAlone, Unforced, HeldBy
  <2>4. JobBacked(j)'
    BY <2>1 DEF JobBacked
  <2> QED
    BY <1>2, <2>2, <2>3, <2>4, ReadStep
<1>4. CASE ~ProjectAllowed(p)
  <2>1. Goto(p, Idle)
    BY <1>4 DEF ProjectStat
  <2> QED
    BY <1>2, <2>1, ReadStep, IdleJob
<1> QED
  BY <1>3, <1>4

\* A list with one more device is no longer empty and holds no other.
LEMMA WithDeviceList ==
  ASSUME NEW old \in SUBSET Keys, NEW k \in Keys, NEW list \in WithDevice(old, k)
  PROVE  list \in SUBSET Keys /\ list # {} /\ list \subseteq old \cup {k}
BY DEF WithDevice

\* project init loads the recipients and adds this device.
LEMMA ProjectLoadStep ==
  ASSUME FInv, NEW p \in Shell, ProjectLoad(p)
  PROVE  FInv'
<1>1. PICK i \in ProjectJob : i = job[p] /\ i.at = "projectLoad"
  BY JobShape DEF ProjectLoad, At, FInv, TypeOK
<1>2. i.project \in Projects /\ i.project \in Setting /\ i.key \in Keys
  BY LocalFilesAssumption DEF ProjectJob
<1>3. ~At(p, "idle") /\ UNCHANGED files /\ UNCHANGED bucket /\ UNCHANGED drawn /\ Step
  BY DEF ProjectLoad, At
<1>4. CASE Reaches(i.project)
  <2>1. Reached(i.project) \in Place
    BY <1>2, <1>4, ReachedPlace DEF FInv, TypeOK
  <2>2. PICK list \in WithDevice(lists[Reached(i.project)], i.key) :
          Goto(p, [at |-> "projectPut", project |-> i.project, list |-> list])
    BY <1>1, <1>4 DEF ProjectLoad
  <2>3. /\ list \in SUBSET Keys /\ list # {}
        /\ list \subseteq lists[Reached(i.project)] \cup {i.key}
    BY <1>2, <2>1, <2>2, WithDeviceList DEF FInv, TypeOK
  <2>4. PICK j \in Job : j = [at |-> "projectPut", project |-> i.project, list |-> list]
    BY <1>2, <2>3 DEF Job, DeviceJob
  <2>5. UNCHANGED <<keyFile, projectFile, env, forced, overlapped>>
    BY <1>3 DEF files, Step
  <2>6. JobBacked(j)'
    BY <1>4, <2>3, <2>4, <2>5 DEF JobBacked, Reaches, Reached
  <2>7. ASSUME ~overlapped' PROVE JobAlone(j)'
    <3>1. JobAlone(i) /\ ~overlapped
      BY <1>1, <2>5, <2>7 DEF FInv
    <3>2. "project" \notin forced => projectFile.doc = Nothing
      BY <1>1, <3>1 DEF JobAlone, Unforced
    <3>3. "key" \notin forced => keyFile.doc = i.key
      BY <1>1, <3>1 DEF JobAlone, Unforced, HeldBy
    <3>4. "key" \notin forced => \A k \in list : keyFile.doc = k
      BY <2>1, <2>3, <3>1, <3>3 DEF FInv, ListedKeyHeld, HeldBy
    <3> QED
      BY <2>4, <2>5, <3>2, <3>4 DEF JobAlone, Unforced, HeldBy
  <2> QED
    BY <1>3, <2>2, <2>4, <2>6, <2>7, ReadStep
<1>5. CASE ~Reaches(i.project)
  <2>1. Goto(p, Idle)
    BY <1>1, <1>5 DEF ProjectLoad
  <2> QED
    BY <1>3, <2>1, ReadStep, IdleJob
<1> QED
  BY <1>4, <1>5

\* A list that is saved at a place leaves every place backed that was, and
\* no key listed that was in neither.
LEMMA SaveList ==
  ASSUME FInv, NEW x \in Place, NEW list \in SUBSET Keys, NEW empty \in BOOLEAN,
         empty \/ list # {},
         lists' = [lists EXCEPT ![x] = list],
         emptied' = IF empty THEN emptied \cup {x} ELSE emptied \ {x},
         UNCHANGED <<keyFile, authFile, projectFile, asked, env, drawn, forced, cut, overlapped>>,
         ~overlapped /\ "key" \notin forced => \A k \in list : keyFile.doc = k
  PROVE  DataType' /\ FilesOK' /\ StaysBacked /\ Backed(x)' /\ ListedKeyHeld' /\ LoginRepeatable'
<1>1. /\ lists' \in [Place -> SUBSET Keys] /\ emptied' \subseteq Place
      /\ lists'[x] = list /\ \A y \in Place \ {x} : lists'[y] = lists[y]
  BY DEF FInv, TypeOK
<1>2. DataType'
  BY <1>1 DEF FInv, TypeOK, DataType
<1>3. Backed(x)' /\ StaysBacked
  BY <1>1 DEF Backed, StaysBacked
<1>4. FilesOK'
  <2>1. ASSUME projectFile.doc # Nothing
        PROVE  Reaches(projectFile.doc)' /\ Backed(Reached(projectFile.doc))'
    <3>1. PICK d \in Setting : d = projectFile.doc /\ d = projectFile'.doc
      BY <2>1 DEF FInv, TypeOK, File
    <3>2. Reaches(d) /\ Backed(Reached(d)) /\ env \in Environments
      BY <2>1, <3>1 DEF FInv, ProjectBacked, TypeOK
    <3>3. PICK y \in Place : y = Reached(d)
      BY <3>2, ReachedPlace
    <3>4. Reaches(d)' /\ y = Reached(d)'
      BY <3>2, <3>3, ReachedPlace
    <3>5. Backed(y)'
      BY <1>3, <3>2, <3>3 DEF StaysBacked
    <3> QED
      BY <3>1, <3>4, <3>5 DEF Backed, Reached, Reaches
  <2> QED
    BY <2>1 DEF FilesOK, FInv
<1>5. ListedKeyHeld'
  BY <1>1 DEF FInv, ListedKeyHeld, HeldBy
<1>6. LoginRepeatable'
  BY DEF FInv, LoginRepeatable, AuthLoads
<1> QED
  BY <1>2, <1>3, <1>4, <1>5, <1>6

\* project init saves the recipients: from here its place is backed.
LEMMA ProjectPutStep ==
  ASSUME FInv, NEW p \in Shell, ProjectPut(p)
  PROVE  FInv'
<1>1. PICK i \in DeviceJob : i = job[p] /\ i.at = "projectPut"
  BY JobShape DEF ProjectPut, At, FInv, TypeOK
<1>2. /\ i.project \in Projects /\ i.project \in Setting /\ i.list \in SUBSET Keys
      /\ i.list # {} /\ Reaches(i.project)
  BY <1>1, LocalFilesAssumption DEF DeviceJob, FInv, JobBacked
<1>3. PICK j \in Job : j = [at |-> "projectOpen", project |-> i.project]
  BY <1>2 DEF Job, FileJob
<1>4. /\ lists' = [lists EXCEPT ![Reached(i.project)] = i.list] /\ Goto(p, j)
      /\ emptied' = emptied \ {Reached(i.project)}
      /\ UNCHANGED <<keyFile, authFile, projectFile, asked, env, drawn, forced, cut, overlapped>>
  BY <1>1, <1>3 DEF ProjectPut, files, Step
<1>5. PICK x \in Place : x = Reached(i.project) /\ x = Reached(i.project)' /\ Reaches(i.project)'
  BY <1>2, <1>4, ReachedPlace DEF FInv, TypeOK
<1>6. ~overlapped /\ "key" \notin forced => \A k \in i.list : keyFile.doc = k
  BY <1>1 DEF FInv, JobAlone, Unforced, HeldBy
<1>7. DataType' /\ FilesOK' /\ StaysBacked /\ Backed(x)' /\ ListedKeyHeld' /\ LoginRepeatable'
  BY <1>2, <1>4, <1>5, <1>6, SaveList
<1>8. StaysAlone(p)
  BY <1>4, StepAlone DEF ProjectPut, At
<1>9. JobBacked(j)'
  BY <1>3, <1>5, <1>7 DEF JobBacked, Backed
<1>10. ASSUME ~overlapped' PROVE JobAlone(j)'
  <2>1. "project" \notin forced => projectFile.doc = Nothing
    BY <1>1, <1>4, <1>10 DEF FInv, JobAlone, Unforced
  <2> QED
    BY <1>3, <1>4, <2>1 DEF JobAlone, Unforced
<1> QED
  BY <1>4, <1>7, <1>8, <1>9, <1>10, GotoStep

\* project init truncates the project file.
LEMMA ProjectOpenStep ==
  ASSUME FInv, NEW p \in Shell, ProjectOpen(p)
  PROVE  FInv'
<1>1. PICK i \in FileJob : i = job[p] /\ i.at = "projectOpen"
  BY JobShape DEF ProjectOpen, At, FInv, TypeOK
<1>2. PICK j \in Job : /\ j = [i EXCEPT !.at = "projectWrite"]
                       /\ j.at = "projectWrite" /\ j.project = i.project
  <2> DEFINE j == [i EXCEPT !.at = "projectWrite"]
  <2>1. j \in FileJob /\ j.at = "projectWrite" /\ j.project = i.project
    BY DEF FileJob
  <2>2. j \in Job
    BY <2>1 DEF Job
  <2> QED
    BY <2>1, <2>2
<1>3. /\ projectFile' = Truncated /\ Goto(p, j)
      /\ UNCHANGED <<keyFile, authFile, lists, asked, emptied, env, drawn, forced, cut,
                     overlapped>>
  BY <1>1, <1>2 DEF ProjectOpen, bucket, Step
<1>4. StaysAlone(p)
  BY <1>3, StepAlone DEF ProjectOpen, At
<1>5. DataType' /\ FilesOK'
  BY <1>3, TruncatedType DEF FInv, TypeOK, DataType, FilesOK, Truncated
<1>6. StaysBacked
  BY <1>3 DEF StaysBacked, Backed
<1>7. JobBacked(j)'
  BY <1>1, <1>2, <1>3 DEF FInv, JobBacked, Backed, Reached, Reaches
<1>8. JobAlone(j)'
  BY <1>2, <1>3 DEF JobAlone, Truncated
<1>9. ListedKeyHeld' /\ LoginRepeatable'
  BY <1>3 DEF FInv, ListedKeyHeld, HeldBy, LoginRepeatable, AuthLoads
<1> QED
  BY <1>3, <1>4, <1>5, <1>6, <1>7, <1>8, <1>9, GotoStep

\* project init writes the project file.
LEMMA ProjectWriteStep ==
  ASSUME FInv, NEW p \in Shell, ProjectWrite(p)
  PROVE  FInv'
<1>1. PICK i \in FileJob : i = job[p] /\ i.at = "projectWrite"
  BY JobShape DEF ProjectWrite, At, FInv, TypeOK
<1>2. i.project \in Projects /\ Reaches(i.project) /\ Backed(Reached(i.project))
  BY <1>1 DEF FileJob, FInv, JobBacked
<1>3. /\ projectFile' \in ProjectAfter(projectFile, i.project)
      /\ Goto(p, Idle)
      /\ UNCHANGED <<keyFile, authFile, lists, asked, emptied, env, drawn, forced, cut,
                     overlapped>>
  BY <1>1 DEF ProjectWrite, bucket, Step
<1>4. PICK g : g = projectFile' /\ g \in ProjectAfter(projectFile, i.project)
  BY <1>3
<1>5. /\ g \in File(Setting)
      /\ ~g.there => g.doc = Nothing
      /\ g.doc # Nothing => Reaches(g.doc) /\ Reached(g.doc) = Reached(i.project)
  BY <1>2, <1>4, ProjectAfterPlace DEF FInv, TypeOK
<1>6. StaysAlone(p)
  BY <1>3, StepAlone DEF ProjectWrite, At
<1>7. DataType'
  BY <1>3, <1>4, <1>5 DEF FInv, TypeOK, DataType
<1>8. FilesOK'
  <2>1. g.doc # Nothing => Reaches(g.doc)' /\ Backed(Reached(g.doc))'
    BY <1>2, <1>3, <1>5 DEF Reaches, Reached, Backed
  <2> QED
    BY <1>3, <1>4, <1>5, <2>1 DEF FilesOK, FInv, Reaches, Reached, Backed
<1>9. StaysBacked
  BY <1>3 DEF StaysBacked, Backed
<1>10. ListedKeyHeld' /\ LoginRepeatable'
  BY <1>3 DEF FInv, ListedKeyHeld, HeldBy, LoginRepeatable, AuthLoads
<1> QED
  BY <1>3, <1>6, <1>7, <1>8, <1>9, <1>10, GotoStep, IdleJob

-----------------------------------------------------------------------------
(***************************************************************************)
(* The commands of a project directory, and commands cut short.            *)
(***************************************************************************)
LEMMA OpenProjectStep ==
  ASSUME FInv, NEW p \in Shell, OpenProject(p)
  PROVE  FInv'
<1>1. /\ Start(p, {}) /\ Goto(p, [at |-> "open", place |-> Reached(projectFile.doc)])
      /\ UNCHANGED files /\ UNCHANGED bucket /\ UNCHANGED drawn
  BY DEF OpenProject
<1>2. PICK x \in Place : x = Reached(projectFile.doc) /\ Backed(x)
  BY ReachedPlace DEF OpenProject, ProjectLoads, FInv, TypeOK, File, ProjectBacked
<1>3. PICK j \in Job : j = [at |-> "open", place |-> x]
  BY DEF Job, PlaceJob
<1>4. JobBacked(j)' /\ JobAlone(j)'
  BY <1>1, <1>2, <1>3 DEF JobBacked, JobAlone, Backed, bucket
<1>5. drawn' \subseteq Keys
  BY <1>1 DEF FInv, TypeOK
<1> QED
  BY <1>1, <1>2, <1>3, <1>4, <1>5, BeginStep

\* enroll join reads the key.
LEMMA JoinKeyStep ==
  ASSUME FInv, NEW p \in Shell, JoinKey(p)
  PROVE  FInv'
<1>1. PICK i \in PlaceJob : i = job[p] /\ i.at = "open"
  BY JobShape DEF JoinKey, At, FInv, TypeOK
<1>2. i.place \in Place /\ Backed(i.place) /\ keyFile.doc \in Keys
  BY <1>1 DEF PlaceJob, FInv, JobBacked, JoinKey, KeyLoads, TypeOK, File
<1>3. PICK j \in Job : j = [at |-> "joinPut", place |-> i.place, key |-> keyFile.doc]
  BY <1>2 DEF Job, AskJob
<1>4. /\ ~At(p, "idle") /\ Goto(p, j)
      /\ UNCHANGED files /\ UNCHANGED bucket /\ UNCHANGED drawn /\ Step
  BY <1>1, <1>3 DEF JoinKey, At
<1>5. JobBacked(j)' /\ JobAlone(j)'
  BY <1>2, <1>3, <1>4 DEF JobBacked, JobAlone, HeldBy, Backed, bucket, files
<1> QED
  BY <1>4, <1>5, ReadStep

\* enroll join sends the key it has read.
LEMMA JoinPutStep ==
  ASSUME FInv, NEW p \in Shell, JoinPut(p)
  PROVE  FInv'
<1>1. PICK i \in AskJob : i = job[p] /\ i.at = "joinPut"
  BY JobShape DEF JoinPut, At, FInv, TypeOK
<1>2. /\ asked' = asked \cup {i.key} /\ i.key \in Keys /\ Goto(p, Idle)
      /\ UNCHANGED <<keyFile, authFile, projectFile, lists, emptied, env, drawn, forced, cut,
                     overlapped>>
  BY <1>1 DEF JoinPut, AskJob, files, Step
<1>3. StaysAlone(p)
  BY <1>2, StepAlone DEF JoinPut, At
<1>4. DataType'
  BY <1>2 DEF FInv, TypeOK, DataType
<1>5. FilesOK' /\ StaysBacked
  BY <1>2, FilesStay DEF FInv
<1>6. ListedKeyHeld'
  <2>1. ~overlapped /\ "key" \notin forced => keyFile.doc = i.key
    BY <1>1 DEF FInv, JobAlone, Unforced, HeldBy
  <2> QED
    BY <1>2, <2>1 DEF FInv, ListedKeyHeld, HeldBy
<1>7. LoginRepeatable'
  BY <1>2 DEF FInv, LoginRepeatable, AuthLoads
<1> QED
  BY <1>2, <1>3, <1>4, <1>5, <1>6, <1>7, GotoStep, IdleJob

\* A command holds a changed list: with keys of this machine only, and empty
\* only by remove --hard.
LEMMA ListChangedStep ==
  ASSUME FInv, NEW p \in Shell, At(p, "open"), NEW list \in SUBSET Keys, NEW hard \in BOOLEAN,
         ListChanged(p, list, hard), hard \/ list # {},
         ~overlapped /\ "key" \notin forced => \A k \in list : keyFile.doc = k
  PROVE  FInv'
<1>1. PICK i \in PlaceJob : i = job[p] /\ i.place \in Place
  BY JobShape DEF At, FInv, TypeOK, PlaceJob
<1>2. PICK j \in Job : j = [at |-> "listPut", place |-> i.place, list |-> list,
                            empties |-> hard /\ list = {}]
  <2>1. (hard /\ list = {}) \in BOOLEAN
    OBVIOUS
  <2> QED
    BY <1>1, <2>1 DEF Job, ListJob
<1>3. /\ ~At(p, "idle") /\ Goto(p, j)
      /\ UNCHANGED files /\ UNCHANGED bucket /\ UNCHANGED drawn /\ Step
  BY <1>1, <1>2 DEF ListChanged, At
<1>4. JobBacked(j)'
  BY <1>2 DEF JobBacked
<1>5. ~overlapped' => JobAlone(j)'
  BY <1>2, <1>3 DEF JobAlone, HeldBy, Unforced, files, Step
<1> QED
  BY <1>3, <1>4, <1>5, ReadStep

\* recipients add and enroll approve: what a user can type the machine holds.
LEMMA AddLoadStep ==
  ASSUME FInv, NEW p \in Shell, AddLoad(p)
  PROVE  FInv'
<1>1. PICK i \in PlaceJob : i = job[p] /\ i.place \in Place
  BY JobShape DEF AddLoad, At, FInv, TypeOK, PlaceJob
<1>2. PICK k \in ShownKeys :
        \E list \in WithDevice(lists[i.place], k) : ListChanged(p, list, FALSE)
  BY <1>1 DEF AddLoad
<1>3. PICK list \in WithDevice(lists[i.place], k) : ListChanged(p, list, FALSE)
  BY <1>2
<1>4. k \in Keys
  BY DEF ShownKeys, FInv, TypeOK, File
<1>5. list \in SUBSET Keys /\ list # {} /\ list \subseteq lists[i.place] \cup {k}
  BY <1>1, <1>3, <1>4, WithDeviceList DEF FInv, TypeOK
<1>6. ASSUME ~overlapped, "key" \notin forced
      PROVE  keyFile.doc = k /\ \A l \in lists[i.place] : keyFile.doc = l
  BY <1>1, <1>6 DEF FInv, ListedKeyHeld, HeldBy, ShownKeys
<1> QED
  BY <1>3, <1>5, <1>6, ListChangedStep DEF AddLoad

\* recipients remove marks or deletes one of the keys listed.
LEMMA RemoveLoadStep ==
  ASSUME FInv, NEW p \in Shell, RemoveLoad(p)
  PROVE  FInv'
<1>1. PICK i \in PlaceJob : i = job[p] /\ i.place \in Place
  BY JobShape DEF RemoveLoad, At, FInv, TypeOK, PlaceJob
<1>2. PICK old \in SUBSET Keys : old = lists[i.place]
  BY <1>1 DEF FInv, TypeOK
<1>3. PICK k \in old, hard \in BOOLEAN :
        ListChanged(p, IF hard THEN old \ {k} ELSE old, hard)
  BY <1>1, <1>2 DEF RemoveLoad
<1>4. PICK list \in SUBSET Keys :
        list = (IF hard THEN old \ {k} ELSE old) /\ list \subseteq old /\ (hard \/ list # {})
  OBVIOUS
<1>5. ~overlapped /\ "key" \notin forced => \A l \in list : keyFile.doc = l
  BY <1>1, <1>2, <1>4 DEF FInv, ListedKeyHeld, HeldBy
<1> QED
  BY <1>3, <1>4, <1>5, ListChangedStep DEF RemoveLoad

\* A command that is refused does nothing more.
LEMMA RefusedStep ==
  ASSUME FInv, NEW p \in Shell, Refused(p)
  PROVE  FInv'
<1>1. /\ ~At(p, "idle") /\ Goto(p, Idle)
      /\ UNCHANGED files /\ UNCHANGED bucket /\ UNCHANGED drawn /\ Step
  BY DEF Refused, At
<1> QED
  BY <1>1, ReadStep, IdleJob

\* The changed list is saved, however old the one it was made from.
LEMMA ListPutStep ==
  ASSUME FInv, NEW p \in Shell, ListPut(p)
  PROVE  FInv'
<1>1. PICK i \in ListJob : i = job[p] /\ i.at = "listPut"
  BY JobShape DEF ListPut, At, FInv, TypeOK
<1>2. /\ i.place \in Place /\ i.list \in SUBSET Keys /\ i.empties \in BOOLEAN
      /\ i.empties \/ i.list # {}
  BY <1>1 DEF ListJob, FInv, JobBacked
<1>3. /\ lists' = [lists EXCEPT ![i.place] = i.list] /\ Goto(p, Idle)
      /\ emptied' = IF i.empties THEN emptied \cup {i.place} ELSE emptied \ {i.place}
      /\ UNCHANGED <<keyFile, authFile, projectFile, asked, env, drawn, forced, cut, overlapped>>
  BY <1>1 DEF ListPut, files, Step
<1>4. ~overlapped /\ "key" \notin forced => \A k \in i.list : keyFile.doc = k
  BY <1>1 DEF FInv, JobAlone, Unforced, HeldBy
<1>5. DataType' /\ FilesOK' /\ StaysBacked /\ ListedKeyHeld' /\ LoginRepeatable'
  BY <1>2, <1>3, <1>4, SaveList
<1>6. StaysAlone(p)
  BY <1>3, StepAlone DEF ListPut, At
<1> QED
  BY <1>3, <1>5, <1>6, GotoStep, IdleJob

\* A command is cut short: what it held is forgotten.
LEMMA AbortStep ==
  ASSUME FInv, NEW p \in Shell, Abort(p)
  PROVE  FInv'
<1>1. /\ Goto(p, Idle) /\ cut' \in BOOLEAN
      /\ UNCHANGED <<keyFile, authFile, projectFile, lists, asked, emptied, env, drawn, forced,
                     overlapped>>
  BY DEF Abort, files, bucket, FInv, TypeOK
<1>2. StaysAlone(p)
  BY <1>1, StepAlone DEF Abort
<1>3. DataType'
  BY <1>1 DEF FInv, TypeOK, DataType
<1>4. FilesOK' /\ StaysBacked
  BY <1>1, FilesStay DEF FInv
<1>5. ListedKeyHeld' /\ LoginRepeatable'
  BY <1>1 DEF FInv, ListedKeyHeld, HeldBy, LoginRepeatable, AuthLoads
<1> QED
  BY <1>1, <1>2, <1>3, <1>4, <1>5, GotoStep, IdleJob

-----------------------------------------------------------------------------
\* Every step keeps the invariant.
LEMMA NextStep ==
  ASSUME FInv, [Next]_vars
  PROVE  FInv'
<1>1. CASE UNCHANGED vars
  BY <1>1 DEF vars, files, bucket, FInv, TypeOK, JobBacked, JobAlone, OneJob, At, Unforced,
     ListedKeyHeld, HeldBy, ProjectBacked, Backed, Reached, Reaches, LoginRepeatable, AuthLoads
<1> QED
  BY <1>1, InitCheckStep, InitOpenStep, InitWriteStep, LoginLoadStep, LoginOpenStep,
     LoginWriteStep, ProjectKeyStep, ProjectStatStep, ProjectLoadStep, ProjectPutStep,
     ProjectOpenStep, ProjectWriteStep, OpenProjectStep, JoinKeyStep, JoinPutStep,
     AddLoadStep, RemoveLoadStep, RefusedStep, ListPutStep, AbortStep DEF Next

\* A machine without files satisfies it.
LEMMA InitInv == Init => FInv
<1> SUFFICES ASSUME Init PROVE FInv
  OBVIOUS
<1>1. TypeOK
  <2>1. /\ keyFile \in File(Keys) /\ authFile \in File(Servers)
        /\ projectFile \in File(Setting)
    BY DEF Init, Absent, File
  <2>2. job \in [Shell -> Job]
    BY DEF Init, Job
  <2> QED
    BY <2>1, <2>2 DEF Init, TypeOK
<1> QED
  BY <1>1 DEF Init, FInv, Absent, Idle, JobBacked, JobAlone, OneJob, At, ListedKeyHeld,
     ProjectBacked, LoginRepeatable, AuthLoads

\* However many shells run the commands, and wherever they stop.
THEOREM FilesInvariance == Spec => []FInv
<1>1. FInv /\ [Next]_vars => FInv'
  BY NextStep
<1> QED
  BY <1>1, InitInv, PTL DEF Spec

\* Files, bucket and the jobs of the shells are well typed.
THEOREM FilesTypeCorrect == Spec => []TypeOK
<1>1. FInv => TypeOK
  BY DEF FInv
<1> QED
  BY <1>1, FilesInvariance, PTL

\* runProjectInit writes recipients before it writes the project file, and
\* only recipients remove --hard saves an empty list: a project file leads to
\* recipients, or to a list emptied on purpose, whichever commands overlap.
THEOREM ReadableProjectBacked == Spec => []ProjectBacked
<1>1. FInv => ProjectBacked
  BY DEF FInv
<1> QED
  BY <1>1, FilesInvariance, PTL

\* WriteIdentity refuses a file that exists: without --force and without
\* other commands at work no published key is lost.
THEOREM PublishedKeyHeld == Spec => []ListedKeyHeld
<1>1. FInv => ListedKeyHeld
  BY DEF FInv
<1> QED
  BY <1>1, FilesInvariance, PTL

\* The auth file an interrupted login has truncated decodes.
THEOREM LoginAgain == Spec => []LoginRepeatable
<1>1. FInv => LoginRepeatable
  BY DEF FInv
<1> QED
  BY <1>1, FilesInvariance, PTL

\* A step that leaves the key file alone, and ends with no shell in the
\* middle of writing one, takes no help away.
LEMMA HelpStays ==
  ASSUME InitFirstHelps, NEW p \in Shell, ~At(p, "initWrite"), UNCHANGED keyFile,
         job \in [Shell -> Job], \E j : Goto(p, j),
         overlapped \in BOOLEAN, overlapped => overlapped', cut => cut' \/ overlapped'
  PROVE  InitFirstHelps'
<1>1. \A q \in Shell \ {p} : job'[q] = job[q]
  BY DEF Goto
<1> QED
  BY <1>1 DEF InitFirstHelps, KeyLoads, InitAllowed, At

\* Every step keeps init helpful: what init truncates init writes, and a
\* file that holds no key is there only until then.
LEMMA HelpStep ==
  ASSUME FInv, InitFirstHelps, [Next]_vars
  PROVE  InitFirstHelps'
<1>1. job \in [Shell -> Job] /\ overlapped \in BOOLEAN /\ cut \in BOOLEAN
  BY DEF FInv, TypeOK
<1>2. CASE UNCHANGED vars
  BY <1>2 DEF vars, files, InitFirstHelps, KeyLoads, InitAllowed, At
<1>3. ASSUME NEW p \in Shell, InitOpen(p) PROVE InitFirstHelps'
  <2>1. PICK i \in InitJob : i = job[p]
    BY <1>1, <1>3, JobShape DEF InitOpen, At
  <2>2. job'[p] = [i EXCEPT !.at = "initWrite"]
    BY <1>1, <1>3, <2>1 DEF InitOpen, Goto
  <2>3. At(p, "initWrite")'
    BY <2>2 DEF InitJob, At
  <2> QED
    BY <2>3 DEF InitFirstHelps
<1>4. ASSUME NEW p \in Shell, InitWrite(p) PROVE InitFirstHelps'
  <2>1. PICK i \in InitJob : i = job[p] /\ i.at = "initWrite"
    BY <1>1, <1>4, JobShape DEF InitWrite, At
  <2>2. i.key \in Keys /\ Size[i.key] \in Nat
    BY SizeType DEF InitJob
  <2>3. ~overlapped => keyFile.size = 0
    BY <2>1 DEF FInv, JobAlone
  <2>4. keyFile' = KeyAfter(keyFile, i.key, Size[i.key]) /\ UNCHANGED overlapped
    BY <1>4, <2>1 DEF InitWrite, Step
  <2>5. ~overlapped => keyFile'.doc = i.key
    BY <2>2, <2>3, <2>4 DEF KeyAfter, Whole
  <2> QED
    BY <2>2, <2>4, <2>5, NoDocument DEF InitFirstHelps, KeyLoads
<1>5. ASSUME NEW p \in Shell, Abort(p) PROVE InitFirstHelps'
  BY <1>1, <1>5 DEF Abort, InitFirstHelps
<1>6. ASSUME NEW p \in Shell, InitCheck(p) \/ LoginLoad(p) \/ ProjectKey(p) \/ OpenProject(p)
      PROVE  InitFirstHelps'
  <2>1. /\ At(p, "idle") /\ UNCHANGED keyFile
        /\ (overlapped => overlapped') /\ (cut => cut' \/ overlapped')
    BY <1>1, <1>6 DEF InitCheck, LoginLoad, ProjectKey, OpenProject, Start, files
  <2>2. \E j : Goto(p, j)
    BY <1>6 DEF InitCheck, LoginLoad, ProjectKey, OpenProject
  <2>3. ~At(p, "initWrite")
    BY <2>1 DEF At
  <2> QED
    BY <1>1, <2>1, <2>2, <2>3, HelpStays
<1>7. ASSUME NEW p \in Shell,
             \/ LoginOpen(p) \/ LoginWrite(p) \/ ProjectStat(p) \/ ProjectLoad(p)
             \/ ProjectPut(p) \/ ProjectOpen(p) \/ ProjectWrite(p) \/ JoinKey(p) \/ JoinPut(p)
             \/ AddLoad(p) \/ RemoveLoad(p) \/ Refused(p) \/ ListPut(p)
      PROVE  InitFirstHelps'
  <2>1. ~At(p, "initWrite") /\ UNCHANGED <<keyFile, cut, overlapped>>
    BY <1>7 DEF LoginOpen, LoginWrite, ProjectStat, ProjectLoad, ProjectPut, ProjectOpen,
       ProjectWrite, JoinKey, JoinPut, AddLoad, RemoveLoad, Refused, ListPut, ListChanged,
       At, files, Step
  <2>2. \E j : Goto(p, j)
    BY <1>7 DEF LoginOpen, LoginWrite, ProjectStat, ProjectLoad, ProjectPut, ProjectOpen,
       ProjectWrite, JoinKey, JoinPut, AddLoad, RemoveLoad, Refused, ListPut, ListChanged
  <2> QED
    BY <1>1, <2>1, <2>2, HelpStays
<1> QED
  BY <1>2, <1>3, <1>4, <1>5, <1>6, <1>7 DEF Next

\* A key file that holds no key is one that a command cut short, or another
\* command at the same time, has left: else "run envlock init first" helps.
THEOREM InitHelps == Spec => []InitFirstHelps
<1>1. Init => InitFirstHelps
  BY DEF Init, Absent, InitFirstHelps, InitAllowed
<1>2. FInv /\ InitFirstHelps /\ [Next]_vars => InitFirstHelps'
  BY HelpStep
<1> QED
  BY <1>1, <1>2, FilesInvariance, PTL DEF Spec

\* runProjectInit looks for a project file before it writes one.
THEOREM ReadableProjectKept == Spec => ProjectKept
<1> DEFINE Kept == ~overlapped' /\ projectFile.doc # Nothing /\ "project" \notin forced'
                     => projectFile' = projectFile
<1>1. ASSUME FInv, NEW p \in Shell, ProjectOpen(p) \/ ProjectWrite(p)
      PROVE  Kept
  <2>1. UNCHANGED <<overlapped, forced>>
    BY <1>1 DEF ProjectOpen, ProjectWrite, Step
  <2>2. ~overlapped /\ "project" \notin forced => projectFile.doc = Nothing
    BY <1>1 DEF ProjectOpen, ProjectWrite, At, FInv, JobAlone, Unforced
  <2> QED
    BY <2>1, <2>2
<1>2. ASSUME FInv, Next
      PROVE  UNCHANGED projectFile \/ \E p \in Shell : ProjectOpen(p) \/ ProjectWrite(p)
  BY <1>2 DEF Next, InitCheck, InitOpen, InitWrite, LoginLoad, LoginOpen, LoginWrite,
     ProjectKey, ProjectStat, ProjectLoad, ProjectPut, OpenProject, JoinKey, JoinPut, AddLoad,
     RemoveLoad, Refused, ListPut, ListChanged, Abort, files
<1>3. FInv /\ [Next]_vars => [Kept]_vars
  BY <1>1, <1>2
<1> QED
  BY <1>3, FilesInvariance, PTL DEF Spec, ProjectKept

=============================================================================
