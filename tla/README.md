# envlock in TLA+

Specifications of the envlock CLI and server: what is kept in the bucket and by
the server, what each command does to it, what other commands can do in
between, and what holds nevertheless. TLC checks the specifications on small
instances; TLAPS proves the invariants of enrollment, of login and of a
machine's files, and that enrollment and login implement abstract specifications,
for instances of any size.

## The system and its parts

envlock keeps, for each project, the list of the devices that may read its
secrets. The list and the paper trail of enrollment are JSON objects in a
Tigris (S3) bucket. Every machine runs the same CLI with the same bucket
credentials; there is no process that orders their commands.

| Component | Code | State | Operations that change it | Hard part |
|---|---|---|---|---|
| Recipients document | `feature/recipients/store.go` | entries: name, key, fingerprint, status, origin | `Add`, `Revoke`, `Delete` on a loaded copy | uniqueness across writers; a name query may equal a fingerprint |
| Remote metadata store | `core/remote`, `core/backend`, `core/tigris` | `recipients.json`, `enroll/invites/*`, `enroll/requests/*` | whole-object PUT | no lock, version or conditional write |
| Recipients commands | `feature/cli/app.go` 812-938 | - | add, remove, remove `--hard` | load, change, write back |
| Project init | `feature/cli/app.go` 651-747, `core/config/config.go` | `project.toml` | one bucket write, then the local file | stops in between; tolerated duplicates |
| Enrollment commands | `feature/cli/app.go` 974-1264, `feature/enroll/store.go` | invites and requests | invite, join, approve, reject | approve makes three writes; checks are made on loaded copies; invites expire |
| Login store | `core/auth/cli_auth.go` | pending logins, codes, access tokens, refresh tokens, in memory | start, issue, exchange, validate, each with a cleanup | expiry, one-time codes, restart |
| Login handlers | `feature/cliauth/handler.go` | - | start, authorize, exchange, whoami | authorize locks twice |
| Login and whoami commands | `feature/cli/app.go` 100-391, `core/serverapi` | auth file | callback listener, timer, prompt, exchange, save | callback against timer; callbacks of other logins; lost replies |
| Auth file, key file, project file | `core/authstate/store.go`, `core/keys/keys.go`, `core/config/config.go` | `auth.toml`, `*.agekey`, `project.toml` | truncate and write | crash between the two; two commands at once; check before open |
| The rest | `core/config/runtime.go`, `dotenv.go`, `core/router`, `cmd/server`, `main.go`, dispatch, listings, secrets stubs | - | - | - |

How they interact. A command loads the project file, reads documents from the
bucket, computes on the copies and writes whole documents back; two commands
meet only in the bucket. An invite token travels outside the system from the
administrator to the new machine. For a login, CLI, server and browser exchange
messages: the CLI starts the login at the server, the browser opens the
authorize page, the server redirects it to the CLI's localhost listener, and
the CLI exchanges the code from the callback (or from the prompt) for tokens.
Login and enrollment share nothing today: no command uses the access token for
bucket metadata, so the two are specified apart.

What makes each part correct:

* recipients: no name, key or fingerprint is listed twice; a revoked device
  does not come back unasked;
* enrollment: no recipient without a token; a used invite has a decided request;
  an approved request had its device listed, or an entry that clashes with it; decided requests and used invites
  stay so; an interrupted approval can be repeated; documented promises:
  single use, time to live, access after approval;
* login: one token per code; only for the machine that started the login; no
  code after the exchange; tokens honoured until they expire; bounded time
  between start and token; the login ends;
* files: the key the bucket knows of is the key in the file; a project file that
  can be read leads to recipients, unless a remove `--hard` has taken the last one
  away; what an interrupted command leaves can be loaded again.

## Modules

| Module | What it is |
|---|---|
| `Recipients` | the document and the pure operations on a loaded copy |
| `Enrollment` | bucket, commands and processes; extends `Recipients` |
| `EnrollmentHistory` | `Enrollment` with a memory of what each command has read |
| `EnrollmentLedger` | what enrollment promises of a project, without commands or copies |
| `CLILogin` | server store, handlers, browser and the CLI's side of a login |
| `LoginChain` | what a login promises, without clocks, pages and callbacks |
| `LocalFiles` | key, auth and project file of a machine and the commands that write them |
| `RecipientsProofs` | lemmas on the operations of the document; what a query picks |
| `EnrollmentProofs` | the inductive invariant and the theorems, for any interleaving |
| `HistoryProofs` | what concurrent commands can and cannot lose of each other's changes |
| `LedgerProofs` | `Enrollment` implements `EnrollmentLedger` |
| `SoloProofs` | what holds when commands run one at a time |
| `ChainProofs` | `CLILogin` implements `LoginChain` |
| `CLILoginProofs`, `LocalFilesProofs` | the inductive invariants of login and files, and the theorems |
| `MCEnrollment`, `MCHistory`, `MCCLILogin`, `MCLocalFiles` | instances: names that fold, fingerprints, sizes, symmetries |

### Recipients and Enrollment

`recipients`, `invites` and `requests` are the objects of the bucket, a document
of each kind under its id. `job[p]` is the state of the command that runs in
directory `p`: the step it takes next and the copies it has loaded. An action is
one remote call with the local computation up to the next call, so that every
other command can come between any two calls, as in the code:

| Command | Actions |
|---|---|
| `project init` | `InitLoad`, `InitPut`, `InitConfig` (the local file) |
| `recipients add`, `remove`, `remove --hard` | `AddLoad` / `RemoveLoad`, `RecipientsPut` |
| `enroll invite` | `NewInvite`, `InvitePut`, `InvitePrint` (the token reaches the user) |
| `enroll join` | `JoinLoad`, `JoinList`, `JoinScan` (one GET per request), `JoinDecide`, `JoinPut` |
| `enroll approve` | `ApproveLoad`, `ApproveInvite`, `ApproveRecipients`, `ApprovePutRecipients`, `ApprovePutRequest`, `ApprovePutInvite` |
| `enroll reject` | `RejectLoad`, `RejectPut` |

`Abort` ends a command before its next step: a kill or a failed call. A write
that takes effect and is reported as failed is the write followed by `Abort`.
`Expire` lets an invite's `ExpiresAt` pass. `Clone`, the one external action,
brings the project file to another machine. `listed` is a history variable, read
by properties only.

Abstractions: key and fingerprint are model values with `Fingerprint` a function
of the key; `Fold` stands for `strings.EqualFold`; the `Note` and `Source` of an
entry become its origin; times are reduced to "has expired". Commands that fail
a check before they change anything are commands that do not start. The header
of the module lists the remaining simplifications: one bucket and prefix, strong
consistency of each object, agreeing clocks, ids that do not collide, and a
listing of keys that is one step.

### EnrollmentHistory

Two history variables on top of `Enrollment`, which the commands do not see:
`base[p]` is `recipients.json` as the command of `p` has loaded it, `counted[p]`
the requests the listing has shown to a join. `HNext` is `Next` with `Remember`
and `Count`, which update them from the step just taken; `HistoryWatches` proves
that this adds no behaviour and takes none away from what the commands see.

With `base` one can say what a concurrent writer does to the others' changes.
`UpdatesAreSingle`: it saves the document it has loaded with one change, so what
it overwrites was saved after its load. `RevokedReturnsUnseen`: whatever becomes
of the list meanwhile, a command that has read a revoked entry does not write its
key as active, so a revoked device comes back only through a document loaded
before the revocation. With `counted`, `CountedNeverBlock` says the same of joins:
a join saves its request only if no request it has found listed blocks it, so two
pending requests for one invite need two joins that have not seen each other's.

### EnrollmentLedger

The ledger has no commands and no copies. An invite is unknown, saved, handed
out or used; a request unknown, pending, approved or rejected. Its actions
(`Save`, `HandOut`, `Submit`, `Rewrite`, `Decide`, `Burn`) say how one gets to the
next and what must have happened by then: a request needs an invite whose token
is out, an approval a list that has shown the device, a used invite a decided
request made with it, a new list only entries somebody asked for.

`Enrollment` is mapped to it at its end: `InviteStage`, `LedgerRequest` and
`LedgerMade` read the documents, `Members` the origins of the listed entries, and
`acknowledged` is the history variable `listed`. `KeepsLedger` says that every
step of every command is a step of the ledger or changes nothing of it: writes of
documents that were loaded long before, and commands that stop half way,
included. The ledger allows what the code allows, no more order than that: a
decided request may be decided again (approve and reject check and write without
a condition), an invite used up twice, a member taken off the list and put back.

### CLILogin

`pending`, `codes` and `access` are the server's maps, with deadlines as
instants; `now` is the clock. Every operation applies `cleanupLocked` as its
first effect. `OpenPage` and `IssueCode` are the two locked sections of
`authorizePage`; between them the handler is an element of `pages`. Every
operation reads the clock before it waits for the mutex: it works with an instant
`n` from `Read`, which is at most `MaxWait` before `now`, the time at which it has
the mutex. What an operation has read may even predate the request; the model
allows it, the code does not. `redirects`
holds the callback URLs browsers were sent to; they can be loaded again, so a
callback may reach the listener of a later login on the same port. `login[p]` is
the CLI: waiting for callback or timer (`TakeCallback`, `TimeOut`; with both
ready either may happen, as in Go's `select`), `Prompt`, `Exchange`, `Save`.
`Abort` loses the CLI or a reply; `ExchangeUnattended` is an exchange no CLI waits
for, sent before the CLI gave up or by another client of the API, where the state
is optional; `Restart` empties the server.
`started`, `issued`, `granted` and `forgotten` are history; the ids drawn so far
are also read from it, because random strings do not repeat. The user may paste
any code issued so far.

Refresh tokens are left out, since no operation reads them. The auth file is
written in one step and a machine runs one login at a time: what two logins do
to the file is in `LocalFiles`.

### LoginChain

The chain has one action per link. A machine starts a login (`Start`), a code is
issued for a login that is open (`Issue`), a good code buys a token, which spends
the code and closes the login (`Buy`), and the machine whose login it was keeps the
token (`Keep`). What is open, good or valid may lapse in any step (`Left`, `Lapse`):
that is all the chain knows of deadlines, cleanups, refused codes and restarts. In
exchange nothing that has lapsed comes back, because a login becomes open only when
it is started, a code good when it is issued and a token valid when it is bought,
each of them once.

The mapping at the end of `CLILogin` reads the links (`Owner`, `BoundTo`, `Price`,
`KeptToken`) from the history variables and the auth files, and what is open, good
and valid from the server's three maps, entries past their deadline included. A
machine may keep a token that has lapsed by then: the reply came before a restart.
A login may yield several tokens, since the code allows one for each code that was
issued before the first exchange.

### LocalFiles

A file exists or not, holds a document or none that can be read, and has a
length. Every file is written in the same two calls: opened with `O_TRUNC`
(`Truncated`), then written at its beginning. Between the two a command can stop
and others can read or write. A document written over a longer one that has
arrived in between leaves that one's end behind it. A key file is then spoiled
(`KeyAfter`). A TOML file may be spoiled or may still decode (`TomlAfter`, a
choice), and since a project without an endpoint is written without the line for
it, a project file may decode to a mixture: the app, bucket and prefix of the one
project with the endpoint of the other (`ProjectAfter`). An auth file has all its
fields in every document: a field that is left whole from the longer one comes
twice, and the file does not decode; the rest of a line is a key nobody knows.

| Command | Actions |
|---|---|
| `init` | `InitCheck` (key drawn, `os.Stat` unless `--force`), `InitOpen`, `InitWrite` |
| `login` | `LoginLoad`, `LoginOpen`, `LoginWrite` |
| `project init` | `ProjectKey`, `ProjectStat`, `ProjectLoad`, `ProjectPut` (the bucket), `ProjectOpen`, `ProjectWrite` |
| `enroll join` | `OpenProject`, `JoinKey`, `JoinPut` (the bucket) |
| `recipients add`, `enroll approve` | `OpenProject`, `AddLoad` or `Refused`, `ListPut` (the bucket) |
| `recipients remove`, `remove --hard` | `OpenProject`, `RemoveLoad` or `Refused`, `ListPut` (the bucket) |

A `Place` is where a recipients document can be: a bucket and prefix at an
endpoint. `Reached` is the place a command works at for given settings:
`TIGRIS_ENDPOINT`, the constant variable `env`, goes before the endpoint of the
project file, and without either there is no place and the command stops. The
variable is the same in every shell of the instance: with different values, two
shells mean two buckets by one project file, whatever the code does.

`lists` holds, for each place, which of this machine's keys the document there
lists, revoked or not; `asked` the keys in requests. Each command that changes a
list loads it in one step and saves it whole in another. `WithDevice` is `Add` with
its result for a clash: a name, given with `--name` or stored with the key, may be
that of any entry there is, and the list is then saved as it was. `RemoveLoad`
keeps the entry when it only marks it and drops it with `--hard`, the one command
that takes an entry off the list it has loaded (a stale save may lose one as well);
`emptied` remembers the places where a `--hard` has left
nothing. What the commands of other machines write to the bucket is in
`Enrollment`, and so are names, statuses and the remaining steps of join and
approve. Everything `login` does between load and open is in `CLILogin`.

`Abort` ends a command before its next call, any number of times. `forced`, `cut`,
`emptied` and `overlapped` are history: some properties are promised only without
`--force`, without two commands at once or without an interruption, and say so.
An overlap is never forgotten, so `forced` and `cut` are no longer kept once there
has been one: no property looks at them then. An empty auth file decodes to an
empty state and is accepted; an empty project file decodes and is refused by
`remote.New` for want of a prefix; an empty key file is refused.

`ProjectBacked` is the property that depends on all of this. A project file that
can be read, whoever has written it or both, leads to a place whose recipients
have been saved; the list there is empty only if a remove `--hard` has left it so,
be it one that had loaded the list before others saved theirs; and a device that
asks to join asks at such a place. It rests on three things in the code: the
recipients are saved before the project file, the environment goes before the
file, so that the endpoint of a mixture is not used, and no other command saves an
empty list.

## Runs

TLC stops when it has seen every reachable state of the instance. Deadlock is
not checked: a CLI may have nothing to do, and the bounds on ids, instants and
faults end every behaviour.

| Run | Question | Instance |
|---|---|---|
| `enroll_race` | Do interleaved and interrupted enrollments leave invites, requests and recipients consistent, do joins respect what they have listed, and is every step one of the ledger? | 2 processes, 1 invite, 2 requests, 2 devices, 1 command cut short |
| `admin_race` | Can stale copies of the document double an entry, and which changes can they undo? | 2 processes; `desk`/`Desk` fold together, a third name equals a fingerprint |
| `solo` | What does an interrupted command leave to the next one, and does a revoked device stay revoked? | 1 process, 2 invites, 2 requests, 1 cut short; all commands but `add` |
| `retry` | Is a repeated approval ever stuck on what an interrupted one saved? | 1 process, 2 cut short, devices added by hand in between; liveness, no symmetry |
| `login_race` | Can codes and tokens go to the wrong login or be used twice, and is every step one of the chain? | 2 machines, 2 logins, 2 codes, 3 instants, 1 fault |
| `login_time` | Are deadlines kept when operations work with an earlier instant, and does a login end? | 1 machine, 2 logins, 1 code, 5 instants, a wait of 1, 1 fault; no symmetry |
| `machine` | Do the files of a machine and the bucket stay consistent? | 2 shells, 2 keys, 2 projects, one with an endpoint, `TIGRIS_ENDPOINT` set to another or not at all, 2 servers, documents of two sizes, any number cut short |
| `use_crash` | Is an invite single-use when an approval is interrupted? (no) | 1 process, 1 cut short |
| `ttl` | Does approve respect the invite's lifetime? (no) | 1 process |
| `grant` | Does a successful command mean access? (no) | 1 process |
| `code_flag` | Does `--code` accept a good code? (no) | 2 machines |
| `fallback` | Does the page show the code the prompt asks for? (no) | 2 machines |

The properties of the passing runs, beside type correctness and the inductive
invariants (`IInv` in `enroll_race`, `SoloInv` in `solo`, `HInv` in
`admin_race`, `LInv`, `FInv`), which are checked so that a proof never starts from a formula TLC refutes:

| Run | Property | Says |
|---|---|---|
| `enroll_race` | `UsedInviteSettled` | a used invite names a decided request made with it |
| | `ApprovedWasListed` | an approved request's device, or an entry that clashes with it, has been on the list |
| | `ApprovalBurnsInvite` | unless a command was cut short, the invite of an approved request is used or about to be |
| | `CountedNeverBlock` | a join is not blocked by any request it has found listed |
| | `DocumentsOnlyAdvance` | no stale write reopens a request or an invite |
| | `KeepsLedger` | every step is one of the abstract ledger |
| `admin_race` | `NoDuplicateRecipients` | no name, key or fingerprint is listed twice |
| | `UpdatesAreSingle` | a save is the loaded document with one change |
| | `RevokedReturnsUnseen` | a command that has read a revoked entry does not make its key active |
| `solo` | `PendingUnique` | one pending request per invite and per device |
| | `Provenance` | enrolled entries come from a token that was handed out |
| | `SingleUseUncut` | an invite admits one device, unless a command was cut short |
| | `RevokedStaysRevoked` | a revoked key is not active after the next step |
| `retry` | `RetryDecides` | a pending request is decided in the end |
| `login_race` | `CodeRedeemedOnce`, `OwnLogin`, `NoCodeAfterExchange` | one token per code, for the machine's own login, and no code after the exchange |
| | `KeepsChain` | every step is one of the abstract chain |
| `login_time` | `TokenHonoured`, `LoginWindow`, `LoginEnds` | saved tokens are accepted until they expire; start and token are at most two code lifetimes and one wait for the mutex apart; a login ends without its callback |
| `machine` | `ListedKeyHeld` | the key the bucket knows is the one in the key file (no overlap, no `--force`) |
| | `ProjectBacked` | a readable project file leads to recipients, or to a list a remove `--hard` has emptied |
| | `InitFirstHelps` | where no key is found, init is not refused (no overlap, no interruption) |
| | `LoginRepeatable`, `ProjectKept` | login can be run again; a readable project file is not replaced (no overlap; no `--force`) |

Why the bounds suffice for the cases of interest: a race needs two writers and
one document both loaded; single use needs two requests for one invite; a
clash needs two devices and, for case and fingerprints, names that fold; a crash
between writes needs one `Abort` (`retry` allows two in a row). In `CLILogin`
both lifetimes of a code, its grace period and the token's lifetime end within
the instants explored, and in `login_time` an operation may work with the instant
before the current one, which lies before what others have worked with. In
`LocalFiles` a document spoils another when two shells write documents of two sizes;
two projects with and without an endpoint are what a
mixture needs; and a list of two keys what two removes need to get in each other's way.
`IInv` is checked where two processes write, so that the copies it speaks of are
stale; that two invites drawn at once differ is left to its proof, since the
instance has one invite.

Symmetry: processes and ids are always interchangeable. Devices (names and keys
with their fingerprints) are permuted only where no name folds to another; in
`LocalFiles` only shells are, since keys, projects and servers differ in size. Runs
with liveness use no symmetry.

Fairness: `FairSpec` of `Enrollment` lets a running command take its next step,
which the code justifies, since the CLI calls one request after the other and
waits for nobody; `RetrySpec` adds that an administrator repeats approve as long
as some request can be loaded for it. The
leads-to property then holds because the number of interruptions is bounded and
because, with one process, the invite of a pending request is still active.
`FairSpec` of `CLILogin` lets the CLI go on: its timer fires, the HTTP client
gives up after 20 seconds, and the user answers the prompt.

### What the violations show

Each violated property is a sentence of the documentation or of the program's
own messages, quoted in the finding.

* `InviteSingleUse`: approve saves the request before the invite. Interrupted in
  between, the request is no longer pending, so no repetition reaches the
  invite; it stays active and admits a second device. Two concurrent joins and
  approvals do the same without a crash.
* `ApprovalWithinTTL`: `ValidateInviteForApproval` ignores `ExpiresAt`.
* `SuccessGrantsAccess`: approve and init take any duplicate for "already there",
  also when the clash is another device's name or a revoked entry.
* `CodeFlagAccepted`: login with `--code` starts a new login and sends its state,
  which cannot be that of a code which existed before.
* `FallbackCodeShown`: a login that was started with a callback URL keeps it when
  the CLI has timed out, so the page redirects and never shows the code.

### Other hazards

Concurrent writers of `recipients.json` lose each other's updates: an add can be
dropped, a revoke undone. The project's README lists conflict-safe updates as
planned, so this is recorded as a hazard, and `RevokedStaysRevoked`,
`PendingUnique` and `SingleUseUncut` are stated for commands that run one after the
other. For commands that overlap, `UpdatesAreSingle` and `RevokedReturnsUnseen`
bound the loss: it is confined to what was saved between a command's load and its
save. In the same
way a concurrent approve and reject leave the decision of whichever writes last;
`KeepsLedger` and `DocumentsOnlyAdvance` say what they cannot do all the same:
reopen the request, change its device, or approve a device when neither it nor an
entry that clashes with it was ever listed.

A page reloaded before the exchange gives one login several codes, each good for a
token. A lost exchange reply burns the code. A pending request whose invite was
used by another stays pending for ever, and an invite whose command stopped before
it printed the token stays until it expires. Two inits at once can list a key that the
second has overwritten; two logins at once can leave an auth file that does not
decode, and login then fails until it is removed. An init that is killed between
opening the key file and writing it leaves an empty file: every command then says
to run `envlock init` first, `envlock init` says that the key already exists, and
only `--force`, which no message mentions, helps. `InitFirstHelps` says that without
an interruption and without overlap the advice is good.

## Proofs

Each theorem holds for every value of the constants. The assumptions are those of
the modules, which TLC evaluates in the runs: `RecipientsAssumption` and
`EnrollmentAssumption` (fingerprints and folding are functions, ids differ from
the fixed origins), `LoginAssumption` (lifetimes are positive; a wait for the mutex
is bounded by some number, whatever it is) and
`LocalFilesAssumption` (documents have a length and differ from no document; no
endpoint is none of the endpoints).

| Module | Theorem | States |
|---|---|---|
| `EnrollmentProofs` | `Invariance` | `Spec => []IInv` |
| | `TypeCorrect` | `[]TypeOK` |
| | `NoDuplicatesEver` | `[]NoDuplicateRecipients` |
| | `EnrolledByToken` | `[]Provenance` |
| | `UsedMeansSettled` | `[]UsedInviteSettled` |
| | `ApprovedMeansListed` | `[]ApprovedWasListed` |
| | `OnlyAdvance` | `DocumentsOnlyAdvance` |
| | `ApprovalBurns` | `[]ApprovalBurnsInvite` |
| `HistoryProofs` | `HistoryWatches` | `HSpec => Spec` |
| | `HistoryInvariance` | `HSpec => []HInv` |
| | `SingleUpdates` | `UpdatesAreSingle` |
| | `RevocationSeenIsKept` | `RevokedReturnsUnseen` |
| | `JoinsRespectListed` | `[]CountedNeverBlock` |
| `LedgerProofs` | `EnrollmentKeepsLedger` | `Spec => KeepsLedger`, the refinement |
| `SoloProofs` | `SoloInvariance` | `[]SoloInv`, when no two commands run at once |
| | `OnePendingRequest` | `[]PendingUnique`, likewise |
| | `NoRevokedReturns` | `RevokedStaysRevoked`, likewise |
| | `SingleUse` | `[]SingleUseUncut`, likewise |
| `RecipientsProofs` | `QueryPicksOne` | two entries match one query only if one has the other's fingerprint for a name |
| `CLILoginProofs` | `LoginInvariance` | `Spec => []LInv` |
| | `LoginTypeCorrect` | `[]TypeOK` |
| | `CodeBuysOneToken` | `[]CodeRedeemedOnce` |
| | `ExchangeInTime` | `[]LoginWindow` |
| | `SavedTokenOwn` | `[]OwnLogin` |
| | `SavedTokenHonoured` | `[]TokenHonoured` |
| | `ExchangedLoginClosed` | `NoCodeAfterExchange` |
| `ChainProofs` | `LoginKeepsChain` | `Spec => KeepsChain`, the refinement |
| `LocalFilesProofs` | `FilesInvariance` | `Spec => []FInv` |
| | `FilesTypeCorrect` | `[]TypeOK` |
| | `PublishedKeyHeld` | `[]ListedKeyHeld` |
| | `ReadableProjectBacked` | `[]ProjectBacked` |
| | `LoginAgain` | `[]LoginRepeatable` |
| | `InitHelps` | `[]InitFirstHelps` |
| | `ReadableProjectKept` | `ProjectKept` |

Every proof takes one step per action and, under it, one per conjunct the action
can disturb. None of the properties is inductive as it stands.

*Enrollment.* A command writes documents it loaded long ago, so one has to say
what such a copy is still worth. `IInv` adds

* `JobsOK`: a loaded recipients document has no duplicates and traces to saved
  requests and handed-out tokens (both stay true of an old copy, because requests
  keep their device and tokens are not taken back); a loaded request has the
  device and invite of the saved one; the step before each write of an approval
  carries what the write before has established;
* `FreshIds`: ids drawn by two processes differ and are not yet in the bucket;
* `TokensSaved`, `RequestsInvited`: a token, and a request, have their invite.

`ApprovalBurnsInvite` needs no strengthening of its own: it is preserved because,
by `IInv`, the request an approval has just saved is the one whose invite it goes
on to mark, and because by `Advance`, the action behind `DocumentsOnlyAdvance`,
no other write reopens that invite or moves the request to another.

*What commands have read.* `HInv` says of each document in hand that it is
`OneChange` away from the one loaded, which has no duplicates (`BaseOK`), and of each
join that no request it has passed in its scan blocks it (`CountOK`). Loads
establish the first, since each computes one `Add`, `Revoke` or `Delete`; the
second lasts because requests keep their device and never become pending again.
`RevokedReturnsUnseen` then is a fact about documents: without duplicates, none of
the three operations makes a key active that the document lists as revoked.

*The ledger.* A write to one kind of document leaves the others as they are under
the mapping; each PUT is one action of the ledger, whose guard follows from
`IInv`: `JobsOK` says that the request in an approval's hands exists and that its
device has been listed, that a request about to be saved is new, and that an
invite about to be burnt has its decided request. Loads, scans, expiry and aborts
change no document and are stutters.

*One command at a time.* With one process, what a command has loaded is what the
bucket holds until it writes. `SoloInv` says so where it matters: the loaded
document lists as active no key the bucket has revoked, a join that has
scanned some requests and found none in its way is right about those, and an
approval past its check of the invite finds no other request of that invite
approved unless a command was cut short. The last holds because
`ApprovalBurnsInvite` turns "approved" into "its invite is used", while the
approval has found the invite active and nobody else runs. The
assumption `OneAtATime` is the hypothesis of these theorems, not of the module.

*Login.* `LInv` relates what the server and the machines hold to what has
happened. In the server's maps, a pending login and a code have been started and
issued, and their deadlines lie within one and two code lifetimes of the start,
because each is a lifetime after an instant that was read and found within the
deadline before it: a late reading makes deadlines earlier, never later, so the
waits do not add up and only the last one counts in `LoginWindow`. A
code that has bought a token is marked used as long as it is kept, and its login
is no longer pending. On the client's side, a login that waits, prompts or
exchanges sends the state of a login this machine started, and a token that is
saved, or about to be, is one the server still holds for at least as long, unless
it has expired or the server has restarted.

*The chain.* A cleanup, a refusal and a restart leave parts of the maps, so they are
`Lapse`. Each operation that adds an entry does so under a fresh id and is one link;
its guard is the check the operation makes in the same locked section, and for
`Keep` the part of `LInv` that says whose login a token in hand was granted for.
Needed from `LInv` beyond types are only that and that a code in the map carries the
state it was issued for.

*Files.* `FInv` says what a command under way knows. `JobBacked` holds under any
interleaving: a project init past its write of the bucket, a command that has
opened a project and a join have a place whose list is `Backed`, which every save
keeps so, because the list in the hands of a command is not empty unless it is a
remove `--hard` that says so. `ProjectAfterPlace` is the step about mixtures: what
can be read after a write, mixed or not, leads where the new document leads.
`JobAlone` holds while commands do not overlap: the key file is absent or empty
between an init's check and its write, the key a command has read, and each key in
a list it has loaded, is the one in the file, a key or auth file about to be
written is empty. `InitFirstHelps` is inductive together with `FInv`: init writes
what it has truncated into an empty file, so it leaves a whole key however long
the one before was.

Only model-checked: the liveness properties `RetryDecides` and `LoginEnds`,
because fairness and ENABLED are beyond the prover. `QueryPicksOne` has no run of
its own; `admin_race` has the device named like a fingerprint that it excludes.

## Not modelled

* Contents of keys, tokens and secrets: cryptography and encodings.
* Listings and status: they read and print. Dispatch and its aliases. The
  secrets commands, which return "not implemented".
* Environment and runtime configuration, except the lifetimes and `TIGRIS_ENDPOINT`.
* Routing and middleware of the server: library code.
* Functions that nothing calls: the local-file variants in `feature/enroll` and
  `feature/recipients`, `DeleteObject`, `ListInvites`.
* Writes of a file that end half way through the document.
* In `LocalFiles`: several key profiles, several project directories, and shells
  with different environments.

## Plan

Done:

1. `Recipients`, `Enrollment` with races, interruptions and expiry.
2. The inductive invariant of enrollment and its theorems.
3. `CLILogin` with races, deadlines and faults.
4. `EnrollmentLedger` and the refinement, checked and proved.
5. `LocalFiles`, checked and proved.
6. Proofs for `CLILogin`.
7. What a query picks, and what holds of commands that run one at a time, proved.
8. `EnrollmentHistory`: what concurrent writers and joins can do to each other,
   checked and proved; when an invite is single-use after all.
9. The clock read before the mutex, in `CLILogin` and its proofs.
10. `LoginChain` and the refinement, checked and proved; when the advice to run
    init is good.
11. The recipients commands against the project file, its endpoint, and files mixed
    from two writes, in `LocalFiles` and its proofs.

Left: several project directories on one machine.
