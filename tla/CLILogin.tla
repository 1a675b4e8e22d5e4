------------------------------ MODULE CLILogin ------------------------------
(***************************************************************************)
(* envlock login and whoami against the envlock server: the MemoryStore of *)
(* core/auth, the handlers of feature/cliauth and the CLI's side with its  *)
(* localhost callback.                                                     *)
(*                                                                         *)
(* The server keeps pending logins, one-time codes and access tokens in    *)
(* three maps under one mutex; every operation first drops what has        *)
(* expired.  It reads the clock before it waits for the mutex, so it may   *)
(* work with an earlier instant than an operation which has come before    *)
(* it.  The authorize page takes the mutex twice.  A browser that is       *)
(* redirected to a callback holds that URL and may load it any number of   *)
(* times.  A step is one locked section, one delivery, or one wake-up of   *)
(* the CLI.                                                                *)
(*                                                                         *)
(* Simplifications: there is one user and one server URL; random strings   *)
(* do not collide; refresh tokens are stored by the server but no          *)
(* operation reads them; one login at a time runs on a machine, and the    *)
(* auth file is written in one step; the clock may also be read before the *)
(* request that needs it was sent, which allows more than the code does.   *)
(***************************************************************************)
EXTENDS Naturals, Functions

CONSTANTS
  Cli,         \* machines on which the CLI runs
  States,      \* random states of logins
  Codes,       \* random one-time codes
  Tokens,      \* random access tokens
  CodeTTL,     \* CLILoginCodeTTL, of a pending login and of a code
  Grace,       \* the five minutes an expired code is still kept
  AccessTTL,   \* AccessTokenTTL
  MaxWait,     \* the longest an operation waits for the mutex
  MaxTime,     \* bound: the last instant explored
  MaxFaults    \* bound: commands cut short and server restarts

ASSUME LoginAssumption ==
  /\ CodeTTL \in Nat \ {0}
  /\ AccessTTL \in Nat \ {0}
  /\ Grace \in Nat
  /\ MaxWait \in Nat
  /\ MaxTime \in Nat
  /\ MaxFaults \in Nat

VARIABLES
  now,         \* the clock
  pending,     \* server: logins started, by state
  codes,       \* server: codes issued, by code
  access,      \* server: access tokens granted, by token
  pages,       \* authorize handlers between their two locked sections
  redirects,   \* callback URLs browsers were sent to
  login,       \* what each CLI is doing
  saved,       \* the auth file of each machine that has one
  started,     \* history: state -> who started the login, and when
  issued,      \* history: code -> the state it was issued for
  granted,     \* history: token -> the code it was granted for, and when
  forgotten,   \* history: tokens lost when the server restarted
  faults       \* commands cut short and restarts so far

server == <<pending, codes, access>>
history == <<started, issued, granted, forgotten>>
vars == <<now, server, pages, redirects, login, saved, history, faults>>

Time == 0..MaxTime
Deadline == 0..(MaxTime + CodeTTL + AccessTTL)

Idle == [at |-> "idle"]
WaitJob == [at: {"waiting"}, state: States, inbox: SUBSET Codes]
PromptJob == [at: {"prompt"}, state: States]
ExchangeJob == [at: {"exchange"}, state: States, code: Codes, flag: BOOLEAN]
SaveJob == [at: {"save"}, state: States, token: Tokens, expires: Deadline]
Job == {Idle} \cup WaitJob \cup PromptJob \cup ExchangeJob \cup SaveJob

\* The functions from some of the keys in K to V.
Partial(f, K, V) == DOMAIN f \subseteq K /\ f \in [DOMAIN f -> V]

StoreType ==
  /\ now \in Time
  /\ Partial(pending, States, [callback: SUBSET Cli, expires: Deadline])
  /\ Partial(codes, Codes, [state: States, expires: Deadline, used: BOOLEAN])
  /\ Partial(access, Tokens, [expires: Deadline])
  /\ Partial(started, States, [by: Cli, at: Time])
  /\ Partial(issued, Codes, States)
  /\ Partial(granted, Tokens, [code: Codes, at: Time])
  /\ forgotten \subseteq Tokens

ClientType ==
  /\ pages \subseteq [state: States, callback: SUBSET Cli]
  /\ redirects \subseteq [to: Cli, code: Codes]
  /\ login \in [Cli -> Job]
  /\ Partial(saved, Cli, [token: Tokens, expires: Deadline])
  /\ faults \in 0..MaxFaults

TypeOK == StoreType /\ ClientType

None == [x \in {} |-> x]

\* The map m with entry v under key k.
Put(m, k, v) == [x \in DOMAIN m \cup {k} |-> IF x = k THEN v ELSE m[x]]

Init ==
  /\ now = 0
  /\ pending = None /\ codes = None /\ access = None
  /\ pages = {} /\ redirects = {}
  /\ login = [p \in Cli |-> Idle]
  /\ saved = None
  /\ started = None /\ issued = None /\ granted = None /\ forgotten = {}
  /\ faults = 0

-----------------------------------------------------------------------------
(***************************************************************************)
(* The store.  Every operation has read the clock at n, takes the mutex    *)
(* now, and starts with cleanupLocked.                                     *)
(***************************************************************************)

\* What an operation that has the mutex now may have read from the clock.
Read == {n \in Time : n <= now /\ now <= n + MaxWait}

\* Mutant: a token is dropped at its last instant, not after it.
UnexpiredEarly(m, n) == Restrict(m, {k \in DOMAIN m : n < m[k].expires})

\* The entries of m that are not past their deadline.
Unexpired(m, n) == Restrict(m, {k \in DOMAIN m : n <= m[k].expires})

\* The codes that are kept: used and expired ones for a while longer.
KeptCodes(n) == Restrict(codes, {c \in DOMAIN codes : n <= codes[c].expires + Grace})

CleanPending(n) == pending' = Unexpired(pending, n)
CleanCodes(n) == codes' = KeptCodes(n)
CleanAccess(n) == access' = Unexpired(access, n)
Cleanup(n) == CleanPending(n) /\ CleanCodes(n) /\ CleanAccess(n)

\* StartCLILogin, for machine p and a callback or none.
StartCLILogin(p, s, callback, n) ==
  /\ s \notin DOMAIN started
  /\ started' = Put(started, s, [by |-> p, at |-> now])
  /\ pending' = Put(Unexpired(pending, n), s,
                    [callback |-> callback, expires |-> n + CodeTTL])
  /\ CleanCodes(n) /\ CleanAccess(n)
  /\ UNCHANGED <<issued, granted, forgotten>>

\* Mutant: the code is as good as long as it is in the map.
RedeemsKept(c, s, n) ==
  c \in DOMAIN KeptCodes(n) /\ codes[c].state = s /\ ~codes[c].used

\* Mutant: the state of the request is not compared.
RedeemsAny(c, s, n) ==
  c \in DOMAIN Unexpired(codes, n) /\ ~codes[c].used

\* The checks of ExchangeCode.
Redeems(c, s, n) ==
  /\ c \in DOMAIN KeptCodes(n)
  /\ codes[c].state = s
  /\ n <= codes[c].expires
  /\ ~codes[c].used

\* Mutant: the code is not marked as used.
GrantKeepsCode(c, t, n) ==
  /\ access' = Put(Unexpired(access, n), t, [expires |-> n + AccessTTL])
  /\ codes' = KeptCodes(n)
  /\ pending' = Restrict(Unexpired(pending, n),
                         DOMAIN Unexpired(pending, n) \ {codes[c].state})

\* Mutant: the login stays open for further codes.
GrantLeavesLogin(c, t, n) ==
  /\ access' = Put(Unexpired(access, n), t, [expires |-> n + AccessTTL])
  /\ codes' = [KeptCodes(n) EXCEPT ![c].used = TRUE]
  /\ pending' = Unexpired(pending, n)

\* What ExchangeCode stores when it grants token t for code c.
GrantToken(c, t, n) ==
  /\ access' = Put(Unexpired(access, n), t, [expires |-> n + AccessTTL])
  /\ codes' = [KeptCodes(n) EXCEPT ![c].used = TRUE]
  /\ pending' = Restrict(Unexpired(pending, n),
                         DOMAIN Unexpired(pending, n) \ {codes[c].state})

ExchangeGrants(c, s, t, n) ==
  /\ Redeems(c, s, n)
  /\ t \notin DOMAIN granted
  /\ GrantToken(c, t, n)
  /\ granted' = Put(granted, t, [code |-> c, at |-> now])
  /\ UNCHANGED <<started, issued, forgotten>>

\* An expired code that came with its state is dropped.
ExchangeRefuses(c, s, n) ==
  LET dropped == {d \in {c} : d \in DOMAIN KeptCodes(n) /\ codes[d].state = s
                                /\ n > codes[d].expires}
  IN /\ ~Redeems(c, s, n)
     /\ codes' = Restrict(KeptCodes(n), DOMAIN KeptCodes(n) \ dropped)
     /\ CleanPending(n) /\ CleanAccess(n)
     /\ UNCHANGED history

-----------------------------------------------------------------------------
(***************************************************************************)
(* The authorize page: GetPendingCLILogin, and in a second locked section  *)
(* IssueCodeForState.  Each reads the clock for itself.                    *)
(***************************************************************************)
Browsing == UNCHANGED <<now, login, saved, faults>>

OpenPage(s) ==
  /\ \E n \in Read : s \in DOMAIN Unexpired(pending, n) /\ Cleanup(n)
  /\ pages' = pages \cup {[state |-> s, callback |-> pending[s].callback]}
  /\ UNCHANGED redirects /\ UNCHANGED history /\ Browsing

\* Mutant: what the first section saw is trusted.
StillPendingThen(g, n) == TRUE

\* IssueCodeForState looks the login up again.
StillPending(g, n) == g.state \in DOMAIN Unexpired(pending, n)

\* The handler answers with a redirect to the callback, or else with a page
\* that shows the code.
IssueCode(g, c) ==
  /\ g \in pages
  /\ c \notin DOMAIN issued
  /\ \E n \in Read :
       /\ StillPending(g, n)
       /\ codes' = Put(KeptCodes(n), c, [state |-> g.state, expires |-> n + CodeTTL,
                                         used |-> FALSE])
       /\ CleanPending(n) /\ CleanAccess(n)
  /\ issued' = Put(issued, c, g.state)
  /\ pages' = pages \ {g}
  /\ redirects' = redirects \cup {[to |-> p, code |-> c] : p \in g.callback}
  /\ UNCHANGED <<started, granted, forgotten>> /\ Browsing

\* The handler ends without a code: the login is gone, or the page is the
\* form that a POST has yet to confirm.
EndPage(g) ==
  /\ g \in pages
  /\ pages' = pages \ {g}
  /\ UNCHANGED server \/ \E n \in Read : ~StillPending(g, n) /\ Cleanup(n)
  /\ UNCHANGED redirects /\ UNCHANGED history /\ Browsing

-----------------------------------------------------------------------------
(***************************************************************************)
(* envlock login.                                                          *)
(***************************************************************************)
Goto(p, j) == login' = [login EXCEPT ![p] = j]
At(p, a) == login[p].at = a

Local == UNCHANGED <<now, pages, redirects, faults>>

\* The user starts a login: with a callback listener, without one because it
\* could not be opened, or with a code in hand (--code).
StartLogin(p, s) ==
  /\ At(p, "idle")
  /\ \E n \in Read :
       \/ /\ StartCLILogin(p, s, {p}, n)
          /\ Goto(p, [at |-> "waiting", state |-> s, inbox |-> {}])
       \/ /\ StartCLILogin(p, s, {}, n)
          /\ Goto(p, [at |-> "prompt", state |-> s])
       \/ \E c \in DOMAIN issued :
            /\ StartCLILogin(p, s, {}, n)
            /\ Goto(p, [at |-> "exchange", state |-> s, code |-> c, flag |-> TRUE])
  /\ UNCHANGED saved /\ Local

\* Mutant: the handler takes the state parameter for the code.
DeliverState(r) ==
  /\ r \in redirects
  /\ At(r.to, "waiting")
  /\ login[r.to].inbox = {}
  /\ login' = [login EXCEPT ![r.to].inbox = {issued[r.code]}]
  /\ UNCHANGED <<server, history, saved>> /\ Local

\* The browser loads the callback URL.  The first code fills the channel;
\* the listener may by now be that of a later login on the same port.
Deliver(r) ==
  /\ r \in redirects
  /\ At(r.to, "waiting")
  /\ login[r.to].inbox = {}
  /\ login' = [login EXCEPT ![r.to].inbox = {r.code}]
  /\ UNCHANGED <<server, history, saved>> /\ Local

TakeCallback(p) ==
  /\ At(p, "waiting")
  /\ \E c \in login[p].inbox :
       Goto(p, [at |-> "exchange", state |-> login[p].state, code |-> c,
                flag |-> FALSE])
  /\ UNCHANGED <<server, history, saved>> /\ Local

\* Mutant: the select waits for the callback only.
TimeOutNever(p) == FALSE

\* The timer of select fires; if a code is there as well, either may win.
TimeOut(p) ==
  /\ At(p, "waiting")
  /\ Goto(p, [at |-> "prompt", state |-> login[p].state])
  /\ UNCHANGED <<server, history, saved>> /\ Local

\* The user pastes a code some page or URL has shown, or an empty line.
Prompt(p) ==
  /\ At(p, "prompt")
  /\ \/ \E c \in DOMAIN issued :
          Goto(p, [at |-> "exchange", state |-> login[p].state, code |-> c,
                   flag |-> FALSE])
     \/ Goto(p, Idle)
  /\ UNCHANGED <<server, history, saved>> /\ Local

Exchange(p) ==
  /\ At(p, "exchange")
  /\ \E n \in Read :
       \/ \E t \in Tokens :
            /\ ExchangeGrants(login[p].code, login[p].state, t, n)
            /\ Goto(p, [at |-> "save", state |-> login[p].state, token |-> t,
                        expires |-> n + AccessTTL])
       \/ /\ ExchangeRefuses(login[p].code, login[p].state, n)
          /\ Goto(p, Idle)
  /\ UNCHANGED saved /\ Local

Save(p) ==
  /\ At(p, "save")
  /\ saved' = Put(saved, p, [token |-> login[p].token, expires |-> login[p].expires])
  /\ Goto(p, Idle)
  /\ UNCHANGED <<server, history>> /\ Local

\* envlock whoami: ValidateAccessToken answers, and cleans up.
WhoAmI(p) ==
  /\ p \in DOMAIN saved
  /\ \E n \in Read : Cleanup(n)
  /\ UNCHANGED <<history, login, saved>> /\ Local

-----------------------------------------------------------------------------
(***************************************************************************)
(* Time and faults.                                                        *)
(***************************************************************************)
Tick ==
  /\ now < MaxTime
  /\ now' = now + 1
  /\ UNCHANGED <<server, pages, redirects, login, saved, history, faults>>

Fault == faults < MaxFaults /\ faults' = faults + 1

\* The CLI is killed, a call fails, a reply is lost or the callback comes
\* without a code.
Abort(p) ==
  /\ ~At(p, "idle")
  /\ Fault
  /\ Goto(p, Idle)
  /\ UNCHANGED <<now, server, pages, redirects, saved, history>>

\* The server handles an exchange for which no CLI waits: one that was sent
\* before the CLI gave up, or one of another client, which may send no state.
ExchangeUnattended(c) ==
  /\ c \in DOMAIN issued
  /\ \E n \in Read : \/ \E t \in Tokens : ExchangeGrants(c, issued[c], t, n)
                     \/ ExchangeRefuses(c, issued[c], n)
  /\ UNCHANGED <<login, saved>> /\ Local

\* The server restarts with an empty store; handlers under way are lost.
Restart ==
  /\ Fault
  /\ pending' = None /\ codes' = None /\ access' = None
  /\ pages' = {}
  /\ forgotten' = forgotten \cup DOMAIN access
  /\ UNCHANGED <<now, redirects, login, saved, started, issued, granted>>

-----------------------------------------------------------------------------
CliStep(p) ==
  TakeCallback(p) \/ TimeOut(p) \/ Prompt(p) \/ Exchange(p) \/ Save(p)

Next ==
  \/ \E p \in Cli : CliStep(p) \/ WhoAmI(p) \/ Abort(p)
  \/ \E p \in Cli, s \in States : StartLogin(p, s)
  \/ \E s \in States : OpenPage(s)
  \/ \E g \in pages : EndPage(g) \/ \E c \in Codes : IssueCode(g, c)
  \/ \E r \in redirects : Deliver(r)
  \/ \E c \in Codes : ExchangeUnattended(c)
  \/ Tick
  \/ Restart

Spec == Init /\ [][Next]_vars

\* The CLI's timer fires, the HTTP client gives up after 20 seconds and the
\* user answers the prompt: a login that runs takes its next step.
FairSpec == Spec /\ \A p \in Cli : WF_vars(CliStep(p))

-----------------------------------------------------------------------------
\* A code buys one token, whoever sends it, however often and however late.
CodeRedeemedOnce ==
  \A t, u \in DOMAIN granted : granted[t].code = granted[u].code => t = u

\* The token in a machine's auth file was granted for a login started there,
\* although a callback or a pasted code may come from another login.
OwnLogin ==
  \A p \in DOMAIN saved :
    started[issued[granted[saved[p].token].code]].by = p

\* A saved token whose expiry has not come is one the server knows, unless
\* it has been restarted since.  Of an operation that works with an earlier
\* instant this holds all the more.
TokenHonoured ==
  \A p \in DOMAIN saved :
    now <= saved[p].expires /\ saved[p].token \notin forgotten
      => /\ saved[p].token \in DOMAIN access
         /\ now <= access[saved[p].token].expires

\* A token is granted within two lifetimes of the start of the login, one for
\* the pending login and one for the code, and one wait for the mutex: the
\* waits of the steps in between do not add up.
LoginWindow ==
  \A t \in DOMAIN granted :
    granted[t].at <= started[issued[granted[t].code]].at + 2 * CodeTTL + MaxWait

\* Once a login has been exchanged no page issues a code for it, not even
\* one that was opened before.
NoCodeAfterExchange ==
  [][\A c \in DOMAIN issued' \ DOMAIN issued, t \in DOMAIN granted :
       issued[granted[t].code] # issued'[c]]_vars

\* A login ends, with or without a callback.
LoginEnds == \A p \in Cli : ~At(p, "idle") ~> At(p, "idle")

(***************************************************************************)
(* The inductive invariant behind the safety properties: how the store's   *)
(* maps and what a CLI still holds of a login relate to its history.       *)
(***************************************************************************)
Owns(p, s) == s \in DOMAIN started /\ started[s].by = p

GrantedTo(p, t) == t \in DOMAIN granted /\ Owns(p, issued[granted[t].code])

Honoured(t, e) ==
  now <= e /\ t \notin forgotten => t \in DOMAIN access /\ e <= access[t].expires

\* A login, a code and a token leave their maps only for good, and a granted
\* code takes its login along.
StoreOK ==
  /\ \A s \in DOMAIN pending :
       s \in DOMAIN started /\ pending[s].expires <= started[s].at + CodeTTL
  /\ \A c \in DOMAIN issued : issued[c] \in DOMAIN started
  /\ \A c \in DOMAIN codes :
       /\ c \in DOMAIN issued /\ codes[c].state = issued[c]
       /\ codes[c].expires <= started[issued[c]].at + 2 * CodeTTL
  /\ DOMAIN access \subseteq DOMAIN granted
  /\ \A t \in DOMAIN granted :
       /\ granted[t].code \in DOMAIN issued
       /\ issued[granted[t].code] \notin DOMAIN pending
       /\ granted[t].code \in DOMAIN codes => codes[granted[t].code].used

\* Job j of machine p.
JobOK(p, j) ==
  /\ j.at # "idle" => Owns(p, j.state)
  /\ j.at = "save" => GrantedTo(p, j.token) /\ Honoured(j.token, j.expires)

ClientOK ==
  /\ \A p \in Cli : JobOK(p, login[p])
  /\ \A p \in DOMAIN saved :
       GrantedTo(p, saved[p].token) /\ Honoured(saved[p].token, saved[p].expires)

LInv == TypeOK /\ StoreOK /\ ClientOK /\ CodeRedeemedOnce /\ LoginWindow

(***************************************************************************)
(* What login promises, step by step: the chain of LoginChain.             *)
(***************************************************************************)
Owner == [s \in States |-> IF s \in DOMAIN started THEN {started[s].by} ELSE {}]
BoundTo == [c \in Codes |-> IF c \in DOMAIN issued THEN {issued[c]} ELSE {}]
Price == [t \in Tokens |-> IF t \in DOMAIN granted THEN {granted[t].code} ELSE {}]
KeptToken == [p \in Cli |-> IF p \in DOMAIN saved THEN {saved[p].token} ELSE {}]
Unspent == {c \in DOMAIN codes : ~codes[c].used}

Chain == INSTANCE LoginChain WITH
  owner <- Owner,
  boundTo <- BoundTo,
  price <- Price,
  kept <- KeptToken,
  open <- DOMAIN pending,
  good <- Unspent,
  valid <- DOMAIN access

\* Seen through the mapping, every step of the store, of a handler and of a
\* CLI adds one link to a chain or lets something lapse: however late a step
\* comes after the look-up it relies on, and whatever a restart has lost, no
\* login is opened, no code made good and no token made valid again.
KeepsChain == Chain!Spec

(***************************************************************************)
(* What the documentation and the messages promise.                        *)
(***************************************************************************)

\* A code that could be redeemed is accepted when it is given with --code.
CodeFlagAccepted ==
  [][\A p \in Cli :
       At(p, "exchange") /\ Exchange(p) /\ login[p].flag
         /\ (\A n \in Read : Redeems(login[p].code, issued[login[p].code], n))
         => login'[p].at = "save"]_vars

\* When the CLI has timed out, the page shows the user the code to paste.
FallbackCodeShown ==
  [][\A p \in Cli : At(p, "prompt") =>
       \A r \in redirects' \ redirects : issued'[r.code] # login[p].state]_vars

=============================================================================
