----------------------------- MODULE ChainProofs -----------------------------
(***************************************************************************)
(* CLILogin implements LoginChain: its initial state maps to that of the   *)
(* chain, and under the inductive invariant each of its steps adds one     *)
(* link, or lets something lapse, or leaves the chain as it is.            *)
(***************************************************************************)
EXTENDS CLILoginProofs

ChainNext == [Chain!Next]_(Chain!chain)

-----------------------------------------------------------------------------
(***************************************************************************)
(* What the operators of the store leave.                                  *)
(***************************************************************************)

\* Less or the same is left in the maps, and no history is made.
LEMMA LapseLinks ==
  ASSUME UNCHANGED <<history, saved>>, DOMAIN pending' \subseteq DOMAIN pending,
         Unspent' \subseteq Unspent, DOMAIN access' \subseteq DOMAIN access
  PROVE  ChainNext
<1>1. UNCHANGED <<Owner, BoundTo, Price, KeptToken>>
  BY DEF history, Owner, BoundTo, Price, KeptToken
<1>2. Chain!Lapse
  BY <1>1 DEF Chain!Lapse, Chain!Left, Chain!links
<1> QED
  BY <1>2 DEF ChainNext, Chain!Next

\* The step changes nothing the chain sees.
LEMMA QuietLinks ==
  ASSUME UNCHANGED <<server, history, saved>>
  PROVE  ChainNext
<1>1. UNCHANGED <<pending, codes, access>>
  BY DEF server
<1>2. UNCHANGED Unspent
  BY <1>1 DEF Unspent
<1> QED
  BY <1>1, <1>2, LapseLinks

\* Codes that are kept are kept as they are.
LEMMA UnspentKept ==
  ASSUME NEW f, Part(f, codes)
  PROVE  {c \in DOMAIN f : ~f[c].used} \subseteq Unspent
BY PartEntry DEF Unspent

\* cleanupLocked makes nothing open, good or valid.
LEMMA CleanupLeaves ==
  ASSUME NEW n
  PROVE  /\ DOMAIN Unexpired(pending, n) \subseteq DOMAIN pending
         /\ {c \in DOMAIN KeptCodes(n) : ~KeptCodes(n)[c].used} \subseteq Unspent
         /\ DOMAIN Unexpired(access, n) \subseteq DOMAIN access
BY UnexpiredDomain, KeptPart, UnspentKept

\* An operation that only cleans up.
LEMMA CleanupLinks ==
  ASSUME NEW n, Cleanup(n), UNCHANGED <<history, saved>>
  PROVE  ChainNext
<1>1. Unspent' = {c \in DOMAIN KeptCodes(n) : ~KeptCodes(n)[c].used}
  BY DEF Cleanup, CleanCodes, Unspent
<1> QED
  BY <1>1, CleanupLeaves, LapseLinks DEF Cleanup, CleanPending, CleanAccess

\* An exchange that is refused may drop the code it was sent.
LEMMA RefuseLinks ==
  ASSUME NEW c, NEW s, NEW n, ExchangeRefuses(c, s, n), UNCHANGED saved
  PROVE  ChainNext
<1>1. PICK S : /\ codes' = Restrict(KeptCodes(n), DOMAIN KeptCodes(n) \ S)
  BY DEF ExchangeRefuses
<1>2. Part(codes', codes)
  <2>1. DOMAIN KeptCodes(n) \ S \subseteq DOMAIN KeptCodes(n)
    OBVIOUS
  <2>2. Part(codes', KeptCodes(n))
    BY <1>1, <2>1, RestrictPart
  <2> QED
    BY <2>2, KeptPart, PartTransitive
<1>3. Unspent' \subseteq Unspent
  BY <1>2, UnspentKept DEF Unspent
<1> QED
  BY <1>3, CleanupLeaves, LapseLinks DEF ExchangeRefuses, CleanPending, CleanAccess

-----------------------------------------------------------------------------
(***************************************************************************)
(* The links.                                                              *)
(***************************************************************************)

\* StartCLILogin starts a chain.
LEMMA StartLinks ==
  ASSUME NEW p \in Cli, NEW s \in States, NEW callback, NEW n,
         StartCLILogin(p, s, callback, n), UNCHANGED saved
  PROVE  ChainNext
<1>1. Owner[s] = {}
  BY DEF StartCLILogin, Owner
<1>2. Owner' = [Owner EXCEPT ![s] = {p}]
  <2>1. /\ DOMAIN started' = DOMAIN started \cup {s}
        /\ started'[s].by = p
        /\ \A x \in DOMAIN started : x # s => started'[x] = started[x]
    BY DEF StartCLILogin, Put
  <2> QED
    BY <2>1 DEF Owner
<1>3. UNCHANGED <<BoundTo, Price, KeptToken>>
  BY DEF StartCLILogin, BoundTo, Price, KeptToken
<1>4. /\ DOMAIN pending' \subseteq DOMAIN pending \cup {s}
      /\ DOMAIN access' \subseteq DOMAIN access
      /\ Unspent' \subseteq Unspent
  <2>1. DOMAIN pending' = DOMAIN Unexpired(pending, n) \cup {s}
    BY DEF StartCLILogin, Put
  <2>2. codes' = KeptCodes(n) /\ access' = Unexpired(access, n)
    BY DEF StartCLILogin, CleanCodes, CleanAccess
  <2>3. Unspent' = {c \in DOMAIN KeptCodes(n) : ~KeptCodes(n)[c].used}
    BY <2>2 DEF Unspent
  <2> QED
    BY <2>1, <2>2, <2>3, CleanupLeaves
<1>5. Chain!Start(p, s)
  BY <1>1, <1>2, <1>3, <1>4 DEF Chain!Start, Chain!Left
<1> QED
  BY <1>5 DEF ChainNext, Chain!Next

\* IssueCodeForState looks the login up again: it binds the code to a login
\* that is open now.
LEMMA IssueLinks ==
  ASSUME StoreInv, NEW g \in pages, NEW c \in Codes, IssueCode(g, c)
  PROVE  ChainNext
<1>1. PICK n \in Read :
        /\ StillPending(g, n)
        /\ codes' = Put(KeptCodes(n), c, [state |-> g.state, expires |-> n + CodeTTL,
                                          used |-> FALSE])
        /\ CleanPending(n) /\ CleanAccess(n)
  BY DEF IssueCode
<1>2. PICK s \in States : s = g.state /\ s \in DOMAIN pending
  <2>1. g.state \in DOMAIN pending
    BY <1>1, UnexpiredDomain DEF StillPending
  <2> QED
    BY <2>1 DEF StoreInv, StoreType, Partial
<1>3. BoundTo[c] = {}
  BY DEF IssueCode, BoundTo
<1>4. BoundTo' = [BoundTo EXCEPT ![c] = {s}]
  <2>1. /\ DOMAIN issued' = DOMAIN issued \cup {c}
        /\ issued'[c] = s
        /\ \A x \in DOMAIN issued : x # c => issued'[x] = issued[x]
    BY <1>2 DEF IssueCode, Put
  <2> QED
    BY <2>1 DEF BoundTo
<1>5. UNCHANGED <<Owner, Price, KeptToken>>
  BY DEF IssueCode, Browsing, Owner, Price, KeptToken
<1>6. Unspent' \subseteq Unspent \cup {c}
  <2>1. \A x \in DOMAIN codes' : x # c => x \in DOMAIN KeptCodes(n) /\ codes'[x] = KeptCodes(n)[x]
    BY <1>1 DEF Put
  <2> QED
    BY <2>1, CleanupLeaves DEF Unspent
<1>7. Chain!Issue(s, c)
  BY <1>1, <1>2, <1>3, <1>4, <1>5, <1>6, CleanupLeaves
     DEF Chain!Issue, Chain!Left, CleanPending, CleanAccess
<1> QED
  BY <1>7 DEF ChainNext, Chain!Next

\* ExchangeCode spends the code and closes the login in the section that
\* grants the token.
LEMMA BuyLinks ==
  ASSUME StoreInv, NEW c, NEW s, NEW t \in Tokens, NEW n, ExchangeGrants(c, s, t, n),
         UNCHANGED saved
  PROVE  ChainNext
<1>1. /\ c \in DOMAIN KeptCodes(n) /\ c \in DOMAIN codes /\ ~codes[c].used
      /\ codes[c].state = s
  <2>1. c \in DOMAIN KeptCodes(n) /\ ~codes[c].used /\ codes[c].state = s
    BY DEF ExchangeGrants, Redeems
  <2> QED
    BY <2>1, KeptPart, PartEntry
<1>2. c \in Codes /\ c \in Unspent /\ BoundTo[c] = {s}
  BY <1>1 DEF StoreInv, StoreType, StoreOK, Partial, Unspent, BoundTo
<1>3. Price[t] = {} /\ Price' = [Price EXCEPT ![t] = {c}]
  <2>1. t \notin DOMAIN granted
    BY DEF ExchangeGrants
  <2>2. /\ DOMAIN granted' = DOMAIN granted \cup {t}
        /\ granted'[t].code = c
        /\ \A x \in DOMAIN granted : x # t => granted'[x] = granted[x]
    BY DEF ExchangeGrants, Put
  <2> QED
    BY <2>1, <2>2 DEF Price
<1>4. UNCHANGED <<Owner, BoundTo, KeptToken>>
  BY DEF ExchangeGrants, Owner, BoundTo, KeptToken
<1>5. DOMAIN pending' \subseteq DOMAIN pending \ {s}
  <2>1. pending' = Restrict(Unexpired(pending, n), DOMAIN Unexpired(pending, n) \ {s})
    BY <1>1 DEF ExchangeGrants, GrantToken
  <2>2. DOMAIN Unexpired(pending, n) \ {s} \subseteq DOMAIN Unexpired(pending, n)
    OBVIOUS
  <2>3. DOMAIN pending' = DOMAIN Unexpired(pending, n) \ {s}
    BY <2>1, <2>2, RestrictPart
  <2> QED
    BY <2>3, CleanupLeaves
<1>6. Unspent' \subseteq Unspent \ {c}
  <2>1. codes' = [KeptCodes(n) EXCEPT ![c].used = TRUE]
    BY DEF ExchangeGrants, GrantToken
  <2>2. KeptCodes(n)[c] \in [state: States, expires: Deadline, used: BOOLEAN]
    <3>1. Partial(KeptCodes(n), Codes, [state: States, expires: Deadline, used: BOOLEAN])
      BY KeptPart, PartType DEF StoreInv, StoreType
    <3> QED
      BY <1>1, <3>1 DEF Partial
  <2>3. codes'[c].used
    BY <1>1, <2>1, <2>2
  <2>4. \A x \in DOMAIN codes' : x # c => x \in DOMAIN KeptCodes(n) /\ codes'[x] = KeptCodes(n)[x]
    BY <2>1
  <2> QED
    BY <2>3, <2>4, CleanupLeaves DEF Unspent
<1>7. DOMAIN access' \subseteq DOMAIN access \cup {t}
  <2>1. DOMAIN access' = DOMAIN Unexpired(access, n) \cup {t}
    BY DEF ExchangeGrants, GrantToken, Put
  <2> QED
    BY <2>1, CleanupLeaves
<1>8. Chain!Buy(c, t)
  BY <1>2, <1>3, <1>4, <1>5, <1>6, <1>7 DEF Chain!Buy, Chain!Left
<1> QED
  BY <1>2, <1>8 DEF ChainNext, Chain!Next

\* runLogin saves the token it was given for its own login.
LEMMA SaveLinks ==
  ASSUME LInv, NEW p \in Cli, Save(p)
  PROVE  ChainNext
<1>1. PICK t \in Tokens : t = login[p].token /\ GrantedTo(p, t)
  <2>1. login[p] \in SaveJob
    BY JobShape DEF Save, At, LInv, TypeOK, ClientType
  <2> QED
    BY <2>1 DEF SaveJob, LInv, ClientOK, JobOK
<1>2. PICK c, s : c = granted[t].code /\ s = issued[c]
  OBVIOUS
<1>3. /\ c \in Price[t] /\ c \in Codes
      /\ s \in BoundTo[c] /\ s \in States
      /\ Owner[s] = {p}
  <2>1. t \in DOMAIN granted /\ s \in DOMAIN started /\ started[s].by = p
    BY <1>1, <1>2 DEF GrantedTo, Owns
  <2>2. c \in DOMAIN issued /\ c \in Codes /\ s \in States
    BY <1>2, <2>1 DEF LInv, StoreOK, TypeOK, StoreType, Partial
  <2> QED
    BY <1>2, <2>1, <2>2 DEF Price, BoundTo, Owner
<1>4. KeptToken' = [KeptToken EXCEPT ![p] = {t}]
  <2>1. /\ DOMAIN saved' = DOMAIN saved \cup {p}
        /\ saved'[p].token = t
        /\ \A q \in DOMAIN saved : q # p => saved'[q] = saved[q]
    BY <1>1 DEF Save, Put
  <2> QED
    BY <2>1 DEF KeptToken
<1>5. UNCHANGED <<Owner, BoundTo, Price, pending, Unspent, access>>
  BY DEF Save, server, history, Owner, BoundTo, Price, Unspent
<1>6. Chain!Keep(p, t)
  BY <1>3, <1>4, <1>5 DEF Chain!Keep
<1> QED
  BY <1>6 DEF ChainNext, Chain!Next

-----------------------------------------------------------------------------
(***************************************************************************)
(* Every step.                                                             *)
(***************************************************************************)

\* The user's command, and each step of it.
LEMMA CliLinks ==
  ASSUME LInv, NEW p \in Cli,
         CliStep(p) \/ WhoAmI(p) \/ Abort(p) \/ \E s \in States : StartLogin(p, s)
  PROVE  ChainNext
<1>1. CASE TakeCallback(p) \/ TimeOut(p) \/ Prompt(p) \/ Abort(p)
  BY <1>1, QuietLinks DEF TakeCallback, TimeOut, Prompt, Abort
<1>2. CASE Exchange(p)
  <2>1. UNCHANGED saved
    BY <1>2 DEF Exchange
  <2> QED
    BY <1>2, <2>1, BuyLinks, RefuseLinks, Parts DEF Exchange
<1>3. CASE Save(p)
  BY <1>3, SaveLinks
<1>4. CASE WhoAmI(p)
  BY <1>4, CleanupLinks DEF WhoAmI
<1>5. ASSUME NEW s \in States, StartLogin(p, s) PROVE ChainNext
  BY <1>5, StartLinks DEF StartLogin
<1> QED
  BY <1>1, <1>2, <1>3, <1>4, <1>5 DEF CliStep

\* The handlers, the browser, the clock and a restart.
LEMMA ServerLinks ==
  ASSUME LInv,
         \/ \E s \in States : OpenPage(s)
         \/ \E g \in pages : EndPage(g) \/ \E c \in Codes : IssueCode(g, c)
         \/ \E r \in redirects : Deliver(r)
         \/ \E c \in Codes : ExchangeUnattended(c)
         \/ Tick \/ Restart
  PROVE  ChainNext
<1>1. ASSUME NEW s \in States, OpenPage(s) PROVE ChainNext
  BY <1>1, CleanupLinks DEF OpenPage, Browsing
<1>2. ASSUME NEW g \in pages, EndPage(g) PROVE ChainNext
  BY <1>2, CleanupLinks, QuietLinks DEF EndPage, Browsing
<1>3. ASSUME NEW g \in pages, NEW c \in Codes, IssueCode(g, c) PROVE ChainNext
  BY <1>3, IssueLinks, Parts
<1>4. ASSUME NEW r \in redirects, Deliver(r) PROVE ChainNext
  BY <1>4, QuietLinks DEF Deliver
<1>5. ASSUME NEW c \in Codes, ExchangeUnattended(c) PROVE ChainNext
  <2>1. PICK s : s = issued[c]
    OBVIOUS
  <2> QED
    BY <1>5, <2>1, BuyLinks, RefuseLinks, Parts DEF ExchangeUnattended
<1>6. CASE Tick
  BY <1>6, QuietLinks DEF Tick
<1>7. CASE Restart
  <2>1. UNCHANGED <<Owner, BoundTo, Price, KeptToken>>
    BY <1>7 DEF Restart, Owner, BoundTo, Price, KeptToken
  <2>2. DOMAIN pending' = {} /\ Unspent' = {} /\ DOMAIN access' = {}
    BY <1>7 DEF Restart, None, Unspent
  <2>3. Chain!Lapse
    BY <2>1, <2>2 DEF Chain!Lapse, Chain!Left, Chain!links
  <2> QED
    BY <2>3 DEF ChainNext, Chain!Next
<1> QED
  BY <1>1, <1>2, <1>3, <1>4, <1>5, <1>6, <1>7

\* Every step of the server, of a CLI and of what surrounds them.
LEMMA StepLinks ==
  ASSUME LInv, [Next]_vars
  PROVE  ChainNext
<1>1. CASE UNCHANGED vars
  BY <1>1, QuietLinks DEF vars
<1> QED
  BY <1>1, CliLinks, ServerLinks DEF Next

\* At the start there is no chain.
LEMMA InitLinks == Init => Chain!Init
BY DEF Init, None, Chain!Init, Owner, BoundTo, Price, KeptToken, Unspent

\* Whatever is sent to the server, whenever, and however often it restarts:
\* a token in an auth file is the end of a chain of its machine's login.
THEOREM LoginKeepsChain == Spec => KeepsChain
<1>1. LInv /\ [Next]_vars => ChainNext
  BY StepLinks
<1> QED
  BY <1>1, InitLinks, LoginInvariance, PTL DEF Spec, KeepsChain, Chain!Spec, ChainNext

=============================================================================
