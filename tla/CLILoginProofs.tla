--------------------------- MODULE CLILoginProofs ---------------------------
(***************************************************************************)
(* The safety of the login protocol, for any number of machines, logins,   *)
(* codes, tokens, restarts and any lifetimes.                              *)
(*                                                                         *)
(* LInv has a part about the store and one about the clients.  What a      *)
(* client relies on - the history, and that a token it holds is honoured - *)
(* is kept by every step of the store (Kept), so each action is proved     *)
(* for the two parts apart.                                                *)
(***************************************************************************)
EXTENDS CLILogin, TLAPS

\* g has some of the entries of f.
Part(g, f) == DOMAIN g \subseteq DOMAIN f /\ g = [x \in DOMAIN g |-> f[x]]

StoreInv == StoreType /\ StoreOK /\ CodeRedeemedOnce /\ LoginWindow

\* What a step leaves to the clients.
Kept ==
  /\ Part(started, started') /\ Part(issued, issued') /\ Part(granted, granted')
  /\ \A t \in Tokens, e \in Deadline : Honoured(t, e) => Honoured(t, e)'

-----------------------------------------------------------------------------
(***************************************************************************)
(* The operators of the store.                                             *)
(***************************************************************************)
LEMMA PartEntry ==
  ASSUME NEW f, NEW g, Part(g, f)
  PROVE  \A x \in DOMAIN g : x \in DOMAIN f /\ g[x] = f[x]
BY DEF Part

\* A part of a well-typed map is well typed.
LEMMA PartType ==
  ASSUME NEW f, NEW g, Part(g, f), NEW K, NEW V, Partial(f, K, V)
  PROVE  Partial(g, K, V)
BY DEF Part, Partial

\* A part of a part is a part.
LEMMA PartTransitive ==
  ASSUME NEW f, NEW g, NEW h, Part(h, g), Part(g, f)
  PROVE  Part(h, f)
BY DEF Part

\* Restrict keeps the entries it is asked for.
LEMMA RestrictPart ==
  ASSUME NEW f, NEW S, S \subseteq DOMAIN f
  PROVE  DOMAIN Restrict(f, S) = S /\ Part(Restrict(f, S), f)
BY DEF Restrict, Part

\* An entry stays until its deadline is before the instant read.
LEMMA UnexpiredDomain ==
  ASSUME NEW m, NEW n
  PROVE  \A k : k \in DOMAIN Unexpired(m, n) <=> k \in DOMAIN m /\ n <= m[k].expires
BY DEF Unexpired, Restrict

\* cleanupLocked changes no entry it keeps.
LEMMA UnexpiredPart ==
  ASSUME NEW m, NEW n
  PROVE  Part(Unexpired(m, n), m)
BY DEF Unexpired, Restrict, Part

\* An assignment to a map keeps it well typed.
LEMMA PutType ==
  ASSUME NEW K, NEW V, NEW g, Partial(g, K, V), NEW x \in K, NEW v \in V
  PROVE  Partial(Put(g, x, v), K, V)
BY DEF Partial, Put

\* The grace period of codes changes none either.
LEMMA KeptPart ==
  ASSUME NEW n
  PROVE  Part(KeptCodes(n), codes)
<1>1. {c \in DOMAIN codes : n <= codes[c].expires + Grace} \subseteq DOMAIN codes
  OBVIOUS
<1> QED
  BY <1>1, RestrictPart DEF KeptCodes

\* A map is a part of itself.
LEMMA SelfPart ==
  ASSUME NEW f, NEW K, NEW V, Partial(f, K, V)
  PROVE  Part(f, f)
BY DEF Part, Partial

\* What the clock has shown an operation before it got the mutex.
LEMMA ReadFacts ==
  ASSUME StoreType, NEW n \in Read
  PROVE  /\ n \in Nat /\ now \in Nat /\ now \in Time
         /\ n <= now /\ now <= n + MaxWait
BY LoginAssumption DEF Read, StoreType, Time

\* A token that is dropped has expired: the clock the operation has read is
\* late at most.
LEMMA HonourKept ==
  ASSUME StoreType, StoreType', NEW n \in Nat, n <= now, now <= now',
         UNCHANGED forgotten, Part(Unexpired(access, n), access')
  PROVE  \A t \in Tokens, e \in Deadline : Honoured(t, e) => Honoured(t, e)'
<1> SUFFICES ASSUME NEW t \in Tokens, NEW e \in Deadline, Honoured(t, e),
                    now' <= e, t \notin forgotten
             PROVE  t \in DOMAIN access' /\ e <= access'[t].expires
  BY DEF Honoured
<1>1. now \in Nat /\ now' \in Nat /\ e \in Nat
  BY LoginAssumption DEF StoreType, Time, Deadline
<1>2. now <= e
  BY <1>1
<1>3. t \in DOMAIN access /\ e <= access[t].expires /\ access[t].expires \in Nat
  BY <1>2, LoginAssumption DEF Honoured, StoreType, Partial, Deadline
<1>4. t \in DOMAIN Unexpired(access, n)
  <2>1. n <= access[t].expires
    BY <1>1, <1>2, <1>3
  <2> QED
    BY <1>3, <2>1, UnexpiredDomain
<1>5. Unexpired(access, n)[t] = access[t]
  BY <1>4, UnexpiredPart, PartEntry
<1>6. t \in DOMAIN access' /\ Unexpired(access, n)[t] = access'[t]
  BY <1>4, PartEntry
<1> QED
  BY <1>3, <1>5, <1>6

\* The history maps are.
LEMMA HistorySelf ==
  ASSUME StoreType
  PROVE  Part(started, started) /\ Part(issued, issued) /\ Part(granted, granted)
BY SelfPart DEF StoreType

-----------------------------------------------------------------------------
(***************************************************************************)
(* The store.                                                              *)
(***************************************************************************)

\* Entries are dropped from the maps, tokens only when they have expired.
LEMMA DropStep ==
  ASSUME StoreInv, UNCHANGED history, now' \in Time, now <= now',
         Part(pending', pending), Part(codes', codes), Part(access', access),
         NEW n \in Nat, n <= now, Part(Unexpired(access, n), access')
  PROVE  StoreInv' /\ Kept
<1>1. StoreType'
  BY PartType DEF StoreInv, StoreType, history
<1>2. StoreOK'
  <2>1. \A s \in DOMAIN pending' : s \in DOMAIN pending /\ pending'[s] = pending[s]
    BY PartEntry
  <2>2. \A c \in DOMAIN codes' : c \in DOMAIN codes /\ codes'[c] = codes[c]
    BY PartEntry
  <2>3. DOMAIN access' \subseteq DOMAIN access
    BY PartEntry
  <2> QED
    BY <2>1, <2>2, <2>3 DEF StoreInv, StoreOK, history
<1>3. CodeRedeemedOnce' /\ LoginWindow'
  BY DEF StoreInv, CodeRedeemedOnce, LoginWindow, history
<1>4. Kept
  BY <1>1, HonourKept, HistorySelf DEF Kept, history, StoreInv
<1> QED
  BY <1>1, <1>2, <1>3, <1>4 DEF StoreInv

\* An operation that only cleans up, and may drop a code besides.
LEMMA CleanupStep ==
  ASSUME StoreInv, NEW n \in Read, CleanPending(n), CleanAccess(n),
         Part(codes', codes), UNCHANGED history, UNCHANGED now
  PROVE  StoreInv' /\ Kept
<1>1. now \in Nat /\ now' \in Time /\ n \in Nat /\ n <= now
  BY ReadFacts DEF StoreInv
<1>2. Part(pending', pending) /\ Part(access', access)
  BY UnexpiredPart DEF CleanPending, CleanAccess
<1>3. Part(Unexpired(access, n), access')
  BY <1>2, SelfPart, PartType DEF CleanAccess, StoreInv, StoreType
<1> QED
  BY <1>1, <1>2, <1>3, DropStep

\* Nothing happens at the server.
LEMMA QuietStep ==
  ASSUME StoreInv, UNCHANGED <<server, history>>, now' \in Time, now <= now'
  PROVE  StoreInv' /\ Kept
<1>1. Part(Unexpired(access, now), access') /\ now \in Nat
  BY UnexpiredPart, LoginAssumption DEF server, StoreInv, StoreType, Time
<1>2. Part(pending', pending) /\ Part(codes', codes) /\ Part(access', access)
  BY SelfPart DEF server, StoreInv, StoreType
<1> QED
  BY <1>1, <1>2, DropStep

\* ExchangeCode refuses.
LEMMA RefuseStep ==
  ASSUME StoreInv, NEW c, NEW s, NEW n \in Read, ExchangeRefuses(c, s, n), UNCHANGED now
  PROVE  StoreInv' /\ Kept
<1>1. PICK D : codes' = Restrict(KeptCodes(n), DOMAIN KeptCodes(n) \ D)
  BY DEF ExchangeRefuses
<1>2. Part(codes', KeptCodes(n))
  BY <1>1, RestrictPart
<1>3. Part(codes', codes)
  BY <1>2, KeptPart, PartTransitive
<1> QED
  BY <1>3, CleanupStep DEF ExchangeRefuses

\* StartCLILogin: the deadline is one lifetime after the start at most.
LEMMA StartStep ==
  ASSUME StoreInv, NEW p \in Cli, NEW s \in States, NEW callback \in SUBSET Cli,
         NEW n \in Read, StartCLILogin(p, s, callback, n), UNCHANGED now
  PROVE  StoreInv' /\ Kept /\ Owns(p, s)'
<1> DEFINE new == [callback |-> callback, expires |-> n + CodeTTL]
<1>1. /\ s \notin DOMAIN started
      /\ started' = Put(started, s, [by |-> p, at |-> now])
      /\ pending' = Put(Unexpired(pending, n), s, new)
      /\ codes' = KeptCodes(n) /\ access' = Unexpired(access, n)
      /\ UNCHANGED <<issued, granted, forgotten>>
  BY DEF StartCLILogin, CleanCodes, CleanAccess
<1>2. /\ now \in Time /\ now \in Nat /\ n \in Nat /\ n <= now
      /\ new \in [callback: SUBSET Cli, expires: Deadline]
  BY ReadFacts, LoginAssumption DEF StoreInv, Time, Deadline
<1>3. new.expires <= now + CodeTTL
  BY <1>2, LoginAssumption
<1> HIDE DEF new
<1>4. /\ DOMAIN started' = DOMAIN started \cup {s}
      /\ started'[s] = [by |-> p, at |-> now]
      /\ \A x \in DOMAIN started : started'[x] = started[x]
      /\ Part(started, started')
  <2>1. Part(started, started)
    BY HistorySelf DEF StoreInv
  <2> QED
    BY <1>1, <2>1 DEF Put, Part
<1>5. s \notin DOMAIN pending
  BY <1>1 DEF StoreInv, StoreOK
<1>6. /\ DOMAIN pending' = DOMAIN Unexpired(pending, n) \cup {s}
      /\ DOMAIN Unexpired(pending, n) \subseteq DOMAIN pending
      /\ pending'[s] = new
      /\ \A x \in DOMAIN Unexpired(pending, n) : pending'[x] = pending[x]
  <2>1. Part(Unexpired(pending, n), pending)
    BY UnexpiredPart
  <2> QED
    BY <1>1, <1>5, <2>1 DEF Put, Part
<1>7. Part(codes', codes) /\ Part(access', access)
  BY <1>1, KeptPart, UnexpiredPart
<1>8. StoreType'
  <2>1. Partial(Unexpired(pending, n), States, [callback: SUBSET Cli, expires: Deadline])
    BY UnexpiredPart, PartType DEF StoreInv, StoreType
  <2>2. Partial(pending, States, [callback: SUBSET Cli, expires: Deadline])'
    BY <1>1, <1>2, <2>1, PutType
  <2>3. Partial(started, States, [by: Cli, at: Time])'
    BY <1>1, <1>2, PutType DEF StoreInv, StoreType
  <2> QED
    BY <1>1, <1>2, <1>7, <2>2, <2>3, PartType DEF StoreInv, StoreType
<1>9. StoreOK'
  <2>1. \A x \in DOMAIN pending' :
          x \in DOMAIN started' /\ pending'[x].expires <= started'[x].at + CodeTTL
    BY <1>3, <1>4, <1>6 DEF StoreInv, StoreOK
  <2>2. \A c \in DOMAIN codes' : c \in DOMAIN codes /\ codes'[c] = codes[c]
    BY <1>7, PartEntry
  <2>3. DOMAIN access' \subseteq DOMAIN access
    BY <1>7, PartEntry
  <2>4. \A c \in DOMAIN issued : issued[c] # s
    BY <1>1 DEF StoreInv, StoreOK
  <2> QED
    BY <1>1, <1>4, <1>6, <2>1, <2>2, <2>3, <2>4 DEF StoreInv, StoreOK
<1>10. CodeRedeemedOnce' /\ LoginWindow'
  BY <1>1, <1>4 DEF StoreInv, StoreOK, CodeRedeemedOnce, LoginWindow
<1>11. Kept
  <2>1. Part(Unexpired(access, n), access')
    BY <1>1, <1>8, SelfPart DEF StoreType
  <2> QED
    BY <1>1, <1>2, <1>4, <1>8, <2>1, HonourKept, HistorySelf DEF Kept, StoreInv
<1> QED
  BY <1>4, <1>8, <1>9, <1>10, <1>11 DEF StoreInv, Owns

\* IssueCodeForState: the code ends within two lifetimes of the start.
LEMMA IssueStep ==
  ASSUME StoreInv, NEW g \in pages, NEW c \in Codes, IssueCode(g, c)
  PROVE  StoreInv' /\ Kept
<1>0. PICK n \in Read :
        /\ StillPending(g, n)
        /\ codes' = Put(KeptCodes(n), c, [state |-> g.state, expires |-> n + CodeTTL,
                                          used |-> FALSE])
        /\ CleanPending(n) /\ CleanAccess(n)
  BY DEF IssueCode
<1> DEFINE new == [state |-> g.state, expires |-> n + CodeTTL, used |-> FALSE]
<1>1. /\ c \notin DOMAIN issued
      /\ issued' = Put(issued, c, g.state)
      /\ codes' = Put(KeptCodes(n), c, new)
      /\ pending' = Unexpired(pending, n) /\ access' = Unexpired(access, n)
      /\ UNCHANGED <<started, granted, forgotten, now>>
  BY <1>0 DEF IssueCode, CleanPending, CleanAccess, Browsing
<1>2. g.state \in DOMAIN pending /\ n <= pending[g.state].expires
  BY <1>0, UnexpiredDomain DEF StillPending
<1>3. /\ g.state \in States /\ g.state \in DOMAIN started
      /\ started[g.state].at \in Nat
      /\ now \in Time /\ now \in Nat /\ n \in Nat /\ n <= now
      /\ n + CodeTTL <= started[g.state].at + 2 * CodeTTL
  <2>1. /\ pending[g.state].expires \in Nat
        /\ pending[g.state].expires <= started[g.state].at + CodeTTL
        /\ g.state \in States /\ g.state \in DOMAIN started
        /\ started[g.state].at \in Nat
    BY <1>2, LoginAssumption DEF StoreInv, StoreOK, StoreType, Partial, Time, Deadline
  <2>2. now \in Time /\ now \in Nat /\ n \in Nat /\ n <= now
    BY ReadFacts DEF StoreInv
  <2> QED
    BY <1>2, <2>1, <2>2, LoginAssumption
<1>4. new \in [state: States, expires: Deadline, used: BOOLEAN]
  BY <1>3, LoginAssumption DEF Time, Deadline
<1>5. new.state = g.state /\ new.expires = n + CodeTTL
  OBVIOUS
<1> HIDE DEF new
<1>6. /\ DOMAIN issued' = DOMAIN issued \cup {c}
      /\ issued'[c] = g.state
      /\ \A x \in DOMAIN issued : issued'[x] = issued[x]
      /\ Part(issued, issued')
  <2>1. Part(issued, issued)
    BY HistorySelf DEF StoreInv
  <2> QED
    BY <1>1, <2>1 DEF Put, Part
<1>7. c \notin DOMAIN codes
  BY <1>1 DEF StoreInv, StoreOK
<1>8. /\ DOMAIN codes' = DOMAIN KeptCodes(n) \cup {c}
      /\ DOMAIN KeptCodes(n) \subseteq DOMAIN codes
      /\ codes'[c] = new
      /\ \A x \in DOMAIN KeptCodes(n) : codes'[x] = codes[x]
  BY <1>1, <1>7, KeptPart DEF Put, Part
<1>9. Part(pending', pending) /\ Part(access', access)
  BY <1>1, UnexpiredPart
<1>10. StoreType'
  <2>1. Partial(KeptCodes(n), Codes, [state: States, expires: Deadline, used: BOOLEAN])
    BY KeptPart, PartType DEF StoreInv, StoreType
  <2>2. Partial(codes, Codes, [state: States, expires: Deadline, used: BOOLEAN])'
    BY <1>1, <1>4, <2>1, PutType
  <2>3. Partial(issued, Codes, States)'
    BY <1>1, <1>3, PutType DEF StoreInv, StoreType
  <2> QED
    BY <1>1, <1>3, <1>9, <2>2, <2>3, PartType DEF StoreInv, StoreType
<1>11. StoreOK'
  <2>1. \A s \in DOMAIN pending' : s \in DOMAIN pending /\ pending'[s] = pending[s]
    BY <1>9, PartEntry
  <2>2. DOMAIN access' \subseteq DOMAIN access
    BY <1>9, PartEntry
  <2>3. \A d \in DOMAIN codes' :
          /\ d \in DOMAIN issued' /\ codes'[d].state = issued'[d]
          /\ codes'[d].expires <= started[issued'[d]].at + 2 * CodeTTL
    BY <1>3, <1>5, <1>6, <1>8 DEF StoreInv, StoreOK
  <2>4. \A t \in DOMAIN granted :
          granted[t].code # c /\ issued'[granted[t].code] = issued[granted[t].code]
    BY <1>1, <1>6 DEF StoreInv, StoreOK
  <2> QED
    BY <1>1, <1>3, <1>6, <1>8, <2>1, <2>2, <2>3, <2>4 DEF StoreInv, StoreOK
<1>12. CodeRedeemedOnce' /\ LoginWindow'
  BY <1>1, <1>6 DEF StoreInv, StoreOK, CodeRedeemedOnce, LoginWindow
<1>13. Kept
  <2>1. Part(Unexpired(access, n), access')
    BY <1>1, <1>10, SelfPart DEF StoreType
  <2> QED
    BY <1>1, <1>3, <1>6, <1>10, <2>1, HonourKept, HistorySelf DEF Kept, StoreInv
<1> QED
  BY <1>10, <1>11, <1>12, <1>13 DEF StoreInv

\* ExchangeCode grants: the code was unused and in time, the login goes.
LEMMA GrantStep ==
  ASSUME StoreInv, NEW c, NEW s, NEW t \in Tokens, NEW n \in Read,
         ExchangeGrants(c, s, t, n), UNCHANGED now
  PROVE  /\ StoreInv' /\ Kept
         /\ s = issued[c] /\ t \in DOMAIN granted' /\ granted'[t].code = c
         /\ Honoured(t, n + AccessTTL)' /\ n + AccessTTL \in Deadline
<1>1. /\ t \notin DOMAIN granted
      /\ granted' = Put(granted, t, [code |-> c, at |-> now])
      /\ access' = Put(Unexpired(access, n), t, [expires |-> n + AccessTTL])
      /\ codes' = [KeptCodes(n) EXCEPT ![c].used = TRUE]
      /\ pending' = Restrict(Unexpired(pending, n), DOMAIN Unexpired(pending, n) \ {codes[c].state})
      /\ UNCHANGED <<started, issued, forgotten>>
  BY DEF ExchangeGrants, GrantToken
<1>2. /\ c \in DOMAIN KeptCodes(n) /\ codes[c].state = s
      /\ n <= codes[c].expires /\ ~codes[c].used
  BY DEF ExchangeGrants, Redeems
<1>3. c \in DOMAIN codes /\ KeptCodes(n)[c] = codes[c]
  BY <1>2, KeptPart, PartEntry
<1>4. /\ c \in Codes /\ c \in DOMAIN issued /\ s = issued[c] /\ s \in DOMAIN started
      /\ now \in Time /\ now \in Nat /\ n \in Nat
      /\ n <= now /\ now <= n + MaxWait /\ n + AccessTTL \in Deadline
  <2>1. c \in Codes /\ c \in DOMAIN issued /\ s = issued[c] /\ s \in DOMAIN started
    BY <1>2, <1>3 DEF StoreInv, StoreType, Partial, StoreOK
  <2>2. now \in Time /\ now \in Nat /\ n \in Nat /\ n <= now /\ now <= n + MaxWait
    BY ReadFacts DEF StoreInv
  <2> QED
    BY <2>1, <2>2, LoginAssumption DEF Time, Deadline
<1>5. /\ DOMAIN granted' = DOMAIN granted \cup {t}
      /\ granted'[t] = [code |-> c, at |-> now]
      /\ \A x \in DOMAIN granted : granted'[x] = granted[x]
      /\ Part(granted, granted')
  <2>1. Part(granted, granted)
    BY HistorySelf DEF StoreInv
  <2> QED
    BY <1>1, <2>1 DEF Put, Part
<1>6. t \notin DOMAIN access
  BY <1>1 DEF StoreInv, StoreOK
<1>7. /\ DOMAIN access' = DOMAIN Unexpired(access, n) \cup {t}
      /\ DOMAIN Unexpired(access, n) \subseteq DOMAIN access
      /\ access'[t] = [expires |-> n + AccessTTL]
      /\ Part(Unexpired(access, n), access')
  <2>1. Part(Unexpired(access, n), access)
    BY UnexpiredPart
  <2> QED
    BY <1>1, <1>6, <2>1 DEF Put, Part
<1>8. Partial(KeptCodes(n), Codes, [state: States, expires: Deadline, used: BOOLEAN])
  BY KeptPart, PartType DEF StoreInv, StoreType
<1>9. /\ DOMAIN codes' = DOMAIN KeptCodes(n)
      /\ codes'[c].used
      /\ \A d \in DOMAIN codes' :
           /\ d \in DOMAIN codes
           /\ codes'[d].state = codes[d].state /\ codes'[d].expires = codes[d].expires
           /\ codes[d].used => codes'[d].used
  <2>1. \A d \in DOMAIN KeptCodes(n) : d \in DOMAIN codes /\ KeptCodes(n)[d] = codes[d]
    BY KeptPart, PartEntry
  <2> QED
    BY <1>1, <1>2, <1>8, <2>1 DEF Partial
<1>10. Part(pending', pending) /\ s \notin DOMAIN pending'
  <2>1. DOMAIN Unexpired(pending, n) \ {s} \subseteq DOMAIN Unexpired(pending, n)
    OBVIOUS
  <2>2. Part(pending', Unexpired(pending, n)) /\ DOMAIN pending' = DOMAIN Unexpired(pending, n) \ {s}
    BY <1>1, <1>2, <2>1, RestrictPart
  <2> QED
    BY <2>2, UnexpiredPart, PartTransitive
<1>11. StoreType'
  <2>1. Partial(Unexpired(access, n), Tokens, [expires: Deadline])
    BY UnexpiredPart, PartType DEF StoreInv, StoreType
  <2>2. Partial(access, Tokens, [expires: Deadline])'
    BY <1>1, <1>4, <2>1, PutType
  <2>3. Partial(granted, Tokens, [code: Codes, at: Time])'
    BY <1>1, <1>4, PutType DEF StoreInv, StoreType
  <2>4. Partial(codes, Codes, [state: States, expires: Deadline, used: BOOLEAN])'
    BY <1>1, <1>8 DEF Partial
  <2> QED
    BY <1>1, <1>4, <1>10, <2>2, <2>3, <2>4, PartType DEF StoreInv, StoreType
<1>12. StoreOK'
  <2>1. \A x \in DOMAIN pending' : x \in DOMAIN pending /\ pending'[x] = pending[x]
    BY <1>10, PartEntry
  <2>2. DOMAIN access' \subseteq DOMAIN granted'
    BY <1>5, <1>7 DEF StoreInv, StoreOK
  <2>3. \A u \in DOMAIN granted' :
          /\ granted'[u].code \in DOMAIN issued
          /\ issued[granted'[u].code] \notin DOMAIN pending'
          /\ granted'[u].code \in DOMAIN codes' => codes'[granted'[u].code].used
    BY <1>4, <1>5, <1>9, <1>10, <2>1 DEF StoreInv, StoreOK
  <2>4. \A d \in DOMAIN codes' :
          /\ d \in DOMAIN issued /\ codes'[d].state = issued[d]
          /\ codes'[d].expires <= started[issued[d]].at + 2 * CodeTTL
    BY <1>9 DEF StoreInv, StoreOK
  <2> QED
    BY <1>1, <2>1, <2>2, <2>3, <2>4 DEF StoreInv, StoreOK
<1>13. CodeRedeemedOnce'
  BY <1>2, <1>3, <1>5 DEF StoreInv, StoreOK, CodeRedeemedOnce
<1>14. LoginWindow'
  <2>1. now <= started[issued[c]].at + 2 * CodeTTL + MaxWait
    <3>1. /\ codes[c].expires \in Nat
          /\ codes[c].expires <= started[issued[c]].at + 2 * CodeTTL
          /\ started[issued[c]].at \in Nat
      BY <1>3, <1>4, LoginAssumption DEF StoreInv, StoreOK, StoreType, Partial, Time, Deadline
    <3> QED
      BY <1>2, <1>4, <3>1, LoginAssumption
  <2> QED
    BY <1>1, <1>5, <2>1 DEF StoreInv, LoginWindow
<1>15. Kept
  BY <1>1, <1>4, <1>5, <1>7, <1>11, HonourKept, HistorySelf DEF Kept, StoreInv
<1>16. Honoured(t, n + AccessTTL)'
  BY <1>4, <1>7, LoginAssumption DEF Honoured
<1> QED
  BY <1>4, <1>5, <1>11, <1>12, <1>13, <1>14, <1>15, <1>16 DEF StoreInv

-----------------------------------------------------------------------------
(***************************************************************************)
(* The clients.                                                            *)
(***************************************************************************)
LEMMA JobShape ==
  ASSUME NEW j \in Job
  PROVE  /\ j.at = "idle" => j = Idle
         /\ j.at = "waiting" => j \in WaitJob
         /\ j.at = "prompt" => j \in PromptJob
         /\ j.at = "exchange" => j \in ExchangeJob
         /\ j.at = "save" => j \in SaveJob
BY DEF Job, Idle, WaitJob, PromptJob, ExchangeJob, SaveJob

\* What a client holds of a login stays true.
LEMMA GrantKept ==
  ASSUME StoreOK, Kept, NEW p, NEW t, GrantedTo(p, t)
  PROVE  GrantedTo(p, t)'
<1>1. t \in DOMAIN granted' /\ granted'[t] = granted[t]
  BY PartEntry DEF Kept, GrantedTo
<1>2. /\ granted[t].code \in DOMAIN issued'
      /\ issued'[granted[t].code] = issued[granted[t].code]
  BY PartEntry DEF Kept, GrantedTo, StoreOK
<1>3. /\ issued[granted[t].code] \in DOMAIN started'
      /\ started'[issued[granted[t].code]].by = p
  BY PartEntry DEF Kept, GrantedTo, Owns
<1> QED
  BY <1>1, <1>2, <1>3 DEF GrantedTo, Owns

\* What a job holds of a login stays true.
LEMMA JobKept ==
  ASSUME StoreOK, Kept, NEW p, NEW j \in Job, JobOK(p, j)
  PROVE  JobOK(p, j)'
<1>1. ASSUME j.at # "idle" PROVE Owns(p, j.state)'
  BY <1>1, PartEntry DEF JobOK, Owns, Kept
<1>2. ASSUME j.at = "save"
      PROVE  GrantedTo(p, j.token)' /\ Honoured(j.token, j.expires)'
  <2>1. j.token \in Tokens /\ j.expires \in Deadline
    BY <1>2, JobShape DEF SaveJob
  <2> QED
    BY <1>2, <2>1, GrantKept DEF JobOK, Kept
<1> QED
  BY <1>1, <1>2 DEF JobOK

\* The entry of the auth file x.
LEMMA SavedKept ==
  ASSUME StoreOK, Kept, NEW p, NEW x \in [token: Tokens, expires: Deadline],
         GrantedTo(p, x.token), Honoured(x.token, x.expires)
  PROVE  GrantedTo(p, x.token)' /\ Honoured(x.token, x.expires)'
BY GrantKept DEF Kept

Clients == ClientType /\ ClientOK

\* The clients do nothing.
LEMMA IdleStep ==
  ASSUME StoreOK, Clients, Kept, ClientType', UNCHANGED <<login, saved>>
  PROVE  Clients'
<1>1. \A p \in Cli : JobOK(p, login[p])'
  <2> TAKE p \in Cli
  <2>1. PICK j \in Job : j = login[p] /\ JobOK(p, j)
    BY DEF Clients, ClientType, ClientOK
  <2>2. JobOK(p, j)' /\ login'[p] = j
    BY <2>1, JobKept
  <2> QED
    BY <2>2 DEF JobOK
<1>2. \A p \in DOMAIN saved :
        GrantedTo(p, saved[p].token)' /\ Honoured(saved[p].token, saved[p].expires)'
  <2> TAKE p \in DOMAIN saved
  <2>1. PICK x \in [token: Tokens, expires: Deadline] : x = saved[p]
    BY DEF Clients, ClientType, Partial
  <2>2. GrantedTo(p, x.token)' /\ Honoured(x.token, x.expires)'
    BY <2>1, SavedKept DEF Clients, ClientOK
  <2> QED
    BY <2>1, <2>2
<1> QED
  BY <1>1, <1>2 DEF Clients, ClientOK

\* Machine p goes on with job j.
LEMMA GotoStep ==
  ASSUME StoreOK, Clients, Kept, NEW p \in Cli, NEW j \in Job, Goto(p, j), JobOK(p, j)',
         UNCHANGED saved, pages' = pages, redirects' = redirects, faults' \in 0..MaxFaults
  PROVE  Clients'
<1>1. login' \in [Cli -> Job] /\ login'[p] = j /\ \A q \in Cli \ {p} : login'[q] = login[q]
  BY DEF Goto, Clients, ClientType
<1>2. \A q \in Cli : JobOK(q, login[q])'
  <2> TAKE q \in Cli
  <2>1. PICK k \in Job : k = login'[q] /\ (q = p \/ JobOK(q, k))
    BY <1>1 DEF Clients, ClientOK
  <2>2. JobOK(q, k)'
    BY <1>1, <2>1, JobKept
  <2> QED
    BY <2>1, <2>2
<1>3. \A q \in DOMAIN saved :
        GrantedTo(q, saved[q].token)' /\ Honoured(saved[q].token, saved[q].expires)'
  <2> TAKE q \in DOMAIN saved
  <2>1. PICK x \in [token: Tokens, expires: Deadline] : x = saved[q]
    BY DEF Clients, ClientType, Partial
  <2>2. GrantedTo(q, x.token)' /\ Honoured(x.token, x.expires)'
    BY <2>1, SavedKept DEF Clients, ClientOK
  <2> QED
    BY <2>1, <2>2
<1> QED
  BY <1>1, <1>2, <1>3 DEF Clients, ClientType, ClientOK

-----------------------------------------------------------------------------
(***************************************************************************)
(* The actions.                                                            *)
(***************************************************************************)
LEMMA Parts == LInv <=> StoreInv /\ Clients
BY DEF LInv, StoreInv, Clients, TypeOK

\* Time stands still.
LEMMA SameTime ==
  ASSUME StoreInv, UNCHANGED now
  PROVE  now' \in Time /\ now <= now'
BY LoginAssumption DEF StoreInv, StoreType, Time

\* runLogin starts a login at the server.
LEMMA StartLoginStep ==
  ASSUME StoreInv, Clients, NEW p \in Cli, NEW s \in States, StartLogin(p, s)
  PROVE  StoreInv' /\ Clients'
<1>0. PICK n \in Read :
        \/ /\ StartCLILogin(p, s, {p}, n)
           /\ Goto(p, [at |-> "waiting", state |-> s, inbox |-> {}])
        \/ /\ StartCLILogin(p, s, {}, n)
           /\ Goto(p, [at |-> "prompt", state |-> s])
        \/ \E c \in DOMAIN issued :
             /\ StartCLILogin(p, s, {}, n)
             /\ Goto(p, [at |-> "exchange", state |-> s, code |-> c, flag |-> TRUE])
  BY DEF StartLogin
<1>1. PICK callback \in SUBSET Cli, j \in Job :
        /\ StartCLILogin(p, s, callback, n) /\ Goto(p, j)
        /\ j.at \notin {"idle", "save"} /\ j.state = s
  <2>1. CASE /\ StartCLILogin(p, s, {p}, n)
             /\ Goto(p, [at |-> "waiting", state |-> s, inbox |-> {}])
    BY <2>1 DEF Job, WaitJob
  <2>2. CASE /\ StartCLILogin(p, s, {}, n)
             /\ Goto(p, [at |-> "prompt", state |-> s])
    BY <2>2 DEF Job, PromptJob
  <2>3. ASSUME NEW c \in DOMAIN issued, StartCLILogin(p, s, {}, n),
               Goto(p, [at |-> "exchange", state |-> s, code |-> c, flag |-> TRUE])
        PROVE  \E callback \in SUBSET Cli, j \in Job :
                 /\ StartCLILogin(p, s, callback, n) /\ Goto(p, j)
                 /\ j.at \notin {"idle", "save"} /\ j.state = s
    <3> DEFINE j == [at |-> "exchange", state |-> s, code |-> c, flag |-> TRUE]
    <3>1. c \in Codes
      BY DEF StoreInv, StoreType, Partial
    <3>2. j \in ExchangeJob /\ j.at = "exchange" /\ j.state = s
      BY <3>1 DEF ExchangeJob
    <3>3. j \in Job
      BY <3>2 DEF Job
    <3>4. Goto(p, j)
      BY <2>3
    <3> HIDE DEF j
    <3> QED
      BY <2>3, <3>2, <3>3, <3>4
  <2> QED
    BY <1>0, <2>1, <2>2, <2>3
<1>2. UNCHANGED <<now, pages, redirects, faults, saved>>
  BY DEF StartLogin, Local
<1>3. StoreInv' /\ Kept /\ Owns(p, s)'
  BY <1>1, <1>2, StartStep
<1>4. JobOK(p, j)'
  BY <1>1, <1>3 DEF JobOK
<1> QED
  BY <1>1, <1>2, <1>3, <1>4, GotoStep DEF StoreInv, Clients, ClientType

\* The browser loads a callback URL.
LEMMA DeliverStep ==
  ASSUME StoreInv, Clients, NEW r \in redirects, Deliver(r)
  PROVE  StoreInv' /\ Clients'
<1>1. PICK p \in Cli, c \in Codes, j \in Job :
        /\ p = r.to /\ c = r.code /\ j = [login[p] EXCEPT !.inbox = {c}]
        /\ j.at = "waiting" /\ j.state = login[p].state
  <2>1. r.to \in Cli /\ r.code \in Codes
    BY DEF Clients, ClientType
  <2>2. login[r.to] \in WaitJob
    BY <2>1, JobShape DEF Clients, ClientType, Deliver, At
  <2> DEFINE j == [login[r.to] EXCEPT !.inbox = {r.code}]
  <2>3. j \in WaitJob /\ j.at = "waiting" /\ j.state = login[r.to].state
    BY <2>1, <2>2 DEF WaitJob
  <2>4. j \in Job
    BY <2>3 DEF Job
  <2> QED
    BY <2>1, <2>3, <2>4
<1>2. Goto(p, j)
  BY <1>1 DEF Deliver, Goto, Clients, ClientType
<1>3. StoreInv' /\ Kept
  BY SameTime, QuietStep DEF Deliver, Local
<1>4. JobOK(p, j)
  BY <1>1 DEF Clients, ClientOK, JobOK, Deliver, At
<1>5. JobOK(p, j)'
  BY <1>3, <1>4, JobKept DEF StoreInv
<1> QED
  BY <1>2, <1>3, <1>5, GotoStep DEF Deliver, Local, StoreInv, Clients, ClientType

\* The steps of the CLI at which it talks to nobody.
LEMMA LocalStep ==
  ASSUME StoreInv, Clients, NEW p \in Cli, TakeCallback(p) \/ TimeOut(p) \/ Prompt(p)
  PROVE  StoreInv' /\ Clients'
<1>1. StoreInv' /\ Kept
  BY SameTime, QuietStep DEF TakeCallback, TimeOut, Prompt, Local
<1>2. PICK j \in Job :
        /\ Goto(p, j)
        /\ \/ j = Idle
           \/ /\ j.at \in {"prompt", "exchange"} /\ ~At(p, "idle")
              /\ j.state = login[p].state
  <2>1. CASE TakeCallback(p)
    <3>1. login[p] \in WaitJob
      BY <2>1, JobShape DEF TakeCallback, At, Clients, ClientType
    <3>2. PICK c \in Codes :
            Goto(p, [at |-> "exchange", state |-> login[p].state, code |-> c, flag |-> FALSE])
      BY <2>1, <3>1 DEF TakeCallback, WaitJob
    <3> DEFINE j == [at |-> "exchange", state |-> login[p].state, code |-> c, flag |-> FALSE]
    <3>3. j \in Job
      BY <3>1 DEF WaitJob, Job, ExchangeJob
    <3> QED
      BY <2>1, <3>2, <3>3 DEF TakeCallback, At
  <2>2. CASE TimeOut(p)
    <3>1. login[p] \in WaitJob
      BY <2>2, JobShape DEF TimeOut, At, Clients, ClientType
    <3> QED
      BY <2>2, <3>1 DEF TimeOut, At, Job, WaitJob, PromptJob
  <2>3. CASE Prompt(p)
    <3>1. login[p] \in PromptJob
      BY <2>3, JobShape DEF Prompt, At, Clients, ClientType
    <3>2. DOMAIN issued \subseteq Codes
      BY DEF StoreInv, StoreType, Partial
    <3>3. CASE Goto(p, Idle)
      BY <3>3 DEF Job
    <3>4. ASSUME NEW c \in DOMAIN issued,
                 Goto(p, [at |-> "exchange", state |-> login[p].state, code |-> c,
                          flag |-> FALSE])
          PROVE  \E j \in Job :
                   /\ Goto(p, j)
                   /\ \/ j = Idle
                      \/ /\ j.at \in {"prompt", "exchange"} /\ ~At(p, "idle")
                         /\ j.state = login[p].state
      <4> DEFINE j == [at |-> "exchange", state |-> login[p].state, code |-> c,
                       flag |-> FALSE]
      <4>1. j \in Job
        BY <3>1, <3>2 DEF PromptJob, Job, ExchangeJob
      <4> QED
        BY <2>3, <3>4, <4>1 DEF Prompt, At
    <3> QED
      BY <2>3, <3>3, <3>4 DEF Prompt
  <2> QED
    BY <2>1, <2>2, <2>3
<1>3. JobOK(p, j)
  BY <1>2 DEF JobOK, Clients, ClientOK, Idle, At
<1>4. JobOK(p, j)'
  BY <1>1, <1>3, JobKept DEF StoreInv
<1> QED
  BY <1>1, <1>2, <1>4, GotoStep
     DEF TakeCallback, TimeOut, Prompt, Local, StoreInv, Clients, ClientType

\* The CLI exchanges its code, and is granted a token or refused.
LEMMA ExchangeStep ==
  ASSUME StoreInv, Clients, NEW p \in Cli, Exchange(p)
  PROVE  StoreInv' /\ Clients'
<1>1. UNCHANGED <<now, pages, redirects, faults, saved>>
  BY DEF Exchange, Local
<1>2. login[p] \in ExchangeJob /\ Owns(p, login[p].state)
  BY JobShape DEF Exchange, At, Clients, ClientType, ClientOK, JobOK
<1>3. ASSUME NEW n \in Read, NEW t \in Tokens,
             ExchangeGrants(login[p].code, login[p].state, t, n),
             Goto(p, [at |-> "save", state |-> login[p].state, token |-> t,
                      expires |-> n + AccessTTL])
      PROVE  StoreInv' /\ Clients'
  <2>1. PICK c, s : c = login[p].code /\ s = login[p].state
    OBVIOUS
  <2>2. /\ StoreInv' /\ Kept
        /\ s = issued[c] /\ t \in DOMAIN granted' /\ granted'[t].code = c
        /\ Honoured(t, n + AccessTTL)' /\ n + AccessTTL \in Deadline
    BY <1>1, <1>3, <2>1, GrantStep
  <2>3. PICK j \in Job : j = [at |-> "save", state |-> s, token |-> t,
                              expires |-> n + AccessTTL]
    BY <1>2, <2>1, <2>2 DEF Job, SaveJob, ExchangeJob
  <2>4. /\ issued'[c] = s
        /\ s \in DOMAIN started' /\ started'[s].by = p
    BY <1>2, <1>3, <2>1, <2>2, PartEntry DEF Owns, Kept, ExchangeGrants
  <2>5. GrantedTo(p, t)' /\ Owns(p, s)'
    BY <2>2, <2>4 DEF GrantedTo, Owns
  <2>6. JobOK(p, j)'
    BY <1>1, <2>2, <2>3, <2>5 DEF JobOK
  <2> QED
    BY <1>1, <1>3, <2>1, <2>2, <2>3, <2>6, GotoStep DEF StoreInv, Clients, ClientType
<1>4. ASSUME NEW n \in Read, ExchangeRefuses(login[p].code, login[p].state, n),
             Goto(p, Idle)
      PROVE  StoreInv' /\ Clients'
  <2>1. StoreInv' /\ Kept
    BY <1>1, <1>4, RefuseStep
  <2>2. Idle \in Job /\ JobOK(p, Idle)'
    BY DEF Job, Idle, JobOK
  <2> QED
    BY <1>1, <1>4, <2>1, <2>2, GotoStep DEF StoreInv, Clients, ClientType
<1> QED
  BY <1>3, <1>4 DEF Exchange

\* The CLI writes the auth file.
LEMMA SaveStep ==
  ASSUME StoreInv, Clients, NEW p \in Cli, Save(p)
  PROVE  StoreInv' /\ Clients'
<1>1. PICK j \in SaveJob : j = login[p] /\ JobOK(p, j)
  BY JobShape DEF Save, At, Clients, ClientType, ClientOK
<1>2. PICK x \in [token: Tokens, expires: Deadline] :
        /\ x = [token |-> j.token, expires |-> j.expires]
        /\ saved' = Put(saved, p, x)
        /\ GrantedTo(p, x.token) /\ Honoured(x.token, x.expires)
  BY <1>1 DEF SaveJob, Save, JobOK
<1>3. StoreInv' /\ Kept
  BY SameTime, QuietStep DEF Save, Local
<1>4. ClientType'
  <2>1. Partial(saved, Cli, [token: Tokens, expires: Deadline])'
    BY <1>2, PutType DEF Clients, ClientType
  <2>2. login' \in [Cli -> Job]
    BY DEF Save, Goto, Clients, ClientType, Job
  <2> QED
    BY <2>1, <2>2 DEF Clients, ClientType, Save, Local
<1>5. \A q \in Cli : JobOK(q, login[q])'
  <2> TAKE q \in Cli
  <2>1. PICK k \in Job : k = login'[q] /\ JobOK(q, k)
    BY DEF Save, Goto, Clients, ClientType, ClientOK, Job, JobOK, Idle
  <2>2. JobOK(q, k)'
    BY <1>3, <2>1, JobKept DEF StoreInv
  <2> QED
    BY <2>1, <2>2
<1>6. \A q \in DOMAIN saved' :
        GrantedTo(q, saved[q].token)' /\ Honoured(saved[q].token, saved[q].expires)'
  <2> TAKE q \in DOMAIN saved'
  <2>1. PICK y \in [token: Tokens, expires: Deadline] :
          /\ y = saved'[q]
          /\ GrantedTo(q, y.token) /\ Honoured(y.token, y.expires)
    BY <1>2 DEF Put, Clients, ClientType, ClientOK, Partial
  <2>2. GrantedTo(q, y.token)' /\ Honoured(y.token, y.expires)'
    BY <1>3, <2>1, SavedKept DEF StoreInv
  <2> QED
    BY <2>1, <2>2
<1> QED
  BY <1>3, <1>4, <1>5, <1>6 DEF Clients, ClientOK

\* The first section of the page, its end, and whoami: at most a cleanup.
LEMMA BrowserStep ==
  ASSUME StoreInv, Clients,
         \/ \E s \in States : OpenPage(s)
         \/ \E g \in pages : EndPage(g)
         \/ \E p \in Cli : WhoAmI(p)
  PROVE  StoreInv' /\ Clients'
<1>1. UNCHANGED <<login, saved>> /\ ClientType'
  <2>1. CASE \E s \in States : OpenPage(s)
    <3>1. PICK s \in States : OpenPage(s)
      BY <2>1
    <3>2. s \in DOMAIN pending
      BY <3>1, UnexpiredDomain DEF OpenPage
    <3>3. pending[s].callback \in SUBSET Cli
      BY <3>2 DEF StoreInv, StoreType, Partial
    <3>4. [state |-> s, callback |-> pending[s].callback]
             \in [state: States, callback: SUBSET Cli]
      BY <3>3
    <3> QED
      BY <3>1, <3>4 DEF OpenPage, Browsing, Clients, ClientType
  <2>2. CASE (\E g \in pages : EndPage(g)) \/ \E p \in Cli : WhoAmI(p)
    BY <2>2 DEF EndPage, WhoAmI, Browsing, Local, Clients, ClientType
  <2> QED
    BY <2>1, <2>2
<1>2. UNCHANGED <<history, now>>
  BY DEF OpenPage, EndPage, WhoAmI, Browsing, Local
<1>3. UNCHANGED server \/ \E n \in Read : Cleanup(n)
  BY DEF OpenPage, EndPage, WhoAmI
<1>4. StoreInv' /\ Kept
  <2>1. CASE UNCHANGED server
    BY <1>2, <2>1, SameTime, QuietStep
  <2>2. ASSUME NEW n \in Read, Cleanup(n) PROVE StoreInv' /\ Kept
    BY <1>2, <2>2, KeptPart, CleanupStep DEF Cleanup, CleanCodes
  <2> QED
    BY <1>3, <2>1, <2>2
<1> QED
  BY <1>1, <1>4, IdleStep DEF StoreInv

\* The second section of the page.
LEMMA IssueCodeStep ==
  ASSUME StoreInv, Clients, NEW g \in pages, NEW c \in Codes, IssueCode(g, c)
  PROVE  StoreInv' /\ Clients'
<1>1. g.callback \subseteq Cli
  BY DEF Clients, ClientType
<1>2. {[to |-> p, code |-> c] : p \in g.callback} \subseteq [to: Cli, code: Codes]
  BY <1>1
<1>3. ClientType' /\ UNCHANGED <<login, saved>>
  BY <1>2 DEF IssueCode, Browsing, Clients, ClientType
<1> QED
  BY <1>3, IssueStep, IdleStep DEF StoreInv

\* An exchange that no CLI waits for.
LEMMA UnattendedStep ==
  ASSUME StoreInv, Clients, NEW c \in Codes, ExchangeUnattended(c)
  PROVE  StoreInv' /\ Clients'
<1>1. ClientType' /\ UNCHANGED <<login, saved, now>>
  BY DEF ExchangeUnattended, Local, Clients, ClientType
<1>2. PICK s : s = issued[c]
  OBVIOUS
<1>3. StoreInv' /\ Kept
  BY <1>1, <1>2, GrantStep, RefuseStep DEF ExchangeUnattended
<1> QED
  BY <1>1, <1>3, IdleStep DEF StoreInv

\* Time passes: a deadline may be reached, no entry changes.
LEMMA TickStep ==
  ASSUME StoreInv, Clients, Tick
  PROVE  StoreInv' /\ Clients'
<1>1. now' \in Time /\ now <= now'
  BY LoginAssumption DEF Tick, StoreInv, StoreType, Time
<1>2. ClientType' /\ UNCHANGED <<login, saved>>
  BY DEF Tick, Clients, ClientType
<1> QED
  BY <1>1, <1>2, QuietStep, IdleStep DEF Tick, StoreInv

\* Faults are counted up to their bound.
LEMMA FaultType ==
  ASSUME Clients, Fault
  PROVE  faults' \in 0..MaxFaults
BY LoginAssumption DEF Fault, Clients, ClientType

\* A CLI gives up.
LEMMA AbortStep ==
  ASSUME StoreInv, Clients, NEW p \in Cli, Abort(p)
  PROVE  StoreInv' /\ Clients'
<1>1. StoreInv' /\ Kept
  BY SameTime, QuietStep DEF Abort
<1>2. Idle \in Job /\ JobOK(p, Idle)'
  BY DEF Job, Idle, JobOK
<1> QED
  BY <1>1, <1>2, GotoStep, FaultType DEF Abort, StoreInv

\* A token that is dropped with the store is forgotten.
LEMMA RestartStep ==
  ASSUME StoreInv, Clients, Restart
  PROVE  StoreInv' /\ Clients'
<1>1. DOMAIN pending' = {} /\ DOMAIN codes' = {} /\ DOMAIN access' = {}
  BY DEF Restart, None
<1>2. UNCHANGED <<now, started, issued, granted>> /\ forgotten' = forgotten \cup DOMAIN access
  BY DEF Restart
<1>3. StoreType'
  BY <1>2 DEF Restart, None, StoreInv, StoreType, Partial
<1>4. StoreOK' /\ CodeRedeemedOnce' /\ LoginWindow'
  BY <1>1, <1>2 DEF StoreInv, StoreOK, CodeRedeemedOnce, LoginWindow
<1>5. Kept
  BY <1>2, HistorySelf DEF Kept, Honoured, StoreInv
<1>6. ClientType' /\ UNCHANGED <<login, saved>>
  BY FaultType DEF Restart, Clients, ClientType
<1> QED
  BY <1>3, <1>4, <1>5, <1>6, IdleStep DEF StoreInv

\* Every step keeps both parts.
LEMMA NextStep ==
  ASSUME StoreInv, Clients, [Next]_vars
  PROVE  StoreInv' /\ Clients'
<1>1. ASSUME NEW p \in Cli, CliStep(p)
      PROVE  StoreInv' /\ Clients'
  BY <1>1, LocalStep, ExchangeStep, SaveStep DEF CliStep
<1>2. CASE UNCHANGED vars
  <2>1. StoreInv' /\ Kept
    BY <1>2, SameTime, QuietStep DEF vars
  <2> QED
    BY <1>2, <2>1, IdleStep DEF vars, StoreInv, Clients, ClientType
<1> QED
  BY <1>1, <1>2, StartLoginStep, DeliverStep, BrowserStep, IssueCodeStep, UnattendedStep,
     TickStep, AbortStep, RestartStep DEF Next

\* Nothing has been stored at the start.
LEMMA InitInv == Init => StoreInv /\ Clients
<1> SUFFICES ASSUME Init PROVE StoreInv /\ Clients
  OBVIOUS
<1>1. StoreType
  BY LoginAssumption DEF Init, StoreType, Partial, None, Time
<1>2. ClientType
  BY LoginAssumption DEF Init, ClientType, Partial, None, Job
<1>3. StoreOK /\ CodeRedeemedOnce /\ LoginWindow
  BY DEF Init, StoreOK, CodeRedeemedOnce, LoginWindow, None
<1>4. ClientOK
  BY DEF Init, ClientOK, JobOK, Idle, None
<1> QED
  BY <1>1, <1>2, <1>3, <1>4 DEF StoreInv, Clients

\* The store and the clients keep their invariant, whatever is sent to the
\* server, in whatever order, and whenever it restarts.
THEOREM LoginInvariance == Spec => []LInv
<1>1. StoreInv /\ Clients /\ [Next]_vars => StoreInv' /\ Clients'
  BY NextStep
<1> QED
  BY <1>1, InitInv, Parts, PTL DEF Spec

\* The store's maps, the handlers and every CLI are well typed.
THEOREM LoginTypeCorrect == Spec => []TypeOK
<1>1. LInv => TypeOK
  BY DEF LInv
<1> QED
  BY <1>1, LoginInvariance, PTL

\* ExchangeCode marks a code used in the section that checks it, so two
\* exchanges of one code never both succeed.
THEOREM CodeBuysOneToken == Spec => []CodeRedeemedOnce
<1>1. LInv => CodeRedeemedOnce
  BY DEF LInv
<1> QED
  BY <1>1, LoginInvariance, PTL

\* A login is exchanged within two lifetimes of a code, although the cleanup
\* keeps codes longer.
THEOREM ExchangeInTime == Spec => []LoginWindow
<1>1. LInv => LoginWindow
  BY DEF LInv
<1> QED
  BY <1>1, LoginInvariance, PTL

\* The token runLogin saves was granted for a login of that machine.
THEOREM SavedTokenOwn == Spec => []OwnLogin
<1>1. LInv => OwnLogin
  BY DEF LInv, ClientOK, GrantedTo, Owns, OwnLogin
<1> QED
  BY <1>1, LoginInvariance, PTL

\* A saved token is known to the server (ValidateAccessToken) until it
\* expires or the server restarts.
THEOREM SavedTokenHonoured == Spec => []TokenHonoured
<1>1. ASSUME LInv, NEW p \in DOMAIN saved, now <= saved[p].expires,
             saved[p].token \notin forgotten
      PROVE  saved[p].token \in DOMAIN access /\ now <= access[saved[p].token].expires
  <2>1. /\ saved[p].token \in DOMAIN access
        /\ saved[p].expires <= access[saved[p].token].expires
    BY <1>1 DEF LInv, ClientOK, Honoured
  <2>2. /\ now \in Nat /\ saved[p].expires \in Nat
        /\ access[saved[p].token].expires \in Nat
    BY <1>1, <2>1, LoginAssumption
       DEF LInv, TypeOK, StoreType, ClientType, Partial, Time, Deadline
  <2> QED
    BY <1>1, <2>1, <2>2
<1>2. LInv => TokenHonoured
  BY <1>1 DEF TokenHonoured
<1> QED
  BY <1>2, LoginInvariance, PTL

\* IssueCodeForState looks the login up a second time: an exchanged login
\* gets no further code, although its page was opened before.
THEOREM ExchangedLoginClosed == Spec => NoCodeAfterExchange
<1> DEFINE Closed == \A c \in DOMAIN issued' \ DOMAIN issued, t \in DOMAIN granted :
                       issued[granted[t].code] # issued'[c]
<1>1. ASSUME LInv, Next PROVE Closed
  <2>1. ASSUME NEW g \in pages, NEW d \in Codes, IssueCode(g, d) PROVE Closed
    <3>1. g.state \in DOMAIN pending
      BY <2>1, UnexpiredDomain DEF IssueCode, StillPending
    <3>2. \A c \in DOMAIN issued' \ DOMAIN issued : issued'[c] = g.state
      BY <2>1 DEF IssueCode, Put
    <3> QED
      BY <1>1, <3>1, <3>2 DEF LInv, StoreOK
  <2>2. ASSUME UNCHANGED issued PROVE Closed
    BY <2>2
  <2>3. (\E g \in pages, d \in Codes : IssueCode(g, d)) \/ UNCHANGED issued
    BY <1>1 DEF Next, CliStep, TakeCallback, TimeOut, Prompt, Exchange, Save, WhoAmI, Abort,
       StartLogin, StartCLILogin, OpenPage, EndPage, Deliver, ExchangeUnattended, Tick,
       Restart, ExchangeGrants, ExchangeRefuses, history
  <2> QED
    BY <2>1, <2>2, <2>3
<1>2. LInv /\ [Next]_vars => [Closed]_vars
  BY <1>1
<1> QED
  BY <1>2, LoginInvariance, PTL DEF Spec, NoCodeAfterExchange

=============================================================================
