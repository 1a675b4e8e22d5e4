----------------------------- MODULE LoginChain -----------------------------
(***************************************************************************)
(* What a login promises: each token in an auth file is the end of a chain *)
(* - a machine starts a login, a page issues a code for it, the code buys  *)
(* a token, the machine that started the login keeps it - and no code is   *)
(* spent twice.  What is open, good or valid may lapse at any moment, and  *)
(* what has lapsed does not come back.  CLILogin implements it (see        *)
(* KeepsChain there) with its maps, deadlines and callbacks.               *)
(***************************************************************************)
CONSTANTS
  Cli,      \* machines
  States,   \* logins
  Codes,    \* codes
  Tokens    \* access tokens

VARIABLES
  owner,    \* owner[s]: the machine that has started login s, one or none
  boundTo,  \* boundTo[c]: the login that code c was issued for, one or none
  price,    \* price[t]: the code that token t was bought with, one or none
  kept,     \* kept[p]: the token in the auth file of machine p, one or none
  open,     \* logins for which a code may be issued
  good,     \* codes that may buy a token
  valid     \* tokens the server knows

links == <<owner, boundTo, price, kept>>
chain == <<links, open, good, valid>>

Init ==
  /\ owner = [s \in States |-> {}]
  /\ boundTo = [c \in Codes |-> {}]
  /\ price = [t \in Tokens |-> {}]
  /\ kept = [p \in Cli |-> {}]
  /\ open = {} /\ good = {} /\ valid = {}

\* At most these are left.
Left(o, g, v) == open' \subseteq o /\ good' \subseteq g /\ valid' \subseteq v

\* A login belongs to the machine that starts it.
Start(p, s) ==
  /\ owner[s] = {}
  /\ owner' = [owner EXCEPT ![s] = {p}]
  /\ Left(open \cup {s}, good, valid)
  /\ UNCHANGED <<boundTo, price, kept>>

\* A code is issued for a login that is open.
Issue(s, c) ==
  /\ s \in open
  /\ boundTo[c] = {}
  /\ boundTo' = [boundTo EXCEPT ![c] = {s}]
  /\ Left(open, good \cup {c}, valid)
  /\ UNCHANGED <<owner, price, kept>>

\* A code buys a token, and the login it is for is closed.
Buy(c, t) ==
  /\ c \in good
  /\ price[t] = {}
  /\ price' = [price EXCEPT ![t] = {c}]
  /\ Left(open \ boundTo[c], good \ {c}, valid \cup {t})
  /\ UNCHANGED <<owner, boundTo, kept>>

\* A machine keeps a token that was bought for a login of its own.
Keep(p, t) ==
  /\ \E c \in price[t] : \E s \in boundTo[c] : owner[s] = {p}
  /\ kept' = [kept EXCEPT ![p] = {t}]
  /\ UNCHANGED <<owner, boundTo, price, open, good, valid>>

\* Logins, codes and tokens expire or are lost.
Lapse == Left(open, good, valid) /\ UNCHANGED links

Next ==
  \/ \E p \in Cli, s \in States : Start(p, s)
  \/ \E s \in States, c \in Codes : Issue(s, c)
  \/ \E c \in Codes, t \in Tokens : Buy(c, t)
  \/ \E p \in Cli, t \in Tokens : Keep(p, t)
  \/ Lapse

Spec == Init /\ [][Next]_chain

=============================================================================
