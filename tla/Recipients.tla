----------------------------- MODULE Recipients -----------------------------
(***************************************************************************)
(* The recipients document of a project, recipients.json, and the pure     *)
(* operations of feature/recipients/store.go on a loaded copy of it.       *)
(*                                                                         *)
(* A document is the sequence of its entries, in file order.  An entry is  *)
(* [name, key, status, via]: the device name, its age public key, its      *)
(* status and where it came from (the Source and Note fields: "local-init",*)
(* "manual", or the id of the approved enrollment request).  Fingerprints  *)
(* are a function of the key.  Strings are taken after TrimSpace; Blank is *)
(* the empty string.  CreatedAt and the Version field are left out.        *)
(***************************************************************************)
EXTENDS Naturals, Sequences, SequencesExt

CONSTANTS
  Names,         \* device names, Blank among them or not
  Keys,          \* age X25519 public keys
  Fingerprint,   \* Fingerprint[k]: the short hash printed for key k
  Fold,          \* Fold[s]: the case-folded form strings.EqualFold compares
  RequestIds,    \* ids of enrollment requests
  Blank          \* the empty string

Fingerprints == {Fingerprint[k] : k \in Keys}

\* What the user may type to `recipients remove`: a name or a fingerprint.
Queries == Names \cup Fingerprints

Origins == RequestIds \cup {"local-init", "manual"}

Recipient == [name: Names, key: Keys, status: {"active", "revoked"}, via: Origins]

Store == Seq(Recipient)

ASSUME RecipientsAssumption ==
  /\ Fingerprint \in [Keys -> Fingerprints]
  /\ DOMAIN Fold = Queries
  /\ Blank \notin RequestIds
  /\ RequestIds \cap {"local-init", "manual"} = {}

Entry(name, key, via) ==
  [name |-> name, key |-> key, status |-> "active", via |-> via]

-----------------------------------------------------------------------------
(***************************************************************************)
(* Store.Add refuses an entry that has the name, the key or the            *)
(* fingerprint of one already listed, revoked entries included.            *)
(***************************************************************************)

Clash(e, r) ==
  \/ Fold[e.name] = Fold[r.name]
  \/ e.key = r.key
  \/ Fingerprint[e.key] = Fingerprint[r.key]

\* Mutant: revoked entries are passed over.
DuplicateActive(s, r) ==
  \E i \in DOMAIN s : s[i].status = "active" /\ Clash(s[i], r)

Duplicate(s, r) == \E i \in DOMAIN s : Clash(s[i], r)

Add(s, r) == Append(s, r)

\* findIndex: the query is the name or the fingerprint of entry e.
Matches(e, q) == Fold[q] \in {Fold[e.name], Fold[Fingerprint[e.key]]}

\* Entry i is the one findIndex returns for query q.
IsFirstMatch(s, q, i) ==
  /\ Matches(s[i], q)
  /\ \A j \in 1..(i - 1) : ~Matches(s[j], q)

Revoke(s, i) == [s EXCEPT ![i].status = "revoked"]

Delete(s, i) == RemoveAt(s, i)

\* The keys a future encryption would be made for.
ActiveKeys(s) == {s[i].key : i \in {j \in DOMAIN s : s[j].status = "active"}}

-----------------------------------------------------------------------------
\* No two entries share a name (ignoring case), a key or a fingerprint.
NoDuplicates(s) == \A i, j \in DOMAIN s : i # j => ~Clash(s[i], s[j])

=============================================================================
