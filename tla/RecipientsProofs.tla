-------------------------- MODULE RecipientsProofs --------------------------
(***************************************************************************)
(* What the operations of feature/recipients/store.go preserve, for every  *)
(* recipients document.                                                    *)
(***************************************************************************)
EXTENDS Recipients, SequenceTheorems, TLAPS

\* A new entry is an entry.
LEMMA EntryType ==
  ASSUME NEW name \in Names, NEW key \in Keys, NEW via \in Origins
  PROVE  Entry(name, key, via) \in Recipient
BY DEF Entry, Recipient

\* Store.Add: the entries of s, in order, and then r.
LEMMA AddProperties ==
  ASSUME NEW s \in Store, NEW r \in Recipient
  PROVE  /\ Add(s, r) \in Store
         /\ Len(Add(s, r)) = Len(s) + 1
         /\ \A i \in DOMAIN s : Add(s, r)[i] = s[i]
         /\ Add(s, r)[Len(s) + 1] = r
         /\ DOMAIN Add(s, r) = DOMAIN s \cup {Len(s) + 1}
BY AppendProperties DEF Add, Store

\* Store.Revoke changes a status and nothing else.
LEMMA RevokeProperties ==
  ASSUME NEW s \in Store, NEW i \in DOMAIN s
  PROVE  /\ Revoke(s, i) \in Store
         /\ DOMAIN Revoke(s, i) = DOMAIN s
         /\ \A j \in DOMAIN s : /\ Revoke(s, i)[j].name = s[j].name
                                /\ Revoke(s, i)[j].key = s[j].key
                                /\ Revoke(s, i)[j].via = s[j].via
<1> DEFINE e == [s[i] EXCEPT !.status = "revoked"]
<1>1. i \in 1..Len(s) /\ s[i] \in Recipient /\ DOMAIN s = 1..Len(s)
  BY LenProperties, ElementOfSeq DEF Store
<1>2. e \in Recipient /\ e.name = s[i].name /\ e.key = s[i].key /\ e.via = s[i].via
  BY <1>1 DEF Recipient
<1>3. Revoke(s, i) = [s EXCEPT ![i] = e]
  BY DEF Revoke
<1>4. /\ [s EXCEPT ![i] = e] \in Seq(Recipient)
      /\ Len([s EXCEPT ![i] = e]) = Len(s)
      /\ \A j \in 1..Len(s) : [s EXCEPT ![i] = e][j] = IF j = i THEN e ELSE s[j]
  <2> HIDE DEF e
  <2> QED BY <1>1, <1>2, ExceptSeq DEF Store
<1> QED
  <2>1. DOMAIN [s EXCEPT ![i] = e] = DOMAIN s
    OBVIOUS
  <2> HIDE DEF e
  <2> QED BY <1>1, <1>2, <1>3, <1>4, <2>1 DEF Store

\* Store.Delete: the entries of s but the i-th, in order.
LEMMA DeleteProperties ==
  ASSUME NEW s \in Store, NEW i \in DOMAIN s
  PROVE  /\ Delete(s, i) \in Store
         /\ Len(Delete(s, i)) = Len(s) - 1
         /\ \A j \in 1..(Len(s) - 1) :
              Delete(s, i)[j] = IF j < i THEN s[j] ELSE s[j + 1]
<1> DEFINE a == SubSeq(s, 1, i - 1)
           b == SubSeq(s, i + 1, Len(s))
<1>1. Len(s) \in Nat /\ i \in 1..Len(s) /\ \A j \in 1..Len(s) : s[j] \in Recipient
  BY LenProperties, ElementOfSeq DEF Store
<1>2. /\ a \in Seq(Recipient)
      /\ Len(a) = i - 1
      /\ \A j \in 1..(i - 1) : a[j] = s[j]
  <2>1. 1 \in Int /\ i - 1 \in Int /\ \A j \in 1..(i - 1) : s[j] \in Recipient
    BY <1>1
  <2>2. /\ a \in Seq(Recipient)
        /\ Len(a) = IF 1 <= i - 1 THEN i - 1 - 1 + 1 ELSE 0
        /\ \A j \in 1..(i - 1 - 1 + 1) : a[j] = s[1 + j - 1]
    BY <2>1, SubSeqProperties
  <2> HIDE DEF a
  <2> QED BY <2>2, <1>1
<1>3. /\ b \in Seq(Recipient)
      /\ Len(b) = Len(s) - i
      /\ \A j \in 1..(Len(s) - i) : b[j] = s[i + j]
  <2>1. i + 1 \in Int /\ Len(s) \in Int /\ \A j \in (i + 1)..Len(s) : s[j] \in Recipient
    BY <1>1
  <2>2. /\ b \in Seq(Recipient)
        /\ Len(b) = IF i + 1 <= Len(s) THEN Len(s) - (i + 1) + 1 ELSE 0
        /\ \A j \in 1..(Len(s) - (i + 1) + 1) : b[j] = s[i + 1 + j - 1]
    BY <2>1, SubSeqProperties
  <2> HIDE DEF b
  <2> QED BY <2>2, <1>1
<1>4. Delete(s, i) = a \o b
  BY DEF Delete, RemoveAt
<1> HIDE DEF a, b
<1>5. /\ a \o b \in Seq(Recipient)
      /\ Len(a \o b) = Len(a) + Len(b)
      /\ \A j \in 1..(Len(a) + Len(b)) :
           (a \o b)[j] = IF j <= Len(a) THEN a[j] ELSE b[j - Len(a)]
  BY <1>2, <1>3, ConcatProperties
<1>6. Len(a) + Len(b) = Len(s) - 1 /\ Len(a) = i - 1
  BY <1>1, <1>2, <1>3
<1>7. ASSUME NEW j \in 1..(Len(s) - 1)
      PROVE  (a \o b)[j] = IF j < i THEN s[j] ELSE s[j + 1]
  <2>1. CASE j < i
    <3>1. (a \o b)[j] = a[j]
      BY <2>1, <1>1, <1>5, <1>6
    <3>2. a[j] = s[j]
      BY <2>1, <1>1, <1>2
    <3> QED BY <2>1, <3>1, <3>2
  <2>2. CASE ~(j < i)
    <3>1. (a \o b)[j] = b[j - (i - 1)]
      BY <2>2, <1>1, <1>5, <1>6
    <3>2. j - (i - 1) \in 1..(Len(s) - i)
      BY <2>2, <1>1
    <3>3. b[j - (i - 1)] = s[i + (j - (i - 1))]
      BY <3>2, <1>3
    <3>4. i + (j - (i - 1)) = j + 1
      BY <1>1
    <3> QED BY <2>2, <3>1, <3>3, <3>4
  <2> QED BY <2>1, <2>2
<1>8. Delete(s, i) \in Store /\ Len(Delete(s, i)) = Len(s) - 1
  BY <1>4, <1>5, <1>6 DEF Store
<1> QED
  BY <1>4, <1>7, <1>8

\* Adding an entry that clashes with none keeps the document free of clashes.
LEMMA AddKeepsNoDuplicates ==
  ASSUME NEW s \in Store, NEW r \in Recipient, NoDuplicates(s), ~Duplicate(s, r)
  PROVE  NoDuplicates(Add(s, r))
<1> SUFFICES ASSUME NEW i \in DOMAIN Add(s, r), NEW j \in DOMAIN Add(s, r), i # j
             PROVE  ~Clash(Add(s, r)[i], Add(s, r)[j])
  BY DEF NoDuplicates
<1> DEFINE t == Add(s, r)
           n == Len(s) + 1
<1>1. \A k \in DOMAIN s : ~Clash(s[k], r) /\ ~Clash(r, s[k])
  BY DEF Duplicate, Clash
<1>2. \A k \in DOMAIN s : t[k] = s[k]
  BY AddProperties
<1>3. t[n] = r /\ DOMAIN t = DOMAIN s \cup {n}
  BY AddProperties
<1>4. \A k, l \in DOMAIN s : k # l => ~Clash(s[k], s[l])
  BY DEF NoDuplicates
<1> HIDE DEF t, n
<1>5. i \in DOMAIN s \cup {n} /\ j \in DOMAIN s \cup {n}
  BY <1>3 DEF t
<1>6. ~Clash(t[i], t[j])
  BY <1>1, <1>2, <1>3, <1>4, <1>5
<1> QED BY <1>6 DEF t

\* Revoking an entry keeps it too: names, keys and fingerprints stay.
LEMMA RevokeKeepsNoDuplicates ==
  ASSUME NEW s \in Store, NEW i \in DOMAIN s, NoDuplicates(s)
  PROVE  NoDuplicates(Revoke(s, i))
<1> DEFINE t == Revoke(s, i)
<1>1. DOMAIN t = DOMAIN s
  BY RevokeProperties
<1>2. \A j \in DOMAIN s : t[j].name = s[j].name /\ t[j].key = s[j].key
  BY RevokeProperties
<1> HIDE DEF t
<1>3. \A j, k \in DOMAIN s : Clash(t[j], t[k]) <=> Clash(s[j], s[k])
  BY <1>2 DEF Clash
<1>4. NoDuplicates(t)
  BY <1>1, <1>3 DEF NoDuplicates
<1> QED BY <1>4 DEF t

\* Deleting an entry keeps it: the others move up but do not change.
LEMMA DeleteKeepsNoDuplicates ==
  ASSUME NEW s \in Store, NEW i \in DOMAIN s, NoDuplicates(s)
  PROVE  NoDuplicates(Delete(s, i))
<1> DEFINE t == Delete(s, i)
           from(j) == IF j < i THEN j ELSE j + 1
<1>1. Len(s) \in Nat /\ DOMAIN s = 1..Len(s) /\ i \in 1..Len(s)
  BY LenProperties DEF Store
<1>2. DOMAIN t = 1..(Len(s) - 1)
  BY DeleteProperties, LenProperties DEF Store
<1>3. \A j \in 1..(Len(s) - 1) : t[j] = IF j < i THEN s[j] ELSE s[j + 1]
  BY DeleteProperties
<1> HIDE DEF t
<1>4. \A j \in DOMAIN t : from(j) \in DOMAIN s /\ t[j] = s[from(j)]
  BY <1>1, <1>2, <1>3
<1>5. \A j, k \in DOMAIN t : j # k => from(j) # from(k)
  BY <1>1, <1>2
<1> HIDE DEF from
<1>6. NoDuplicates(t)
  BY <1>4, <1>5 DEF NoDuplicates
<1> QED BY <1>6 DEF t

-----------------------------------------------------------------------------
(***************************************************************************)
(* Revoked keys: the operations on the document leave them revoked.        *)
(***************************************************************************)

\* No key that s lists as revoked is active in t.
RevokedIn(s, t) ==
  \A i \in DOMAIN s : s[i].status = "revoked" => s[i].key \notin ActiveKeys(t)

\* A document without duplicates has no key both active and revoked.
LEMMA SelfRevoked ==
  ASSUME NEW s \in Store, NoDuplicates(s)
  PROVE  RevokedIn(s, s)
BY DEF RevokedIn, ActiveKeys, NoDuplicates, Clash

\* Store.Add takes no key the document has, active or revoked.
LEMMA AddRevoked ==
  ASSUME NEW s \in Store, NoDuplicates(s), NEW r \in Recipient, ~Duplicate(s, r)
  PROVE  RevokedIn(s, Add(s, r))
<1> DEFINE t == Add(s, r)
<1>1. /\ \A i \in DOMAIN s : t[i] = s[i]
      /\ t[Len(s) + 1] = r
      /\ DOMAIN t = DOMAIN s \cup {Len(s) + 1}
  BY AddProperties
<1> HIDE DEF t
<1>2. \A i \in DOMAIN s : s[i].key # r.key
  BY DEF Duplicate, Clash
<1>3. RevokedIn(s, t)
  BY <1>1, <1>2, SelfRevoked DEF RevokedIn, ActiveKeys
<1> QED
  BY <1>3 DEF t

\* Store.Revoke and Store.Delete make no key active.
LEMMA RemoveRevoked ==
  ASSUME NEW s \in Store, NoDuplicates(s), NEW i \in DOMAIN s
  PROVE  RevokedIn(s, Revoke(s, i)) /\ RevokedIn(s, Delete(s, i))
<1>1. ASSUME NEW t, \A j \in DOMAIN t : t[j].status = "active" =>
               \E k \in DOMAIN s : s[k].status = "active" /\ s[k].key = t[j].key
      PROVE  RevokedIn(s, t)
  BY <1>1, SelfRevoked DEF RevokedIn, ActiveKeys
<1>2. RevokedIn(s, Revoke(s, i))
  <2> DEFINE t == Revoke(s, i)
  <2>1. DOMAIN t = DOMAIN s /\ \A j \in DOMAIN s : t[j].key = s[j].key
    BY RevokeProperties
  <2>2. s[i] \in Recipient
    BY ElementOfSeq, LenProperties DEF Store
  <2>3. t[i].status = "revoked" /\ \A j \in DOMAIN s : j # i => t[j] = s[j]
    BY <2>2 DEF Revoke, Recipient
  <2> HIDE DEF t
  <2>4. RevokedIn(s, t)
    BY <1>1, <2>1, <2>3
  <2> QED
    BY <2>4 DEF t
<1>3. RevokedIn(s, Delete(s, i))
  <2> DEFINE t == Delete(s, i)
  <2>1. Len(s) \in Nat /\ DOMAIN s = 1..Len(s) /\ i \in 1..Len(s)
    BY LenProperties DEF Store
  <2>2. DOMAIN t = 1..(Len(s) - 1)
    BY DeleteProperties, LenProperties DEF Store
  <2>3. \A j \in 1..(Len(s) - 1) : t[j] = IF j < i THEN s[j] ELSE s[j + 1]
    BY DeleteProperties
  <2> HIDE DEF t
  <2>4. \A j \in DOMAIN t : \E k \in DOMAIN s : t[j] = s[k]
    BY <2>1, <2>2, <2>3
  <2>5. RevokedIn(s, t)
    BY <1>1, <2>4
  <2> QED
    BY <2>5 DEF t
<1> QED
  BY <1>2, <1>3

-----------------------------------------------------------------------------
\* findIndex: when two entries of a document answer to what the user typed,
\* the one has the fingerprint of the other for a name.  recipients remove
\* takes a wrong device in this case only.
THEOREM QueryPicksOne ==
  ASSUME \A f, g \in Fingerprints : Fold[f] = Fold[g] => f = g,
         NEW s \in Store, NoDuplicates(s), NEW q \in Queries,
         NEW i \in DOMAIN s, NEW j \in DOMAIN s, i # j,
         Matches(s[i], q), Matches(s[j], q)
  PROVE  \/ Fold[s[i].name] = Fold[Fingerprint[s[j].key]]
         \/ Fold[s[j].name] = Fold[Fingerprint[s[i].key]]
<1>1. s \in Seq(Recipient) /\ DOMAIN s = 1..Len(s)
  BY LenProperties DEF Store
<1>2. s[i] \in Recipient /\ s[j] \in Recipient
  BY <1>1, ElementOfSeq
<1>3. s[i].key \in Keys /\ s[j].key \in Keys
  BY <1>2 DEF Recipient
<1>4. Fingerprint[s[i].key] \in Fingerprints /\ Fingerprint[s[j].key] \in Fingerprints
  BY <1>3 DEF Fingerprints
<1>5. /\ Fold[s[i].name] # Fold[s[j].name]
      /\ Fingerprint[s[i].key] # Fingerprint[s[j].key]
  BY DEF NoDuplicates, Clash
<1> QED
  BY <1>4, <1>5 DEF Matches

=============================================================================
