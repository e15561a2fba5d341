----------------------- MODULE UpstreamClaims_proofs -----------------------
(***************************************************************************)
(* Theorems about UpstreamClaims: that subjects tell the users of an       *)
(* upstream apart and stay with them, and that claimed addresses are       *)
(* proven ones, for any upstreams, accounts, records and edits.            *)
(***************************************************************************)
EXTENDS UpstreamClaims, TLAPS, SequenceTheorems
LOCAL INSTANCE SequencesExt
LOCAL INSTANCE WellFoundedInduction

-----------------------------------------------------------------------------
(* Sequences                                                               *)

(* Two concatenations are equal only if one of the first parts continues   *)
(* the other, or if both parts are.                                        *)
LEMMA EqualConcat ==
  ASSUME NEW S, NEW p \in Seq(S), NEW q \in Seq(S), NEW s \in Seq(S), NEW t \in Seq(S),
         p \o s = q \o t
  PROVE  \/ p = q /\ s = t
         \/ IsStrictPrefix(p, q)
         \/ IsStrictPrefix(q, p)
<1>1. \A i \in 1 .. Len(p) : i <= Len(q) => p[i] = q[i]
  OBVIOUS
<1>2. CASE Len(p) = Len(q)
  <2>1. p = q
    BY <1>1, <1>2, SeqEqual
  <2>2. Len(s) = Len(t)
    BY <1>2, ConcatProperties
  <2>3. \A i \in 1 .. Len(s) : s[i] = (p \o s)[Len(p) + i] /\ t[i] = (q \o t)[Len(q) + i]
    BY <2>2, ConcatProperties
  <2>4. \A i \in 1 .. Len(s) : s[i] = t[i]
    BY <1>2, <2>3
  <2> QED
    BY <2>1, <2>2, <2>4, SeqEqual
<1>3. CASE Len(p) < Len(q)
  BY <1>1, <1>3 DEF IsStrictPrefix, IsPrefix
<1>4. CASE Len(q) < Len(p)
  BY <1>1, <1>4 DEF IsStrictPrefix, IsPrefix
<1> QED
  BY <1>2, <1>3, <1>4

(* SelectInSeq returns an index at which the test succeeds, or 0.          *)
LEMMA LeastIndex ==
  ASSUME NEW I \in SUBSET Nat, I # {}
  PROVE  Min(I) \in I
<1> DEFINE R == OpToRel(<, Nat)
<1>1. IsWellFoundedOn(R, Nat)
  BY NatLessThanWellFounded
<1>2. \A x, y \in Nat : x < y => <<x, y>> \in R
  BY DEF OpToRel
<1> HIDE DEF R
<1>3. PICK n \in I : \A m \in I : ~ (<<m, n>> \in R)
  BY <1>1, WFMin
<1>4. \A m \in I : ~ (m < n)
  BY <1>2, <1>3, Zenon
<1>5. \A m \in I : n <= m
  BY <1>4
<1> QED
  BY <1>5 DEF Min

-----------------------------------------------------------------------------
(* Fields and addresses                                                    *)

LEMMA OneString ==
  ASSUME NEW S, NEW x \in S
  PROVE  <<x>> \in Seq(S) /\ <<x>>[1] = x /\ <<x>> # <<>>
<1>1. <<x>> \in Seq(S)
  OBVIOUS
<1>2. Len(<<x>>) = 1 /\ Len(<<>>) = 0
  OBVIOUS
<1>3. <<x>>[1] = x
  OBVIOUS
<1> QED
  BY <1>1, <1>2, <1>3, Zenon

LEMMA TruthValues == \A s \in Truths \cup Falsehoods : s # <<>>
  BY OneString DEF Truths, Falsehoods

LEMMA Float64Range == \A n \in 0 .. 2 * Exact : Float64(n) \in 0 .. 2 * Exact
  BY NumberAssumption DEF Float64

LEMMA FieldTextType == \A v \in JSONValue : FieldText(v) \in Seq(STRING)
<1> SUFFICES ASSUME NEW v \in JSONValue PROVE FieldText(v) \in Seq(STRING)
  OBVIOUS
<1>1. v.number \in 0 .. 2 * Exact /\ v.text \in Seq(STRING)
  BY DEF JSONValue
<1>2. FormatInt[Float64(v.number)] \in STRING
  BY <1>1, Float64Range, NumberAssumption
<1> QED
  BY <1>1, <1>2, OneString, Zenon DEF FieldText

(* An upstream's ids of one kind that look the same are the same, as long  *)
(* as a float64 holds them.                                                *)
LEMMA FieldTextInjective ==
  ASSUME NEW v \in JSONValue, NEW w \in JSONValue, v.kind = w.kind,
         v.number <= Exact, w.number <= Exact, FieldText(v) = FieldText(w)
  PROVE  v = w
<1>1. v.number \in 0 .. 2 * Exact /\ w.number \in 0 .. 2 * Exact /\ Exact \in Nat
  BY NumberAssumption DEF JSONValue
<1>2. Float64(v.number) = v.number /\ Float64(w.number) = w.number
  BY <1>1 DEF Float64
<1>3. v.number = w.number
  BY <1>1, <1>2, NumberAssumption DEF FieldText, JSONValue
<1>4. v.text = w.text
  BY DEF FieldText, JSONValue
<1> QED
  BY <1>3, <1>4 DEF JSONValue

Holds(profile, path) == path # "" /\ path \in DOMAIN profile /\ profile[path].kind # "null"

LEMMA StringFieldIs ==
  ASSUME NEW profile, NEW path
  PROVE  stringField(profile, path) =
           IF Holds(profile, path) THEN FieldText(profile[path]) ELSE <<>>
<1>1. CASE Holds(profile, path)
  <2>1. lookupField(profile, path) = {profile[path]}
    BY <1>1 DEF Holds, lookupField
  <2> QED
    BY <1>1, <2>1 DEF stringField
<1>2. CASE ~Holds(profile, path)
  <2>1. lookupField(profile, path) = {}
    BY <1>2 DEF Holds, lookupField
  <2> QED
    BY <1>2, <2>1 DEF stringField
<1> QED
  BY <1>1, <1>2

(* fetchPrimaryEmail returns no address but a verified one.                *)
LEMMA VerifiedAddress ==
  ASSUME NEW list \in Seq(Address)
  PROVE  LET e == fetchPrimaryEmail(list)
         IN  e = <<>> \/ \E i \in DOMAIN list : list[i].verified /\ list[i].email = e
<1> DEFINE I == {i \in 1 .. Len(list) : list[i].primary /\ list[i].verified}
           J == {i \in 1 .. Len(list) : list[i].verified}
<1>1. I \in SUBSET Nat /\ J \in SUBSET Nat /\ 0 \notin I \cup J /\ DOMAIN list = 1 .. Len(list)
  OBVIOUS
<1>2. fetchPrimaryEmail(list) = IF I # {} THEN AddressAt(list, Min(I))
                                ELSE AddressAt(list, IF J # {} THEN Min(J) ELSE 0)
  <2>1. I # {} => Min(I) # 0
    BY <1>1, LeastIndex
  <2> QED
    BY <2>1 DEF fetchPrimaryEmail, SelectInSeq
<1>3. CASE I # {}
  BY <1>1, <1>2, <1>3, LeastIndex DEF AddressAt
<1>4. CASE I = {} /\ J # {}
  BY <1>1, <1>2, <1>4, LeastIndex DEF AddressAt
<1>5. CASE I = {} /\ J = {}
  BY <1>2, <1>5 DEF AddressAt
<1> QED
  BY <1>3, <1>4, <1>5

-----------------------------------------------------------------------------
(* The invariant                                                           *)

(* What is true of a claim: the subject is that of the account it was made *)
(* for, wherever the provider's record maps the upstream's own identifier, *)
(* and its address is proven, wherever the record maps the flag.           *)
Grounded(l) ==
  /\ l.idp \in ProviderID /\ l.account \in Account
  /\ l.cfg.subject = l.account.key => l.upstream = FieldText(l.account.id)

Proven(l, P) ==
  l.email # <<>> /\ l.cfg.emailVerified = l.account.flag /\ l.cfg.email \in {"", "email"} =>
    [account |-> l.account, email |-> l.email] \in P

(* A login in progress holds a profile that its account's upstream gave    *)
(* once, with the addresses proven then, and with a subject in it.         *)
InProgress(l, P) ==
  /\ l.idp \in ProviderID /\ l.account \in Account
  /\ \E r \in Answers[l.account] : l.profile = r.profile /\ ProvenBy(l.account, r) \subseteq P
  /\ stringField(l.profile, l.cfg.subject) # <<>>

(* What was proven once is remembered.                                     *)
Remembered == \A a \in Account : ProvenBy(a, answers[a]) \subseteq proven

IInv == /\ ClaimsTypeOK
        /\ answers = [a \in Account |-> answers[a]]
        /\ fetched = [b \in Browser |-> fetched[b]]
        /\ \A b \in Browser : fetched[b] # Nothing => InProgress(fetched[b], proven)
        /\ \A l \in claimed : Grounded(l) /\ Proven(l, proven)
        /\ Remembered

LEMMA Initially == ClaimsInit => IInv
<1> SUFFICES ASSUME ClaimsInit PROVE IInv
  OBVIOUS
<1>1. answers = [a \in Account |-> answers[a]] /\ \A a \in Account : answers[a] \in Answers[a]
  BY DEF ClaimsInit
<1>2. Remembered
  BY DEF ClaimsInit, Remembered
<1> QED
  BY <1>1, <1>2 DEF ClaimsInit, IInv, ClaimsTypeOK

(* A subject is the text of a field, and an address that ends a login well *)
(* is one its upstream once knew to be the user's.                         *)
LEMMA SubjectOfAccount ==
  ASSUME NEW l, NEW P, InProgress(l, P)
  PROVE  LET s == stringField(l.profile, l.cfg.subject)
         IN  /\ s \in Seq(STRING) \ {<<>>}
             /\ l.cfg.subject = l.account.key => s = FieldText(l.account.id)
<1>1. PICK r \in Answers[l.account] : l.profile = r.profile
  BY DEF InProgress
<1>2. Holds(l.profile, l.cfg.subject)
  BY StringFieldIs DEF InProgress
<1>3. l.profile[l.cfg.subject] \in JSONValue
  BY <1>1, <1>2, AnswerAssumption DEF InProgress, Holds
<1>4. l.cfg.subject = l.account.key => l.profile[l.cfg.subject] = l.account.id
  BY <1>1, <1>2, AccountAssumption DEF InProgress, Holds
<1> QED
  BY <1>2, <1>3, <1>4, StringFieldIs, FieldTextType DEF InProgress

LEMMA FieldOfProfile ==
  ASSUME NEW l, NEW P, InProgress(l, P), NEW path
  PROVE  stringField(l.profile, path) \in Seq(STRING)
<1>1. PICK r \in Answers[l.account] : l.profile = r.profile
  BY DEF InProgress
<1>2. Holds(l.profile, path) => l.profile[path] \in JSONValue
  BY <1>1, AnswerAssumption DEF InProgress, Holds
<1>3. <<>> \in Seq(STRING)
  OBVIOUS
<1> QED
  BY <1>2, <1>3, StringFieldIs, FieldTextType

LEMMA OwnAddress ==
  ASSUME NEW l, NEW P, InProgress(l, P),
         l.cfg.emailVerified = l.account.flag, l.cfg.email \in {"", "email"},
         FALSE \notin boolField(l.profile, l.cfg.emailVerified),
         stringField(l.profile, l.cfg.email) # <<>>
  PROVE  [account |-> l.account, email |-> stringField(l.profile, l.cfg.email)] \in P
<1> DEFINE p == l.profile
           v == p["email"]
<1>1. PICK r \in Answers[l.account] : p = r.profile /\ ProvenBy(l.account, r) \subseteq P
  BY DEF InProgress
<1>2. l.account \in Account
  BY DEF InProgress
<1>3. l.cfg.email = "email" /\ Holds(p, "email")
  BY StringFieldIs DEF Holds
<1>4. v \in JSONValue /\ v.kind = "string"
  BY <1>1, <1>2, <1>3, AnswerAssumption DEF Holds
<1>5. stringField(p, l.cfg.email) = v.text
  BY <1>3, <1>4, StringFieldIs DEF FieldText
<1>6. ~(l.account.flag \in DOMAIN p /\ p[l.account.flag].text \in Falsehoods)
  <2> SUFFICES ASSUME l.account.flag \in DOMAIN p, p[l.account.flag].text \in Falsehoods
               PROVE  FALSE
    OBVIOUS
  <2> DEFINE f == p[l.account.flag]
  <2>1. l.account.flag # "" /\ f \in JSONValue
    BY <1>1, <1>2, AnswerAssumption
  <2>2. f.text # <<>>
    BY TruthValues
  <2>3. f.kind # "null"
    BY <2>1, <2>2 DEF JSONValue
  <2>4. f \in lookupField(p, l.cfg.emailVerified)
    BY <2>1, <2>3 DEF lookupField
  <2> QED
    BY <2>4 DEF boolField
<1>7. v.text \in r.proven
  BY <1>1, <1>2, <1>3, <1>5, <1>6, AnswerAssumption DEF Holds
<1> QED
  BY <1>1, <1>5, <1>7 DEF ProvenBy

-----------------------------------------------------------------------------
(* Every step keeps the invariant.                                         *)

(* What was proven stays so, for claims and for logins in progress.        *)
LEMMA ProvenStays ==
  ASSUME NEW P, NEW Q, P \subseteq Q, NEW l
  PROVE  /\ Proven(l, P) => Proven(l, Q)
         /\ InProgress(l, P) => InProgress(l, Q)
  BY DEF Proven, InProgress

LEMMA FetchProfileKeeps ==
  ASSUME IInv, NEW b \in Browser, NEW p \in ProviderID, NEW a \in Account, FetchProfile(b, p, a)
  PROVE  IInv'
<1> DEFINE l == [idp |-> p, account |-> a, cfg |-> effectiveProvider(p, providers[p]),
                 profile |-> answers[a].profile]
<1>1. /\ fetched' = [fetched EXCEPT ![b] = l]
      /\ stringField(l.profile, l.cfg.subject) # <<>>
      /\ UNCHANGED <<providers, answers, proven, claimed, changes>>
  BY DEF FetchProfile, HasSubject
<1>2. InProgress(l, proven)
  BY <1>1 DEF InProgress, IInv, ClaimsTypeOK, Remembered
<1> HIDE DEF l
<1>3. \A c \in Browser : fetched'[c] = IF c = b THEN l ELSE fetched[c]
  BY <1>1 DEF IInv
<1>4. fetched' = [c \in Browser |-> fetched'[c]]
  BY <1>1 DEF IInv
<1>5. \A c \in Browser : fetched'[c] # Nothing => InProgress(fetched'[c], proven')
  BY <1>1, <1>2, <1>3, ProvenStays DEF IInv
<1>6. \A m \in claimed : Proven(m, proven')
  BY <1>1, ProvenStays DEF IInv
<1> QED
  BY <1>1, <1>4, <1>5, <1>6 DEF IInv, ClaimsTypeOK, Grounded, Remembered

(* The claims of a login: the list is read later than the profile.         *)
LEMMA FetchClaimsKeeps ==
  ASSUME IInv, NEW b \in Browser, FetchClaims(b)
  PROVE  IInv'
<1> DEFINE l == fetched[b]
           own == stringField(l.profile, l.cfg.email)
           subject == stringField(l.profile, l.cfg.subject)
           listed == fetchPrimaryEmail(answers[l.account].list)
           claim(e) == [idp |-> l.idp, upstream |-> subject, email |-> e,
                        subject |-> l.idp \o subject, account |-> l.account, cfg |-> l.cfg]
<1>1. /\ l # Nothing
      /\ fetched' = [fetched EXCEPT ![b] = Nothing]
      /\ UNCHANGED <<providers, answers, proven, changes>>
  BY DEF FetchClaims
<1>2. \/ UNCHANGED claimed
      \/ \E e : /\ e = own \/ (own = <<>> /\ e = listed)
                /\ e # <<>> => FALSE \notin boolField(l.profile, l.cfg.emailVerified)
                /\ claimed' = claimed \cup {claim(e)}
  BY DEF FetchClaims, NamespacedSubject
<1>3. InProgress(l, proven)
  BY <1>1 DEF IInv
<1>4. /\ fetched' = [c \in Browser |-> fetched'[c]]
      /\ \A c \in Browser : fetched'[c] # Nothing => InProgress(fetched'[c], proven')
  <2>1. \A c \in Browser : fetched'[c] = IF c = b THEN Nothing ELSE fetched[c]
    BY <1>1 DEF IInv
  <2>2. \A c \in Browser : fetched'[c] # Nothing => InProgress(fetched'[c], proven)
    BY <2>1 DEF IInv
  <2> QED
    BY <1>1, <2>2, ProvenStays DEF IInv
<1>5. \A m \in claimed : Grounded(m) /\ Proven(m, proven')
  BY <1>1, ProvenStays DEF IInv
<1>6. ASSUME NEW e, e = own \/ (own = <<>> /\ e = listed),
             e # <<>> => FALSE \notin boolField(l.profile, l.cfg.emailVerified)
      PROVE  /\ Grounded(claim(e)) /\ Proven(claim(e), proven')
             /\ subject \in Seq(STRING) \ {<<>>} /\ e \in Seq(STRING)
  <2> DEFINE r == answers[l.account]
  <2>1. l.account \in Account /\ l.idp \in ProviderID /\ r \in Answers[l.account]
    BY <1>3 DEF InProgress, IInv, ClaimsTypeOK
  <2>2. subject \in Seq(STRING) \ {<<>>} /\ Grounded(claim(e))
    BY <1>3, <2>1, SubjectOfAccount DEF Grounded
  <2>3. own \in Seq(STRING)
    BY <1>3, FieldOfProfile
  <2>4. \/ listed = <<>>
        \/ listed \in Seq(STRING) /\ [account |-> l.account, email |-> listed] \in proven
    <3>1. r.list \in Seq(Address)
      BY <2>1, AnswerAssumption
    <3>2. CASE listed # <<>>
      <4>1. PICK i \in DOMAIN r.list : r.list[i].verified /\ r.list[i].email = listed
        BY <3>1, <3>2, VerifiedAddress
      <4>2. listed \in r.proven
        BY <2>1, <4>1, AnswerAssumption
      <4>3. r.list[i] \in Address
        BY <3>1, <4>1, ElementOfSeq
      <4>4. listed \in Seq(STRING)
        BY <4>1, <4>3 DEF Address
      <4> QED
        BY <2>1, <4>2, <4>4 DEF IInv, Remembered, ProvenBy
    <3> QED
      BY <3>2
  <2>5. e \in Seq(STRING)
    BY <1>6, <2>3, <2>4
  <2>6. Proven(claim(e), proven)
    <3> SUFFICES ASSUME e # <<>>, l.cfg.emailVerified = l.account.flag,
                        l.cfg.email \in {"", "email"}
                 PROVE  [account |-> l.account, email |-> e] \in proven
      BY DEF Proven
    <3>1. CASE e = own
      BY <1>3, <1>6, <3>1, OwnAddress
    <3>2. CASE own = <<>> /\ e = listed
      BY <2>4, <3>2
    <3> QED
      BY <1>6, <3>1, <3>2
  <2> QED
    BY <1>1, <2>2, <2>5, <2>6, ProvenStays
<1>7. /\ \A m \in claimed' : Grounded(m) /\ Proven(m, proven')
      /\ \A m \in claimed' : /\ m.upstream \in Seq(STRING) \ {<<>>}
                             /\ m.subject = m.idp \o m.upstream
                             /\ m.email \in Seq(STRING)
  <2> DEFINE Sound(m) == /\ Grounded(m) /\ Proven(m, proven')
                         /\ m.upstream \in Seq(STRING) \ {<<>>}
                         /\ m.subject = m.idp \o m.upstream
                         /\ m.email \in Seq(STRING)
  <2>1. \A m \in claimed : Sound(m)
    BY <1>5 DEF IInv, ClaimsTypeOK
  <2>2. ASSUME NEW e, e = own \/ (own = <<>> /\ e = listed),
               e # <<>> => FALSE \notin boolField(l.profile, l.cfg.emailVerified)
        PROVE  Sound(claim(e))
    BY <1>6, <2>2
  <2> HIDE DEF Sound, claim, own, listed
  <2>3. \A m \in claimed' : Sound(m)
    <3>1. CASE UNCHANGED claimed
      BY <2>1, <3>1
    <3>2. CASE ~UNCHANGED claimed
      <4>1. PICK e : /\ e = own \/ (own = <<>> /\ e = listed)
                     /\ e # <<>> => FALSE \notin boolField(l.profile, l.cfg.emailVerified)
                     /\ claimed' = claimed \cup {claim(e)}
        BY <1>2, <3>2
      <4>2. Sound(claim(e))
        BY <2>2, <4>1
      <4> QED
        BY <2>1, <4>1, <4>2
    <3> QED
      BY <3>1, <3>2
  <2> QED
    BY <2>3 DEF Sound
<1> QED
  BY <1>1, <1>4, <1>7 DEF IInv, ClaimsTypeOK, Grounded, Remembered

LEMMA EditsKeep ==
  ASSUME IInv,
         \/ \E p \in ProviderID, r \in ProviderRecord : StoreProvider(p, r)
         \/ \E a \in Account : \E r \in Answers[a] : ChangeAccount(a, r)
  PROVE  IInv'
<1>1. UNCHANGED <<fetched, claimed>> /\ proven \subseteq proven'
  BY DEF StoreProvider, ChangeAccount
<1>2. /\ \A b \in Browser : fetched'[b] # Nothing => InProgress(fetched'[b], proven')
      /\ \A l \in claimed' : Grounded(l) /\ Proven(l, proven')
  BY <1>1, ProvenStays DEF IInv
<1>3. CASE \E p \in ProviderID, r \in ProviderRecord : StoreProvider(p, r)
  BY <1>1, <1>2, <1>3 DEF StoreProvider, IInv, ClaimsTypeOK, Grounded, Remembered
<1>4. ASSUME NEW a \in Account, NEW r \in Answers[a], ChangeAccount(a, r) PROVE IInv'
  <2>1. \A c \in Account : answers'[c] = IF c = a THEN r ELSE answers[c]
    BY <1>4 DEF ChangeAccount, IInv
  <2>2. answers' = [c \in Account |-> answers'[c]]
    BY <1>4 DEF ChangeAccount, IInv
  <2>3. Remembered'
    BY <1>4, <2>1 DEF ChangeAccount, IInv, Remembered
  <2> QED
    BY <1>1, <1>2, <1>4, <2>1, <2>2, <2>3 DEF ChangeAccount, IInv, ClaimsTypeOK, Grounded
<1> QED
  BY <1>3, <1>4

LEMMA Preserved == IInv /\ [ClaimsNext]_claimsVars => IInv'
<1> SUFFICES ASSUME IInv, [ClaimsNext]_claimsVars PROVE IInv'
  OBVIOUS
<1>1. CASE UNCHANGED claimsVars
  BY <1>1 DEF claimsVars, IInv, ClaimsTypeOK, Grounded, Remembered
<1> QED
  BY <1>1, FetchProfileKeeps, FetchClaimsKeeps, EditsKeep DEF ClaimsNext

-----------------------------------------------------------------------------
(* Theorems                                                                *)

(* fetchUpstreamClaims: the claims of a login carry a subject that is not  *)
(* empty, made of the provider's id and the upstream's own.                *)
THEOREM ClaimsTypeCorrect == ClaimsSpec => []ClaimsTypeOK
<1>1. IInv => ClaimsTypeOK
  BY DEF IInv
<1> QED
  BY Initially, Preserved, <1>1, PTL DEF ClaimsSpec

(* fetchUpstreamClaims: over any edits of records and accounts, a user has *)
(* one subject at a provider, which no other user of the upstream has.     *)
THEOREM OneSubjectPerUserTheorem == ClaimsSpec => []OneSubjectPerUser
<1>1. IInv => OneSubjectPerUser
  <2> SUFFICES ASSUME IInv, NEW l \in Identified, NEW m \in Identified
               PROVE  LET sameUser  == l.idp = m.idp /\ l.account = m.account
                          sameHost  == l.account.at = m.account.at /\ l.account.key = m.account.key
                          sameTuple == l.idp = m.idp /\ l.upstream = m.upstream
                      IN /\ sameUser => l.subject = m.subject
                         /\ sameHost /\ sameTuple => l.account = m.account
                         /\ l.subject = m.subject =>
                              \/ sameTuple
                              \/ IsStrictPrefix(l.idp, m.idp) \/ IsStrictPrefix(m.idp, l.idp)
    BY DEF OneSubjectPerUser
  <2>1. \A x \in Identified : /\ x.idp \in Seq(STRING) /\ x.upstream \in Seq(STRING)
                             /\ x.subject = x.idp \o x.upstream
                             /\ x.account \in Account /\ x.account.id \in JSONValue
                             /\ x.account.id.number <= Exact
                             /\ x.upstream = FieldText(x.account.id)
    BY ProviderAssumption, AccountAssumption DEF Identified, IInv, ClaimsTypeOK, Grounded
  <2>2. l.idp = m.idp /\ l.account = m.account => l.subject = m.subject
    BY <2>1
  <2>3. ASSUME l.account.at = m.account.at, l.account.key = m.account.key, l.upstream = m.upstream
        PROVE  l.account = m.account
    <3>1. l.account.id.kind = m.account.id.kind
      BY <2>1, <2>3, AccountAssumption
    <3>2. l.account.id = m.account.id
      BY <2>1, <2>3, <3>1, FieldTextInjective
    <3> QED
      BY <2>1, <2>3, <3>2, AccountAssumption
  <2>4. l.subject = m.subject =>
          \/ l.idp = m.idp /\ l.upstream = m.upstream
          \/ IsStrictPrefix(l.idp, m.idp) \/ IsStrictPrefix(m.idp, l.idp)
    BY <2>1, EqualConcat
  <2> QED
    BY <2>2, <2>3, <2>4
<1> QED
  BY Initially, Preserved, <1>1, PTL DEF ClaimsSpec

(* fetchUpstreamClaims, fetchPrimaryEmail: an address in the claims was    *)
(* proven by this user, from the profile or from the list read later.      *)
THEOREM ClaimedEmailsProvenTheorem == ClaimsSpec => []ClaimedEmailsProven
<1>1. IInv => ClaimedEmailsProven
  BY DEF IInv, Proven, ClaimedEmailsProven
<1> QED
  BY Initially, Preserved, <1>1, PTL DEF ClaimsSpec
=============================================================================
