------------------------- MODULE SigningKeys_proofs -------------------------
(***************************************************************************)
(* Theorems about SigningKeys: its types, that grants are signed with      *)
(* published keys only, that they are never signed from an entry without   *)
(* private halves, and that key set documents keep the keys in use, for    *)
(* any number of nodes, requests, keys, apps, faults and rotations.        *)
(***************************************************************************)
EXTENDS SigningKeys, TLAPS

(* A request that is running runs on a node for a scope; one that is to    *)
(* fill a cache entry or to sign has keys to do it with.                   *)
Placed(q) == q.pc # "idle" => q.at \in Node /\ q.scope \in Scope
Armed(q)  == q.pc \in {"fill", "sign", "svidFill", "svidSign", "verifyFill"}
               => q.keys # {}

(* A key in storage that serves an app, or one that this app was seeded    *)
(* with and that could not be stored.                                      *)
Known(k, a) == Serves(k, a) \/ (k \in unsaved /\ a = SeedApp)

(* One that is to sign for an app holds private halves, of keys known for  *)
(* the app.  A validator's holds none.                                     *)
Loaded(q) == /\ q.pc \in {"fill", "sign"}
                  => /\ q.priv
                     /\ q.scope \in App => \A k \in q.keys : Known(k, q.scope)
             /\ q.pc = "verifyFill" => ~q.priv
             /\ q.pc \in {"svidFill", "svidCreate"} => q.scope = OrgWide

Good(q) == Placed(q) /\ Armed(q) /\ Loaded(q)

RequestsOK == \A r \in Req : Good(req[r])

(* Keys in storage have been generated: a fresh one displaces none.        *)
BornOK == \A k \in Key : stored[k] # None => k \in born

(* What a grant may find in the cache is known for its app.                *)
CacheOK == \A n \in Node, a \in App :
             keyCache[n][a] # None /\ keyCache[n][a].priv
               => \A k \in keyCache[n][a].keys : Known(k, a)

(* Nodes start in the tenant that is seeded.                               *)
StartsOK == starting # {} => SeedApp \in App

IInv == TypeOK /\ RequestsOK /\ BornOK /\ StartsOK /\ CacheOK /\ GrantTokensPublished

(* Objects in storage stay as they are, and keys that were not stored are  *)
(* not forgotten.                                                          *)
Kept == /\ \A k \in Key : stored[k] # None => stored'[k] = stored[k]
        /\ unsaved \subseteq unsaved'

-----------------------------------------------------------------------------
(* What a step leaves alone stays right.                                   *)
LEMMA KeptKnown ==
  ASSUME Kept, NEW k \in Key, NEW s, Known(k, s) PROVE Known(k, s)'
  BY DEF Kept, Known, Serves

LEMMA CacheKept ==
  ASSUME IInv, Kept, UNCHANGED keyCache PROVE CacheOK'
<1> SUFFICES ASSUME NEW n \in Node, NEW a \in App,
                    keyCache[n][a] # None, keyCache[n][a].priv,
                    NEW k \in keyCache[n][a].keys
             PROVE  Known(k, a)'
  BY DEF CacheOK
<1>1. k \in Key
  BY DEF IInv, TypeOK, Entry, Scope
<1>2. Known(k, a)
  BY DEF IInv, CacheOK
<1> QED
  BY <1>1, <1>2, KeptKnown

LEMMA TokensKept ==
  ASSUME IInv, Kept, UNCHANGED tokens PROVE GrantTokensPublished'
<1> SUFFICES ASSUME NEW t \in tokens PROVE Known(t.key, t.app)'
  BY DEF GrantTokensPublished, Known
<1>1. t.key \in Key
  BY DEF IInv, TypeOK, Token
<1>2. Known(t.key, t.app)
  BY DEF IInv, GrantTokensPublished, Known
<1> QED
  BY <1>1, <1>2, KeptKnown

LEMMA GoodKept ==
  ASSUME Kept, NEW q \in Request, Good(q) PROVE Good(q)'
<1>1. \A k \in q.keys : k \in Key
  BY DEF Request
<1>2. \A k \in q.keys : Known(k, q.scope) => Known(k, q.scope)'
  BY <1>1, KeptKnown
<1> QED
  BY <1>2 DEF Good, Placed, Armed, Loaded

LEMMA IdleGood == IdleRequest \in Request /\ Good(IdleRequest)
  BY DEF IdleRequest, Request, PC, Good, Placed, Armed, Loaded

(* A step of one request.                                                  *)
LEMMA OneRequest ==
  ASSUME IInv, Kept, NEW r \in Req, NEW q \in Request, Good(q)',
         req' = [req EXCEPT ![r] = q]
  PROVE  req' \in [Req -> Request] /\ RequestsOK'
<1>1. req' \in [Req -> Request]
  BY DEF IInv, TypeOK
<1>2. ASSUME NEW x \in Req PROVE Good(req[x])'
  <2>1. CASE x = r
    <3>1. req'[x] = q
      BY <2>1 DEF IInv, TypeOK
    <3> QED
      BY <3>1 DEF Good, Placed, Armed, Loaded, Known, Serves
  <2>2. CASE x # r
    <3>1. req'[x] = req[x] /\ req[x] \in Request /\ Good(req[x])
      BY <2>2 DEF IInv, TypeOK, RequestsOK
    <3>2. ASSUME NEW p, p = req[x] PROVE Good(p)'
      BY <3>1, <3>2, GoodKept
    <3> QED
      BY <3>1, <3>2 DEF Good, Placed, Armed, Loaded, Known, Serves
  <2> QED
    BY <2>1, <2>2
<1> QED
  BY <1>1, <1>2 DEF RequestsOK

(* The request is answered.                                                *)
LEMMA ReplyGood ==
  ASSUME IInv, Kept, NEW r \in Req, Reply(r)
  PROVE  req' \in [Req -> Request] /\ RequestsOK'
<1>1. Good(IdleRequest)'
  BY DEF IdleRequest, Good, Placed, Armed, Loaded
<1> QED
  BY <1>1, IdleGood, OneRequest DEF Reply

(* It moves on with what it has.                                           *)
LEMMA GotoGood ==
  ASSUME IInv, Kept, NEW r \in Req, NEW p \in PC, Goto(r, p),
         \/ p = "reload" /\ req[r].pc = "create"
         \/ p = "sign" /\ req[r].pc = "fill"
         \/ p = "svidSign" /\ req[r].pc = "svidFill"
  PROVE  req' \in [Req -> Request] /\ RequestsOK'
<1> SUFFICES ASSUME NEW q, q = [req[r] EXCEPT !.pc = p]
             PROVE  req' \in [Req -> Request] /\ RequestsOK'
  OBVIOUS
<1>1. req[r] \in Request /\ Good(req[r])
  BY DEF IInv, TypeOK, RequestsOK
<1>2. q \in Request
  BY <1>1 DEF Request
<1>3. q.pc = p /\ q.at = req[r].at /\ q.scope = req[r].scope
      /\ q.keys = req[r].keys /\ q.priv = req[r].priv
  BY <1>1 DEF Request
<1>4. Good(q)
  BY <1>1, <1>3 DEF Good, Placed, Armed, Loaded
<1>5. Good(q)'
  BY <1>2, <1>4, GoodKept
<1>6. req' = [req EXCEPT ![r] = q]
  BY DEF Goto
<1> QED
  BY <1>2, <1>5, <1>6, OneRequest

(* It moves on with keys it has read or created.                           *)
LEMMA CarryGood ==
  ASSUME IInv, Kept, NEW r \in Req, NEW p \in PC, NEW K \in SUBSET Key,
         Carry(r, p, K), K # {}, req[r].pc # "idle",
         p = "fill" => \A s \in App : s = req[r].scope => \A k \in K : Known(k, s)',
         p = "svidFill" => req[r].scope = OrgWide,
         p \in {"fill", "svidFill", "jwksPublish"}
  PROVE  req' \in [Req -> Request] /\ RequestsOK'
<1> SUFFICES ASSUME NEW q, q = [req[r] EXCEPT !.pc = p, !.keys = K, !.priv = TRUE]
             PROVE  req' \in [Req -> Request] /\ RequestsOK'
  OBVIOUS
<1>1. req[r] \in Request /\ Good(req[r])
  BY DEF IInv, TypeOK, RequestsOK
<1>2. q \in Request
  BY <1>1 DEF Request
<1>3. q.pc = p /\ q.at = req[r].at /\ q.scope = req[r].scope
      /\ q.keys = K /\ q.priv
  BY <1>1 DEF Request
<1>4. Placed(q) /\ Armed(q)
  BY <1>1, <1>3 DEF Good, Placed, Armed
<1>5. p = "fill" /\ q.scope \in App => \A k \in q.keys : Known(k, q.scope)'
  BY <1>3
<1>6. Good(q)'
  BY <1>3, <1>4, <1>5 DEF Good, Placed, Armed, Loaded
<1>7. req' = [req EXCEPT ![r] = q]
  BY DEF Carry
<1> QED
  BY <1>2, <1>6, <1>7, OneRequest

(* It begins.                                                              *)
LEMMA BeginGood ==
  ASSUME IInv, Kept, NEW r \in Req, NEW p \in PC, NEW n \in Node, NEW s \in Scope,
         NEW K \in SUBSET Key, NEW b \in BOOLEAN, Begin(r, p, n, s, K, b),
         p \in {"fill", "sign", "svidFill", "svidSign", "verifyFill"} => K # {},
         p \in {"fill", "sign"} => b /\ (s \in App => \A k \in K : Known(k, s)),
         p = "verifyFill" => ~b,
         p \in {"svidFill", "svidCreate"} => s = OrgWide
  PROVE  req' \in [Req -> Request] /\ RequestsOK'
<1> SUFFICES ASSUME NEW q, q = [pc |-> p, at |-> n, scope |-> s, keys |-> K,
                                priv |-> b, owed |-> {}]
             PROVE  req' \in [Req -> Request] /\ RequestsOK'
  OBVIOUS
<1>1. q \in Request
  BY DEF Request
<1>2. Good(q)
  BY DEF Good, Placed, Armed, Loaded
<1>3. Good(q)'
  BY <1>1, <1>2, GoodKept
<1> QED
  BY <1>1, <1>3, OneRequest DEF Begin

(* A fresh key is stored, or is not.                                       *)
LEMMA PutKeeps ==
  ASSUME IInv, NEW k \in Key, NEW s \in Scope, GenerateRSAKeyPair(k),
         PutLands(k, s) \/ UNCHANGED stored, unsaved \subseteq unsaved'
  PROVE  /\ Kept /\ BornOK'
         /\ stored' \in [Key -> Scope \cup {None}] /\ born' \in SUBSET Key
         /\ PutLands(k, s) => Known(k, s)'
<1>1. stored[k] = None
  BY DEF IInv, BornOK, GenerateRSAKeyPair
<1>2. CASE PutLands(k, s)
  BY <1>1, <1>2, ScopeAssumption
     DEF IInv, TypeOK, BornOK, Kept, GenerateRSAKeyPair, PutLands, Known, Serves
<1>3. CASE UNCHANGED stored
  <2>1. ~PutLands(k, s)
    BY <1>1, <1>3, ScopeAssumption DEF IInv, TypeOK, PutLands
  <2> QED
    BY <1>3, <2>1 DEF IInv, TypeOK, BornOK, Kept, GenerateRSAKeyPair
<1> QED
  BY <1>2, <1>3

(* The newest of some keys is one of them.                                 *)
LEMMA ActiveIsOne ==
  ASSUME NEW K \in SUBSET Key, K # {} PROVE ActiveSigningKey(K) \in K
<1>1. \E k \in K : IsNewest(k, K)
  BY NewestAssumption
<1> QED
  BY <1>1 DEF ActiveSigningKey
-----------------------------------------------------------------------------
(* The parts of a step put together.                                       *)
LEMMA WholeStep ==
  ASSUME IInv, Kept, req' \in [Req -> Request], RequestsOK',
         stored' \in [Key -> Scope \cup {None}], born' \in SUBSET Key, BornOK',
         starting' \in SUBSET Node, unsaved' \in SUBSET Key, StartsOK',
         UNCHANGED keyCache \/ (keyCache' \in [Node -> [Scope -> Entry \cup {None}]] /\ CacheOK'),
         UNCHANGED tokens \/ (tokens' \in SUBSET Token /\ GrantTokensPublished'),
         UNCHANGED faults \/ Fault,
         UNCHANGED rotations \/ (rotations < MaxRotations /\ rotations' = rotations + 1)
  PROVE  IInv'
<1>1. faults' \in 0 .. MaxFaults /\ rotations' \in 0 .. MaxRotations
  BY BoundAssumption DEF IInv, TypeOK, Fault
<1>2. keyCache' \in [Node -> [Scope -> Entry \cup {None}]] /\ CacheOK'
  BY CacheKept DEF IInv, TypeOK
<1>3. tokens' \in SUBSET Token /\ GrantTokensPublished'
  BY TokensKept DEF IInv, TypeOK
<1> QED
  BY <1>1, <1>2, <1>3 DEF IInv, TypeOK

(* Most steps leave starting nodes alone.                                  *)
LEMMA Whole ==
  ASSUME IInv, UNCHANGED <<starting, unsaved>>,
         Kept, req' \in [Req -> Request], RequestsOK',
         stored' \in [Key -> Scope \cup {None}], born' \in SUBSET Key, BornOK',
         UNCHANGED keyCache \/ (keyCache' \in [Node -> [Scope -> Entry \cup {None}]] /\ CacheOK'),
         UNCHANGED tokens \/ (tokens' \in SUBSET Token /\ GrantTokensPublished'),
         UNCHANGED faults \/ Fault,
         UNCHANGED rotations \/ (rotations < MaxRotations /\ rotations' = rotations + 1)
  PROVE  IInv'
<1>1. starting' \in SUBSET Node /\ unsaved' \in SUBSET Key /\ StartsOK'
  BY DEF IInv, TypeOK, StartsOK
<1> QED
  BY <1>1, WholeStep

LEMMA StorageStays ==
  ASSUME IInv, UNCHANGED <<stored, born, unsaved>>
  PROVE  /\ Kept /\ BornOK'
         /\ stored' \in [Key -> Scope \cup {None}] /\ born' \in SUBSET Key
  BY DEF IInv, TypeOK, BornOK, Kept

(* Steps that change nothing but their own request.                        *)
LEMMA Local ==
  ASSUME IInv, UNCHANGED <<starting, unsaved>>, UNCHANGED <<stored, born, keyCache, tokens, rotations>>,
         UNCHANGED faults \/ Fault, req' \in [Req -> Request], RequestsOK'
  PROVE  IInv'
  BY StorageStays, Whole

LEMMA KeysForServe ==
  ASSUME NEW s, NEW K \in SUBSET KeysFor(s)
  PROVE  K \in SUBSET Key /\ \A k \in K : Known(k, s)
  BY DEF KeysFor, Known

(* A cached entry is keys, and for an app with private halves, its keys.   *)
LEMMA EntryServes ==
  ASSUME IInv, NEW n \in Node, NEW s \in Scope, keyCache[n][s] # None
  PROVE  /\ keyCache[n][s].keys \in SUBSET Key /\ keyCache[n][s].keys # {}
         /\ keyCache[n][s].priv \in BOOLEAN
         /\ s \in App /\ keyCache[n][s].priv => \A k \in keyCache[n][s].keys : Known(k, s)
<1>1. keyCache[n][s] \in Entry
  BY DEF IInv, TypeOK
<1> QED
  BY <1>1 DEF Entry, IInv, CacheOK

LEMMA ResolveStep ==
  ASSUME IInv, UNCHANGED <<starting, unsaved>>, NEW r \in Req, NEW n \in Node, NEW s \in Scope, Resolve(r, n, s)
  PROVE  IInv'
<1>0. Kept
  BY StorageStays DEF Resolve
<1>1. CASE /\ HoldsSigner(keyCache[n][s])
           /\ Begin(r, "sign", n, s, keyCache[n][s].keys, keyCache[n][s].priv)
           /\ UNCHANGED faults
  <2>1. ASSUME NEW K, K = keyCache[n][s].keys, NEW b, b = keyCache[n][s].priv
        PROVE  req' \in [Req -> Request] /\ RequestsOK'
    <3>1. K \in SUBSET Key /\ K # {} /\ b = TRUE /\ (s \in App => \A k \in K : Known(k, s))
      BY <1>1, <2>1, EntryServes DEF HoldsSigner
    <3>2. Begin(r, "sign", n, s, K, b)
      BY <1>1, <2>1
    <3>3. "sign" \in PC
      BY DEF PC
    <3> QED
      BY <1>0, <3>1, <3>2, <3>3, BeginGood
  <2> QED
    BY <1>1, <2>1, Local DEF Resolve
<1>2. ASSUME NEW K \in SUBSET KeysFor(s), K # {}, Begin(r, "fill", n, s, K, TRUE),
             UNCHANGED faults \/ Fault
      PROVE  IInv'
  <2>1. req' \in [Req -> Request] /\ RequestsOK'
    BY <1>0, <1>2, KeysForServe, BeginGood DEF PC
  <2> QED
    BY <1>2, <2>1, Local DEF Resolve
<1>3. CASE Begin(r, "create", n, s, {}, FALSE) /\ (UNCHANGED faults \/ Fault)
  <2>1. req' \in [Req -> Request] /\ RequestsOK'
    BY <1>0, <1>3, BeginGood DEF PC
  <2> QED
    BY <1>3, <2>1, Local DEF Resolve
<1> QED
  BY <1>1, <1>2, <1>3 DEF Resolve, Listed

LEMMA HandleSVIDStep ==
  ASSUME IInv, UNCHANGED <<starting, unsaved>>, NEW r \in Req, NEW n \in Node, HandleSVID(r, n) PROVE IInv'
<1>0. Kept /\ OrgWide \in Scope /\ OrgWide \notin App
  BY StorageStays, ScopeAssumption DEF HandleSVID, Scope
<1>1. CASE /\ keyCache[n][OrgWide] # None
           /\ Begin(r, "svidSign", n, OrgWide, keyCache[n][OrgWide].keys,
                    keyCache[n][OrgWide].priv)
           /\ UNCHANGED faults
  <2>1. ASSUME NEW K, K = keyCache[n][OrgWide].keys, NEW b, b = keyCache[n][OrgWide].priv
        PROVE  req' \in [Req -> Request] /\ RequestsOK'
    <3>1. K \in SUBSET Key /\ K # {} /\ b \in BOOLEAN
      BY <1>0, <1>1, <2>1, EntryServes
    <3>2. Begin(r, "svidSign", n, OrgWide, K, b)
      BY <1>1, <2>1
    <3> QED
      BY <1>0, <3>1, <3>2, BeginGood DEF PC
  <2> QED
    BY <1>1, <2>1, Local DEF HandleSVID
<1>2. ASSUME NEW K \in SUBSET KeysFor(OrgWide), K # {},
             Begin(r, "svidFill", n, OrgWide, K, TRUE), UNCHANGED faults \/ Fault
      PROVE  IInv'
  <2>1. req' \in [Req -> Request] /\ RequestsOK'
    BY <1>0, <1>2, KeysForServe, BeginGood DEF PC
  <2> QED
    BY <1>2, <2>1, Local DEF HandleSVID
<1>3. CASE Begin(r, "svidCreate", n, OrgWide, {}, FALSE) /\ (UNCHANGED faults \/ Fault)
  <2>1. req' \in [Req -> Request] /\ RequestsOK'
    BY <1>0, <1>3, BeginGood DEF PC
  <2> QED
    BY <1>3, <2>1, Local DEF HandleSVID
<1> QED
  BY <1>1, <1>2, <1>3 DEF HandleSVID, Listed

LEMMA HandleJWKSStep ==
  ASSUME IInv, UNCHANGED <<starting, unsaved>>, NEW r \in Req, NEW n \in Node, NEW s \in Scope, HandleJWKS(r, n, s)
  PROVE  IInv'
<1>0. Kept
  BY StorageStays DEF HandleJWKS
<1>1. PICK p \in {"jwksPublish", "jwksCreate"}, K \in SUBSET Key :
        /\ req[r].pc = "idle"
        /\ req' = [req EXCEPT ![r] = [IdleRequest EXCEPT !.pc = p, !.at = n, !.scope = s,
                                                         !.keys = K, !.owed = InUse(s)]]
        /\ UNCHANGED faults \/ Fault
  BY KeysForServe DEF HandleJWKS, Listed
<1>2. InUse(s) \in SUBSET Key
  BY DEF InUse, IInv, TypeOK, Token
<1>3. ASSUME NEW q, q = [IdleRequest EXCEPT !.pc = p, !.at = n, !.scope = s,
                                            !.keys = K, !.owed = InUse(s)]
      PROVE  req' \in [Req -> Request] /\ RequestsOK'
  <2>1. q = [pc |-> p, at |-> n, scope |-> s, keys |-> K, priv |-> FALSE, owed |-> InUse(s)]
    BY <1>3 DEF IdleRequest
  <2>2. q \in Request
    BY <1>2, <2>1 DEF Request, PC
  <2>3. Good(q)
    BY <2>1 DEF Good, Placed, Armed, Loaded
  <2>4. Good(q)'
    BY <1>0, <2>2, <2>3, GoodKept
  <2> QED
    BY <1>0, <1>1, <1>3, <2>2, <2>4, OneRequest
<1> QED
  BY <1>1, <1>3, Local DEF HandleJWKS

LEMMA KeysForValidatorStep ==
  ASSUME IInv, UNCHANGED <<starting, unsaved>>, NEW r \in Req, NEW n \in Node, NEW s \in Scope, KeysForValidator(r, n, s)
  PROVE  IInv'
<1>0. Kept
  BY StorageStays DEF KeysForValidator
<1>1. PICK K \in (SUBSET KeysFor(s)) \ {{}} :
        Listed(s, K) /\ Begin(r, "verifyFill", n, s, K, FALSE)
  BY DEF KeysForValidator
<1>2. req' \in [Req -> Request] /\ RequestsOK'
  BY <1>0, <1>1, KeysForServe, BeginGood DEF PC
<1> QED
  BY <1>1, <1>2, Local DEF KeysForValidator, Listed

LEMMA HandleKeysStep ==
  ASSUME IInv, UNCHANGED <<starting, unsaved>>, NEW r \in Req, NEW n \in Node, NEW s \in Scope, HandleKeys(r, n, s)
  PROVE  IInv'
<1>1. PICK k \in Key :
        /\ GenerateRSAKeyPair(k) /\ PutLands(k, s)
        /\ \/ Begin(r, "invalidate", n, s, {}, FALSE) /\ UNCHANGED faults
           \/ Fault /\ UNCHANGED req
  BY DEF HandleKeys
<1>2. /\ Kept /\ BornOK' /\ stored' \in [Key -> Scope \cup {None}] /\ born' \in SUBSET Key
  BY <1>1, PutKeeps
<1>3. req' \in [Req -> Request] /\ RequestsOK'
  <2>1. CASE Begin(r, "invalidate", n, s, {}, FALSE)
    BY <1>2, <2>1, BeginGood DEF PC
  <2>2. CASE UNCHANGED req
    <3>1. ASSUME NEW q, q = req[r] PROVE req' = [req EXCEPT ![r] = q]
      BY <2>2, <3>1 DEF IInv, TypeOK
    <3>2. ASSUME NEW q, q = req[r] PROVE q \in Request /\ Good(q)'
      BY <1>2, <3>2, GoodKept DEF IInv, TypeOK, RequestsOK
    <3> QED
      BY <1>2, <3>1, <3>2, OneRequest
  <2> QED
    BY <1>1, <2>1, <2>2
<1> QED
  BY <1>1, <1>2, <1>3, Whole DEF HandleKeys

LEMMA CreateKeyStep ==
  ASSUME IInv, UNCHANGED <<starting, unsaved>>, NEW r \in Req, CreateKey(r) PROVE IInv'
<1>0. req[r] \in Request /\ Good(req[r]) /\ req[r].pc = "create" /\ req[r].scope \in Scope
  BY DEF IInv, TypeOK, RequestsOK, Good, Placed, CreateKey
<1>1. ASSUME NEW k \in Key, NEW s \in Scope, s = req[r].scope, GenerateRSAKeyPair(k),
             PutLands(k, s), Carry(r, "fill", {k}), UNCHANGED faults
      PROVE  IInv'
  <2>1. /\ Kept /\ BornOK' /\ stored' \in [Key -> Scope \cup {None}] /\ born' \in SUBSET Key
        /\ Known(k, s)'
    BY <1>1, PutKeeps
  <2>2. req' \in [Req -> Request] /\ RequestsOK'
    <3>1. \A t \in App : t = req[r].scope => \A j \in {k} : Known(j, t)'
      BY <1>1, <2>1 DEF Known, Serves
    <3> QED
      BY <1>0, <1>1, <2>1, <3>1, CarryGood DEF PC
  <2> QED
    BY <1>1, <2>1, <2>2, Whole DEF CreateKey
<1>2. ASSUME NEW k \in Key, NEW s \in Scope, s = req[r].scope, GenerateRSAKeyPair(k),
             PutLands(k, s) \/ UNCHANGED stored, Goto(r, "reload"), Fault
      PROVE  IInv'
  <2>1. Kept /\ BornOK' /\ stored' \in [Key -> Scope \cup {None}] /\ born' \in SUBSET Key
    BY <1>2, PutKeeps
  <2>2. req' \in [Req -> Request] /\ RequestsOK'
    BY <1>0, <1>2, <2>1, GotoGood DEF PC
  <2> QED
    BY <1>2, <2>1, <2>2, Whole DEF CreateKey
<1>3. CASE Reply(r) /\ UNCHANGED <<stored, born, faults>>
  BY <1>3, StorageStays, ReplyGood, Local DEF CreateKey
<1> QED
  BY <1>0, <1>1, <1>2, <1>3 DEF CreateKey, PutRefused

LEMMA CreateUncheckedStep ==
  ASSUME IInv, UNCHANGED <<starting, unsaved>>, NEW r \in Req, NEW p \in {"svidFill", "jwksPublish"},
         CreateUnchecked(r, p), req[r].pc # "idle",
         p = "svidFill" => req[r].scope = OrgWide
  PROVE  IInv'
<1>0. req[r].scope \in Scope /\ p \in PC
  BY DEF IInv, TypeOK, RequestsOK, Good, Placed, PC
<1>1. ASSUME NEW k \in Key, NEW s \in Scope, s = req[r].scope, GenerateRSAKeyPair(k),
             PutLands(k, s) \/ UNCHANGED stored, UNCHANGED faults \/ Fault,
             Carry(r, p, {k})
      PROVE  IInv'
  <2>1. Kept /\ BornOK' /\ stored' \in [Key -> Scope \cup {None}] /\ born' \in SUBSET Key
    BY <1>1, PutKeeps
  <2>2. req' \in [Req -> Request] /\ RequestsOK'
    BY <1>0, <1>1, <2>1, CarryGood
  <2> QED
    BY <1>1, <2>1, <2>2, Whole DEF CreateUnchecked
<1>2. CASE Reply(r) /\ UNCHANGED <<stored, born, faults>>
  BY <1>2, StorageStays, ReplyGood, Local DEF CreateUnchecked
<1> QED
  BY <1>0, <1>1, <1>2 DEF CreateUnchecked

LEMMA ReloadKeysStep ==
  ASSUME IInv, UNCHANGED <<starting, unsaved>>, NEW r \in Req, ReloadKeys(r) PROVE IInv'
<1>0. Kept /\ req[r].pc = "reload" /\ req[r].scope \in Scope
  BY StorageStays DEF ReloadKeys, IInv, TypeOK, RequestsOK, Good, Placed
<1>1. ASSUME NEW K \in SUBSET KeysFor(req[r].scope), K # {}, Carry(r, "fill", K),
             UNCHANGED faults \/ Fault
      PROVE  IInv'
  <2>1. K \in SUBSET Key /\ \A k \in K : Known(k, req[r].scope)
    BY KeysForServe
  <2>2. \A t \in App : t = req[r].scope => \A k \in K : Known(k, t)'
    BY <1>0, <2>1, KeptKnown
  <2>3. req' \in [Req -> Request] /\ RequestsOK'
    BY <1>0, <1>1, <2>1, <2>2, CarryGood DEF PC
  <2> QED
    BY <1>1, <2>3, Local DEF ReloadKeys
<1>2. CASE Reply(r) /\ (UNCHANGED faults \/ Fault)
  BY <1>0, <1>2, ReplyGood, Local DEF ReloadKeys
<1> QED
  BY <1>1, <1>2 DEF ReloadKeys, Listed
(* A cache entry is set from what the request holds.                       *)
LEMMA EntrySet ==
  ASSUME IInv, UNCHANGED <<starting, unsaved>>, NEW r \in Req, SetSigningKeys(r),
         req[r].pc \in {"fill", "svidFill", "verifyFill"}
  PROVE  keyCache' \in [Node -> [Scope -> Entry \cup {None}]] /\ CacheOK'
<1> SUFFICES ASSUME NEW n, n = req[r].at, NEW s, s = req[r].scope,
                    NEW e, e = [keys |-> req[r].keys, priv |-> req[r].priv]
             PROVE  keyCache' \in [Node -> [Scope -> Entry \cup {None}]] /\ CacheOK'
  OBVIOUS
<1>1. req[r] \in Request /\ Good(req[r])
  BY DEF IInv, TypeOK, RequestsOK
<1>2. n \in Node /\ s \in Scope /\ e \in Entry
  BY <1>1 DEF Good, Placed, Armed, Request, Entry
<1>3. s \in App /\ e.priv => \A k \in e.keys : Known(k, s)
  BY <1>1, ScopeAssumption DEF Good, Loaded
<1>4. keyCache' = [keyCache EXCEPT ![n][s] = e]
  BY DEF SetSigningKeys
<1>5. keyCache' \in [Node -> [Scope -> Entry \cup {None}]]
  BY <1>2, <1>4 DEF IInv, TypeOK
<1>6. Kept
  BY StorageStays DEF SetSigningKeys
<1>7. ASSUME NEW m \in Node, NEW a \in App, keyCache'[m][a] # None, keyCache'[m][a].priv,
             NEW k \in keyCache'[m][a].keys
      PROVE  Known(k, a)'
  <2>0. a \in Scope
    BY DEF Scope
  <2>1. CASE m = n /\ a = s
    <3>1. keyCache'[m][a] = e
      BY <1>2, <1>4, <2>1 DEF IInv, TypeOK
    <3>2. k \in Key /\ Known(k, a)
      BY <1>2, <1>3, <1>7, <2>1, <3>1 DEF Entry
    <3> QED
      BY <1>6, <3>2, KeptKnown
  <2>2. CASE ~(m = n /\ a = s)
    <3>1. keyCache'[m][a] = keyCache[m][a]
      BY <1>2, <1>4, <2>0, <2>2 DEF IInv, TypeOK
    <3>2. k \in Key /\ Known(k, a)
      BY <1>7, <2>0, <3>1, EntryServes
    <3> QED
      BY <1>6, <3>2, KeptKnown
  <2> QED
    BY <2>1, <2>2
<1> QED
  BY <1>5, <1>7 DEF CacheOK

LEMMA FillStep ==
  ASSUME IInv, UNCHANGED <<starting, unsaved>>, NEW r \in Req,
         FillKeys(r) \/ SVIDFillKeys(r) \/ VerifyFillKeys(r)
  PROVE  IInv'
<1>1. SetSigningKeys(r) /\ req[r].pc \in {"fill", "svidFill", "verifyFill"}
  BY DEF FillKeys, SVIDFillKeys, VerifyFillKeys
<1>2. UNCHANGED <<stored, born, tokens, faults, rotations>>
  BY <1>1 DEF SetSigningKeys
<1>3. req' \in [Req -> Request] /\ RequestsOK'
  BY <1>2, StorageStays, GotoGood, ReplyGood DEF FillKeys, SVIDFillKeys, VerifyFillKeys, PC
<1> QED
  BY <1>1, <1>2, <1>3, EntrySet, StorageStays, Whole

(* A grant is signed.                                                      *)
LEMMA SignGrantStep ==
  ASSUME IInv, UNCHANGED <<starting, unsaved>>, NEW r \in Req, SignGrant(r) PROVE IInv'
<1> DEFINE t == [key |-> Signer(r), app |-> req[r].scope]
<1>1. req[r] \in Request /\ Good(req[r])
  BY DEF IInv, TypeOK, RequestsOK
<1>2. Signer(r) \in req[r].keys
  BY <1>1, ActiveIsOne DEF SignGrant, Signer, Good, Armed, Request
<1>3. t \in Token /\ Known(t.key, t.app)
  BY <1>1, <1>2 DEF SignGrant, Good, Placed, Loaded, Token, Request
<1>4. Kept
  BY StorageStays DEF SignGrant
<1>5. tokens' \in SUBSET Token
  BY <1>3 DEF SignGrant, IInv, TypeOK
<1>6. GrantTokensPublished'
  <2>1. \A u \in tokens' : u.key \in Key /\ Known(u.key, u.app)
    BY <1>3 DEF SignGrant, IInv, TypeOK, GrantTokensPublished, Token, Known
  <2>2. ASSUME NEW u \in tokens' PROVE Known(u.key, u.app)'
    BY <1>4, <2>1, KeptKnown
  <2> QED
    BY <2>2 DEF GrantTokensPublished, Known
<1>7. req' \in [Req -> Request] /\ RequestsOK'
  BY <1>4, ReplyGood DEF SignGrant
<1> QED
  BY <1>4, <1>5, <1>6, <1>7, StorageStays, Whole DEF SignGrant

(* Entries are dropped, one by one or with a node and its requests.        *)
LEMMA DropStep ==
  ASSUME IInv, NEW n \in Node, NEW s \in Scope, UNCHANGED <<stored, born, unsaved>>,
         keyCache' = [keyCache EXCEPT ![n][s] = None]
  PROVE  keyCache' \in [Node -> [Scope -> Entry \cup {None}]] /\ CacheOK'
<1>1. keyCache' \in [Node -> [Scope -> Entry \cup {None}]]
  BY DEF IInv, TypeOK
<1>2. ASSUME NEW m \in Node, NEW a \in App, keyCache'[m][a] # None
      PROVE  keyCache'[m][a] = keyCache[m][a]
  BY <1>2 DEF IInv, TypeOK, Scope
<1> QED
  BY <1>1, <1>2 DEF CacheOK, IInv, Known, Serves

LEMMA InvalidateAppStep ==
  ASSUME IInv, UNCHANGED <<starting, unsaved>>, NEW r \in Req, InvalidateApp(r) PROVE IInv'
<1>1. req[r].at \in Node /\ req[r].scope \in Scope
  BY DEF InvalidateApp, IInv, TypeOK, RequestsOK, Good, Placed
<1>2. req' \in [Req -> Request] /\ RequestsOK'
  BY StorageStays, ReplyGood DEF InvalidateApp
<1> QED
  BY <1>1, <1>2, DropStep, StorageStays, Whole DEF InvalidateApp

LEMMA KeyCacheExpireStep ==
  ASSUME IInv, NEW n \in Node, NEW s \in Scope, KeyCacheExpire(n, s) PROVE IInv'
<1>1. req' \in [Req -> Request] /\ RequestsOK'
  BY DEF KeyCacheExpire, IInv, TypeOK, RequestsOK, Good, Placed, Armed, Loaded, Known, Serves
<1> QED
  BY <1>1, DropStep, StorageStays, Whole DEF KeyCacheExpire

LEMMA CrashStep ==
  ASSUME IInv, NEW n \in Node, Crash(n) PROVE IInv'
<1>0. Kept
  BY StorageStays DEF Crash
<1>1. req' \in [Req -> Request]
  BY IdleGood DEF Crash, IInv, TypeOK
<1>2. ASSUME NEW x \in Req PROVE Good(req[x])'
  <2>1. req'[x] = IdleRequest \/ req'[x] = req[x]
    BY DEF Crash
  <2>2. Good(req[x])
    BY DEF IInv, RequestsOK
  <2> QED
    BY <2>1, <2>2, IdleGood
       DEF Crash, Good, Placed, Armed, Loaded, Known, Serves
<1>3. keyCache' \in [Node -> [Scope -> Entry \cup {None}]]
  BY DEF Crash, IInv, TypeOK
<1>4. ASSUME NEW m \in Node, NEW a \in App
      PROVE  keyCache'[m][a] \in {None, keyCache[m][a]}
  BY <1>4 DEF Crash, IInv, TypeOK, Scope
<1>5. CacheOK'
  BY <1>4 DEF CacheOK, IInv, Crash, Known, Serves
<1>6. starting' \in SUBSET Node /\ StartsOK' /\ unsaved' \in SUBSET Key
  BY SeedAssumption DEF Crash, IInv, TypeOK, StartsOK
<1> QED
  BY <1>0, <1>1, <1>2, <1>3, <1>5, <1>6, StorageStays, WholeStep DEF Crash, RequestsOK

(* A starting node makes a key and caches it, stored or not.               *)
LEMMA SeedKeyStep ==
  ASSUME IInv, NEW n \in Node, SeedKey(n) PROVE IInv'
<1>1. SeedApp \in App /\ SeedApp \in Scope
  BY DEF SeedKey, IInv, StartsOK, Scope
<1>2. starting' \in SUBSET Node /\ StartsOK' /\ UNCHANGED <<tokens, req, rotations>>
  BY <1>1 DEF SeedKey, IInv, TypeOK, StartsOK
<1>3. CASE UNCHANGED <<stored, born, unsaved, keyCache, faults>>
  <2>1. req' \in [Req -> Request] /\ RequestsOK' /\ unsaved' \in SUBSET Key
    BY <1>2, <1>3 DEF IInv, TypeOK, RequestsOK, Good, Placed, Armed, Loaded, Known, Serves
  <2> QED
    BY <1>2, <1>3, <2>1, StorageStays, WholeStep
<1>4. ASSUME NEW k \in Key, GenerateRSAKeyPair(k),
             \/ PutLands(k, SeedApp) /\ UNCHANGED <<unsaved, faults>>
             \/ Fault /\ unsaved' = unsaved \cup {k} /\ UNCHANGED stored,
             keyCache' = [keyCache EXCEPT ![n][SeedApp] = [keys |-> {k}, priv |-> TRUE]]
      PROVE  IInv'
  <2>1. /\ Kept /\ BornOK' /\ stored' \in [Key -> Scope \cup {None}] /\ born' \in SUBSET Key
        /\ Known(k, SeedApp)'
    BY <1>1, <1>4, PutKeeps DEF Known
  <2>2. unsaved' \in SUBSET Key
    BY <1>4 DEF IInv, TypeOK
  <2>3. req' \in [Req -> Request] /\ RequestsOK'
    <3>1. ASSUME NEW x \in Req PROVE Good(req[x])'
      <4>1. ASSUME NEW q, q = req[x] PROVE Good(q)'
        BY <2>1, <4>1, GoodKept DEF IInv, TypeOK, RequestsOK
      <4> QED
        BY <1>2, <4>1 DEF Good, Placed, Armed, Loaded, Known, Serves
    <3> QED
      BY <1>2, <3>1 DEF IInv, TypeOK, RequestsOK
  <2>4. keyCache' \in [Node -> [Scope -> Entry \cup {None}]]
    BY <1>1, <1>4 DEF IInv, TypeOK, Entry
  <2>5. ASSUME NEW m \in Node, NEW a \in App, keyCache'[m][a] # None, keyCache'[m][a].priv,
               NEW j \in keyCache'[m][a].keys
        PROVE  Known(j, a)'
    <3>0. a \in Scope
      BY DEF Scope
    <3>1. CASE m = n /\ a = SeedApp
      <4>1. j = k
        BY <1>1, <1>4, <2>5, <3>1 DEF IInv, TypeOK
      <4> QED
        BY <2>1, <3>1, <4>1
    <3>2. CASE ~(m = n /\ a = SeedApp)
      <4>1. keyCache'[m][a] = keyCache[m][a]
        BY <1>1, <1>4, <3>0, <3>2 DEF IInv, TypeOK
      <4>2. j \in Key /\ Known(j, a)
        BY <2>5, <3>0, <4>1, EntryServes
      <4> QED
        BY <2>1, <4>2, KeptKnown
    <3> QED
      BY <3>1, <3>2
  <2>6. CacheOK'
    BY <2>5 DEF CacheOK
  <2> QED
    BY <1>2, <1>4, <2>1, <2>2, <2>3, <2>4, <2>6, WholeStep
<1> QED
  BY <1>3, <1>4 DEF SeedKey

LEMMA ReplyStep ==
  ASSUME IInv, UNCHANGED <<starting, unsaved>>, NEW r \in Req, SignOther(r) \/ JWKSPublish(r) PROVE IInv'
<1>1. Reply(r) /\ UNCHANGED <<stored, born, keyCache, tokens, faults, rotations>>
  BY DEF SignOther, JWKSPublish
<1> QED
  BY <1>1, StorageStays, ReplyGood, Local

-----------------------------------------------------------------------------
LEMMA Initially == Init => IInv
<1> SUFFICES ASSUME Init PROVE IInv
  OBVIOUS
<1>1. TypeOK
  BY IdleGood, BoundAssumption DEF Init, TypeOK
<1> QED
  BY <1>1, IdleGood, SeedAssumption
     DEF Init, IInv, RequestsOK, BornOK, StartsOK, CacheOK, GrantTokensPublished, Scope

LEMMA Preserved == IInv /\ [Next]_vars => IInv'
<1> SUFFICES ASSUME IInv, [Next]_vars PROVE IInv'
  OBVIOUS
<1>1. ASSUME NEW r \in Req, Arrive(r) PROVE IInv'
  BY <1>1, ResolveStep, HandleSVIDStep, HandleJWKSStep, HandleKeysStep,
     KeysForValidatorStep DEF Arrive
<1>2. ASSUME NEW r \in Req, Serve(r) PROVE IInv'
  <2>0. UNCHANGED <<starting, unsaved>>
    BY <1>2 DEF Serve
  <2>1. CASE SVIDCreateKey(r)
    <3>1. req[r].scope = OrgWide
      BY <2>1 DEF SVIDCreateKey, IInv, RequestsOK, Good, Loaded
    <3> QED
      BY <2>0, <2>1, <3>1, CreateUncheckedStep DEF SVIDCreateKey
  <2>2. CASE JWKSCreateKey(r)
    BY <2>0, <2>2, CreateUncheckedStep DEF JWKSCreateKey
  <2> QED
    BY <1>2, <2>0, <2>1, <2>2, CreateKeyStep, ReloadKeysStep, FillStep, SignGrantStep,
       InvalidateAppStep, ReplyStep DEF Serve
<1>3. CASE UNCHANGED vars
  BY <1>3 DEF vars, IInv, TypeOK, RequestsOK, BornOK, StartsOK, CacheOK, GrantTokensPublished,
              Good, Placed, Armed, Loaded, Known, Serves
<1> QED
  BY <1>1, <1>2, <1>3, KeyCacheExpireStep, SeedKeyStep, CrashStep DEF Next

(* The state of SigningKeys stays well typed.                              *)
THEOREM KeysTypeCorrect == Spec => []TypeOK
<1>1. IInv => TypeOK
  BY DEF IInv
<1> QED
  BY Initially, Preserved, <1>1, PTL DEF Spec

(* Every granted token verifies against keys in storage that serve its     *)
(* app, whatever writes failed and whatever else filled the cache, but for *)
(* the demo app's after a start that could not store the key it seeded.    *)
THEOREM GrantTokensPublishedTheorem == Spec => []GrantTokensPublished
<1>1. IInv => GrantTokensPublished
  BY DEF IInv
<1> QED
  BY Initially, Preserved, <1>1, PTL DEF Spec

(* resolveSigningKey never settles for the public halves a validator left. *)
THEOREM GrantSignersTheorem == Spec => []GrantSignersHavePrivateKeys
<1>1. IInv => GrantSignersHavePrivateKeys
  BY DEF IInv, RequestsOK, Good, Loaded, GrantSignersHavePrivateKeys
<1> QED
  BY Initially, Preserved, <1>1, PTL DEF Spec

-----------------------------------------------------------------------------
(* While nothing has failed, a key set request that found no keys began    *)
(* when none was in use, and one that found some has all that were.        *)
Complete(q) == /\ q.pc = "jwksCreate" => q.owed = {}
               /\ q.pc = "jwksPublish" => q.owed \subseteq q.keys

KeySetsComplete == faults = 0 => \A r \in Req : Complete(req[r])

(* A seeded key is only lost by a storage error.                           *)
AllSaved == faults = 0 => unsaved = {}

LEMMA AllSavedNext == IInv /\ AllSaved /\ [Next]_vars => AllSaved'
<1> SUFFICES ASSUME IInv, AllSaved, [Next]_vars, faults' = 0 PROVE unsaved' = {}
  BY DEF AllSaved
<1>1. ~Fault /\ faults \in Nat
  BY BoundAssumption DEF Fault, IInv, TypeOK
<1>2. ASSUME NEW n \in Node, SeedKey(n) PROVE UNCHANGED <<unsaved, faults>>
  BY <1>1, <1>2 DEF SeedKey
<1>3. ASSUME NEW r \in Req, Arrive(r) \/ Serve(r) PROVE UNCHANGED <<unsaved, faults>>
  <2>1. UNCHANGED unsaved
    BY <1>3 DEF Arrive, Serve
  <2>2. CASE Arrive(r)
    BY <1>1, <2>2 DEF Arrive, Resolve, HandleSVID, HandleJWKS, HandleKeys, KeysForValidator,
                      Listed
  <2>3. CASE Serve(r)
    BY <1>1, <2>3 DEF Serve, CreateKey, ReloadKeys, Listed, SVIDCreateKey, JWKSCreateKey,
                      CreateUnchecked, FillKeys, SVIDFillKeys, VerifyFillKeys,
                      SetSigningKeys, SignGrant, SignOther, JWKSPublish, InvalidateApp
  <2> QED
    BY <1>3, <2>1, <2>2, <2>3
<1>4. UNCHANGED <<unsaved, faults>>
  BY <1>1, <1>2, <1>3 DEF Next, KeyCacheExpire, Crash, vars
<1> QED
  BY <1>4 DEF AllSaved

(* A key in use for a scope is in storage, in the scope's key set, when    *)
(* every key was stored.                                                   *)
LEMMA InUseServed == ASSUME IInv, unsaved = {}, NEW s \in Scope PROVE InUse(s) \subseteq KeysFor(s)
<1> SUFFICES ASSUME NEW t \in tokens, s \in {OrgWide, t.app} PROVE t.key \in KeysFor(s)
  BY DEF InUse
<1>1. t.key \in Key /\ t.app \in App /\ Serves(t.key, t.app)
  BY DEF IInv, TypeOK, Token, GrantTokensPublished
<1> QED
  BY <1>1, ScopeAssumption DEF KeysFor, Serves

LEMMA CompleteNext ==
  IInv /\ AllSaved /\ KeySetsComplete /\ [Next]_vars => KeySetsComplete'
<1> SUFFICES ASSUME IInv, AllSaved, KeySetsComplete, [Next]_vars, faults' = 0, NEW x \in Req
             PROVE  Complete(req[x])'
  BY DEF KeySetsComplete
<1> DEFINE Aside == req'[x] = req[x] \/ req'[x].pc \notin {"jwksCreate", "jwksPublish"}
<1>1. ~Fault /\ faults \in Nat
  BY BoundAssumption DEF Fault, IInv, TypeOK
<1>2. /\ req \in [Req -> Request]
      /\ faults = 0 => Complete(req[x])
  BY DEF IInv, TypeOK, KeySetsComplete
<1>3. UNCHANGED faults /\ Aside => Complete(req[x])'
  BY <1>2 DEF Complete
<1>4. ASSUME NEW r \in Req, NEW n \in Node, NEW s \in Scope, HandleJWKS(r, n, s)
      PROVE  Complete(req[x])'
  <2>1. PICK p \in {"jwksPublish", "jwksCreate"}, K \in {KeysFor(s), {}} :
          /\ req' = [req EXCEPT ![r] = [IdleRequest EXCEPT !.pc = p, !.at = n, !.scope = s,
                                                           !.keys = K, !.owed = InUse(s)]]
          /\ K = KeysFor(s)
          /\ p = "jwksCreate" => KeysFor(s) = {}
          /\ UNCHANGED faults
    BY <1>1, <1>4 DEF HandleJWKS, Listed
  <2>2. CASE x = r
    <3>1. req'[x].pc = p /\ req'[x].keys = KeysFor(s) /\ req'[x].owed = InUse(s)
      BY <1>2, <2>1, <2>2 DEF IdleRequest
    <3> QED
      BY <2>1, <3>1, InUseServed DEF Complete, AllSaved
  <2>3. CASE x # r
    BY <1>3, <2>1, <2>3
  <2> QED
    BY <2>2, <2>3
<1>5. ASSUME NEW r \in Req, JWKSCreateKey(r) PROVE Complete(req[x])'
  <2>1. UNCHANGED faults
    BY <1>1, <1>5 DEF JWKSCreateKey, CreateUnchecked
  <2>2. Reply(r) \/ \E k \in Key : Carry(r, "jwksPublish", {k})
    BY <1>5 DEF JWKSCreateKey, CreateUnchecked
  <2>3. CASE Reply(r)
    <3>1. Aside
      BY <1>2, <2>3 DEF Reply, IdleRequest
    <3> QED
      BY <1>3, <2>1, <3>1
  <2>4. ASSUME NEW k \in Key, Carry(r, "jwksPublish", {k}) PROVE Complete(req[x])'
    <3>1. CASE x = r
      <4>1. req[x].owed = {}
        BY <1>2, <1>5, <2>1, <3>1 DEF JWKSCreateKey, Complete
      <4>2. req'[x].owed = req[x].owed /\ req'[x].pc = "jwksPublish"
        BY <1>2, <2>4, <3>1 DEF Carry, Request
      <4> QED
        BY <4>1, <4>2 DEF Complete
    <3>2. CASE x # r
      <4>1. Aside
        BY <1>2, <2>4, <3>2 DEF Carry
      <4> QED
        BY <1>3, <2>1, <4>1
    <3> QED
      BY <3>1, <3>2
  <2> QED
    BY <2>2, <2>3, <2>4
<1>6. ASSUME NEW r \in Req, NEW n \in Node,
             \/ HandleSVID(r, n)
             \/ \E s \in Scope : \/ Resolve(r, n, s)
                                 \/ HandleKeys(r, n, s)
                                 \/ KeysForValidator(r, n, s)
      PROVE  Complete(req[x])'
  <2>1. UNCHANGED faults
    BY <1>1, <1>6 DEF HandleSVID, Resolve, HandleKeys, KeysForValidator, Listed
  <2>2. ASSUME NEW p \in PC \ {"jwksCreate", "jwksPublish"}, NEW s, NEW K, NEW b,
               Begin(r, p, n, s, K, b)
        PROVE  Aside
    BY <1>2, <2>2 DEF Begin
  <2>3. Aside
    BY <1>1, <1>6, <2>2 DEF HandleSVID, Resolve, HandleKeys, KeysForValidator, PC
  <2> QED
    BY <1>3, <2>1, <2>3
<1>7. ASSUME NEW r \in Req,
             \/ CreateKey(r) \/ ReloadKeys(r) \/ SVIDCreateKey(r)
             \/ FillKeys(r) \/ SVIDFillKeys(r) \/ VerifyFillKeys(r)
             \/ SignGrant(r) \/ SignOther(r) \/ JWKSPublish(r) \/ InvalidateApp(r)
      PROVE  Complete(req[x])'
  <2>1. UNCHANGED faults
    BY <1>1, <1>7 DEF CreateKey, ReloadKeys, Listed, SVIDCreateKey, CreateUnchecked, FillKeys,
                      SVIDFillKeys, VerifyFillKeys, SetSigningKeys, SignGrant, SignOther,
                      JWKSPublish, InvalidateApp
  <2>2. Reply(r) => Aside
    BY <1>2 DEF Reply, IdleRequest
  <2>3. \A p \in PC \ {"jwksCreate", "jwksPublish"} : Goto(r, p) => Aside
    BY <1>2 DEF Goto, Request
  <2>4. \A p \in PC \ {"jwksCreate", "jwksPublish"} : \A K : Carry(r, p, K) => Aside
    BY <1>2 DEF Carry, Request
  <2>5. Aside
    BY <1>1, <1>7, <2>2, <2>3, <2>4
       DEF CreateKey, PutRefused, ReloadKeys, SVIDCreateKey, CreateUnchecked, FillKeys,
           SVIDFillKeys, VerifyFillKeys, SignGrant, SignOther, JWKSPublish, InvalidateApp, PC
  <2> QED
    BY <1>3, <2>1, <2>5
<1>8. ASSUME NEW n \in Node, NEW s \in Scope, KeyCacheExpire(n, s) PROVE Complete(req[x])'
  BY <1>3, <1>8 DEF KeyCacheExpire
<1>9. ASSUME NEW n \in Node, SeedKey(n) PROVE Complete(req[x])'
  BY <1>1, <1>3, <1>9 DEF SeedKey
<1>10. CASE UNCHANGED vars
  BY <1>3, <1>10 DEF vars
<1> QED
  BY <1>1, <1>4, <1>5, <1>6, <1>7, <1>8, <1>9, <1>10 DEF Next, Arrive, Serve, Crash

(* HandleJWKS: a key set document built from storage lists all the keys in *)
(* use when its request began, as long as no storage call has failed.      *)
THEOREM JWKSKeepsOldKeysTheorem == Spec => []JWKSKeepsOldKeysUntilAFault
<1>1. Init => AllSaved /\ KeySetsComplete
  BY DEF Init, AllSaved, KeySetsComplete, Complete, IdleRequest
<1>2. KeySetsComplete => JWKSKeepsOldKeysUntilAFault
  BY DEF KeySetsComplete, Complete, JWKSKeepsOldKeysUntilAFault, JWKSKeepsOldKeys
<1> QED
  BY Initially, Preserved, <1>1, <1>2, AllSavedNext, CompleteNext, PTL DEF Spec
-----------------------------------------------------------------------------
(* As long as no validator reads the keys of the tenant as a whole, what   *)
(* is cached for the tenant, or about to be, comes with private halves.    *)
ValidatorReadsTenant == \E r \in Req, n \in Node : KeysForValidator(r, n, OrgWide)

WithPrivate(q) ==
  /\ q.pc \in {"svidFill", "svidSign"} => q.priv
  /\ q.pc = "verifyFill" => q.scope # OrgWide

TenantCached == \A n \in Node : keyCache[n][OrgWide] # None => keyCache[n][OrgWide].priv
TenantHeld   == \A r \in Req : WithPrivate(req[r])

(* The keys of a request that begins, and of one that moves on.            *)
LEMMA HeldByOne ==
  ASSUME IInv, TenantHeld, NEW r \in Req, NEW q, WithPrivate(q), req' = [req EXCEPT ![r] = q]
  PROVE  TenantHeld'
<1> SUFFICES ASSUME NEW x \in Req PROVE WithPrivate(req'[x])
  BY DEF TenantHeld, WithPrivate
<1>1. CASE x = r
  BY <1>1 DEF IInv, TypeOK
<1>2. CASE x # r
  BY <1>2 DEF IInv, TypeOK, TenantHeld
<1> QED
  BY <1>1, <1>2

LEMMA HeldAfterReply ==
  ASSUME IInv, TenantHeld, NEW r \in Req, Reply(r) PROVE TenantHeld'
<1>1. WithPrivate(IdleRequest)
  BY DEF WithPrivate, IdleRequest
<1> QED
  BY <1>1, HeldByOne DEF Reply

LEMMA HeldAfterCarry ==
  ASSUME IInv, TenantHeld, NEW r \in Req, NEW p \in {"fill", "svidFill", "jwksPublish"},
         NEW K, Carry(r, p, K)
  PROVE  TenantHeld'
<1>1. WithPrivate([req[r] EXCEPT !.pc = p, !.keys = K, !.priv = TRUE])
  BY DEF WithPrivate, IInv, TypeOK, Request
<1> QED
  BY <1>1, HeldByOne DEF Carry

LEMMA HeldAfterGoto ==
  ASSUME IInv, TenantHeld, NEW r \in Req, NEW p, Goto(r, p),
         \/ p \in {"reload", "sign"}
         \/ p = "svidSign" /\ req[r].pc = "svidFill"
  PROVE  TenantHeld'
<1>1. WithPrivate([req[r] EXCEPT !.pc = p])
  BY DEF WithPrivate, TenantHeld, IInv, TypeOK, Request
<1> QED
  BY <1>1, HeldByOne DEF Goto

LEMMA HeldAfterBegin ==
  ASSUME IInv, TenantHeld, NEW r \in Req, NEW p, NEW n, NEW s, NEW K, NEW b,
         Begin(r, p, n, s, K, b),
         p \in {"svidFill", "svidSign"} => b,
         p = "verifyFill" => s # OrgWide
  PROVE  TenantHeld'
<1>1. WithPrivate([pc |-> p, at |-> n, scope |-> s, keys |-> K, priv |-> b, owed |-> {}])
  BY DEF WithPrivate
<1> QED
  BY <1>1, HeldByOne DEF Begin

LEMMA TenantArrive ==
  ASSUME IInv, TenantCached, TenantHeld, NEW r \in Req, Arrive(r), ~ValidatorReadsTenant
  PROVE  TenantCached' /\ TenantHeld'
<1>1. PICK n \in Node : \/ HandleSVID(r, n)
                        \/ \E s \in Scope : \/ Resolve(r, n, s)
                                            \/ HandleJWKS(r, n, s)
                                            \/ HandleKeys(r, n, s)
                                            \/ KeysForValidator(r, n, s)
  BY DEF Arrive
<1>2. UNCHANGED keyCache
  BY <1>1 DEF HandleSVID, Resolve, HandleJWKS, HandleKeys, KeysForValidator
<1>3. TenantCached'
  BY <1>2 DEF TenantCached
<1>4. CASE HandleSVID(r, n)
  <2>1. ASSUME NEW K, NEW b, K = keyCache[n][OrgWide].keys, b = keyCache[n][OrgWide].priv,
               keyCache[n][OrgWide] # None, Begin(r, "svidSign", n, OrgWide, K, b)
        PROVE  TenantHeld'
    BY <2>1, HeldAfterBegin DEF TenantCached
  <2>2. TenantHeld'
    <3>1. \/ /\ keyCache[n][OrgWide] # None
             /\ Begin(r, "svidSign", n, OrgWide, keyCache[n][OrgWide].keys,
                      keyCache[n][OrgWide].priv)
          \/ \E K : Begin(r, "svidFill", n, OrgWide, K, TRUE)
          \/ Begin(r, "svidCreate", n, OrgWide, {}, FALSE)
      BY <1>4 DEF HandleSVID
    <3> QED
      BY <2>1, <3>1, HeldAfterBegin
  <2> QED
    BY <1>3, <2>2
<1>5. ASSUME NEW s \in Scope, Resolve(r, n, s) PROVE TenantHeld'
  <2>1. ASSUME NEW p \in {"sign", "fill", "create"}, NEW K, NEW b, Begin(r, p, n, s, K, b)
        PROVE  TenantHeld'
    BY <2>1, HeldAfterBegin
  <2> QED
    BY <1>5, <2>1 DEF Resolve
<1>6. ASSUME NEW s \in Scope, HandleJWKS(r, n, s) PROVE TenantHeld'
  <2>1. PICK p \in {"jwksPublish", "jwksCreate"}, K \in SUBSET Key :
          req' = [req EXCEPT ![r] = [IdleRequest EXCEPT !.pc = p, !.at = n, !.scope = s,
                                                        !.keys = K, !.owed = InUse(s)]]
    BY <1>6, KeysForServe DEF HandleJWKS
  <2>2. WithPrivate([IdleRequest EXCEPT !.pc = p, !.at = n, !.scope = s,
                                        !.keys = K, !.owed = InUse(s)])
    BY DEF WithPrivate, IdleRequest
  <2> QED
    BY <2>1, <2>2, HeldByOne
<1>7. ASSUME NEW s \in Scope, HandleKeys(r, n, s) PROVE TenantHeld'
  <2>1. CASE UNCHANGED req
    BY <2>1 DEF TenantHeld, WithPrivate
  <2> QED
    BY <1>7, <2>1, HeldAfterBegin DEF HandleKeys
<1>8. ASSUME NEW s \in Scope, KeysForValidator(r, n, s) PROVE TenantHeld'
  <2>1. s # OrgWide
    BY <1>8 DEF ValidatorReadsTenant
  <2> QED
    BY <1>8, <2>1, HeldAfterBegin DEF KeysForValidator
<1> QED
  BY <1>1, <1>3, <1>4, <1>5, <1>6, <1>7, <1>8

(* An entry for the tenant is set with private halves.                     *)
LEMMA TenantSet ==
  ASSUME IInv, TenantCached, TenantHeld, NEW r \in Req, SetSigningKeys(r),
         req[r].pc \in {"fill", "svidFill", "verifyFill"}
  PROVE  TenantCached'
<1> SUFFICES ASSUME NEW n \in Node, keyCache'[n][OrgWide] # None
             PROVE  keyCache'[n][OrgWide].priv
  BY DEF TenantCached
<1>1. OrgWide \in Scope
  BY DEF Scope
<1>2. Good(req[r]) /\ WithPrivate(req[r])
  BY DEF IInv, RequestsOK, TenantHeld
<1>3. CASE n = req[r].at /\ OrgWide = req[r].scope
  <2>1. req[r].priv
    BY <1>2, <1>3 DEF Good, Loaded, WithPrivate
  <2>2. keyCache'[n][OrgWide] = [keys |-> req[r].keys, priv |-> req[r].priv]
    BY <1>1, <1>3 DEF SetSigningKeys, IInv, TypeOK
  <2> QED
    BY <2>1, <2>2
<1>4. CASE ~(n = req[r].at /\ OrgWide = req[r].scope)
  <2>1. keyCache'[n][OrgWide] = keyCache[n][OrgWide]
    BY <1>1, <1>4 DEF SetSigningKeys, IInv, TypeOK
  <2> QED
    BY <2>1 DEF TenantCached
<1> QED
  BY <1>3, <1>4

LEMMA TenantServe ==
  ASSUME IInv, TenantCached, TenantHeld, NEW r \in Req, Serve(r)
  PROVE  TenantCached' /\ TenantHeld'
<1>1. CASE FillKeys(r) \/ SVIDFillKeys(r) \/ VerifyFillKeys(r)
  BY <1>1, TenantSet, HeldAfterGoto, HeldAfterReply
     DEF FillKeys, SVIDFillKeys, VerifyFillKeys
<1>2. CASE InvalidateApp(r)
  <2>1. TenantCached'
    BY <1>2 DEF InvalidateApp, TenantCached, IInv, TypeOK, Scope
  <2> QED
    BY <1>2, <2>1, HeldAfterReply DEF InvalidateApp
<1>3. CASE \/ CreateKey(r) \/ ReloadKeys(r) \/ SVIDCreateKey(r) \/ JWKSCreateKey(r)
           \/ SignGrant(r) \/ SignOther(r) \/ JWKSPublish(r)
  <2>1. UNCHANGED keyCache
    BY <1>3 DEF CreateKey, ReloadKeys, SVIDCreateKey, JWKSCreateKey, CreateUnchecked,
                SignGrant, SignOther, JWKSPublish
  <2>2. TenantCached'
    BY <2>1 DEF TenantCached
  <2>3. \/ Reply(r) \/ Goto(r, "reload")
        \/ \E p \in {"fill", "svidFill", "jwksPublish"}, K \in SUBSET Key : Carry(r, p, K)
    BY <1>3, KeysForServe DEF CreateKey, PutRefused, ReloadKeys, SVIDCreateKey, JWKSCreateKey,
                CreateUnchecked, SignGrant, SignOther, JWKSPublish
  <2> QED
    BY <2>2, <2>3, HeldAfterReply, HeldAfterGoto, HeldAfterCarry
<1> QED
  BY <1>1, <1>2, <1>3 DEF Serve

LEMMA TenantNext ==
  IInv /\ TenantCached /\ TenantHeld /\ [Next]_vars /\ [~ValidatorReadsTenant]_vars
    => TenantCached' /\ TenantHeld'
<1> SUFFICES ASSUME IInv, TenantCached, TenantHeld, [Next]_vars, [~ValidatorReadsTenant]_vars
             PROVE  TenantCached' /\ TenantHeld'
  OBVIOUS
<1>1. CASE UNCHANGED vars
  BY <1>1 DEF vars, TenantCached, TenantHeld, WithPrivate
<1>2. ASSUME NEW n \in Node, NEW s \in Scope, KeyCacheExpire(n, s)
      PROVE  TenantCached' /\ TenantHeld'
  BY <1>2 DEF KeyCacheExpire, TenantCached, TenantHeld, WithPrivate, IInv, TypeOK, Scope
<1>3. ASSUME NEW n \in Node, SeedKey(n) PROVE TenantCached' /\ TenantHeld'
  <2>1. SeedApp \in App /\ SeedApp # OrgWide
    BY <1>3, ScopeAssumption DEF SeedKey, IInv, StartsOK
  <2>2. ASSUME NEW m \in Node PROVE keyCache'[m][OrgWide] = keyCache[m][OrgWide]
    BY <1>3, <2>1 DEF SeedKey, IInv, TypeOK, Scope
  <2>3. UNCHANGED req
    BY <1>3 DEF SeedKey
  <2> QED
    BY <2>2, <2>3 DEF TenantCached, TenantHeld, WithPrivate
<1>4. ASSUME NEW n \in Node, Crash(n) PROVE TenantCached' /\ TenantHeld'
  <2>1. ASSUME NEW m \in Node PROVE keyCache'[m][OrgWide] \in {None, keyCache[m][OrgWide]}
    BY <1>4 DEF Crash, IInv, TypeOK, Scope
  <2>2. ASSUME NEW x \in Req PROVE req'[x] \in {IdleRequest, req[x]}
    BY <1>4 DEF Crash
  <2>3. TenantCached'
    BY <2>1 DEF TenantCached
  <2>4. WithPrivate(IdleRequest)
    BY DEF WithPrivate, IdleRequest
  <2> QED
    BY <2>2, <2>3, <2>4 DEF TenantHeld, WithPrivate
<1> QED
  BY <1>1, <1>2, <1>3, <1>4, TenantArrive, TenantServe DEF Next

(* IssueSVID: the one way in which the SVID handler comes to sign    *)
(* with a key that has no private half is that a TokenValidator cached the *)
(* public keys of the tenant as a whole.                                   *)
THEOREM SVIDSignersTheorem ==
  Spec /\ [][~ValidatorReadsTenant]_vars => []SVIDSignersHavePrivateKeys
<1>1. Init => TenantCached /\ TenantHeld
  BY DEF Init, TenantCached, TenantHeld, WithPrivate, IdleRequest, Scope
<1>2. TenantHeld => SVIDSignersHavePrivateKeys
  BY DEF TenantHeld, WithPrivate, SVIDSignersHavePrivateKeys
<1> QED
  BY Initially, Preserved, TenantNext, <1>1, <1>2, PTL DEF Spec
=============================================================================
