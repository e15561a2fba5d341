---------------------------- MODULE SigningKeys ----------------------------
(***************************************************************************)
(* The signing keys of one tenant: how nodes sharing a bucket come by      *)
(* them, cache them, publish them and sign with them.                      *)
(*                                                                         *)
(* A key is created for one application or, under the empty application    *)
(* id, for the whole tenant.  No handler deletes or deactivates one.  A    *)
(* request runs on one node as steps that end at its storage calls; one    *)
(* that is refused or fails before it changed anything is not a step.      *)
(*                                                                         *)
(* A definition that nothing uses and that stands right before another of  *)
(* the same arity is a slip the code could have made there; the properties *)
(* are tested against it.                                                  *)
(***************************************************************************)
EXTENDS Naturals, FiniteSets

CONSTANTS
  Node,          \* server processes sharing the bucket
  Req,           \* requests that may be in flight at once
  Key,           \* key pairs, numbered in the order storage lists them
  CreatedAt,     \* key -> what the clock of its node said at its creation
  App,           \* application ids
  Entrance,      \* bound: what is called, of "grant", "svid", "jwks", "keys", "validate"
  OrgWide,       \* the empty application id
  SeedApp,       \* the app a first start makes a key for, None in other tenants
  MaxFaults,     \* bound: storage errors and crashes in a behaviour
  MaxRotations,  \* bound: keys created by operators in a behaviour
  None           \* the absent value

Scope == App \cup {OrgWide}

(* The newest by creation time, and among equals the first listed.  Every  *)
(* finite set of keys has one.                                             *)
IsNewest(k, K) == \A j \in K : \/ CreatedAt[j] < CreatedAt[k]
                               \/ CreatedAt[j] = CreatedAt[k] /\ k <= j

ASSUME NewestAssumption == \A K \in (SUBSET Key) \ {{}} : \E k \in K : IsNewest(k, K)
ASSUME KeyAssumption   == Key \subseteq Nat /\ CreatedAt \in [Key -> Nat]
ASSUME NodeAssumption  == None \notin Node
ASSUME ScopeAssumption == None \notin Scope /\ OrgWide \notin App
ASSUME SeedAssumption  == SeedApp \in App \cup {None}
ASSUME BoundAssumption == MaxFaults \in Nat /\ MaxRotations \in Nat

VARIABLES
  stored,     \* key -> the scope of its object in storage, or None
  born,       \* keys generated so far, stored or not
  starting,   \* nodes that found no default organization and are to seed
  unsaved,    \* history: keys a node seeded whose write failed
  keyCache,   \* node -> scope -> cached keys, or None
  tokens,     \* history: the grants that were signed, and with which key
  req,        \* request -> its program counter and locals
  faults,     \* storage errors and crashes so far
  rotations   \* keys created by operators so far

vars == <<stored, born, starting, unsaved, keyCache, tokens, req, faults, rotations>>

-----------------------------------------------------------------------------
(* Data                                                                    *)

(* A cached list is never empty, and holds the private halves of all of    *)
(* its keys or of none.                                                    *)
Entry == [keys : (SUBSET Key) \ {{}}, priv : BOOLEAN]

Token == [key : Key, app : App]

(* Program counters, by caller: resolveSigningKey and the signing after    *)
(* it, the SVID handler, the JWKS handler, key creation by an operator,    *)
(* the token validator.                                                    *)
PC == {"idle",
       "create", "reload", "fill", "sign",
       "svidCreate", "svidFill", "svidSign",
       "jwksCreate", "jwksPublish",
       "invalidate",
       "verifyFill"}

(* owed is history: the signing keys in use when a JWKS request began.     *)
Request == [pc : PC, at : Node \cup {None}, scope : Scope \cup {None},
            keys : SUBSET Key, priv : BOOLEAN, owed : SUBSET Key]

IdleRequest == [pc |-> "idle", at |-> None, scope |-> None, keys |-> {},
                priv |-> FALSE, owed |-> {}]

TypeOK == /\ stored \in [Key -> Scope \cup {None}]
          /\ born \in SUBSET Key
          /\ starting \in SUBSET Node
          /\ unsaved \in SUBSET Key
          /\ keyCache \in [Node -> [Scope -> Entry \cup {None}]]
          /\ tokens \in SUBSET Token
          /\ req \in [Req -> Request]
          /\ faults \in 0 .. MaxFaults
          /\ rotations \in 0 .. MaxRotations

Init == /\ stored = [k \in Key |-> None]
        /\ born = {}
        /\ starting \in IF SeedApp = None THEN {{}} ELSE SUBSET Node
        /\ unsaved = {}
        /\ keyCache = [n \in Node |-> [s \in Scope |-> None]]
        /\ tokens = {}
        /\ req = [r \in Req |-> IdleRequest]
        /\ faults = 0 /\ rotations = 0

-----------------------------------------------------------------------------
(* Helpers                                                                 *)

Reply(r)      == req' = [req EXCEPT ![r] = IdleRequest]
Goto(r, p)    == req' = [req EXCEPT ![r].pc = p]
Carry(r, p, K) == req' = [req EXCEPT ![r].pc = p, ![r].keys = K, ![r].priv = TRUE]
Fault         == faults < MaxFaults /\ faults' = faults + 1

(* A request begins with the keys K, read from the cache or from storage,  *)
(* that come with their private halves or without.                         *)
Begin(r, p, n, s, K, withPrivate) ==
  /\ req[r].pc = "idle"
  /\ req' = [req EXCEPT ![r] =
               [pc |-> p, at |-> n, scope |-> s, keys |-> K, priv |-> withPrivate,
                owed |-> {}]]

(* The keys for a scope: an app's own and the tenant's for an app, all of  *)
(* them for the tenant.                                                    *)
OwnKeysOnly(k, s) == stored[k] = s
Serves(k, s) == stored[k] # None /\ (s = OrgWide \/ stored[k] \in {OrgWide, s})

KeysFor(s) == {k \in Key : Serves(k, s)}

(* What listing a scope's keys returns: all, or without those whose record *)
(* cannot be read for a moment.                                            *)
Listed(s, K) == \/ K = KeysFor(s) /\ UNCHANGED faults
                \/ K \in SUBSET KeysFor(s) /\ Fault

ActiveSigningKey(K) == CHOOSE k \in K : IsNewest(k, K)

FirstListed(K) == CHOOSE k \in K : \A j \in K : k <= j

(* A fresh key pair under a random id: creating its object never finds one *)
(* in the way, whatever version the write expects.                         *)
GenerateRSAKeyPair(k) == k \notin born /\ born' = born \cup {k}
PutLands(k, s)        == stored' = [stored EXCEPT ![k] = s]
OutOfKeys             == born = Key   \* the bound Key

-----------------------------------------------------------------------------
(* resolveSigningKey, for token grants (scope: the app) and for SVIDs of   *)
(* the engine (scope: the tenant)                                          *)

AnyEntry(e) == e # None
HoldsSigner(e) == e # None /\ e.priv

(* A cached list with a private half in it is signed from.  Otherwise the  *)
(* keys are read, and one is created if there are none.                    *)
Resolve(r, n, s) ==
  LET e == keyCache[n][s]
  IN /\ \/ HoldsSigner(e) /\ Begin(r, "sign", n, s, e.keys, e.priv) /\ UNCHANGED faults
        \/ /\ ~HoldsSigner(e)
           /\ \E K \in SUBSET KeysFor(s) :
                /\ Listed(s, K)
                /\ IF K # {} THEN Begin(r, "fill", n, s, K, TRUE)
                   ELSE Begin(r, "create", n, s, {}, FALSE)
     /\ UNCHANGED <<stored, born, keyCache, tokens, rotations>>

(* The write fails, or lands and is reported failed: what is in storage is *)
(* read again instead.                                                     *)
SignAnyway(r, k) == Carry(r, "fill", {k})
UseNothing(r, k) == Carry(r, "fill", {})
PutRefused(r, k) == Goto(r, "reload")

CreateKey(r) ==
  /\ req[r].pc = "create"
  /\ \/ \E k \in Key :
          /\ GenerateRSAKeyPair(k)
          /\ \/ /\ PutLands(k, req[r].scope)
                /\ Carry(r, "fill", {k})
                /\ UNCHANGED faults
             \/ /\ PutLands(k, req[r].scope) \/ UNCHANGED stored
                /\ PutRefused(r, k)
                /\ Fault
     \/ OutOfKeys /\ Reply(r) /\ UNCHANGED <<stored, born, faults>>
  /\ UNCHANGED <<keyCache, tokens, rotations>>

ReloadKeys(r) ==
  /\ req[r].pc = "reload"
  /\ \E K \in SUBSET KeysFor(req[r].scope) :
       /\ Listed(req[r].scope, K)
       /\ IF K # {} THEN Carry(r, "fill", K) ELSE Reply(r)
  /\ UNCHANGED <<stored, born, keyCache, tokens, rotations>>

(* The entry is set after the read or the write: another request's entry,  *)
(* or an operator's invalidation, may have come in between.                *)
SetSigningKeys(r) ==
  /\ keyCache' = [keyCache EXCEPT ![req[r].at][req[r].scope] =
                    [keys |-> req[r].keys, priv |-> req[r].priv]]
  /\ UNCHANGED <<stored, born, tokens, faults, rotations>>

FillKeys(r) == req[r].pc = "fill" /\ SetSigningKeys(r) /\ Goto(r, "sign")

(* Signing takes the private half; without it the request fails.           *)
Signer(r) == IF req[r].pc = "svidSign" THEN FirstListed(req[r].keys)
             ELSE ActiveSigningKey(req[r].keys)

SignGrant(r) ==
  /\ req[r].pc = "sign" /\ req[r].scope \in App /\ req[r].priv
  /\ tokens' = tokens \cup {[key |-> Signer(r), app |-> req[r].scope]}
  /\ Reply(r)
  /\ UNCHANGED <<stored, born, keyCache, faults, rotations>>

(* An SVID goes out, or a request finds that it cannot sign.               *)
SignOther(r) ==
  /\ req[r].pc \in {"sign", "svidSign"}
  /\ req[r].scope = OrgWide \/ ~req[r].priv
  /\ Reply(r)
  /\ UNCHANGED <<stored, born, keyCache, tokens, faults, rotations>>

-----------------------------------------------------------------------------
(* POST /api/v1/spiffe/svid                                                *)

(* The tenant's cache entry, whoever filled it and with what, else the     *)
(* keys that are listed - a failed listing counts as an empty one - else a *)
(* fresh one, whose write is not checked.                                  *)
HandleSVID(r, n) ==
  LET e == keyCache[n][OrgWide]
      Start(p, L, withPrivate) == Begin(r, p, n, OrgWide, L, withPrivate)
  IN /\ \/ e # None /\ Start("svidSign", e.keys, e.priv) /\ UNCHANGED faults
        \/ /\ e = None
           /\ \E K \in SUBSET KeysFor(OrgWide) :
                /\ Listed(OrgWide, K)
                /\ IF K # {} THEN Start("svidFill", K, TRUE)
                   ELSE Start("svidCreate", {}, FALSE)
     /\ UNCHANGED <<stored, born, keyCache, tokens, rotations>>

CreateUnchecked(r, next) ==
  /\ \/ \E k \in Key :
          /\ GenerateRSAKeyPair(k)
          /\ \/ PutLands(k, req[r].scope) /\ UNCHANGED faults
             \/ Fault /\ UNCHANGED stored
          /\ Carry(r, next, {k})
     \/ OutOfKeys /\ Reply(r) /\ UNCHANGED <<stored, born, faults>>
  /\ UNCHANGED <<keyCache, tokens, rotations>>

SVIDCreateKey(r) == req[r].pc = "svidCreate" /\ CreateUnchecked(r, "svidFill")

SVIDFillKeys(r) == req[r].pc = "svidFill" /\ SetSigningKeys(r) /\ Goto(r, "svidSign")

-----------------------------------------------------------------------------
(* GET /.well-known/jwks.json                                              *)

(* The keys that signed a grant for an app the document is for.            *)
InUse(s) == {t.key : t \in {u \in tokens : s \in {OrgWide, u.app}}}

(* The keys of the scope are listed, and one is created if there seem to   *)
(* be none - a failed listing counts as an empty one.  The document is     *)
(* cached for a minute under a key only this handler reads; as that entry  *)
(* may have run out at any time, it is not modelled.                       *)
HandleJWKS(r, n, s) ==
  LET Start(p, L) == /\ req[r].pc = "idle"
                     /\ req' = [req EXCEPT ![r] =
                                  [IdleRequest EXCEPT !.pc = p, !.at = n, !.scope = s,
                                                      !.keys = L, !.owed = InUse(s)]]
  IN /\ \E K \in SUBSET KeysFor(s) :
          /\ Listed(s, K)
          /\ Start(IF K # {} THEN "jwksPublish" ELSE "jwksCreate", K)
     /\ UNCHANGED <<stored, born, keyCache, tokens, rotations>>

JWKSCreateKey(r) == req[r].pc = "jwksCreate" /\ CreateUnchecked(r, "jwksPublish")

JWKSPublish(r) ==
  /\ req[r].pc = "jwksPublish"
  /\ Reply(r)
  /\ UNCHANGED <<stored, born, keyCache, tokens, faults, rotations>>

-----------------------------------------------------------------------------
(* POST /api/v1/keys                                                       *)

(* An operator rotates: a new key is stored, and then what the serving     *)
(* node cached under the very same scope is dropped.                       *)
HandleKeys(r, n, s) ==
  /\ rotations < MaxRotations /\ rotations' = rotations + 1
  /\ \E k \in Key :
       /\ GenerateRSAKeyPair(k)
       /\ \/ /\ PutLands(k, s)
             /\ Begin(r, "invalidate", n, s, {}, FALSE)
             /\ UNCHANGED faults
          \/ PutLands(k, s) /\ Fault /\ UNCHANGED req
  /\ UNCHANGED <<keyCache, tokens>>

InvalidateApp(r) ==
  /\ req[r].pc = "invalidate"
  /\ keyCache' = [keyCache EXCEPT ![req[r].at][req[r].scope] = None]
  /\ Reply(r)
  /\ UNCHANGED <<stored, born, tokens, faults, rotations>>

-----------------------------------------------------------------------------
(* TokenValidator.keysFor                                                  *)

(* On a miss the public halves are read and cached, where the signers look *)
(* too.                                                                    *)
KeysForValidator(r, n, s) ==
  /\ keyCache[n][s] = None
  /\ \E K \in (SUBSET KeysFor(s)) \ {{}} :
       Listed(s, K) /\ Begin(r, "verifyFill", n, s, K, FALSE)
  /\ UNCHANGED <<stored, born, keyCache, tokens, rotations>>

VerifyFillKeys(r) == req[r].pc = "verifyFill" /\ SetSigningKeys(r) /\ Reply(r)

-----------------------------------------------------------------------------
(* seedInitialData                                                         *)

(* A node that found no default organization, of which there may be        *)
(* several, makes a key for the demo app and caches it for an hour,        *)
(* whether or not it could be stored.  It serves nobody before.            *)
SeedKey(n) ==
  /\ n \in starting
  /\ starting' = starting \ {n}
  /\ \/ \E k \in Key :
          /\ GenerateRSAKeyPair(k)
          /\ \/ PutLands(k, SeedApp) /\ UNCHANGED <<unsaved, faults>>
             \/ Fault /\ unsaved' = unsaved \cup {k} /\ UNCHANGED stored
          /\ keyCache' = [keyCache EXCEPT ![n][SeedApp] = [keys |-> {k}, priv |-> TRUE]]
     \/ OutOfKeys /\ UNCHANGED <<stored, born, unsaved, keyCache, faults>>
  /\ UNCHANGED <<tokens, req, rotations>>

-----------------------------------------------------------------------------
(* The environment                                                         *)

(* An entry reaches its TTL of an hour, or a write elsewhere in the        *)
(* organization drops it.                                                  *)
KeptWhileSigning(n, s) ==
  /\ keyCache[n][s] # None /\ ~keyCache[n][s].priv
  /\ keyCache' = [keyCache EXCEPT ![n][s] = None]
  /\ UNCHANGED <<stored, born, starting, unsaved, tokens, req, faults, rotations>>

KeyCacheExpire(n, s) ==
  /\ keyCache[n][s] # None
  /\ keyCache' = [keyCache EXCEPT ![n][s] = None]
  /\ UNCHANGED <<stored, born, starting, unsaved, tokens, req, faults, rotations>>

(* The node starts again, and seeds if the default organization is         *)
(* missing: the node crashed before it wrote it, or that write failed.     *)
Crash(n) ==
  /\ Fault
  /\ \/ starting' = starting \ {n}
     \/ SeedApp # None /\ starting' = starting \cup {n}
  /\ req' = [r \in Req |-> IF req[r].at = n THEN IdleRequest ELSE req[r]]
  /\ keyCache' = [keyCache EXCEPT ![n] = [s \in Scope |-> None]]
  /\ UNCHANGED <<stored, born, unsaved, tokens, rotations>>

-----------------------------------------------------------------------------
Arrive(r) ==
  /\ \E n \in Node \ starting :
       \/ "svid" \in Entrance /\ HandleSVID(r, n)
       \/ \E s \in Scope : \/ "grant" \in Entrance /\ Resolve(r, n, s)
                           \/ "jwks" \in Entrance /\ HandleJWKS(r, n, s)
                           \/ "keys" \in Entrance /\ HandleKeys(r, n, s)
                           \/ "validate" \in Entrance /\ KeysForValidator(r, n, s)
  /\ UNCHANGED <<starting, unsaved>>

(* The steps the server owes a request it has accepted.                    *)
Serve(r) ==
  /\ \/ CreateKey(r) \/ ReloadKeys(r) \/ FillKeys(r) \/ SignGrant(r) \/ SignOther(r)
     \/ SVIDCreateKey(r) \/ SVIDFillKeys(r)
     \/ JWKSCreateKey(r) \/ JWKSPublish(r)
     \/ InvalidateApp(r)
     \/ VerifyFillKeys(r)
  /\ UNCHANGED <<starting, unsaved>>

Next == \/ \E r \in Req : Arrive(r) \/ Serve(r)
        \/ \E n \in Node, s \in Scope : KeyCacheExpire(n, s)
        \/ \E n \in Node : SeedKey(n) \/ Crash(n)

Spec == Init /\ [][Next]_vars

(* Requests that can run are run, and time passes for cached keys.         *)
FairSpec == /\ Spec
            /\ \A r \in Req : WF_vars(Serve(r))
            /\ \A n \in Node, s \in Scope : WF_vars(KeyCacheExpire(n, s))

-----------------------------------------------------------------------------
(* Safety                                                                  *)

(* resolveSigningKey never signs a grant with an unpublished key: whatever *)
(* writes fail or go unacknowledged and whoever filled the cache, the key  *)
(* of every granted token is in storage under a scope that puts it into    *)
(* the app's and the tenant's key sets - or it is the one key that is      *)
(* cached unchecked, of a start that could not store what it seeded.       *)
GrantTokensPublished ==
  \A t \in tokens :
    \/ Serves(t.key, t.app)
    \/ t.key \in unsaved /\ t.app = SeedApp

(* A grant is never signed from an entry without private halves, although  *)
(* the validator leaves such entries where resolveSigningKey looks.        *)
GrantSignersHavePrivateKeys ==
  \A r \in Req : req[r].pc = "sign" => req[r].priv

(* JWKS never drops a key in use: a key set document built from storage    *)
(* lists every key that had signed a grant for its apps when the request   *)
(* for it began.  (One served from the cache is as old as its build.)      *)
JWKSKeepsOldKeys ==
  \A r \in Req : req[r].pc = "jwksPublish" => req[r].owed \subseteq req[r].keys

(* It does not while no storage call has failed.                           *)
JWKSKeepsOldKeysUntilAFault == faults = 0 => JWKSKeepsOldKeys

(* Without a rotation, an app's grants are signed with one key.            *)
OneSigningKey ==
  rotations = 0 =>
    \A t, u \in tokens : t.app = u.app => t.key = u.key

(* The key the SVID handler is about to sign with has its private half.    *)
SVIDSignersHavePrivateKeys ==
  \A r \in Req : req[r].pc = "svidSign" => req[r].priv

(* A token whose key is not among those a validator has for the tenant is  *)
(* a bad token: none that the tenant's nodes granted is.                   *)
ValidatorKnowsItsTokens ==
  \A t \in tokens, n \in Node :
    keyCache[n][OrgWide] # None => t.key \in keyCache[n][OrgWide].keys

-----------------------------------------------------------------------------
(* Liveness                                                                *)

(* The nodes come to sign with one key: once keys are no longer created,   *)
(* cached lists from before run out and whatever is about to be signed     *)
(* from, on whichever node, gives the newest key in storage - of two of    *)
(* the same instant the one all nodes list first.                          *)
SigningConverges ==
  <>[](\A r \in Req : req[r].pc = "sign" =>
        IsNewest(Signer(r), KeysFor(req[r].scope)))
=============================================================================
