------------------------------ MODULE GrantFlow ------------------------------
(***************************************************************************)
(* The authorization-code and refresh-token grants of pkg/idp, run by      *)
(* several server nodes over one storage bucket.                           *)
(*                                                                         *)
(* Every one-time record - the authorization state, the authorization code *)
(* and the refresh token - lives under a key nobody else writes, named by  *)
(* an unguessable handle.  A request runs on one node as a sequence of     *)
(* steps that end at its storage or network calls, so that the steps of    *)
(* concurrent requests, crashes, storage errors and the passing of time    *)
(* interleave between them.  A request the code refuses before it changes  *)
(* anything is not a step of the model.                                    *)
(*                                                                         *)
(* A definition that nothing uses and that stands right before another of  *)
(* the same arity (UnnamedOrg before GrantOrg, say) is a slip the code  *)
(* could have made there; the properties are tested against it.            *)
(***************************************************************************)
EXTENDS Naturals, FiniteSets, Sequences

CONSTANTS
  Node,            \* server processes sharing the bucket
  Req,             \* requests (goroutines) that may be in flight at once
  Handle,          \* SecureToken values, for states, codes and refresh tokens
  Org, Client,     \* tenants and client ids
  URI,             \* redirect URIs
  Verifier,        \* PKCE verifiers clients present
  ShortVerifier,   \* those whose length is outside 43..128
  Secret,          \* client secrets
  IDP, User,       \* upstream providers and the users they authenticate
  DefaultOrg,      \* the organization called "default"
  PlatformClient,  \* the client called "admin_console"
  EnvIDP,          \* providers with credentials in the environment
  AppConfig,       \* configurations an application may be given
  InitialApps,     \* registrations the nodes may start from
  InitialIDPs,     \* provider records the nodes may start from
  Asked,           \* authorization requests that arrive
  Presented,       \* token requests that arrive
  MaxLogins,       \* bound: authorizations begun in a behaviour
  MaxFaults,       \* bound: storage errors and crashes in a behaviour
  MaxEdits,        \* bound: configuration writes in a behaviour
  None             \* the absent value ("" or nil)

App == Org \X Client

(* S256 is injective; the challenge of a verifier is not the verifier.     *)
S256Challenge(v) == <<"S256", v>>
Challenge == {S256Challenge(v) : v \in Verifier}

(* What an operator writes: the public flag, the secret, the redirect URIs *)
(* and the sequence AllowedIDPs, empty when the app is not restricted; and *)
(* the organization and client id that the body names, None where it       *)
(* leaves them to the key it is stored under.                              *)
Config == [public : BOOLEAN, secret : Secret \cup {None},
           uris : SUBSET URI, idps : Seq(IDP),
           org : Org \cup {None}, client : Client \cup {None}]

(* How a stored provider record is usable: "bare" is enabled with real     *)
(* credentials but resolves to no endpoints.                               *)
WrittenStatus == {"disabled", "placeholder", "bare", "usable"}
Status == WrittenStatus \cup {"absent"}

(* What a client sends to /authorize and to /token.                        *)
AuthorizationRequest == [org : Org, client : Client, uri : URI,
                         challenge : Challenge \cup {None},
                         idp : IDP \cup {None}]

TokenRequest == [client : Client, uri : URI \cup {None},
                 verifier : Verifier \cup {None}, secret : Secret \cup {None}]

(* The origin MockLogin stamps into the claims it makes up.                *)
MockIDP == "mock_idp"

ASSUME HandleAssumption == None \notin Handle
ASSUME NodeAssumption   == None \notin Node
ASSUME ConfigAssumption == /\ AppConfig \subseteq Config
                           /\ None \notin AppConfig
ASSUME ValueAssumption  == /\ None \notin Verifier \cup Secret \cup IDP \cup Client
                           /\ None \notin URI \cup User \cup Challenge \cup Org
                           /\ MockIDP \notin IDP
ASSUME NamesAssumption  == /\ DefaultOrg \in Org
                           /\ EnvIDP \subseteq IDP
                           /\ ShortVerifier \subseteq Verifier
ASSUME InputAssumption  == /\ InitialApps \subseteq [App -> AppConfig \cup {None}]
                           /\ InitialIDPs \subseteq [Org \X IDP -> Status]
                           /\ Asked \subseteq AuthorizationRequest
                           /\ Presented \subseteq TokenRequest
ASSUME BoundAssumption  == MaxLogins \in Nat /\ MaxFaults \in Nat /\ MaxEdits \in Nat

VARIABLES
  rec,        \* handle -> the session record written under it, ever
  live,       \* handles whose object is in storage now
  expired,    \* handles whose record outlived its TTL before it was claimed
  issued,     \* handles that were sent to somebody
  apps,       \* app -> its stored configuration, or None
  idps,       \* <<org, idp>> -> status of the stored provider record
  appCache,   \* node -> app -> cached configuration, or None
  resident,   \* node -> handles in the engine's states and codes maps
  req,        \* request -> its program counter and locals
  named,      \* history: app -> the apps its registrations have named
  presented,  \* history: node -> handles that were presented there
  claimedBy,  \* history: the node whose delete removed a handle, or None
  faults,     \* storage errors and crashes so far
  edits       \* configuration writes so far

vars == <<rec, live, expired, issued, apps, idps, appCache, resident, req,
          named, presented, claimedBy, faults, edits>>

sessions == <<rec, live, issued>>
config   == <<apps, idps, named, edits>>
spending == <<presented, claimedBy>>

-----------------------------------------------------------------------------
(* Data                                                                    *)

(* AuthState, AuthCode and RefreshToken.  A refresh token carries neither  *)
(* redirect URI nor challenge; a state has no user yet.  login and from    *)
(* are history: the state the chain began with and the record this one was *)
(* exchanged for.                                                          *)
Session == [kind : {"state", "code", "refresh"}, org : Org, client : Client,
            uri : URI \cup {None}, challenge : Challenge \cup {None},
            idp : IDP \cup {MockIDP}, user : User \cup {None},
            login : Handle, from : Handle \cup {None}]

ASSUME SessionAssumption == None \notin Session

(* The cache entries an administrative write invalidates: one app's, or,   *)
(* without a client, all of an organization.                               *)
CacheScope == [org : Org, client : Client \cup {None}]

(* Program counters, by handler.  Past "claim" a request holds the handle  *)
(* it claimed: nobody else can.                                            *)
AuthorizePC == {"listIDPs", "resolveIDP", "putState", "putStateBare"}
HolderPC    == {"resolveCallback", "putCode", "putMockCode", "load", "fill", "mint"}
PC == {"idle", "claim", "invalidate"} \cup AuthorizePC \cup HolderPC

Request == [pc : PC, at : Node \cup {None}, tok : Handle \cup {None},
            in : AuthorizationRequest \cup TokenRequest \cup CacheScope \cup {None},
            cfg : AppConfig \cup {None}, who : User \cup {None}]

IdleRequest == [pc |-> "idle", at |-> None, tok |-> None, in |-> None,
                cfg |-> None, who |-> None]

TypeOK == /\ rec \in [Handle -> Session \cup {None}]
          /\ live \in SUBSET Handle
          /\ expired \in SUBSET Handle
          /\ issued \in SUBSET Handle
          /\ apps \in [App -> AppConfig \cup {None}]
          /\ idps \in [Org \X IDP -> Status]
          /\ appCache \in [Node -> [App -> AppConfig \cup {None}]]
          /\ resident \in [Node -> SUBSET Handle]
          /\ req \in [Req -> Request]
          /\ named \in [App -> SUBSET App]
          /\ presented \in [Node -> SUBSET Handle]
          /\ claimedBy \in [Handle -> Node \cup {None}]
          /\ faults \in 0 .. MaxFaults
          /\ edits \in 0 .. MaxEdits

(* The app a registration stored under a is for: the names it brings, the  *)
(* key's where it brings none.                                             *)
NamedApp(a, c) == <<IF c.org = None THEN a[1] ELSE c.org,
                    IF c.client = None THEN a[2] ELSE c.client>>

Init == /\ rec = [h \in Handle |-> None]
        /\ live = {} /\ expired = {} /\ issued = {}
        /\ apps \in InitialApps
        /\ idps \in InitialIDPs
        /\ appCache = [n \in Node |-> [a \in App |-> None]]
        /\ resident = [n \in Node |-> {}]
        /\ req = [r \in Req |-> IdleRequest]
        /\ named = [a \in App |-> IF apps[a] = None THEN {} ELSE {NamedApp(a, apps[a])}]
        /\ presented = [n \in Node |-> {}]
        /\ claimedBy = [h \in Handle |-> None]
        /\ faults = 0 /\ edits = 0

-----------------------------------------------------------------------------
(* Helpers                                                                 *)

Idle(r)       == req[r].pc = "idle"
Goto(r, p)    == req' = [req EXCEPT ![r].pc = p]
Reply(r)      == req' = [req EXCEPT ![r] = IdleRequest]
Fault         == faults < MaxFaults /\ faults' = faults + 1
AppOf(s)      == <<s.org, s.client>>
LocalStep     == UNCHANGED <<sessions, expired, config, appCache, resident, spending>>

(* An app without a registered secret is public whatever its flag says.    *)
IsPublicClient(c) == c.public \/ c.secret = None

(* The chain's handles in the hands of some request.                       *)
Held == {req[r].tok : r \in {q \in Req : req[q].pc \in HolderPC}}

Usable(s) == s \in {"usable", "bare"}
StoredIDP(o, i) == IF Usable(idps[<<o, i>>]) THEN idps[<<o, i>>] ELSE "absent"

(* The record the providers table yields: the org's own, else the default  *)
(* organization's; the platform app looks only at the environment.         *)
resolveUpstreamIDP(o, c, i) ==
  IF c = PlatformClient
  THEN IF i \in EnvIDP THEN "usable" ELSE "absent"
  ELSE IF Usable(idps[<<o, i>>]) THEN idps[<<o, i>>] ELSE StoredIDP(DefaultOrg, i)

(* A read that fails counts as a record that is missing: that of the org's *)
(* own record leads to the default organization's, that of the other one,  *)
(* or of both, to nothing.                                                 *)
ResolvesTo(o, c, i, found) ==
  \/ found = resolveUpstreamIDP(o, c, i) /\ UNCHANGED faults
  \/ /\ Fault /\ c # PlatformClient
     /\ found \in {"absent"} \cup {StoredIDP(DefaultOrg, i) : x \in {o} \ {DefaultOrg}}

(* Providers listed as enabled, with placeholder credentials or without.   *)
enabledIDPIDs(o) == {i \in IDP : idps[<<o, i>>] \in {"placeholder", "bare", "usable"}}

(* A create under a fresh random key, as the three session writers do it.  *)
(* Stored: the object is in the bucket.  A refresh token is not kept in    *)
(* memory; a state or code is, once the write has been acknowledged.       *)
Store(h, s) == /\ rec[h] = None
               /\ rec' = [rec EXCEPT ![h] = s]
               /\ live' = live \cup {h}

Remember(n, h, s) ==
  resident' = [resident EXCEPT ![n] =
                 IF s.kind = "refresh" THEN @ ELSE @ \cup {h}]

(* The write is acknowledged and the handle goes out in the answer, unless *)
(* the handler then fails on its own; or it lands without acknowledgement, *)
(* and an error is returned.                                               *)
PutSession(r, h, s, answered) ==
  /\ Store(h, s)
  /\ \/ /\ Remember(req[r].at, h, s)
        /\ issued' = IF answered THEN issued \cup {h} ELSE issued
        /\ UNCHANGED faults
     \/ Fault /\ UNCHANGED <<issued, resident>>
  /\ Reply(r)
  /\ UNCHANGED <<expired, config, appCache, spending>>

(* The write fails, or no random handle is to be had (the bound Handle).   *)
PutFailedAndUndone(r) ==
  /\ Fault
  /\ live' = live \cup {h \in Handle : h = req[r].tok}
  /\ Reply(r)
  /\ UNCHANGED <<rec, issued, expired, config, appCache, resident, spending>>
PutFailed(r) ==
  /\ \/ Fault
     \/ (\A h \in Handle : rec[h] # None) /\ UNCHANGED faults
  /\ Reply(r)
  /\ LocalStep

-----------------------------------------------------------------------------
(* /oauth/v2/authorize                                                     *)

(* The stored app is read, the redirect URI and the PKCE requirement are   *)
(* checked, and a provider is chosen: the one named, if the app allows it, *)
(* else the first allowed one, else the tenant's only one (listIDPs).      *)
(* Challenge methods other than S256 are refused here.                     *)
PrepareAuthorization(r, n, q) ==
  LET c == apps[<<q.org, q.client>>]
      Continue(p, i) ==
        req' = [req EXCEPT ![r] =
                  [IdleRequest EXCEPT !.pc = p, !.at = n,
                                      !.in = [q EXCEPT !.idp = i]]]
  IN /\ Idle(r)
     /\ Cardinality({h \in Handle : rec[h] # None /\ rec[h].kind = "state"}) < MaxLogins
     /\ c # None
     /\ q.uri \in c.uris
     /\ IsPublicClient(c) => q.challenge # None
     /\ \/ /\ q.idp # None
           /\ c.idps = <<>> \/ \E k \in DOMAIN c.idps : c.idps[k] = q.idp
           /\ Continue("resolveIDP", q.idp)
        \/ /\ q.idp = None /\ c.idps # <<>>
           /\ Continue("resolveIDP", c.idps[1])
        \/ /\ q.idp = None /\ c.idps = <<>>
           /\ Continue("listIDPs", None)
     /\ LocalStep /\ UNCHANGED faults

(* A default is taken only when it is unambiguous.  A listing leaves out   *)
(* the records that it cannot read one by one; it may also fail.           *)
SelectIDP(r) ==
  /\ req[r].pc = "listIDPs"
  /\ \E listed \in SUBSET enabledIDPIDs(req[r].in.org) :
       /\ \/ listed = enabledIDPIDs(req[r].in.org) /\ UNCHANGED faults
          \/ Fault
       /\ \/ \E i \in IDP : /\ listed = {i}
                            /\ req' = [req EXCEPT ![r].pc = "resolveIDP",
                                                  ![r].in.idp = i]
          \/ (\A i \in IDP : listed # {i}) /\ Reply(r)
  /\ LocalStep

ResolveIDP(r) ==
  LET q == req[r].in
      Found(s) == ResolvesTo(q.org, q.client, q.idp, s)
  IN /\ req[r].pc = "resolveIDP"
     /\ \/ Found("usable") /\ Goto(r, "putState")
        \/ Found("bare")   /\ Goto(r, "putStateBare")
        \/ Found("absent") /\ Reply(r)
     /\ LocalStep

(* The state is persisted before the redirect.  A provider without an      *)
(* authorize URL is only noticed afterwards: the record stays behind.      *)
PutState(r) ==
  LET q == req[r].in
      State(h) == [kind |-> "state", org |-> q.org, client |-> q.client,
                   uri |-> q.uri, challenge |-> q.challenge, idp |-> q.idp,
                   user |-> None, login |-> h, from |-> None]
  IN /\ req[r].pc \in {"putState", "putStateBare"}
     /\ \/ \E h \in Handle : PutSession(r, h, State(h), req[r].pc = "putState")
        \/ PutFailed(r)

-----------------------------------------------------------------------------
(* Consuming a one-time record: /callback, /mock_login and /token          *)

EntryDroppedIfRead(n, h) == IF h \in live THEN resident[n] \ {h} ELSE resident[n]
EntryDropped(n, h) == resident[n] \ {h}

(* The entry in the node's map is dropped whoever wins, and the object is  *)
(* read.  A handle that is gone, or cannot be read, ends the request.      *)
Present(r, n, h, q, u) ==
  /\ Idle(r)
  /\ h \in issued
  /\ resident' = [resident EXCEPT ![n] = EntryDropped(n, h)]
  /\ presented' = [presented EXCEPT ![n] = @ \cup {h}]
  /\ \/ /\ h \in live
        /\ req' = [req EXCEPT ![r] = [IdleRequest EXCEPT !.pc = "claim", !.at = n,
                                      !.tok = h, !.in = q, !.who = u]]
        /\ UNCHANGED faults
     \/ h \notin live /\ UNCHANGED <<req, faults>>
     \/ Fault /\ UNCHANGED req
  /\ UNCHANGED <<sessions, expired, config, appCache, claimedBy>>

PresentState(r, n) ==
  \E h \in Handle, u \in User \cup {None} :
    /\ rec[h] # None /\ rec[h].kind = "state"
    /\ Present(r, n, h, None, u)

PresentToken(r, n) ==
  \E h \in Handle, q \in Presented :
    /\ rec[h] # None /\ rec[h].kind \in {"code", "refresh"}
    /\ Present(r, n, h, q, None)

(* What is checked on a claimed record alone: its age, and for a grant the *)
(* client and the redirect URI it is bound to.                             *)
RecordHonouredAtAnyAge(h, q) ==
  LET s == rec[h]
  IN /\ s.kind # "state" => s.client = q.client
     /\ s.kind = "code"  => q.uri \in {None, s.uri}

RecordHonoured(h, q) ==
  LET s == rec[h]
  IN /\ h \notin expired
     /\ s.kind # "state" => s.client = q.client
     /\ s.kind = "code"  => q.uri \in {None, s.uri}

(* Where a claimed record takes the request.                               *)
Claimed(r) == IF rec[req[r].tok].kind # "state" THEN "load"
              ELSE IF req[r].who = None THEN "resolveCallback" ELSE "putMockCode"

(* Session objects are written once, so the version read is the current    *)
(* one exactly when the object is still there.                             *)
DeleteUnconditional(h) == TRUE
ETagNeverMatches(h) == FALSE
CanDelete(h) == h \in live

(* The delete removes the object for one caller, and only then is the      *)
(* record looked at; any error, even that of a delete that did land, is a  *)
(* loss.                                                                   *)
claimSingleUse(r) ==
  LET h == req[r].tok
      Remove == /\ live' = live \ {h}
                /\ claimedBy' = [claimedBy EXCEPT ![h] = req[r].at]
  IN /\ req[r].pc = "claim"
     /\ \/ /\ CanDelete(h) /\ Remove
           /\ IF RecordHonoured(h, req[r].in) THEN Goto(r, Claimed(r)) ELSE Reply(r)
           /\ UNCHANGED faults
        \/ CanDelete(h) /\ Remove /\ Reply(r) /\ Fault
        \/ ~CanDelete(h) /\ Reply(r) /\ UNCHANGED <<live, claimedBy, faults>>
        \/ Reply(r) /\ Fault /\ UNCHANGED <<live, claimedBy>>
     /\ UNCHANGED <<rec, issued, expired, config, appCache, resident, presented>>

-----------------------------------------------------------------------------
(* /oauth/v2/callback and /oauth/v2/mock_login                             *)

(* The provider is resolved again - it may have been disabled meanwhile,   *)
(* or its record cannot be read - and asked for the user: an answer, or an *)
(* error.                                                                  *)
ProcessUpstreamCallback(r) ==
  LET s == rec[req[r].tok]
  IN /\ req[r].pc = "resolveCallback"
     /\ \/ Reply(r) /\ UNCHANGED faults
        \/ /\ ResolvesTo(s.org, s.client, s.idp, "usable")
           /\ \E u \in User : req' = [req EXCEPT ![r].pc = "putCode", ![r].who = u]
     /\ LocalStep

DroppedChallenge(s) == None
CarriedChallenge(s) == s.challenge

(* The code carries the state's client, redirect URI and PKCE commitment   *)
(* and the claims obtained for it, stamped with the provider they are from.*)
PutCode(r) ==
  LET s == rec[req[r].tok]
      code == [kind |-> "code", org |-> s.org, client |-> s.client,
               uri |-> s.uri, challenge |-> CarriedChallenge(s),
               idp |-> IF req[r].pc = "putCode" THEN s.idp ELSE MockIDP,
               user |-> req[r].who, login |-> s.login, from |-> req[r].tok]
  IN /\ req[r].pc \in {"putCode", "putMockCode"}
     /\ (\E h \in Handle : PutSession(r, h, code, TRUE)) \/ PutFailed(r)

-----------------------------------------------------------------------------
(* /oauth/v2/token                                                         *)

verifyPKCE(challenge, v) ==
  /\ challenge # None
  /\ v # None
  /\ v \notin ShortVerifier
  /\ challenge = S256Challenge(v)

PKCEOfEveryGrant(s, c, q) ==
  IF IsPublicClient(c) THEN verifyPKCE(s.challenge, q.verifier)
  ELSE q.secret = c.secret

(* A code: the verifier of a public client, the secret of a confidential   *)
(* one and its verifier too if it committed to one.  A refresh token: the  *)
(* secret of a confidential client.                                        *)
ClientAuthenticated(s, c, q) ==
  IF s.kind = "code"
  THEN IF IsPublicClient(c) THEN verifyPKCE(s.challenge, q.verifier)
       ELSE /\ q.secret = c.secret
            /\ s.challenge # None => verifyPKCE(s.challenge, q.verifier)
  ELSE IsPublicClient(c) \/ q.secret = c.secret

AuthenticateClient(r, c) ==
  IF ClientAuthenticated(rec[req[r].tok], c, req[r].in)
  THEN req' = [req EXCEPT ![r].pc = "mint", ![r].cfg = c]
  ELSE Reply(r)

(* The node's cache first, then storage.                                   *)
LoadApplication(r) ==
  LET a == AppOf(rec[req[r].tok])
      cached == appCache[req[r].at][a]
  IN /\ req[r].pc = "load"
     /\ \/ cached # None /\ AuthenticateClient(r, cached) /\ UNCHANGED faults
        \/ /\ cached = None /\ apps[a] # None
           /\ req' = [req EXCEPT ![r].pc = "fill", ![r].cfg = apps[a]]
           /\ UNCHANGED faults
        \/ cached = None /\ apps[a] = None /\ Reply(r) /\ UNCHANGED faults
        \/ cached = None /\ Reply(r) /\ Fault
     /\ UNCHANGED <<sessions, expired, config, appCache, resident, spending>>

(* The fill comes after the read: a write and its invalidation may both    *)
(* have happened in between.                                               *)
FillCache(r) ==
  /\ req[r].pc = "fill"
  /\ appCache' = [appCache EXCEPT ![req[r].at][AppOf(rec[req[r].tok])] = req[r].cfg]
  /\ AuthenticateClient(r, req[r].cfg)
  /\ UNCHANGED <<sessions, expired, config, resident, spending, faults>>

(* The tenant and client of the grant are those of the loaded app, not of  *)
(* the token request, whose tenant is "default" when it names none.        *)
RequestedOrg(s, c) == DefaultOrg
UnnamedOrg(s, c) == None
GrantOrg(s, c) == NamedApp(AppOf(s), c)[1]
GrantClient(s, c) == NamedApp(AppOf(s), c)[2]

(* Signing may fail (PutFailed); otherwise the two signed tokens go out    *)
(* together with a refresh token, once that one is stored.                 *)
MintRefreshToken(r) ==
  LET s == rec[req[r].tok]
      c == req[r].cfg
      refresh == [kind |-> "refresh", org |-> GrantOrg(s, c), client |-> GrantClient(s, c),
                  uri |-> None, challenge |-> None, idp |-> s.idp,
                  user |-> s.user, login |-> s.login, from |-> req[r].tok]
  IN /\ req[r].pc = "mint"
     /\ (\E h \in Handle : PutSession(r, h, refresh, TRUE)) \/ PutFailed(r)

-----------------------------------------------------------------------------
(* Administration, as far as the grants see it                             *)

(* A configuration write and, as a later step, the invalidation of the     *)
(* cache of the node that served it.  A write storage refuses changes      *)
(* nothing.  An app is stored under the organization of the request,       *)
(* whatever the body names.                                                *)
Edit(r, n, scope) ==
  /\ Idle(r)
  /\ edits < MaxEdits /\ edits' = edits + 1
  /\ req' = [req EXCEPT ![r] = [IdleRequest EXCEPT !.pc = "invalidate", !.at = n,
                                                   !.in = scope]]
  /\ UNCHANGED <<sessions, expired, appCache, resident, spending, faults>>

HandleApps(r, n) ==
  \E a \in App, c \in AppConfig :
    /\ apps' = [apps EXCEPT ![a] = c]
    /\ named' = [named EXCEPT ![a] = @ \cup {NamedApp(a, c)}]
    /\ Edit(r, n, [org |-> a[1], client |-> a[2]])
    /\ UNCHANGED idps

HandleIDPs(r, n) ==
  \E o \in Org, i \in IDP, s \in WrittenStatus :
    /\ idps' = [idps EXCEPT ![<<o, i>>] = s]
    /\ Edit(r, n, [org |-> o, client |-> None])
    /\ UNCHANGED <<apps, named>>

Invalidate(r) ==
  LET scope == req[r].in
  IN /\ req[r].pc = "invalidate"
     /\ appCache' = [appCache EXCEPT ![req[r].at] =
                        [a \in App |-> IF a[1] = scope.org /\ scope.client \in {None, a[2]}
                                       THEN None ELSE @[a]]]
     /\ Reply(r)
     /\ UNCHANGED <<sessions, expired, config, resident, spending, faults>>

-----------------------------------------------------------------------------
(* The environment                                                         *)

(* A record outlives its TTL.  Nothing removes it from storage, and the    *)
(* age of one that has been claimed is not looked at again.                *)
Expire(h) ==
  /\ h \in live
  /\ h \notin expired
  /\ expired' = expired \cup {h}
  /\ UNCHANGED <<sessions, config, appCache, resident, req, spending, faults>>

(* A cache entry reaches its TTL of one minute, or the janitor drops it.   *)
CacheExpire(n, a) ==
  /\ appCache[n][a] # None
  /\ appCache' = [appCache EXCEPT ![n][a] = None]
  /\ UNCHANGED <<sessions, expired, config, resident, req, spending, faults>>

(* A node stops: its requests, its cache and its maps are lost.            *)
Crash(n) ==
  /\ Fault
  /\ req' = [r \in Req |-> IF req[r].at = n THEN IdleRequest ELSE req[r]]
  /\ appCache' = [appCache EXCEPT ![n] = [a \in App |-> None]]
  /\ resident' = [resident EXCEPT ![n] = {}]
  /\ UNCHANGED <<sessions, expired, config, spending>>

-----------------------------------------------------------------------------
Arrive(r) ==
  \E n \in Node :
    \/ \E q \in Asked : PrepareAuthorization(r, n, q)
    \/ PresentState(r, n)
    \/ PresentToken(r, n)
    \/ HandleApps(r, n)
    \/ HandleIDPs(r, n)

(* The steps the server owes a request it has accepted.                    *)
Serve(r) ==
  \/ SelectIDP(r) \/ ResolveIDP(r) \/ PutState(r)
  \/ claimSingleUse(r)
  \/ ProcessUpstreamCallback(r) \/ PutCode(r)
  \/ LoadApplication(r) \/ FillCache(r) \/ MintRefreshToken(r)
  \/ Invalidate(r)

Environment ==
  \/ \E h \in Handle : Expire(h)
  \/ \E n \in Node, a \in App : CacheExpire(n, a)
  \/ \E n \in Node : Crash(n)

Next == \/ \E r \in Req : Arrive(r) \/ Serve(r)
        \/ Environment

Spec == Init /\ [][Next]_vars

(* A goroutine that can run is eventually run; clients, operators, clocks  *)
(* and faults owe nothing.                                                 *)
FairSpec == Spec /\ \A r \in Req : WF_vars(Serve(r))

-----------------------------------------------------------------------------
(* Safety                                                                  *)

Recorded == {h \in Handle : rec[h] # None}

(* claimSingleUse hands a record to at most one caller, whatever nodes     *)
(* race for it and whatever calls fail: no state yields two codes, no code *)
(* or refresh token two token sets.                                        *)
NoForks ==
  \A g, h \in Recorded :
    rec[g].from # None /\ rec[g].from = rec[h].from => g = h

(* A record is honoured for one claimant and never again: whatever fails   *)
(* or stops after the claim, nothing that was spent becomes spendable, so  *)
(* a retry of a code or refresh token that got no answer is refused.       *)
HonouredOnce ==
  [][\A r \in Req : req[r].pc = "claim" /\ req'[r].pc \in HolderPC
                     => claimedBy[req[r].tok] = None]_vars

(* One login is one credential: across all nodes, at most one record of it *)
(* is in storage or in the hands of a request, so rotation never leaves an *)
(* older code or refresh token spendable.                                  *)
OneCredentialPerLogin ==
  \A g, h \in live \cup Held : rec[g].login = rec[h].login => g = h

(* No tokens for a code without the proof its login committed to: the      *)
(* challenge sent to /authorize, two records back, binds the redemption    *)
(* even of a client that was reconfigured in between; without a challenge, *)
(* the secret of a confidential client was presented.                      *)
ProofOfPossession ==
  \A r \in Req :
    LET q == req[r].in
        s == rec[req[r].tok]
        c == req[r].cfg
    IN req[r].pc = "mint" /\ s.kind = "code" =>
         IF rec[s.login].challenge # None
         THEN /\ q.verifier \in Verifier \ ShortVerifier
              /\ rec[s.login].challenge = S256Challenge(q.verifier)
         ELSE c.secret # None /\ q.secret = c.secret

(* A login ends with the app, the redirect URI and the provider it began   *)
(* with, also when apps and providers were edited or could not be read on  *)
(* the way (MockLogin vouches for itself).  A refresh token is for the     *)
(* user and the provider of the code at the root of its family, however    *)
(* often it was rotated.  It moves to another tenant or client only where  *)
(* an operator had registered the app it was granted for under that other  *)
(* name: the token request, whose tenant the code ignores, cannot move it. *)
ChainKeepsBinding ==
  \A h \in Recorded :
    LET s == rec[h]
        root == rec[s.login]
        prev == rec[s.from]
    IN /\ s.kind # "refresh" => AppOf(s) = AppOf(root) /\ s.uri = root.uri
       /\ s.kind = "code" => s.idp \in {root.idp, MockIDP} /\ s.user # None
       /\ s.kind = "refresh" => /\ AppOf(s) \in named[AppOf(prev)]
                                /\ s.user = prev.user /\ s.idp = prev.idp

(* The age of a record is looked at after it has been claimed: one that    *)
(* had expired by then is burnt and nothing is ever issued for it.         *)
ExpiredNeverHonoured ==
  \A h \in Recorded : rec[h].from \notin expired

(* The records of a login behave as the chain of CredentialChain, with the *)
(* storage objects as what can be presented and the claimed handles of     *)
(* running requests as what has been taken.                                *)
Chain == INSTANCE CredentialChain WITH
           login <- [h \in Handle |-> IF rec[h] = None THEN None ELSE rec[h].login],
           from  <- [h \in Handle |-> IF rec[h] = None THEN None ELSE rec[h].from],
           held  <- Held

ImplementsChain == Chain!Spec

(* A node at which a state or a code was presented no longer keeps it in   *)
(* its maps, whether that request got it, lost it to a request on this or  *)
(* another node, found it gone or could not read it: "a lost race cannot   *)
(* leave a spent state resident on this node".                             *)
SpentHereIsGone ==
  \A n \in Node : resident[n] \cap presented[n] = {}

-----------------------------------------------------------------------------
(* Liveness                                                                *)

Quiet == faults = MaxFaults /\ edits = MaxEdits

(* The conditional delete cannot make everybody lose: once no more storage *)
(* errors occur, a record somebody is claiming is claimed.                 *)
RaceHasAWinner ==
  \A h \in Handle :
    (Quiet /\ \E r \in Req : req[r].pc = "claim" /\ req[r].tok = h)
      ~> h \notin live

(* A claim by a client with the right proof ends in tokens, whatever the   *)
(* other requests do, once storage and configuration are quiet; only the   *)
(* bound on handles stops it.                                              *)
RightfulClaim(r, h) ==
  /\ req[r].pc = "load" /\ req[r].tok = h
  /\ apps[AppOf(rec[h])] # None
  /\ \A c \in {apps[AppOf(rec[h])], appCache[req[r].at][AppOf(rec[h])]} \ {None} :
       IF IsPublicClient(c)
       THEN rec[h].kind = "code" => verifyPKCE(rec[h].challenge, req[r].in.verifier)
       ELSE /\ req[r].in.secret = c.secret
            /\ rec[h].challenge \in {None, S256Challenge(req[r].in.verifier)}
            /\ req[r].in.verifier \notin ShortVerifier

ValidGrantYieldsTokens ==
  \A r \in Req, h \in Handle :
    (Quiet /\ RightfulClaim(r, h))
      ~> \/ \E g \in Recorded : rec[g].from = h
         \/ Recorded = Handle
=============================================================================
