# Auth Pole: models, checks and proofs

TLA+ models of the Auth Pole identity mediator (`authpole`, Go): the modules are
translated from the code under `src/`, checked on small instances with TLC and,
for every safety property that the code keeps, proved with TLAPS for every value of
the constants.

Contents: [the system](#the-system) · [modules](#modules) ·
[GrantFlow](#grantflow) · [SigningKeys](#signingkeys) ·
[AdminRecords](#adminrecords) · [TokenChecks](#tokenchecks) ·
[WorkloadSVID](#workloadsvid) · [TenantRouting](#tenantrouting) ·
[UpstreamClaims](#upstreamclaims) · [runs](#runs) · [findings](#findings) ·
[proofs](#proofs) · [not modelled](#not-modelled) · [plan](#plan)

## The system

Auth Pole stands between applications and upstream identity providers. Several
stateless server nodes share one object bucket (S3, or JayDB over a local
directory); each keeps an in-memory cache. There is no channel between nodes: they
meet only in storage.

| Component (source) | State | Operations | What makes it correct |
|---|---|---|---|
| Authorization engine (`pkg/idp/idp_engine.go`, `pkg/api/oidc_handlers.go`) | storage objects for authorization states, codes and refresh tokens; the maps `states` and `codes` of each node | `/authorize`, `/callback`, `/mock_login`, `/token` with two grants | a record is honoured at most once, across nodes and failures, and not after its TTL; a login has one usable credential; tokens need the proof the login committed to, and are for its tenant, client and user; a rightful claim succeeds |
| Signing keys (`resolveSigningKey`, `loadSigningKeys`, `ActiveSigningKey`; JWKS, SVID and key handlers; `pkg/auth/jwt.go`) | key objects in storage; the key lists and JWKS documents in each node's cache | create on first use, rotate, select, publish, look up for validation | every signed token verifies against published keys; keys in use stay published; nodes come to agree on one key; validators know the keys |
| Storage (`pkg/storage`) | key -> (bytes, version) | `Get`, `Put` and `Delete` with an expected version, `List` | a conditional write or delete succeeds for one of its racers |
| Cache (`pkg/cache/cache.go`) | key -> (value, expiry), a lock, a janitor | `Get`, `Set`, `Delete`, invalidation by organization or app | a stale value is gone after its TTL |
| Administration API (`pkg/api/admin_handlers.go`) | organizations, apps, providers, keys, users, teams, roles in storage | list, create, update with an expected version | concurrent editors do not lose updates; a write reaches the grants within a TTL |
| Token validation (`pkg/auth/jwt.go`, `pkg/crypto/crypto.go`) | cached verification keys | choose keys by `kid`, verify, check claims | a token that is fresh where it was minted is accepted everywhere, a late one nowhere, and only for its tenant, audience and use |
| SPIFFE (`pkg/spiffe`, `pkg/idp/svid.go`, `pkg/api/spiffe_handlers.go`) | workload registrations; the proxy trust, read once | register, issue an SVID to a certificate, publish the trust bundle | an SVID only to a holder of the registered certificate's key, within the registered scopes and audiences, and not for long after the registration is gone |
| Upstream claims (`pkg/idp/claims.go`) | none of its own; provider records, and accounts at the upstreams | merge presets, fetch the profile and the addresses, make claims | one subject for each user of an upstream, and another one for every other user of it; an address in the claims is proven |
| Facade and tenants (`authpole.go`) | configuration | resolve the tenant of a request, rewrite it | one tenant, whichever way it is named; behind a hostname, the hostname's |
| Server (`pkg/api/server.go`, `cmd/server/main.go`) | routing table; seed data | CORS, start-up seeding | seeding is idempotent |

How they interact: an HTTP handler parses the request and calls the engine; the
engine reads and writes storage and the shared cache (one `MemoryCache` for engine,
validator and SVID handler, `NewServer`); administrative writes go to storage and
then invalidate the cache of *their own* node only. What is hard: handlers of
several nodes interleave between any two storage calls; a storage call can fail, or
take effect and be reported failed; a node can stop between two calls; cached values
are used while storage moves on; records age, and nothing removes the expired ones.
`PROJECT.json` lists each of these hazards at its line.

## Modules

| Module | Role |
|---|---|
| `CredentialChain` | abstract specification: a login is a chain of one-time records with one usable end. Its safety theorem is in the module |
| `GrantFlow` | the authorization engine on several nodes |
| `GrantFlow_proofs` | type invariant, refinement of `CredentialChain` with the safety it brings, and an invariant of what the records of a login carry and where spent or expired ones turn up: eight theorems |
| `SigningKeys`, `SigningKeys_proofs` | the keys of one tenant: creation, caches, selection, publication, validation; its inductive invariant and five theorems |
| `AdminRecords`, `AdminRecords_proofs` | administration records and their versions: editors, the handlers of all collections, start-up seeding; its inductive invariant and three theorems |
| `TokenChecks`, `TokenChecks_proofs` | tokens, the clocks they are minted and verified by, and all ways to have one accepted; its invariant and five theorems |
| `WorkloadSVID`, `WorkloadSVID_proofs` | registrations, certificates, proxies and both ways to an SVID; its invariant and four theorems |
| `TenantRouting`, `TenantRouting_proofs` | which tenant each endpoint serves a client for, in every deployment; its invariant and three theorems |
| `UpstreamClaims`, `UpstreamClaims_proofs` | provider records, presets, profiles and the claims made of them; its inductive invariant and three theorems |
| `MCGrantFlow`, `MCSigningKeys`, `MCAdminRecords`, `MCTenantRouting` | instances for TLC; the `.cfg` files give the constants |
| `MCServices` | instances of five of the modules in one specification, see [runs](#runs) |

No two of the seven component modules share a variable. Where one needs another, it
takes all that the other can do: a grant only learns from the keys whether signing
worked, so `GrantFlow` lets signing fail at any time, and the keys never depend on the
records; an edit of an app or a provider may come at any time (`HandleApps`,
`HandleIDPs`), which covers every sequence of writes that `AdminRecords` can make; the
user that `ProcessUpstreamCallback` learns of is any, and `UpstreamClaims` says which;
`TokenChecks` signs with any active key of the tenant, and `SigningKeys` says which and
who knows it; the tenants of `TenantRouting` are the arguments of the others. They are
therefore separate specifications rather than conjuncts of one.

In all of them, an unused definition right before another one of the same arity
(`EntryDroppedIfRead` before `EntryDropped`) is a slip the code could have made; each
property is known to fail when the slip takes the definition's place.

## GrantFlow

State and its counterpart in the code:

| Variable | Code |
|---|---|
| `rec`, `live` | the objects under `AuthStateKey`, `AuthCodeKey`, `RefreshTokenKey`; `rec` remembers a deleted one. A record's `login` and `from` are history variables |
| `issued` | handles that left the server in a redirect or a token response |
| `expired` | records whose TTL ran out while they were unclaimed |
| `apps`, `idps` | `Application` and `IdentityProvider` objects. An app's configuration may name another organization or client than its key does |
| `appCache` | the `app` entries of each node's `MemoryCache` |
| `resident` | the keys of `IDPEngine.states` and `IDPEngine.codes` of each node |
| `req` | the goroutines of requests: where they are, and their locals |
| `claimedBy` | history: the node whose delete removed a record |
| `presented` | history: the handles that were presented at each node |
| `named` | history: the organizations and clients that the registrations under an app's key have named |

A request is a sequence of steps that end at its storage or network calls, as no
other request can tell apart what happens between two of them:

| Handler | Steps |
|---|---|
| `Authorize` | `PrepareAuthorization` (app read, redirect URI, PKCE requirement, choice of provider) → `SelectIDP` (list of the tenant's providers) → `ResolveIDP` → `PutState` |
| `Callback` | `PresentState` (map entry dropped, object read) → `claimSingleUse` (conditional delete, then TTL) → `ProcessUpstreamCallback` → `PutCode` |
| `MockLogin` | `PresentState` → `claimSingleUse` → `PutCode` |
| `Token` | `PresentToken` → `claimSingleUse` (then TTL, client, redirect URI) → `LoadApplication` → `FillCache` on a miss → `MintRefreshToken` |
| `HandleApps`, `HandleIDPs` | `HandleApps` / `HandleIDPs` (the write) → `Invalidate` |

The environment: `Expire`, `CacheExpire` (TTL of a minute, or janitor), `Crash` of a
node, and in each storing or claiming step a branch where the call fails or is not
acknowledged. A failed read of the app before the claim is a refusal that changes nothing.
Reads of providers are different, before the claim and at the callback: when the tenant's
own record cannot be read, `resolveUpstreamIDP` goes on to the default organization's
(`ResolvesTo`), and the list `SelectIDP` chooses from leaves out what it cannot read, so that an
ambiguous choice can look unambiguous.

Abstractions:

- Storage is linearizable per key. A session object is written once, so its version is
  the current one exactly when it still exists; `CanDelete` is `If-Match` of
  `AWSS3Driver.Delete`.
- `SecureToken` values do not repeat; `S256Challenge` is injective.
- The model holds handles as values, so presenting a handle means having been
  sent it (`issued`). A presented handle nobody was ever sent reads nothing and ends
  the request, which is no step.
- Scope, nonce, `state` of the client and the claims are carried unchanged from
  record to record and are left out, except the user and the provider.
- A challenge method other than S256 is refused at `/authorize`, before anything is
  stored, so stored challenges are S256 ones.
- An app is identified by its storage key, which `HandleApps` makes of the request's
  organization and the app's id. The organization and client id of its *body*
  may differ (`NamedApp`), and the tokens are made for those (`GrantOrg`, `GrantClient`): the
  refresh token then belongs to the app of that name, and it is that app that is
  loaded and asked for its secret when the token is used.
- A session's write and its entry in the node's map are one step: the handle leaves the
  server only in the answer, after both, so nobody can present it in between.
- Signing of the tokens happens between loading the app and storing the refresh token;
  its failure has the effect of a failed write (`PutFailed`).

Properties:

| Property | Says |
|---|---|
| `TypeOK` | the type invariant, with the locals of a request |
| `NoForks` | no record has two successors: no state yields two codes, no code or refresh token two token sets |
| `HonouredOnce` (action) | a record is honoured for one claimant and never again: nothing that fails or stops after the claim makes it spendable once more, so a retry of a code that got no answer is refused |
| `OneCredentialPerLogin` | across all nodes at most one record of a login is in storage or in the hands of a request |
| `ImplementsChain` | the records behave as `CredentialChain` says |
| `ExpiredNeverHonoured` | nothing is ever issued for a record that had expired when it was claimed |
| `SpentHereIsGone` | the comment in `fetchAndConsumeAuthState`: a lost race cannot leave a spent state resident. It is about every node at which a state or a code was presented, whether it won, lost to another node, found the record gone or could not read it |
| `ProofOfPossession` | tokens for a code need the verifier of the challenge that was sent to `/authorize`, two records earlier, or without a challenge the secret of a confidential client, also if the client was reconfigured meanwhile |
| `ChainKeepsBinding` | a state and a code are for the app, the redirect URI and the provider of the login (`MockLogin` names itself), and a refresh token is for the user and the provider of its family however often it was rotated. Tenant and client change only to names that a registration of the app has borne; the tenant the token request asks for has no say |
| `RaceHasAWinner` | after the last storage error a record that is being claimed is claimed |
| `ValidGrantYieldsTokens` | a claim with the right proof ends in tokens |

Fairness: `WF_vars(Serve(r))` for each request. A goroutine that can run is
scheduled, and its calls return (the storage client and the upstream client have
timeouts, and a timeout is an error). Nothing is assumed of clients, operators, clocks
or faults. The liveness properties are conditional on `Quiet`: no faults or edits
remain in the bounds.

## SigningKeys

| Variable | Code |
|---|---|
| `stored` | the objects under `organizations/<org>/keys/`: the `AppID` each is for |
| `born` | keys some node generated, whether or not they were stored |
| `starting` | nodes that found no default organization and have yet to seed (`SeedApp` is then the demo app; in every other tenant it is `None`, and no node starts) |
| `unsaved` | history: keys a start seeded that could not be written |
| `keyCache` | the `keys` entries of each node's `MemoryCache`, one for each app and the tenant-wide one; `priv`: its keys come with their private halves |
| `tokens` | history: the grants that were signed, for which app and with which key |
| `req` | requests in flight; `owed` (history) are the keys in use when a key set request began |

| Code | Steps |
|---|---|
| `resolveSigningKey`, then `SignJWT` | `Resolve` → [`CreateKey` → [`ReloadKeys`]] → `FillKeys` → `SignGrant` or `SignOther` (an SVID of the engine) |
| `SPIFFEHandler.IssueSVID` | `HandleSVID` → [`SVIDCreateKey`] → `SVIDFillKeys` → `SignOther` |
| `OIDCHandler.JWKS` | `HandleJWKS` → [`JWKSCreateKey`] → `JWKSPublish` |
| `HandleKeys` (POST) | `HandleKeys` → `InvalidateApp` |
| `TokenValidator.keysFor` | `KeysForValidator` → `VerifyFillKeys` |
| `seedInitialData` | `SeedKey`, before the node serves its first request |

`KeyCacheExpire` stands for the TTL of an hour, the janitor and
`InvalidateOrganization` after any other write in the tenant; it may come at any time.
`CreatedAt` gives each key the time its node's clock showed: keys may be listed
in any order, and two may carry the same time; of two newest ones `ActiveSigningKey` takes the
first listed. `Listed` is what `List` returns: everything, or, when single objects cannot be read,
the rest (`jaydb_storage.go:143`). `Entrance` is a bound: which of the five entry points
are called in an instance.

Abstractions: a check of the cache and the storage read that follows a miss are one
step; another request may then fill the cache in between without being seen, which
has the effect of the same two steps in the other order. A cached key list holds
private halves for all its keys or for none (`SigningKeys` strips all of them, and
`GenerateRSAKeyPair` and storage always have them). All stored keys are active: no
handler deactivates one. The JWKS document in the cache is read by its own handler only
and may have expired at any time, so it is left out; properties about the
document are about one built from storage, and a cached one is as old as its build.

| Property | Says |
|---|---|
| `GrantTokensPublished` | every key that signed a grant is in storage, in a scope its app's and its tenant's key sets include; the one exception is the demo app's key of a start whose write failed, which is cached all the same |
| `GrantSignersHavePrivateKeys` | `resolveSigningKey` never settles for the stripped keys a validator cached |
| `JWKSKeepsOldKeysUntilAFault` | a key set document lists all the keys in use when its request began, until a storage call fails; `JWKSKeepsOldKeys` is the same without that premise, and fails |
| `SigningConverges` | eventually always, all nodes sign grants and engine SVIDs with one key: the newest in storage, the first listed of several |
| `OneSigningKey`, `SVIDSignersHavePrivateKeys`, `ValidatorKnowsItsTokens` | what comments promise and the code does not keep: see [findings](#findings) |

Fairness: `WF` of the request steps as above, and of `KeyCacheExpire`, as every entry
is written with a TTL and a reader checks it against the clock.

## AdminRecords

| Variable | Code |
|---|---|
| `version`, `invites` | the objects under `organizations/`: the ETag, and whether the body has an `initial_user` |
| `copy` | what an editor (console or API client) last got of a record: the version it was shown, and (history) the one it really is |
| `req` | the editor's `POST` or `PUT` between its storage calls |
| `pos` | each node: down, at the i-th write of `seedInitialData`, or serving |
| `kind` | the collection of each record, chosen at the start; all handlers share one storage |
| `log`, `conflicts` | history: the writes that landed with what they replaced, and the `cas_conflict` answers |

| Code | Steps |
|---|---|
| `HandleApps`, `HandleIDPs`, `HandleAdminUsers`, `HandleTeams`, `HandleRoles`, `HandleWorkloads` | `Read`, or `Submit` → `PutRecord` |
| `HandleOrganizations` | `Read`, or `Submit` → [`PutInitialUser`] → `PutRecord` |
| `seedInitialData` | `Start` → `Seed`, once for each record |
| a node that stops | `Stop` |

A version is fresh with every write: bodies carry `updated_at` with the
nanoseconds, so not even equal edits have equal digests. `PutRecord` has the outcomes
of `Put` as the handler sees them, and a retry inside the storage client, which can meet
the version its own first attempt made. Requests that fail authentication, or name no
id for an organization, change nothing and are no steps. An id the server makes up is
one nobody else writes, so it needs no step of its own. The invalidation
after the write is in `GrantFlow`; the key that seeding makes and caches is in `SigningKeys`.
`Blind = TRUE` lets editors write without a version as well, which the handlers accept.

| Property | Says |
|---|---|
| `NoLostUpdate` | an update sent with the version of the copy it was made from replaces that copy and nothing newer: `rec.Version` in reads, the version in answers and the comparison in storage work together |
| `NoSpuriousConflicts` | a conflict is answered only if the record was written since that copy: an editor alone at a record can go on from the answer of the last write |
| `UpdatesRequireVersion` | what the repository's README promises and the code does not keep: see [findings](#findings) |

No liveness is claimed: with optimistic locking one editor can lose forever to others.

## TokenChecks

| Variable | Code |
|---|---|
| `clock` | `time.Now()` of each machine, in whole seconds as in the claims; the machines' clocks differ by at most `MaxSkew` |
| `minted` | history: every token that was signed; `by` and `kind` say where and by which code path |

| Action or operator | Code |
|---|---|
| `issueTokens` | `IDPEngine.issueTokens`: the access token for the app's audiences, or its client id if it has none, and the ID token |
| `IssueSVID`, `IssueHTTPSVID` | the claims of `pkg/idp/svid.go` and of `SPIFFEHandler.IssueSVID`, which differ: the latter's issuer is a literal, and it sets neither `token_use` nor `nbf` |
| `Expired`, `NotYetValid`, `validateClaims`, `VerifyJWTWithOptions` | the same in `pkg/crypto/crypto.go` |
| `Validate`, `VerifyAccessToken`, `AuthenticateAdmin` | `TokenValidator.Validate`; the facade, the middleware and `/api/v1/auth/validate`; the check of `pkg/api/admin_handlers.go:67` |

Verification is a set of operators, evaluated in every state for every host and
expectation: it changes nothing. A token is signed and verified at one reading of the clock.
Tenants may share keys, as a host that brings its own key source may arrange, and
issuers differ between tenants, as the facade requires of its resolver.

| Property | Says |
|---|---|
| `FreshTokensAccepted` | a token that has not expired where it was minted is refused by no host, whose clock may be ahead or behind, and an access token or engine SVID is good for each of its audiences |
| `LateTokensRefused` | what is accepted is late by at most leeway plus skew, by every clock |
| `AcceptedForItsPurpose` | `VerifyAccessToken` takes only this tenant's access tokens and engine SVIDs, for an audience they were made for, even where an ID token has the same audience or another tenant the same key |
| `ConsoleTokensAdmitted` | a console user's token is taken for every tenant, and a tenant's own for the tenant |

## WorkloadSVID

| Variable | Code |
|---|---|
| `trust` | the settings `mtls.go` reads from the environment, once |
| `time` | the server's clock |
| `workloads` | the objects under `spiffe/workloads/` of one tenant |
| `asking` | requests between the checks and the signature, over HTTP and of the engine, with the record as it was read |
| `svids` | history: SVIDs that were delivered, to whom and from which record |
| `inForce` | history: when a certificate was last the registered one of an active record |

| Action | Code |
|---|---|
| `StoreWorkload` | `HandleWorkloads`: fingerprint and SPIFFE ID are filled in where the body has none. Its versions are in `AdminRecords` |
| `Ask` | `SPIFFEHandler.IssueSVID` to the end of its checks: `VerifiedClientCert` with `trustsPeer`, the record, `ValidateWorkloadCert` |
| `AskEngine` | `IDPEngine.IssueSVID` to the end of its checks, for a fingerprint that the embedding host verified by a handshake of its own, with the audience (`resolveSVIDAudience`) |
| `SignSVID` | the rest of both, after the look-up of a signing key, which may list, write and list again: `grantScopes` and the token (`IssueJWTSVID`), with a lifetime that counts from then. `Delivered` is the `WriteTimeout` of the standalone server (`cmd/server/main.go:61`), after which an HTTP answer cannot be written; nothing like it limits a host that calls the engine |
| `Pass` | time |

A certificate is public, its private key is not: `Reaches` says which connections a
caller can make, a handshake only with a key it holds, a header with anything. The proxies
replace the header, as the comments of `mtls.go` require of them.

| Property | Says |
|---|---|
| `SVIDOnlyToKeyHolder` | if forwarded certificates are off or taken from the proxies only, an SVID goes to nobody without the registered certificate's key, and over HTTP only where the certificate names the SPIFFE ID |
| `StopIssuingIsEffective` | a registration that is deactivated or bound to another certificate serves only requests that had read it by then; the last SVID the standalone server delivers for the old binding runs out within its lifetime and the time a request may take. For the engine's the second half is not claimed: the code has no limit |
| `SVIDWithinAllowance` | scopes on both paths, audiences on the engine's, stay within the registration |

## TenantRouting

| Variable | Code |
|---|---|
| `deployment`, `requireTenant` | a server alone, or the `Provider` of `authpole.go` with one of its two resolvers |
| `client` | each client's host and the four selectors it sends: two query parameters, two headers |
| `saw`, `jwksURI`, `notFound` | what clients were answered: the tenant each endpoint served, the tenant in the discovery document's `jwks_uri`, a 404 there |
| `jwksCache` | the JWKS document entries: which tenant's document lies under a name |

`Visit` is a request at any of six endpoints through `withResolvedTenant`
(`authpole.go`), `FollowJWKSURI` one for the `jwks_uri` the client was given through
`orgSubHandler`, and `JWKSExpire` the cache entry's TTL. A tenant stands for what its
name determines: issuer, keys, apps. Without a hostname to go by, only clients that say
the same in the query and in the header (or nothing in both) can expect one tenant;
the first property is about those.

| Property | Says |
|---|---|
| `OneTenantPerParty` | discovery, keys, login, validation, bundle and SVIDs show a client one tenant |
| `HostDecides` | behind `TenantFromHost` nothing but the hostname gets a client a tenant |
| `AdvertisedKeysServed` | what the discovery document promises and the code does not keep: see [findings](#findings) |

## UpstreamClaims

| Variable | Code |
|---|---|
| `providers` | the `IdentityProvider` objects, with the fields that decide on the claims |
| `answers`, `proven` | what each account's upstream answers now, and the addresses its user ever proved to it (external) |
| `fetched` | logins between the profile and the claims |
| `claimed` | history: the claims logins ended with |

| Action | Code |
|---|---|
| `FetchProfile` | `fetchUpstreamClaims` to the end of the profile request, with `effectiveProvider` and `presets` |
| `FetchClaims` | the rest: `lookupField`, `stringField`, `boolField`, `fetchPrimaryEmail`, the two refusals |
| `StoreProvider`, `ChangeAccount` | an operator edits a record, a user an account, at any time |

A string is the sequence of its parts between underscores, so that the subject
`provider_id` can be ambiguous as it is in the code. JSON numbers go through
`Float64`, which rounds as Go's decoder does, and then `FormatInt`, which gives
different integers different digits. Of the upstreams, the constants assume what any of
them keeps: an account has one id, in one kind of JSON value (all accounts of an upstream
in the same), and different accounts have different ones (`AnswerAssumption`,
`AccountAssumption`); which addresses are proven to an account only grows.

| Property | Says |
|---|---|
| `OneSubjectPerUser` | among the users of one upstream, over edits of records and accounts: one user has one subject at a provider, and two users have two; through different providers too, unless one provider's id continues the other's after an underscore. Users of two upstreams at which one record was pointed in turn may share a subject, see [observations](#findings) |
| `ClaimedEmailsProven` | an address in the claims was proven by this user, from the profile or from the list fetched later, as long as the record maps the flag of an upstream that has one |

Both are about records that map the upstream's own fields (and ids up to
2<sup>53</sup>): an operator may map any field to the subject, and then there is
nothing to hold.

## Runs

| Run | Bounds | Distinct states | Shows |
|---|---|---|---|
| `grant_race` | 1 node, 2 requests, 4 handles, 1 login, 1 fault | 81,480 | `TypeOK`, `NoForks`, `OneCredentialPerLogin`, `ExpiredNeverHonoured`, `HonouredOnce`, `ImplementsChain`, `RaceHasAWinner`, `ValidGrantYieldsTokens` |
| `grant_binding` | 1 node, 1 request, 4 handles, 1 login, 1 edit, 1 fault, 2 tenants, 2 clients, 2 providers, 2 users, 4 app configurations, one of which names another tenant | 944,412 | `ProofOfPossession`, `ChainKeepsBinding` |
| `keys_safe` | 1 node, 2 requests, 1 app (seeded or not), 2 keys, 1 rotation, 1 fault | 1,033,410 | `TypeOK`, `GrantTokensPublished`, `GrantSignersHavePrivateKeys`, `JWKSKeepsOldKeysUntilAFault` |
| `keys_converge` | 2 nodes, 2 requests, 1 app, 2 keys of the same instant, 1 rotation; only grants and rotations are called | 789,722 | `SigningConverges` |
| `admin_safe` | 2 nodes, 2 editors, 2 records (6 choices of collection), 2 seeded, 3 writes, 1 fault | 1,425,080 | `TypeOK`, `NoLostUpdate`, `NoSpuriousConflicts` |
| `services` | five parts, see below | 515,210 | `SpentHereIsGone` and the passing properties of the four modules above |
| `admin_invite` | 1 node, 1 editor, 3 records, 6 writes | to the violation | the fifth finding |
| `keys_first_use`, `keys_svid`, `keys_list_fails`, `keys_validator` | as their first lines say | to the violation | the first four findings |
| `tenant_keys` | 1 client, 2 requests | to the violation | the sixth finding |

`services` runs five instances in one specification. They share no variable, so
interleaving them would add nothing: a behaviour picks a part and is a behaviour of that
part alone. The parts are:

- grants: the race of `grant_race` across 2 nodes, for the maps that each node has: 2
  handles, as only states and codes are kept there, and 2 faults;
- tokens: 2 machines with clocks up to one second apart, leeway 1, lifetimes 2, times up
  to 5; 2 tenants that share one of their keys, an app with audiences and one without;
- tenants: 2 clients, 3 requests, 5 hostname labels, 3 deployments; hosts of a tenant, of a
  reserved label and of two labels; clients that agree with the host, contradict it,
  or contradict themselves;
- workloads: 1 registration with 4 bodies, 2 certificates (one runs out on the way), a
  process with both keys and one with none, 3 proxy settings, lifetime and time limit 1,
  times up to 3;
- claims: an upstream with numeric ids around the float64 limit (scaled down to 8) and a
  tenant's own whose ids may hold an underscore; 4 accounts, 3 provider ids, 3 records,
  3 edits, 2 claims.

Why the bounds are enough. Two requests suffice for every race here, as a race is
between two claimants of one record or two creators of one key; a third can only
lose to one of them. Four handles hold a state, a code and two generations of refresh
tokens, so that a rotation races with its own repetition; one login suffices as records of different logins never meet (a
handle is chosen by one writer), and the theorems cover any number. One fault puts an
error, an unacknowledged call or a crash at every point of every interleaving. Two requests
that look at one app can leave a cache entry older than the edit after which it was filled; in `grant_binding`,
with its one request and many inputs, that cannot happen, and the theorem covers it.
The race across nodes needs no shared variable of two nodes but `live`, so the
single-node run already has all the interleavings of the claims; the two nodes of
`services` are for the maps, which are per node. Two keys allow an old and a new one: in `keys_safe` the newer is
listed first and either may be created first, in `keys_converge` they carry the same instant, so that two
nodes can come to differ only by a tie broken differently or an entry that never leaves.
There the other entry points are left out, to have room for the second node; what they put
into the caches runs out as what grants put there does. Three writes are a creation, an edit and the
edit from a copy that the second made stale, or two seedings around an edit. A
property of tokens is about one minting and one reading of each clock, one of SVIDs about
one SVID and the registrations around it, one of claims about two logins and the edits
between them; a clock that passes lifetime, leeway and skew has passed every boundary.

`InOrder` (an action constraint) lets handles be taken in numerical order. As a
fresh handle is any unused one, the behaviours it leaves out are renamings of those
that remain, and the lowest unused handle is always available, so no step owed under
fairness is blocked by it. `SYMMETRY` (of nodes, requests, users, editors) is used in runs
without temporal properties only. Deadlock is not
checked: when the bounds are used up and all requests are answered, the system
rests.

## Findings

1. **Two keys on first use** (`keys_first_use`). The comment at
   `pkg/idp/idp_engine.go:893` says that creation is a create-only write whose loser
   adopts the winner's key. The write is under an id derived from the new key itself, so
   two creations never conflict and two nodes sign with two keys. The damage is bounded:
   both keys are published (`GrantTokensPublished`), and signing settles on
   one of them, on all nodes, when the entries expire (`SigningConverges`).
2. **SVIDs signed from stripped keys** (`keys_svid`). After a tenant-wide validation
   the shared cache holds public halves under the key from which
   `SPIFFEHandler.IssueSVID` takes `keys[0]` (`pkg/api/spiffe_handlers.go:145`). Signing
   fails until the entry expires. The engine's own path asks `ActiveSigningKey`,
   which skips such keys (`GrantSignersHavePrivateKeys`).
3. **A failed List publishes a lone fresh key** (`keys_list_fails`).
   `pkg/api/oidc_handlers.go:116` ignores the error, line 127 generates a key, and the
   document omits the keys of tokens in flight, which `pkg/models/models.go:242` says
   stay published.
4. **The validator does not learn of new keys** (`keys_validator`).
   `pkg/auth/jwt.go:112` uses a cached list as it is for an hour. `VerifyAccessToken`
   always asks for the tenant-wide entry, so the key made when a second app is first
   used is unknown to it, on the node that signed as well. The token is refused with
   `ErrKeyNotFound`, of which the comment at line 51 says that it means a bad token.

5. **Editing an organization rewrites its initial user** (`admin_invite`).
   `HandleOrganizations` writes the user with no expected version
   (`pkg/api/admin_handlers.go:340`) whenever the body names one, and stores the body with it
   (line 343, `models.go:79`). A read returns it, so an update made from a read, with
   the right version of the organization, puts the user back as at creation and active
   (line 331), over later edits of the user. `README.md:175` says that all updates require the
   current version. The same holds of any `PUT` without a version, which the handlers take
   as unconditional (line 311). The console, which never sends back what it read of the initial user, is
   not affected.

6. **The advertised key set is not routed** (`tenant_keys`). The discovery document
   of every tenant names `/organizations/<tenant>/.well-known/jwks.json`
   (`pkg/api/oidc_handlers.go:65`), and the comment at line 89 says that the JWKS handler
   serves it. `orgSubHandler` (`pkg/api/server.go:59`) compares the last 16 bytes of the
   path with a suffix of 21 (and line 63 the last 25 with one of 30), so every such path is
   answered 404. `/.well-known/jwks.json` with the tenant in the query or a header works.

Smaller observations that no run states: a login can begin with the tenant's own provider
record and end with the default organization's of the same id, when the own one is disabled meanwhile or
just cannot be read (`pkg/idp/idp_engine.go:1065`); an app whose body names another
organization than the one it is stored in has its tokens signed with that one's key and issuer and
its refresh tokens checked against that one's app (`pkg/api/admin_handlers.go:433`), `ChainKeepsBinding`
names it as its exception; an SVID of the engine may be signed any time after its registration was
read, as the look-up of the key (`pkg/idp/svid.go:127`) has no limit in an embedding host; two first starts both seed, and the second
overwrites edits made since the first (`cmd/server/main.go:107`); a start whose write of the
seeded key fails caches the key all the same (line 204), so that for up to an hour the node signs the demo app's
grants with a key no key set lists (`GrantTokensPublished` names it as its exception); a start that stops half-way is not
completed by the next one; a refused creation of an organization leaves its initial user behind; an SVID may be signed with a key whose write
failed (`pkg/api/spiffe_handlers.go:139`); entries of abandoned logins stay in the
engine's maps for good; expired records stay in storage; `FamilyID` is written and
never read; a registration read back, given a new `client_cert_pem` and stored again keeps
the old fingerprint, as one is only computed where the body brings none
(`pkg/api/spiffe_handlers.go:287`); the comment at `pkg/idp/claims.go:312` says that
two providers cannot collide on a subject, and the providers `a` and `a_b` can, with the
upstream ids `b_c` and `c` (`UpstreamSubject` keeps them apart); a provider record that is
replaced by one for another upstream goes on under the same id, so that user 8 of the old upstream and user 8 of
the new one have the same subject, and the same tuple with the provider as well; ids beyond
2<sup>53</sup> are rounded on their way through `float64`; `pkg/models/models.go:9` says that every
issued token is stamped with its use, and the SVIDs of the HTTP handler are not, nor do
they name the tenant's resolved issuer, so `VerifyAccessToken` refuses them.

## Proofs

All are checked by `tlapm` from nothing; the constants have only the assumptions named in
the modules, stated at their declarations: absent values are not values, inputs have
their types, a non-empty set of keys has a newest (true of every finite one), issuers of
different tenants differ, and clocks differ by no more than the leeway.

- `CredentialChain!ChainSafety`: a chain has one usable end and no forks. `OneEnd` is
  not inductive alone: that the replaced handle leaves a chain with *no* other end
  needs that a usable end has no successor yet and that an unused handle is
  nobody's login. `Inv` adds these, and that nothing is both live and held.
- `GrantFlow_proofs!TypeCorrect`: one lemma for each handler step. The types of a
  request's locals depend on its program counter, and the strengthening says
  what each counter may rely on (a handle that has a record, an app's configuration).
- `GrantFlow_proofs!GrantFlowImplementsChain`: each step of `GrantFlow` is `Begin`,
  `Take`, `Replace`, `Lose` or a stutter of the chain, where what is held is the set
  of handles of requests past their claim. The key lemma is that two requests
  past their claim have different handles and that those are not in storage.
- `GrantFlow_proofs!NoForksTheorem` and `OneCredentialTheorem` then follow from `ChainSafety`'s
  invariant under the mapping: they hold for any number of nodes, requests and faults.
- `GrantFlow_proofs`: `ProofOfPossessionTheorem`, `ChainKeepsBindingTheorem`,
  `ExpiredNeverHonouredTheorem`, `SpentHereIsGoneTheorem` and `HonouredOnceTheorem` from one invariant,
  `BindInv`, on top of the types and of `Registered`: every registration in storage or in a cache is for a
  name its key has borne. `BindInv` says that a record agrees with its login and with
  the record it was exchanged for, and that the latter is neither in storage nor expired
  (`RootedAt`), which is what keeps a later expiry from making an earlier exchange look wrong;
  and of a request (`Fine`) that past its claim its record is spent in the same sense,
  that a handle presented at a node is not in its map and cannot come back, being one that has a
  record (`Maps`), that the app it loaded is one registered under the record's, and that it mints only after
  `ClientAuthenticated`. `PutBinds` is the one lemma about session writes.
  `HonouredOnce` is a property of steps: a claim is honoured only where the conditional
  delete found the record in storage, and by the invariant (`Maps`) what was claimed before
  is not there.
- `SigningKeys_proofs!GrantTokensPublishedTheorem`, `GrantSignersTheorem`,
  `KeysTypeCorrect` and `JWKSKeepsOldKeysTheorem`: one inductive invariant `IInv`. That a *signed* key is published
  needs that the keys a request carries are in storage in its scope (or seeded for it in
  vain: `Known`), which needs the same of
  every cache entry of an app with private halves, whoever filled it; tenant-wide
  entries are excepted, as the SVID handler may cache a key whose write failed.
  `JWKSKeepsOldKeysUntilAFault` adds `KeySetsComplete`: while no storage call has failed, a request that
  found no keys began when none was in use, because keys in use are in storage (`AllSaved`: no seeding
  has failed either). The theorem
  needs that premise; `keys_list_fails` shows what happens without it.
- `SigningKeys_proofs!SVIDSignersTheorem` delimits the second finding: in every behaviour in
  which no validator reads the tenant's keys as a whole, what is cached for the tenant has
  its private halves (`TenantCached`, `TenantHeld`), so the SVID handler can always sign.
  `keys_svid` shows the behaviours it excludes.
- `AdminRecords_proofs!AdminTypeCorrect`, `NoLostUpdateTheorem`,
  `NoSpuriousConflictsTheorem`: one inductive invariant. The properties speak of writes of the
  past; what makes them inductive is that every copy and every request in flight
  shows the version it really has, not newer than storage (`CopiesTrue`,
  `RequestsTrue`), and that the stored version is one the log knows, the newest of all being
  `last` (`Logged`). `PutKeepsStorage` is the one lemma about writes; editors, initial
  users and seeding nodes all go through it.

- `TokenChecks_proofs`: `TokenInv` says how each code path makes its tokens (`WellMade`)
  and that none is from the future by more than the skew. `FreshTokensAcceptedTheorem` and
  `LateTokensRefusedTheorem` are then arithmetic on three clocks; the former is where
  `MaxSkew <= DefaultLeeway` is needed. `AcceptedForItsPurposeTheorem` needs the
  resolver to be injective, and nothing of the keys.
- `WorkloadSVID_proofs`: `WorkloadInv` relates each request to the registration it was
  checked against (`RequestsChecked`) and to when that was in force, and each binding's
  date to the clock (`BindingsDated`). `StopIssuingIsEffectiveTheorem` has from it that a request was
  checked while its binding was in force, and adds the two limits of the HTTP path up: the
  request is at most `WriteTimeout` old when it signs, the SVID lives `TTL`.
- `UpstreamClaims_proofs`: `IInv` says that a login in progress holds a profile its upstream
  once gave of the account (`InProgress`), whose proven addresses are still proven, as that set
  only grows; that every claim was made of such a profile (`Grounded`); and that its
  address was proven when it was made and is still (`Proven`).
  `OneSubjectPerUserTheorem` then is about values, of one upstream: two subjects that are equal split at the same place
  unless one provider's id continues the other's (`EqualConcat`), and what
  `lookupField` and `stringField` make of an id tells ids apart as long as a float64 holds them
  (`FieldTextInjective`, from `Float64Range` and `FormatInt`). That the primary entry of
  the list is the one `fetchPrimaryEmail` returns needs the least of some indices (`LeastIndex`).
- `TenantRouting_proofs`: one value, the tenant a client's requests settle on
  (`Settled`), and the invariant that every answer and every cached document of that
  tenant is of it. That `QueryOrg` and `HeaderOrg` agree after `withResolvedTenant`
  is the lemma on which both theorems rest.

Only model-checked: the liveness properties `RaceHasAWinner`, `ValidGrantYieldsTokens` and
`SigningConverges`, as fairness and `ENABLED` are beyond this prover. Every invariant and
action property of the passing runs is a theorem. `RoutingTypeOK` is proved and in no run:
in `services` the properties of a part are those that say something about the code.

## Not modelled

- HTTP parsing, CORS headers, the admin console, deployment, logging: no protocol state.
- Cryptography: signing and verification are taken to work; randomness to be fresh.
- Names, groups and roles in claims, scopes and nonces of grants: carried along unchanged.
- Tokens that this server did not make: without a `kid`, with another algorithm, of other
  issuers. Every one here names its key, and the checks of the rest cannot fail.
- The static console secret and the listing of a user's organizations
  (`HandleUserOrganizations`): neither changes anything.
- `New` and `NewServer` only wire the parts; that they share one cache is in `SigningKeys`.
- The per-app JWKS entry of the cache, and the entries that seeding leaves in it for the two apps
  (the one for the key is in `SigningKeys`).
- `List` pagination and the S3 wire protocol: the driver is modelled by its contract.
- The sharding helper: nothing calls it.

## Plan

Done, in the order of importance: the grants (the system's purpose), the keys that
make their tokens verifiable, the records both are configured with, then what is made and
checked of tokens, workloads, tenants and upstream identities. What remains would
sharpen the models rather than add parts:

1. Cache staleness with time: `GrantFlow` lets an entry expire at any moment, so it
   cannot say for how long a replaced registration is honoured on the other nodes: a minute
   (`loadApplication`) and, as the cache is filled after the read (`FillCache`), the length of a
   request more; an hour for the entries that seeding leaves (`cmd/server/main.go:139`).
   A module on top of `AdminRecords`, with clocks and the entries' dates, would state it.
2. The cached JWKS document in `SigningKeys`, whose minute adds to the age of what
   `JWKSKeepsOldKeys` says of a document built from storage.
