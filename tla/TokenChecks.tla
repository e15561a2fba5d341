---------------------------- MODULE TokenChecks ----------------------------
(***************************************************************************)
(* Which tokens a verifier accepts, and when: tokens minted by hosts of    *)
(* the authorization server, each by its own clock, and verified by hosts  *)
(* with clocks of their own.                                               *)
(*                                                                         *)
(* Clocks are read in whole seconds, as every claim is.  A token is        *)
(* minted, and verified, at one reading of the clock.  Only tokens of      *)
(* this server exist: all name their signing key in the header, carry the  *)
(* algorithm RS256 and have a subject, so the checks of those cannot fail. *)
(* Which of its keys a tenant signs with, and which keys a verifier has    *)
(* cached, is the subject of SigningKeys; here verifiers know them all.    *)
(*                                                                         *)
(* A definition that nothing uses and that stands right before another of  *)
(* the same arity is a slip the code could have made there; the properties *)
(* are tested against it.                                                  *)
(***************************************************************************)
EXTENDS Integers, FiniteSets

CONSTANTS
  Host,           \* machines that mint or verify tokens, with a clock each
  Tenant,         \* organizations
  DefaultTenant,  \* "default", the one the admin console logs in at
  Application,    \* registered apps: [org, client, audiences]
  Resource,       \* what an audience can name: APIs, clients
  TrustDomain,    \* tenant -> the audience of an SVID that asked for none
  VerifyKey,      \* signing keys
  KeysOf,         \* tenant -> its active keys; hosts of several tenants may
                  \* back them with a source of their own and share keys
  Issuer,         \* issuer identifiers
  IssuerFor,      \* tenant -> its issuer, as the installed resolver names it
  PathIssuer,     \* tenant -> https://authpole.io/organizations/<tenant>
  AccessTTL, IDTTL, SVIDTTL,  \* lifetimes in seconds
  DefaultLeeway,  \* tolerated clock skew
  MaxSkew,        \* how far apart two clocks ever are
  MaxClock,       \* bound: the last reading of a clock
  MaxTokens,      \* bound: tokens in a behaviour
  NoClaim         \* an absent claim or expectation

ASSUME ClockAssumption ==
  /\ DefaultLeeway \in Nat /\ MaxSkew \in Nat /\ MaxSkew <= DefaultLeeway
  /\ {AccessTTL, IDTTL, SVIDTTL} \subseteq Nat
ASSUME ResolverAssumption ==
  /\ IssuerFor \in [Tenant -> Issuer] /\ PathIssuer \in [Tenant -> Issuer]
  /\ \A o, p \in Tenant : IssuerFor[o] = IssuerFor[p] => o = p
  /\ NoClaim \notin Issuer \cup Resource \cup {"access", "id"}
ASSUME TenantAssumption ==
  /\ DefaultTenant \in Tenant
  /\ KeysOf \in [Tenant -> SUBSET VerifyKey]
  /\ TrustDomain \in [Tenant -> Resource]
  /\ Application \subseteq
       [org : Tenant, client : Resource, audiences : SUBSET Resource]

VARIABLES
  clock,  \* host -> its clock
  minted  \* the tokens issued so far

tokenVars == <<clock, minted>>

-----------------------------------------------------------------------------
(* Tokens                                                                  *)

(* by and kind are history: the host that minted the token, and the code   *)
(* path.  org is the claim organization_id.                                *)
AuthClaims ==
  [key : VerifyKey, iss : Issuer, aud : (SUBSET Resource) \ {{}},
   use : {"access", "id", NoClaim}, org : Tenant,
   iat : Nat, nbf : Nat \cup {NoClaim}, exp : Nat,
   by : Host, kind : {"access", "id", "svid", "httpSVID"}]

WithinSkew(c) == \A g, h \in Host : c[g] <= c[h] + MaxSkew

TokenTypeOK == /\ clock \in [Host -> Nat]
               /\ WithinSkew(clock)
               /\ minted \subseteq AuthClaims

TokenInit == /\ clock \in [Host -> 0..MaxSkew]
             /\ minted = {}

AudiencesAsGiven(app) == app.audiences

TokenAudiences(app) ==
  IF app.audiences # {} THEN app.audiences ELSE {app.client}

-----------------------------------------------------------------------------
(* Minting                                                                 *)

Claims(h, k, o, kind, iss, aud, use, nbf, ttl) ==
  [key |-> k, iss |-> iss, aud |-> aud, use |-> use, org |-> o,
   iat |-> clock[h], nbf |-> nbf, exp |-> clock[h] + ttl,
   by |-> h, kind |-> kind]

Mint(T) == /\ Cardinality(minted \cup T) <= MaxTokens
           /\ minted' = minted \cup T
           /\ UNCHANGED clock

(* The token endpoint: an access token for the app's resource servers and  *)
(* an ID token for its client.                                             *)
issueTokens(h, app) ==
  \E k \in KeysOf[app.org] :
    Mint({Claims(h, k, app.org, "access", IssuerFor[app.org],
                 TokenAudiences(app), "access", clock[h], AccessTTL),
          Claims(h, k, app.org, "id", IssuerFor[app.org],
                 {app.client}, "id", clock[h], IDTTL)})

(* The engine's SVIDs, for an audience the workload may have.              *)
IssueSVID(h, o, a) ==
  \E k \in KeysOf[o] :
    Mint({Claims(h, k, o, "svid", IssuerFor[o], {a}, "access", clock[h], SVIDTTL)})

(* The HTTP handler's SVIDs, for the audience asked for or the tenant's    *)
(* trust domain: the issuer is a literal, use and nbf are left out.        *)
HandlerAudience(o, a) == IF a = NoClaim THEN TrustDomain[o] ELSE a

IssueHTTPSVID(h, o, a) ==
  \E k \in KeysOf[o] :
    Mint({Claims(h, k, o, "httpSVID", PathIssuer[o], {HandlerAudience(o, a)},
                 NoClaim, NoClaim, SVIDTTL)})

(* Clocks drift against each other, within MaxSkew.                        *)
Tick(h) == /\ clock[h] < MaxClock
           /\ clock' = [clock EXCEPT ![h] = @ + 1]
           /\ WithinSkew(clock')
           /\ UNCHANGED minted

TokenNext ==
  \E h \in Host :
    \/ Tick(h)
    \/ \E app \in Application : issueTokens(h, app)
    \/ \E o \in Tenant, a \in Resource : IssueSVID(h, o, a)
    \/ \E o \in Tenant, a \in Resource \cup {NoClaim} : IssueHTTPSVID(h, o, a)

TokenSpec == TokenInit /\ [][TokenNext]_tokenVars

-----------------------------------------------------------------------------
(* Verification                                                            *)

ExpiredOnTheDot(t, now) == now > t.exp
ExpiredLate(t, now)     == now > t.exp + 2 * DefaultLeeway

Expired(t, now) == now - DefaultLeeway > t.exp

NotYetValid(t, now) == t.nbf # NoClaim /\ now + DefaultLeeway < t.nbf

(* An expectation that is left out is not checked.                         *)
Options == [iss : Issuer \cup {NoClaim}, aud : Resource \cup {NoClaim},
            use : {"access", "id", NoClaim}]

NoOptions == [iss |-> NoClaim, aud |-> NoClaim, use |-> NoClaim]

ClaimsOfAnyUse(t, now, opts) ==
  /\ ~Expired(t, now) /\ ~NotYetValid(t, now)
  /\ opts.iss \in {NoClaim, t.iss}
  /\ opts.aud \in {NoClaim} \cup t.aud

validateClaims(t, now, opts) ==
  /\ ~Expired(t, now) /\ ~NotYetValid(t, now)
  /\ opts.iss \in {NoClaim, t.iss}
  /\ opts.aud \in {NoClaim} \cup t.aud
  /\ opts.use \in {NoClaim, t.use}

(* The key named in the header must be among the active ones at hand.      *)
VerifyJWTWithOptions(t, keys, now, opts) ==
  t.key \in keys /\ validateClaims(t, now, opts)

VerifyJWT(t, keys, now) == VerifyJWTWithOptions(t, keys, now, NoOptions)

(* TokenValidator.Validate; without keys it cannot tell.                   *)
Validate(o, t, now, opts) ==
  KeysOf[o] # {} /\ VerifyJWTWithOptions(t, KeysOf[o], now, opts)

(* What a host's request path, the middleware and /api/v1/auth/validate    *)
(* demand of a bearer token; both names are required.                      *)
VerifyAccessToken(o, a, t, now) ==
  /\ o \in Tenant /\ a \in Resource
  /\ Validate(o, t, now, [iss |-> IssuerFor[o], aud |-> a, use |-> "access"])

(* The admin API takes the keys of the tenant it is called for and those   *)
(* of the default organization, and expects nothing else of the token.     *)
KeysOfTenant(o) == KeysOf[o]

AdminKeys(o) == KeysOf[o] \cup KeysOf[DefaultTenant]

AuthenticateAdmin(o, t, now) == VerifyJWT(t, AdminKeys(o), now)

-----------------------------------------------------------------------------
(* Properties                                                              *)

Fresh(t) == clock[t.by] <= t.exp

(* validateClaims tolerates the skew between issuer and verifier in both   *)
(* directions (DefaultLeeway): as long as a token has not expired by the   *)
(* clock that minted it, no verifier, however its clock differs, refuses   *)
(* it; an access token or engine SVID is good for each of its audiences.   *)
FreshTokensAccepted ==
  \A t \in minted, h \in Host : Fresh(t) =>
    /\ VerifyJWT(t, KeysOf[t.org], clock[h])
    /\ t.kind \in {"access", "svid"} =>
         \A a \in t.aud : VerifyAccessToken(t.org, a, t, clock[h])

(* Leeway and skew do not add up to more: whatever validateClaims accepts, *)
(* with any keys, has expired by at most the leeway and the skew on every  *)
(* clock, not only on the verifier's.                                      *)
LateTokensRefused ==
  \A t \in minted, h \in Host :
    VerifyJWT(t, VerifyKey, clock[h]) =>
      \A g \in Host : clock[g] <= t.exp + DefaultLeeway + MaxSkew

(* VerifyAccessToken and the validate endpoint accept for a tenant and an  *)
(* audience only what was minted as an access token or engine SVID by that *)
(* tenant, for an app with that audience.  An ID token is refused although *)
(* an app without audiences gives its access tokens the same audience; so  *)
(* is another tenant's token, although tenants may share keys.             *)
AcceptedForItsPurpose ==
  \A t \in minted, h \in Host, o \in Tenant, a \in Resource :
    VerifyAccessToken(o, a, t, clock[h]) =>
      /\ t.org = o
      /\ \/ t.kind = "svid" /\ t.aud = {a}
         \/ t.kind = "access" /\ \E app \in Application :
                                   app.org = o /\ a \in TokenAudiences(app)

(* AuthenticateAdmin lets a console user work on every tenant: a fresh     *)
(* token of the default organization or of the tenant itself is admitted,  *)
(* whichever host it was minted by.                                        *)
ConsoleTokensAdmitted ==
  \A t \in minted, h \in Host, o \in Tenant :
    Fresh(t) /\ t.org \in {o, DefaultTenant} => AuthenticateAdmin(o, t, clock[h])
=============================================================================
