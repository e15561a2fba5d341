--------------------------- MODULE TenantRouting ---------------------------
(***************************************************************************)
(* Which tenant a request is for.  A server reads it from the query or     *)
(* from a header, endpoint by endpoint; an embedding host wraps the server *)
(* in a resolver that decides it from the hostname (or the query) and      *)
(* rewrites both.  Clients discover a tenant, fetch its keys, log in and   *)
(* have tokens validated, in any order.                                    *)
(*                                                                         *)
(* A tenant stands for all that is derived from its name alone: its issuer *)
(* (IssuerFor; SigningKeys and TokenChecks say more), its keys, its apps.  *)
(* A hostname is the sequence of its labels.  /oauth/v2/token also reads   *)
(* an organization and hands it on, but no grant uses it: a token is for   *)
(* the tenant of its /authorize request.                                   *)
(*                                                                         *)
(* A definition that nothing uses and that stands right before another of  *)
(* the same arity is a slip the code could have made there; the properties *)
(* are tested against it.                                                  *)
(***************************************************************************)
EXTENDS Naturals, Sequences

CONSTANTS
  Label,          \* labels of hostnames, tenant names among them
  DefaultOrgID,   \* the tenant of a request that names none, "default"
  BaseDomain,     \* the domain whose subdomains are tenants, by labels
  ReservedLabel,  \* labels under it that are not tenants
  Party,          \* clients
  Clients,        \* what a client may be: [host, sel], see Selection
  MaxRequests,    \* bound: requests in a behaviour
  NoTenant        \* the empty name

ASSUME LabelAssumption ==
  /\ DefaultOrgID \in Label /\ ReservedLabel \subseteq Label
  /\ NoTenant \notin Label
  /\ BaseDomain \in Seq(Label) \ {<<>>} /\ MaxRequests \in Nat

Named == Label \cup {NoTenant}

(* What a client sends along with each request of its own: the parameters  *)
(* organization and tenant, the headers X-Organization-ID and X-Tenant-ID. *)
Selection == [organization : Named, tenant : Named, orgHeader : Named, tenantHeader : Named]

NoSelection == [organization |-> NoTenant, tenant |-> NoTenant,
                orgHeader |-> NoTenant, tenantHeader |-> NoTenant]

ASSUME ClientAssumption == Clients \subseteq [host : Seq(Label), sel : Selection]

(* How the server is deployed: alone, or behind a Provider with one of its *)
(* two resolvers, which may refuse requests for no tenant.                 *)
Deployment == {"server", "query", "host"}

Endpoint == {"discovery", "jwks", "bundle", "authorize", "validate", "svid"}

VARIABLES
  deployment,     \* the deployment, fixed
  requireTenant,  \* Config.RequireTenant, fixed
  client,         \* party -> who it is and what it sends, fixed
  saw,            \* party -> endpoint -> the tenant of the last answer
  jwksURI,        \* party -> the tenant in the jwks_uri it was given
  notFound,       \* parties whose jwks_uri was answered 404
  jwksCache,      \* tenant -> the tenant whose key set document is cached
  requests        \* requests so far

routingVars ==
  <<deployment, requireTenant, client, saw, jwksURI, notFound, jwksCache, requests>>
fixedVars == <<deployment, requireTenant, client>>

RoutingTypeOK ==
  /\ deployment \in Deployment
  /\ requireTenant \in BOOLEAN /\ (requireTenant => deployment # "server")
  /\ client \in [Party -> Clients]
  /\ saw \in [Party -> [Endpoint -> Named]]
  /\ jwksURI \in [Party -> Named]
  /\ notFound \subseteq Party
  /\ jwksCache \in [Label -> Named]
  /\ requests \in 0..MaxRequests

-----------------------------------------------------------------------------
(* Resolvers                                                               *)

First(a, b) == IF a # NoTenant THEN a ELSE b

TenantFromQuery(r) == First(r.sel.organization, r.sel.tenant)

(* One label under the base domain, and not a reserved one.                *)
TenantFromHost(r) ==
  IF \E l \in Label \ ReservedLabel : r.host = <<l>> \o BaseDomain
  THEN Head(r.host) ELSE NoTenant

TenantFor(r) == IF deployment = "host" THEN TenantFromHost(r) ELSE TenantFromQuery(r)

Refused(r) == requireTenant /\ TenantFor(r) = NoTenant

(* Only one of the four survives the wrapper, in both of its places.       *)
QueryPinned(r) ==
  [r EXCEPT !.sel.organization = TenantFor(r), !.sel.tenant = NoTenant]

Pinned(r) ==
  [r EXCEPT !.sel = [organization |-> TenantFor(r), tenant |-> NoTenant,
                     orgHeader    |-> TenantFor(r), tenantHeader |-> NoTenant]]

withResolvedTenant(r) == IF deployment = "server" THEN r ELSE Pinned(r)

-----------------------------------------------------------------------------
(* Handlers                                                                *)

QueryOrg(r)  == First(First(r.sel.organization, r.sel.tenant), DefaultOrgID)
HeaderOrg(r) == First(First(r.sel.orgHeader, r.sel.tenantHeader), DefaultOrgID)

OrgOf(ep, r) == IF ep \in {"validate", "svid"} THEN HeaderOrg(r) ELSE QueryOrg(r)

Answer(p, ep, o) == saw' = [saw EXCEPT ![p][ep] = o]

(* A document cached under the tenant's name is served as it is.           *)
JWKS(p, r) ==
  LET o == QueryOrg(r)
      served == First(jwksCache[o], o)
  IN /\ jwksCache' = [jwksCache EXCEPT ![o] = served]
     /\ Answer(p, "jwks", served)

(* jwks_uri is on the host of the request and has no query:                *)
(* /organizations/<tenant>/.well-known/jwks.json                           *)
WellKnownConfig(p, r) ==
  /\ jwksURI' = [jwksURI EXCEPT ![p] = QueryOrg(r)]
  /\ Answer(p, "discovery", QueryOrg(r))

(* orgSubHandler compares the last 16 bytes of the path with               *)
(* ".well-known/jwks.json", which has 21.  It has no other way to the      *)
(* handler, and does not tell it the tenant in the path.                   *)
RoutesByWholeSuffix(compared, suffix) == TRUE

RoutesToJWKS(compared, suffix) == compared = suffix

orgSubHandler(p, r) ==
  IF RoutesToJWKS(16, 21)
  THEN JWKS(p, r) /\ UNCHANGED notFound
  ELSE notFound' = notFound \cup {p} /\ UNCHANGED <<saw, jwksCache>>

-----------------------------------------------------------------------------
(* Clients                                                                 *)

(* A client that names one tenant, or none, says so in the query and in    *)
(* the header of all of its requests.                                      *)
Consistent(c) ==
  First(c.sel.organization, c.sel.tenant) = First(c.sel.orgHeader, c.sel.tenantHeader)

(* Without a hostname to go by, only those can expect one tenant.          *)
RoutingInit ==
  /\ deployment \in Deployment
  /\ requireTenant \in BOOLEAN /\ (requireTenant => deployment # "server")
  /\ client \in [Party -> {c \in Clients : deployment = "host" \/ Consistent(c)}]
  /\ saw = [p \in Party |-> [ep \in Endpoint |-> NoTenant]]
  /\ jwksURI = [p \in Party |-> NoTenant]
  /\ notFound = {}
  /\ jwksCache = [o \in Label |-> NoTenant]
  /\ requests = 0

Admitted(r) == /\ requests < MaxRequests
               /\ requests' = requests + 1
               /\ ~Refused(r)
               /\ UNCHANGED fixedVars

Visit(p, ep) ==
  LET r == withResolvedTenant(client[p])
  IN /\ Admitted(client[p])
     /\ UNCHANGED notFound
     /\ \/ ep = "discovery" /\ WellKnownConfig(p, r) /\ UNCHANGED jwksCache
        \/ ep = "jwks" /\ JWKS(p, r) /\ UNCHANGED jwksURI
        \/ /\ ep \notin {"discovery", "jwks"}
           /\ Answer(p, ep, OrgOf(ep, r))
           /\ UNCHANGED <<jwksURI, jwksCache>>

(* Libraries that follow the discovery document send no tenant.            *)
FollowJWKSURI(p) ==
  LET asked == [client[p] EXCEPT !.sel = NoSelection]
  IN /\ jwksURI[p] # NoTenant
     /\ Admitted(asked)
     /\ orgSubHandler(p, withResolvedTenant(asked))
     /\ UNCHANGED jwksURI

JWKSExpire(o) == /\ jwksCache[o] # NoTenant
                 /\ jwksCache' = [jwksCache EXCEPT ![o] = NoTenant]
                 /\ UNCHANGED <<fixedVars, saw, jwksURI, notFound, requests>>

RoutingNext == \/ \E p \in Party : \/ \E ep \in Endpoint : Visit(p, ep)
                                   \/ FollowJWKSURI(p)
               \/ \E o \in Label : JWKSExpire(o)

RoutingSpec == RoutingInit /\ [][RoutingNext]_routingVars

-----------------------------------------------------------------------------
(* Properties                                                              *)

Shown(p) == {saw[p][ep] : ep \in Endpoint} \ {NoTenant}

(* A client meets one tenant: the issuer its discovery document names, the *)
(* keys it is served, the tenant it logs in to, the one its tokens are     *)
(* validated for and the one whose bundle and SVIDs it gets are the same,  *)
(* on a bare server as behind either resolver, whatever others asked for.  *)
OneTenantPerParty == \A p \in Party : \A o1, o2 \in Shown(p) : o1 = o2

(* TestCallerCannotChooseTenant, for every endpoint: behind TenantFromHost *)
(* the hostname alone decides.  Nothing a client sends along gets it       *)
(* another tenant, and at a host that is no tenant's it meets the default  *)
(* one or, with RequireTenant, none.                                       *)
HostDecides ==
  deployment = "host" =>
    \A p \in Party :
      LET own == TenantFromHost(client[p])
      IN Shown(p) \subseteq IF own # NoTenant THEN {own}
                            ELSE IF requireTenant THEN {} ELSE {DefaultOrgID}

(* The comment of the JWKS handler ("handles ... /organizations/           *)
(* {organization}/.well-known/jwks.json") and the discovery document       *)
(* promise that a jwks_uri can be fetched.                                 *)
AdvertisedKeysServed == notFound = {}
=============================================================================
