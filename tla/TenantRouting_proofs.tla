------------------------ MODULE TenantRouting_proofs ------------------------
(***************************************************************************)
(* What holds of TenantRouting for any labels, clients and deployment: a   *)
(* client meets one tenant, and behind TenantFromHost the hostname decides *)
(* which.                                                                  *)
(***************************************************************************)
EXTENDS TenantRouting, TLAPS

-----------------------------------------------------------------------------
(* Resolving                                                               *)

(* The tenant every endpoint settles on for a client, as its request comes *)
(* to the handlers.                                                        *)
Settled(c) == QueryOrg(withResolvedTenant(c))

(* Who the clients are, once a deployment is chosen.                       *)
KnownClients ==
  /\ deployment \in Deployment /\ requireTenant \in BOOLEAN
  /\ client \in [Party -> {c \in Clients : deployment = "host" \/ Consistent(c)}]

LEMMA ClientTypes ==
  ASSUME KnownClients, NEW p \in Party
  PROVE  /\ client[p] \in [host : Seq(Label), sel : Selection]
         /\ client[p] \in Clients
         /\ deployment # "host" => Consistent(client[p])
BY ClientAssumption DEF KnownClients

LEMMA TenantForType ==
  ASSUME NEW c \in [host : Seq(Label), sel : Selection]
  PROVE  TenantFor(c) \in Named
<1>1. TenantFromQuery(c) \in Named
  BY DEF TenantFromQuery, First, Selection, Named
<1>2. TenantFromHost(c) \in Named
  <2>1. CASE \E l \in Label \ ReservedLabel : c.host = <<l>> \o BaseDomain
    <3>1. PICK l \in Label : c.host = <<l>> \o BaseDomain
      BY <2>1
    <3>2. Head(c.host) = l
      BY <3>1, LabelAssumption
    <3> QED
      BY <2>1, <3>2 DEF TenantFromHost, Named
  <2>2. CASE ~\E l \in Label \ ReservedLabel : c.host = <<l>> \o BaseDomain
    BY <2>2 DEF TenantFromHost, Named
  <2> QED
    BY <2>1, <2>2
<1> QED
  BY <1>1, <1>2 DEF TenantFor

(* What the wrapper leaves of a request names one tenant in all places.    *)
LEMMA ResolvedAgrees ==
  ASSUME KnownClients, NEW p \in Party
  PROVE  LET r == withResolvedTenant(client[p])
         IN \A ep \in Endpoint : OrgOf(ep, r) = Settled(client[p])
<1> DEFINE c == client[p]
           r == withResolvedTenant(c)
<1>1. c \in [host : Seq(Label), sel : Selection]
  BY ClientTypes
<1>2. CASE deployment = "server"
  <2>1. r = c /\ Consistent(c)
    BY <1>2, ClientTypes DEF withResolvedTenant
  <2> QED
    BY <2>1 DEF Settled, OrgOf, QueryOrg, HeaderOrg, Consistent
<1>3. CASE deployment # "server"
  <2>1. r.sel = [organization |-> TenantFor(c), tenant |-> NoTenant,
                 orgHeader |-> TenantFor(c), tenantHeader |-> NoTenant]
    BY <1>1, <1>3 DEF withResolvedTenant, Pinned
  <2>2. QueryOrg(r) = HeaderOrg(r)
    BY <2>1 DEF QueryOrg, HeaderOrg
  <2> QED
    BY <2>2 DEF Settled, OrgOf
<1> QED
  BY <1>2, <1>3

LEMMA SettledType ==
  ASSUME KnownClients, NEW p \in Party
  PROVE  Settled(client[p]) \in Label
<1> DEFINE c == client[p]
<1>1. c \in [host : Seq(Label), sel : Selection]
  BY ClientTypes
<1>2. withResolvedTenant(c).sel \in Selection
  <2>1. CASE deployment = "server"
    BY <1>1, <2>1 DEF withResolvedTenant
  <2>2. CASE deployment # "server"
    <3>1. withResolvedTenant(c).sel =
            [organization |-> TenantFor(c), tenant |-> NoTenant,
             orgHeader |-> TenantFor(c), tenantHeader |-> NoTenant]
      BY <1>1, <2>2 DEF withResolvedTenant, Pinned
    <3>2. TenantFor(c) \in Named
      BY <1>1, TenantForType
    <3> QED
      BY <3>1, <3>2 DEF Selection, Named
  <2> QED
    BY <2>1, <2>2
<1> QED
  BY <1>2, LabelAssumption DEF Settled, QueryOrg, First, Selection, Named

-----------------------------------------------------------------------------
(* The inductive invariant: all a client was shown is the tenant settled   *)
(* for it, a cached document is that of the tenant it is cached for, and   *)
(* clients without a tenant have seen nothing where one is required.       *)
RoutingInv ==
  /\ KnownClients
  /\ requireTenant => deployment # "server"
  /\ saw \in [Party -> [Endpoint -> Named]]
  /\ jwksURI \in [Party -> Named]
  /\ notFound \subseteq Party
  /\ jwksCache \in [Label -> Named]
  /\ requests \in 0..MaxRequests
  /\ \A o \in Label : jwksCache[o] \in {o, NoTenant}
  /\ \A p \in Party, ep \in Endpoint :
       saw[p][ep] # NoTenant => saw[p][ep] = Settled(client[p]) /\ ~Refused(client[p])

LEMMA VisitKeepsInv ==
  ASSUME RoutingInv, NEW p \in Party, NEW ep \in Endpoint, Visit(p, ep)
  PROVE  RoutingInv'
<1> DEFINE r == withResolvedTenant(client[p])
           o == Settled(client[p])
<1>1. KnownClients
  BY DEF RoutingInv
<1>2. o \in Label /\ QueryOrg(r) = o /\ \A e \in Endpoint : OrgOf(e, r) = o
  BY <1>1, SettledType, ResolvedAgrees DEF Settled
<1>3. /\ requests < MaxRequests /\ requests' = requests + 1 /\ ~Refused(client[p])
      /\ UNCHANGED fixedVars /\ notFound' = notFound
  BY DEF Visit, Admitted
<1>4. o \in Named /\ o # NoTenant
  BY <1>2, LabelAssumption DEF Named
<1>5. saw' = [saw EXCEPT ![p][ep] = o]
  <2>1. CASE ep = "discovery"
    BY <1>2, <2>1 DEF Visit, WellKnownConfig, Answer
  <2>2. CASE ep = "jwks"
    <3>1. jwksCache[o] \in {o, NoTenant}
      BY <1>2 DEF RoutingInv
    <3>2. First(jwksCache[o], o) = o
      BY <3>1 DEF First
    <3> QED
      BY <1>2, <2>2, <3>2 DEF Visit, JWKS, Answer
  <2>3. CASE ep \notin {"discovery", "jwks"}
    BY <1>2, <2>3 DEF Visit, Answer
  <2> QED
    BY <2>1, <2>2, <2>3
<1>6. jwksURI' \in [Party -> Named]
  BY <1>2, <1>4 DEF Visit, WellKnownConfig, RoutingInv
<1>7. jwksCache' = jwksCache \/ jwksCache' = [jwksCache EXCEPT ![o] = First(jwksCache[o], o)]
  BY <1>2 DEF Visit, JWKS
<1> HIDE DEF o, r
<1>8. /\ jwksCache' \in [Label -> Named]
      /\ \A x \in Label : jwksCache'[x] \in {x, NoTenant}
  <2>1. First(jwksCache[o], o) = o
    BY <1>2 DEF RoutingInv, First
  <2> QED
    BY <1>2, <1>4, <1>7, <2>1 DEF RoutingInv
<1>9. saw' \in [Party -> [Endpoint -> Named]]
  BY <1>4, <1>5 DEF RoutingInv
<1>10. requests' \in 0..MaxRequests
  BY <1>3, LabelAssumption DEF RoutingInv
<1>11. ASSUME NEW x \in Party, NEW e \in Endpoint, saw'[x][e] # NoTenant
       PROVE  saw'[x][e] = Settled(client[x]) /\ ~Refused(client[x])
  <2>1. CASE x = p /\ e = ep
    BY <1>3, <1>5, <2>1 DEF RoutingInv, o
  <2>2. CASE ~(x = p /\ e = ep)
    <3>1. saw'[x][e] = saw[x][e]
      BY <1>5, <2>2 DEF RoutingInv
    <3> QED
      BY <1>11, <3>1 DEF RoutingInv
  <2> QED
    BY <2>1, <2>2
<1>12. /\ client' = client /\ deployment' = deployment /\ requireTenant' = requireTenant
  BY <1>3 DEF fixedVars
<1>13. KnownClients' /\ (requireTenant => deployment # "server")'
  BY <1>12 DEF RoutingInv, KnownClients
<1>14. ASSUME NEW x \in Party
       PROVE  Settled(client[x])' = Settled(client[x]) /\ Refused(client[x])' = Refused(client[x])
  BY <1>12 DEF Settled, QueryOrg, withResolvedTenant, Pinned, TenantFor, Refused
<1> QED
  BY <1>3, <1>6, <1>8, <1>9, <1>10, <1>11, <1>13, <1>14 DEF RoutingInv

(* A step that only answers 404, or drops a cached document.               *)
LEMMA OthersKeepInv ==
  ASSUME RoutingInv, UNCHANGED <<fixedVars, saw, jwksURI>>,
         notFound' \subseteq Party, requests' \in 0..MaxRequests,
         jwksCache' \in [Label -> Named],
         \A o \in Label : jwksCache'[o] \in {o, NoTenant}
  PROVE  RoutingInv'
<1>1. client' = client /\ deployment' = deployment /\ requireTenant' = requireTenant
  BY DEF fixedVars
<1>2. ASSUME NEW x \in Party
      PROVE  Settled(client[x])' = Settled(client[x]) /\ Refused(client[x])' = Refused(client[x])
  BY <1>1 DEF Settled, QueryOrg, withResolvedTenant, Pinned, TenantFor, Refused
<1> QED
  BY <1>1, <1>2 DEF RoutingInv, KnownClients

(* RoutingInv holds in every state, whichever way the server is deployed   *)
(* and whoever the clients are.                                            *)
THEOREM RoutingInvariant == RoutingSpec => []RoutingInv
<1>1. RoutingInit => RoutingInv
  BY LabelAssumption DEF RoutingInit, RoutingInv, KnownClients, Named
<1>2. RoutingInv /\ [RoutingNext]_routingVars => RoutingInv'
  <2> SUFFICES ASSUME RoutingInv, [RoutingNext]_routingVars PROVE RoutingInv'
    OBVIOUS
  <2>1. ASSUME NEW p \in Party, NEW ep \in Endpoint, Visit(p, ep) PROVE RoutingInv'
    BY <2>1, VisitKeepsInv
  <2>2. ASSUME NEW p \in Party, FollowJWKSURI(p) PROVE RoutingInv'
    <3>1. ~RoutesToJWKS(16, 21)
      BY DEF RoutesToJWKS
    <3>2. /\ notFound' = notFound \cup {p} /\ requests' = requests + 1
          /\ requests < MaxRequests
          /\ UNCHANGED <<fixedVars, saw, jwksURI, jwksCache>>
      BY <2>2, <3>1 DEF FollowJWKSURI, orgSubHandler, Admitted
    <3>3. notFound' \subseteq Party /\ requests' \in 0..MaxRequests
      BY <3>2, LabelAssumption DEF RoutingInv
    <3> QED
      BY <3>2, <3>3, OthersKeepInv DEF RoutingInv
  <2>3. ASSUME NEW o \in Label, JWKSExpire(o) PROVE RoutingInv'
    <3>1. /\ jwksCache' = [jwksCache EXCEPT ![o] = NoTenant]
          /\ UNCHANGED <<fixedVars, saw, jwksURI, notFound, requests>>
      BY <2>3 DEF JWKSExpire
    <3>2. /\ jwksCache' \in [Label -> Named]
          /\ \A x \in Label : jwksCache'[x] \in {x, NoTenant}
      BY <3>1 DEF RoutingInv, Named
    <3> QED
      BY <3>1, <3>2, OthersKeepInv DEF RoutingInv
  <2>4. CASE UNCHANGED routingVars
    BY <2>4, OthersKeepInv DEF routingVars, fixedVars, RoutingInv
  <2> QED
    BY <2>1, <2>2, <2>3, <2>4 DEF RoutingNext
<1> QED
  BY <1>1, <1>2, PTL DEF RoutingSpec

(* Deployment, clients, what they saw and the cache keep their types.      *)
THEOREM RoutingTypeCorrect == RoutingSpec => []RoutingTypeOK
<1>1. RoutingInv => RoutingTypeOK
  <2> SUFFICES ASSUME RoutingInv PROVE RoutingTypeOK
    OBVIOUS
  <2>1. client \in [Party -> Clients]
    BY DEF RoutingInv, KnownClients
  <2> QED
    BY <2>1 DEF RoutingInv, KnownClients, RoutingTypeOK
<1> QED
  BY <1>1, RoutingInvariant, PTL

(* A client meets one tenant at all endpoints.                             *)
THEOREM OneTenantPerPartyTheorem == RoutingSpec => []OneTenantPerParty
<1>1. RoutingInv => OneTenantPerParty
  BY DEF RoutingInv, OneTenantPerParty, Shown
<1> QED
  BY <1>1, RoutingInvariant, PTL

(* Behind TenantFromHost it is the tenant of the hostname.                 *)
THEOREM HostDecidesTheorem == RoutingSpec => []HostDecides
<1>1. ASSUME RoutingInv, deployment = "host", NEW p \in Party, NEW o \in Shown(p)
      PROVE  LET own == TenantFromHost(client[p])
             IN o \in IF own # NoTenant THEN {own}
                      ELSE IF requireTenant THEN {} ELSE {DefaultOrgID}
  <2> DEFINE c == client[p]
             own == TenantFromHost(c)
  <2>1. o = Settled(c) /\ ~Refused(c)
    BY <1>1 DEF RoutingInv, Shown
  <2>2. TenantFor(c) = own
    BY <1>1 DEF TenantFor
  <2>3. c \in [host : Seq(Label), sel : Selection]
    BY <1>1, ClientTypes DEF RoutingInv
  <2>4. withResolvedTenant(c).sel =
          [organization |-> own, tenant |-> NoTenant, orgHeader |-> own, tenantHeader |-> NoTenant]
    BY <1>1, <2>2, <2>3 DEF withResolvedTenant, Pinned
  <2>5. Settled(c) = IF own # NoTenant THEN own ELSE DefaultOrgID
    BY <2>4, LabelAssumption DEF Settled, QueryOrg, First
  <2>6. own = NoTenant => ~requireTenant
    BY <2>1, <2>2 DEF Refused
  <2> QED
    BY <2>1, <2>5, <2>6
<1>2. RoutingInv => HostDecides
  BY <1>1 DEF HostDecides
<1> QED
  BY <1>2, RoutingInvariant, PTL
=============================================================================
