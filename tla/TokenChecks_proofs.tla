------------------------- MODULE TokenChecks_proofs -------------------------
(***************************************************************************)
(* What holds of TokenChecks for any hosts, tenants, apps, keys and        *)
(* lifetimes: the type invariant, that tokens are accepted long enough and *)
(* not too long, and that they are accepted for their purpose only.        *)
(***************************************************************************)
EXTENDS TokenChecks, TLAPS

-----------------------------------------------------------------------------
(* The inductive invariant                                                 *)

(* A token as the code path that minted it makes it.                       *)
WellMade(t) ==
  /\ t \in AuthClaims
  /\ t.key \in KeysOf[t.org]
  /\ t.kind \in {"access", "id", "svid"} => t.iss = IssuerFor[t.org] /\ t.nbf = t.iat
  /\ t.kind = "access" => /\ t.use = "access"
                          /\ \E app \in Application : /\ app.org = t.org
                                                      /\ t.aud = TokenAudiences(app)
  /\ t.kind = "id" => t.use = "id"
  /\ t.kind = "svid" => t.use = "access" /\ \E a \in Resource : t.aud = {a}
  /\ t.kind = "httpSVID" => t.use = NoClaim /\ t.nbf = NoClaim

(* No clock is behind the time of issue by more than the skew.             *)
Dated(t) == t.iat <= clock[t.by]

TokenInv == /\ clock \in [Host -> Nat]
            /\ WithinSkew(clock)
            /\ \A t \in minted : WellMade(t) /\ Dated(t)

-----------------------------------------------------------------------------
(* Minting                                                                 *)

LEMMA AccessTokensWellMade ==
  ASSUME clock \in [Host -> Nat], NEW h \in Host, NEW app \in Application,
         NEW k \in KeysOf[app.org]
  PROVE  /\ WellMade(Claims(h, k, app.org, "access", IssuerFor[app.org],
                            TokenAudiences(app), "access", clock[h], AccessTTL))
         /\ WellMade(Claims(h, k, app.org, "id", IssuerFor[app.org],
                            {app.client}, "id", clock[h], IDTTL))
<1>1. /\ app.org \in Tenant /\ app.client \in Resource /\ app.audiences \subseteq Resource
  BY TenantAssumption
<1>2. TokenAudiences(app) \in (SUBSET Resource) \ {{}} /\ {app.client} \in (SUBSET Resource) \ {{}}
  BY <1>1 DEF TokenAudiences
<1>3. k \in VerifyKey /\ IssuerFor[app.org] \in Issuer
  BY <1>1, TenantAssumption, ResolverAssumption
<1>4. clock[h] \in Nat /\ clock[h] + AccessTTL \in Nat /\ clock[h] + IDTTL \in Nat
  BY ClockAssumption
<1> QED
  BY <1>1, <1>2, <1>3, <1>4 DEF WellMade, Claims, AuthClaims

LEMMA SVIDsWellMade ==
  ASSUME clock \in [Host -> Nat], NEW h \in Host, NEW o \in Tenant, NEW k \in KeysOf[o],
         NEW a \in Resource
  PROVE  /\ WellMade(Claims(h, k, o, "svid", IssuerFor[o], {a}, "access", clock[h], SVIDTTL))
         /\ WellMade(Claims(h, k, o, "httpSVID", PathIssuer[o], {a}, NoClaim, NoClaim, SVIDTTL))
<1>1. k \in VerifyKey /\ IssuerFor[o] \in Issuer /\ PathIssuer[o] \in Issuer
  BY TenantAssumption, ResolverAssumption
<1>2. clock[h] \in Nat /\ clock[h] + SVIDTTL \in Nat
  BY ClockAssumption
<1>3. {a} \in (SUBSET Resource) \ {{}}
  OBVIOUS
<1> QED
  BY <1>1, <1>2, <1>3 DEF WellMade, Claims, AuthClaims

LEMMA MintKeepsInv ==
  ASSUME TokenInv, NEW T, Mint(T), \A t \in T : WellMade(t) /\ Dated(t)
  PROVE  TokenInv'
BY DEF TokenInv, Mint, WellMade, Dated, WithinSkew

-----------------------------------------------------------------------------
(* TokenInv is an invariant: what a host mints is well made and dated by   *)
(* its own clock, which only advances.                                     *)
THEOREM TokenInvariant == TokenSpec => []TokenInv
<1>1. TokenInit => TokenInv
  BY ClockAssumption DEF TokenInit, TokenInv, WithinSkew
<1>2. TokenInv /\ [TokenNext]_tokenVars => TokenInv'
  <2> SUFFICES ASSUME TokenInv, [TokenNext]_tokenVars PROVE TokenInv'
    OBVIOUS
  <2>1. ASSUME NEW h \in Host, Tick(h) PROVE TokenInv'
    <3>1. clock' \in [Host -> Nat] /\ \A g \in Host : clock[g] <= clock'[g]
      BY <2>1 DEF TokenInv, Tick
    <3>2. ASSUME NEW t \in minted PROVE WellMade(t)' /\ Dated(t)'
      <4>1. WellMade(t) /\ Dated(t) /\ t.by \in Host /\ t.iat \in Nat
        BY <3>2 DEF TokenInv, WellMade, AuthClaims
      <4>2. clock[t.by] \in Nat /\ clock'[t.by] \in Nat /\ clock[t.by] <= clock'[t.by]
        BY <3>1, <4>1 DEF TokenInv
      <4> QED
        BY <4>1, <4>2 DEF WellMade, Dated
    <3> QED
      BY <2>1, <3>1, <3>2 DEF TokenInv, Tick, WithinSkew
  <2>2. ASSUME NEW h \in Host, NEW app \in Application, issueTokens(h, app) PROVE TokenInv'
    <3>1. PICK k \in KeysOf[app.org] :
            Mint({Claims(h, k, app.org, "access", IssuerFor[app.org],
                         TokenAudiences(app), "access", clock[h], AccessTTL),
                  Claims(h, k, app.org, "id", IssuerFor[app.org],
                         {app.client}, "id", clock[h], IDTTL)})
      BY <2>2 DEF issueTokens
    <3>2. clock \in [Host -> Nat] /\ clock[h] \in Nat
      BY DEF TokenInv
    <3>3. /\ Dated(Claims(h, k, app.org, "access", IssuerFor[app.org],
                         TokenAudiences(app), "access", clock[h], AccessTTL))
          /\ Dated(Claims(h, k, app.org, "id", IssuerFor[app.org],
                         {app.client}, "id", clock[h], IDTTL))
      BY <3>2 DEF Dated, Claims
    <3> QED
      BY <3>1, <3>2, <3>3, AccessTokensWellMade, MintKeepsInv
  <2>3. ASSUME NEW h \in Host, NEW o \in Tenant, NEW a \in Resource, IssueSVID(h, o, a)
        PROVE  TokenInv'
    <3>1. PICK k \in KeysOf[o] :
            Mint({Claims(h, k, o, "svid", IssuerFor[o], {a}, "access", clock[h], SVIDTTL)})
      BY <2>3 DEF IssueSVID
    <3>2. clock \in [Host -> Nat] /\ clock[h] \in Nat
      BY DEF TokenInv
    <3>3. Dated(Claims(h, k, o, "svid", IssuerFor[o], {a}, "access", clock[h], SVIDTTL))
      BY <3>2 DEF Dated, Claims
    <3> QED
      BY <3>1, <3>2, <3>3, SVIDsWellMade, MintKeepsInv
  <2>4. ASSUME NEW h \in Host, NEW o \in Tenant, NEW a \in Resource \cup {NoClaim},
               IssueHTTPSVID(h, o, a)
        PROVE  TokenInv'
    <3>1. PICK k \in KeysOf[o] :
            Mint({Claims(h, k, o, "httpSVID", PathIssuer[o], {HandlerAudience(o, a)},
                         NoClaim, NoClaim, SVIDTTL)})
      BY <2>4 DEF IssueHTTPSVID
    <3>2. clock \in [Host -> Nat] /\ clock[h] \in Nat
      BY DEF TokenInv
    <3>3. Dated(Claims(h, k, o, "httpSVID", PathIssuer[o], {HandlerAudience(o, a)},
                       NoClaim, NoClaim, SVIDTTL))
      BY <3>2 DEF Dated, Claims
    <3>4. HandlerAudience(o, a) \in Resource
      BY TenantAssumption DEF HandlerAudience
    <3> QED
      BY <3>1, <3>2, <3>3, <3>4, SVIDsWellMade, MintKeepsInv
  <2>5. CASE UNCHANGED tokenVars
    BY <2>5 DEF TokenInv, tokenVars, WellMade, Dated, WithinSkew
  <2> QED
    BY <2>1, <2>2, <2>3, <2>4, <2>5 DEF TokenNext
<1> QED
  BY <1>1, <1>2, PTL DEF TokenSpec

(* The clocks and the claims of every token keep their types.              *)
THEOREM TokenTypeCorrect == TokenSpec => []TokenTypeOK
<1>1. TokenInv => TokenTypeOK
  BY DEF TokenInv, TokenTypeOK, WellMade
<1> QED
  BY <1>1, TokenInvariant, PTL

-----------------------------------------------------------------------------
(* Verification                                                            *)

(* The leeway bridges the skew: by the time of issue no verifier finds a   *)
(* token too early, by the time of expiry none finds it too late.          *)
LEMMA LeewayBridgesSkew ==
  ASSUME TokenInv, NEW t \in minted, NEW h \in Host, Fresh(t)
  PROVE  ~Expired(t, clock[h]) /\ ~NotYetValid(t, clock[h])
<1>1. t \in AuthClaims /\ (t.nbf = NoClaim \/ t.nbf = t.iat) /\ t.iat <= clock[t.by]
  BY DEF TokenInv, WellMade, Dated, AuthClaims
<1>2. t.by \in Host /\ t.exp \in Nat /\ t.iat \in Nat
  BY <1>1 DEF AuthClaims
<1>3. /\ clock[t.by] \in Nat /\ clock[h] \in Nat
      /\ clock[t.by] <= clock[h] + MaxSkew /\ clock[h] <= clock[t.by] + MaxSkew
  BY <1>2 DEF TokenInv, WithinSkew
<1> QED
  BY <1>1, <1>2, <1>3, ClockAssumption DEF Expired, NotYetValid, Fresh

(* Without expectations, key and times decide.                             *)
LEMMA VerifiedByKeyAndTime ==
  ASSUME NEW t, NEW keys, NEW now
  PROVE  VerifyJWT(t, keys, now) <=>
           t.key \in keys /\ ~Expired(t, now) /\ ~NotYetValid(t, now)
BY DEF VerifyJWT, VerifyJWTWithOptions, validateClaims, NoOptions

(* Until it expires by the clock that minted it, a token is accepted on    *)
(* every host.                                                             *)
THEOREM FreshTokensAcceptedTheorem == TokenSpec => []FreshTokensAccepted
<1>1. ASSUME TokenInv, NEW t \in minted, NEW h \in Host, Fresh(t)
      PROVE  VerifyJWT(t, KeysOf[t.org], clock[h])
  BY <1>1, LeewayBridgesSkew, VerifiedByKeyAndTime DEF TokenInv, WellMade
<1>2. ASSUME TokenInv, NEW t \in minted, NEW h \in Host, Fresh(t),
             t.kind \in {"access", "svid"}, NEW a \in t.aud
      PROVE  VerifyAccessToken(t.org, a, t, clock[h])
  <2>1. WellMade(t)
    BY <1>2 DEF TokenInv
  <2>2. t.org \in Tenant /\ a \in Resource
    BY <1>2, <2>1 DEF WellMade, AuthClaims
  <2>3. t.key \in KeysOf[t.org] /\ t.iss = IssuerFor[t.org] /\ t.use = "access"
    BY <1>2, <2>1 DEF WellMade
  <2>4. ~Expired(t, clock[h]) /\ ~NotYetValid(t, clock[h])
    BY <1>2, LeewayBridgesSkew
  <2> QED
    BY <1>2, <2>2, <2>3, <2>4
    DEF VerifyAccessToken, Validate, VerifyJWTWithOptions, validateClaims
<1>3. TokenInv => FreshTokensAccepted
  BY <1>1, <1>2 DEF FreshTokensAccepted
<1> QED
  BY <1>3, TokenInvariant, PTL

(* No clock shows more than leeway and skew past the expiry of a token     *)
(* that any verifier accepts.                                              *)
THEOREM LateTokensRefusedTheorem == TokenSpec => []LateTokensRefused
<1>1. ASSUME TokenInv, NEW t \in minted, NEW h \in Host, NEW g \in Host,
             VerifyJWT(t, VerifyKey, clock[h])
      PROVE  clock[g] <= t.exp + DefaultLeeway + MaxSkew
  <2>1. ~Expired(t, clock[h])
    BY <1>1, VerifiedByKeyAndTime
  <2>2. /\ clock[g] \in Nat /\ clock[h] \in Nat /\ clock[g] <= clock[h] + MaxSkew
        /\ t.exp \in Nat
    BY <1>1 DEF TokenInv, WithinSkew, WellMade, AuthClaims
  <2> QED
    BY <2>1, <2>2, ClockAssumption DEF Expired
<1>2. TokenInv => LateTokensRefused
  BY <1>1 DEF LateTokensRefused
<1> QED
  BY <1>2, TokenInvariant, PTL

(* What is accepted as an access token was minted as one, by the tenant it *)
(* is accepted for and with the audience it is accepted for.               *)
THEOREM AcceptedForItsPurposeTheorem == TokenSpec => []AcceptedForItsPurpose
<1>1. ASSUME TokenInv, NEW t \in minted, NEW h \in Host, NEW o \in Tenant, NEW a \in Resource,
             VerifyAccessToken(o, a, t, clock[h])
      PROVE  /\ t.org = o
             /\ \/ t.kind = "svid" /\ t.aud = {a}
                \/ t.kind = "access" /\ \E app \in Application :
                                          app.org = o /\ a \in TokenAudiences(app)
  <2>1. WellMade(t)
    BY <1>1 DEF TokenInv
  <2>2. IssuerFor[o] # NoClaim /\ a # NoClaim /\ "access" # NoClaim
    BY ResolverAssumption
  <2>3. t.iss = IssuerFor[o] /\ a \in t.aud /\ t.use = "access"
    BY <1>1, <2>2 DEF VerifyAccessToken, Validate, VerifyJWTWithOptions, validateClaims
  <2>4. t.kind \in {"access", "svid"} /\ t.org \in Tenant
    BY <2>1, <2>2, <2>3 DEF WellMade, AuthClaims
  <2>5. t.org = o
    BY <2>1, <2>3, <2>4, ResolverAssumption DEF WellMade
  <2> QED
    BY <2>1, <2>3, <2>4, <2>5 DEF WellMade
<1>2. TokenInv => AcceptedForItsPurpose
  BY <1>1 DEF AcceptedForItsPurpose
<1> QED
  BY <1>2, TokenInvariant, PTL

(* Tokens of the console's organization and of the tenant itself are       *)
(* admitted to the tenant's administration.                                *)
THEOREM ConsoleTokensAdmittedTheorem == TokenSpec => []ConsoleTokensAdmitted
<1>1. ASSUME TokenInv, NEW t \in minted, NEW h \in Host, NEW o \in Tenant,
             Fresh(t), t.org \in {o, DefaultTenant}
      PROVE  AuthenticateAdmin(o, t, clock[h])
  <2>1. t.key \in AdminKeys(o)
    BY <1>1 DEF TokenInv, WellMade, AdminKeys
  <2> QED
    BY <1>1, <2>1, LeewayBridgesSkew, VerifiedByKeyAndTime DEF AuthenticateAdmin
<1>2. TokenInv => ConsoleTokensAdmitted
  BY <1>1 DEF ConsoleTokensAdmitted
<1> QED
  BY <1>2, TokenInvariant, PTL
=============================================================================
