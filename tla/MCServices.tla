----------------------------- MODULE MCServices -----------------------------
(***************************************************************************)
(* Instances of five parts of the server that share no variable: grants on *)
(* two nodes, tokens and their verifiers, tenants of requests, workloads,  *)
(* and upstream claims.  A behaviour is one of a single part, chosen at    *)
(* the start; the others stay as they began.                               *)
(***************************************************************************)
EXTENDS MCGrantFlow, MCTenantRouting, TokenChecks, WorkloadSVID, UpstreamClaims

(***************************************************************************)
(* Tokens: two tenants that share a key, an app with audiences and one     *)
(* without.                                                                *)
(***************************************************************************)
CONSTANTS api, k1, k2

TwoApps    == {[org |-> acme, client |-> spa, audiences |-> {}],
               [org |-> default, client |-> spa, audiences |-> {api}]}
SharedKeys == [o \in Tenant |-> IF o = acme THEN {k2} ELSE {k1, k2}]
OneDomain  == [o \in Tenant |-> api]
ByHost     == [o \in Tenant |-> <<"host", o>>]
ByPath     == [o \in Tenant |-> <<"path", o>>]
BothForms  == {"host", "path"} \X Tenant

(***************************************************************************)
(* Workloads: one that renews its certificate, and a process without one.  *)
(* The registrations bind the old certificate, the new one, and the new    *)
(* one with the old one's fingerprint; the last one stops the workload.    *)
(***************************************************************************)
CONSTANTS pay, old, new, idPay, read, any, bank, proxy

PayHoldsBoth == [c \in Caller |-> IF c = pay THEN {old, new} ELSE {}]
SANsOfPay    == [c \in Cert |-> {idPay}]
OldRunsOut   == [c \in Cert |-> [from |-> 0, to |-> IF c = old THEN 2 ELSE 9]]
TrustChoices == {[enabled |-> FALSE, allowed |-> {}], [enabled |-> TRUE, allowed |-> {}],
                 [enabled |-> TRUE, allowed |-> {proxy}]}
IdOfPay      == [w \in Workload |-> idPay]

Body(a, p, f, s, u) == [active |-> a, pem |-> p, fp |-> f, spiffeID |-> Absent,
                        scopes |-> s, audiences |-> u]
PayBodies == {Body(TRUE, old, Absent, {read}, {api}), Body(TRUE, new, old, {any}, {}),
              Body(TRUE, new, Absent, {read}, {api, bank}), Body(FALSE, old, old, {read}, {api})}

(***************************************************************************)
(* Claims: a well-known upstream with numeric ids, one of them past the    *)
(* exact range, and a tenant's own with ids that may hold an underscore.   *)
(***************************************************************************)
Hub(n)      == [at |-> "github/user", key |-> "id", flag |-> "", id |-> Number(n)]
Corp(s)     == [at |-> "corp/me", key |-> "sub", flag |-> "email_verified", id |-> Text(s)]
Digits == [n \in 0 .. 16 |-> ToString(n)]
FourAccounts == {Hub(8), Hub(9), Corp(<<"8">>), Corp(<<"eu", "8">>)}

Entry(e, p, v)  == [email |-> e, primary |-> p, verified |-> v]
Answered(f, l, e)  == [profile |-> f, list |-> l, proven |-> e]
Null == [kind |-> "null", text |-> <<>>, number |-> 0]

(* An address kept private, then public.                                   *)
HubAnswers ==
  {Answered("id" :> Number(8) @@ "email" :> Null,
         <<Entry(<<"typed">>, TRUE, FALSE), Entry(<<"home">>, FALSE, TRUE)>>, {<<"home">>}),
   Answered("id" :> Number(8) @@ "email" :> Text(<<"home">>), <<>>, {<<"home">>})}

(* An address typed in, with both forms of the flag; an answer without the *)
(* subject; a proven address.                                              *)
CorpAnswers ==
  {Answered("sub" :> Text(<<"8">>) @@ "email" :> Text(<<"typed">>) @@ "email_verified" :> f,
         <<>>, {}) : f \in {Flag(FALSE), Text(<<"false">>)}}
  \cup {Answered("email" :> Text(<<"work">>) @@ "email_verified" :> Text(<<"1">>), <<>>, {<<"work">>}),
        Answered("sub" :> Text(<<"8">>) @@ "email" :> Text(<<"work">>), <<>>, {<<"work">>})}

AnswersOf == [a \in FourAccounts |->
  CASE a = Hub(8)         -> HubAnswers
    [] a = Corp(<<"8">>)  -> CorpAnswers
    [] OTHER -> {Answered(a.key :> a.id @@ "email" :> Text(<<"work">>), <<>>, {<<"work">>})}]

ThreeProviders == {<<"GitHub">>, <<"corp">>, <<"corp", "eu">>}
LowerCase == [p \in ThreeProviders \cup {<<"github">>} |->
                IF p \in {<<"GitHub">>, <<"github">>} THEN "github" ELSE "corp"]
Unset == Config6("", "", "", "", "", "")
RecordChoices ==
  {[preset |-> <<>>, cfg |-> Unset], [preset |-> <<"github">>, cfg |-> Unset],
   [preset |-> <<>>, cfg |-> Config6("corp/token", "corp/me", "",
                                     "sub", "email", "email_verified")]}

-----------------------------------------------------------------------------
VARIABLE part

(* A part that is not chosen begins in one of its initial states.          *)
Unless(p, rest) == part = p \/ rest

ServicesInit ==
  /\ part \in {"grants", "tokens", "tenants", "workloads", "claims"}
  /\ Unless("tokens", clock = [h \in Host |-> 0])
  /\ Unless("tenants", /\ deployment = "server"
                       /\ client = [p \in Party |-> CHOOSE c \in Clients : Consistent(c)])
  /\ Unless("workloads", trust = CHOOSE t \in ProxyTrust : TRUE)
  /\ Unless("claims", answers = [a \in Account |-> CHOOSE r \in Answers[a] : TRUE])
  /\ Init /\ TokenInit /\ RoutingInit /\ WorkloadInit /\ ClaimsInit

ServicesNext ==
  /\ UNCHANGED part
  /\ \/ part = "grants" /\ Next
        /\ UNCHANGED <<tokenVars, routingVars, workloadVars, claimsVars>>
     \/ part = "tokens" /\ TokenNext
        /\ UNCHANGED <<vars, routingVars, workloadVars, claimsVars>>
     \/ part = "tenants" /\ RoutingNext
        /\ UNCHANGED <<vars, tokenVars, workloadVars, claimsVars>>
     \/ part = "workloads" /\ WorkloadNext
        /\ UNCHANGED <<vars, tokenVars, routingVars, claimsVars>>
     \/ part = "claims" /\ ClaimsNext
        /\ UNCHANGED <<vars, tokenVars, routingVars, workloadVars>>

ServicesSpec ==
  ServicesInit /\ [][ServicesNext]_<<part, vars, tokenVars, routingVars, workloadVars, claimsVars>>
=============================================================================
