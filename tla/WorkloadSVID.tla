---------------------------- MODULE WorkloadSVID ----------------------------
(***************************************************************************)
(* Workloads that exchange a client certificate for a short-lived SVID:    *)
(* over mutual TLS with the server or with a proxy in front of it, or      *)
(* through an embedding host that made the handshake itself, while an      *)
(* operator registers, rebinds and deactivates them.                       *)
(*                                                                         *)
(* A certificate is public; what proves identity is its private key, which *)
(* a TLS handshake demands.  A fingerprint stands for its certificate.     *)
(* The version check on registrations is in AdminRecords, the signing key  *)
(* in SigningKeys, the claims of the token in TokenChecks.                 *)
(*                                                                         *)
(* A definition that nothing uses and that stands right before another of  *)
(* the same arity is a slip the code could have made there; the properties *)
(* are tested against it.                                                  *)
(***************************************************************************)
EXTENDS Naturals, FiniteSets

CONSTANTS
  Workload,      \* workload ids of one tenant
  Caller,        \* processes that ask for SVIDs
  Cert,          \* client certificates
  Holds,         \* caller -> the certificates whose private keys it holds
  URISANs,       \* certificate -> the URI SANs it carries
  Lifetime,      \* certificate -> [from, to], by the server's clock
  Proxy,         \* addresses of proxies that terminate mutual TLS
  Elsewhere,     \* addresses of everybody else
  ProxyTrust,    \* the settings to consider: [enabled, allowed]
  SPIFFEID,      \* SPIFFE IDs
  BuildSPIFFEID, \* workload -> the SPIFFE ID a registration gets by default
  Scope,         \* scopes
  AnyScope,      \* the scope "*"
  SVIDAudience,  \* audiences
  RegistrationBody, \* what operators register
  TTL,           \* lifetime of an SVID
  WriteTimeout,  \* httpServer.WriteTimeout
  MaxTime,       \* bound: the last reading of the clock
  MaxRegistrations, \* bound: registrations in a behaviour
  MaxSVIDs,      \* bound: SVIDs in a behaviour
  Absent         \* no certificate, fingerprint, id, audience or record

(* What a registration says; the server fills in spiffeID and fp.          *)
Registration ==
  [active : BOOLEAN, pem : Cert \cup {Absent}, fp : Cert \cup {Absent},
   spiffeID : SPIFFEID \cup {Absent},
   scopes : SUBSET (Scope \cup {AnyScope}), audiences : SUBSET SVIDAudience]

ASSUME CertAssumption ==
  /\ Holds \in [Caller -> SUBSET Cert]
  /\ URISANs \in [Cert -> SUBSET SPIFFEID]
  /\ Lifetime \in [Cert -> [from : Nat, to : Nat]]
  /\ Absent \notin Cert \cup SPIFFEID \cup SVIDAudience /\ Absent \notin Nat
ASSUME ProxyAssumption ==
  /\ Proxy \cap Elsewhere = {}
  /\ ProxyTrust \subseteq [enabled : BOOLEAN, allowed : SUBSET (Proxy \cup Elsewhere)]
ASSUME RegistrationAssumption ==
  /\ BuildSPIFFEID \in [Workload -> SPIFFEID]
  /\ RegistrationBody \subseteq Registration
ASSUME TimeAssumption == {TTL, WriteTimeout, MaxTime, MaxRegistrations, MaxSVIDs} \subseteq Nat

VARIABLES
  trust,      \* the proxy settings, read once
  time,       \* the server's clock
  workloads,  \* workload -> its stored record, or Absent
  inForce,    \* history: workload -> certificate -> when it was last the
              \* registered one of an active record, or Absent
  asking,     \* caller -> its request after the checks, or Absent
  svids,      \* history: the SVIDs delivered
  registrations  \* registrations so far

workloadVars == <<trust, time, workloads, inForce, asking, svids, registrations>>

-----------------------------------------------------------------------------
(* Data                                                                    *)

WorkloadRecord == {w \in Registration : w.spiffeID # Absent}

(* How a caller reached the server: the certificate of a handshake with    *)
(* this process, the forwarding header, and the immediate peer.            *)
Connection == [tls : Cert \cup {Absent}, header : Cert \cup {Absent},
               peer : Proxy \cup Elsewhere]

(* A request that has passed its checks: since is when they were made,     *)
(* aud the audience an engine request was resolved to.                     *)
Checked == [id : Workload, cert : Cert, rec : WorkloadRecord, since : Nat,
            aud : SVIDAudience \cup {Absent}, via : {"http", "engine"}]

SVID == [to : Caller, id : Workload, cert : Cert, spiffeID : SPIFFEID, rec : WorkloadRecord,
         scopes : SUBSET (Scope \cup {AnyScope}), aud : SVIDAudience \cup {Absent},
         since : Nat, exp : Nat, via : {"http", "engine"}]

WorkloadTypeOK ==
  /\ trust \in ProxyTrust
  /\ time \in Nat
  /\ workloads \in [Workload -> WorkloadRecord \cup {Absent}]
  /\ inForce \in [Workload -> [Cert -> Nat \cup {Absent}]]
  /\ asking \in [Caller -> Checked \cup {Absent}]
  /\ svids \subseteq SVID
  /\ registrations \in Nat

WorkloadInit ==
  /\ trust \in ProxyTrust
  /\ time = 0
  /\ workloads = [w \in Workload |-> Absent]
  /\ inForce = [w \in Workload |-> [c \in Cert |-> Absent]]
  /\ asking = [c \in Caller |-> Absent]
  /\ svids = {}
  /\ registrations = 0

-----------------------------------------------------------------------------
(* Registration                                                            *)

Bound(rec, c) == rec # Absent /\ rec.active /\ rec.fp = c

(* Fingerprint and SPIFFE ID are filled in only where the body brings none.*)
Fingerprint(body) == IF body.fp = Absent THEN body.pem ELSE body.fp

IDAsGiven(w, body) == body.spiffeID

IDOrDefault(w, body) ==
  IF body.spiffeID = Absent THEN BuildSPIFFEID[w] ELSE body.spiffeID

(* HandleWorkloads, POST.                                                  *)
StoreWorkload(w, body) ==
  LET rec == [body EXCEPT
                !.fp = Fingerprint(body),
                !.spiffeID = IDOrDefault(w, body)]
  IN /\ registrations < MaxRegistrations
     /\ registrations' = registrations + 1
     /\ workloads' = [workloads EXCEPT ![w] = rec]
     /\ inForce' = [inForce EXCEPT ![w] =
                      [c \in Cert |-> IF Bound(workloads[w], c) \/ Bound(rec, c)
                                      THEN time ELSE inForce[w][c]]]
     /\ UNCHANGED <<trust, time, asking, svids>>

-----------------------------------------------------------------------------
(* Transport                                                               *)

(* A handshake needs the private key; a header takes only the bytes.  The  *)
(* proxies overwrite the header with the certificate of their handshake.   *)
Reaches(caller, conn) ==
  /\ conn.tls \in Holds[caller] \cup {Absent}
  /\ conn.peer \in Proxy => /\ conn.tls = Absent
                            /\ conn.header \in Holds[caller] \cup {Absent}

TrustsEveryPeer(peer) == trust.enabled

(* An allow-list without usable entries is no restriction.                 *)
trustsPeer(peer) == trust.enabled /\ (trust.allowed = {} \/ peer \in trust.allowed)

VerifiedClientCert(conn) ==
  IF conn.tls # Absent THEN conn.tls
  ELSE IF conn.header # Absent /\ trustsPeer(conn.peer) THEN conn.header
  ELSE Absent

-----------------------------------------------------------------------------
(* Asking for an SVID                                                      *)

ValidateWorkloadCert(c, rec) ==
  /\ Lifetime[c].from <= time /\ time <= Lifetime[c].to
  /\ rec.fp = c
  /\ rec.spiffeID \in URISANs[c]

(* Over HTTP: the checks, up to the look-up of a signing key.  Any one     *)
(* that fails ends the request.                                            *)
Ask(caller, w, conn) ==
  LET c == VerifiedClientCert(conn)
      rec == workloads[w]
  IN /\ asking[caller] = Absent
     /\ Reaches(caller, conn)
     /\ c # Absent
     /\ rec # Absent /\ rec.active
     /\ ValidateWorkloadCert(c, rec)
     /\ asking' = [asking EXCEPT ![caller] =
                     [id |-> w, cert |-> c, rec |-> rec, since |-> time,
                      aud |-> Absent, via |-> "http"]]
     /\ UNCHANGED <<trust, time, workloads, inForce, svids, registrations>>

AnyAudience(rec, requested) == {requested} \ {Absent}

(* The audiences that the request may be answered with: one or none.       *)
resolveSVIDAudience(rec, requested) ==
  CASE rec.audiences = {}   -> {requested} \ {Absent}
    [] requested # Absent   -> {requested} \cap rec.audiences
    [] OTHER                -> IF \E a \in rec.audiences : rec.audiences = {a}
                               THEN rec.audiences ELSE {}

(* Of the engine, for a fingerprint its host has verified: likewise the    *)
(* checks, up to the look-up of a signing key.                             *)
AskEngine(caller, w, c, requested) ==
  LET rec == workloads[w]
  IN /\ asking[caller] = Absent
     /\ c \in Holds[caller]
     /\ rec # Absent /\ rec.active
     /\ rec.fp = c
     /\ \E a \in resolveSVIDAudience(rec, requested) :
          asking' = [asking EXCEPT ![caller] =
                       [id |-> w, cert |-> c, rec |-> rec, since |-> time,
                        aud |-> a, via |-> "engine"]]
     /\ UNCHANGED <<trust, time, workloads, inForce, svids, registrations>>

-----------------------------------------------------------------------------
(* Signing, after a look-up of the key that may list, write and list again *)

grantScopes(rec, requested) ==
  IF requested = {} THEN rec.scopes
  ELSE IF AnyScope \in rec.scopes THEN requested
  ELSE requested \cap rec.scopes

(* The server's time limit runs from the request, not from the answer.     *)
(* Nothing limits a host that calls the engine.                            *)
DeliveredAtAnyTime(q) == TRUE

Delivered(q) == q.via = "http" => time <= q.since + WriteTimeout

(* The token is made from the record as it was read, and its lifetime      *)
(* counted from now.                                                       *)
IssueJWTSVID(caller, q, requested) ==
  [to |-> caller, id |-> q.id, cert |-> q.cert, spiffeID |-> q.rec.spiffeID,
   rec |-> q.rec, scopes |-> grantScopes(q.rec, requested), aud |-> q.aud,
   since |-> q.since, exp |-> time + TTL, via |-> q.via]

(* There may be no key to sign with; and a handler that takes longer than  *)
(* the server allows cannot write its answer.                              *)
SignSVID(caller, requested) ==
  LET q == asking[caller]
  IN /\ q # Absent
     /\ asking' = [asking EXCEPT ![caller] = Absent]
     /\ \/ /\ Delivered(q) /\ Cardinality(svids) < MaxSVIDs
           /\ svids' = svids \cup {IssueJWTSVID(caller, q, requested)}
        \/ UNCHANGED svids
     /\ UNCHANGED <<trust, time, workloads, inForce, registrations>>

-----------------------------------------------------------------------------
(* A certificate in force stays so until the next registration.            *)
Pass == /\ time < MaxTime
        /\ time' = time + 1
        /\ inForce' = [w \in Workload |-> [c \in Cert |->
             IF Bound(workloads[w], c) THEN time + 1 ELSE inForce[w][c]]]
        /\ UNCHANGED <<trust, workloads, asking, svids, registrations>>

Enrol(caller) ==
  \E w \in Workload :
    \/ \E conn \in Connection : Ask(caller, w, conn)
    \/ \E c \in Cert, a \in SVIDAudience \cup {Absent} : AskEngine(caller, w, c, a)

WorkloadNext ==
  \/ Pass
  \/ \E w \in Workload, body \in RegistrationBody : StoreWorkload(w, body)
  \/ \E caller \in Caller :
       \/ Enrol(caller)
       \/ \E s \in SUBSET Scope : SignSVID(caller, s)

WorkloadSpec == WorkloadInit /\ [][WorkloadNext]_workloadVars

-----------------------------------------------------------------------------
(* Properties                                                              *)

(* Set up as mtls.go asks for: forwarded certificates are off, or believed *)
(* from the proxies alone.                                                 *)
ProxiesOnly == trust.enabled => trust.allowed # {} /\ trust.allowed \subseteq Proxy

(* An SVID goes only to a process that holds the private key of the        *)
(* certificate registered for the workload (mtls.go: possession "is the    *)
(* only thing that proves identity"), whichever way it came and whatever   *)
(* header it sent; over HTTP the certificate itself names the SPIFFE ID.   *)
SVIDOnlyToKeyHolder ==
  ProxiesOnly =>
    \A s \in svids : /\ s.cert \in Holds[s.to] /\ s.rec.fp = s.cert
                     /\ s.via = "http" => s.spiffeID \in URISANs[s.cert]

(* svid.go: "its lifetime IS its revocation window".  A registration that  *)
(* is deactivated or bound to another certificate serves only requests     *)
(* that had read it by then.  Such a request looks up a key, and may be    *)
(* held up there, before it signs: the standalone server's time limit      *)
(* keeps the SVIDs it delivers within their lifetime and that limit of the *)
(* end of the binding, and nothing does so for a host of the engine.       *)
StopIssuingIsEffective ==
  \A s \in svids :
    /\ inForce[s.id][s.cert] # Absent
    /\ s.since <= inForce[s.id][s.cert]
    /\ s.via = "http" => s.exp <= inForce[s.id][s.cert] + TTL + WriteTimeout

(* No SVID, from either code path, has a scope its registration does not   *)
(* allow, and none from the engine an audience it does not allow.          *)
SVIDWithinAllowance ==
  \A s \in svids :
    /\ AnyScope \in s.rec.scopes \/ s.scopes \subseteq s.rec.scopes
    /\ s.via = "engine" => \/ s.aud \in s.rec.audiences
                           \/ s.rec.audiences = {} /\ s.aud # Absent
=============================================================================
