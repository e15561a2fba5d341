------------------------ MODULE WorkloadSVID_proofs ------------------------
(***************************************************************************)
(* What holds of WorkloadSVID for any workloads, callers, certificates and *)
(* proxies: SVIDs go to key holders, run out soon after their registration *)
(* changes, and say no more than it allows.                                *)
(***************************************************************************)
EXTENDS WorkloadSVID, TLAPS

-----------------------------------------------------------------------------
(* The inductive invariant                                                 *)

(* The clock of a binding: it shows the present while the certificate is   *)
(* the registered one of an active record, and no time to come.            *)
BindingsDated ==
  \A w \in Workload, c \in Cert :
    /\ Bound(workloads[w], c) => inForce[w][c] = time
    /\ inForce[w][c] # Absent => inForce[w][c] <= time

(* What the checks of a request established, and when.                     *)
Proven(caller, c, rec) ==
  /\ ProxiesOnly => c \in Holds[caller]
  /\ rec.fp = c

AudienceAllowedBy(q) == \/ q.aud \in q.rec.audiences
                        \/ q.rec.audiences = {} /\ q.aud # Absent

RequestsChecked ==
  \A caller \in Caller :
    LET q == asking[caller]
    IN q # Absent => /\ Proven(caller, q.cert, q.rec)
                     /\ q.via = "http" => q.rec.spiffeID \in URISANs[q.cert]
                     /\ q.via = "engine" => AudienceAllowedBy(q)
                     /\ inForce[q.id][q.cert] # Absent
                     /\ q.since <= inForce[q.id][q.cert]

(* A delivered SVID, apart from when it runs out.                          *)
Deserved(s) ==
  /\ Proven(s.to, s.cert, s.rec)
  /\ s.via = "http" => s.spiffeID \in URISANs[s.cert]
  /\ AnyScope \in s.rec.scopes \/ s.scopes \subseteq s.rec.scopes
  /\ s.via = "engine" => AudienceAllowedBy(s)

Timely(s) ==
  /\ inForce[s.id][s.cert] # Absent
  /\ s.since <= inForce[s.id][s.cert]
  /\ s.via = "http" => s.exp <= inForce[s.id][s.cert] + TTL + WriteTimeout

WorkloadInv == /\ WorkloadTypeOK
               /\ BindingsDated
               /\ RequestsChecked
               /\ \A s \in svids : Deserved(s) /\ Timely(s)

-----------------------------------------------------------------------------
(* Transport and decisions                                                 *)

(* The certificate the server takes for verified is one of which the       *)
(* caller holds the key, if only proxies are believed.                     *)
LEMMA VerifiedMeansHeld ==
  ASSUME NEW caller \in Caller, NEW conn \in Connection, Reaches(caller, conn),
         VerifiedClientCert(conn) # Absent
  PROVE  /\ VerifiedClientCert(conn) \in Cert
         /\ ProxiesOnly => VerifiedClientCert(conn) \in Holds[caller]
<1>1. conn.tls \in Cert \cup {Absent} /\ conn.header \in Cert \cup {Absent}
  BY DEF Connection
<1>2. CASE conn.tls # Absent
  BY <1>1, <1>2 DEF Reaches, VerifiedClientCert
<1>3. CASE conn.tls = Absent
  <2>1. VerifiedClientCert(conn) = conn.header /\ conn.header # Absent /\ trustsPeer(conn.peer)
    BY <1>3 DEF VerifiedClientCert
  <2>2. ASSUME ProxiesOnly PROVE conn.header \in Holds[caller]
    <3>1. conn.peer \in Proxy
      BY <2>1, <2>2 DEF trustsPeer, ProxiesOnly
    <3> QED
      BY <2>1, <3>1 DEF Reaches
  <2> QED
    BY <1>1, <2>1, <2>2
<1> QED
  BY <1>2, <1>3

LEMMA ScopesAllowed ==
  ASSUME NEW rec \in WorkloadRecord, NEW requested \in SUBSET Scope
  PROVE  /\ grantScopes(rec, requested) \in SUBSET (Scope \cup {AnyScope})
         /\ AnyScope \in rec.scopes \/ grantScopes(rec, requested) \subseteq rec.scopes
BY DEF grantScopes, WorkloadRecord, Registration

LEMMA AudienceAllowed ==
  ASSUME NEW rec \in WorkloadRecord, NEW requested \in SVIDAudience \cup {Absent},
         NEW a \in resolveSVIDAudience(rec, requested)
  PROVE  /\ a \in SVIDAudience
         /\ a \in rec.audiences \/ (rec.audiences = {} /\ a # Absent)
<1>1. rec.audiences \subseteq SVIDAudience
  BY DEF WorkloadRecord, Registration
<1>2. CASE rec.audiences = {}
  BY <1>2 DEF resolveSVIDAudience
<1>3. CASE rec.audiences # {} /\ requested # Absent
  BY <1>1, <1>3 DEF resolveSVIDAudience
<1>4. CASE rec.audiences # {} /\ requested = Absent
  BY <1>1, <1>4 DEF resolveSVIDAudience
<1> QED
  BY <1>2, <1>3, <1>4

-----------------------------------------------------------------------------
(* Steps                                                                   *)

(* The clock of a binding never goes back.  Any step that keeps records    *)
(* of the past as they are keeps what is known of them.                    *)
LEMMA PastKept ==
  ASSUME WorkloadInv, WorkloadTypeOK',
         trust' = trust, asking' = asking, svids' = svids,
         \A w \in Workload, c \in Cert :
           inForce[w][c] # Absent =>
             inForce'[w][c] # Absent /\ inForce[w][c] <= inForce'[w][c]
  PROVE  RequestsChecked' /\ \A s \in svids' : (Deserved(s) /\ Timely(s))'
<1>1. ASSUME NEW w \in Workload, NEW c \in Cert
      PROVE  inForce[w][c] \in Nat \cup {Absent} /\ inForce'[w][c] \in Nat \cup {Absent}
  BY DEF WorkloadInv, WorkloadTypeOK
<1>2. ProxiesOnly' = ProxiesOnly
  BY DEF ProxiesOnly
<1>3. ASSUME NEW caller \in Caller, asking[caller] # Absent
      PROVE  LET q == asking[caller]
             IN q.id \in Workload /\ q.cert \in Cert /\ q.since \in Nat
  BY <1>3 DEF WorkloadInv, WorkloadTypeOK, Checked
<1>4. RequestsChecked'
  BY <1>1, <1>2, <1>3 DEF WorkloadInv, RequestsChecked, Proven, AudienceAllowedBy
<1>5. ASSUME NEW s \in svids PROVE (Deserved(s) /\ Timely(s))'
  <2>1. s.id \in Workload /\ s.cert \in Cert /\ s.exp \in Nat /\ s.since \in Nat
    BY <1>5 DEF WorkloadInv, WorkloadTypeOK, SVID
  <2>2. Deserved(s) /\ Timely(s)
    BY <1>5 DEF WorkloadInv
  <2>3. Deserved(s)'
    BY <1>2, <2>2 DEF Deserved, Proven, AudienceAllowedBy
  <2>4. Timely(s)'
    BY <1>1, <2>1, <2>2, TimeAssumption DEF Timely
  <2> QED
    BY <2>3, <2>4
<1> QED
  BY <1>4, <1>5

LEMMA PassKeepsInv == ASSUME WorkloadInv, Pass PROVE WorkloadInv'
<1>1. time \in Nat /\ time' = time + 1 /\ time' \in Nat
  BY DEF WorkloadInv, WorkloadTypeOK, Pass
<1>2. ASSUME NEW w \in Workload, NEW c \in Cert
      PROVE  /\ inForce'[w][c] = IF Bound(workloads[w], c) THEN time + 1 ELSE inForce[w][c]
             /\ inForce[w][c] \in Nat \cup {Absent}
             /\ inForce[w][c] # Absent => inForce[w][c] <= time
  BY DEF WorkloadInv, WorkloadTypeOK, BindingsDated, Pass
<1>3. WorkloadTypeOK'
  <2>1. inForce' \in [Workload -> [Cert -> Nat \cup {Absent}]]
    BY <1>1, <1>2 DEF Pass
  <2> QED
    BY <1>1, <2>1 DEF WorkloadInv, WorkloadTypeOK, Pass
<1>4. BindingsDated'
  <2> SUFFICES ASSUME NEW w \in Workload, NEW c \in Cert
               PROVE  /\ Bound(workloads'[w], c) => inForce'[w][c] = time'
                      /\ inForce'[w][c] # Absent => inForce'[w][c] <= time'
    BY DEF BindingsDated, Bound
  <2>1. workloads' = workloads
    BY DEF Pass
  <2> QED
    BY <1>1, <1>2, <2>1, CertAssumption
<1>5. \A w \in Workload, c \in Cert :
        inForce[w][c] # Absent => inForce'[w][c] # Absent /\ inForce[w][c] <= inForce'[w][c]
  BY <1>1, <1>2, CertAssumption
<1> QED
  BY <1>3, <1>4, <1>5, PastKept DEF WorkloadInv, Pass

LEMMA StoreWorkloadKeepsInv ==
  ASSUME WorkloadInv, NEW w \in Workload, NEW body \in RegistrationBody, StoreWorkload(w, body)
  PROVE  WorkloadInv'
<1> DEFINE rec == [body EXCEPT !.fp = Fingerprint(body), !.spiffeID = IDOrDefault(w, body)]
<1>1. rec \in WorkloadRecord
  <2>1. body \in Registration /\ BuildSPIFFEID[w] \in SPIFFEID
    BY RegistrationAssumption
  <2>2. Fingerprint(body) \in Cert \cup {Absent}
    BY <2>1 DEF Fingerprint, Registration
  <2>3. IDOrDefault(w, body) \in SPIFFEID
    BY <2>1 DEF IDOrDefault, Registration
  <2>4. rec \in Registration /\ rec.spiffeID = IDOrDefault(w, body)
    BY <2>1, <2>2, <2>3 DEF Registration
  <2> QED
    BY <2>3, <2>4, CertAssumption DEF WorkloadRecord
<1>2. /\ workloads' = [workloads EXCEPT ![w] = rec]
      /\ inForce' = [inForce EXCEPT ![w] =
                      [c \in Cert |-> IF Bound(workloads[w], c) \/ Bound(rec, c)
                                      THEN time ELSE inForce[w][c]]]
      /\ UNCHANGED <<trust, time, asking, svids>>
  BY DEF StoreWorkload
<1>3. time \in Nat
  BY DEF WorkloadInv, WorkloadTypeOK
<1> HIDE DEF rec
<1>4. ASSUME NEW x \in Workload, NEW c \in Cert
      PROVE  /\ inForce'[x][c] = IF x = w /\ (Bound(workloads[w], c) \/ Bound(rec, c))
                                 THEN time ELSE inForce[x][c]
             /\ workloads'[x] = IF x = w THEN rec ELSE workloads[x]
             /\ inForce[x][c] \in Nat \cup {Absent}
  BY <1>2 DEF WorkloadInv, WorkloadTypeOK
<1>5. WorkloadTypeOK'
  <2>1. inForce' \in [Workload -> [Cert -> Nat \cup {Absent}]]
    BY <1>2, <1>3 DEF WorkloadInv, WorkloadTypeOK
  <2>2. workloads' \in [Workload -> WorkloadRecord \cup {Absent}]
    BY <1>1, <1>2 DEF WorkloadInv, WorkloadTypeOK
  <2>3. registrations' \in Nat
    BY DEF StoreWorkload, WorkloadInv, WorkloadTypeOK
  <2> QED
    BY <1>2, <2>1, <2>2, <2>3 DEF WorkloadInv, WorkloadTypeOK
<1>6. BindingsDated'
  <2> SUFFICES ASSUME NEW x \in Workload, NEW c \in Cert
               PROVE  /\ Bound(workloads'[x], c) => inForce'[x][c] = time
                      /\ inForce'[x][c] # Absent => inForce'[x][c] <= time
    BY <1>2 DEF BindingsDated, Bound
  <2> QED
    BY <1>3, <1>4 DEF WorkloadInv, BindingsDated
<1>7. \A x \in Workload, c \in Cert :
        inForce[x][c] # Absent => inForce'[x][c] # Absent /\ inForce[x][c] <= inForce'[x][c]
  BY <1>3, <1>4, CertAssumption DEF WorkloadInv, BindingsDated
<1> QED
  BY <1>2, <1>5, <1>6, <1>7, PastKept DEF WorkloadInv

(* A request that enters after its checks keeps the invariant, by whatever *)
(* way it came.                                                            *)
LEMMA CheckedKeepsInv ==
  ASSUME WorkloadInv, NEW caller \in Caller, NEW q \in Checked,
         asking' = [asking EXCEPT ![caller] = q],
         UNCHANGED <<trust, time, workloads, inForce, svids, registrations>>,
         Proven(caller, q.cert, q.rec),
         q.via = "http" => q.rec.spiffeID \in URISANs[q.cert],
         q.via = "engine" => AudienceAllowedBy(q),
         q.since = time, Bound(workloads[q.id], q.cert)
  PROVE  WorkloadInv'
<1>1. time \in Nat /\ q.id \in Workload /\ q.cert \in Cert
  BY DEF WorkloadInv, WorkloadTypeOK, Checked
<1>2. inForce[q.id][q.cert] = time /\ time # Absent
  BY <1>1, CertAssumption DEF WorkloadInv, BindingsDated
<1>3. WorkloadTypeOK'
  BY DEF WorkloadInv, WorkloadTypeOK
<1>4. BindingsDated'
  BY DEF WorkloadInv, BindingsDated, Bound
<1>5. RequestsChecked'
  <2> SUFFICES ASSUME NEW d \in Caller, asking'[d] # Absent
               PROVE  LET p == asking'[d]
                      IN /\ Proven(d, p.cert, p.rec)
                         /\ p.via = "http" => p.rec.spiffeID \in URISANs[p.cert]
                         /\ p.via = "engine" => AudienceAllowedBy(p)
                         /\ inForce[p.id][p.cert] # Absent
                         /\ p.since <= inForce[p.id][p.cert]
    BY DEF RequestsChecked, Proven, ProxiesOnly, AudienceAllowedBy
  <2>1. CASE d = caller
    <3>1. asking'[d] = q
      BY <2>1 DEF WorkloadInv, WorkloadTypeOK
    <3> QED
      BY <1>1, <1>2, <2>1, <3>1
  <2>2. CASE d # caller
    <3>1. asking'[d] = asking[d]
      BY <2>2 DEF WorkloadInv, WorkloadTypeOK
    <3> QED
      BY <3>1 DEF WorkloadInv, RequestsChecked
  <2> QED
    BY <2>1, <2>2
<1>6. \A s \in svids' : (Deserved(s) /\ Timely(s))'
  BY DEF WorkloadInv, Deserved, Proven, ProxiesOnly, AudienceAllowedBy, Timely
<1> QED
  BY <1>3, <1>4, <1>5, <1>6 DEF WorkloadInv

LEMMA AskKeepsInv ==
  ASSUME WorkloadInv, NEW caller \in Caller, NEW w \in Workload, NEW conn \in Connection,
         Ask(caller, w, conn)
  PROVE  WorkloadInv'
<1> DEFINE c == VerifiedClientCert(conn)
           rec == workloads[w]
           q == [id |-> w, cert |-> c, rec |-> rec, since |-> time,
                 aud |-> Absent, via |-> "http"]
<1>1. /\ Reaches(caller, conn) /\ c # Absent /\ rec # Absent /\ rec.active
      /\ ValidateWorkloadCert(c, rec)
      /\ asking' = [asking EXCEPT ![caller] = q]
      /\ UNCHANGED <<trust, time, workloads, inForce, svids, registrations>>
  BY DEF Ask
<1>2. c \in Cert /\ (ProxiesOnly => c \in Holds[caller])
  BY <1>1, VerifiedMeansHeld
<1> HIDE DEF c
<1>3. rec \in WorkloadRecord /\ time \in Nat
  BY <1>1 DEF WorkloadInv, WorkloadTypeOK
<1>4. rec.fp = c /\ rec.spiffeID \in URISANs[c] /\ Bound(workloads[w], c)
  BY <1>1 DEF ValidateWorkloadCert, Bound
<1>5. q \in Checked
  BY <1>2, <1>3 DEF Checked
<1>6. Proven(caller, c, rec)
  BY <1>2, <1>4 DEF Proven
<1> QED
  BY <1>1, <1>4, <1>5, <1>6, CheckedKeepsInv

LEMMA EngineKeepsInv ==
  ASSUME WorkloadInv, NEW caller \in Caller, NEW w \in Workload, NEW c \in Cert,
         NEW requested \in SVIDAudience \cup {Absent}, AskEngine(caller, w, c, requested)
  PROVE  WorkloadInv'
<1> DEFINE rec == workloads[w]
           Resolved(a) == [id |-> w, cert |-> c, rec |-> rec, since |-> time,
                           aud |-> a, via |-> "engine"]
<1>1. /\ c \in Holds[caller] /\ rec # Absent /\ rec.active /\ rec.fp = c
      /\ UNCHANGED <<trust, time, workloads, inForce, svids, registrations>>
  BY DEF AskEngine
<1>2. PICK a \in resolveSVIDAudience(rec, requested) :
        asking' = [asking EXCEPT ![caller] = Resolved(a)]
  BY DEF AskEngine
<1>3. rec \in WorkloadRecord /\ time \in Nat
  BY <1>1 DEF WorkloadInv, WorkloadTypeOK
<1>4. a \in SVIDAudience /\ (a \in rec.audiences \/ (rec.audiences = {} /\ a # Absent))
  BY <1>2, <1>3, AudienceAllowed
<1>5. Resolved(a) \in Checked /\ AudienceAllowedBy(Resolved(a))
  BY <1>3, <1>4 DEF Checked, AudienceAllowedBy
<1>6. Proven(caller, c, rec) /\ Bound(workloads[w], c)
  BY <1>1 DEF Proven, Bound
<1> QED
  BY <1>1, <1>2, <1>5, <1>6, CheckedKeepsInv

LEMMA SignKeepsInv ==
  ASSUME WorkloadInv, NEW caller \in Caller, NEW requested \in SUBSET Scope,
         SignSVID(caller, requested)
  PROVE  WorkloadInv'
<1> DEFINE q == asking[caller]
           s0 == IssueJWTSVID(caller, q, requested)
<1>1. /\ q # Absent
      /\ asking' = [asking EXCEPT ![caller] = Absent]
      /\ UNCHANGED <<trust, time, workloads, inForce, registrations>>
      /\ svids' = svids \/ (Delivered(q) /\ svids' = svids \cup {s0})
  BY DEF SignSVID
<1>2. q \in Checked
  BY <1>1 DEF WorkloadInv, WorkloadTypeOK
<1>3. /\ q.id \in Workload /\ q.cert \in Cert /\ q.rec \in WorkloadRecord /\ q.since \in Nat
      /\ q.aud \in SVIDAudience \cup {Absent} /\ q.via \in {"http", "engine"}
      /\ time \in Nat /\ time + TTL \in Nat
  BY <1>2, TimeAssumption DEF Checked, WorkloadInv, WorkloadTypeOK
<1>4. /\ Proven(caller, q.cert, q.rec)
      /\ q.via = "http" => q.rec.spiffeID \in URISANs[q.cert]
      /\ q.via = "engine" => AudienceAllowedBy(q)
      /\ inForce[q.id][q.cert] # Absent /\ q.since <= inForce[q.id][q.cert]
  BY <1>1 DEF WorkloadInv, RequestsChecked
<1>5. inForce[q.id][q.cert] \in Nat
  BY <1>3, <1>4 DEF WorkloadInv, WorkloadTypeOK
<1>6. q.rec.spiffeID \in SPIFFEID
  BY <1>3 DEF WorkloadRecord, Registration
<1> HIDE DEF q
<1>7. s0 \in SVID /\ Deserved(s0)
  <2>1. /\ grantScopes(q.rec, requested) \in SUBSET (Scope \cup {AnyScope})
        /\ AnyScope \in q.rec.scopes \/ grantScopes(q.rec, requested) \subseteq q.rec.scopes
    BY <1>3, ScopesAllowed
  <2>2. s0 \in SVID
    BY <1>3, <1>6, <2>1 DEF SVID, IssueJWTSVID
  <2>3. Deserved(s0)
    BY <1>4, <2>1 DEF IssueJWTSVID, Deserved, Proven, AudienceAllowedBy
  <2> QED
    BY <2>2, <2>3
<1>8. Delivered(q) => Timely(s0)
  BY <1>3, <1>4, <1>5, TimeAssumption DEF IssueJWTSVID, Delivered, Timely
<1> HIDE DEF s0
<1>9. WorkloadTypeOK'
  BY <1>1, <1>7 DEF WorkloadInv, WorkloadTypeOK
<1>10. BindingsDated'
  BY <1>1 DEF WorkloadInv, BindingsDated, Bound
<1>11. RequestsChecked'
  <2>1. ASSUME NEW d \in Caller, asking'[d] # Absent PROVE asking'[d] = asking[d]
    BY <1>1, <2>1 DEF WorkloadInv, WorkloadTypeOK
  <2> QED
    BY <1>1, <2>1 DEF WorkloadInv, RequestsChecked, Proven, ProxiesOnly, AudienceAllowedBy
<1>12. \A s \in svids' : (Deserved(s) /\ Timely(s))'
  <2> SUFFICES ASSUME NEW s \in svids' PROVE Deserved(s) /\ Timely(s)
    BY <1>1 DEF Deserved, Proven, ProxiesOnly, AudienceAllowedBy, Timely
  <2> QED
    BY <1>1, <1>7, <1>8 DEF WorkloadInv
<1> QED
  BY <1>9, <1>10, <1>11, <1>12 DEF WorkloadInv

-----------------------------------------------------------------------------
(* WorkloadInv holds in every state: registrations, requests and SVIDs     *)
(* agree about who proved what, and when a certificate was last in force.  *)
THEOREM WorkloadInvariant == WorkloadSpec => []WorkloadInv
<1>1. WorkloadInit => WorkloadInv
  BY CertAssumption, ProxyAssumption
  DEF WorkloadInit, WorkloadInv, WorkloadTypeOK, BindingsDated, Bound, RequestsChecked
<1>2. WorkloadInv /\ [WorkloadNext]_workloadVars => WorkloadInv'
  <2> SUFFICES ASSUME WorkloadInv, [WorkloadNext]_workloadVars PROVE WorkloadInv'
    OBVIOUS
  <2>1. CASE Pass
    BY <2>1, PassKeepsInv
  <2>2. ASSUME NEW w \in Workload, NEW body \in RegistrationBody, StoreWorkload(w, body)
        PROVE  WorkloadInv'
    BY <2>2, StoreWorkloadKeepsInv
  <2>3. ASSUME NEW caller \in Caller, Enrol(caller) PROVE WorkloadInv'
    BY <2>3, AskKeepsInv, EngineKeepsInv DEF Enrol
  <2>4. ASSUME NEW caller \in Caller, NEW s \in SUBSET Scope, SignSVID(caller, s)
        PROVE  WorkloadInv'
    BY <2>4, SignKeepsInv
  <2>5. CASE UNCHANGED workloadVars
    BY <2>5 DEF workloadVars, WorkloadInv, WorkloadTypeOK, BindingsDated, Bound,
                RequestsChecked, Deserved, Timely, Proven, ProxiesOnly, AudienceAllowedBy
  <2> QED
    BY <2>1, <2>2, <2>3, <2>4, <2>5 DEF WorkloadNext
<1> QED
  BY <1>1, <1>2, PTL DEF WorkloadSpec

(* Records, requests and SVIDs keep their types; a stored record always    *)
(* has a SPIFFE ID.                                                        *)
THEOREM WorkloadTypeCorrect == WorkloadSpec => []WorkloadTypeOK
BY WorkloadInvariant, PTL DEF WorkloadInv

(* Where only proxies may forward certificates, SVIDs go to holders of the *)
(* registered key alone.                                                   *)
THEOREM SVIDOnlyToKeyHolderTheorem == WorkloadSpec => []SVIDOnlyToKeyHolder
<1>1. WorkloadInv => SVIDOnlyToKeyHolder
  BY DEF WorkloadInv, Deserved, Proven, SVIDOnlyToKeyHolder
<1> QED
  BY <1>1, WorkloadInvariant, PTL

(* For any lifetime and time limit, only requests that read a binding      *)
(* while it was in force are served for it; those over HTTP leave nothing  *)
(* that outlives it by more than the two together.                         *)
THEOREM StopIssuingIsEffectiveTheorem == WorkloadSpec => []StopIssuingIsEffective
<1>1. WorkloadInv => StopIssuingIsEffective
  BY DEF WorkloadInv, Timely, StopIssuingIsEffective
<1> QED
  BY <1>1, WorkloadInvariant, PTL

(* An SVID grants no scope and no audience its registration does not.      *)
THEOREM SVIDWithinAllowanceTheorem == WorkloadSpec => []SVIDWithinAllowance
<1>1. WorkloadInv => SVIDWithinAllowance
  BY DEF WorkloadInv, Deserved, AudienceAllowedBy, SVIDWithinAllowance
<1> QED
  BY <1>1, WorkloadInvariant, PTL
=============================================================================
