--------------------------- MODULE GrantFlow_proofs ---------------------------
(***************************************************************************)
(* Theorems about GrantFlow, for every number of nodes, requests, handles  *)
(* and values: its types; that it implements CredentialChain; and, from an *)
(* invariant of their own, what the records of a login carry along and     *)
(* where spent and expired ones may turn up.                               *)
(***************************************************************************)
EXTENDS GrantFlow, TLAPS

(* What the locals of a request hold at each program counter.              *)
Located(q)    == q.pc # "idle" => q.at \in Node
Asking(q)     == /\ q.pc \in AuthorizePC => q.in \in AuthorizationRequest
                 /\ q.pc \in AuthorizePC \ {"listIDPs"} => q.in.idp \in IDP
Consuming(q)  == q.pc \in HolderPC \cup {"claim"} =>
                   q.tok \in Handle /\ rec[q.tok] # None
Configured(q) == q.pc \in {"fill", "mint"} => q.cfg \in AppConfig

GoodRequest(q) == /\ q \in Request
                  /\ Located(q)
                  /\ Asking(q)
                  /\ Consuming(q)
                  /\ Configured(q)

(* TypeOK without the requests.                                            *)
DataOK == /\ rec \in [Handle -> Session \cup {None}]
          /\ live \in SUBSET Handle
          /\ expired \in SUBSET Handle
          /\ issued \in SUBSET Handle
          /\ apps \in [App -> AppConfig \cup {None}]
          /\ idps \in [Org \X IDP -> Status]
          /\ appCache \in [Node -> [App -> AppConfig \cup {None}]]
          /\ resident \in [Node -> SUBSET Handle]
          /\ named \in [App -> SUBSET App]
          /\ presented \in [Node -> SUBSET Handle]
          /\ claimedBy \in [Handle -> Node \cup {None}]
          /\ faults \in 0 .. MaxFaults
          /\ edits \in 0 .. MaxEdits
          /\ \A h \in issued \cup live : rec[h] # None

RequestsOK == /\ req \in [Req -> Request]
              /\ \A r \in Req : GoodRequest(req[r])

TypeInv == DataOK /\ RequestsOK

(* The app a registration names is an app.                                 *)
LEMMA NamesAnApp ==
  ASSUME NEW a \in App, NEW c \in AppConfig
  PROVE  /\ NamedApp(a, c) \in App
         /\ NamedApp(a, c)[1] \in Org /\ NamedApp(a, c)[2] \in Client
<1>1. c.org \in Org \cup {None} /\ c.client \in Client \cup {None}
  BY ConfigAssumption DEF Config
<1>2. a[1] \in Org /\ a[2] \in Client
  BY DEF App
<1> QED
  BY <1>1, <1>2 DEF NamedApp, App

LEMMA IdleGood == GoodRequest(IdleRequest)
  BY DEF GoodRequest, IdleRequest, Request, Located, Asking, Consuming, Configured,
         PC, AuthorizePC, HolderPC

LEMMA TypeInit == Init => TypeInv
<1> SUFFICES ASSUME Init PROVE TypeInv
  OBVIOUS
<1>1. DataOK
  <2>1. appCache \in [Node -> [App -> AppConfig \cup {None}]]
    BY DEF Init
  <2>2. resident \in [Node -> SUBSET Handle]
    BY DEF Init
  <2>3. rec \in [Handle -> Session \cup {None}] /\ claimedBy \in [Handle -> Node \cup {None}]
    BY DEF Init
  <2>4. faults \in 0 .. MaxFaults /\ edits \in 0 .. MaxEdits
    BY BoundAssumption DEF Init
  <2>5. apps \in [App -> AppConfig \cup {None}] /\ presented \in [Node -> SUBSET Handle]
    BY InputAssumption DEF Init
  <2>6. named \in [App -> SUBSET App]
    BY <2>5, NamesAnApp DEF Init
  <2> QED
    BY <2>1, <2>2, <2>3, <2>4, <2>5, <2>6, InputAssumption DEF Init, DataOK
<1>2. RequestsOK
  BY IdleGood DEF Init, RequestsOK, GoodRequest
<1> QED
  BY <1>1, <1>2 DEF TypeInv

(* A recorded handle stays recorded, so a good request stays good.         *)
LEMMA GoodStays ==
  ASSUME NEW q, GoodRequest(q), \A h \in Handle : rec[h] # None => rec'[h] # None
  PROVE  GoodRequest(q)'
  BY DEF GoodRequest, Located, Asking, Consuming, Configured

(* A step that gives one request good locals keeps them good for all.      *)
LEMMA OneRequest ==
  ASSUME RequestsOK, NEW r \in Req, NEW q, GoodRequest(q)',
         req' = [req EXCEPT ![r] = q],
         \A h \in Handle : rec[h] # None => rec'[h] # None
  PROVE  RequestsOK'
<1>1. req' \in [Req -> Request]
  BY DEF RequestsOK, GoodRequest
<1>2. ASSUME NEW x \in Req PROVE GoodRequest(req[x])'
  <2>1. CASE x = r
    BY <2>1 DEF RequestsOK
  <2>2. CASE x # r
    BY <2>2, GoodStays DEF RequestsOK
  <2> QED BY <2>1, <2>2
<1> QED
  BY <1>1, <1>2 DEF RequestsOK

LEMMA ReplyGood ==
  ASSUME RequestsOK, NEW r \in Req, Reply(r),
         \A h \in Handle : rec[h] # None => rec'[h] # None
  PROVE  RequestsOK'
  BY IdleGood, GoodStays, OneRequest DEF Reply

(* Moving on within a handler.                                             *)
LEMMA GotoGood ==
  ASSUME RequestsOK, NEW r \in Req, NEW p \in PC, Goto(r, p), UNCHANGED rec,
         req[r].pc # "idle",
         p \in AuthorizePC => req[r].pc \in AuthorizePC \ {"listIDPs"},
         p \in HolderPC \cup {"claim"} => req[r].pc \in HolderPC \cup {"claim"},
         p \in {"fill", "mint"} => req[r].cfg \in AppConfig
  PROVE  RequestsOK'
<1> SUFFICES ASSUME NEW q, q = [req[r] EXCEPT !.pc = p] PROVE RequestsOK'
  OBVIOUS
<1>1. req[r] \in Request /\ GoodRequest(req[r])
  BY DEF RequestsOK, GoodRequest
<1>2. req' = [req EXCEPT ![r] = q]
  BY DEF Goto
<1>3. q \in Request
  BY <1>1 DEF Request
<1>4. /\ q.pc = p /\ q.at = req[r].at /\ q.in = req[r].in
      /\ q.tok = req[r].tok /\ q.cfg = req[r].cfg
  BY <1>1 DEF Request
<1>5. GoodRequest(q)
  BY <1>1, <1>3, <1>4 DEF GoodRequest, Located, Asking, Consuming, Configured
<1>6. GoodRequest(q)'
  BY <1>5, GoodStays
<1> QED
  BY <1>2, <1>6, OneRequest

(* A session write keeps the types, whether it is acknowledged or not.     *)
LEMMA PutGood ==
  ASSUME TypeInv, NEW r \in Req, req[r].at \in Node, NEW h \in Handle,
         NEW s \in Session, NEW b \in BOOLEAN, PutSession(r, h, s, b)
  PROVE  TypeInv'
<1>1. \A g \in Handle : rec[g] # None => rec'[g] # None
  BY SessionAssumption DEF PutSession, Store, TypeInv, DataOK
<1>2. RequestsOK'
  BY <1>1, ReplyGood DEF PutSession, TypeInv
<1>3. rec' \in [Handle -> Session \cup {None}] /\ live' \in SUBSET Handle
  BY DEF PutSession, Store, TypeInv, DataOK
<1>4. resident' \in [Node -> SUBSET Handle] /\ issued' \in SUBSET Handle
  BY DEF PutSession, Remember, TypeInv, DataOK
<1>5. faults' \in 0 .. MaxFaults
  BY BoundAssumption DEF PutSession, Fault, TypeInv, DataOK
<1>6. \A g \in issued' \cup live' : rec'[g] # None
  BY <1>1, SessionAssumption DEF PutSession, Store, TypeInv, DataOK
<1> QED
  BY <1>2, <1>3, <1>4, <1>5, <1>6 DEF PutSession, TypeInv, DataOK, config, spending

LEMMA PutFailedGood ==
  ASSUME TypeInv, NEW r \in Req, PutFailed(r) PROVE TypeInv'
<1>1. RequestsOK'
  BY ReplyGood DEF PutFailed, LocalStep, TypeInv, sessions
<1>2. faults' \in 0 .. MaxFaults
  BY BoundAssumption DEF PutFailed, Fault, TypeInv, DataOK
<1> QED
  BY <1>1, <1>2 DEF PutFailed, LocalStep, TypeInv, DataOK, sessions, config, spending

LEMMA FaultsCounted ==
  ASSUME TypeInv, UNCHANGED faults \/ Fault PROVE faults' \in 0 .. MaxFaults
  BY BoundAssumption DEF Fault, TypeInv, DataOK

LEMMA ResolvesCounted ==
  ASSUME NEW o, NEW c, NEW i, NEW s, ResolvesTo(o, c, i, s) PROVE UNCHANGED faults \/ Fault
  BY DEF ResolvesTo

(* A step that changes nothing but the requests and the faults.            *)
LEMMA LocalGood ==
  ASSUME TypeInv, LocalStep, UNCHANGED faults \/ Fault, RequestsOK' PROVE TypeInv'
  BY FaultsCounted DEF LocalStep, TypeInv, DataOK, sessions, config, spending

(* The names a grant takes from the loaded app.                            *)
LEMMA GrantNames ==
  ASSUME NEW s \in Session, NEW c \in AppConfig
  PROVE  /\ GrantOrg(s, c) \in Org /\ GrantClient(s, c) \in Client
         /\ <<GrantOrg(s, c), GrantClient(s, c)>> = NamedApp(AppOf(s), c)
<1>1. AppOf(s) \in App
  BY DEF Session, AppOf, App
<1> QED
  BY <1>1, NamesAnApp DEF GrantOrg, GrantClient, NamedApp

LEMMA TypeNext == TypeInv /\ [Next]_vars => TypeInv'
<1> SUFFICES ASSUME TypeInv, [Next]_vars PROVE TypeInv'
  OBVIOUS
<1>1. CASE UNCHANGED vars
  BY <1>1 DEF vars, TypeInv, DataOK, RequestsOK, GoodRequest, Located, Asking, Consuming,
              Configured
<1>2. ASSUME NEW r \in Req, NEW n \in Node, NEW q \in Asked, PrepareAuthorization(r, n, q)
      PROVE TypeInv'
  <2>1. PICK p \in {"resolveIDP", "listIDPs"}, i \in IDP \cup {None} :
          /\ req' = [req EXCEPT ![r] = [IdleRequest EXCEPT !.pc = p, !.at = n,
                                                          !.in = [q EXCEPT !.idp = i]]]
          /\ p = "resolveIDP" => i \in IDP
    <3>1. q \in AuthorizationRequest
      BY InputAssumption
    <3>2. apps[<<q.org, q.client>>] \in AppConfig
      BY <1>2, <3>1 DEF PrepareAuthorization, AuthorizationRequest, App, TypeInv, DataOK
    <3>3. apps[<<q.org, q.client>>].idps \in Seq(IDP)
      BY <3>2, ConfigAssumption DEF Config
    <3>4. CASE q.idp # None
      BY <1>2, <3>1, <3>4 DEF PrepareAuthorization, AuthorizationRequest
    <3>5. CASE q.idp = None /\ apps[<<q.org, q.client>>].idps # <<>>
      <4>1. apps[<<q.org, q.client>>].idps[1] \in IDP
        BY <3>3, <3>5
      <4> QED BY <1>2, <3>5, <4>1 DEF PrepareAuthorization
    <3>6. CASE q.idp = None /\ apps[<<q.org, q.client>>].idps = <<>>
      BY <1>2, <3>6 DEF PrepareAuthorization
    <3> QED BY <3>4, <3>5, <3>6
  <2>2. [q EXCEPT !.idp = i] \in AuthorizationRequest /\ [q EXCEPT !.idp = i].idp = i
    BY InputAssumption DEF AuthorizationRequest
  <2>3. GoodRequest([IdleRequest EXCEPT !.pc = p, !.at = n, !.in = [q EXCEPT !.idp = i]])
    BY <2>1, <2>2 DEF GoodRequest, IdleRequest, Request, Located, Asking, Consuming,
                      Configured, PC, AuthorizePC, HolderPC
  <2>4. RequestsOK'
    BY <1>2, <2>1, <2>3, GoodStays, OneRequest DEF PrepareAuthorization, LocalStep, sessions,
                                                   TypeInv
  <2> QED
    BY <1>2, <2>4, LocalGood DEF PrepareAuthorization
<1>3. ASSUME NEW r \in Req, NEW n \in Node, NEW h \in Handle,
             NEW q \in TokenRequest \cup {None}, NEW u \in User \cup {None},
             rec[h] # None, Present(r, n, h, q, u)
      PROVE TypeInv'
  <2>1. GoodRequest([IdleRequest EXCEPT !.pc = "claim", !.at = n, !.tok = h, !.in = q,
                                        !.who = u])
    BY <1>3 DEF GoodRequest, IdleRequest, Request, Located, Asking, Consuming, Configured,
                PC, AuthorizePC, HolderPC
  <2>2. UNCHANGED rec
    BY <1>3 DEF Present, sessions
  <2>3. RequestsOK'
    <3>1. CASE UNCHANGED req
      BY <2>2, <3>1, GoodStays DEF TypeInv, RequestsOK
    <3>2. CASE ~UNCHANGED req
      BY <1>3, <2>1, <2>2, <3>2, GoodStays, OneRequest DEF Present, TypeInv
    <3> QED BY <3>1, <3>2
  <2>4. resident' \in [Node -> SUBSET Handle] /\ presented' \in [Node -> SUBSET Handle]
    BY <1>3 DEF Present, EntryDropped, TypeInv, DataOK
  <2>5. faults' \in 0 .. MaxFaults
    BY <1>3, FaultsCounted DEF Present
  <2> QED
    BY <1>3, <2>3, <2>4, <2>5 DEF Present, TypeInv, DataOK, sessions, config
<1>4. ASSUME NEW r \in Req, NEW n \in Node, NEW s \in CacheScope, Edit(r, n, s),
             apps' \in [App -> AppConfig \cup {None}], idps' \in [Org \X IDP -> Status],
             named' \in [App -> SUBSET App]
      PROVE TypeInv'
  <2>1. GoodRequest([IdleRequest EXCEPT !.pc = "invalidate", !.at = n, !.in = s])
    BY DEF GoodRequest, IdleRequest, Request, Located, Asking, Consuming, Configured,
           PC, AuthorizePC, HolderPC
  <2>2. RequestsOK'
    BY <1>4, <2>1, GoodStays, OneRequest DEF Edit, TypeInv, sessions
  <2> QED
    BY <1>4, <2>2, BoundAssumption DEF Edit, TypeInv, DataOK, sessions, spending
<1>5. ASSUME NEW r \in Req, SelectIDP(r) PROVE TypeInv'
  <2>0. UNCHANGED faults \/ Fault
    BY <1>5 DEF SelectIDP
  <2>1. CASE Reply(r)
    BY <1>5, <2>0, <2>1, ReplyGood, LocalGood DEF SelectIDP, LocalStep, sessions, TypeInv
  <2>2. ASSUME NEW i \in IDP,
               req' = [req EXCEPT ![r].pc = "resolveIDP", ![r].in.idp = i]
        PROVE TypeInv'
    <3> SUFFICES ASSUME NEW q, q = [req[r] EXCEPT !.pc = "resolveIDP", !.in.idp = i]
                 PROVE TypeInv'
      OBVIOUS
    <3>1. req[r] \in Request /\ req[r].in \in AuthorizationRequest /\ req[r].at \in Node
      BY <1>5 DEF SelectIDP, TypeInv, RequestsOK, GoodRequest, Asking, Located, AuthorizePC
    <3>2. [req[r].in EXCEPT !.idp = i] \in AuthorizationRequest
      BY <3>1 DEF AuthorizationRequest
    <3>3. GoodRequest(q)
      BY <3>1, <3>2 DEF GoodRequest, Request, Located, Asking, Consuming, Configured,
                        PC, AuthorizePC, HolderPC, AuthorizationRequest
    <3>4. req' = [req EXCEPT ![r] = q]
      BY <2>2
    <3>5. RequestsOK'
      BY <1>5, <3>3, <3>4, GoodStays, OneRequest DEF SelectIDP, LocalStep, sessions, TypeInv
    <3> QED
      BY <1>5, <2>0, <3>5, LocalGood DEF SelectIDP
  <2> QED
    BY <1>5, <2>1, <2>2 DEF SelectIDP
<1>6. ASSUME NEW r \in Req, ResolveIDP(r) PROVE TypeInv'
  <2>0. UNCHANGED faults \/ Fault
    BY <1>6, ResolvesCounted DEF ResolveIDP
  <2>1. CASE Reply(r)
    BY <1>6, <2>0, <2>1, ReplyGood, LocalGood DEF ResolveIDP, LocalStep, sessions, TypeInv
  <2>2. ASSUME NEW p \in {"putState", "putStateBare"}, Goto(r, p) PROVE TypeInv'
    BY <1>6, <2>0, <2>2, GotoGood, LocalGood DEF ResolveIDP, LocalStep, sessions, TypeInv, PC,
                                           AuthorizePC, HolderPC
  <2> QED
    BY <1>6, <2>1, <2>2 DEF ResolveIDP
<1>7. ASSUME NEW r \in Req, PutState(r) PROVE TypeInv'
  <2>1. /\ req[r].at \in Node
        /\ req[r].in \in AuthorizationRequest
        /\ req[r].in.idp \in IDP
    BY <1>7 DEF PutState, TypeInv, RequestsOK, GoodRequest, Located, Asking, AuthorizePC
  <2>2. CASE PutFailed(r)
    BY <2>2, PutFailedGood
  <2>3. CASE ~PutFailed(r)
    <3> DEFINE State(h) == [kind |-> "state", org |-> req[r].in.org,
                 client |-> req[r].in.client, uri |-> req[r].in.uri,
                 challenge |-> req[r].in.challenge, idp |-> req[r].in.idp,
                 user |-> None, login |-> h, from |-> None]
    <3>1. PICK h \in Handle : PutSession(r, h, State(h), req[r].pc = "putState")
      BY <1>7, <2>3 DEF PutState
    <3>2. State(h) \in Session
      BY <2>1 DEF AuthorizationRequest, Session
    <3> QED
      BY <2>1, <3>1, <3>2, PutGood
  <2> QED
    BY <2>2, <2>3
<1>8. ASSUME NEW r \in Req, claimSingleUse(r) PROVE TypeInv'
  <2>1. RequestsOK'
    <3>1. CASE Reply(r)
      BY <1>8, <3>1, ReplyGood DEF claimSingleUse, TypeInv
    <3>2. CASE Goto(r, Claimed(r))
      <4>1. req[r].pc = "claim" /\ Claimed(r) \in {"load", "resolveCallback", "putMockCode"}
        BY <1>8 DEF claimSingleUse, Claimed
      <4> QED
        BY <1>8, <3>2, <4>1, GotoGood DEF claimSingleUse, TypeInv, PC, AuthorizePC, HolderPC
    <3> QED
      BY <1>8, <3>1, <3>2 DEF claimSingleUse
  <2>2. req[r].at \in Node /\ req[r].tok \in Handle
    BY <1>8 DEF claimSingleUse, TypeInv, RequestsOK, GoodRequest, Located, Consuming
  <2>3. /\ live' \in SUBSET live
        /\ claimedBy' \in [Handle -> Node \cup {None}]
        /\ faults' \in 0 .. MaxFaults
    BY <1>8, <2>2, BoundAssumption DEF claimSingleUse, TypeInv, DataOK, Fault
  <2> QED
    BY <1>8, <2>1, <2>3 DEF claimSingleUse, TypeInv, DataOK, config
<1>9. ASSUME NEW r \in Req, ProcessUpstreamCallback(r) PROVE TypeInv'
  <2>0. UNCHANGED faults \/ Fault
    BY <1>9, ResolvesCounted DEF ProcessUpstreamCallback
  <2>1. CASE Reply(r)
    BY <1>9, <2>0, <2>1, ReplyGood, LocalGood DEF ProcessUpstreamCallback, LocalStep, sessions,
                                            TypeInv
  <2>2. ASSUME NEW u \in User, req' = [req EXCEPT ![r].pc = "putCode", ![r].who = u]
        PROVE TypeInv'
    <3> SUFFICES ASSUME NEW q, q = [req[r] EXCEPT !.pc = "putCode", !.who = u]
                 PROVE TypeInv'
      OBVIOUS
    <3>1. GoodRequest(req[r]) /\ req[r].pc = "resolveCallback"
      BY <1>9 DEF ProcessUpstreamCallback, TypeInv, RequestsOK
    <3>2. GoodRequest(q)
      BY <3>1 DEF GoodRequest, Request, Located, Asking, Consuming, Configured,
                  PC, AuthorizePC, HolderPC
    <3>3. req' = [req EXCEPT ![r] = q] /\ UNCHANGED rec
      BY <1>9, <2>2, <3>1 DEF ProcessUpstreamCallback, LocalStep, sessions, TypeInv,
                              RequestsOK, GoodRequest, Request
    <3>4. RequestsOK'
      BY <3>2, <3>3, GoodStays, OneRequest DEF TypeInv
    <3> QED
      BY <1>9, <2>0, <3>4, LocalGood DEF ProcessUpstreamCallback
  <2> QED
    BY <1>9, <2>1, <2>2 DEF ProcessUpstreamCallback
<1>10. ASSUME NEW r \in Req, PutCode(r) PROVE TypeInv'
  <2>1. CASE PutFailed(r)
    BY <2>1, PutFailedGood
  <2>2. CASE ~PutFailed(r)
    <3> DEFINE s == rec[req[r].tok]
               code == [kind |-> "code", org |-> s.org, client |-> s.client,
                 uri |-> s.uri, challenge |-> CarriedChallenge(s),
                 idp |-> IF req[r].pc = "putCode" THEN s.idp ELSE MockIDP,
                 user |-> req[r].who, login |-> s.login, from |-> req[r].tok]
    <3>1. /\ req[r].at \in Node /\ req[r].tok \in Handle
          /\ s \in Session /\ req[r].who \in User \cup {None}
      BY <1>10 DEF PutCode, TypeInv, DataOK, RequestsOK, GoodRequest, Request, Located,
                   Consuming, HolderPC
    <3>2. code \in Session
      BY <3>1 DEF Session, CarriedChallenge
    <3>3. PICK h \in Handle : PutSession(r, h, code, TRUE)
      BY <1>10, <2>2 DEF PutCode
    <3> QED
      BY <3>1, <3>2, <3>3, PutGood
  <2> QED
    BY <2>1, <2>2
<1>11. ASSUME NEW r \in Req, NEW c \in AppConfig, AuthenticateClient(r, c),
              req[r].pc \in {"load", "fill"}, UNCHANGED rec
       PROVE RequestsOK'
  <2>1. CASE Reply(r)
    BY <1>11, <2>1, ReplyGood DEF TypeInv
  <2>2. CASE req' = [req EXCEPT ![r].pc = "mint", ![r].cfg = c]
    <3> SUFFICES ASSUME NEW q, q = [req[r] EXCEPT !.pc = "mint", !.cfg = c]
                 PROVE RequestsOK'
      OBVIOUS
    <3>1. GoodRequest(req[r])
      BY DEF TypeInv, RequestsOK
    <3>2. GoodRequest(q)
      BY <1>11, <3>1 DEF GoodRequest, Request, Located, Asking, Consuming, Configured,
                         PC, AuthorizePC, HolderPC
    <3> QED
      BY <1>11, <2>2, <3>2, GoodStays, OneRequest DEF TypeInv
  <2> QED
    BY <1>11, <2>1, <2>2 DEF AuthenticateClient
<1>12. ASSUME NEW r \in Req, req[r].pc \in HolderPC
       PROVE /\ req[r].at \in Node
             /\ rec[req[r].tok] \in Session
             /\ AppOf(rec[req[r].tok]) \in App
  BY <1>12 DEF TypeInv, DataOK, RequestsOK, GoodRequest, Located, Consuming, AppOf, App,
               Session, HolderPC
<1>13. ASSUME NEW r \in Req, LoadApplication(r) PROVE TypeInv'
  <2> DEFINE a == AppOf(rec[req[r].tok])
             cached == appCache[req[r].at][a]
  <2>1. /\ a \in App /\ apps[a] \in AppConfig \cup {None}
        /\ cached \in AppConfig \cup {None}
        /\ UNCHANGED rec /\ req[r].pc = "load"
    BY <1>12, <1>13 DEF LoadApplication, HolderPC, TypeInv, DataOK, sessions
  <2>2. RequestsOK'
    <3>1. CASE Reply(r)
      BY <2>1, <3>1, ReplyGood DEF TypeInv
    <3>2. CASE cached # None /\ AuthenticateClient(r, cached)
      BY <1>11, <2>1, <3>2
    <3>3. CASE apps[a] # None /\ req' = [req EXCEPT ![r].pc = "fill", ![r].cfg = apps[a]]
      <4> SUFFICES ASSUME NEW q, q = [req[r] EXCEPT !.pc = "fill", !.cfg = apps[a]]
                   PROVE RequestsOK'
        OBVIOUS
      <4>1. GoodRequest(req[r])
        BY DEF TypeInv, RequestsOK
      <4>2. GoodRequest(q)
        BY <2>1, <3>3, <4>1 DEF GoodRequest, Request, Located, Asking, Consuming,
                                Configured, PC, AuthorizePC, HolderPC
      <4> QED
        BY <2>1, <3>3, <4>2, GoodStays, OneRequest DEF TypeInv
    <3> QED
      BY <1>13, <3>1, <3>2, <3>3 DEF LoadApplication
  <2>3. faults' \in 0 .. MaxFaults
    BY <1>13, FaultsCounted DEF LoadApplication
  <2> QED
    BY <1>13, <2>2, <2>3 DEF LoadApplication, TypeInv, DataOK, sessions, config, spending
<1>14. ASSUME NEW r \in Req, FillCache(r) PROVE TypeInv'
  <2>1. req[r].cfg \in AppConfig /\ UNCHANGED rec
    BY <1>14 DEF FillCache, TypeInv, RequestsOK, GoodRequest, Configured, sessions
  <2>2. RequestsOK'
    BY <1>11, <1>14, <2>1 DEF FillCache
  <2>3. appCache' \in [Node -> [App -> AppConfig \cup {None}]]
    BY <1>12, <1>14, <2>1 DEF FillCache, HolderPC, TypeInv, DataOK
  <2> QED
    BY <1>14, <2>2, <2>3 DEF FillCache, TypeInv, DataOK, sessions, config, spending
<1>15. ASSUME NEW r \in Req, MintRefreshToken(r) PROVE TypeInv'
  <2>1. CASE PutFailed(r)
    BY <2>1, PutFailedGood
  <2>2. CASE ~PutFailed(r)
    <3> DEFINE s == rec[req[r].tok]
               c == req[r].cfg
               refresh == [kind |-> "refresh", org |-> GrantOrg(s, c), client |-> GrantClient(s, c),
                  uri |-> None, challenge |-> None, idp |-> s.idp,
                  user |-> s.user, login |-> s.login, from |-> req[r].tok]
    <3>1. /\ req[r].at \in Node /\ req[r].tok \in Handle /\ s \in Session
          /\ c \in AppConfig
      BY <1>15 DEF MintRefreshToken, TypeInv, DataOK, RequestsOK, GoodRequest, Located,
                   Consuming, Configured, HolderPC
    <3>2. refresh \in Session
      BY <3>1, GrantNames DEF Session
    <3>3. PICK h \in Handle : PutSession(r, h, refresh, TRUE)
      BY <1>15, <2>2 DEF MintRefreshToken
    <3> QED
      BY <3>1, <3>2, <3>3, PutGood
  <2> QED
    BY <2>1, <2>2
<1>16. ASSUME NEW r \in Req, Invalidate(r) PROVE TypeInv'
  <2>1. RequestsOK'
    BY <1>16, ReplyGood DEF Invalidate, TypeInv, sessions
  <2>2. appCache' \in [Node -> [App -> AppConfig \cup {None}]]
    BY <1>16 DEF Invalidate, TypeInv, DataOK
  <2> QED
    BY <1>16, <2>1, <2>2 DEF Invalidate, TypeInv, DataOK, sessions, config, spending
<1>17. ASSUME NEW h \in Handle, Expire(h) PROVE TypeInv'
  BY <1>17, GoodStays DEF Expire, TypeInv, DataOK, RequestsOK, sessions, config, spending
<1>18. ASSUME NEW n \in Node, NEW a \in App, CacheExpire(n, a) PROVE TypeInv'
  <2>1. appCache' \in [Node -> [App -> AppConfig \cup {None}]]
    BY <1>18 DEF CacheExpire, TypeInv, DataOK
  <2> QED
    BY <1>18, <2>1, GoodStays DEF CacheExpire, TypeInv, DataOK, RequestsOK, sessions, config, spending
<1>19. ASSUME NEW n \in Node, Crash(n) PROVE TypeInv'
  <2>1. RequestsOK'
    BY <1>19, IdleGood, GoodStays DEF Crash, TypeInv, RequestsOK, GoodRequest, sessions
  <2>2. appCache' \in [Node -> [App -> AppConfig \cup {None}]]
    BY <1>19 DEF Crash, TypeInv, DataOK
  <2>3. resident' \in [Node -> SUBSET Handle] /\ faults' \in 0 .. MaxFaults
    BY <1>19, BoundAssumption DEF Crash, Fault, TypeInv, DataOK
  <2> QED
    BY <1>19, <2>1, <2>2, <2>3 DEF Crash, TypeInv, DataOK, sessions, config, spending
<1>20. ASSUME NEW r \in Req, Arrive(r) PROVE TypeInv'
  <2> SUFFICES ASSUME NEW n \in Node,
                      \/ \E q \in Asked : PrepareAuthorization(r, n, q)
                      \/ PresentState(r, n)
                      \/ PresentToken(r, n)
                      \/ HandleApps(r, n)
                      \/ HandleIDPs(r, n)
               PROVE TypeInv'
    BY <1>20 DEF Arrive
  <2>1. CASE \E q \in Asked : PrepareAuthorization(r, n, q)
    BY <1>2, <2>1
  <2>2. CASE PresentState(r, n)
    BY <1>3, <2>2 DEF PresentState
  <2>3. CASE PresentToken(r, n)
    BY <1>3, <2>3, InputAssumption DEF PresentToken
  <2>4. CASE HandleApps(r, n)
    <3>1. PICK a \in App, c \in AppConfig :
            /\ apps' = [apps EXCEPT ![a] = c]
            /\ named' = [named EXCEPT ![a] = @ \cup {NamedApp(a, c)}]
            /\ Edit(r, n, [org |-> a[1], client |-> a[2]])
            /\ UNCHANGED idps
      BY <2>4 DEF HandleApps
    <3>2. [org |-> a[1], client |-> a[2]] \in CacheScope
      BY DEF CacheScope, App
    <3>3. apps' \in [App -> AppConfig \cup {None}] /\ named' \in [App -> SUBSET App]
      BY <3>1, NamesAnApp DEF TypeInv, DataOK
    <3> QED BY <1>4, <3>1, <3>2, <3>3 DEF TypeInv, DataOK
  <2>5. CASE HandleIDPs(r, n)
    <3>1. PICK o \in Org, i \in IDP, s \in WrittenStatus :
            /\ idps' = [idps EXCEPT ![<<o, i>>] = s]
            /\ Edit(r, n, [org |-> o, client |-> None])
            /\ UNCHANGED <<apps, named>>
      BY <2>5 DEF HandleIDPs
    <3>2. [org |-> o, client |-> None] \in CacheScope
      BY DEF CacheScope
    <3> QED BY <1>4, <3>1, <3>2 DEF TypeInv, DataOK, Status
  <2> QED
    BY <2>1, <2>2, <2>3, <2>4, <2>5
<1> QED
  BY <1>1, <1>5, <1>6, <1>7, <1>8, <1>9, <1>10, <1>13, <1>14, <1>15, <1>16, <1>17, <1>18,
     <1>19, <1>20
  DEF Next, Serve, Environment

(* The values of every variable, in particular of each request's locals at *)
(* each program counter, are those the handlers give them.                 *)
THEOREM TypeCorrect == Spec => []TypeOK
<1>1. TypeInv => TypeOK
  BY DEF TypeInv, DataOK, RequestsOK, TypeOK
<1> QED
  BY <1>1, TypeInit, TypeNext, PTL DEF Spec

-----------------------------------------------------------------------------
(* A handle that a request has claimed is out of storage, and no other     *)
(* request has claimed it.  This is what the conditional delete buys.      *)
Holds(r) == req[r].pc \in HolderPC

HoldersOK == /\ \A r \in Req : Holds(r) => req[r].tok \notin live
             /\ \A r, x \in Req : Holds(r) /\ Holds(x) /\ req[r].tok = req[x].tok => r = x

(* A step that neither claims nor stores: some requests may let go of what *)
(* they hold.                                                              *)
LEMMA LoseStep ==
  ASSUME HoldersOK, UNCHANGED <<rec, live>>,
         \A x \in Req : Holds(x)' => Holds(x) /\ req'[x].tok = req[x].tok
  PROVE  HoldersOK' /\ Chain!Lose
<1>1. HoldersOK'
  BY DEF HoldersOK, Holds
<1>2. Held' \in SUBSET Held
  BY DEF Held, Holds
<1> QED
  BY <1>1, <1>2 DEF Chain!Lose

(* The delete that lands: the request keeps the handle, or loses it.       *)
LEMMA TakeStep ==
  ASSUME TypeInv, HoldersOK, NEW r \in Req, req[r].pc = "claim", req[r].tok \in live,
         live' = live \ {req[r].tok}, UNCHANGED rec,
         Reply(r) \/ Goto(r, Claimed(r))
  PROVE  HoldersOK' /\ Chain!Take(req[r].tok)
<1> DEFINE h == req[r].tok
<1>1. /\ \A x \in Req : x # r => req'[x] = req[x]
      /\ req'[r] \in Request
      /\ Holds(r)' => req'[r].tok = h
      /\ ~Holds(r)
  BY DEF TypeInv, RequestsOK, GoodRequest, Reply, Goto, IdleRequest, Request, Claimed,
         Holds, HolderPC, PC, AuthorizePC
<1>2. \A x \in Req : Holds(x) => x # r /\ req[x].tok # h
  BY <1>1 DEF HoldersOK, Holds
<1>3. HoldersOK'
  BY <1>1, <1>2 DEF HoldersOK, Holds
<1>4. Held' = Held \cup {h} \/ Held' = Held
  <2>1. CASE Holds(r)'
    <3>1. Held' = Held \cup {h}
      BY <1>1, <2>1 DEF Held, Holds
    <3> QED BY <3>1
  <2>2. CASE ~Holds(r)'
    <3>1. Held' = Held
      BY <1>1, <2>2 DEF Held, Holds
    <3> QED BY <3>1
  <2> QED BY <2>1, <2>2
<1> QED
  BY <1>3, <1>4 DEF Chain!Take

(* A session write by a request that holds nothing begins a chain; by one  *)
(* that holds a record, it puts the successor in its place.                *)
LEMMA PutStep ==
  ASSUME TypeInv, HoldersOK, NEW r \in Req, NEW h \in Handle, NEW s \in Session,
         NEW b, PutSession(r, h, s, b),
         IF Holds(r) THEN s.from = req[r].tok /\ s.login = rec[req[r].tok].login
                     ELSE s.from = None /\ s.login = h
  PROVE  HoldersOK' /\ Chain!Next
<1>1. /\ rec[h] = None
      /\ rec' = [rec EXCEPT ![h] = s]
      /\ live' = live \cup {h}
      /\ \A x \in Req : x # r => req'[x] = req[x]
      /\ ~Holds(r)'
  BY DEF PutSession, Store, Reply, IdleRequest, TypeInv, RequestsOK, Holds, HolderPC
<1>2. \A x \in Req : Holds(x) => req[x].tok \in Handle /\ rec[req[x].tok] # None
  BY DEF TypeInv, RequestsOK, GoodRequest, Consuming, Holds
<1>3. HoldersOK'
  BY <1>1, <1>2 DEF HoldersOK, Holds
<1>4. rec \in [Handle -> Session \cup {None}] /\ s # None
  BY SessionAssumption DEF TypeInv, DataOK
<1> DEFINE L == [g \in Handle |-> IF rec[g] = None THEN None ELSE rec[g].login]
           F == [g \in Handle |-> IF rec[g] = None THEN None ELSE rec[g].from]
<1>5. L' = [L EXCEPT ![h] = s.login] /\ F' = [F EXCEPT ![h] = s.from] /\ L[h] = None
  BY <1>1, <1>4
<1>6. CASE Holds(r)
  <2>1. Held' = Held \ {req[r].tok} /\ req[r].tok \in Held
    BY <1>1, <1>6 DEF Held, HoldersOK, Holds
  <2>2. L[req[r].tok] = s.login /\ s.from = req[r].tok
    BY <1>2, <1>6
  <2>3. Chain!Replace(req[r].tok, h)
    BY <1>1, <1>5, <2>1, <2>2 DEF Chain!Replace
  <2> QED
    BY <1>2, <1>3, <1>6, <2>3 DEF Chain!Next
<1>7. CASE ~Holds(r)
  <2>1. Held' = Held
    BY <1>1, <1>7 DEF Held, Holds
  <2>2. F' = F
    BY <1>4, <1>5, <1>7, <1>1
  <2>3. Chain!Begin(h)
    BY <1>1, <1>5, <1>7, <2>1, <2>2 DEF Chain!Begin
  <2> QED
    BY <1>3, <2>3 DEF Chain!Next
<1> QED
  BY <1>6, <1>7

(* Every step is a step of the chain, or none.                             *)
LEMMA ChainStep ==
  ASSUME TypeInv, HoldersOK, [Next]_vars
  PROVE  HoldersOK' /\ [Chain!Next]_Chain!vars
<1> DEFINE Loses == /\ UNCHANGED <<rec, live>>
                    /\ \A x \in Req : Holds(x)' => Holds(x) /\ req'[x].tok = req[x].tok
<1>1. Loses => HoldersOK' /\ Chain!Next
  BY LoseStep DEF Chain!Next
<1>2. CASE UNCHANGED vars
  <2>1. Loses
    BY <1>2 DEF vars, Holds
  <2> QED BY <1>1, <2>1
<1>3. ASSUME NEW r \in Req, NEW q \in Request, q.pc \notin HolderPC \/ (Holds(r) /\ q.tok = req[r].tok),
             req' = [req EXCEPT ![r] = q], UNCHANGED <<rec, live>>
      PROVE Loses
  BY <1>3 DEF Holds, TypeInv, RequestsOK
<1>4. ASSUME NEW r \in Req, Reply(r), UNCHANGED <<rec, live>> PROVE Loses
  BY <1>4 DEF Reply, IdleRequest, Holds, HolderPC, TypeInv, RequestsOK
<1>5. ASSUME NEW r \in Req, Idle(r), UNCHANGED <<rec, live>>,
             \A x \in Req : x # r => req'[x] = req[x],
             req'[r].pc \notin HolderPC
      PROVE Loses
  BY <1>5 DEF Holds
<1>6. ASSUME NEW r \in Req, Arrive(r) PROVE Loses
  <2> SUFFICES ASSUME NEW n \in Node,
                      \/ \E q \in Asked : PrepareAuthorization(r, n, q)
                      \/ PresentState(r, n)
                      \/ PresentToken(r, n)
                      \/ HandleApps(r, n)
                      \/ HandleIDPs(r, n)
               PROVE Loses
    BY <1>6 DEF Arrive
  <2>1. CASE \E q \in Asked : PrepareAuthorization(r, n, q)
    <3>1. PICK q \in Asked : PrepareAuthorization(r, n, q)
      BY <2>1
    <3>2. \E p \in {"resolveIDP", "listIDPs"} : \E i :
            req' = [req EXCEPT ![r] = [IdleRequest EXCEPT !.pc = p, !.at = n,
                                                          !.in = [q EXCEPT !.idp = i]]]
      BY <3>1 DEF PrepareAuthorization
    <3>3. /\ req'[r].pc \in {"resolveIDP", "listIDPs"}
          /\ \A x \in Req : x # r => req'[x] = req[x]
      BY <3>2 DEF IdleRequest, TypeInv, RequestsOK
    <3> QED
      BY <1>5, <3>1, <3>3 DEF PrepareAuthorization, LocalStep, sessions, HolderPC
  <2>2. ASSUME NEW h \in Handle, NEW q, NEW u, Present(r, n, h, q, u) PROVE Loses
    BY <1>5, <2>2 DEF Present, sessions, IdleRequest, HolderPC, Idle, TypeInv, RequestsOK
  <2>3. ASSUME NEW s, Edit(r, n, s) PROVE Loses
    BY <1>5, <2>3 DEF Edit, sessions, IdleRequest, HolderPC, TypeInv, RequestsOK
  <2> QED
    BY <2>1, <2>2, <2>3 DEF PresentState, PresentToken, HandleApps, HandleIDPs
<1>7. ASSUME NEW r \in Req, SelectIDP(r) \/ ResolveIDP(r) PROVE Loses
  BY <1>7 DEF SelectIDP, ResolveIDP, Goto, Reply, LocalStep, sessions, IdleRequest, Holds,
              HolderPC, TypeInv, RequestsOK, Request
<1>8. ASSUME NEW r \in Req, ProcessUpstreamCallback(r) PROVE Loses
  BY <1>8 DEF ProcessUpstreamCallback, Reply, LocalStep, sessions, IdleRequest, Holds,
              HolderPC, TypeInv, RequestsOK, Request
<1>9. ASSUME NEW r \in Req, LoadApplication(r) \/ FillCache(r) PROVE Loses
  BY <1>9 DEF LoadApplication, FillCache, AuthenticateClient, Reply, sessions, IdleRequest,
              Holds, HolderPC, TypeInv, RequestsOK, Request
<1>10. ASSUME NEW r \in Req, Invalidate(r) PROVE Loses
  BY <1>4, <1>10 DEF Invalidate, sessions
<1>11. ASSUME NEW r \in Req, PutFailed(r) PROVE Loses
  BY <1>4, <1>11 DEF PutFailed, LocalStep, sessions
<1>12. ASSUME NEW r \in Req, claimSingleUse(r) PROVE HoldersOK' /\ Chain!Next
  <2>1. CASE UNCHANGED live
    <3>1. Reply(r) /\ UNCHANGED rec
      <4>1. req[r].tok \in live => req[r].tok \notin live \ {req[r].tok}
        OBVIOUS
      <4> QED BY <1>12, <2>1, <4>1 DEF claimSingleUse, CanDelete
    <3> QED BY <1>1, <1>4, <2>1, <3>1
  <2>2. CASE ~UNCHANGED live
    <3>1. /\ req[r].pc = "claim" /\ req[r].tok \in live
          /\ live' = live \ {req[r].tok} /\ UNCHANGED rec
          /\ Reply(r) \/ Goto(r, Claimed(r))
      BY <1>12, <2>2 DEF claimSingleUse, CanDelete
    <3>2. HoldersOK' /\ Chain!Take(req[r].tok)
      BY <3>1, TakeStep
    <3>3. req[r].tok \in Handle
      BY <3>1 DEF TypeInv, DataOK
    <3> QED BY <3>2, <3>3 DEF Chain!Next
  <2> QED BY <2>1, <2>2
<1>13. ASSUME NEW r \in Req, PutState(r) PROVE HoldersOK' /\ Chain!Next
  <2>1. CASE PutFailed(r)
    BY <1>1, <1>11, <2>1
  <2>2. CASE ~PutFailed(r)
    <3> DEFINE State(h) == [kind |-> "state", org |-> req[r].in.org,
                 client |-> req[r].in.client, uri |-> req[r].in.uri,
                 challenge |-> req[r].in.challenge, idp |-> req[r].in.idp,
                 user |-> None, login |-> h, from |-> None]
    <3>1. PICK h \in Handle : PutSession(r, h, State(h), req[r].pc = "putState")
      BY <1>13, <2>2 DEF PutState
    <3>2. req[r].in \in AuthorizationRequest /\ req[r].in.idp \in IDP /\ ~Holds(r)
      BY <1>13 DEF PutState, TypeInv, RequestsOK, GoodRequest, Asking, AuthorizePC,
                   Holds, HolderPC
    <3>3. State(h) \in Session /\ State(h).login = h /\ State(h).from = None
      BY <3>2 DEF AuthorizationRequest, Session
    <3> QED BY <3>1, <3>2, <3>3, PutStep
  <2> QED BY <2>1, <2>2
<1>14. ASSUME NEW r \in Req, PutCode(r) PROVE HoldersOK' /\ Chain!Next
  <2>1. CASE PutFailed(r)
    BY <1>1, <1>11, <2>1
  <2>2. CASE ~PutFailed(r)
    <3> DEFINE s == rec[req[r].tok]
               code == [kind |-> "code", org |-> s.org, client |-> s.client,
                 uri |-> s.uri, challenge |-> CarriedChallenge(s),
                 idp |-> IF req[r].pc = "putCode" THEN s.idp ELSE MockIDP,
                 user |-> req[r].who, login |-> s.login, from |-> req[r].tok]
    <3>1. PICK h \in Handle : PutSession(r, h, code, TRUE)
      BY <1>14, <2>2 DEF PutCode
    <3>2. /\ Holds(r) /\ req[r].tok \in Handle
          /\ s \in Session /\ req[r].who \in User \cup {None}
      BY <1>14 DEF PutCode, TypeInv, DataOK, RequestsOK, GoodRequest, Request, Consuming,
                   Holds, HolderPC
    <3>3. code \in Session /\ code.login = s.login /\ code.from = req[r].tok
      BY <3>2 DEF Session, CarriedChallenge
    <3> HIDE DEF code
    <3> QED BY <3>1, <3>2, <3>3, PutStep
  <2> QED BY <2>1, <2>2
<1>15. ASSUME NEW r \in Req, MintRefreshToken(r) PROVE HoldersOK' /\ Chain!Next
  <2>1. CASE PutFailed(r)
    BY <1>1, <1>11, <2>1
  <2>2. CASE ~PutFailed(r)
    <3> DEFINE s == rec[req[r].tok]
               c == req[r].cfg
               refresh == [kind |-> "refresh", org |-> GrantOrg(s, c), client |-> GrantClient(s, c),
                  uri |-> None, challenge |-> None, idp |-> s.idp,
                  user |-> s.user, login |-> s.login, from |-> req[r].tok]
    <3>1. PICK h \in Handle : PutSession(r, h, refresh, TRUE)
      BY <1>15, <2>2 DEF MintRefreshToken
    <3>2. Holds(r) /\ req[r].tok \in Handle /\ s \in Session /\ c \in AppConfig
      BY <1>15 DEF MintRefreshToken, TypeInv, DataOK, RequestsOK, GoodRequest, Consuming,
                   Configured, Holds, HolderPC
    <3>3. refresh \in Session /\ refresh.login = s.login /\ refresh.from = req[r].tok
      BY <3>2, GrantNames DEF Session
    <3> HIDE DEF refresh
    <3> QED BY <3>1, <3>2, <3>3, PutStep
  <2> QED BY <2>1, <2>2
<1>16. CASE Environment
  <2>1. ASSUME NEW h \in Handle, Expire(h) PROVE Loses
    BY <2>1 DEF Expire, sessions, Holds
  <2>2. ASSUME NEW n \in Node, NEW a \in App, CacheExpire(n, a) PROVE Loses
    BY <2>2 DEF CacheExpire, sessions, Holds
  <2>3. ASSUME NEW n \in Node, Crash(n) PROVE Loses
    BY <2>3 DEF Crash, sessions, IdleRequest, Holds, HolderPC
  <2> QED BY <1>1, <1>16, <2>1, <2>2, <2>3 DEF Environment
<1> HIDE DEF Loses
<1> QED
  BY <1>1, <1>2, <1>6, <1>7, <1>8, <1>9, <1>10, <1>12, <1>13, <1>14, <1>15, <1>16
  DEF Next, Serve

(* The multi-node grant flow implements the promise of CredentialChain,    *)
(* whatever the interleaving of its storage calls, their failures and the  *)
(* crashes of nodes.                                                       *)
THEOREM GrantFlowImplementsChain == Spec => ImplementsChain
<1>1. Init => Chain!Init
  BY DEF Init, Chain!Init, Held, IdleRequest, HolderPC
<1>2. Init => HoldersOK
  BY DEF Init, HoldersOK, Holds, IdleRequest, HolderPC
<1>3. TypeInv /\ HoldersOK /\ [Next]_vars => HoldersOK' /\ [Chain!Next]_Chain!vars
  BY ChainStep
<1> QED
  BY <1>1, <1>2, <1>3, TypeInit, TypeNext, PTL DEF Spec, ImplementsChain, Chain!Spec

(* claimSingleUse lets at most one request build on a record: no state     *)
(* yields two codes, no code or refresh token two token sets.              *)
THEOREM NoForksTheorem == Spec => []NoForks
<1>1. ImplementsChain => [](Chain!OneEnd /\ Chain!Unforked)
  BY Chain!ChainSafety, HandleAssumption DEF ImplementsChain
<1>2. TypeInv /\ Chain!Unforked => NoForks
  BY DEF Chain!Unforked, NoForks, Recorded
<1> QED
  BY <1>1, <1>2, TypeInit, TypeNext, GrantFlowImplementsChain, PTL DEF Spec

(* A login never has two usable records: rotation and redemption leave no  *)
(* older one behind, on any node.                                          *)
THEOREM OneCredentialTheorem == Spec => []OneCredentialPerLogin
<1>1. ImplementsChain => [](Chain!OneEnd /\ Chain!Unforked)
  BY Chain!ChainSafety, HandleAssumption DEF ImplementsChain
<1>2. TypeInv => \A h \in live \cup Held : h \in Handle /\ rec[h] # None
  BY DEF TypeInv, DataOK, RequestsOK, GoodRequest, Consuming, Held
<1>3. TypeInv /\ Chain!OneEnd => OneCredentialPerLogin
  BY <1>2 DEF Chain!OneEnd, OneCredentialPerLogin
<1> QED
  BY <1>1, <1>3, TypeInit, TypeNext, GrantFlowImplementsChain, PTL DEF Spec

-----------------------------------------------------------------------------
(* What records carry, and where spent ones may turn up: one invariant,    *)
(* BindInv, serves the four theorems at the end.                           *)

Spent(h) == h \notin live \cup expired

(* A record agrees with the one its login began with, and with the one it  *)
(* was exchanged for, which is spent for good.  A refresh token is for an  *)
(* app that the registration of its predecessor's app has named.           *)
RootedAt(s) ==
  LET root == rec[s.login]
      prev == rec[s.from]
  IN /\ root # None
     /\ s.kind # "refresh" => /\ AppOf(s) = AppOf(root)
                              /\ s.challenge = root.challenge /\ s.uri = root.uri
     /\ s.kind = "state" => s.idp = root.idp
     /\ s.kind = "code" => s.idp \in {root.idp, MockIDP} /\ s.user # None
     /\ s.kind = "refresh" => /\ AppOf(s) \in named[AppOf(prev)]
                              /\ s.user = prev.user /\ s.idp = prev.idp
     /\ s.from = None <=> s.kind = "state"
     /\ s.from # None => prev # None /\ Spent(s.from)

Rooted == \A h \in Handle : rec[h] # None => RootedAt(rec[h])

(* What was claimed is a record that is gone from storage; what was        *)
(* presented at a node is a record that the node does not keep.            *)
Maps == /\ \A h \in Handle : claimedBy[h] # None => rec[h] # None /\ h \notin live
        /\ \A n \in Node : \A h \in presented[n] : rec[h] # None
        /\ SpentHereIsGone

(* Every registration, stored, cached or in the hands of a request, is one *)
(* that was stored under its app's key.                                    *)
NamedBy(a, c) == NamedApp(a, c) \in named[a]
Registered ==
  \A a \in App : /\ apps[a] # None => NamedBy(a, apps[a])
                 /\ \A n \in Node : appCache[n][a] # None => NamedBy(a, appCache[n][a])

(* What a request has in hand: past its claim the record is spent and of   *)
(* the kind that the handler exchanges; the loaded app is a registered one *)
(* and tokens are minted only after authentication.                        *)
Holding(q) == q.pc \in HolderPC => Spent(q.tok)
Loaded(q)  == q.pc \in {"fill", "mint"} => NamedBy(AppOf(rec[q.tok]), q.cfg)
Stage(q) ==
  LET s == rec[q.tok]
  IN /\ q.pc = "claim" /\ s.kind # "state" => q.in \in Presented
     /\ q.pc \in {"resolveCallback", "putCode", "putMockCode"} => s.kind = "state"
     /\ q.pc \in {"putCode", "putMockCode"} => q.who \in User
     /\ q.pc \in {"load", "fill", "mint"} => s.kind # "state" /\ q.in \in Presented
     /\ q.pc = "mint" => ClientAuthenticated(s, q.cfg, q.in)

Fine(q) == Holding(q) /\ Loaded(q) /\ Stage(q)

BindInv == Rooted /\ Maps /\ \A r \in Req : Fine(req[r])

RecInv == TypeInv /\ Registered /\ BindInv

-----------------------------------------------------------------------------
(* The invariant says what the properties say, and more.                   *)
LEMMA BoundChains == RecInv => ChainKeepsBinding /\ ExpiredNeverHonoured /\ SpentHereIsGone
<1> SUFFICES ASSUME RecInv
             PROVE  ChainKeepsBinding /\ ExpiredNeverHonoured /\ SpentHereIsGone
  OBVIOUS
<1>1. ASSUME NEW h \in Recorded
      PROVE  rec[h] \in Session /\ RootedAt(rec[h])
  BY <1>1 DEF RecInv, BindInv, Rooted, Recorded, TypeInv, DataOK
<1>2. ChainKeepsBinding
  BY <1>1 DEF ChainKeepsBinding, RootedAt
<1>3. ExpiredNeverHonoured
  <2>1. None \notin expired
    BY HandleAssumption DEF RecInv, TypeInv, DataOK
  <2> QED
    BY <1>1, <2>1 DEF ExpiredNeverHonoured, RootedAt, Spent
<1> QED
  BY <1>2, <1>3 DEF RecInv, BindInv, Maps

LEMMA ProvenGrants == RecInv => ProofOfPossession
<1> SUFFICES ASSUME RecInv, NEW r \in Req, req[r].pc = "mint",
                    rec[req[r].tok].kind = "code"
             PROVE  LET q == req[r].in
                        s == rec[req[r].tok]
                        c == req[r].cfg
                    IN IF rec[s.login].challenge # None
                       THEN /\ q.verifier \in Verifier \ ShortVerifier
                            /\ rec[s.login].challenge = S256Challenge(q.verifier)
                       ELSE c.secret # None /\ q.secret = c.secret
  BY DEF ProofOfPossession
<1> DEFINE q == req[r].in
           s == rec[req[r].tok]
           c == req[r].cfg
<1>1. /\ q \in Presented /\ q.verifier \in Verifier \cup {None}
      /\ ClientAuthenticated(s, c, q)
  BY InputAssumption DEF RecInv, BindInv, Fine, Stage, TokenRequest
<1>2. s # None /\ req[r].tok \in Handle
  BY DEF RecInv, TypeInv, RequestsOK, GoodRequest, Consuming, HolderPC
<1>3. s.challenge = rec[s.login].challenge
  BY <1>2 DEF RecInv, BindInv, Rooted, RootedAt
<1> QED
  BY <1>1, <1>3 DEF ClientAuthenticated, verifyPKCE, IsPublicClient

-----------------------------------------------------------------------------
LEMMA BindInit == Init => BindInv
  BY DEF Init, BindInv, Rooted, Maps, SpentHereIsGone, Fine, Holding, Loaded, Stage,
         IdleRequest, HolderPC

(* A request that neither claims nor holds promises nothing.               *)
LEMMA Harmless ==
  ASSUME NEW q, q.pc \notin HolderPC \cup {"claim"} PROVE Fine(q)'
  BY DEF Fine, Holding, Loaded, Stage, HolderPC

(* No step but a session write gives storage, the expired or the maps      *)
(* anything that could spoil what holds already; what is presented leaves  *)
(* the map, and what a registration has named stays named.                 *)
Settles == /\ UNCHANGED rec
           /\ live' \subseteq live
           /\ expired' \subseteq expired \cup live
           /\ \A n \in Node :
                /\ resident'[n] \subseteq resident[n]
                /\ \A h \in presented'[n] :
                     h \in presented[n] \/ (rec[h] # None /\ h \notin resident'[n])
           /\ \A a \in App : named[a] \subseteq named'[a]

LEMMA RootsStay == ASSUME TypeInv, Rooted, Settles PROVE Rooted'
<1> SUFFICES ASSUME NEW h \in Handle, rec[h] # None PROVE RootedAt(rec[h])'
  BY DEF Rooted, Settles
<1>1. RootedAt(rec[h]) /\ rec[h] \in Session
  BY DEF Rooted, TypeInv, DataOK
<1>2. rec[h].kind = "refresh" => AppOf(rec[rec[h].from]) \in App
  BY <1>1 DEF RootedAt, Session, TypeInv, DataOK, AppOf, App
<1> QED
  BY <1>1, <1>2 DEF RootedAt, Settles, Spent, AppOf

LEMMA MapsStay == ASSUME Maps, Settles, UNCHANGED claimedBy PROVE Maps'
  BY DEF Maps, SpentHereIsGone, Settles

(* The app of a record in hand.                                            *)
LEMMA HeldApp ==
  ASSUME TypeInv, NEW q, GoodRequest(q), q.pc \in HolderPC
  PROVE  AppOf(rec[q.tok]) \in App
  BY DEF TypeInv, DataOK, GoodRequest, Consuming, Session, AppOf, App

LEMMA FineStays ==
  ASSUME TypeInv, NEW q, GoodRequest(q), Fine(q), Settles PROVE Fine(q)'
<1>1. Holding(q)'
  BY DEF Fine, Holding, Settles, Spent
<1>2. Loaded(q)'
  <2> SUFFICES ASSUME q.pc \in {"fill", "mint"} PROVE NamedBy(AppOf(rec[q.tok]), q.cfg)'
    BY DEF Loaded
  <2>1. AppOf(rec[q.tok]) \in App
    BY HeldApp DEF HolderPC
  <2> QED
    BY <2>1 DEF Fine, Loaded, NamedBy, NamedApp, AppOf, Settles
<1>3. Stage(q)'
  BY DEF Fine, Stage, Settles
<1> QED
  BY <1>1, <1>2, <1>3 DEF Fine

(* A step of no request.                                                   *)
LEMMA Rests == ASSUME RecInv, Settles, UNCHANGED <<claimedBy, req>> PROVE BindInv'
<1>1. Rooted' /\ Maps'
  BY RootsStay, MapsStay DEF RecInv, BindInv
<1>2. ASSUME NEW x \in Req PROVE Fine(req[x])'
  <2>1. GoodRequest(req[x]) /\ Fine(req[x])
    BY DEF RecInv, BindInv, TypeInv, RequestsOK
  <2> QED BY <2>1, FineStays DEF RecInv
<1> QED
  BY <1>1, <1>2 DEF BindInv

(* A step of one request, with the maps as they were or smaller.           *)
LEMMA OneMoves ==
  ASSUME RecInv, Settles, UNCHANGED claimedBy, NEW r \in Req,
         \A x \in Req \ {r} : req'[x] = req[x],
         Fine(req[r])' \/ req'[r] = req[r]
  PROVE  BindInv'
<1>1. Rooted'
  BY RootsStay DEF RecInv, BindInv
<1>2. Maps'
  BY MapsStay DEF RecInv, BindInv
<1>3. \A x \in Req : GoodRequest(req[x]) /\ Fine(req[x])
  BY DEF RecInv, BindInv, TypeInv, RequestsOK
<1>4. ASSUME NEW x \in Req PROVE Fine(req[x])'
  <2>1. CASE req'[x] = req[x]
    BY <1>3, <2>1, FineStays DEF RecInv
  <2>2. CASE req'[x] # req[x]
    <3>1. x = r /\ Fine(req[r])'
      BY <2>2
    <3> QED BY <3>1
  <2> QED
    BY <2>1, <2>2
<1> QED
  BY <1>1, <1>2, <1>4 DEF BindInv

(* A session write keeps the invariant if the new record agrees with the   *)
(* one it replaces.                                                        *)
Succeeds(h, s) ==
  LET prev == rec[s.from]
  IN \/ s.kind = "state" /\ s.login = h /\ s.from = None
     \/ /\ s.from \in Handle /\ prev # None /\ Spent(s.from)
        /\ s.login = prev.login
        /\ \/ /\ s.kind = "code" /\ prev.kind = "state" /\ s.user # None
              /\ AppOf(s) = AppOf(prev) /\ s.idp \in {prev.idp, MockIDP}
              /\ s.challenge = prev.challenge /\ s.uri = prev.uri
           \/ /\ s.kind = "refresh" /\ s.user = prev.user /\ s.idp = prev.idp
              /\ AppOf(s) \in named[AppOf(prev)]

LEMMA PutBinds ==
  ASSUME RecInv, NEW r \in Req, req[r].at \in Node, NEW h \in Handle, NEW s \in Session,
         NEW b, PutSession(r, h, s, b), Succeeds(h, s)
  PROVE  BindInv'
<1>1. /\ rec[h] = None /\ rec' = [rec EXCEPT ![h] = s] /\ s # None
      /\ live' = live \cup {h} /\ UNCHANGED <<expired, claimedBy, presented, named>>
      /\ \A n \in Node : resident'[n] \subseteq resident[n] \cup {h}
      /\ \A x \in Req : x # r => req'[x] = req[x]
      /\ req'[r] = IdleRequest
  BY SessionAssumption DEF PutSession, Store, Remember, Reply, RecInv, TypeInv, DataOK,
                           RequestsOK, config, spending
<1>2. /\ rec \in [Handle -> Session \cup {None}] /\ h \notin live
      /\ rec'[h] = s /\ \A g \in Handle \ {h} : rec'[g] = rec[g]
  BY <1>1 DEF RecInv, TypeInv, DataOK
<1>3. \A g \in Handle : rec[g] # None => g # h /\ rec'[g] = rec[g] /\ (Spent(g) => Spent(g)')
  BY <1>1, <1>2 DEF Spent
<1>4. Rooted'
  <2>1. ASSUME NEW g \in Handle, rec[g] # None PROVE RootedAt(rec[g])'
    <3>1. RootedAt(rec[g]) /\ rec[g] \in Session /\ rec'[g] = rec[g]
      BY <1>2, <1>3, <2>1 DEF RecInv, BindInv, Rooted
    <3>2. AppOf(rec'[g]) = AppOf(rec[g]) /\ UNCHANGED named
      BY <1>1, <3>1
    <3>3. rec[g].from # None => rec'[rec[g].from] = rec[rec[g].from]
      BY <1>3, <3>1 DEF RootedAt, Session
    <3>4. rec'[rec[g].login] = rec[rec[g].login]
      BY <1>3, <3>1 DEF RootedAt, Session
    <3>5. rec[g].from # None => rec[g].from \in Handle
      BY <3>1 DEF Session
    <3> QED
      BY <1>3, <3>1, <3>2, <3>3, <3>4, <3>5 DEF RootedAt, AppOf
  <2>2. RootedAt(rec[h])'
    <3>1. CASE s.kind = "state" /\ s.login = h /\ s.from = None
      BY <1>1, <1>2, <3>1 DEF RootedAt, AppOf
    <3>2. CASE s.from \in Handle /\ rec[s.from] # None /\ Spent(s.from)
      <4>1. RootedAt(rec[s.from]) /\ rec[s.from] \in Session
        BY <1>2, <3>2 DEF RecInv, BindInv, Rooted
      <4>2. rec[s.from].login \in Handle
        BY <4>1 DEF Session
      <4>3. /\ rec'[s.from] = rec[s.from] /\ Spent(s.from)'
            /\ s.from # None /\ s.kind \in {"code", "refresh", "state"}
        BY <1>3, <3>2, HandleAssumption DEF Session
      <4>4. rec'[rec[s.from].login] = rec[rec[s.from].login]
        BY <1>3, <4>1, <4>2 DEF RootedAt
      <4>5. CASE s.kind = "code"
        BY <1>2, <3>2, <4>1, <4>3, <4>4, <4>5 DEF Succeeds, RootedAt, AppOf
      <4>6. CASE s.kind = "refresh"
        BY <1>1, <1>2, <3>2, <4>1, <4>3, <4>4, <4>6 DEF Succeeds, RootedAt, AppOf
      <4>7. CASE s.kind = "state"
        BY <1>1, <1>2, <4>7 DEF Succeeds, RootedAt, AppOf
      <4> QED
        BY <4>3, <4>5, <4>6, <4>7
    <3> QED
      BY <3>1, <3>2 DEF Succeeds
  <2> QED
    BY <1>2, <2>1, <2>2 DEF Rooted
<1>5. Maps'
  <2>1. \A g \in Handle : claimedBy'[g] # None => rec'[g] # None /\ g \notin live'
    BY <1>1, <1>2, <1>3 DEF RecInv, BindInv, Maps
  <2>2. \A n \in Node : \A g \in presented'[n] : g # h /\ rec'[g] # None
    BY <1>1, <1>2, <1>3 DEF RecInv, BindInv, Maps, TypeInv, DataOK
  <2> QED
    BY <1>1, <2>1, <2>2 DEF RecInv, BindInv, Maps, SpentHereIsGone
<1>6. ASSUME NEW x \in Req PROVE Fine(req[x])'
  <2>1. CASE x = r
    BY <1>1, <2>1, Harmless DEF IdleRequest, HolderPC
  <2>2. CASE x # r
    <3>1. /\ Fine(req[x]) /\ GoodRequest(req[x]) /\ req'[x] = req[x]
      BY <1>1, <2>2 DEF RecInv, BindInv, TypeInv, RequestsOK
    <3>2. Holding(req[x])'
      BY <1>3, <3>1 DEF Fine, Holding, GoodRequest, Consuming
    <3>3. Loaded(req[x])'
      BY <1>1, <1>3, <3>1
         DEF Fine, Loaded, NamedBy, NamedApp, AppOf, GoodRequest, Consuming, HolderPC
    <3>4. Stage(req[x])'
      BY <1>3, <3>1 DEF Fine, Stage, GoodRequest, Consuming, HolderPC
    <3> QED
      BY <3>2, <3>3, <3>4 DEF Fine
  <2> QED
    BY <2>1, <2>2
<1> QED
  BY <1>4, <1>5, <1>6 DEF BindInv

LEMMA PutFailedBinds == ASSUME RecInv, NEW r \in Req, PutFailed(r) PROVE BindInv'
<1>1. Settles /\ UNCHANGED claimedBy
  BY DEF PutFailed, LocalStep, Settles, sessions, config, spending
<1>2. req'[r].pc = "idle" /\ \A x \in Req \ {r} : req'[x] = req[x]
  BY DEF PutFailed, Reply, IdleRequest, RecInv, TypeInv, RequestsOK
<1>3. Fine(req[r])'
  BY <1>2, Harmless DEF HolderPC
<1> QED
  BY <1>1, <1>2, <1>3, OneMoves

(* A step after which a request neither claims nor holds, or is unmoved.   *)
LEMMA Retires ==
  ASSUME RecInv, Settles, UNCHANGED claimedBy, NEW r \in Req,
         \A x \in Req \ {r} : req'[x] = req[x],
         req'[r].pc \notin HolderPC \cup {"claim"} \/ req'[r] = req[r]
  PROVE  BindInv'
  BY Harmless, OneMoves

LEMMA ReplyRetires ==
  ASSUME RecInv, Settles, UNCHANGED claimedBy, NEW r \in Req, Reply(r)
  PROVE  BindInv'
<1>1. req'[r].pc = "idle" /\ \A x \in Req \ {r} : req'[x] = req[x]
  BY DEF Reply, IdleRequest, RecInv, TypeInv, RequestsOK
<1> QED
  BY <1>1, Retires DEF HolderPC

(* A presented record is of the kind its handler exchanges.                *)
LEMMA PresentBinds ==
  ASSUME RecInv, NEW r \in Req, NEW n \in Node, NEW h \in Handle, NEW q, NEW u,
         Present(r, n, h, q, u), rec[h] # None, rec[h].kind # "state" => q \in Presented
  PROVE  BindInv'
<1>1. Settles /\ UNCHANGED claimedBy
  BY DEF Present, EntryDropped, Settles, sessions, config, RecInv, TypeInv, DataOK
<1>2. CASE UNCHANGED req
  BY <1>1, <1>2, Retires
<1>3. CASE ~UNCHANGED req
  <2>1. /\ req'[r].pc = "claim" /\ req'[r].at = n /\ req'[r].tok = h /\ req'[r].in = q
        /\ \A x \in Req \ {r} : req'[x] = req[x]
        /\ UNCHANGED rec
    BY <1>3 DEF Present, IdleRequest, sessions, RecInv, TypeInv, RequestsOK
  <2>2. Fine(req[r])'
    BY <2>1 DEF Fine, Holding, Loaded, Stage, HolderPC
  <2> QED
    BY <1>1, <2>1, <2>2, OneMoves
<1> QED
  BY <1>2, <1>3

(* The conditional delete spends the record for good.                      *)
LEMMA ClaimBinds == ASSUME RecInv, NEW r \in Req, claimSingleUse(r) PROVE BindInv'
<1> DEFINE h == req[r].tok
<1>1. /\ req[r].pc = "claim" /\ h \in Handle /\ rec[h] # None
      /\ rec \in [Handle -> Session \cup {None}]
      /\ rec[h].kind # "state" => req[r].in \in Presented
      /\ req[r].who \in User \cup {None}
  BY DEF claimSingleUse, RecInv, BindInv, Fine, Stage, TypeInv, DataOK, RequestsOK,
         GoodRequest, Request, Consuming
<1>2. Settles
  BY DEF claimSingleUse, Settles, config
<1>3. Rooted'
  BY <1>2, RootsStay DEF RecInv, BindInv
<1>4. Maps'
  <2>1. UNCHANGED <<rec, resident, presented>>
        /\ \/ UNCHANGED <<claimedBy, live>>
           \/ claimedBy' = [claimedBy EXCEPT ![h] = req[r].at] /\ live' = live \ {h}
    BY DEF claimSingleUse
  <2> QED
    BY <1>1, <2>1 DEF RecInv, BindInv, Maps, SpentHereIsGone, TypeInv, DataOK
<1>5. ASSUME NEW x \in Req, x # r PROVE Fine(req[x])'
  <2>1. req'[x] = req[x]
    BY <1>5 DEF claimSingleUse, Goto, Reply, RecInv, TypeInv, RequestsOK
  <2>2. GoodRequest(req[x]) /\ Fine(req[x])
    BY DEF RecInv, BindInv, TypeInv, RequestsOK
  <2> QED
    BY <1>2, <2>1, <2>2, FineStays DEF RecInv
<1>6. Fine(req[r])'
  <2>1. CASE Reply(r)
    <3>1. req'[r].pc = "idle"
      BY <2>1 DEF Reply, IdleRequest, RecInv, TypeInv, RequestsOK
    <3> QED BY <3>1, Harmless DEF HolderPC
  <2>2. CASE Goto(r, Claimed(r)) /\ ~Reply(r)
    <3>1. /\ live' = live \ {h} /\ h \notin expired
          /\ UNCHANGED <<rec, expired>>
      BY <2>2 DEF claimSingleUse, RecordHonoured
    <3>2. /\ req'[r].pc = Claimed(r) /\ req'[r].tok = h
          /\ req'[r].in = req[r].in /\ req'[r].who = req[r].who
      BY <2>2 DEF Goto, RecInv, TypeInv, RequestsOK, Request
    <3>3. Holding(req[r])'
      BY <3>1, <3>2 DEF Holding, Spent
    <3>4. Loaded(req[r])'
      BY <3>2 DEF Loaded, Claimed
    <3>5. Stage(req[r])'
      BY <1>1, <3>1, <3>2 DEF Stage, Claimed
    <3> QED
      BY <3>3, <3>4, <3>5 DEF Fine
  <2> QED
    BY <2>1, <2>2 DEF claimSingleUse
<1> QED
  BY <1>3, <1>4, <1>5, <1>6 DEF BindInv

(* Loading an application leaves the record as it was; "mint" is reached   *)
(* with the proof the handler asks for.                                    *)
LEMMA LoadBinds ==
  ASSUME RecInv, NEW r \in Req, LoadApplication(r) \/ FillCache(r) PROVE BindInv'
<1>1. Settles /\ UNCHANGED claimedBy
  BY DEF LoadApplication, FillCache, Settles, sessions, config, spending
<1>0. ASSUME req[r].pc \in {"load", "fill"}
      PROVE  /\ AppOf(rec[req[r].tok]) \in App /\ req[r].at \in Node
             /\ Fine(req[r]) /\ GoodRequest(req[r])
  BY <1>0, HeldApp DEF RecInv, BindInv, TypeInv, RequestsOK, GoodRequest, Located, HolderPC
<1>2. CASE Reply(r)
  BY <1>1, <1>2, ReplyRetires
<1>3. ASSUME NEW p \in {"fill", "mint"}, NEW c,
             req' = [req EXCEPT ![r].pc = p, ![r].cfg = c],
             p = "mint" => ClientAuthenticated(rec[req[r].tok], c, req[r].in),
             NamedBy(AppOf(rec[req[r].tok]), c)
      PROVE BindInv'
  <2>1. /\ req[r].pc \in {"load", "fill"} /\ UNCHANGED rec
        /\ Fine(req[r]) /\ GoodRequest(req[r]) /\ req[r] \in Request
    BY DEF LoadApplication, FillCache, sessions, RecInv, BindInv, TypeInv, RequestsOK,
           GoodRequest
  <2>2. /\ req'[r].pc = p /\ req'[r].cfg = c /\ req'[r].tok = req[r].tok
        /\ req'[r].in = req[r].in
        /\ \A x \in Req \ {r} : req'[x] = req[x]
    BY <1>3, <2>1 DEF Request, RecInv, TypeInv, RequestsOK
  <2>3. Holding(req[r])'
    BY <1>1, <2>1, <2>2 DEF Holding, Fine, Settles, Spent, HolderPC
  <2>4. Loaded(req[r])'
    BY <1>0, <1>1, <1>3, <2>1, <2>2 DEF Loaded, NamedBy, NamedApp, AppOf, Settles
  <2>5. Stage(req[r])'
    BY <1>3, <2>1, <2>2 DEF Stage, Fine
  <2>6. Fine(req[r])'
    BY <2>3, <2>4, <2>5 DEF Fine
  <2> QED
    BY <1>1, <2>2, <2>6, OneMoves
<1> DEFINE a == AppOf(rec[req[r].tok])
<1>4. CASE LoadApplication(r)
  <2>1. /\ appCache[req[r].at][a] # None => NamedBy(a, appCache[req[r].at][a])
        /\ apps[a] # None => NamedBy(a, apps[a])
    BY <1>0, <1>4 DEF LoadApplication, RecInv, Registered
  <2> QED
    BY <1>2, <1>3, <1>4, <2>1 DEF LoadApplication, AuthenticateClient
<1>5. CASE FillCache(r)
  <2>1. NamedBy(a, req[r].cfg)
    BY <1>0, <1>5 DEF FillCache, Fine, Loaded
  <2> QED
    BY <1>2, <1>3, <1>5, <2>1 DEF FillCache, AuthenticateClient
<1> QED
  BY <1>4, <1>5

(* The three session writes replace a record by one that agrees with it.   *)
LEMMA StateBinds == ASSUME RecInv, NEW r \in Req, PutState(r) PROVE BindInv'
<1> DEFINE q == req[r].in
           State(h) == [kind |-> "state", org |-> q.org, client |-> q.client,
             uri |-> q.uri, challenge |-> q.challenge, idp |-> q.idp,
             user |-> None, login |-> h, from |-> None]
<1>1. CASE PutFailed(r)
  BY <1>1, PutFailedBinds
<1>2. ASSUME NEW h \in Handle, NEW b, PutSession(r, h, State(h), b) PROVE BindInv'
  <2>1. req[r].at \in Node /\ q \in AuthorizationRequest /\ q.idp \in IDP
    BY DEF PutState, RecInv, TypeInv, RequestsOK, GoodRequest, Located, Asking, AuthorizePC
  <2>2. State(h) \in Session
    BY <2>1 DEF AuthorizationRequest, Session
  <2>3. Succeeds(h, State(h))
    BY DEF Succeeds
  <2> HIDE DEF State
  <2> QED
    BY <1>2, <2>1, <2>2, <2>3, PutBinds
<1> QED
  BY <1>1, <1>2 DEF PutState

LEMMA CodeBinds == ASSUME RecInv, NEW r \in Req, PutCode(r) PROVE BindInv'
<1> DEFINE s == rec[req[r].tok]
           code == [kind |-> "code", org |-> s.org, client |-> s.client,
             uri |-> s.uri, challenge |-> CarriedChallenge(s),
             idp |-> IF req[r].pc = "putCode" THEN s.idp ELSE MockIDP,
             user |-> req[r].who, login |-> s.login, from |-> req[r].tok]
<1>1. CASE PutFailed(r)
  BY <1>1, PutFailedBinds
<1>2. ASSUME NEW h \in Handle, PutSession(r, h, code, TRUE) PROVE BindInv'
  <2>1. /\ req[r].pc \in {"putCode", "putMockCode"}
        /\ req[r].at \in Node /\ req[r].tok \in Handle /\ s # None /\ s \in Session
        /\ GoodRequest(req[r]) /\ Fine(req[r])
    BY DEF PutCode, RecInv, BindInv, TypeInv, DataOK, RequestsOK, GoodRequest, Located,
           Consuming, HolderPC
  <2>2. Spent(req[r].tok) /\ s.kind = "state" /\ req[r].who \in User
    BY <2>1 DEF Fine, Holding, Stage, HolderPC
  <2>3. code \in Session
    BY <2>1, <2>2 DEF Session, CarriedChallenge
  <2>4. Succeeds(h, code)
    BY <2>1, <2>2, ValueAssumption DEF Succeeds, CarriedChallenge, AppOf
  <2> HIDE DEF code
  <2> QED
    BY <1>2, <2>1, <2>3, <2>4, PutBinds
<1> QED
  BY <1>1, <1>2 DEF PutCode

LEMMA RefreshBinds == ASSUME RecInv, NEW r \in Req, MintRefreshToken(r) PROVE BindInv'
<1> DEFINE s == rec[req[r].tok]
           c == req[r].cfg
           refresh == [kind |-> "refresh", org |-> GrantOrg(s, c), client |-> GrantClient(s, c),
             uri |-> None, challenge |-> None, idp |-> s.idp,
             user |-> s.user, login |-> s.login, from |-> req[r].tok]
<1>1. CASE PutFailed(r)
  BY <1>1, PutFailedBinds
<1>2. ASSUME NEW h \in Handle, PutSession(r, h, refresh, TRUE) PROVE BindInv'
  <2>1. /\ req[r].pc = "mint"
        /\ req[r].at \in Node /\ req[r].tok \in Handle /\ s # None /\ s \in Session
        /\ GoodRequest(req[r]) /\ Fine(req[r])
    BY DEF MintRefreshToken, RecInv, BindInv, TypeInv, DataOK, RequestsOK, GoodRequest,
           Located, Consuming, HolderPC
  <2>2. Spent(req[r].tok)
    BY <2>1 DEF Fine, Holding, HolderPC
  <2>3. c \in AppConfig /\ NamedBy(AppOf(s), c)
    BY <2>1 DEF GoodRequest, Configured, Fine, Loaded
  <2>4. refresh \in Session /\ AppOf(refresh) = NamedApp(AppOf(s), c)
    BY <2>1, <2>3, GrantNames DEF Session, AppOf
  <2>5. Succeeds(h, refresh)
    BY <2>1, <2>2, <2>3, <2>4 DEF Succeeds, NamedBy
  <2> HIDE DEF refresh
  <2> QED
    BY <1>2, <2>1, <2>4, <2>5, PutBinds
<1> QED
  BY <1>1, <1>2 DEF MintRefreshToken

LEMMA BindNext == RecInv /\ [Next]_vars => BindInv'
<1> SUFFICES ASSUME RecInv, [Next]_vars PROVE BindInv'
  OBVIOUS
<1>1. CASE UNCHANGED vars
  <2>1. Settles /\ UNCHANGED <<claimedBy, req>>
    BY <1>1 DEF vars, Settles
  <2> QED BY <2>1, Rests
<1>2. ASSUME NEW r \in Req, Arrive(r) PROVE BindInv'
  <2> SUFFICES ASSUME NEW n \in Node,
                      \/ \E q \in Asked : PrepareAuthorization(r, n, q)
                      \/ PresentState(r, n)
                      \/ PresentToken(r, n)
                      \/ HandleApps(r, n)
                      \/ HandleIDPs(r, n)
               PROVE BindInv'
    BY <1>2 DEF Arrive
  <2>1. ASSUME NEW q \in Asked, PrepareAuthorization(r, n, q) PROVE BindInv'
    <3>1. Settles /\ UNCHANGED claimedBy
      BY <2>1 DEF PrepareAuthorization, LocalStep, sessions, config, spending, Settles
    <3>2. \E p \in {"resolveIDP", "listIDPs"} : \E i :
            req' = [req EXCEPT ![r] = [IdleRequest EXCEPT !.pc = p, !.at = n,
                                                          !.in = [q EXCEPT !.idp = i]]]
      BY <2>1 DEF PrepareAuthorization
    <3>3. /\ req'[r].pc \in {"resolveIDP", "listIDPs"}
          /\ \A x \in Req \ {r} : req'[x] = req[x]
      BY <3>2 DEF IdleRequest, RecInv, TypeInv, RequestsOK
    <3> QED
      BY <3>1, <3>3, Retires DEF HolderPC
  <2>2. CASE PresentState(r, n)
    BY <2>2, PresentBinds DEF PresentState
  <2>3. CASE PresentToken(r, n)
    BY <2>3, PresentBinds DEF PresentToken
  <2>4. ASSUME NEW s, Edit(r, n, s), \A a \in App : named[a] \subseteq named'[a]
        PROVE BindInv'
    <3>1. Settles /\ UNCHANGED claimedBy
      BY <2>4 DEF Edit, sessions, spending, Settles
    <3>2. req'[r].pc = "invalidate" /\ \A x \in Req \ {r} : req'[x] = req[x]
      BY <2>4 DEF Edit, IdleRequest, RecInv, TypeInv, RequestsOK
    <3> QED
      BY <3>1, <3>2, Retires DEF HolderPC
  <2>5. HandleApps(r, n) => \A a \in App : named[a] \subseteq named'[a]
    BY DEF HandleApps, RecInv, TypeInv, DataOK
  <2>6. HandleIDPs(r, n) => \A a \in App : named[a] \subseteq named'[a]
    BY DEF HandleIDPs
  <2> QED
    BY <2>1, <2>2, <2>3, <2>4, <2>5, <2>6 DEF HandleApps, HandleIDPs
<1>3. ASSUME NEW r \in Req, SelectIDP(r) \/ ResolveIDP(r) PROVE BindInv'
  <2>1. Settles /\ UNCHANGED claimedBy
    BY <1>3 DEF SelectIDP, ResolveIDP, LocalStep, sessions, config, spending, Settles
  <2>2. /\ req'[r].pc \in {"idle", "resolveIDP", "putState", "putStateBare"}
        /\ \A x \in Req \ {r} : req'[x] = req[x]
    BY <1>3 DEF SelectIDP, ResolveIDP, Goto, Reply, IdleRequest, RecInv, TypeInv, RequestsOK,
                Request
  <2> QED
    BY <2>1, <2>2, Retires DEF HolderPC
<1>4. ASSUME NEW r \in Req, ProcessUpstreamCallback(r) PROVE BindInv'
  <2>1. Settles /\ UNCHANGED claimedBy
    BY <1>4 DEF ProcessUpstreamCallback, LocalStep, sessions, config, spending, Settles
  <2>2. CASE Reply(r)
    BY <2>1, <2>2, ReplyRetires
  <2>3. ASSUME NEW u \in User, req' = [req EXCEPT ![r].pc = "putCode", ![r].who = u]
        PROVE BindInv'
    <3>1. /\ req[r].pc = "resolveCallback" /\ req[r] \in Request
          /\ GoodRequest(req[r]) /\ Fine(req[r])
      BY <1>4 DEF ProcessUpstreamCallback, RecInv, BindInv, TypeInv, RequestsOK, GoodRequest
    <3>2. /\ req'[r].pc = "putCode" /\ req'[r].who = u /\ req'[r].tok = req[r].tok
          /\ \A x \in Req \ {r} : req'[x] = req[x]
      BY <2>3, <3>1 DEF Request, RecInv, TypeInv, RequestsOK
    <3>3. Fine(req[r])'
      BY <2>1, <3>1, <3>2 DEF Fine, Holding, Loaded, Stage, Settles, Spent, HolderPC
    <3> QED
      BY <2>1, <3>2, <3>3, OneMoves
  <2> QED
    BY <1>4, <2>2, <2>3 DEF ProcessUpstreamCallback
<1>5. ASSUME NEW r \in Req, Invalidate(r) PROVE BindInv'
  <2>1. Settles /\ UNCHANGED claimedBy /\ Reply(r)
    BY <1>5 DEF Invalidate, sessions, config, spending, Settles
  <2> QED
    BY <2>1, ReplyRetires
<1>6. ASSUME NEW h \in Handle, Expire(h) PROVE BindInv'
  <2>1. Settles /\ UNCHANGED <<claimedBy, req>>
    BY <1>6 DEF Expire, sessions, config, spending, Settles
  <2> QED BY <2>1, Rests
<1>7. ASSUME NEW n \in Node, NEW a \in App, CacheExpire(n, a) PROVE BindInv'
  <2>1. Settles /\ UNCHANGED <<claimedBy, req>>
    BY <1>7 DEF CacheExpire, sessions, config, spending, Settles
  <2> QED BY <2>1, Rests
<1>8. ASSUME NEW n \in Node, Crash(n) PROVE BindInv'
  <2>1. Settles /\ UNCHANGED claimedBy
    BY <1>8 DEF Crash, sessions, config, spending, Settles, RecInv, TypeInv, DataOK
  <2>2. Rooted' /\ Maps'
    BY <2>1, RootsStay, MapsStay DEF RecInv, BindInv
  <2>3. ASSUME NEW x \in Req PROVE Fine(req[x])'
    <3>1. GoodRequest(req[x]) /\ Fine(req[x])
      BY DEF RecInv, BindInv, TypeInv, RequestsOK
    <3>2. req'[x] = req[x] \/ req'[x].pc = "idle"
      BY <1>8 DEF Crash, IdleRequest
    <3> QED
      BY <2>1, <3>1, <3>2, FineStays, Harmless DEF HolderPC, RecInv
  <2> QED
    BY <2>2, <2>3 DEF BindInv
<1> QED
  BY <1>1, <1>2, <1>3, <1>4, <1>5, <1>6, <1>7, <1>8, StateBinds, CodeBinds, RefreshBinds,
     ClaimBinds, LoadBinds
  DEF Next, Serve, Environment

(* Registrations: written, loaded and cached under one and the same key.   *)
LEMMA RegisteredInit == Init => Registered
  BY DEF Init, Registered, NamedBy

LEMMA RegisteredNext == RecInv /\ [Next]_vars => Registered'
<1> SUFFICES ASSUME RecInv, [Next]_vars PROVE Registered'
  OBVIOUS
<1>1. ASSUME UNCHANGED <<apps, named>>,
             \A n \in Node, a \in App : appCache'[n][a] \in {appCache[n][a], None}
      PROVE  Registered'
  BY <1>1 DEF RecInv, Registered, NamedBy
<1>2. CASE UNCHANGED config /\ UNCHANGED appCache
  BY <1>1, <1>2 DEF config
<1>3. ASSUME NEW r \in Req, NEW n \in Node, HandleApps(r, n) PROVE Registered'
  <2>1. PICK a \in App, c \in AppConfig :
          /\ apps' = [apps EXCEPT ![a] = c]
          /\ named' = [named EXCEPT ![a] = @ \cup {NamedApp(a, c)}]
          /\ UNCHANGED appCache
    BY <1>3 DEF HandleApps, Edit
  <2> QED
    BY <2>1 DEF RecInv, Registered, NamedBy, TypeInv, DataOK
<1>4. ASSUME NEW r \in Req, FillCache(r) PROVE Registered'
  <2> DEFINE a == AppOf(rec[req[r].tok])
             n == req[r].at
  <2>1. /\ NamedBy(a, req[r].cfg)
        /\ appCache' = [appCache EXCEPT ![n][a] = req[r].cfg]
        /\ UNCHANGED <<apps, named>>
    BY <1>4 DEF FillCache, config, RecInv, BindInv, Fine, Loaded
  <2> HIDE DEF a, n
  <2> QED
    BY <2>1 DEF RecInv, Registered, NamedBy, TypeInv, DataOK
<1>5. ASSUME NEW r \in Req, Invalidate(r) PROVE Registered'
  BY <1>1, <1>5 DEF Invalidate, config, RecInv, TypeInv, DataOK
<1>6. ASSUME NEW n \in Node, NEW a \in App, CacheExpire(n, a) PROVE Registered'
  BY <1>1, <1>6 DEF CacheExpire, config, RecInv, TypeInv, DataOK
<1>7. ASSUME NEW n \in Node, Crash(n) PROVE Registered'
  BY <1>1, <1>7 DEF Crash, config, RecInv, TypeInv, DataOK
<1>8. ASSUME NEW r \in Req, NEW n \in Node, HandleIDPs(r, n) PROVE Registered'
  BY <1>1, <1>8 DEF HandleIDPs, Edit
<1>9. CASE UNCHANGED vars
  BY <1>2, <1>9 DEF vars, config
<1>10. ASSUME NEW r \in Req, NEW n \in Node,
              \/ \E q \in Asked : PrepareAuthorization(r, n, q)
              \/ PresentState(r, n) \/ PresentToken(r, n)
       PROVE UNCHANGED config /\ UNCHANGED appCache
  BY <1>10 DEF PrepareAuthorization, PresentState, PresentToken, Present, LocalStep
<1>11. ASSUME NEW r \in Req, Serve(r), ~FillCache(r), ~Invalidate(r)
       PROVE UNCHANGED config /\ UNCHANGED appCache
  BY <1>11 DEF Serve, SelectIDP, ResolveIDP, PutState, claimSingleUse,
               ProcessUpstreamCallback, PutCode, LoadApplication, MintRefreshToken,
               PutSession, PutFailed, LocalStep
<1>12. ASSUME NEW h \in Handle, Expire(h) PROVE UNCHANGED config /\ UNCHANGED appCache
  BY <1>12 DEF Expire
<1> QED
  BY <1>2, <1>3, <1>4, <1>5, <1>6, <1>7, <1>8, <1>9, <1>10, <1>11, <1>12
     DEF Next, Arrive, Environment

LEMMA RecordsHold == Spec => []RecInv
  BY TypeInit, TypeNext, BindInit, BindNext, RegisteredInit, RegisteredNext, PTL
     DEF Spec, RecInv

-----------------------------------------------------------------------------
(* Only claimSingleUse takes a request past its claim, and only with a     *)
(* record that is in storage, which no claimed one is.                     *)
LEMMA ClaimedFromStorage ==
  ASSUME RecInv, NEW r \in Req, claimSingleUse(r), req'[r].pc \in HolderPC
  PROVE  claimedBy[req[r].tok] = None
<1>1. req[r].tok \in Handle
  BY DEF claimSingleUse, RecInv, TypeInv, RequestsOK, GoodRequest, Consuming
<1>2. ~Reply(r)
  BY DEF Reply, IdleRequest, HolderPC, RecInv, TypeInv, RequestsOK
<1>3. req[r].tok \in live
  BY <1>2 DEF claimSingleUse, CanDelete
<1> QED
  BY <1>1, <1>3 DEF RecInv, BindInv, Maps

LEMMA HonouredNext ==
  ASSUME RecInv, [Next]_vars, NEW x \in Req, req[x].pc = "claim", req'[x].pc \in HolderPC
  PROVE  claimedBy[req[x].tok] = None
<1>0. req'[x] # req[x] /\ req'[x].pc # "idle" /\ req \in [Req -> Request]
  BY DEF HolderPC, RecInv, TypeInv, RequestsOK
<1>1. CASE UNCHANGED vars
  BY <1>0, <1>1 DEF vars
<1>2. ASSUME NEW r \in Req, Arrive(r) PROVE FALSE
  <2>1. ASSUME NEW n \in Node, NEW q \in Asked, PrepareAuthorization(r, n, q) PROVE FALSE
    <3>1. req[r].pc = "idle" /\ \E v : req' = [req EXCEPT ![r] = v]
      BY <2>1 DEF PrepareAuthorization, Idle
    <3> QED
      BY <1>0, <3>1
  <2>2. ASSUME NEW n \in Node, NEW h \in Handle, NEW q, NEW u, Present(r, n, h, q, u)
        PROVE  FALSE
    BY <1>0, <2>2 DEF Present, Idle, IdleRequest
  <2>3. ASSUME NEW n \in Node, NEW s, Edit(r, n, s) PROVE FALSE
    BY <1>0, <2>3 DEF Edit, Idle, IdleRequest
  <2> QED
    BY <1>2, <2>1, <2>2, <2>3
       DEF Arrive, PresentState, PresentToken, HandleApps, HandleIDPs
<1>3. ASSUME NEW r \in Req, Serve(r), ~claimSingleUse(r) PROVE FALSE
  <2>1. req[r].pc # "claim" /\ \A y \in Req \ {r} : req'[y] = req[y]
    BY <1>0, <1>3
       DEF Serve, SelectIDP, ResolveIDP, PutState, ProcessUpstreamCallback, PutCode,
           LoadApplication, AuthenticateClient, FillCache, MintRefreshToken, Invalidate,
           PutSession, PutFailed, Goto, Reply, LocalStep
  <2> QED
    BY <1>0, <2>1
<1>4. ASSUME NEW r \in Req, claimSingleUse(r) PROVE claimedBy[req[x].tok] = None
  <2>1. \A y \in Req \ {r} : req'[y] = req[y]
    BY <1>0, <1>4 DEF claimSingleUse, Goto, Reply
  <2>2. x = r
    BY <1>0, <2>1
  <2> QED
    BY <1>4, <2>2, ClaimedFromStorage
<1>5. CASE Environment
  BY <1>0, <1>5 DEF Environment, Expire, CacheExpire, Crash, IdleRequest
<1> QED
  BY <1>1, <1>2, <1>3, <1>4, <1>5 DEF Next

-----------------------------------------------------------------------------
(* claimSingleUse honours a record for one request in a whole behaviour:   *)
(* what was claimed once is refused ever after, also if the request that   *)
(* claimed it failed or its node stopped before it answered.               *)
THEOREM HonouredOnceTheorem == Spec => HonouredOnce
<1>1. RecInv /\ [Next]_vars
        => [\A r \in Req : req[r].pc = "claim" /\ req'[r].pc \in HolderPC
                           => claimedBy[req[r].tok] = None]_vars
  BY HonouredNext
<1> QED
  BY RecordsHold, <1>1, PTL DEF Spec, HonouredOnce

(* claimSingleUse looks at a record's age only after it has taken it; an   *)
(* expired one is burnt and no code or token set is ever built on it.      *)
THEOREM ExpiredNeverHonouredTheorem == Spec => []ExpiredNeverHonoured
  BY RecordsHold, BoundChains, PTL

(* The handlers drop a node's map entry before they claim, so a node never *)
(* keeps a state or a code that was presented to it, whoever had it then.  *)
THEOREM SpentHereIsGoneTheorem == Spec => []SpentHereIsGone
  BY RecordsHold, BoundChains, PTL

(* /token mints for a code only against the verifier of the challenge the  *)
(* login sent to /authorize, or, without one, the secret of a confidential *)
(* client, whatever the operator reconfigures in between.                  *)
THEOREM ProofOfPossessionTheorem == Spec => []ProofOfPossession
  BY RecordsHold, ProvenGrants, PTL

(* Codes are for the app, the redirect URI and the provider of their       *)
(* login; refresh tokens for the user and provider of the record they were *)
(* exchanged for, and for an app that its own app's registration named:    *)
(* issueTokens takes tenant and client of a grant from the loaded app.     *)
THEOREM ChainKeepsBindingTheorem == Spec => []ChainKeepsBinding
  BY RecordsHold, BoundChains, PTL
=============================================================================
