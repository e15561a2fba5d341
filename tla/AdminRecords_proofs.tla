------------------------- MODULE AdminRecords_proofs -------------------------
(***************************************************************************)
(* What the versions of administration records guarantee, for any number   *)
(* of nodes, editors, records, writes and faults.                          *)
(***************************************************************************)
EXTENDS AdminRecords, TLAPS

(* Editors are told the version of what they hold, and storage never goes  *)
(* back behind it.  Only the bodies of organizations name a user.          *)
TrueCopy(c, r) == /\ c.shown = c.read /\ c.read <= version[r]
                  /\ c.invites => HasUser(r)

CopiesTrue == \A e \in Editor, r \in Record : TrueCopy(copy[e][r], r)

(* So are the requests made from those copies.                             *)
TrueRequest(q) == /\ q.expected = q.read /\ q.read <= version[q.rec]
                  /\ q.invites => HasUser(q.rec)

RequestsTrue == \A e \in Editor : req[e].pc # "idle" => TrueRequest(req[e])

(* Every stored version was given by a write, the newest ones last.        *)
Logged ==
  \A r \in Record :
    /\ version[r] <= last
    /\ version[r] # 0 => \E w \in log : w.rec = r /\ w.version = version[r]

(* What holds of storage alone, and what holds of the editors.             *)
StorageOK == /\ version \in [Record -> Nat]
             /\ invites \in [Record -> BOOLEAN]
             /\ last \in Nat
             /\ log \subseteq Write
             /\ \A r \in Record : invites[r] => HasUser(r)
             /\ Logged /\ NoLostUpdate

IInv == TypeOK /\ StorageOK /\ CopiesTrue /\ RequestsTrue /\ NoSpuriousConflicts

Grows == /\ \A r \in Record : version[r] <= version'[r]
         /\ log \subseteq log'

-----------------------------------------------------------------------------
(* A write that lands keeps storage in order if its version, when it came  *)
(* from a copy, is the copy's.                                             *)
LEMMA PutKeepsStorage ==
  ASSUME StorageOK,
         NEW r \in Record, NEW x \in Nat, NEW by \in Editor \cup Node,
         NEW read \in Nat, NEW i \in BOOLEAN,
         read # 0 => x = read, i => HasUser(r), kind' = kind,
         Put(r, x, by, read, i)
  PROVE  StorageOK' /\ Grows /\ version'[r] = last + 1 /\ last' = last + 1
<1> DEFINE w == [rec |-> r, version |-> last + 1, base |-> version[r],
                 by |-> by, expected |-> x, read |-> read]
<1>1. /\ version' = [version EXCEPT ![r] = last + 1]
      /\ invites' = [invites EXCEPT ![r] = i]
      /\ last' = last + 1
      /\ log' = log \cup {w}
      /\ x = 0 \/ version[r] = x
  BY DEF Put, Matches
<1>2. w \in Write
  BY DEF StorageOK, Write
<1>3. /\ version' \in [Record -> Nat] /\ invites' \in [Record -> BOOLEAN]
      /\ last' \in Nat /\ log' \subseteq Write
  BY <1>1, <1>2 DEF StorageOK
<1>7. \A s \in Record : invites'[s] => HasUser(s)'
  BY <1>1 DEF StorageOK, HasUser
<1>4. Logged'
  <2> SUFFICES ASSUME NEW s \in Record
               PROVE  /\ version'[s] <= last'
                      /\ version'[s] # 0 => \E v \in log' : v.rec = s /\ v.version = version'[s]
    BY DEF Logged
  <2>1. CASE s = r
    <3>1. version'[s] = last + 1 /\ last + 1 \in Nat
      BY <1>1, <2>1 DEF StorageOK
    <3>2. w \in log' /\ w.rec = s /\ w.version = version'[s]
      BY <1>1, <2>1, <3>1
    <3>3. version'[s] <= last'
      BY <1>1, <3>1
    <3> QED BY <3>2, <3>3
  <2>2. CASE s # r
    <3>1. version'[s] = version[s] /\ version[s] \in Nat /\ version[s] <= last' /\ log \subseteq log'
      BY <1>1, <2>2 DEF StorageOK, Logged
    <3> QED BY <3>1 DEF StorageOK, Logged
  <2> QED BY <2>1, <2>2
<1>5. NoLostUpdate'
  BY <1>1 DEF StorageOK, NoLostUpdate
<1>6. Grows
  BY <1>1 DEF Grows, StorageOK, Logged
<1> QED BY <1>1, <1>3, <1>4, <1>5, <1>6, <1>7 DEF StorageOK

(* Steps that write nothing.                                               *)
LEMMA NotPutKeepsStorage ==
  ASSUME StorageOK, NotPut, kind' = kind
  PROVE  StorageOK' /\ Grows
BY DEF StorageOK, NotPut, Logged, NoLostUpdate, Grows, HasUser

(* Copies, requests and conflicts that do not change stay true.            *)
LEMMA GrowthKeepsCopy ==
  ASSUME IInv, StorageOK', Grows, kind' = kind,
         NEW r \in Record, NEW c \in Copy, TrueCopy(c, r)
  PROVE  TrueCopy(c, r)'
BY DEF IInv, TypeOK, StorageOK, Grows, TrueCopy, Copy, HasUser

LEMMA GrowthKeepsRequest ==
  ASSUME IInv, StorageOK', Grows, kind' = kind,
         NEW q \in Request, q.rec \in Record, TrueRequest(q)
  PROVE  TrueRequest(q)'
BY DEF IInv, TypeOK, StorageOK, Grows, TrueRequest, Request, HasUser

LEMMA GrowthKeepsEditors ==
  ASSUME IInv, StorageOK', Grows, kind' = kind
  PROVE  /\ copy' = copy => CopiesTrue'
         /\ req' = req => RequestsTrue'
         /\ conflicts' = conflicts => NoSpuriousConflicts'
<1>1. ASSUME copy' = copy PROVE CopiesTrue'
  <2> SUFFICES ASSUME NEW e \in Editor, NEW r \in Record
               PROVE  TrueCopy(copy[e][r], r)'
    BY DEF CopiesTrue
  <2>1. copy[e][r] \in Copy /\ TrueCopy(copy[e][r], r)
    BY DEF IInv, TypeOK, CopiesTrue
  <2>2. copy'[e][r] = copy[e][r]
    BY <1>1
  <2> QED BY <2>1, <2>2, GrowthKeepsCopy DEF TrueCopy
<1>2. ASSUME req' = req PROVE RequestsTrue'
  <2> SUFFICES ASSUME NEW e \in Editor, req[e].pc # "idle"
               PROVE  TrueRequest(req[e])'
    BY <1>2 DEF RequestsTrue
  <2>1. req[e] \in Request /\ req[e].rec \in Record /\ TrueRequest(req[e])
    BY DEF IInv, TypeOK, RequestOK, RequestsTrue
  <2>2. req'[e] = req[e]
    BY <1>2
  <2> QED BY <2>1, <2>2, GrowthKeepsRequest DEF TrueRequest
<1>3. ASSUME conflicts' = conflicts PROVE NoSpuriousConflicts'
  BY <1>3 DEF IInv, NoSpuriousConflicts, Grows
<1> QED BY <1>1, <1>2, <1>3

LEMMA FaultType == ASSUME faults \in Nat, Fault PROVE faults' \in Nat
BY DEF Fault

LEMMA ServingType == Serving \in Nat /\ Len(SeedOrder) \in Nat /\ Serving = Len(SeedOrder) + 1
BY SeedAssumption DEF Serving

-----------------------------------------------------------------------------
LEMMA InitInv == Init => IInv
<1> SUFFICES ASSUME Init PROVE IInv
  OBVIOUS
<1>1. NoCopy \in Copy /\ NoCopy.shown = 0 /\ NoCopy.read = 0 /\ NoCopy.invites = FALSE
  BY DEF NoCopy, Copy
<1>2. IdleRequest \in Request /\ IdleRequest.pc = "idle"
  BY DEF IdleRequest, Request
<1>3. TypeOK
  BY <1>1, <1>2, ServingType DEF Init, TypeOK, RequestOK
<1>4. CopiesTrue /\ RequestsTrue
  BY <1>1, <1>2 DEF Init, CopiesTrue, RequestsTrue, TrueCopy
<1>5. StorageOK /\ NoSpuriousConflicts
  BY <1>3 DEF Init, TypeOK, StorageOK, Logged, NoLostUpdate, NoSpuriousConflicts
<1> QED BY <1>3, <1>4, <1>5 DEF IInv

(* The type invariant from its parts.                                      *)
LEMMA TypeFromParts ==
  StorageOK /\ kind \in Kinds /\ copy \in [Editor -> [Record -> Copy]]
    /\ req \in [Editor -> Request] /\ (\A e \in Editor : RequestOK(req[e]))
    /\ pos \in [Node -> 0 .. Serving] /\ conflicts \subseteq Conflict /\ faults \in Nat
  => TypeOK
BY DEF StorageOK, TypeOK

(* Requests that do not change stay well-formed.                           *)
LEMMA RequestStays ==
  ASSUME IInv, kind' = kind, NEW e \in Editor, req'[e] = req[e]
  PROVE  RequestOK(req[e])'
BY DEF IInv, TypeOK, RequestOK, HasUser

(* An editor reads.                                                        *)
LEMMA ReadKeepsInv ==
  ASSUME IInv, NEW e \in Editor, NEW r \in Record, Read(e, r), UNCHANGED <<kind, pos>>
  PROVE  IInv'
<1> DEFINE c == [shown |-> version[r], read |-> version[r], invites |-> invites[r]]
<1>1. /\ copy' = [copy EXCEPT ![e][r] = c]
      /\ NotPut /\ req' = req /\ conflicts' = conflicts /\ faults' = faults
  BY DEF Read, VersionRead
<1>2. StorageOK' /\ Grows
  BY <1>1, NotPutKeepsStorage DEF IInv
<1>3. c \in Copy /\ TrueCopy(c, r)
  BY DEF IInv, StorageOK, Copy, TrueCopy
<1>4. copy' \in [Editor -> [Record -> Copy]]
  BY <1>1, <1>3 DEF IInv, TypeOK
<1>5. CopiesTrue'
  <2> SUFFICES ASSUME NEW f \in Editor, NEW s \in Record
               PROVE  TrueCopy(copy[f][s], s)'
    BY DEF CopiesTrue
  <2>1. copy'[f][s] = (IF f = e /\ s = r THEN c ELSE copy[f][s])
    BY <1>1 DEF IInv, TypeOK
  <2>2. TrueCopy(c, r)'
    BY <1>1, <1>3 DEF TrueCopy, NotPut, HasUser
  <2>3. copy[f][s] \in Copy /\ TrueCopy(copy[f][s], s)
    BY DEF IInv, TypeOK, CopiesTrue
  <2>4. CASE f = e /\ s = r
    BY <1>1, <2>1, <2>2, <2>4 DEF TrueCopy, NotPut
  <2>5. CASE ~(f = e /\ s = r)
    BY <1>1, <2>1, <2>3, <2>5 DEF TrueCopy, NotPut, HasUser
  <2> QED BY <2>4, <2>5
<1>6. RequestsTrue' /\ NoSpuriousConflicts'
  BY <1>1, <1>2, GrowthKeepsEditors
<1>7. \A f \in Editor : RequestOK(req[f])'
  BY <1>1, RequestStays
<1>8. TypeOK'
  BY <1>1, <1>2, <1>4, <1>7 DEF IInv, TypeOK, StorageOK, Serving
<1> QED BY <1>2, <1>5, <1>6, <1>8 DEF IInv

(* A step of an editor's request: storage is in order, and the request,    *)
(* the copy and the conflicts that change are true ones.                   *)
LEMMA RequestStepKeepsInv ==
  ASSUME IInv, StorageOK', Grows, UNCHANGED <<kind, pos>>, faults' \in Nat,
         NEW e \in Editor, NEW q \in Request,
         req' = [req EXCEPT ![e] = q], RequestOK(q), q.pc # "idle" => TrueRequest(q)',
         copy' \in [Editor -> [Record -> Copy]], CopiesTrue',
         conflicts' \subseteq Conflict, NoSpuriousConflicts'
  PROVE  IInv'
<1>1. \A f \in Editor : req'[f] = IF f = e THEN q ELSE req[f]
  BY DEF IInv, TypeOK
<1>2. req' \in [Editor -> Request]
  BY DEF IInv, TypeOK
<1>3. \A f \in Editor : RequestOK(req[f])'
  <2> SUFFICES ASSUME NEW f \in Editor PROVE RequestOK(req[f])'
    OBVIOUS
  <2>1. CASE f = e
    BY <1>1, <2>1 DEF RequestOK, HasUser
  <2>2. CASE f # e
    BY <1>1, <2>2, RequestStays
  <2> QED BY <2>1, <2>2
<1>4. RequestsTrue'
  <2> SUFFICES ASSUME NEW f \in Editor, req'[f].pc # "idle" PROVE TrueRequest(req[f])'
    BY DEF RequestsTrue
  <2>1. CASE f = e
    BY <1>1, <2>1 DEF TrueRequest
  <2>2. CASE f # e
    <3>1. req'[f] = req[f]
      BY <1>1, <2>2
    <3>2. req[f] \in Request /\ req[f].rec \in Record /\ TrueRequest(req[f])
      BY <3>1 DEF IInv, TypeOK, RequestOK, RequestsTrue
    <3> QED BY <3>1, <3>2, GrowthKeepsRequest DEF TrueRequest
  <2> QED BY <2>1, <2>2
<1>5. TypeOK'
  BY <1>2, <1>3 DEF IInv, TypeOK, StorageOK, Serving
<1> QED BY <1>4, <1>5 DEF IInv

(* An editor submits a body it may send.                                   *)
LEMMA SubmitKeepsInv ==
  ASSUME IInv, NEW e \in Editor, NEW n \in Node, NEW r \in Record,
         NEW b \in Bodies(e, r), Submit(e, n, r, b), UNCHANGED <<kind, pos>>
  PROVE  IInv'
<1> DEFINE q == [pc |-> FirstCall(r, b.invites), at |-> n, rec |-> r,
                 expected |-> b.expected, read |-> b.read, invites |-> b.invites]
<1>1. /\ req' = [req EXCEPT ![e] = q]
      /\ NotPut /\ copy' = copy /\ conflicts' = conflicts /\ faults' = faults
  BY DEF Submit
<1>2. StorageOK' /\ Grows /\ version' = version
  BY <1>1, NotPutKeepsStorage DEF IInv, NotPut
<1>3. /\ b.expected \in Nat /\ b.read \in Nat /\ b.invites \in BOOLEAN
      /\ b.expected = b.read /\ b.read <= version[r] /\ (b.invites => HasUser(r))
  <2>1. copy[e][r] \in Copy /\ version[r] \in Nat /\ TrueCopy(copy[e][r], r)
    BY DEF IInv, TypeOK, CopiesTrue
  <2>2. HasUser(r) \in BOOLEAN
    BY DEF HasUser
  <2>3. CASE b = [expected |-> copy[e][r].shown, read |-> copy[e][r].read,
                  invites |-> copy[e][r].invites]
    BY <2>1, <2>3 DEF Copy, TrueCopy
  <2>4. ASSUME NEW i \in {FALSE, HasUser(r)}, b = [expected |-> 0, read |-> 0, invites |-> i]
        PROVE  <1>3
    <3>1. b.expected = 0 /\ b.read = 0 /\ b.invites = i
      BY <2>4
    <3>2. (i => HasUser(r)) /\ i \in BOOLEAN
      BY <2>2
    <3>3. (b.invites => HasUser(r)) /\ b.invites \in BOOLEAN
      BY <3>1, <3>2, Zenon
    <3> QED BY <2>1, <3>1, <3>3
  <2> QED BY <2>3, <2>4 DEF Bodies
<1>4. q \in Request /\ RequestOK(q) /\ TrueRequest(q)
  BY <1>3 DEF Request, RequestOK, TrueRequest, FirstCall
<1>5. TrueRequest(q)'
  BY <1>1, <1>2, <1>4, GrowthKeepsRequest DEF RequestOK, TrueRequest, FirstCall
<1>6. CopiesTrue' /\ NoSpuriousConflicts'
  BY <1>1, <1>2, GrowthKeepsEditors
<1> HIDE DEF q
<1> QED BY <1>1, <1>2, <1>4, <1>5, <1>6, RequestStepKeepsInv DEF IInv, TypeOK

(* The initial user is written, or that fails.                             *)
LEMMA PutInitialUserKeepsInv ==
  ASSUME IInv, NEW e \in Editor, PutInitialUser(e)
  PROVE  IInv'
<1>1. /\ req[e] \in Request /\ req[e].pc = "user" /\ req[e].rec \in Record
      /\ HasUser(req[e].rec) /\ TrueRequest(req[e])
  BY DEF PutInitialUser, IInv, TypeOK, RequestOK, RequestsTrue
<1>2. PICK u \in Record : u = UserOf[req[e].rec]
  BY <1>1, KindsAssumption DEF HasUser
<1>3. PICK q \in Request : q = [req[e] EXCEPT !.pc = "put"]
  BY <1>1 DEF Request
<1>4. /\ req' = [req EXCEPT ![e] = q]
      /\ UNCHANGED <<kind, pos>> /\ copy' = copy /\ conflicts' = conflicts
  BY <1>3 DEF PutInitialUser, IInv, TypeOK
<1>5. StorageOK' /\ Grows /\ faults' \in Nat
  <2>1. CASE Put(u, 0, e, 0, FALSE) /\ UNCHANGED faults
    BY <1>2, <1>4, <2>1, PutKeepsStorage DEF IInv, TypeOK
  <2>2. CASE Fault /\ NotPut
    BY <1>4, <2>2, NotPutKeepsStorage, FaultType DEF IInv, TypeOK
  <2> QED BY <1>2, <2>1, <2>2 DEF PutInitialUser
<1>6. RequestOK(q) /\ TrueRequest(q) /\ q.rec \in Record
  BY <1>1, <1>3 DEF Request, RequestOK, TrueRequest
<1>7. TrueRequest(q)'
  BY <1>4, <1>5, <1>6, GrowthKeepsRequest
<1>8. CopiesTrue' /\ NoSpuriousConflicts'
  BY <1>4, <1>5, GrowthKeepsEditors
<1> QED BY <1>4, <1>5, <1>6, <1>7, <1>8, RequestStepKeepsInv DEF IInv, TypeOK

(* The answer to a write that landed is a true copy.                       *)
LEMMA AnswerKeepsCopies ==
  ASSUME IInv, StorageOK', Grows, kind' = kind,
         NEW e \in Editor, NEW r \in Record, NEW c \in Copy, TrueCopy(c, r)',
         copy' = [copy EXCEPT ![e][r] = c]
  PROVE  copy' \in [Editor -> [Record -> Copy]] /\ CopiesTrue'
<1>1. copy' \in [Editor -> [Record -> Copy]]
  BY DEF IInv, TypeOK
<1>2. ASSUME NEW f \in Editor, NEW s \in Record PROVE TrueCopy(copy[f][s], s)'
  <2>1. copy'[f][s] = (IF f = e /\ s = r THEN c ELSE copy[f][s])
    BY DEF IInv, TypeOK
  <2>2. copy[f][s] \in Copy /\ TrueCopy(copy[f][s], s)
    BY DEF IInv, TypeOK, CopiesTrue
  <2>3. CASE f = e /\ s = r
    BY <2>1, <2>3 DEF TrueCopy
  <2>4. CASE ~(f = e /\ s = r)
    BY <2>1, <2>2, <2>4, GrowthKeepsCopy DEF TrueCopy
  <2> QED BY <2>3, <2>4
<1> QED BY <1>1, <1>2 DEF CopiesTrue

(* The record is written, refused, or the write fails.                     *)
LEMMA PutRecordKeepsInv ==
  ASSUME IInv, NEW e \in Editor, PutRecord(e)
  PROVE  IInv'
<1>0. PICK q \in Request : q = req[e]
  BY DEF IInv, TypeOK
<1>1. /\ q \in Request /\ q.pc = "put" /\ q.rec \in Record /\ TrueRequest(q)
      /\ q.expected \in Nat /\ q.read \in Nat /\ q.invites \in BOOLEAN
      /\ q.expected = q.read /\ q.read <= version[q.rec] /\ (q.invites => HasUser(q.rec))
  BY <1>0 DEF PutRecord, IInv, TypeOK, RequestOK, RequestsTrue, Request, TrueRequest
<1>2. UNCHANGED <<kind, pos>> /\ IdleRequest \in Request /\ RequestOK(IdleRequest)
      /\ IdleRequest.pc = "idle"
  BY DEF PutRecord, IdleRequest, Request, RequestOK
<1>3. ASSUME Put(q.rec, q.expected, e, q.read, q.invites), conflicts' = conflicts,
             \/ /\ copy' = [copy EXCEPT ![e][q.rec] =
                            [shown |-> last + 1, read |-> last + 1, invites |-> q.invites]]
                /\ Reply(e) /\ UNCHANGED faults
             \/ Fault /\ (Reply(e) \/ UNCHANGED req) /\ UNCHANGED copy
      PROVE  IInv'
  <2>1. StorageOK' /\ Grows /\ version'[q.rec] = last + 1 /\ faults' \in Nat
    <3>1. faults' \in Nat
      BY <1>3, FaultType DEF IInv, TypeOK
    <3> QED BY <1>1, <1>2, <1>3, <3>1, PutKeepsStorage DEF IInv
  <2>2. NoSpuriousConflicts' /\ conflicts' \subseteq Conflict
    BY <1>2, <1>3, <2>1, GrowthKeepsEditors DEF IInv, TypeOK
  <2>3. copy' \in [Editor -> [Record -> Copy]] /\ CopiesTrue'
    <3>1. CASE copy' = [copy EXCEPT ![e][q.rec] =
                          [shown |-> last + 1, read |-> last + 1, invites |-> q.invites]]
      <4>1. PICK c \in Copy : c = [shown |-> last + 1, read |-> last + 1,
                                   invites |-> q.invites]
        <5>1. last + 1 \in Nat
          BY DEF IInv, TypeOK
        <5> QED BY <1>1, <5>1 DEF Copy
      <4>2. TrueCopy(c, q.rec)'
        BY <1>1, <1>2, <2>1, <4>1 DEF TrueCopy, HasUser, IInv, TypeOK
      <4> QED BY <1>1, <1>2, <2>1, <3>1, <4>1, <4>2, AnswerKeepsCopies
    <3>2. CASE UNCHANGED copy
      BY <1>2, <2>1, <3>2, GrowthKeepsEditors DEF IInv, TypeOK
    <3> QED BY <1>3, <3>1, <3>2
  <2>4. CASE Reply(e)
    BY <1>2, <2>1, <2>2, <2>3, <2>4, RequestStepKeepsInv DEF Reply
  <2>5. CASE UNCHANGED req
    <3>1. req' = [req EXCEPT ![e] = q] /\ RequestOK(q)
      BY <1>0, <2>5 DEF IInv, TypeOK
    <3>2. TrueRequest(q)'
      BY <1>1, <1>2, <2>1, GrowthKeepsRequest
    <3> QED BY <1>1, <1>2, <2>1, <2>2, <2>3, <3>1, <3>2, RequestStepKeepsInv
  <2> QED BY <1>3, <2>4, <2>5
<1>4. ASSUME Reply(e), NotPut, UNCHANGED copy, faults' \in Nat,
             conflicts' \subseteq Conflict, NoSpuriousConflicts'
      PROVE  IInv'
  <2>1. StorageOK' /\ Grows
    BY <1>2, <1>4, NotPutKeepsStorage DEF IInv
  <2>2. CopiesTrue' /\ copy' \in [Editor -> [Record -> Copy]]
    BY <1>2, <1>4, <2>1, GrowthKeepsEditors DEF IInv, TypeOK
  <2> QED BY <1>2, <1>4, <2>1, <2>2, RequestStepKeepsInv DEF Reply
<1>5. ASSUME ~Matches(q.rec, q.expected), NotPut,
             conflicts' = conflicts \cup {[rec |-> q.rec, read |-> q.read]}
      PROVE  conflicts' \subseteq Conflict /\ NoSpuriousConflicts'
  <2>1. q.expected # 0 /\ version[q.rec] # q.expected
    BY <1>5 DEF Matches
  <2>2. version[q.rec] \in Nat
    BY <1>1 DEF IInv, TypeOK
  <2>3. version[q.rec] # 0 /\ version[q.rec] > q.read
    BY <1>1, <2>1, <2>2
  <2>4. \E w \in log : w.rec = q.rec /\ w.version > q.read
    BY <1>1, <2>3 DEF IInv, StorageOK, Logged
  <2>5. conflicts' \subseteq Conflict
    BY <1>1, <1>5 DEF IInv, TypeOK, Conflict
  <2>6. NoSpuriousConflicts'
    BY <1>5, <2>4 DEF IInv, NoSpuriousConflicts, NotPut
  <2> QED BY <2>5, <2>6
<1>6. CASE /\ ~Matches(q.rec, q.expected)
           /\ conflicts' = conflicts \cup {[rec |-> q.rec, read |-> q.read]}
           /\ Reply(e) /\ NotPut /\ UNCHANGED <<copy, faults>>
  BY <1>4, <1>5, <1>6 DEF IInv, TypeOK
<1>7. CASE Fault /\ Reply(e) /\ NotPut /\ UNCHANGED <<copy, conflicts>>
  <2>1. faults' \in Nat
    BY <1>7, FaultType DEF IInv, TypeOK
  <2>2. conflicts' \subseteq Conflict /\ NoSpuriousConflicts'
    BY <1>7 DEF IInv, TypeOK, NoSpuriousConflicts, NotPut
  <2> QED BY <1>4, <1>7, <2>1, <2>2
<1> QED BY <1>0, <1>3, <1>6, <1>7 DEF PutRecord, VersionAnswered

-----------------------------------------------------------------------------
(* Nodes: requests are untouched or dropped, copies and conflicts stay.    *)
LEMMA NodeStepKeepsInv ==
  ASSUME IInv, StorageOK', Grows, faults' \in Nat, pos' \in [Node -> 0 .. Serving],
         UNCHANGED <<kind, copy, conflicts>>,
         NEW D \in SUBSET Editor,
         req' = [e \in Editor |-> IF e \in D THEN IdleRequest ELSE req[e]]
  PROVE  IInv'
<1>1. IdleRequest \in Request /\ RequestOK(IdleRequest) /\ IdleRequest.pc = "idle"
  BY DEF IdleRequest, Request, RequestOK
<1>2. req' \in [Editor -> Request]
  BY <1>1 DEF IInv, TypeOK
<1>3. ASSUME NEW e \in Editor
      PROVE  RequestOK(req[e])' /\ (req'[e].pc # "idle" => TrueRequest(req[e])')
  <2>1. CASE e \in D
    BY <1>1, <2>1 DEF RequestOK, HasUser
  <2>2. CASE e \notin D
    <3>1. req'[e] = req[e]
      BY <2>2
    <3>2. RequestOK(req[e])'
      BY <3>1, RequestStays
    <3>3. ASSUME req'[e].pc # "idle" PROVE TrueRequest(req[e])'
      <4>1. req[e] \in Request /\ req[e].rec \in Record /\ TrueRequest(req[e])
        BY <3>1, <3>3 DEF IInv, TypeOK, RequestOK, RequestsTrue
      <4> QED BY <3>1, <4>1, GrowthKeepsRequest DEF TrueRequest
    <3> QED BY <3>2, <3>3
  <2> QED BY <2>1, <2>2
<1>4. RequestsTrue'
  BY <1>3 DEF RequestsTrue
<1>5. CopiesTrue' /\ NoSpuriousConflicts'
  BY GrowthKeepsEditors
<1>6. TypeOK'
  BY <1>2, <1>3 DEF IInv, TypeOK, StorageOK, Serving
<1> QED BY <1>4, <1>5, <1>6 DEF IInv

LEMMA QuietNodeStepKeepsInv ==
  ASSUME IInv, StorageOK', Grows, faults' \in Nat, pos' \in [Node -> 0 .. Serving],
         UNCHANGED <<kind, copy, conflicts, req>>
  PROVE  IInv'
<1>1. PICK D \in SUBSET Editor : D = {}
  OBVIOUS
<1>2. req' = [e \in Editor |-> IF e \in D THEN IdleRequest ELSE req[e]]
  BY <1>1 DEF IInv, TypeOK
<1> QED BY <1>2, NodeStepKeepsInv

LEMMA StartKeepsInv ==
  ASSUME IInv, NEW n \in Node, Start(n)
  PROVE  IInv'
<1>1. pos' \in [Node -> 0 .. Serving] /\ faults' \in Nat
  <2>1. 1 \in 0 .. Serving /\ Serving \in 0 .. Serving
    BY ServingType
  <2>2. pos' \in [Node -> 0 .. Serving]
    BY <2>1 DEF Start, IInv, TypeOK
  <2>3. faults' \in Nat
    BY FaultType DEF Start, IInv, TypeOK
  <2> QED BY <2>2, <2>3
<1>2. NotPut /\ UNCHANGED <<kind, copy, req, conflicts>>
  BY DEF Start, NotPut
<1>3. StorageOK' /\ Grows
  BY <1>2, NotPutKeepsStorage DEF IInv
<1> QED BY <1>1, <1>2, <1>3, QuietNodeStepKeepsInv

LEMMA SeedKeepsInv ==
  ASSUME IInv, NEW n \in Node, Seed(n)
  PROVE  IInv'
<1>1. pos' \in [Node -> 0 .. Serving]
  BY ServingType DEF Seed, IInv, TypeOK
<1>2. UNCHANGED <<kind, copy, req, conflicts>>
  BY DEF Seed
<1>3. PICK r \in Record : r = SeedOrder[pos[n]]
  BY SeedAssumption DEF Seed
<1>4. StorageOK' /\ Grows /\ faults' \in Nat
  <2>1. CASE Put(r, 0, n, 0, FALSE) /\ UNCHANGED faults
    BY <1>2, <2>1, PutKeepsStorage DEF IInv, TypeOK
  <2>2. CASE Fault /\ NotPut
    BY <1>2, <2>2, NotPutKeepsStorage, FaultType DEF IInv, TypeOK
  <2> QED BY <1>3, <2>1, <2>2 DEF Seed
<1> QED BY <1>1, <1>2, <1>4, QuietNodeStepKeepsInv

LEMMA StopKeepsInv ==
  ASSUME IInv, NEW n \in Node, Stop(n)
  PROVE  IInv'
<1>1. pos' \in [Node -> 0 .. Serving] /\ faults' \in Nat
  BY ServingType, FaultType DEF Stop, IInv, TypeOK
<1>2. NotPut /\ UNCHANGED <<kind, copy, conflicts>>
  BY DEF Stop, NotPut
<1>3. StorageOK' /\ Grows
  BY <1>2, NotPutKeepsStorage DEF IInv
<1>4. PICK D \in SUBSET Editor : D = {e \in Editor : req[e].at = n}
  OBVIOUS
<1>5. req' = [e \in Editor |-> IF e \in D THEN IdleRequest ELSE req[e]]
  BY <1>4 DEF Stop
<1> QED BY <1>1, <1>2, <1>3, <1>5, NodeStepKeepsInv

LEMMA StutterKeepsInv == IInv /\ UNCHANGED vars => IInv'
<1> SUFFICES ASSUME IInv, UNCHANGED vars PROVE IInv'
  OBVIOUS
<1>1. NotPut /\ UNCHANGED <<kind, copy, req, conflicts, pos, faults>>
  BY DEF vars, NotPut
<1>2. StorageOK' /\ Grows
  BY <1>1, NotPutKeepsStorage DEF IInv
<1>3. pos' \in [Node -> 0 .. Serving] /\ faults' \in Nat
  BY <1>1 DEF IInv, TypeOK
<1> QED BY <1>1, <1>2, <1>3, QuietNodeStepKeepsInv

LEMMA HandleKeepsInv ==
  ASSUME IInv, NEW e \in Editor, Handle(e)
  PROVE  IInv'
<1>1. PICK n \in Node, r \in Record : ReadOrSubmit(e, n, r)
  BY DEF Handle, HandleOrganizations, HandleApps, HandleIDPs, HandleAdminUsers,
         HandleTeams, HandleRoles, HandleWorkloads
<1>2. UNCHANGED <<kind, pos>>
  BY DEF Handle
<1>3. CASE Read(e, r)
  BY <1>2, <1>3, ReadKeepsInv
<1>4. ASSUME NEW b \in Bodies(e, r), Submit(e, n, r, b) PROVE IInv'
  BY <1>2, <1>4, SubmitKeepsInv
<1> QED BY <1>1, <1>3, <1>4 DEF ReadOrSubmit

LEMMA NextInv == IInv /\ [Next]_vars => IInv'
<1> SUFFICES ASSUME IInv, [Next]_vars PROVE IInv'
  OBVIOUS
<1>1. ASSUME NEW e \in Editor, Handle(e) \/ PutInitialUser(e) \/ PutRecord(e) PROVE IInv'
  BY <1>1, HandleKeepsInv, PutInitialUserKeepsInv, PutRecordKeepsInv
<1>2. ASSUME NEW n \in Node, Start(n) \/ Seed(n) \/ Stop(n) PROVE IInv'
  BY <1>2, StartKeepsInv, SeedKeepsInv, StopKeepsInv
<1> QED BY <1>1, <1>2, StutterKeepsInv DEF Next

(* The invariant holds in every behaviour of nodes and editors.            *)
THEOREM AdminInvariant == Spec => []IInv
BY InitInv, NextInv, PTL DEF Spec

(* The handlers and the seeding keep the types of storage, copies and      *)
(* requests; in particular only organizations write an initial user.       *)
THEOREM AdminTypeCorrect == Spec => []TypeOK
<1>1. IInv => TypeOK
  BY DEF IInv
<1> QED BY <1>1, AdminInvariant, PTL

(* An update sent with the version of the copy it was made from replaces   *)
(* exactly that copy, whichever nodes, editors and seedings interfere.     *)
THEOREM NoLostUpdateTheorem == Spec => []NoLostUpdate
<1>1. IInv => NoLostUpdate
  BY DEF IInv, StorageOK
<1> QED BY <1>1, AdminInvariant, PTL

(* cas_conflict is answered only if the record was written since the copy  *)
(* that was edited.                                                        *)
THEOREM NoSpuriousConflictsTheorem == Spec => []NoSpuriousConflicts
<1>1. IInv => NoSpuriousConflicts
  BY DEF IInv
<1> QED BY <1>1, AdminInvariant, PTL
=============================================================================
