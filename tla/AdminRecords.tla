---------------------------- MODULE AdminRecords ----------------------------
(***************************************************************************)
(* The records of the administration API and their versions: editors who   *)
(* read, change and write back organizations, apps, providers, users,      *)
(* teams, roles and workloads, through nodes that share a bucket and that  *)
(* seed it when they find it empty.                                        *)
(*                                                                         *)
(* A handler answers a GET in one step.  A write is answered after its     *)
(* last storage call, with one step for each; an organization that brings  *)
(* its initial user makes two.  No handler deletes a record.               *)
(*                                                                         *)
(* A definition that nothing uses and that stands right before another of  *)
(* the same arity is a slip the code could have made there; the properties *)
(* are tested against it.                                                  *)
(***************************************************************************)
EXTENDS Naturals, Sequences

CONSTANTS
  Node,        \* server processes sharing the bucket
  Editor,      \* administrators, one request in flight each
  Record,      \* storage keys of administration records
  Kinds,       \* the assignments of records to collections to consider
  UserOf,      \* organization -> the record its initial user may have, or None
  SeedOrder,   \* what seedInitialData writes, the default organization first
  Blind,       \* whether editors also write without the version they hold
  MaxWrites,   \* bound: writes in a behaviour
  MaxFaults,   \* bound: storage errors and crashes in a behaviour
  None         \* the absent value

Collection == {"organization", "app", "idp", "user", "team", "role", "workload"}

ASSUME KindsAssumption ==
  /\ Kinds \subseteq [Record -> Collection]
  /\ UserOf \in [Record -> Record \cup {None}]
  /\ None \notin Record
ASSUME SeedAssumption  == SeedOrder \in Seq(Record) /\ SeedOrder # <<>>
ASSUME NodeAssumption  == None \notin Node /\ Node \cap Editor = {}
ASSUME BoundAssumption == MaxWrites \in Nat /\ MaxFaults \in Nat /\ Blind \in BOOLEAN

VARIABLES
  kind,       \* record -> the collection it is in, fixed
  version,    \* record -> its version (ETag) in storage, 0 if there is none
  invites,    \* record -> does its stored body name an initial user?
  last,       \* the newest version any write was given
  copy,       \* editor -> record -> what the editor last saw of it
  req,        \* editor -> its request in flight
  pos,        \* node -> 0: down, i: to seed the i-th record, Serving: up
  log,        \* history: the writes that landed
  conflicts,  \* history: the requests answered cas_conflict
  faults      \* storage errors and crashes so far

vars == <<kind, version, invites, last, copy, req, pos, log, conflicts, faults>>

-----------------------------------------------------------------------------
(* Data                                                                    *)

Serving == Len(SeedOrder) + 1

(* shown is the version the editor was told, read (history) the version    *)
(* its copy really is; 0 for none.                                         *)
Copy == [shown : Nat, read : Nat, invites : BOOLEAN]

(* expected is X-Expected-Version or the version in the body, 0 for "".    *)
(* read (history) is the version of the copy that was edited, 0 if the     *)
(* editor did not say which.                                               *)
Request == [pc : {"idle", "user", "put"}, at : Node \cup {None},
            rec : Record \cup {None}, expected : Nat, read : Nat, invites : BOOLEAN]

IdleRequest == [pc |-> "idle", at |-> None, rec |-> None, expected |-> 0,
                read |-> 0, invites |-> FALSE]

(* A write of version to rec that replaced base.                           *)
Write == [rec : Record, version : Nat, base : Nat, by : Editor \cup Node,
          expected : Nat, read : Nat]

Conflict == [rec : Record, read : Nat]

(* Only an organization can bring a user.                                  *)
HasUser(r) == /\ kind[r] = "organization"
              /\ UserOf[r] # None /\ kind[UserOf[r]] = "user"

RequestOK(q) == /\ q \in Request
                /\ q.pc # "idle" => q.rec \in Record
                /\ q.pc = "user" => HasUser(q.rec)

TypeOK == /\ kind \in Kinds
          /\ version \in [Record -> Nat]
          /\ invites \in [Record -> BOOLEAN]
          /\ last \in Nat
          /\ copy \in [Editor -> [Record -> Copy]]
          /\ \A e \in Editor : RequestOK(req[e])
          /\ req \in [Editor -> Request]
          /\ pos \in [Node -> 0 .. Serving]
          /\ log \subseteq Write
          /\ conflicts \subseteq Conflict
          /\ faults \in Nat

NoCopy == [shown |-> 0, read |-> 0, invites |-> FALSE]

Init == /\ kind \in Kinds
        /\ version = [r \in Record |-> 0]
        /\ invites = [r \in Record |-> FALSE]
        /\ last = 0
        /\ copy = [e \in Editor |-> [r \in Record |-> NoCopy]]
        /\ req = [e \in Editor |-> IdleRequest]
        /\ pos = [n \in Node |-> 0]
        /\ log = {} /\ conflicts = {}
        /\ faults = 0

-----------------------------------------------------------------------------
(* Storage                                                                 *)

Fault == faults < MaxFaults /\ faults' = faults + 1

AlwaysMatches(r, expected) == TRUE
Matches(r, expected) == expected = 0 \/ version[r] = expected

(* A write that lands.  Every body carries the time of its writing, so the *)
(* version, a digest of the body or a fresh id, is new.                    *)
Put(r, expected, by, read, i) ==
  /\ last < MaxWrites
  /\ Matches(r, expected)
  /\ last' = last + 1
  /\ version' = [version EXCEPT ![r] = last + 1]
  /\ invites' = [invites EXCEPT ![r] = i]
  /\ log' = log \cup {[rec |-> r, version |-> last + 1, base |-> version[r],
                       by |-> by, expected |-> expected, read |-> read]}

NotPut == UNCHANGED <<version, invites, last, log>>

-----------------------------------------------------------------------------
(* Administration requests                                                 *)

(* The version a GET shows: that of the object.  The one in the body is    *)
(* the version the body's own write expected.                              *)
VersionInBody(r) ==
  IF version[r] = 0 THEN 0
  ELSE (CHOOSE w \in log : w.version = version[r]).expected
VersionRead(r) == version[r]

(* The version the answer to a write shows: not the one it was sent with.  *)
VersionSent(sent, new) == sent
VersionAnswered(sent, new) == new

(* GET of a record or of its collection.                                   *)
Read(e, r) ==
  /\ version[r] # 0
  /\ copy' = [copy EXCEPT ![e][r] = [shown |-> VersionRead(r), read |-> version[r],
                                     invites |-> invites[r]]]
  /\ UNCHANGED <<req, conflicts, faults>> /\ NotPut

(* What an editor sends: the body it holds, with its version; a new record *)
(* if it looked and found none; and if it is a blind one, any.             *)
Bodies(e, r) ==
  LET held == copy[e][r]
      back == [expected |-> held.shown, read |-> held.read, invites |-> held.invites]
      new  == {[expected |-> 0, read |-> 0, invites |-> i] : i \in {FALSE, HasUser(r)}}
  IN  {b \in {back} : held.read # 0}
        \cup {b \in new : \/ Blind
                          \/ /\ held.read = 0 /\ version[r] = 0
                             /\ b.invites => version[UserOf[r]] = 0}

AlwaysUserFirst(r, i) == "user"
FirstCall(r, i) == IF i THEN "user" ELSE "put"

(* POST or PUT, up to the first storage call.                              *)
Submit(e, n, r, b) ==
  /\ req' = [req EXCEPT ![e] =
               [pc |-> FirstCall(r, b.invites), at |-> n, rec |-> r,
                expected |-> b.expected, read |-> b.read, invites |-> b.invites]]
  /\ UNCHANGED <<copy, conflicts, faults>> /\ NotPut

(* What the handlers of all collections have in common.                    *)
ReadOrSubmit(e, n, r) == Read(e, r) \/ \E b \in Bodies(e, r) : Submit(e, n, r, b)

HandleOrganizations(e, n, r) == kind[r] = "organization" /\ ReadOrSubmit(e, n, r)
HandleApps(e, n, r)          == kind[r] = "app"          /\ ReadOrSubmit(e, n, r)
HandleIDPs(e, n, r)          == kind[r] = "idp"          /\ ReadOrSubmit(e, n, r)
HandleAdminUsers(e, n, r)    == kind[r] = "user"         /\ ReadOrSubmit(e, n, r)
HandleTeams(e, n, r)         == kind[r] = "team"         /\ ReadOrSubmit(e, n, r)
HandleRoles(e, n, r)         == kind[r] = "role"         /\ ReadOrSubmit(e, n, r)
HandleWorkloads(e, n, r)     == kind[r] = "workload"     /\ ReadOrSubmit(e, n, r)

Handle(e) ==
  /\ req[e].pc = "idle"
  /\ UNCHANGED <<kind, pos>>
  /\ \E n \in Node, r \in Record :
       /\ pos[n] = Serving
       /\ \/ HandleOrganizations(e, n, r) \/ HandleApps(e, n, r)
          \/ HandleIDPs(e, n, r) \/ HandleAdminUsers(e, n, r)
          \/ HandleTeams(e, n, r) \/ HandleRoles(e, n, r)
          \/ HandleWorkloads(e, n, r)

(* The initial user is written whatever is stored, and however that ends   *)
(* the organization is written next.                                       *)
PutInitialUser(e) ==
  /\ req[e].pc = "user"
  /\ req' = [req EXCEPT ![e].pc = "put"]
  /\ \/ Put(UserOf[req[e].rec], 0, e, 0, FALSE) /\ UNCHANGED faults
     \/ Fault /\ NotPut
  /\ UNCHANGED <<kind, copy, pos, conflicts>>

Reply(e) == req' = [req EXCEPT ![e] = IdleRequest]

(* The write of the record itself, its answer, and a retry by the storage  *)
(* client of a write that landed without its knowing.                      *)
PutRecord(e) ==
  LET q == req[e] IN
  /\ q.pc = "put"
  /\ \/ /\ Put(q.rec, q.expected, e, q.read, q.invites)
        /\ \/ /\ copy' = [copy EXCEPT ![e][q.rec] =
                            [shown |-> VersionAnswered(q.expected, last + 1),
                             read |-> last + 1, invites |-> q.invites]]
              /\ Reply(e) /\ UNCHANGED faults
           \/ Fault /\ (Reply(e) \/ UNCHANGED req) /\ UNCHANGED copy
        /\ UNCHANGED conflicts
     \/ /\ ~Matches(q.rec, q.expected)
        /\ conflicts' = conflicts \cup {[rec |-> q.rec, read |-> q.read]}
        /\ Reply(e) /\ NotPut /\ UNCHANGED <<copy, faults>>
     \/ Fault /\ Reply(e) /\ NotPut /\ UNCHANGED <<copy, conflicts>>
  /\ UNCHANGED <<kind, pos>>

-----------------------------------------------------------------------------
(* Nodes                                                                   *)

(* A node that starts seeds if the default organization is not found; any  *)
(* other error of that read is ignored.                                    *)
Start(n) ==
  /\ pos[n] = 0
  /\ \/ /\ pos' = [pos EXCEPT ![n] = IF version[SeedOrder[1]] = 0 THEN 1 ELSE Serving]
        /\ UNCHANGED faults
     \/ Fault /\ pos' = [pos EXCEPT ![n] = Serving]
  /\ UNCHANGED <<kind, version, invites, last, copy, req, log, conflicts>>

(* Each record is written whatever is stored, and errors are ignored.      *)
Seed(n) ==
  /\ pos[n] \in 1 .. Len(SeedOrder)
  /\ pos' = [pos EXCEPT ![n] = @ + 1]
  /\ \/ Put(SeedOrder[pos[n]], 0, n, 0, FALSE) /\ UNCHANGED faults
     \/ Fault /\ NotPut
  /\ UNCHANGED <<kind, copy, req, conflicts>>

(* A node stops at any point; its requests are not answered.               *)
Stop(n) ==
  /\ pos[n] # 0 /\ Fault
  /\ pos' = [pos EXCEPT ![n] = 0]
  /\ req' = [e \in Editor |-> IF req[e].at = n THEN IdleRequest ELSE req[e]]
  /\ UNCHANGED <<kind, version, invites, last, copy, log, conflicts>>

Next == \/ \E e \in Editor : Handle(e) \/ PutInitialUser(e) \/ PutRecord(e)
        \/ \E n \in Node : Start(n) \/ Seed(n) \/ Stop(n)

Spec == Init /\ [][Next]_vars

-----------------------------------------------------------------------------
(* Properties                                                              *)

(* An update sent with the version of the copy it was made from replaces   *)
(* that copy and nothing newer: what shown versions, expected versions and *)
(* the storage's comparison are for.                                       *)
NoLostUpdate == \A w \in log : w.read # 0 => w.base = w.read

(* An editor is told of a conflict only if the record has been written     *)
(* since the copy it edited: an editor alone at a record can go on from    *)
(* the answer of its last write.                                           *)
NoSpuriousConflicts ==
  \A c \in conflicts : \E w \in log : w.rec = c.rec /\ w.version > c.read

(* All updates of existing records carry the version they replace, as the  *)
(* README of the repository says they must.                                *)
UpdatesRequireVersion ==
  \A w \in log : w.by \in Editor /\ w.base # 0 => w.expected = w.base
=============================================================================
