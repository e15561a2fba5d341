--------------------------- MODULE CredentialChain ---------------------------
(***************************************************************************)
(* What the one-time records of pkg/idp promise.  A login is a chain of    *)
(* records - the authorization state, the code, the refresh tokens of one  *)
(* family - each exchanged for the next.  A record can be taken out of the *)
(* pool once; whoever took it may put one successor in its place or lose   *)
(* it.  Nodes, requests, storage, caches and credentials are not visible.  *)
(***************************************************************************)
EXTENDS TLAPS

CONSTANTS Handle, None

VARIABLES
  login,   \* handle -> the first handle of its chain, or None before it exists
  from,    \* handle -> the handle it replaced, or None
  live,    \* handles that can still be presented
  held     \* handles taken and not yet replaced or lost

vars == <<login, from, live, held>>

TypeOK == /\ login \in [Handle -> Handle \cup {None}]
          /\ from \in [Handle -> Handle \cup {None}]
          /\ live \in SUBSET Handle
          /\ held \in SUBSET Handle

Init == /\ login = [h \in Handle |-> None]
        /\ from = [h \in Handle |-> None]
        /\ live = {}
        /\ held = {}

(* A login begins.                                                         *)
Begin(h) == /\ login[h] = None
            /\ login' = [login EXCEPT ![h] = h]
            /\ live' = live \cup {h}
            /\ UNCHANGED <<from, held>>

(* Somebody takes the record, or it is taken and lost in one step.         *)
Take(h) == /\ h \in live
           /\ live' = live \ {h}
           /\ held' = held \cup {h} \/ held' = held
           /\ UNCHANGED <<login, from>>

(* Its one successor takes its place.                                      *)
Replace(h, g) == /\ h \in held
                 /\ login[g] = None
                 /\ login' = [login EXCEPT ![g] = login[h]]
                 /\ from' = [from EXCEPT ![g] = h]
                 /\ held' = held \ {h}
                 /\ live' = live \cup {g}

(* Refusals, errors and crashes lose what was taken.                       *)
Lose == /\ held' \in SUBSET held
        /\ UNCHANGED <<login, from, live>>

Next == \/ \E h \in Handle : Begin(h) \/ Take(h)
        \/ \E h, g \in Handle : Replace(h, g)
        \/ Lose

Spec == Init /\ [][Next]_vars

(* A chain has one usable end: no two of its records can be presented, or  *)
(* are in somebody's hands, at once.                                       *)
OneEnd == \A g, h \in live \cup held : login[g] = login[h] => g = h

(* A record has at most one successor.                                     *)
Unforked == \A g, h \in Handle : from[g] # None /\ from[g] = from[h] => g = h

-----------------------------------------------------------------------------
(* A usable end exists, is not both live and held and has no successor;    *)
(* a handle that was never used is nobody's login or successor.            *)
Inv == /\ TypeOK
       /\ OneEnd
       /\ Unforked
       /\ live \cap held = {}
       /\ \A h \in live \cup held : login[h] # None
       /\ \A h \in live \cup held : \A g \in Handle : from[g] # h
       /\ \A h \in Handle : from[h] # None => login[h] # None /\ login[from[h]] # None
       /\ \A h \in Handle : login[h] # None => login[login[h]] # None

(* The invariant holds at the start and is kept by every step of a chain.  *)
LEMMA ChainInit == ASSUME None \notin Handle PROVE Init => Inv
  BY DEF Init, Inv, TypeOK, OneEnd, Unforked

LEMMA ChainNext == ASSUME None \notin Handle, Inv, [Next]_vars PROVE Inv'
<1>1. CASE UNCHANGED vars
  BY <1>1 DEF vars, Inv, TypeOK, OneEnd, Unforked
<1>2. ASSUME NEW h \in Handle, Begin(h) PROVE Inv'
  BY <1>2 DEF Begin, Inv, TypeOK, OneEnd, Unforked
<1>3. ASSUME NEW h \in Handle, Take(h) PROVE Inv'
  BY <1>3 DEF Take, Inv, TypeOK, OneEnd, Unforked
<1>4. ASSUME NEW h \in Handle, NEW g \in Handle, Replace(h, g) PROVE Inv'
  BY <1>4 DEF Replace, Inv, TypeOK, OneEnd, Unforked
<1>5. CASE Lose
  BY <1>5 DEF Lose, Inv, TypeOK, OneEnd, Unforked
<1> QED
  BY <1>1, <1>2, <1>3, <1>4, <1>5 DEF Next

(* In every behaviour of the promise a chain has one usable end and never  *)
(* forks.                                                                  *)
THEOREM ChainSafety ==
  ASSUME None \notin Handle PROVE Spec => [](OneEnd /\ Unforked)
<1>1. Init => Inv
  BY ChainInit
<1>2. Inv /\ [Next]_vars => Inv'
  BY ChainNext
<1>3. Inv => OneEnd /\ Unforked
  BY DEF Inv
<1> QED
  BY <1>1, <1>2, <1>3, PTL DEF Spec
=============================================================================
