----------------------------- MODULE MCGrantFlow -----------------------------
(* Instances of GrantFlow for TLC.                                         *)
EXTENDS GrantFlow, TLC

CONSTANTS acme, default, spa, console, other, u1, u2, v1, vShort, s1, s2,
          i1, i2, alice, bob

(***************************************************************************)
(* Races: one SPA, one provider, one well-behaved client.                  *)
(***************************************************************************)
Spa           == [public |-> TRUE, secret |-> None, uris |-> {u1}, idps |-> <<>>,
                  org |-> None, client |-> None]
SpaConfigs    == {Spa}
SpaRegistered == {[a \in App |-> Spa]}
AllUsable     == {[x \in Org \X IDP |-> "usable"]}
SpaAsks       == {[org |-> acme, client |-> spa, uri |-> u1,
                   challenge |-> S256Challenge(v1), idp |-> i1]}
SpaPresents   == {[client |-> spa, uri |-> u1, verifier |-> v1, secret |-> None]}

(***************************************************************************)
(* Bindings: what clients send is right or wrong in every field, and the   *)
(* operator reconfigures the app between the steps of a login.             *)
(***************************************************************************)
Web     == [public |-> FALSE, secret |-> s1, uris |-> {u1}, idps |-> <<i1>>,
            org |-> None, client |-> None]
Rotated == [public |-> FALSE, secret |-> s2, uris |-> {u2}, idps |-> <<i2, i1>>,
            org |-> None, client |-> None]
Moved   == [Spa EXCEPT !.org = default]

Configs    == {Spa, Web, Rotated, Moved}
Registered ==
  {[a \in App |-> IF a = <<acme, spa>> THEN c ELSE None] : c \in {Spa, Web}}
     \cup {[a \in App |-> IF a = <<acme, console>> THEN Web ELSE None],
           [a \in App |-> CASE a = <<acme, spa>>    -> Moved
                            [] a = <<default, spa>> -> Web
                            [] OTHER                -> None]}

(* acme's first provider, with endpoints or without, disabled beside the   *)
(* default organization's, and two that make the choice ambiguous; an edit *)
(* brings the other states of a record.                                    *)
Only(x, s)     == [y \in Org \X IDP |-> IF y = x THEN s ELSE "absent"]
And(f, x, s)   == [y \in Org \X IDP |-> IF y = x THEN s ELSE f[y]]
Providers ==
  {Only(<<acme, i1>>, s) : s \in {"bare", "usable"}}
    \cup {And(Only(<<acme, i1>>, "disabled"), <<default, i1>>, "usable"),
          And(Only(<<acme, i1>>, "usable"), <<acme, i2>>, "usable")}

(* What is wrong in one field need not be tried with all that is wrong in  *)
(* another: the other URI comes with the right verifier and secret, and    *)
(* the challenge of a verifier that is too short with no provider named.   *)
Asks ==
  {q \in [org : {acme}, client : {spa, console}, uri : {u1},
          challenge : {None, S256Challenge(v1), S256Challenge(vShort)},
          idp : {None, i1, i2}] :
     q.challenge = S256Challenge(vShort) => q.idp = None}

Presents ==
  {q \in [client : {spa, console}, uri : {u1, u2}, verifier : {None, v1, vShort},
          secret : {s1, s2}] :
     q.uri = u2 => q.verifier = v1 /\ q.secret = s1}

-----------------------------------------------------------------------------
Interchangeable == Permutations(Node) \cup Permutations(Req)
UsersAlike == Permutations(User)

(* Handles are numbers, used in order: a fresh random token is as good as  *)
(* any other, so the behaviours left out only rename handles.              *)
InOrder == \A g, h \in Handle : g < h /\ rec'[h] # None => rec'[g] # None
=============================================================================
