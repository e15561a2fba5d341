--------------------------- MODULE UpstreamClaims ---------------------------
(***************************************************************************)
(* Who a login at an upstream provider is for: the callback merges the     *)
(* provider's record with a preset, reads the user's profile and perhaps   *)
(* a list of email addresses, and makes claims of them, while operators    *)
(* edit the records and users their accounts.                              *)
(*                                                                         *)
(* A string is the sequence of its parts between underscores, the empty    *)
(* string is <<>>; "p_s" is then p \o s.  A profile maps the (dotted)      *)
(* paths that resolve in it to JSON values.  Names, groups and roles are   *)
(* passed on and left out.  How the callback comes by its record and       *)
(* claims a login state is in GrantFlow.  A request that is refused        *)
(* changes nothing, which is no step.                                      *)
(*                                                                         *)
(* A definition that nothing uses and that stands right before another of  *)
(* the same arity is a slip the code could have made there; the properties *)
(* are tested against it.                                                  *)
(***************************************************************************)
EXTENDS Naturals, Sequences, FiniteSets
LOCAL INSTANCE SequencesExt

CONSTANTS
  ProviderID,     \* ids of provider records
  PresetKey,      \* id or preset name -> the same in lower case
  ProviderRecord, \* what operators store: [preset, cfg]
  Account,        \* users of the upstreams: [at, key, flag, id], see below
  Answers,        \* account -> the answers its upstream may give of it
  Browser,        \* logins in progress
  Exact,          \* 2^53: up to here a float64 holds every integer
  FormatInt,      \* integer up to 2 * Exact -> its decimal digits
  MaxChanges,     \* bound: edits of records and accounts
  MaxClaims,      \* bound: claims in a behaviour
  Nothing         \* no record, no login

(* Of the fields of a record, those that decide on the claims.             *)
ConfigField ==
  {"tokenURL", "userInfoURL", "emailsURL", "subject", "email", "emailVerified"}

Config6(token, userInfo, emails, subject, email, verified) ==
  [tokenURL |-> token, userInfoURL |-> userInfo, emailsURL |-> emails,
   subject |-> subject, email |-> email, emailVerified |-> verified]

presets ==
  [google    |-> Config6("google/token", "google/userinfo", "",
                         "sub", "email", "email_verified"),
   github    |-> Config6("github/access_token", "github/user", "github/user/emails",
                         "id", "email", ""),
   microsoft |-> Config6("microsoft/token", "microsoft/userinfo", "",
                         "sub", "email", ""),
   facebook  |-> Config6("facebook/access_token", "facebook/me", "",
                         "id", "email", ""),
   instagram |-> Config6("instagram/access_token", "instagram/me", "",
                         "id", "", "")]

(* JSON values: a number has no text, other values no number.              *)
JSONValue ==
  {v \in [kind : {"string", "number", "bool", "null"},
          text : Seq(STRING), number : 0 .. 2 * Exact] :
     /\ v.kind \in {"number", "null"} => v.text = <<>>
     /\ v.kind # "number" => v.number = 0}
Text(s)   == [kind |-> "string", text |-> s, number |-> 0]
Number(n) == [kind |-> "number", text |-> <<>>, number |-> n]
Flag(b)   == [kind |-> "bool", text |-> <<IF b THEN "true" ELSE "false">>, number |-> 0]

(* What strconv.ParseBool takes; no number is among it.                    *)
Truths     == {<<t>> : t \in {"1", "t", "T", "true", "TRUE", "True"}}
Falsehoods == {<<t>> : t \in {"0", "f", "F", "false", "FALSE", "False"}}

(* What an upstream answers of an account: the profile, the separate list  *)
(* of addresses, and (ground truth, in neither) the addresses proven to    *)
(* it.  An account lives at one user info URL, which identifies it by id   *)
(* under the path key, always in the same kind of value; flag is the path  *)
(* that tells whether the address is proven, "" where the profile only     *)
(* shows such.                                                             *)
Address == [email : Seq(STRING), primary : BOOLEAN, verified : BOOLEAN]

ASSUME AnswerAssumption ==
  \A a \in Account : \A r \in Answers[a] :
    /\ "" \notin DOMAIN r.profile
    /\ \A f \in DOMAIN r.profile : r.profile[f] \in JSONValue
    /\ r.list \in Seq(Address)
    /\ \A i \in DOMAIN r.list : r.list[i].verified => r.list[i].email \in r.proven
    /\ "email" \in DOMAIN r.profile =>
         /\ r.profile["email"].kind \in {"string", "null"}
         /\ \/ r.profile["email"].text \in r.proven \cup {<<>>}
            \/ a.flag \in DOMAIN r.profile /\ r.profile[a.flag].text \in Falsehoods
ASSUME AccountAssumption ==
  /\ \A a \in Account : a.id \in JSONValue
  /\ \A a \in Account : \A r \in Answers[a] :
       a.key \in DOMAIN r.profile => r.profile[a.key] = a.id
  /\ \A a, b \in Account : a.at = b.at /\ a.key = b.key =>
       a.id.kind = b.id.kind /\ (a.id = b.id => a = b)
ASSUME NumberAssumption ==
  /\ FormatInt \in [0 .. 2 * Exact -> STRING]
  /\ \A m, n \in 0 .. 2 * Exact : FormatInt[m] = FormatInt[n] => m = n
  /\ Exact \in Nat /\ Exact % 4 = 0
ASSUME ProviderAssumption ==
  /\ ProviderID \subseteq Seq(STRING) \ {<<>>}
  /\ \A r \in ProviderRecord : r.cfg \in [ConfigField -> STRING]
  /\ Nothing \notin ProviderRecord

VARIABLES
  providers,  \* id -> the stored record, or Nothing
  answers,    \* account -> what its upstream answers now
  proven,     \* history: [account, email] ever proven to the upstream
  fetched,    \* browser -> the login after its profile was fetched
  claimed,    \* history: the claims logins ended with
  changes     \* edits so far

claimsVars == <<providers, answers, proven, fetched, claimed, changes>>

ClaimsTypeOK ==
  /\ providers \in [ProviderID -> ProviderRecord \cup {Nothing}]
  /\ \A a \in Account : answers[a] \in Answers[a]
  /\ \A l \in claimed : /\ l.upstream \in Seq(STRING) \ {<<>>}
                        /\ l.subject = l.idp \o l.upstream
                        /\ l.email \in Seq(STRING)

ProvenBy(a, r) == {[account |-> a, email |-> e] : e \in r.proven}

ClaimsInit ==
  /\ providers = [p \in ProviderID |-> Nothing]
  /\ answers \in {f \in [Account -> UNION {Answers[a] : a \in Account}] :
                    \A a \in Account : f[a] \in Answers[a]}
  /\ proven = UNION {ProvenBy(a, answers[a]) : a \in Account}
  /\ fetched = [b \in Browser |-> Nothing]
  /\ claimed = {}
  /\ changes = 0

-----------------------------------------------------------------------------
(* Configuration                                                           *)

(* The record wins, field by field; its preset is the one it names, or the *)
(* one of its id.                                                          *)
effectiveProvider(p, r) ==
  LET key == PresetKey[IF r.preset = <<>> THEN p ELSE r.preset]
  IN [f \in ConfigField |->
        IF r.cfg[f] # "" \/ key \notin DOMAIN presets THEN r.cfg[f] ELSE presets[key][f]]

-----------------------------------------------------------------------------
(* Profiles                                                                *)

lookupField(profile, path) ==
  IF path # "" /\ path \in DOMAIN profile /\ profile[path].kind # "null"
  THEN {profile[path]} ELSE {}

(* The nearest float64 of an integer up to 2 * Exact, ties to even.        *)
Float64(n) == CASE n <= Exact \/ n % 2 = 0 -> n
                [] n > Exact /\ n % 4 = 1  -> n - 1
                [] n > Exact /\ n % 4 = 3  -> n + 1

FieldText(v) == IF v.kind = "number" THEN <<FormatInt[Float64(v.number)]>> ELSE v.text

stringField(profile, path) ==
  LET found == lookupField(profile, path)
  IN IF found = {} THEN <<>> ELSE FieldText(CHOOSE v \in found : TRUE)

(* The value of a flag, or none.                                           *)
boolField(profile, path) ==
  {flag \in BOOLEAN : \E v \in lookupField(profile, path) :
                       v.text \in IF flag THEN Truths ELSE Falsehoods}

(* The primary address if it is verified, else the first that is.          *)
AddressAt(list, i) == IF i = 0 THEN <<>> ELSE list[i].email

PrimaryOrFirst(list) ==
  LET primary == SelectInSeq(list, LAMBDA e : e.primary)
  IN AddressAt(list, IF primary # 0 THEN primary ELSE 1)

fetchPrimaryEmail(list) ==
  LET primary == SelectInSeq(list, LAMBDA e : e.primary /\ e.verified)
  IN AddressAt(list, IF primary # 0 THEN primary
                     ELSE SelectInSeq(list, LAMBDA e : e.verified))

-----------------------------------------------------------------------------
(* Logins                                                                  *)

AnySubject(s) == TRUE

HasSubject(s) == s # <<>>

SubjectAlone(p, s) == s

NamespacedSubject(p, s) == p \o s

(* The user of account a is back from the upstream: the code is exchanged  *)
(* and the profile fetched.  All of the login uses this one reading of the *)
(* provider's record.                                                      *)
FetchProfile(b, p, a) ==
  LET cfg == effectiveProvider(p, providers[p])
      profile == answers[a].profile
  IN /\ fetched[b] = Nothing /\ providers[p] # Nothing
     /\ cfg.tokenURL # ""
     /\ cfg.userInfoURL # "" /\ cfg.userInfoURL = a.at
     /\ cfg.subject # ""
     /\ HasSubject(stringField(profile, cfg.subject))
     /\ fetched' = [fetched EXCEPT ![b] =
                      [idp |-> p, account |-> a, cfg |-> cfg, profile |-> profile]]
     /\ UNCHANGED <<providers, answers, proven, claimed, changes>>

(* The list is fetched only where the profile has no address; that it may  *)
(* fail is no error.  An address the profile says is unverified ends the   *)
(* login.                                                                  *)
FetchClaims(b) ==
  LET l == fetched[b]
      own == stringField(l.profile, l.cfg.email)
      subject == stringField(l.profile, l.cfg.subject)
      unverified == FALSE \in boolField(l.profile, l.cfg.emailVerified)
  IN /\ l # Nothing
     /\ fetched' = [fetched EXCEPT ![b] = Nothing]
     /\ \E answered \in BOOLEAN :
          LET email == IF own = <<>> /\ l.cfg.emailsURL # "" /\ answered
                       THEN fetchPrimaryEmail(answers[l.account].list) ELSE own
          IN IF email # <<>> /\ unverified THEN UNCHANGED claimed
             ELSE /\ Cardinality(claimed) < MaxClaims
                  /\ claimed' = claimed \cup
                       {[idp |-> l.idp, upstream |-> subject, email |-> email,
                         subject |-> NamespacedSubject(l.idp, subject),
                         account |-> l.account, cfg |-> l.cfg]}
     /\ UNCHANGED <<providers, answers, proven, changes>>

(* An operator stores a record.                                            *)
StoreProvider(p, r) == /\ changes < MaxChanges
                       /\ changes' = changes + 1
                       /\ providers' = [providers EXCEPT ![p] = r]
                       /\ UNCHANGED <<answers, proven, fetched, claimed>>

(* A user adds, proves, hides or drops an address at the upstream.         *)
ChangeAccount(a, r) == /\ changes < MaxChanges
                       /\ changes' = changes + 1
                       /\ answers' = [answers EXCEPT ![a] = r]
                       /\ proven' = proven \cup ProvenBy(a, r)
                       /\ UNCHANGED <<providers, fetched, claimed>>

ClaimsNext ==
  \/ \E p \in ProviderID, r \in ProviderRecord : StoreProvider(p, r)
  \/ \E a \in Account : \E r \in Answers[a] : ChangeAccount(a, r)
  \/ \E b \in Browser :
       \/ \E p \in ProviderID, a \in Account : FetchProfile(b, p, a)
       \/ FetchClaims(b)

ClaimsSpec == ClaimsInit /\ [][ClaimsNext]_claimsVars

-----------------------------------------------------------------------------
(* Properties                                                              *)

(* Claims by a record that maps the upstream's own identifier, which a     *)
(* float64 can hold.                                                       *)
Identified == {l \in claimed : l.cfg.subject = l.account.key /\ l.account.id.number <= Exact}

(* fetchUpstreamClaims ("two providers cannot collide on the same          *)
(* identifier"; the old code "collapsed every user"): however records and  *)
(* accounts are edited between logins, a user gets the same subject at     *)
(* every login through a provider; of the users of one upstream nobody     *)
(* else gets the same provider and upstream subject; and equal subjects    *)
(* mean equal providers and upstream subjects, unless one provider's id is *)
(* the other, an underscore and more.  Users of two upstreams that one     *)
(* provider's record was pointed at in turn may share both: the code does  *)
(* not know one upstream from another but by the provider's id.            *)
OneSubjectPerUser ==
  \A l, m \in Identified :
    LET sameUser  == l.idp = m.idp /\ l.account = m.account
        sameHost  == l.account.at = m.account.at /\ l.account.key = m.account.key
        sameTuple == l.idp = m.idp /\ l.upstream = m.upstream
    IN /\ sameUser => l.subject = m.subject
       /\ sameHost /\ sameTuple => l.account = m.account
       /\ l.subject = m.subject =>
            \/ sameTuple
            \/ IsStrictPrefix(l.idp, m.idp) \/ IsStrictPrefix(m.idp, l.idp)

(* "An unverified address is user-typed input, not an identity assertion": *)
(* an address in the claims is one this user had proven to the upstream,   *)
(* whether it comes from the profile or from the list, fetched later, as   *)
(* long as the provider's record maps the flag of an upstream that has one.*)
ClaimedEmailsProven ==
  \A l \in claimed :
    l.email # <<>> /\ l.cfg.emailVerified = l.account.flag /\ l.cfg.email \in {"", "email"} =>
       [account |-> l.account, email |-> l.email] \in proven
=============================================================================
