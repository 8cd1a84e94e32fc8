------------------------------ MODULE Accounts ------------------------------
(***************************************************************************)
(* Users, API keys and what a credential allows (api/auth.py,              *)
(* middleware/auth.py), with authentication enabled.  A registration reads *)
(* the users, hashes a password in a thread and commits; other requests    *)
(* run in between, and the process may stop at any point.  register holds  *)
(* a lock of its own for all of it, register-admin does not.               *)
(***************************************************************************)
EXTENDS Naturals, FiniteSets, RateWindow

CONSTANTS Most,        \* bound on the registrations
          Name,        \* usernames
          Asked,       \* roles a registration asks for
          Scope,       \* scopes a key may be restricted to, "invoke" and "manage" among them
          MaxKeys,     \* bound on the API keys made
          MaxStops     \* bound on the stops of the process

ASSUME ScopesAndRoles == /\ {"invoke", "manage"} \subseteq Scope
                         /\ Asked \subseteq {"admin", "editor", "viewer"}
ASSUME BoundsAreNatural == Most \in Nat /\ MaxKeys \in Nat /\ MaxStops \in Nat

VARIABLES users,       \* User rows
          keys,        \* APIKey rows
          lock,        \* session_lock("auth:register"): who holds it
          req,         \* the registrations: what they carry and how far they are
          stops

vars == <<users, keys, lock, req, stops>>

Request == 1..Most    \* in the order of their arrival
Role == {"admin", "editor", "viewer"}
Level(role) == CASE role = "admin" -> 3 [] role = "editor" -> 2 [] OTHER -> 1
Nobody == [kind |-> "none", who |-> "nobody"]
NoOne == 0

Input == [path : {"register", "register-admin"}, name : Name, role : Asked]

Init ==
  /\ users = {} /\ keys = {} /\ lock = NoOne /\ stops = 0
  /\ req = [r \in Request |-> [phase |-> "new"]]

-----------------------------------------------------------------------------
(* login: a token names a user that exists.  get_current_user: the identity of a         *)
(* credential, as a set, empty when it is refused; the role is the user's own, whatever  *)
(* the token was issued with.                                                            *)
UserNamed(n) == {u \in users : u.name = n}
Credential == {Nobody} \cup [kind : {"jwt"}, who : {u.name : u \in users}]
                       \cup [kind : {"key"}, who : {k.id : k \in keys}]

Identity(cred) ==
  CASE cred.kind = "jwt" -> {[role |-> u.role, name |-> u.name, key |-> FALSE, scopes |-> {}] :
                               u \in UserNamed(cred.who)}
    [] cred.kind = "key" -> UNION {{[role |-> u.role, name |-> u.name, key |-> TRUE, scopes |-> k.scopes] :
                                      u \in UserNamed(k.owner)} :
                                     k \in {k \in keys : k.id = cred.who /\ k.enabled}}
    [] OTHER -> {}

(* require_console_user, require_role, require_scope. *)
Console(id) == ~id.key
HasRole(id, role) == Level(id.role) >= Level(role)

InScope(id, scope, writes) ==
  /\ id.scopes # {} => scope \in id.scopes
  /\ scope = "manage" /\ writes => HasRole(id, "editor")

(* What the routers ask of a caller. *)
Operation == [scope : {"invoke", "manage"}, writes : BOOLEAN, admin : BOOLEAN, console : BOOLEAN]
Allowed(id, op) ==
  /\ InScope(id, op.scope, op.writes)
  /\ op.admin => HasRole(id, "admin")
  /\ op.console => Console(id)

-----------------------------------------------------------------------------
Moves(r, phase) == req' = [req EXCEPT ![r].phase = phase]
Over == [phase |-> "done"]
Answers(r) == /\ req' = [req EXCEPT ![r] = Over]
              /\ lock' = IF lock = r THEN NoOne ELSE lock

(* A registration arrives; register-admin checks the caller before anything else. *)
Arrive(r) ==
  /\ req[r].phase = "new"
  /\ r > 1 => req[r - 1].phase # "new"
  /\ \E in \in Input, cred \in Credential :
       req' = [req EXCEPT ![r] = [phase |-> IF in.path = "register" THEN "waiting" ELSE "authorizing",
                                  input |-> in, cred |-> cred, first |-> FALSE]]
  /\ UNCHANGED <<users, keys, lock, stops>>

(* Mutant: the lock is not waited for. *)
NoLock(r) ==
  /\ req[r].phase = "waiting"
  /\ lock' = r
  /\ Moves(r, "counting")
  /\ UNCHANGED <<users, keys, stops>>

TakeLock(r) ==
  /\ req[r].phase = "waiting"
  /\ lock = NoOne
  /\ lock' = r
  /\ Moves(r, "counting")
  /\ UNCHANGED <<users, keys, stops>>

CountUsers(r) ==
  /\ req[r].phase = "counting"
  /\ req' = [req EXCEPT ![r].first = (users = {}),
                        ![r].phase = IF users = {} THEN "naming" ELSE "authorizing"]
  /\ UNCHANGED <<users, keys, lock, stops>>

MayRegister(cred) == \E id \in Identity(cred) : Console(id) /\ HasRole(id, "admin")

(* Mutant: a refusal forgets to leave the lock. *)
RefuseHolding(r) ==
  /\ req[r].phase = "authorizing"
  /\ IF MayRegister(req[r].cred) THEN Moves(r, "naming") /\ UNCHANGED lock
     ELSE req' = [req EXCEPT ![r] = Over] /\ UNCHANGED lock
  /\ UNCHANGED <<users, keys, stops>>

Authorize(r) ==
  /\ req[r].phase = "authorizing"
  /\ IF MayRegister(req[r].cred) THEN Moves(r, "naming") /\ UNCHANGED lock ELSE Answers(r)
  /\ UNCHANGED <<users, keys, stops>>

CheckName(r) ==
  /\ req[r].phase = "naming"
  /\ IF UserNamed(req[r].input.name) = {} THEN Moves(r, "hashing") /\ UNCHANGED lock ELSE Answers(r)
  /\ UNCHANGED <<users, keys, stops>>

Made(r) == [name |-> req[r].input.name,
            role |-> IF req[r].first THEN "admin" ELSE req[r].input.role,
            by |-> IF req[r].first THEN Nobody ELSE req[r].cred]

(* The hash is there: the row is written and committed; a name taken meanwhile violates *)
(* the unique column and the registration fails.                                        *)
Commit(r) ==
  /\ req[r].phase = "hashing"
  /\ users' = users \cup (IF UserNamed(req[r].input.name) = {} THEN {Made(r)} ELSE {})
  /\ Answers(r)
  /\ UNCHANGED <<keys, stops>>

(* create_api_key, revoke_api_key *)
CreateKey ==
  \E cred \in Credential, scopes \in SUBSET Scope :
    /\ Cardinality(keys) < MaxKeys
    /\ \E id \in Identity(cred) :
         /\ Console(id)
         /\ keys' = keys \cup {[id |-> Cardinality(keys) + 1, owner |-> id.name,
                                scopes |-> scopes, enabled |-> TRUE]}
    /\ UNCHANGED <<users, lock, req, stops>>

RevokeKey ==
  \E cred \in Credential, k \in keys :
    /\ \E id \in Identity(cred) : Console(id) /\ (HasRole(id, "admin") \/ k.owner = id.name)
    /\ keys' = (keys \ {k}) \cup {[k EXCEPT !.enabled = FALSE]}
    /\ UNCHANGED <<users, lock, req, stops>>

(* The process stops: the lock and the requests under way are gone, the rows stay. *)
Stop ==
  /\ stops < MaxStops
  /\ stops' = stops + 1
  /\ lock' = NoOne
  /\ req' = [r \in Request |-> IF req[r].phase = "new" THEN req[r] ELSE Over]
  /\ UNCHANGED <<users, keys>>

Registers(r) == TakeLock(r) \/ CountUsers(r) \/ Authorize(r) \/ CheckName(r) \/ Commit(r)
Next == CreateKey \/ RevokeKey \/ Stop \/ \E r \in Request : Arrive(r) \/ Registers(r)

Spec == Init /\ [][Next]_vars
FairSpec == Spec /\ \A r \in Request : SF_vars(TakeLock(r)) /\ WF_vars(Registers(r))

-----------------------------------------------------------------------------
TypeOK ==
  /\ users \subseteq [name : Name, role : Role, by : {Nobody} \cup [kind : {"jwt"}, who : Name]]
  /\ keys \subseteq [id : 1..MaxKeys, owner : Name, scopes : SUBSET Scope, enabled : BOOLEAN]
  /\ lock \in Request \cup {NoOne} /\ stops \in 0..MaxStops
  /\ \A r \in Request : req[r].phase \in
       {"new", "waiting", "counting", "authorizing", "naming", "hashing", "done"}

(* Only one account is ever made on nobody's authority, however many first              *)
(* registrations arrive together and wherever one of them is cut short.                 *)
BootstrapOnce == Cardinality({u \in users : u.by = Nobody}) <= 1

(* Every account goes back to the first administrator: it was made by an administrator  *)
(* that exists, and the first one is an administrator itself.                           *)
Chartered == \A u \in users : IF u.by = Nobody THEN u.role = "admin"
                              ELSE \E a \in users : a.name = u.by.who /\ a.role = "admin" /\ a # u

(* Two registrations of one name, through both paths, leave one account. *)
NamesUnique == \A u, v \in users : u.name = v.name => u = v

(* A key allows nothing its owner's own login does not. *)
KeyWithinOwner ==
  \A k \in keys, op \in Operation :
    \A id \in Identity([kind |-> "key", who |-> k.id]) :
      Allowed(id, op) => \E own \in Identity([kind |-> "jwt", who |-> k.owner]) : Allowed(own, op)

(* Whoever may act, may because an administrator once said so: the first account, the     *)
(* chain of those after it, one account to a name, and the keys (_register_user,           *)
(* get_current_user, require_scope, require_role).                                         *)
Accountable == BootstrapOnce /\ Chartered /\ NamesUnique /\ KeyWithinOwner

(* Every registration is answered, for the lock is given back however one ends. *)
RegistrationsAnswered == \A r \in Request : req[r].phase = "waiting" ~> req[r].phase = "done"

-----------------------------------------------------------------------------
(* What the limiter makes of a history: see Exact, Honest and Forgets in RateWindow. *)
RateKept == stops <= MaxStops => Misjudged = {}
=============================================================================
