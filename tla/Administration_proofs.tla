----------------------- MODULE Administration_proofs -----------------------
(***************************************************************************)
(* Theorems about Accounts, for any number of registrations, names, keys   *)
(* and stops of the process: the accounts all go back to one first         *)
(* administrator, names are unique, and a key stays within its owner.      *)
(* About RateWindow, for any history of calls and any limit: what a call   *)
(* finds in its window are its caller's admitted calls in the span.        *)
(* About StepGraph, for any definition: the validator's cycle check is     *)
(* exact, and what it admits the executor can run.  About WorkflowAdmin,   *)
(* for any number of administrators, bodies and requests: so are all the   *)
(* definitions that stand in the tables.                                   *)
(***************************************************************************)
EXTENDS Accounts, WorkflowAdmin, WellFoundedInduction, FiniteSetTheorems, SequenceTheorems, TLAPS

Busy == {"waiting", "counting", "authorizing", "naming", "hashing"}
Cred == {Nobody} \cup [kind : {"jwt"}, who : Name] \cup [kind : {"key"}, who : Nat]
User == [name : Name, role : Role, by : {Nobody} \cup [kind : {"jwt"}, who : Name]]
Flight == [phase : Busy, input : Input, cred : Cred, first : BOOLEAN]
Resting == [phase : {"new", "done"}]
Checked == {"naming", "hashing"}

(* A credential of an administrator's own login. *)
Charter(cred) == cred.kind = "jwt" /\ \E a \in users : a.name = cred.who /\ a.role = "admin"

(* The strengthening: a registration by "register" that is past its wait holds the lock; *)
(* one that found no user still finds none, and any other that passed its check carries  *)
(* an administrator's login.                                                             *)
Keeps(r) ==
  req[r].phase \in Busy =>
    /\ req[r].input.path = "register" /\ req[r].phase # "waiting" => lock = r
    /\ req[r].phase \in {"waiting", "counting"} => req[r].input.path = "register"
    /\ req[r].first => req[r].phase \in Checked /\ req[r].input.path = "register" /\ users = {}
    /\ req[r].phase \in Checked /\ ~req[r].first => Charter(req[r].cred)

RegInv ==
  /\ users \subseteq User
  /\ lock \in Request \cup {NoOne} /\ stops \in 0..MaxStops
  /\ req \in [Request -> Flight \cup Resting]
  /\ \A r \in Request : Keeps(r)
  /\ BootstrapOnce /\ Chartered /\ NamesUnique

(* Key rows are numbered as they are made, and keep their number when they are revoked. *)
KeyInv ==
  /\ IsFiniteSet(keys) /\ Cardinality(keys) <= MaxKeys
  /\ keys \subseteq [id : Nat, owner : Name, scopes : SUBSET Scope, enabled : BOOLEAN]
  /\ \A k \in keys : k.id \in 1..Cardinality(keys)
  /\ \A k, l \in keys : k.id = l.id => k = l

-----------------------------------------------------------------------------
(* Whoever may register someone has the login of an administrator (require_console_user, *)
(* and the role that get_current_user reads from the user's row).                        *)
LEMMA OnlyAdmins ==
  ASSUME users \subseteq User, NEW cred \in Cred, MayRegister(cred)
  PROVE  Charter(cred)
<1>1. PICK id \in Identity(cred) : Console(id) /\ HasRole(id, "admin")
  BY DEF MayRegister
<1>2. cred.kind = "jwt"
  <2>1. cred.kind # "key" 
    BY <1>1 DEF Identity, Console
  <2>2. cred.kind # "none"
    BY <1>1 DEF Identity
  <2> QED BY <2>1, <2>2 DEF Cred, Nobody
<1>3. PICK u \in UserNamed(cred.who) : id.role = u.role
  BY <1>1, <1>2 DEF Identity
<1>4. u \in users /\ u.name = cred.who /\ u.role \in Role
  BY <1>3 DEF UserNamed, User
<1>5. u.role = "admin"
  BY <1>1, <1>3, <1>4 DEF HasRole, Level, Role
<1> QED BY <1>2, <1>4, <1>5 DEF Charter

(* A credential at hand is of one of the three kinds. *)
LEMMA CredentialTyped ==
  ASSUME users \subseteq User, KeyInv
  PROVE  Credential \subseteq Cred
BY DEF Credential, Cred, User, KeyInv

(* No user, no request, no key at the start. *)
LEMMA RegInit == Init => RegInv
<1> SUFFICES ASSUME Init PROVE RegInv
  OBVIOUS
<1>1. {u \in users : u.by = Nobody} = {}
  BY DEF Init
<1>2. BootstrapOnce
  BY <1>1, FS_EmptySet DEF BootstrapOnce
<1>3. req \in [Request -> Flight \cup Resting] /\ \A r \in Request : req[r].phase = "new"
  BY DEF Init, Resting
<1> QED BY <1>2, <1>3, BoundsAreNatural DEF Init, RegInv, Keeps, Busy, Chartered, NamesUnique

(* Steps that touch no user leave what is said of the users alone. *)
LEMMA UsersKept ==
  ASSUME RegInv, UNCHANGED users
  PROVE  (users \subseteq User /\ BootstrapOnce /\ Chartered /\ NamesUnique)'
BY DEF RegInv, BootstrapOnce, Chartered, NamesUnique

(* A registration that has not moved keeps what it had, while the lock is only taken *)
(* from nobody or given back by its holder, and no user is made.                      *)
LEMMA BystanderKeeps ==
  ASSUME RegInv, NEW r \in Request, Keeps(r), UNCHANGED <<users, req[r]>>,
         \/ UNCHANGED lock
         \/ lock = NoOne
         \/ lock # r
  PROVE  Keeps(r)'
<1>1. lock = NoOne => lock # r
  BY BoundsAreNatural DEF Request, NoOne
<1> QED BY <1>1 DEF Keeps, Charter

(* A registration arrives, waits, looks, is refused or found a duplicate. *)
LEMMA LooksKeep ==
  ASSUME RegInv, KeyInv, NEW r \in Request,
         Arrive(r) \/ TakeLock(r) \/ CountUsers(r) \/ Authorize(r) \/ CheckName(r)
  PROVE  RegInv'
<1>1. users' = users /\ stops' = stops /\ req[r] \in Flight \cup Resting
  BY DEF RegInv, Arrive, TakeLock, CountUsers, Authorize, CheckName
<1>2. Keeps(r)
  BY DEF RegInv
<1>3. /\ req'[r] \in Flight \cup Resting
      /\ \A q \in Request \ {r} : req'[q] = req[q]
      /\ DOMAIN req' = Request /\ req' = [q \in Request |-> req'[q]]
      /\ lock' \in Request \cup {NoOne}
      /\ lock' = lock \/ lock = NoOne \/ lock = r
      /\ Keeps(r)'
  <2>1. CASE Arrive(r)
    <3>1. PICK in \in Input, cred \in Credential :
            req' = [req EXCEPT ![r] = [phase |-> IF in.path = "register" THEN "waiting" ELSE "authorizing",
                                       input |-> in, cred |-> cred, first |-> FALSE]]
      BY <2>1 DEF Arrive
    <3>2. cred \in Cred
      BY CredentialTyped DEF RegInv
    <3>3. req'[r] = [phase |-> IF in.path = "register" THEN "waiting" ELSE "authorizing",
                     input |-> in, cred |-> cred, first |-> FALSE]
      BY <3>1 DEF RegInv
    <3>4. Keeps(r)'
      BY <3>3 DEF Keeps, Busy, Checked, Input
    <3>5. req'[r] \in Flight
      BY <3>2, <3>3 DEF Flight, Busy
    <3> QED BY <2>1, <3>1, <3>4, <3>5 DEF RegInv, Arrive
  <2>2. CASE TakeLock(r)
    <3>1. req[r].phase = "waiting" /\ req[r] \in Flight
      BY <1>1, <2>2 DEF TakeLock, Flight, Resting
    <3>2. req'[r] = [req[r] EXCEPT !.phase = "counting"]
      BY <2>2 DEF TakeLock, Moves, RegInv
    <3>3. req'[r] \in Flight /\ req'[r].phase = "counting" /\ req'[r].input = req[r].input
          /\ req'[r].first = req[r].first
      BY <3>1, <3>2 DEF Flight, Busy
    <3>4. Keeps(r)'
      BY <1>2, <2>2, <3>1, <3>3 DEF Keeps, Busy, Checked, TakeLock
    <3> QED BY <2>2, <3>3, <3>4 DEF RegInv, TakeLock, Moves
  <2>3. CASE CountUsers(r)
    <3>1. req[r].phase = "counting" /\ req[r] \in Flight
      BY <1>1, <2>3 DEF CountUsers, Flight, Resting
    <3>2. req'[r] = [req[r] EXCEPT !.first = (users = {}),
                                   !.phase = IF users = {} THEN "naming" ELSE "authorizing"]
      BY <2>3 DEF CountUsers, RegInv
    <3>3. req'[r] \in Flight /\ req'[r].input = req[r].input /\ req'[r].first = (users = {})
          /\ req'[r].phase = IF users = {} THEN "naming" ELSE "authorizing"
      BY <3>1, <3>2 DEF Flight, Busy
    <3>4. req[r].input.path = "register" /\ lock = r /\ lock' = lock
      BY <1>2, <2>3, <3>1 DEF Keeps, Busy, CountUsers
    <3>5. Keeps(r)'
      BY <1>1, <3>3, <3>4 DEF Keeps, Checked
    <3> QED BY <2>3, <3>3, <3>5 DEF RegInv, CountUsers
  <2>4. CASE (Authorize(r) /\ MayRegister(req[r].cred)) \/ (CheckName(r) /\ UserNamed(req[r].input.name) = {})
    <3>1. req[r].phase \in {"authorizing", "naming"} /\ req[r] \in Flight
      BY <1>1, <2>4 DEF Authorize, CheckName, Flight, Resting
    <3>2. PICK to \in Checked : req' = [req EXCEPT ![r].phase = to]
                                /\ (req[r].phase = "authorizing" \/ to = "hashing")
      BY <2>4 DEF Authorize, CheckName, Moves, Checked
    <3>3. req'[r] = [req[r] EXCEPT !.phase = to] 
      BY <3>2 DEF RegInv
    <3>4. req'[r] \in Flight /\ req'[r].input = req[r].input /\ req'[r].first = req[r].first
          /\ req'[r].phase = to /\ req'[r].cred = req[r].cred
      BY <3>1, <3>3 DEF Flight, Busy, Checked
    <3>5. req[r].phase = "authorizing" => Charter(req[r].cred)
      <4>1. req[r].cred \in Cred
        BY <3>1 DEF Flight
      <4>2. req[r].phase = "authorizing" => MayRegister(req[r].cred)
        BY <2>4 DEF CheckName
      <4> QED BY <4>1, <4>2, OnlyAdmins DEF RegInv
    <3>6. Charter(req[r].cred)' <=> Charter(req[r].cred)
      BY <1>1, <3>4 DEF Charter
    <3>7. lock' = lock
      BY <2>4 DEF Authorize, CheckName
    <3>8. Keeps(r)'
      <4>1. req'[r].input.path = "register" => lock' = r
        BY <1>2, <3>1, <3>4, <3>7 DEF Keeps, Busy
      <4>2. req'[r].first => req'[r].input.path = "register" /\ users' = {}
        BY <1>1, <1>2, <3>1, <3>4 DEF Keeps, Busy
      <4>3. ~req'[r].first => Charter(req[r].cred)
        BY <1>2, <3>1, <3>4, <3>5 DEF Keeps, Busy, Checked
      <4>4. ~req'[r].first => Charter(req[r].cred)'
        BY <3>6, <4>3
      <4> QED BY <3>2, <3>4, <4>1, <4>2, <4>4 DEF Keeps, Checked
    <3> QED BY <3>2, <3>4, <3>7, <3>8 DEF RegInv
  <2>5. CASE (Authorize(r) /\ ~MayRegister(req[r].cred)) \/ (CheckName(r) /\ UserNamed(req[r].input.name) # {})
    <3>1. Answers(r)
      BY <2>5 DEF Authorize, CheckName
    <3>2. req'[r] = [phase |-> "done"]
      BY <3>1 DEF Answers, Over, RegInv
    <3> QED BY <3>1, <3>2 DEF Answers, Over, RegInv, Resting, Keeps, Busy
  <2> QED BY <2>1, <2>2, <2>3, <2>4, <2>5
<1>4. \A q \in Request \ {r} : Keeps(q)'
  <2> SUFFICES ASSUME NEW q \in Request \ {r} PROVE Keeps(q)'
    OBVIOUS
  <2> QED BY <1>1, <1>3, BystanderKeeps DEF RegInv
<1>5. req' \in [Request -> Flight \cup Resting]
  BY <1>3 DEF RegInv
<1> QED BY <1>1, <1>3, <1>4, <1>5, UsersKept DEF RegInv

(* A registration that found the database empty makes the first administrator: nobody *)
(* else is past the check, by either path.  Any other is made on the authority of one. *)
LEMMA CommitKeeps ==
  ASSUME RegInv, NEW r \in Request, Commit(r)
  PROVE  RegInv'
<1> DEFINE new == Made(r)
           free == UserNamed(req[r].input.name) = {}
<1>1. req[r].phase = "hashing" /\ req[r] \in Flight /\ Keeps(r)
  BY DEF Commit, RegInv, Flight, Resting
<1>2. /\ users' = users \cup (IF free THEN {new} ELSE {})
      /\ req' = [req EXCEPT ![r] = Over] /\ stops' = stops
      /\ lock' = IF lock = r THEN NoOne ELSE lock
  BY DEF Commit, Answers
<1>3. /\ req[r].first => users = {} /\ lock = r
      /\ ~req[r].first => Charter(req[r].cred)
  BY <1>1 DEF Keeps, Busy, Checked
<1>4. /\ new \in User /\ new.name = req[r].input.name
      /\ new.by = IF req[r].first THEN Nobody ELSE req[r].cred
      /\ new.role = IF req[r].first THEN "admin" ELSE req[r].input.role
  <2>1. req[r].cred \in Cred /\ req[r].input \in Input
    BY <1>1 DEF Flight
  <2>2. req[r].input.name \in Name /\ req[r].input.role \in Role
    BY <2>1, ScopesAndRoles DEF Input, Role
  <2>3. ~req[r].first => req[r].cred \in [kind : {"jwt"}, who : Name]
    BY <1>3, <2>1 DEF Charter, Cred, Nobody
  <2> QED BY <2>2, <2>3 DEF Made, User, Role
<1>5. ~req[r].first => new.by # Nobody
  BY <1>3, <1>4 DEF Charter, Nobody
<1>6. BootstrapOnce'
  <2> DEFINE bare == {u \in users : u.by = Nobody}
  <2>1. CASE req[r].first
    <3>1. bare' \in {{}, {new}}
      BY <1>2, <1>3, <2>1
    <3>2. Cardinality(bare') \in {0, 1}
      BY <3>1, FS_EmptySet, FS_Singleton
    <3> QED BY <3>2 DEF BootstrapOnce
  <2>2. CASE ~req[r].first
    <3>1. bare' = bare
      BY <1>2, <1>5, <2>2
    <3> QED BY <3>1 DEF RegInv, BootstrapOnce
  <2> QED BY <2>1, <2>2
<1>7. NamesUnique'
  BY <1>2, <1>4 DEF RegInv, NamesUnique, UserNamed
<1>8. Chartered'
  <2> SUFFICES ASSUME NEW u \in users'
               PROVE  IF u.by = Nobody THEN u.role = "admin"
                      ELSE \E a \in users' : a.name = u.by.who /\ a.role = "admin" /\ a # u
    BY DEF Chartered
  <2>1. CASE u \in users
    BY <1>2, <2>1 DEF RegInv, Chartered
  <2>2. CASE u = new /\ free /\ req[r].first
    BY <1>4, <2>2
  <2>3. CASE u = new /\ free /\ ~req[r].first
    <3>1. PICK a \in users : a.name = req[r].cred.who /\ a.role = "admin"
      BY <1>3, <2>3 DEF Charter
    <3>2. a # u
      BY <1>4, <2>3 DEF UserNamed
    <3> QED BY <1>2, <1>4, <1>5, <2>3, <3>1, <3>2
  <2> QED BY <1>2, <2>1, <2>2, <2>3
<1>9. \A q \in Request : Keeps(q)'
  <2> SUFFICES ASSUME NEW q \in Request PROVE Keeps(q)'
    OBVIOUS
  <2>1. CASE q = r
    <3>1. req'[q].phase = "done"
      BY <1>2, <2>1 DEF RegInv, Over
    <3> QED BY <3>1 DEF Keeps, Busy
  <2>2. CASE q # r
    <3>1. req'[q] = req[q] /\ Keeps(q)
      BY <1>2, <2>2 DEF RegInv
    <3>2. Charter(req[q].cred) => Charter(req[q].cred)'
      BY <1>2, <3>1 DEF Charter
    <3>3. lock = q => lock' = q
      BY <1>2, <2>2
    <3>4. req[q].phase \in Busy => ~req[q].first
      <4>1. SUFFICES ASSUME req[q].phase \in Busy, req[q].first PROVE FALSE
        OBVIOUS
      <4>2. lock = q /\ users = {}
        BY <3>1, <4>1 DEF Keeps, Checked
      <4> QED BY <1>3, <2>2, <4>2 DEF Charter
    <3> QED BY <3>1, <3>2, <3>3, <3>4 DEF Keeps
  <2> QED BY <2>1, <2>2
<1>10. users' \subseteq User /\ lock' \in Request \cup {NoOne}
       /\ req' \in [Request -> Flight \cup Resting]
  BY <1>2, <1>4 DEF RegInv, Over, Resting
<1> QED BY <1>2, <1>6, <1>7, <1>8, <1>9, <1>10 DEF RegInv

(* Keys are made, keys are revoked, the process stops: no account is made. *)
LEMMA OthersKeep ==
  ASSUME RegInv, CreateKey \/ RevokeKey \/ Stop \/ UNCHANGED vars
  PROVE  RegInv'
<1>1. users' = users
  BY DEF CreateKey, RevokeKey, Stop, vars
<1>2. CASE CreateKey \/ RevokeKey \/ UNCHANGED vars
  <2>1. req' = req /\ lock' = lock /\ stops' = stops
    BY <1>2 DEF CreateKey, RevokeKey, vars
  <2>2. \A q \in Request : Keeps(q)'
    BY <1>1, <2>1, BystanderKeeps DEF RegInv
  <2> QED BY <1>1, <2>1, <2>2, UsersKept DEF RegInv
<1>3. CASE Stop
  <2>1. /\ req' = [r \in Request |-> IF req[r].phase = "new" THEN req[r] ELSE Over]
        /\ lock' = NoOne /\ stops' \in 0..MaxStops
    BY <1>3, BoundsAreNatural DEF Stop, RegInv
  <2>2. \A q \in Request : req'[q] \in Flight \cup Resting /\ req'[q].phase \in {"new", "done"}
    BY <2>1 DEF RegInv, Over, Resting
  <2>3. req' \in [Request -> Flight \cup Resting]
    BY <2>1, <2>2
  <2>4. \A q \in Request : Keeps(q)'
    BY <2>2 DEF Keeps, Busy
  <2> QED BY <1>1, <2>1, <2>3, <2>4, UsersKept DEF RegInv
<1> QED BY <1>2, <1>3

-----------------------------------------------------------------------------
(* No key at the start. *)
LEMMA KeyInit == Init => KeyInv
BY FS_EmptySet, BoundsAreNatural DEF Init, KeyInv

(* A new key gets the next number, a revoked one keeps its own. *)
LEMMA KeyStep == RegInv /\ KeyInv /\ [Next]_vars => KeyInv'
<1> SUFFICES ASSUME RegInv, KeyInv, [Next]_vars PROVE KeyInv'
  OBVIOUS
<1>0. Cardinality(keys) \in Nat
  BY FS_CardinalityType DEF KeyInv
<1>1. CASE UNCHANGED keys
  BY <1>1 DEF KeyInv
<1>2. CASE CreateKey
  <2>0. PICK cred \in Credential, scopes \in SUBSET Scope :
          /\ Cardinality(keys) < MaxKeys
          /\ \E id \in Identity(cred) :
               keys' = keys \cup {[id |-> Cardinality(keys) + 1, owner |-> id.name,
                                  scopes |-> scopes, enabled |-> TRUE]}
    BY <1>2 DEF CreateKey
  <2>1. PICK id \in Identity(cred) :
          /\ Cardinality(keys) < MaxKeys
          /\ keys' = keys \cup {[id |-> Cardinality(keys) + 1, owner |-> id.name,
                                 scopes |-> scopes, enabled |-> TRUE]}
    BY <2>0
  <2> DEFINE fresh == [id |-> Cardinality(keys) + 1, owner |-> id.name, scopes |-> scopes, enabled |-> TRUE]
  <2>2. id.name \in Name
    BY DEF Identity, UserNamed, RegInv, User
  <2>3. fresh \notin keys
    BY <1>0 DEF KeyInv
  <2>4. IsFiniteSet(keys') /\ Cardinality(keys') = Cardinality(keys) + 1
    BY <2>1, <2>3, FS_AddElement DEF KeyInv
  <2>5. fresh.id = Cardinality(keys) + 1
        /\ fresh \in [id : Nat, owner : Name, scopes : SUBSET Scope, enabled : BOOLEAN]
    BY <1>0, <2>2
  <2>6. \A k \in keys : k.id \in 1..Cardinality(keys) /\ k.id # fresh.id
    BY <1>0, <2>5 DEF KeyInv
  <2>7. \A k \in keys' : k \in keys \/ k = fresh
    BY <2>1
  <2>8. \A k \in keys' : k.id \in 1..Cardinality(keys')
    BY <1>0, <2>4, <2>5, <2>6, <2>7
  <2>9. \A k, l \in keys' : k.id = l.id => k = l
    BY <2>6, <2>7 DEF KeyInv
  <2>10. keys' \subseteq [id : Nat, owner : Name, scopes : SUBSET Scope, enabled : BOOLEAN]
    BY <2>5, <2>7 DEF KeyInv
  <2>11. Cardinality(keys') <= MaxKeys
    BY <1>0, <2>1, <2>4, BoundsAreNatural
  <2> QED BY <2>4, <2>8, <2>9, <2>10, <2>11 DEF KeyInv
<1>3. CASE RevokeKey
  <2>1. PICK k \in keys : keys' = (keys \ {k}) \cup {[k EXCEPT !.enabled = FALSE]}
    BY <1>3 DEF RevokeKey
  <2> DEFINE off == [k EXCEPT !.enabled = FALSE]
             rest == keys \ {k}
  <2>2. off.id = k.id /\ off \in [id : Nat, owner : Name, scopes : SUBSET Scope, enabled : BOOLEAN]
    BY DEF KeyInv
  <2>3. off \notin rest
    BY <2>2 DEF KeyInv
  <2>4. IsFiniteSet(rest) /\ Cardinality(rest) = Cardinality(keys) - 1
    BY FS_RemoveElement DEF KeyInv
  <2>5. IsFiniteSet(keys') /\ Cardinality(keys') = Cardinality(keys)
    <3>1. keys' = rest \cup {off}
      BY <2>1
    <3>2. IsFiniteSet(rest \cup {off}) /\ Cardinality(rest \cup {off}) = Cardinality(rest) + 1
      BY <2>3, <2>4, FS_AddElement
    <3> QED BY <1>0, <2>4, <3>1, <3>2
  <2> QED BY <2>1, <2>2, <2>5 DEF KeyInv
<1>4. CASE Stop \/ \E r \in Request : Arrive(r) \/ Registers(r)
  BY <1>1, <1>4 DEF Stop, Arrive, Registers, TakeLock, CountUsers, Authorize, CheckName, Commit
<1>5. CASE UNCHANGED vars
  BY <1>1, <1>5 DEF vars
<1> QED BY <1>2, <1>3, <1>4, <1>5 DEF Next

(* Every step of a registration keeps what is said of them all. *)
LEMMA RegStep == RegInv /\ KeyInv /\ [Next]_vars => RegInv'
<1> SUFFICES ASSUME RegInv, KeyInv, [Next]_vars PROVE RegInv'
  OBVIOUS
<1>1. CASE \E r \in Request : Arrive(r) \/ TakeLock(r) \/ CountUsers(r) \/ Authorize(r) \/ CheckName(r)
  BY <1>1, LooksKeep
<1>2. CASE \E r \in Request : Commit(r)
  BY <1>2, CommitKeeps
<1>3. CASE CreateKey \/ RevokeKey \/ Stop \/ UNCHANGED vars
  BY <1>3, OthersKeep
<1> QED BY <1>1, <1>2, <1>3 DEF Next, Registers

(* Both invariants hold always. *)
LEMMA Invariant == Spec => [](RegInv /\ KeyInv)
<1> DEFINE Inv == RegInv /\ KeyInv
<1>1. Init => Inv
  BY RegInit, KeyInit
<1>2. Inv /\ [Next]_vars => Inv'
  BY RegStep, KeyStep
<1> QED BY <1>1, <1>2, PTL DEF Spec

(* The values of the variables. *)
THEOREM AccountsTyped == Spec => []TypeOK
<1>1. RegInv /\ KeyInv => TypeOK
  <2> SUFFICES ASSUME RegInv, KeyInv PROVE TypeOK
    OBVIOUS
  <2>1. \A r \in Request : req[r].phase \in Busy \cup {"new", "done"}
    BY DEF RegInv, Flight, Resting
  <2>2. keys \subseteq [id : 1..MaxKeys, owner : Name, scopes : SUBSET Scope, enabled : BOOLEAN]
    <3>1. Cardinality(keys) \in Nat
      BY FS_CardinalityType DEF KeyInv
    <3>2. \A k \in keys : k.id \in 1..MaxKeys
      BY <3>1, BoundsAreNatural DEF KeyInv
    <3> QED BY <3>2 DEF KeyInv
  <2> QED BY <2>1, <2>2 DEF TypeOK, RegInv, User, Busy
<1> QED BY <1>1, Invariant, PTL

(* A key allows nothing its owner's own login does not: it finds its own row by its     *)
(* number, whatever keys were made and revoked (require_scope, require_role,            *)
(* require_console_user).                                                               *)
LEMMA WithinOwner == KeyInv => KeyWithinOwner
<1> SUFFICES ASSUME KeyInv, NEW k \in keys, NEW op \in Operation,
                    NEW id \in Identity([kind |-> "key", who |-> k.id]), Allowed(id, op)
             PROVE  \E own \in Identity([kind |-> "jwt", who |-> k.owner]) : Allowed(own, op)
  BY DEF KeyWithinOwner
<1>0. PICK l \in keys : l.id = k.id /\ \E u \in UserNamed(l.owner) :
        id = [role |-> u.role, name |-> u.name, key |-> TRUE, scopes |-> l.scopes]
  BY DEF Identity
<1>1. PICK u \in UserNamed(l.owner) :
        l.id = k.id /\ id = [role |-> u.role, name |-> u.name, key |-> TRUE, scopes |-> l.scopes]
  BY <1>0
<1> DEFINE own == [role |-> u.role, name |-> u.name, key |-> FALSE, scopes |-> {}]
<1>2. own \in Identity([kind |-> "jwt", who |-> k.owner])
  BY <1>1 DEF Identity, KeyInv
<1>3. own.role = id.role /\ own.scopes = {} /\ Console(own)
  BY <1>1 DEF Console
<1>4. Allowed(own, op)
  BY <1>3 DEF Allowed, InScope, HasRole
<1> QED BY <1>2, <1>4

(* Only one account is ever made on nobody's authority, however many first              *)
(* registrations arrive together by both paths and wherever one is cut short; every     *)
(* account goes back to it through administrators that exist; one account has a name;   *)
(* and a key allows nothing its owner's login would not (register, register_by_admin,   *)
(* get_current_user, require_scope, require_role).                                      *)
THEOREM Accountability == Spec => []Accountable
<1>1. RegInv /\ KeyInv => Accountable
  BY WithinOwner DEF RegInv, Accountable
<1> QED BY <1>1, Invariant, PTL
-----------------------------------------------------------------------------
(* Numbers: a least one, induction, a greatest one. *)
LEMMA Least ==
  ASSUME NEW S \in SUBSET Nat, S # {}
  PROVE  \E n \in S : \A m \in S : n <= m
<1> DEFINE R == OpToRel(<, Nat)
<1>1. IsWellFoundedOn(R, Nat)
  BY NatLessThanWellFounded
<1> HIDE DEF R
<1>2. PICK n \in S : \A m \in S : ~(<<m, n>> \in R)
  BY <1>1, WFMin
<1>3. \A m \in S : ~(m < n)
  BY <1>2 DEF R, OpToRel
<1> QED BY <1>3

LEMMA Induct ==
  ASSUME NEW n \in Nat, NEW S, 0 \in S, \A i \in 0 .. n - 1 : i \in S => i + 1 \in S
  PROVE  0 .. n \subseteq S
<1> SUFFICES ASSUME (0 .. n) \ S # {} PROVE FALSE
  OBVIOUS
<1> DEFINE T == (0 .. n) \ S
<1>1. PICK i \in T : \A j \in T : i <= j
  <2>1. T \in SUBSET Nat /\ T # {}
    OBVIOUS
  <2> HIDE DEF T
  <2> QED BY <2>1, Least
<1>2. i # 0 /\ i - 1 \in 0 .. n - 1 /\ i - 1 \in S
  BY <1>1
<1> QED BY <1>1, <1>2

LEMMA Greatest ==
  ASSUME NEW n \in Nat, NEW S \in SUBSET (0 .. n), S # {}
  PROVE  \E m \in S : \A k \in S : k <= m
<1> DEFINE T == {n - m : m \in S}
<1>1. PICK t \in T : \A u \in T : t <= u
  <2>1. S \in SUBSET (0 .. n) /\ S # {}
    OBVIOUS
  <2>2. \A m \in S : n - m \in Nat
    BY <2>1
  <2>3. T \in SUBSET Nat /\ T # {}
    BY <2>1, <2>2
  <2> HIDE DEF T
  <2> QED BY <2>3, Least
<1>2. PICK m \in S : t = n - m
  BY <1>1
<1>3. \A k \in S : n - m <= n - k
  BY <1>1, <1>2
<1> QED BY <1>3

-----------------------------------------------------------------------------
(* A window of times that do not fall. *)
Rising(w) == w \in Seq(Nat) /\ \A i, j \in 1..Len(w) : i <= j => w[i] <= w[j]

(* What is left of it is its end, and what is old is exactly what is gone. *)
LEMMA LiveIs ==
  ASSUME NEW w, Rising(w), NEW now \in Nat
  PROVE  \E gone \in 0..Len(w) :
           /\ Live(w, now) \in Seq(Nat) /\ Len(Live(w, now)) = Len(w) - gone
           /\ \A i \in 1..Len(w) - gone : Live(w, now)[i] = w[gone + i]
           /\ \A i \in 1..Len(w) : i <= gone <=> now - w[i] > Span
<1> DEFINE G == Gone(w, now)
<1>1. w \in Seq(Nat) /\ Len(w) \in Nat /\ \A i \in 1..Len(w) : w[i] \in Nat
  BY DEF Rising
<1>2. G \in SUBSET (0..Len(w)) /\ 0 \in G
  BY <1>1 DEF Gone
<1>3. \E n \in G : \A m \in G : m <= n
  <2> HIDE DEF G
  <2> QED BY <1>1, <1>2, Greatest
<1> DEFINE gone == CHOOSE n \in Gone(w, now) : \A m \in Gone(w, now) : m <= n
<1>4. gone \in G /\ \A m \in G : m <= gone
  BY <1>3
<1>5. Live(w, now) = SubSeq(w, gone + 1, Len(w))
  BY DEF Live
<1> HIDE DEF gone
<1>6. gone \in 0..Len(w)
  BY <1>2, <1>4
<1>7. \A i \in 1..gone : now - w[i] > Span
  BY <1>4 DEF Gone
<1>8. ASSUME NEW i \in 1..Len(w), now - w[i] > Span PROVE i <= gone
  <2>1. \A j \in 1..i : w[j] <= w[i] /\ w[j] \in Nat /\ w[i] \in Nat
    BY <1>1, <1>8 DEF Rising
  <2>2. \A j \in 1..i : now - w[j] > Span
    BY <1>8, <2>1, RateAssumption
  <2>3. i \in G
    BY <1>1, <2>2 DEF Gone
  <2> QED BY <2>3, <1>4
<1>9. /\ SubSeq(w, gone + 1, Len(w)) \in Seq(Nat)
      /\ Len(SubSeq(w, gone + 1, Len(w))) = Len(w) - gone
      /\ \A i \in 1..Len(w) - gone : SubSeq(w, gone + 1, Len(w))[i] = w[gone + i]
  BY <1>1, <1>6
<1> QED
  <2>1. \A i \in 1..Len(w) : i <= gone <=> now - w[i] > Span
    BY <1>6, <1>7, <1>8
  <2> QED BY <1>5, <1>6, <1>9, <2>1

-----------------------------------------------------------------------------
(* The function Replay defines, call by call. *)
LEMMA ReplayIs ==
  ASSUME NEW calls, Len(calls) \in Nat, NEW limit
  PROVE  /\ Replay(calls, limit)[0] = [windows |-> <<>>, admitted |-> FALSE, retry |-> 0]
         /\ \A n \in 1..Len(calls) :
              Replay(calls, limit)[n] = Consume(Replay(calls, limit)[n - 1].windows, calls[n], limit)
<1> DEFINE None == [windows |-> <<>>, admitted |-> FALSE, retry |-> 0]
           More(s, i) == Consume(s.windows, calls[i], limit)
           Is(u, n) == u = [i \in 0..n |-> IF i = 0 THEN None ELSE More(u[i - 1], i)]
           S == {n \in Nat : \E u : Is(u, n)}
           r == Replay(calls, limit)
<1>1. r = CHOOSE u : Is(u, Len(calls))
  BY DEF Replay
<1> HIDE DEF r, None, More
<1>2. 0 \in S
  <2>1. Is([i \in 0..0 |-> None], 0)
    OBVIOUS
  <2> QED BY <2>1
<1>3. ASSUME NEW n \in Nat, n \in S PROVE n + 1 \in S
  <2>1. PICK u : Is(u, n)
    BY <1>3
  <2> DEFINE v == [i \in 0..n + 1 |-> IF i \in 0..n THEN u[i] ELSE More(u[n], n + 1)]
  <2>2. Is(v, n + 1)
    BY <2>1
  <2> HIDE DEF v, Is
  <2> QED BY <2>2
<1>4. Len(calls) \in S
  <2> HIDE DEF S
  <2>1. \A i \in 0..Len(calls) - 1 : i \in S => i + 1 \in S
    BY <1>3
  <2>2. 0..Len(calls) \subseteq S
    BY <1>2, <2>1, Induct
  <2> QED BY <2>2
<1>5. Is(r, Len(calls))
  <2>1. \E u : Is(u, Len(calls))
    BY <1>4
  <2> HIDE DEF Is
  <2> QED BY <1>1, <2>1
<1>6. r[0] = None /\ \A n \in 1..Len(calls) : r[n] = More(r[n - 1], n)
  BY <1>5
<1> QED BY <1>6 DEF r, None, More

-----------------------------------------------------------------------------
(* A course of calls, with what each of them found. *)
Course(calls, after, limit) ==
  /\ calls \in Seq([key : Callers, at : Nat]) /\ limit \in Nat \ {0}
  /\ \A i, j \in 1..Len(calls) : i <= j => calls[i].at <= calls[j].at
  /\ after[0] = [windows |-> <<>>, admitted |-> FALSE, retry |-> 0]
  /\ \A n \in 1..Len(calls) : after[n] = Consume(after[n - 1].windows, calls[n], limit)
Clock(calls, n) == IF n = 0 THEN 0 ELSE calls[n].at
Admitted(calls, after, n, k) == {j \in 1..n : calls[j].key = k /\ after[j].admitted}

(* A window tells of the admitted calls of its key, in their order, and of all of them *)
(* in the span.                                                                        *)
Names(u, w, calls, admitted) ==
  /\ w \in Seq(Nat) /\ u \in Seq(Nat) /\ Len(u) = Len(w)
  /\ \A i \in 1..Len(w) : u[i] \in admitted /\ w[i] = calls[u[i]].at
  /\ \A i, j \in 1..Len(w) : i < j => u[i] < u[j]
Tells(u, w, calls, admitted, now) ==
  /\ Names(u, w, calls, admitted)
  /\ \A j \in admitted : now - calls[j].at <= Span => \E i \in 1..Len(w) : u[i] = j
Told(w, calls, admitted, now) == \E u : Tells(u, w, calls, admitted, now)

Kind(calls, after, limit, n) ==
  /\ DOMAIN after[n].windows \subseteq Callers
  /\ \A k \in Callers :
       /\ Len(Window(after[n].windows, k)) <= limit
       /\ Told(Window(after[n].windows, k), calls, Admitted(calls, after, n, k), Clock(calls, n))

LEMMA CallIs ==
  ASSUME NEW calls, NEW after, NEW limit, Course(calls, after, limit)
  PROVE  /\ Len(calls) \in Nat /\ limit \in Nat /\ limit > 0 /\ DOMAIN calls = 1..Len(calls)
         /\ \A n \in 1..Len(calls) : calls[n].key \in Callers /\ calls[n].at \in Nat
<1> DEFINE C == [key : Callers, at : Nat]
<1>1. calls \in Seq(C) /\ limit \in Nat \ {0}
  BY DEF Course
<1> HIDE DEF C
<1>2. Len(calls) \in Nat /\ DOMAIN calls = 1..Len(calls) /\ \A n \in 1..Len(calls) : calls[n] \in C
  BY <1>1
<1> QED BY <1>1, <1>2 DEF C

LEMMA NamesRise ==
  ASSUME NEW calls, NEW after, NEW limit, Course(calls, after, limit),
         NEW admitted \in SUBSET (1..Len(calls)), NEW u, NEW w, Names(u, w, calls, admitted)
  PROVE  Rising(w)
<1>1. \A i \in 1..Len(w) : u[i] \in 1..Len(calls) /\ u[i] \in Nat
  BY CallIs DEF Names
<1>2. ASSUME NEW i \in 1..Len(w), NEW j \in 1..Len(w), i <= j PROVE w[i] <= w[j]
  <2>1. u[i] <= u[j]
    <3>1. CASE i = j  BY <1>1, <3>1
    <3>2. CASE i < j  BY <1>1, <3>2 DEF Names
    <3> QED BY <1>2, <3>1, <3>2
  <2>2. calls[u[i]].at <= calls[u[j]].at
    BY <1>1, <2>1 DEF Course
  <2> QED BY <2>2 DEF Names
<1> QED BY <1>2 DEF Rising, Names

(* When the old ones are dropped the window tells of the admitted calls in the span, *)
(* and of no others.                                                                 *)
LEMMA LiveTells ==
  ASSUME NEW calls, NEW after, NEW limit, Course(calls, after, limit),
         NEW admitted \in SUBSET (1..Len(calls)), NEW w, NEW before \in Nat, NEW now \in Nat,
         Told(w, calls, admitted, before), before <= now
  PROVE  /\ Len(Live(w, now)) <= Len(w)
         /\ \E v : /\ Tells(v, Live(w, now), calls, admitted, now)
                   /\ \A i \in 1..Len(Live(w, now)) : now - Live(w, now)[i] <= Span
<1>1. PICK u : Tells(u, w, calls, admitted, before)
  BY DEF Told
<1>2. Names(u, w, calls, admitted)
  BY <1>1 DEF Tells
<1>3. Rising(w)
  BY <1>2, NamesRise
<1> DEFINE own == Live(w, now)
<1>4. PICK gone \in 0..Len(w) :
        /\ own \in Seq(Nat) /\ Len(own) = Len(w) - gone
        /\ \A i \in 1..Len(w) - gone : own[i] = w[gone + i]
        /\ \A i \in 1..Len(w) : i <= gone <=> now - w[i] > Span
  BY <1>3, LiveIs
<1> HIDE DEF own
<1>5. Len(w) \in Nat /\ gone \in Nat /\ Len(own) \in Nat
  BY <1>2, <1>4 DEF Names
<1> DEFINE v == [i \in 1..Len(own) |-> u[gone + i]]
<1>6. \A i \in 1..Len(own) : gone + i \in 1..Len(w) /\ v[i] = u[gone + i] /\ own[i] = w[gone + i]
  BY <1>4, <1>5
<1>7. v \in Seq(Nat) /\ Len(v) = Len(own)
  <2>1. \A i \in 1..Len(own) : u[gone + i] \in Nat
    BY <1>2, <1>6 DEF Names
  <2> QED BY <1>5, <2>1
<1> HIDE DEF v
<1>8. Names(v, own, calls, admitted)
  <2>1. \A i \in 1..Len(own) : v[i] \in admitted /\ own[i] = calls[v[i]].at
    BY <1>2, <1>6 DEF Names
  <2>2. \A i, j \in 1..Len(own) : i < j => v[i] < v[j]
    <3> TAKE i, j \in 1..Len(own)
    <3> HAVE i < j
    <3>1. gone + i < gone + j /\ gone + i \in 1..Len(w) /\ gone + j \in 1..Len(w)
      BY <1>5, <1>6
    <3> QED BY <1>2, <1>6, <3>1 DEF Names
  <2> QED BY <1>4, <1>7, <2>1, <2>2 DEF Names
<1>9. ASSUME NEW j \in admitted, now - calls[j].at <= Span
      PROVE  \E i \in 1..Len(own) : v[i] = j
  <2>1. calls[j].at \in Nat /\ before - calls[j].at <= Span
    BY <1>9, CallIs, RateAssumption
  <2>2. PICK i \in 1..Len(w) : u[i] = j
    BY <1>1, <2>1 DEF Tells
  <2>3. ~(i <= gone)
    <3>1. w[i] = calls[j].at
      BY <1>2, <2>2 DEF Names
    <3> QED BY <1>4, <1>9, <2>1, <3>1, RateAssumption
  <2>4. i - gone \in 1..Len(own) /\ gone + (i - gone) = i
    BY <1>4, <1>5, <2>3
  <2> QED BY <1>6, <2>2, <2>4
<1>10. ASSUME NEW i \in 1..Len(own) PROVE now - own[i] <= Span
  <2>1. PICK m \in 1..Len(w) : m = gone + i
    BY <1>6
  <2>2. ~(m <= gone)
    BY <1>5, <2>1
  <2>3. ~(now - w[m] > Span)
    BY <1>4, <2>2
  <2>4. w[m] \in Nat
    BY <1>2 DEF Names
  <2>5. own[i] = w[m]
    BY <1>6, <2>1
  <2> QED BY <2>3, <2>4, <2>5, RateAssumption
<1> QED
  <2>1. Tells(v, own, calls, admitted, now)
    BY <1>8, <1>9 DEF Tells
  <2> QED BY <1>4, <1>5, <1>10, <2>1 DEF own

-----------------------------------------------------------------------------
(* What a call leaves of the windows. *)
LEMMA ConsumeIs ==
  ASSUME NEW found, NEW call, NEW limit, NEW out, out = Consume(found, call, limit),
         NEW own, own = Live(Window(found, call.key), call.at)
  PROVE  /\ DOMAIN out.windows = Kept(found, call.key, call.at)
         /\ Window(out.windows, call.key) = IF out.admitted THEN Append(own, call.at) ELSE own
         /\ \A k : k # call.key =>
              Window(out.windows, k) = IF k \in DOMAIN found /\ ~IdleSince(found[k], call.at)
                                       THEN found[k] ELSE <<>>
         /\ out.admitted = ~(Len(own) >= limit)
         /\ out.retry = IF out.admitted THEN 0 ELSE RetryAfter(own, call.at)
<1> DEFINE full == Len(own) >= limit
           kept == Kept(found, call.key, call.at)
           left == [k \in kept |-> IF k # call.key THEN found[k]
                                   ELSE IF full THEN own ELSE Append(own, call.at)]
           wait == IF full THEN RetryAfter(own, call.at) ELSE 0
<1>1. out = [windows |-> left, admitted |-> ~full, retry |-> wait]
  BY DEF Consume
<1>2. call.key \in kept
  BY DEF Kept
<1>3. \A k : k # call.key => (k \in kept <=> k \in DOMAIN found /\ ~IdleSince(found[k], call.at))
  BY DEF Kept
<1>4. full \in BOOLEAN
  OBVIOUS
<1> HIDE DEF full, kept
<1>5. DOMAIN left = kept /\ Window(left, call.key) = IF full THEN own ELSE Append(own, call.at)
  BY <1>2 DEF Window
<1>6. ASSUME NEW k, k # call.key
      PROVE  Window(left, k) = IF k \in DOMAIN found /\ ~IdleSince(found[k], call.at)
                               THEN found[k] ELSE <<>>
  BY <1>3, <1>6 DEF Window
<1> HIDE DEF left
<1>7. out.windows = left /\ out.admitted = ~full /\ out.retry = wait
  BY <1>1
<1>8. Window(out.windows, call.key) = IF out.admitted THEN Append(own, call.at) ELSE own
  BY <1>4, <1>5, <1>7
<1>9. out.retry = IF out.admitted THEN 0 ELSE RetryAfter(own, call.at)
  BY <1>4, <1>7
<1> QED BY <1>5, <1>6, <1>7, <1>8, <1>9 DEF full, kept

(* An empty window tells of nothing, when nothing admitted is in the span. *)
LEMMA ToldNothing ==
  ASSUME NEW calls, NEW admitted, NEW now, \A j \in admitted : ~(now - calls[j].at <= Span)
  PROVE  Told(<<>>, calls, admitted, now)
<1>1. <<>> \in Seq(Nat) /\ Len(<<>>) = 0 /\ 1..0 = {}
  OBVIOUS
<1>2. Names(<<>>, <<>>, calls, admitted)
  BY <1>1 DEF Names
<1>3. Tells(<<>>, <<>>, calls, admitted, now)
  BY <1>2 DEF Tells
<1> QED BY <1>3 DEF Told

(* A window still tells of what is in the span when time goes on, and so does none when *)
(* its caller is idle.                                                                  *)
LEMMA OthersTold ==
  ASSUME NEW calls, NEW after, NEW limit, Course(calls, after, limit),
         NEW admitted \in SUBSET (1..Len(calls)), NEW w, NEW before \in Nat, NEW now \in Nat,
         Told(w, calls, admitted, before), before <= now
  PROVE  /\ Told(w, calls, admitted, now)
         /\ IdleSince(w, now) => Told(<<>>, calls, admitted, now)
<1>1. PICK u : Tells(u, w, calls, admitted, before)
  BY DEF Told
<1>2. Names(u, w, calls, admitted)
  BY <1>1 DEF Tells
<1>3. ASSUME NEW j \in admitted, now - calls[j].at <= Span
      PROVE  \E i \in 1..Len(w) : u[i] = j
  <2>1. calls[j].at \in Nat /\ before - calls[j].at <= Span
    BY <1>3, CallIs, RateAssumption
  <2> QED BY <1>1, <2>1 DEF Tells
<1>4. Tells(u, w, calls, admitted, now)
  BY <1>2, <1>3 DEF Tells
<1>5. ASSUME IdleSince(w, now), NEW j \in admitted, now - calls[j].at <= Span PROVE FALSE
  <2>1. PICK i \in 1..Len(w) : u[i] = j
    BY <1>3, <1>5
  <2>2. w \in Seq(Nat) /\ w[i] = calls[j].at
    BY <1>2, <2>1 DEF Names
  <2>3. Len(w) \in Nat /\ w # <<>> /\ Len(w) \in 1..Len(w) /\ i <= Len(w)
    BY <2>2
  <2>4. w[i] <= w[Len(w)] /\ w[i] \in Nat /\ w[Len(w)] \in Nat
    <3>1. Rising(w)
      BY <1>2, NamesRise
    <3> QED BY <2>3, <3>1, <2>2 DEF Rising
  <2>5. now - w[Len(w)] > Span
    BY <1>5, <2>3 DEF IdleSince
  <2> QED BY <1>5, <2>2, <2>4, <2>5, RateAssumption
<1> QED
  <2>1. IdleSince(w, now) => Told(<<>>, calls, admitted, now)
    BY <1>5, ToldNothing
  <2> QED BY <1>4, <2>1 DEF Told

(* A window with an admitted call at its end tells of that call, too. *)
LEMMA AppendTells ==
  ASSUME NEW calls, NEW after, NEW limit, Course(calls, after, limit), NEW n \in 1..Len(calls),
         NEW admitted \in SUBSET (1..n - 1), NEW w, NEW v,
         Tells(v, w, calls, admitted, calls[n].at)
  PROVE  Told(Append(w, calls[n].at), calls, admitted \cup {n}, calls[n].at)
<1>1. Names(v, w, calls, admitted) /\ calls[n].at \in Nat /\ n \in Nat /\ Len(calls) \in Nat
  BY CallIs DEF Tells
<1>2. w \in Seq(Nat) /\ v \in Seq(Nat) /\ Len(v) = Len(w) /\ Len(w) \in Nat
  BY <1>1 DEF Names
<1> DEFINE x == Append(w, calls[n].at)
           u == Append(v, n)
<1>3. /\ x \in Seq(Nat) /\ u \in Seq(Nat) /\ Len(x) = Len(w) + 1 /\ Len(u) = Len(x)
      /\ x[Len(w) + 1] = calls[n].at /\ u[Len(w) + 1] = n
      /\ \A i \in 1..Len(w) : x[i] = w[i] /\ u[i] = v[i]
  BY <1>1, <1>2
<1> HIDE DEF x, u
<1>4. \A i \in 1..Len(x) : i = Len(w) + 1 \/ i \in 1..Len(w)
  BY <1>2, <1>3
<1>5. \A i \in 1..Len(x) : u[i] \in admitted \cup {n} /\ x[i] = calls[u[i]].at
  BY <1>1, <1>3, <1>4 DEF Names
<1>6. ASSUME NEW i \in 1..Len(x), NEW j \in 1..Len(x), i < j PROVE u[i] < u[j]
  <2>1. i \in 1..Len(w)
    BY <1>2, <1>3, <1>6
  <2>2. CASE j \in 1..Len(w)
    BY <1>1, <1>3, <1>6, <2>1, <2>2 DEF Names
  <2>3. CASE j = Len(w) + 1
    <3>1. v[i] \in 1..n - 1
      BY <1>1, <2>1 DEF Names
    <3> QED BY <1>1, <1>3, <2>1, <2>3, <3>1
  <2> QED BY <1>4, <2>2, <2>3
<1>7. Names(u, x, calls, admitted \cup {n})
  BY <1>3, <1>5, <1>6 DEF Names
<1>8. ASSUME NEW j \in admitted \cup {n}, calls[n].at - calls[j].at <= Span
      PROVE  \E i \in 1..Len(x) : u[i] = j
  <2>1. CASE j = n
    <3>1. Len(w) + 1 \in 1..Len(x) /\ u[Len(w) + 1] = j
      BY <1>2, <1>3, <2>1
    <3> QED BY <3>1
  <2>2. CASE j \in admitted
    <3>1. PICK i \in 1..Len(w) : v[i] = j
      BY <1>8, <2>2 DEF Tells
    <3>2. i \in 1..Len(x)
      BY <1>2, <1>3
    <3> QED BY <1>3, <3>1, <3>2
  <2> QED BY <2>1, <2>2
<1>9. Tells(u, x, calls, admitted \cup {n}, calls[n].at)
  BY <1>7, <1>8 DEF Tells
<1> QED BY <1>9 DEF Told, x

-----------------------------------------------------------------------------
(* The invariant of a history: every window holds no more than the limit, and tells of *)
(* its key's admitted calls in the span.                                               *)
LEMMA KindStarts ==
  ASSUME NEW calls, NEW after, NEW limit, Course(calls, after, limit)
  PROVE  Kind(calls, after, limit, 0)
<1>1. after[0].windows = <<>> /\ DOMAIN after[0].windows = {}
  BY DEF Course
<1>2. ASSUME NEW k \in Callers
      PROVE  /\ Len(Window(after[0].windows, k)) <= limit
             /\ Told(Window(after[0].windows, k), calls, Admitted(calls, after, 0, k), Clock(calls, 0))
  <2>1. Window(after[0].windows, k) = <<>>
    BY <1>1 DEF Window
  <2>2. Admitted(calls, after, 0, k) = {}
    BY DEF Admitted
  <2>3. Told(<<>>, calls, {}, Clock(calls, 0))
    BY ToldNothing
  <2>4. Len(<<>>) <= limit
    BY CallIs
  <2> QED BY <2>1, <2>2, <2>3, <2>4
<1> QED BY <1>1, <1>2 DEF Kind

(* What a call finds: the n-th one, its window trimmed. *)
Own(calls, after, n) == Live(Window(after[n - 1].windows, calls[n].key), calls[n].at)

LEMMA Before ==
  ASSUME NEW calls, NEW after, NEW limit, Course(calls, after, limit), NEW n \in 1..Len(calls)
  PROVE  /\ n - 1 \in 0..Len(calls) /\ Len(calls) \in Nat /\ calls[n].key \in Callers
         /\ Clock(calls, n - 1) \in Nat /\ calls[n].at \in Nat /\ Clock(calls, n) = calls[n].at
         /\ Clock(calls, n - 1) <= calls[n].at
         /\ \A k : Admitted(calls, after, n - 1, k) \in SUBSET (1..n - 1)
         /\ \A k : Admitted(calls, after, n - 1, k) \in SUBSET (1..Len(calls))
         /\ \A k : Admitted(calls, after, n, k) =
                     Admitted(calls, after, n - 1, k)
                       \cup IF k = calls[n].key /\ after[n].admitted THEN {n} ELSE {}
<1>1. Len(calls) \in Nat /\ calls[n].key \in Callers /\ calls[n].at \in Nat /\ n \in Nat
  BY CallIs
<1>2. n - 1 \in 0..Len(calls)
  BY <1>1
<1>3. Clock(calls, n) = calls[n].at
  BY DEF Clock
<1>4. Clock(calls, n - 1) \in Nat /\ Clock(calls, n - 1) <= calls[n].at
  <2>1. CASE n = 1
    BY <1>1, <2>1 DEF Clock
  <2>2. CASE n # 1
    <3>1. PICK m \in 1..Len(calls) : m = n - 1 /\ m # 0
      BY <1>1, <2>2
    <3>2. m <= n
      BY <1>1, <3>1
    <3>3. calls[m].at <= calls[n].at
      BY <3>2 DEF Course
    <3>4. calls[m].at \in Nat
      BY CallIs
    <3> QED BY <3>1, <3>3, <3>4 DEF Clock
  <2> QED BY <2>1, <2>2
<1>5. \A k : /\ Admitted(calls, after, n - 1, k) \in SUBSET (1..n - 1)
             /\ Admitted(calls, after, n - 1, k) \in SUBSET (1..Len(calls))
  BY <1>1 DEF Admitted
<1>6. 1..n = (1..n - 1) \cup {n}
  BY <1>1
<1>7. \A k : Admitted(calls, after, n, k) =
               Admitted(calls, after, n - 1, k)
                 \cup IF k = calls[n].key /\ after[n].admitted THEN {n} ELSE {}
  BY <1>6 DEF Admitted
<1> QED BY <1>1, <1>2, <1>3, <1>4, <1>5, <1>7

LEMMA OwnTells ==
  ASSUME NEW calls, NEW after, NEW limit, Course(calls, after, limit), NEW n \in 1..Len(calls),
         Kind(calls, after, limit, n - 1)
  PROVE  /\ Len(Own(calls, after, n)) <= limit
         /\ \E v : /\ Tells(v, Own(calls, after, n), calls,
                            Admitted(calls, after, n - 1, calls[n].key), calls[n].at)
                   /\ \A i \in 1..Len(Own(calls, after, n)) :
                        calls[n].at - Own(calls, after, n)[i] <= Span
<1> DEFINE w == Window(after[n - 1].windows, calls[n].key)
           admitted == Admitted(calls, after, n - 1, calls[n].key)
<1>1. Len(w) <= limit /\ Told(w, calls, admitted, Clock(calls, n - 1))
  BY Before DEF Kind
<1>2. admitted \in SUBSET (1..Len(calls)) /\ Clock(calls, n - 1) \in Nat /\ calls[n].at \in Nat
      /\ Clock(calls, n - 1) <= calls[n].at
  BY Before
<1>3. Own(calls, after, n) = Live(w, calls[n].at)
  BY DEF Own
<1> HIDE DEF w, admitted
<1>4. /\ Len(Live(w, calls[n].at)) <= Len(w)
      /\ \E v : /\ Tells(v, Live(w, calls[n].at), calls, admitted, calls[n].at)
                /\ \A i \in 1..Len(Live(w, calls[n].at)) : calls[n].at - Live(w, calls[n].at)[i] <= Span
  BY <1>1, <1>2, LiveTells
<1>5. Len(w) \in Nat /\ Len(Live(w, calls[n].at)) \in Nat /\ limit \in Nat
  BY <1>1, <1>4, CallIs DEF Told, Tells, Names
<1>6. Len(Live(w, calls[n].at)) <= limit
  BY <1>1, <1>4, <1>5
<1> QED BY <1>3, <1>4, <1>6 DEF admitted

LEMMA KindGoesOn ==
  ASSUME NEW calls, NEW after, NEW limit, Course(calls, after, limit), NEW n \in 1..Len(calls),
         Kind(calls, after, limit, n - 1)
  PROVE  Kind(calls, after, limit, n)
<1> DEFINE found == after[n - 1].windows
           out == after[n]
           own == Own(calls, after, n)
           key == calls[n].key
           now == calls[n].at
<1>1. out = Consume(found, calls[n], limit)
  BY DEF Course
<1>2. own = Live(Window(found, key), now)
  BY DEF Own
<1>3. /\ key \in Callers /\ now \in Nat /\ Clock(calls, n) = now
      /\ Clock(calls, n - 1) \in Nat /\ Clock(calls, n - 1) <= now
      /\ \A k : Admitted(calls, after, n - 1, k) \in SUBSET (1..n - 1)
      /\ \A k : Admitted(calls, after, n - 1, k) \in SUBSET (1..Len(calls))
      /\ \A k : Admitted(calls, after, n, k) =
                  Admitted(calls, after, n - 1, k) \cup IF k = key /\ out.admitted THEN {n} ELSE {}
  BY Before
<1>4. /\ DOMAIN found \subseteq Callers
      /\ \A k \in Callers : /\ Len(Window(found, k)) <= limit
                            /\ Told(Window(found, k), calls, Admitted(calls, after, n - 1, k), Clock(calls, n - 1))
  BY DEF Kind
<1>5. /\ DOMAIN out.windows = Kept(found, key, now)
      /\ Window(out.windows, key) = IF out.admitted THEN Append(own, now) ELSE own
      /\ \A k : k # key =>
           Window(out.windows, k) = IF k \in DOMAIN found /\ ~IdleSince(found[k], now)
                                    THEN found[k] ELSE <<>>
      /\ out.admitted = ~(Len(own) >= limit)
  BY <1>1, <1>2, ConsumeIs
<1>6. Len(own) <= limit /\ \E v : Tells(v, own, calls, Admitted(calls, after, n - 1, key), now)
  BY OwnTells
<1> HIDE DEF found, out, own, key, now
<1>7. DOMAIN out.windows \subseteq Callers
  BY <1>3, <1>4, <1>5 DEF Kept
<1>8. limit \in Nat /\ Len(<<>>) <= limit
  BY CallIs
<1>9. /\ Len(Window(out.windows, key)) <= limit
      /\ Told(Window(out.windows, key), calls, Admitted(calls, after, n, key), now)
  <2>1. PICK v : Tells(v, own, calls, Admitted(calls, after, n - 1, key), now)
    BY <1>6
  <2>2. own \in Seq(Nat) /\ Len(own) \in Nat
    BY <2>1 DEF Tells, Names
  <2>3. CASE out.admitted
    <3>0. Window(out.windows, key) = Append(own, now) /\ ~(Len(own) >= limit)
      BY <1>5, <2>3, Zenon
    <3>1. Window(out.windows, key) = Append(own, now) /\ Len(own) < limit
      BY <1>8, <2>2, <3>0
    <3>2. Len(Append(own, now)) = Len(own) + 1
      BY <1>3, <2>2
    <3>3. Told(Append(own, now), calls, Admitted(calls, after, n - 1, key) \cup {n}, now)
      BY <1>3, <2>1, AppendTells DEF now
    <3>4. Admitted(calls, after, n, key) = Admitted(calls, after, n - 1, key) \cup {n}
      BY <1>3, <2>3
    <3>5. Len(own) + 1 <= limit
      BY <1>8, <2>2, <3>1
    <3> QED BY <3>1, <3>2, <3>3, <3>4, <3>5
  <2>4. CASE ~out.admitted
    <3>1. Window(out.windows, key) = own
      BY <1>5, <2>4
    <3>2. Admitted(calls, after, n, key) = Admitted(calls, after, n - 1, key)
      BY <1>3, <2>4
    <3> QED BY <1>6, <2>1, <3>1, <3>2 DEF Told
  <2> QED BY <2>3, <2>4
<1>10. ASSUME NEW k \in Callers, k # key
       PROVE  /\ Len(Window(out.windows, k)) <= limit
              /\ Told(Window(out.windows, k), calls, Admitted(calls, after, n, k), now)
  <2>1. Admitted(calls, after, n, k) = Admitted(calls, after, n - 1, k)
    BY <1>3, <1>10
  <2>2. /\ Told(Window(found, k), calls, Admitted(calls, after, n - 1, k), now)
        /\ IdleSince(Window(found, k), now) => Told(<<>>, calls, Admitted(calls, after, n - 1, k), now)
    BY <1>3, <1>4, OthersTold
  <2>3. CASE k \in DOMAIN found /\ ~IdleSince(found[k], now)
    <3>1. Window(out.windows, k) = Window(found, k)
      BY <1>5, <1>10, <2>3 DEF Window
    <3> QED BY <1>4, <2>1, <2>2, <3>1
  <2>4. CASE ~(k \in DOMAIN found /\ ~IdleSince(found[k], now))
    <3>1. Window(out.windows, k) = <<>>
      BY <1>5, <1>10, <2>4
    <3>2. IdleSince(Window(found, k), now)
      BY <2>4 DEF Window, IdleSince
    <3> QED BY <1>8, <2>1, <2>2, <3>1, <3>2
  <2> QED BY <2>3, <2>4
<1> QED
  <2>1. \A k \in Callers : /\ Len(Window(out.windows, k)) <= limit
                           /\ Told(Window(out.windows, k), calls, Admitted(calls, after, n, k), Clock(calls, n))
    BY <1>3, <1>9, <1>10
  <2> QED BY <1>7, <2>1 DEF Kind, out

LEMMA AllKind ==
  ASSUME NEW calls, NEW after, NEW limit, Course(calls, after, limit)
  PROVE  \A n \in 0..Len(calls) : Kind(calls, after, limit, n)
<1> DEFINE S == {n \in 0..Len(calls) : Kind(calls, after, limit, n)}
<1>1. Len(calls) \in Nat
  BY CallIs
<1>2. 0 \in S
  BY <1>1, KindStarts
<1>3. ASSUME NEW i \in 0..Len(calls) - 1, i \in S PROVE i + 1 \in S
  <2>1. i + 1 \in 1..Len(calls) /\ i + 1 \in 0..Len(calls) /\ (i + 1) - 1 = i
    BY <1>1
  <2>2. Kind(calls, after, limit, i + 1)
    BY <1>3, <2>1, KindGoesOn
  <2> QED BY <2>1, <2>2
<1> HIDE DEF S
<1>4. 0..Len(calls) \subseteq S
  BY <1>1, <1>2, <1>3, Induct
<1> QED BY <1>4 DEF S

-----------------------------------------------------------------------------
LEMMA CourseIs ==
  ASSUME NEW calls \in Histories, NEW limit \in Limits
  PROVE  Course(calls, Replay(calls, limit), limit)
<1> DEFINE C == [key : Callers, at : Nat]
<1>1. /\ calls \in Seq(C) /\ limit \in Nat \ {0}
      /\ \A i, j \in DOMAIN calls : i < j => calls[i].at <= calls[j].at
  BY RateAssumption
<1>2. Len(calls) \in Nat /\ DOMAIN calls = 1..Len(calls) /\ \A i \in 1..Len(calls) : calls[i] \in C
  <2> HIDE DEF C
  <2> QED BY <1>1
<1>3. \A i, j \in 1..Len(calls) : i <= j => calls[i].at <= calls[j].at
  <2> TAKE i, j \in 1..Len(calls)
  <2> HAVE i <= j
  <2>1. calls[i].at \in Nat
    BY <1>2
  <2>2. i = j \/ i < j
    BY <1>2
  <2>3. CASE i = j
    BY <2>1, <2>3
  <2>4. CASE i < j
    <3>1. i \in DOMAIN calls /\ j \in DOMAIN calls
      BY <1>2
    <3> QED BY <1>1, <2>4, <3>1
  <2> QED BY <2>2, <2>3, <2>4
<1> QED BY <1>1, <1>2, <1>3, ReplayIs DEF Course

(* As many calls are recent as the trimmed window holds. *)
LEMMA RecentIs ==
  ASSUME NEW calls, NEW after, NEW limit, Course(calls, after, limit), NEW n \in 1..Len(calls),
         Kind(calls, after, limit, n - 1)
  PROVE  Cardinality(Recent(calls, {i \in DOMAIN calls : after[i].admitted}, n)) =
           Len(Own(calls, after, n))
<1> DEFINE own == Own(calls, after, n)
           admitted == Admitted(calls, after, n - 1, calls[n].key)
           R == Recent(calls, {i \in DOMAIN calls : after[i].admitted}, n)
<1>1. PICK v : /\ Tells(v, own, calls, admitted, calls[n].at)
               /\ \A i \in 1..Len(own) : calls[n].at - own[i] <= Span
  BY OwnTells
<1>2. /\ own \in Seq(Nat) /\ v \in Seq(Nat) /\ Len(v) = Len(own) /\ Len(own) \in Nat
      /\ \A i \in 1..Len(own) : v[i] \in admitted /\ own[i] = calls[v[i]].at
      /\ \A i, j \in 1..Len(own) : i < j => v[i] < v[j]
      /\ \A j \in admitted : calls[n].at - calls[j].at <= Span => \E i \in 1..Len(own) : v[i] = j
  BY <1>1 DEF Tells, Names
<1>3. R = {j \in admitted : calls[n].at - calls[j].at <= Span}
  <2>1. DOMAIN calls = 1..Len(calls) /\ Len(calls) \in Nat
    BY CallIs
  <2>2. \A j : j \in 1..Len(calls) /\ j < n <=> j \in 1..n - 1
    BY <2>1
  <2> QED BY <2>1, <2>2 DEF Recent, Admitted
<1> HIDE DEF own, admitted, R
<1>4. \A i \in 1..Len(own) : v[i] \in R
  BY <1>1, <1>2, <1>3
<1>5. \A j \in R : \E i \in 1..Len(own) : v[i] = j
  BY <1>2, <1>3
<1>6. \A i, j \in 1..Len(own) : v[i] = v[j] => i = j
  <2> TAKE i, j \in 1..Len(own)
  <2>1. i < j => v[i] < v[j]
    BY <1>2
  <2>2. j < i => v[j] < v[i]
    BY <1>2
  <2>3. v[i] \in Nat /\ v[j] \in Nat
    BY <1>2
  <2> QED BY <1>2, <2>1, <2>2, <2>3
<1>7. v \in [1..Len(own) -> R]
  BY <1>2, <1>4
<1>8. v \in Bijection(1..Len(own), R)
  BY <1>5, <1>6, <1>7 DEF Bijection, Injection, Surjection, IsInjective
<1>9. ExistsBijection(1..Len(own), R)
  BY <1>8 DEF ExistsBijection
<1>10. Cardinality(R) = Len(own)
  BY <1>2, <1>9, FS_CountingElements
<1> QED BY <1>10 DEF own, R

LEMMA HistoryExact ==
  ASSUME NEW calls \in Histories, NEW limit \in Limits
  PROVE  Exact(calls, limit)
<1> DEFINE after == Replay(calls, limit)
           admits == Admits(calls, limit)
<1>1. Course(calls, after, limit)
  BY CourseIs
<1>2. DOMAIN calls = 1..Len(calls) /\ Len(calls) \in Nat
  BY <1>1, CallIs
<1>3. admits = {i \in DOMAIN calls : after[i].admitted}
  BY DEF Admits
<1> HIDE DEF after
<1>4. ASSUME NEW i \in DOMAIN calls
      PROVE  i \in admits <=> Cardinality(Recent(calls, admits, i)) < limit
  <2>1. i \in 1..Len(calls) /\ i - 1 \in 0..Len(calls)
    BY <1>2
  <2>2. Kind(calls, after, limit, i - 1)
    BY <1>1, <2>1, AllKind
  <2> DEFINE own == Own(calls, after, i)
  <2>3. Cardinality(Recent(calls, admits, i)) = Len(own)
    BY <1>1, <1>3, <2>1, <2>2, RecentIs
  <2>4. after[i] = Consume(after[i - 1].windows, calls[i], limit)
    BY <1>1, <2>1 DEF Course
  <2>5. after[i].admitted = ~(Len(own) >= limit)
    BY <2>4, ConsumeIs DEF Own
  <2>6. Len(own) \in Nat /\ limit \in Nat
    <3>1. \E v : Tells(v, own, calls, Admitted(calls, after, i - 1, calls[i].key), calls[i].at)
      BY <1>1, <2>1, <2>2, OwnTells
    <3>2. own \in Seq(Nat)
      BY <3>1 DEF Tells, Names
    <3>3. limit \in Nat
      BY <1>1, CallIs
    <3> HIDE DEF own
    <3> QED BY <3>2, <3>3
  <2> HIDE DEF own
  <2>7. i \in admits <=> ~(Len(own) >= limit)
    <3>1. i \in admits <=> after[i].admitted
      BY <1>3
    <3> QED BY <2>5, <3>1, Zenon
  <2> QED BY <2>3, <2>6, <2>7
<1> HIDE DEF admits
<1>5. \A i \in DOMAIN calls : i \in admits <=> Cardinality(Recent(calls, admits, i)) < limit
  BY <1>4
<1> QED BY <1>5 DEF Exact, admits

(* The seconds a refusal tells are enough for the oldest call to leave the window. *)
LEMMA RetryEnough ==
  ASSUME NEW own, own[1] \in Nat, NEW now \in Nat, own[1] <= now, now - own[1] <= Span
  PROVE  /\ RetryAfter(own, now) \in Nat
         /\ now + 2 * RetryAfter(own, now) - own[1] > Span
<1> DEFINE x == Span - (now - own[1])
<1>1. PICK d : d = x \div 2
  OBVIOUS
<1>2. x \in Nat
  BY RateAssumption
<1>3. d \in Nat /\ 2 * d + 1 >= x
  <2> HIDE DEF x
  <2> QED BY <1>1, <1>2
<1>4. RetryAfter(own, now) = IF d + 1 < 1 THEN 1 ELSE d + 1
  BY <1>1 DEF RetryAfter
<1>5. RetryAfter(own, now) = d + 1
  BY <1>3, <1>4
<1>6. now - own[1] = Span - x /\ Span \in Nat
  BY RateAssumption
<1>7. now + 2 * (d + 1) - own[1] = Span - x + 2 * d + 2 /\ now + 2 * (d + 1) \in Nat
  <2>1. now + 2 * (d + 1) - own[1] = (now - own[1]) + 2 * d + 2
    BY <1>3
  <2> QED BY <1>3, <1>6, <2>1
<1> QED
  <2> HIDE DEF x
  <2> QED BY <1>2, <1>3, <1>5, <1>6, <1>7

LEMMA HistoryHonest ==
  ASSUME NEW calls \in Histories, NEW limit \in Limits
  PROVE  Honest(calls, limit)
<1> DEFINE after == Replay(calls, limit)
<1>1. Course(calls, after, limit)
  BY CourseIs
<1>2. DOMAIN calls = 1..Len(calls) /\ Len(calls) \in Nat /\ limit \in Nat /\ limit > 0
  BY <1>1, CallIs
<1> HIDE DEF after
<1>3. ASSUME NEW i \in DOMAIN calls, ~after[i].admitted
      PROVE  Consume(after[i].windows,
                     [key |-> calls[i].key, at |-> calls[i].at + 2 * after[i].retry], limit).admitted
  <2> DEFINE own == Own(calls, after, i)
             now == calls[i].at
             admitted == Admitted(calls, after, i - 1, calls[i].key)
  <2>1. i \in 1..Len(calls) /\ i - 1 \in 0..Len(calls) /\ i \in Nat
    BY <1>2
  <2>2. Kind(calls, after, limit, i - 1)
    BY <1>1, <2>1, AllKind
  <2>3. PICK v : /\ Tells(v, own, calls, admitted, now) /\ Len(own) <= limit
                 /\ \A j \in 1..Len(own) : now - own[j] <= Span
    BY <1>1, <2>1, <2>2, OwnTells
  <2>4. after[i] = Consume(after[i - 1].windows, calls[i], limit)
    BY <1>1, <2>1 DEF Course
  <2>5. /\ Window(after[i].windows, calls[i].key) = IF after[i].admitted THEN Append(own, now) ELSE own
        /\ after[i].admitted = ~(Len(own) >= limit)
        /\ after[i].retry = IF after[i].admitted THEN 0 ELSE RetryAfter(own, now)
    BY <2>4, ConsumeIs DEF Own
  <2>6. Window(after[i].windows, calls[i].key) = own /\ after[i].retry = RetryAfter(own, now)
    BY <1>3, <2>5
  <2>7. Len(own) >= limit
    BY <1>3, <2>5, Zenon
  <2>8. Names(v, own, calls, admitted) /\ admitted \in SUBSET (1..Len(calls)) /\ now \in Nat
        /\ admitted \in SUBSET (1..i - 1)
    BY <1>1, <2>1, <2>3, Before DEF Tells
  <2> HIDE DEF own, now, admitted
  <2>9. Rising(own) /\ own \in Seq(Nat) /\ Len(own) \in Nat
    <3>1. Rising(own)
      BY <1>1, <2>8, NamesRise
    <3>2. own \in Seq(Nat)
      BY <3>1 DEF Rising
    <3> QED BY <3>1, <3>2
  <2>10. 1 \in 1..Len(own) /\ Len(own) = limit
    BY <1>2, <2>3, <2>7, <2>9
  <2>11. own[1] \in Nat /\ own[1] <= now /\ now - own[1] <= Span
    <3>1. v[1] \in 1..i - 1 /\ own[1] = calls[v[1]].at
      BY <2>8, <2>10 DEF Names
    <3>2. v[1] \in 1..Len(calls) /\ v[1] <= i
      BY <1>2, <2>1, <3>1
    <3>3. calls[v[1]].at <= calls[i].at
      BY <1>1, <2>1, <3>2 DEF Course
    <3> QED BY <2>3, <2>9, <2>10, <3>1, <3>3 DEF now
  <2>12. RetryAfter(own, now) \in Nat /\ now + 2 * RetryAfter(own, now) - own[1] > Span
    BY <2>8, <2>11, RetryEnough
  <2>13. PICK later \in Nat : later = now + 2 * after[i].retry /\ later - own[1] > Span
    <3>1. PICK r \in Nat : r = RetryAfter(own, now)
      BY <2>12
    <3>2. after[i].retry = r /\ now + 2 * r - own[1] > Span
      BY <2>6, <2>12, <3>1
    <3>3. now \in Nat
      BY <2>8
    <3>4. PICK later \in Nat : later = now + 2 * r
      BY <3>3
    <3>5. 2 * after[i].retry = 2 * r
      BY <3>2
    <3>6. later = now + 2 * after[i].retry
      BY <3>4, <3>5
    <3>7. later - own[1] > Span
      BY <2>11, <3>2, <3>3, <3>4, RateAssumption
    <3> QED BY <3>6, <3>7
  <2>14. PICK gone \in 0..Len(own) :
           /\ Len(Live(own, later)) = Len(own) - gone
           /\ \A j \in 1..Len(own) : j <= gone <=> later - own[j] > Span
    BY <2>9, <2>13, LiveIs
  <2>15. 1 <= gone
    BY <2>10, <2>13, <2>14
  <2>16. ~(Len(Live(own, later)) >= limit)
    BY <1>2, <2>10, <2>14, <2>15
  <2> DEFINE call == [key |-> calls[i].key, at |-> later]
             out == Consume(after[i].windows, call, limit)
  <2>17. out.admitted = ~(Len(Live(Window(after[i].windows, call.key), call.at)) >= limit)
    BY ConsumeIs
  <2>18. Live(Window(after[i].windows, call.key), call.at) = Live(own, later)
    BY <2>6
  <2> HIDE DEF out
  <2>19. out.admitted
    BY <2>16, <2>17, <2>18, Zenon
  <2> QED BY <2>13, <2>19 DEF out, now
<1>4. \A i \in DOMAIN calls : ~after[i].admitted =>
        Consume(after[i].windows,
                [key |-> calls[i].key, at |-> calls[i].at + 2 * after[i].retry], limit).admitted
  BY <1>3
<1> QED BY <1>4 DEF Honest, after

LEMMA HistoryForgotten ==
  ASSUME NEW calls \in Histories, NEW limit \in Limits
  PROVE  Forgets(calls, limit)
<1> DEFINE after == Replay(calls, limit)
           admits == Admits(calls, limit)
<1>1. Course(calls, after, limit)
  BY CourseIs
<1>2. DOMAIN calls = 1..Len(calls) /\ Len(calls) \in Nat
  BY <1>1, CallIs
<1>3. admits = {i \in DOMAIN calls : after[i].admitted}
  BY DEF Admits
<1> HIDE DEF after
<1>4. ASSUME NEW i \in DOMAIN calls, NEW k \in DOMAIN after[i].windows \ {calls[i].key}
      PROVE  \E j \in admits : j < i /\ calls[j].key = k /\ calls[i].at - calls[j].at <= Span
  <2> DEFINE found == after[i - 1].windows
             now == calls[i].at
  <2>1. i \in 1..Len(calls) /\ i - 1 \in 0..Len(calls) /\ i \in Nat
    BY <1>2
  <2>2. after[i] = Consume(found, calls[i], limit)
    BY <1>1, <2>1 DEF Course
  <2>3. DOMAIN after[i].windows = Kept(found, calls[i].key, now)
    BY <2>2, ConsumeIs
  <2>4. k \in DOMAIN found /\ ~IdleSince(found[k], now)
    BY <1>4, <2>3 DEF Kept
  <2>5. Kind(calls, after, limit, i - 1)
    BY <1>1, <2>1, AllKind
  <2>6. PICK u : Names(u, found[k], calls, Admitted(calls, after, i - 1, k))
    <3>1. k \in Callers /\ Window(found, k) = found[k]
      BY <2>4, <2>5 DEF Kind, Window
    <3>2. Told(found[k], calls, Admitted(calls, after, i - 1, k), Clock(calls, i - 1))
      BY <2>5, <3>1 DEF Kind
    <3> QED BY <3>2 DEF Told, Tells
  <2>7. PICK w : w = found[k]
    OBVIOUS
  <2>8. w # <<>> /\ ~(now - w[Len(w)] > Span) /\ w \in Seq(Nat)
    BY <2>4, <2>6, <2>7 DEF IdleSince, Names
  <2>9. Len(w) \in 1..Len(w) /\ w[Len(w)] \in Nat
    BY <2>8
  <2>10. u[Len(w)] \in Admitted(calls, after, i - 1, k) /\ w[Len(w)] = calls[u[Len(w)]].at
    BY <2>6, <2>7, <2>9 DEF Names
  <2>11. PICK j \in 1..i - 1 : j = u[Len(w)] /\ calls[j].key = k /\ after[j].admitted
    BY <2>10 DEF Admitted
  <2>12. j \in DOMAIN calls /\ j < i
    BY <1>2, <2>1, <2>11
  <2>13. now - calls[j].at <= Span
    <3>1. calls[j].at \in Nat /\ now \in Nat /\ ~(now - calls[j].at > Span)
      BY <1>1, <2>1, <2>8, <2>9, <2>10, <2>11, CallIs
    <3> HIDE DEF now
    <3> QED BY <3>1, RateAssumption
  <2> QED BY <1>3, <2>11, <2>12, <2>13
<1> HIDE DEF admits
<1>5. \A i \in DOMAIN calls : \A k \in DOMAIN after[i].windows \ {calls[i].key} :
        \E j \in admits : j < i /\ calls[j].key = k /\ calls[i].at - calls[j].at <= Span
  BY <1>4
<1> QED BY <1>5 DEF Forgets, after, admits

(* For every history and every limit a call is admitted exactly when fewer than the limit *)
(* of its caller's were within the span before it, who waits as a refusal says is         *)
(* admitted, and no other caller is remembered for longer than that                       *)
(* (_consume_rate_limit).                                                                 *)
THEOREM RateHolds == Spec => []RateKept
<1>1. Misjudged = {}
  BY HistoryExact, HistoryHonest, HistoryForgotten DEF Misjudged
<1>2. RateKept
  BY <1>1 DEF RateKept
<1> QED BY <1>2, PTL

-----------------------------------------------------------------------------
(* The validator's search.  A graph takes every node of a finite set to nodes of that set. *)
IsGraph(graph, nodes) == IsFiniteSet(nodes) /\ graph \in [nodes -> SUBSET nodes]
Found(nodes) == [cyclic : BOOLEAN, visited : SUBSET nodes]
Search(nodes) == [SUBSET nodes -> [nodes -> Found(nodes)]]

(* One step of the recursion of AnyOf, and of that of Visit, on a function u. *)
Gathered(visit, visited, u, T) ==
  IF T = {} THEN [cyclic |-> FALSE, visited |-> visited]
  ELSE LET t == CHOOSE t \in T : TRUE
           before == u[T \ {t}]
       IN  IF before.cyclic THEN before ELSE visit[before.visited][t]

LEMMA SearchIn ==
  ASSUME NEW nodes, NEW visit \in Search(nodes), NEW visited \in SUBSET nodes, NEW s \in nodes
  PROVE  visit[visited][s] \in Found(nodes)
<1>1. visit \in [SUBSET nodes -> [nodes -> Found(nodes)]]
  BY DEF Search
<1> HIDE DEF Found
<1>2. visit[visited] \in [nodes -> Found(nodes)]
  BY <1>1
<1> QED BY <1>2

LEMMA GatheredIn ==
  ASSUME NEW nodes, NEW items \in SUBSET nodes, NEW visit \in Search(nodes), NEW visited \in SUBSET nodes,
         NEW u \in [SUBSET items -> Found(nodes)], NEW T \in SUBSET items
  PROVE  Gathered(visit, visited, u, T) \in Found(nodes)
<1>1. CASE T = {}
  BY <1>1 DEF Gathered, Found
<1>2. CASE T # {}
  <2> DEFINE t == CHOOSE t \in T : TRUE
  <2>1. t \in T
    BY <1>2
  <2> HIDE DEF t
  <2>2. u[T \ {t}] \in Found(nodes) /\ t \in nodes
    BY <2>1
  <2>3. u[T \ {t}].visited \in SUBSET nodes
    BY <2>2 DEF Found
  <2>4. visit[u[T \ {t}].visited][t] \in Found(nodes)
    BY <2>2, <2>3, SearchIn
  <2> QED BY <1>2, <2>2, <2>4 DEF Gathered, t
<1> QED BY <1>1, <1>2

(* The function AnyOf defines. *)
Gathers(nodes, visit, items, visited, seen) ==
  /\ seen \in [SUBSET items -> Found(nodes)]
  /\ AnyOf(visit, items, visited) = seen[items]
  /\ \A T \in SUBSET items : seen[T] = Gathered(visit, visited, seen, T)

LEMMA AnyIs ==
  ASSUME NEW nodes, NEW items \in SUBSET nodes, IsFiniteSet(items),
         NEW visit \in Search(nodes), NEW visited \in SUBSET nodes
  PROVE  \E seen : Gathers(nodes, visit, items, visited, seen)
<1> DEFINE F(u) == [T \in SUBSET items |-> Gathered(visit, visited, u, T)]
           U == [SUBSET items -> Found(nodes)]
           Upto(u, n) == \A T \in SUBSET items : Cardinality(T) <= n => u[T] = F(u)[T]
           S == {n \in Nat : \E u \in U : Upto(u, n)}
<1>1. \A u \in U : F(u) \in U
  BY GatheredIn
<1>2. \A T \in SUBSET items : IsFiniteSet(T) /\ Cardinality(T) \in Nat /\ Cardinality(T) <= Cardinality(items)
  BY FS_Subset, FS_CardinalityType
<1>3. Cardinality(items) \in Nat
  BY FS_CardinalityType
<1>4. 0 \in S
  <2> DEFINE u == F([T \in SUBSET items |-> [cyclic |-> FALSE, visited |-> visited]])
  <2>1. [T \in SUBSET items |-> [cyclic |-> FALSE, visited |-> visited]] \in U
    BY DEF Found
  <2>2. u \in U
    BY <1>1, <2>1
  <2>3. \A T \in SUBSET items : Cardinality(T) <= 0 => T = {}
    BY <1>2, FS_EmptySet
  <2>4. u[{}] = [cyclic |-> FALSE, visited |-> visited] /\ F(u)[{}] = [cyclic |-> FALSE, visited |-> visited]
    BY DEF Gathered
  <2>5. Upto(u, 0)
    <3> HIDE DEF u, F
    <3> QED BY <2>3, <2>4
  <2> HIDE DEF u, Upto, U
  <2> QED BY <2>2, <2>5
<1>5. ASSUME NEW n \in Nat, n \in S PROVE n + 1 \in S
  <2>1. PICK u \in U : Upto(u, n)
    BY <1>5
  <2> DEFINE v == F(u)
  <2>2. v \in U
    BY <1>1, <2>1
  <2>3. ASSUME NEW T \in SUBSET items, Cardinality(T) <= n + 1 PROVE v[T] = F(v)[T]
    <3>1. CASE T = {}
      BY <3>1 DEF Gathered
    <3>2. CASE T # {}
      <4> DEFINE t == CHOOSE t \in T : TRUE
      <4>1. t \in T
        BY <3>2
      <4> HIDE DEF t
      <4>2. T \ {t} \in SUBSET items /\ Cardinality(T \ {t}) = Cardinality(T) - 1
        BY <1>2, <4>1, FS_RemoveElement
      <4>3. Cardinality(T \ {t}) <= n
        BY <1>2, <2>3, <4>2
      <4>4. u[T \ {t}] = v[T \ {t}]
        BY <2>1, <4>2, <4>3
      <4>5. Gathered(visit, visited, u, T) = Gathered(visit, visited, v, T)
        <5> HIDE DEF v
        <5> QED BY <3>2, <4>4 DEF Gathered, t
      <4> QED BY <4>5
    <3> QED BY <3>1, <3>2
  <2>4. Upto(v, n + 1)
    BY <2>3
  <2> HIDE DEF v, Upto, U
  <2> QED BY <2>2, <2>4
<1>6. Cardinality(items) \in S
  <2> HIDE DEF S
  <2>1. 0..Cardinality(items) \subseteq S
    BY <1>3, <1>4, <1>5, Induct
  <2> QED BY <1>3, <2>1
<1>7. PICK u \in U : Upto(u, Cardinality(items))
  BY <1>6
<1>8. u = F(u)
  BY <1>2, <1>7
<1> DEFINE seen == CHOOSE seen : seen = F(seen)
<1>9. seen = F(seen)
  <2> HIDE DEF F
  <2> QED BY <1>8
<1>10. AnyOf(visit, items, visited) = seen[items]
  BY DEF AnyOf, Gathered
<1> HIDE DEF seen
<1>11. seen \in U
  <2> DEFINE R == {n \in Nat : \A T \in SUBSET items : Cardinality(T) <= n => seen[T] = u[T]}
  <2>1. \A T \in SUBSET items : seen[T] = Gathered(visit, visited, seen, T) /\ u[T] = Gathered(visit, visited, u, T)
    BY <1>8, <1>9
  <2>2. 0 \in R
    <3>1. \A T \in SUBSET items : Cardinality(T) <= 0 => T = {}
      BY <1>2, FS_EmptySet
    <3> QED BY <2>1, <3>1 DEF Gathered
  <2>3. ASSUME NEW n \in Nat, n \in R PROVE n + 1 \in R
    <3>1. ASSUME NEW T \in SUBSET items, Cardinality(T) <= n + 1 PROVE seen[T] = u[T]
      <4>1. CASE T = {}
        BY <2>1, <4>1 DEF Gathered
      <4>2. CASE T # {}
        <5> DEFINE t == CHOOSE t \in T : TRUE
        <5>1. t \in T
          BY <4>2
        <5> HIDE DEF t
        <5>2. T \ {t} \in SUBSET items /\ Cardinality(T \ {t}) = Cardinality(T) - 1
          BY <1>2, <5>1, FS_RemoveElement
        <5>3. Cardinality(T \ {t}) <= n
          BY <1>2, <3>1, <5>2
        <5>4. u[T \ {t}] = seen[T \ {t}]
          BY <2>3, <5>2, <5>3
        <5>5. Gathered(visit, visited, u, T) = Gathered(visit, visited, seen, T)
          BY <4>2, <5>4 DEF Gathered, t
        <5> QED BY <2>1, <5>5
      <4> QED BY <4>1, <4>2
    <3> QED BY <3>1
  <2>4. Cardinality(items) \in R
    <3> HIDE DEF R
    <3>1. 0..Cardinality(items) \subseteq R
      BY <1>3, <2>2, <2>3, Induct
    <3> QED BY <1>3, <3>1
  <2>5. \A T \in SUBSET items : seen[T] = u[T]
    BY <1>2, <2>4
  <2>6. seen = u
    <3> HIDE DEF F
    <3>1. seen = [T \in SUBSET items |-> seen[T]]
      BY <1>9 DEF F
    <3>2. u = [T \in SUBSET items |-> u[T]]
      OBVIOUS
    <3> QED BY <2>5, <3>1, <3>2
  <2> QED BY <1>7, <2>6
<1>12. Gathers(nodes, visit, items, visited, seen)
  BY <1>9, <1>10, <1>11 DEF Gathers
<1> QED BY <1>12

(* What a visit of s finds, when u is what the visits with fewer free nodes find. *)
Entry(graph, u, free, visited, s) ==
  IF OnPath(s, free, visited) THEN [cyclic |-> TRUE, visited |-> visited]
  ELSE IF s \in visited THEN [cyclic |-> FALSE, visited |-> visited]
  ELSE LET below == AnyOf(u[free \ {s}], graph[s], visited)
       IN  IF below.cyclic THEN below ELSE [below EXCEPT !.visited = @ \cup {s}]

Entries(graph, nodes, u) ==
  [free \in SUBSET nodes |-> [visited \in SUBSET nodes |-> [s \in nodes |-> Entry(graph, u, free, visited, s)]]]

LEMMA GraphAt ==
  ASSUME NEW nodes, NEW graph, IsGraph(graph, nodes), NEW s \in nodes
  PROVE  graph[s] \in SUBSET nodes /\ IsFiniteSet(graph[s]) /\ DOMAIN graph = nodes
BY FS_Subset DEF IsGraph

LEMMA AnyIn ==
  ASSUME NEW nodes, NEW items \in SUBSET nodes, IsFiniteSet(items),
         NEW visit \in Search(nodes), NEW visited \in SUBSET nodes
  PROVE  AnyOf(visit, items, visited) \in Found(nodes)
<1>1. PICK seen : Gathers(nodes, visit, items, visited, seen)
  BY AnyIs
<1> HIDE DEF Found
<1> QED BY <1>1 DEF Gathers

LEMMA EntryIn ==
  ASSUME NEW nodes, NEW graph, IsGraph(graph, nodes), NEW u \in [SUBSET nodes -> Search(nodes)],
         NEW free \in SUBSET nodes, NEW visited \in SUBSET nodes, NEW s \in nodes
  PROVE  Entry(graph, u, free, visited, s) \in Found(nodes)
<1> DEFINE below == AnyOf(u[free \ {s}], graph[s], visited)
<1>1. u[free \ {s}] \in Search(nodes)
  <2> HIDE DEF Search
  <2> QED OBVIOUS
<1>2. below \in Found(nodes)
  BY <1>1, GraphAt, AnyIn
<1> HIDE DEF below
<1>3. [below EXCEPT !.visited = @ \cup {s}] \in Found(nodes)
  BY <1>2 DEF Found
<1>4. [cyclic |-> TRUE, visited |-> visited] \in Found(nodes) /\ [cyclic |-> FALSE, visited |-> visited] \in Found(nodes)
  BY DEF Found
<1>5. Entry(graph, u, free, visited, s) \in
        {[cyclic |-> TRUE, visited |-> visited], [cyclic |-> FALSE, visited |-> visited], below,
         [below EXCEPT !.visited = @ \cup {s}]}
  BY DEF Entry, below
<1> HIDE DEF Found
<1> QED BY <1>2, <1>3, <1>4, <1>5

(* Only the visits with one node less are used. *)
Alike(u, v, free) == \A s \in free : u[free \ {s}] = v[free \ {s}]

LEMMA EntryLocal ==
  ASSUME NEW nodes, NEW graph, NEW u, NEW v, NEW free \in SUBSET nodes, NEW visited, NEW s \in nodes,
         Alike(u, v, free)
  PROVE  Entry(graph, u, free, visited, s) = Entry(graph, v, free, visited, s)
BY DEF Entry, OnPath, Alike

LEMMA EntriesLocal ==
  ASSUME NEW nodes, NEW graph, NEW u, NEW v, NEW free \in SUBSET nodes, Alike(u, v, free)
  PROVE  Entries(graph, nodes, u)[free] = Entries(graph, nodes, v)[free]
<1>1. \A s \in nodes : \A visited \in SUBSET nodes :
        Entry(graph, u, free, visited, s) = Entry(graph, v, free, visited, s)
  <2> TAKE s \in nodes
  <2> TAKE visited \in SUBSET nodes
  <2> QED BY EntryLocal
<1>2. [visited \in SUBSET nodes |-> [s \in nodes |-> Entry(graph, u, free, visited, s)]]
        = [visited \in SUBSET nodes |-> [s \in nodes |-> Entry(graph, v, free, visited, s)]]
  <2>1. ASSUME NEW visited \in SUBSET nodes
        PROVE  [s \in nodes |-> Entry(graph, u, free, visited, s)] = [s \in nodes |-> Entry(graph, v, free, visited, s)]
    BY <1>1
  <2> QED BY <2>1
<1> QED BY <1>2 DEF Entries

LEMMA EntriesIn ==
  ASSUME NEW nodes, NEW graph, IsGraph(graph, nodes), NEW u \in [SUBSET nodes -> Search(nodes)]
  PROVE  Entries(graph, nodes, u) \in [SUBSET nodes -> Search(nodes)]
<1>1. \A free \in SUBSET nodes, visited \in SUBSET nodes, s \in nodes :
        Entry(graph, u, free, visited, s) \in Found(nodes)
  BY EntryIn
<1> HIDE DEF Found
<1>2. ASSUME NEW free \in SUBSET nodes
      PROVE  [visited \in SUBSET nodes |-> [s \in nodes |-> Entry(graph, u, free, visited, s)]] \in Search(nodes)
  <2>1. ASSUME NEW visited \in SUBSET nodes
        PROVE  [s \in nodes |-> Entry(graph, u, free, visited, s)] \in [nodes -> Found(nodes)]
    BY <1>1
  <2> QED BY <2>1 DEF Search
<1> HIDE DEF Search
<1> QED BY <1>2 DEF Entries

(* The function Visit defines. *)
Visits(graph, nodes) ==
  /\ Visit(graph) \in [SUBSET nodes -> Search(nodes)]
  /\ \A free \in SUBSET nodes, visited \in SUBSET nodes, s \in nodes :
       Visit(graph)[free][visited][s] = Entry(graph, Visit(graph), free, visited, s)

LEMMA VisitIs ==
  ASSUME NEW nodes, NEW graph, IsGraph(graph, nodes)
  PROVE  Visits(graph, nodes)
<1> DEFINE F(u) == Entries(graph, nodes, u)
           U == [SUBSET nodes -> Search(nodes)]
           Upto(u, n) == \A T \in SUBSET nodes : Cardinality(T) <= n => u[T] = F(u)[T]
           S == {n \in Nat : \E u \in U : Upto(u, n)}
           start == [free \in SUBSET nodes |-> [visited \in SUBSET nodes |-> [s \in nodes |->
                       [cyclic |-> TRUE, visited |-> visited]]]]
<1>1. \A u \in U : F(u) \in U
  BY EntriesIn
<1>2. /\ IsFiniteSet(nodes) /\ Cardinality(nodes) \in Nat
      /\ \A T \in SUBSET nodes : IsFiniteSet(T) /\ Cardinality(T) \in Nat /\ Cardinality(T) <= Cardinality(nodes)
  BY FS_Subset, FS_CardinalityType DEF IsGraph
<1>3. \A u, v : F(u)[{}] = F(v)[{}]
  <2> TAKE u, v
  <2>1. Alike(u, v, {}) /\ {} \in SUBSET nodes
    BY DEF Alike
  <2> QED BY <2>1, EntriesLocal
<1>4. ASSUME NEW T \in SUBSET nodes, NEW s \in T
      PROVE  T \ {s} \in SUBSET nodes /\ Cardinality(T \ {s}) = Cardinality(T) - 1
  BY <1>2, FS_RemoveElement
<1>5. start \in U
  <2>1. ASSUME NEW visited \in SUBSET nodes
        PROVE  [s \in nodes |-> [cyclic |-> TRUE, visited |-> visited]] \in [nodes -> Found(nodes)]
    BY DEF Found
  <2> HIDE DEF Found
  <2>2. [visited \in SUBSET nodes |-> [s \in nodes |-> [cyclic |-> TRUE, visited |-> visited]]] \in Search(nodes)
    BY <2>1 DEF Search
  <2> HIDE DEF Search
  <2> QED BY <2>2
<1>6. 0 \in S
  <2>1. F(start) \in U
    BY <1>1, <1>5
  <2>2. \A T \in SUBSET nodes : Cardinality(T) <= 0 => T = {}
    BY <1>2, FS_EmptySet
  <2>3. Upto(F(start), 0)
    <3>1. F(start)[{}] = F(F(start))[{}]
      BY <1>3
    <3> HIDE DEF F
    <3> QED BY <2>2, <3>1
  <2> HIDE DEF Upto, U, F, start
  <2> QED BY <2>1, <2>3
<1>7. ASSUME NEW n \in Nat, n \in S PROVE n + 1 \in S
  <2>1. PICK u \in U : Upto(u, n)
    BY <1>7
  <2> DEFINE v == F(u)
  <2>2. v \in U
    BY <1>1, <2>1
  <2>3. ASSUME NEW T \in SUBSET nodes, Cardinality(T) <= n + 1 PROVE v[T] = F(v)[T]
    <3>1. ASSUME NEW s \in T PROVE u[T \ {s}] = v[T \ {s}]
      <4>1. Cardinality(T \ {s}) <= n /\ T \ {s} \in SUBSET nodes
        BY <1>2, <1>4, <2>3
      <4> HIDE DEF F
      <4> QED BY <2>1, <4>1
    <3>2. Entries(graph, nodes, u)[T] = Entries(graph, nodes, v)[T]
      <4> HIDE DEF v
      <4>1. Alike(u, v, T)
        BY <3>1 DEF Alike
      <4> QED BY <4>1, EntriesLocal
    <3> QED BY <3>2
  <2>4. Upto(v, n + 1)
    BY <2>3
  <2> HIDE DEF v, Upto, U
  <2> QED BY <2>2, <2>4
<1>8. Cardinality(nodes) \in S
  <2> HIDE DEF S
  <2>1. 0..Cardinality(nodes) \subseteq S
    BY <1>2, <1>6, <1>7, Induct
  <2> QED BY <1>2, <2>1
<1>9. PICK u \in U : Upto(u, Cardinality(nodes))
  BY <1>8
<1>10. u = F(u)
  <2>1. \A T \in SUBSET nodes : u[T] = F(u)[T]
    BY <1>2, <1>9
  <2>2. F(u) \in U
    BY <1>1
  <2> HIDE DEF F, Search
  <2> QED BY <2>1, <2>2
<1> DEFINE w == Visit(graph)
<1>11. w = F(w)
  <2>1. w = CHOOSE visit : visit = F(visit)
    <3>1. DOMAIN graph = nodes
      BY DEF IsGraph
    <3> QED BY <3>1 DEF Visit, Entries, Entry
  <2> HIDE DEF w, F
  <2> QED BY <1>10, <2>1
<1> HIDE DEF w
<1>12. w = u
  <2> DEFINE R == {n \in Nat : \A T \in SUBSET nodes : Cardinality(T) <= n => w[T] = u[T]}
  <2> HIDE DEF F
  <2>1. \A T \in SUBSET nodes : w[T] = F(w)[T] /\ u[T] = F(u)[T]
    BY <1>10, <1>11
  <2>2. 0 \in R
    <3>1. \A T \in SUBSET nodes : Cardinality(T) <= 0 => T = {}
      BY <1>2, FS_EmptySet
    <3>2. w[{}] = u[{}]
      BY <1>3, <2>1
    <3> QED BY <3>1, <3>2
  <2>3. ASSUME NEW n \in Nat, n \in R PROVE n + 1 \in R
    <3>1. ASSUME NEW T \in SUBSET nodes, Cardinality(T) <= n + 1 PROVE w[T] = u[T]
      <4>1. ASSUME NEW s \in T PROVE w[T \ {s}] = u[T \ {s}]
        <5>1. Cardinality(T \ {s}) <= n /\ T \ {s} \in SUBSET nodes
          BY <1>2, <1>4, <3>1
        <5> QED BY <2>3, <5>1
      <4>2. F(w)[T] = F(u)[T]
        <5>1. Alike(w, u, T)
          BY <4>1 DEF Alike
        <5> QED BY <5>1, EntriesLocal DEF F
      <4> QED BY <2>1, <4>2
    <3> QED BY <3>1
  <2>4. Cardinality(nodes) \in R
    <3> HIDE DEF R
    <3>1. 0..Cardinality(nodes) \subseteq R
      BY <1>2, <2>2, <2>3, Induct
    <3> QED BY <1>2, <3>1
  <2>5. \A T \in SUBSET nodes : w[T] = u[T]
    BY <1>2, <2>4
  <2>6. w = [T \in SUBSET nodes |-> w[T]]
    BY <1>11 DEF F, Entries
  <2>7. u = [T \in SUBSET nodes |-> u[T]]
    BY <1>9
  <2> QED BY <2>5, <2>6, <2>7
<1>13. \A free \in SUBSET nodes, visited \in SUBSET nodes, s \in nodes :
         w[free][visited][s] = Entry(graph, w, free, visited, s)
  BY <1>11 DEF Entries
<1> QED BY <1>9, <1>12, <1>13 DEF w, Visits

-----------------------------------------------------------------------------
(* A trap: steps each of which leads to another of them. *)
Trap(graph, nodes, T) == T # {} /\ T \subseteq nodes /\ \A t \in T : graph[t] \cap T # {}
Traps(graph, nodes) == \E T \in SUBSET nodes : Trap(graph, nodes, T)

(* What has been visited: closed under the edges, and with a way out of every part of it. *)
Settled(graph, V) ==
  /\ \A t \in V : graph[t] \subseteq V
  /\ \A T \in SUBSET V : T # {} => \E t \in T : graph[t] \cap T = {}

(* Each node on the path leads on to the path or to the node that is visited now. *)
Leads(graph, path, s) == \A p \in path : graph[p] \cap (path \cup {s}) # {}

(* What a search gives that started with "before" visited and met "goals". *)
Answer(graph, nodes, free, before, goals, out) ==
  /\ out.visited \in SUBSET nodes
  /\ out.cyclic => Traps(graph, nodes)
  /\ ~out.cyclic => /\ Settled(graph, out.visited)
                    /\ before \cup goals \subseteq out.visited
                    /\ out.visited \subseteq free

LEMMA SettledMore ==
  ASSUME NEW graph, NEW V, Settled(graph, V), NEW s, s \notin V, graph[s] \subseteq V
  PROVE  Settled(graph, V \cup {s})
<1>1. \A t \in V \cup {s} : graph[t] \subseteq V \cup {s}
  BY DEF Settled
<1>2. ASSUME NEW T \in SUBSET (V \cup {s}), T # {} PROVE \E t \in T : graph[t] \cap T = {}
  <2>1. CASE T \cap V = {}
    <3>1. T = {s}
      BY <1>2, <2>1
    <3> QED BY <3>1
  <2>2. CASE T \cap V # {}
    <3>1. PICK t \in T \cap V : graph[t] \cap (T \cap V) = {}
      BY <2>2 DEF Settled
    <3>2. graph[t] \subseteq V
      BY <3>1 DEF Settled
    <3> QED BY <3>1, <3>2
  <2> QED BY <2>1, <2>2
<1> QED BY <1>1, <1>2 DEF Settled

(* A visit answers for the node it visits. *)
AnswersFor(graph, nodes, free, visit) ==
  \A before \in SUBSET free, s \in nodes :
    Settled(graph, before) /\ Leads(graph, nodes \ free, s)
      => Answer(graph, nodes, free, before, {s}, visit[before][s])

LEMMA AnyAnswers ==
  ASSUME NEW nodes, NEW graph, IsGraph(graph, nodes), NEW free \in SUBSET nodes,
         NEW visit \in Search(nodes), AnswersFor(graph, nodes, free, visit),
         NEW items \in SUBSET nodes, \A t \in items : Leads(graph, nodes \ free, t),
         NEW before \in SUBSET free, Settled(graph, before)
  PROVE  Answer(graph, nodes, free, before, items, AnyOf(visit, items, before))
<1>1. IsFiniteSet(items) /\ before \in SUBSET nodes
  BY FS_Subset DEF IsGraph
<1>2. PICK seen : Gathers(nodes, visit, items, before, seen)
  BY <1>1, AnyIs
<1> DEFINE Good(T) == Answer(graph, nodes, free, before, T, seen[T])
           S == {n \in Nat : \A T \in SUBSET items : Cardinality(T) <= n => Good(T)}
<1>3. /\ Cardinality(items) \in Nat
      /\ \A T \in SUBSET items : IsFiniteSet(T) /\ Cardinality(T) \in Nat /\ Cardinality(T) <= Cardinality(items)
  BY <1>1, FS_Subset, FS_CardinalityType
<1>4. Good({})
  <2>1. seen[{}] = [cyclic |-> FALSE, visited |-> before]
    BY <1>2 DEF Gathered, Gathers
  <2> QED BY <1>1, <2>1 DEF Answer
<1>5. ASSUME NEW T \in SUBSET items, NEW t \in T, t = CHOOSE u \in T : TRUE, Good(T \ {t}) PROVE Good(T)
  <2> DEFINE x == seen[T \ {t}]
  <2>1. seen[T] = IF x.cyclic THEN x ELSE visit[x.visited][t]
    BY <1>2, <1>5 DEF Gathered, Gathers
  <2>2. Answer(graph, nodes, free, before, T \ {t}, x)
    BY <1>5
  <2> HIDE DEF x
  <2>3. CASE x.cyclic
    BY <2>1, <2>2, <2>3 DEF Answer
  <2>4. CASE ~x.cyclic
    <3>1. x.visited \in SUBSET free /\ Settled(graph, x.visited) /\ before \cup (T \ {t}) \subseteq x.visited
      BY <2>2, <2>4 DEF Answer
    <3>2. Answer(graph, nodes, free, x.visited, {t}, visit[x.visited][t])
      BY <3>1 DEF AnswersFor
    <3>3. seen[T] = visit[x.visited][t]
      BY <2>1, <2>4
    <3> QED BY <3>1, <3>2, <3>3 DEF Answer
  <2> QED BY <2>3, <2>4
<1> HIDE DEF Good
<1>6. 0 \in S
  <2>1. \A T \in SUBSET items : Cardinality(T) <= 0 => T = {}
    BY <1>3, FS_EmptySet
  <2> QED BY <1>4, <2>1
<1>7. ASSUME NEW n \in Nat, n \in S PROVE n + 1 \in S
  <2>1. ASSUME NEW T \in SUBSET items, Cardinality(T) <= n + 1 PROVE Good(T)
    <3>1. CASE T = {}
      BY <1>4, <3>1
    <3>2. CASE T # {}
      <4>1. PICK t \in T : t = CHOOSE u \in T : TRUE
        BY <3>2
      <4>2. T \ {t} \in SUBSET items /\ Cardinality(T \ {t}) = Cardinality(T) - 1
        BY <1>3, <4>1, FS_RemoveElement
      <4>3. Good(T \ {t})
        BY <1>3, <1>7, <2>1, <4>2
      <4> QED BY <1>5, <4>1, <4>3
    <3> QED BY <3>1, <3>2
  <2> QED BY <2>1
<1>8. Cardinality(items) \in S
  <2> HIDE DEF S
  <2>1. 0..Cardinality(items) \subseteq S
    BY <1>3, <1>6, <1>7, Induct
  <2> QED BY <1>3, <2>1
<1>9. Good(items)
  BY <1>3, <1>8
<1> QED BY <1>2, <1>9 DEF Good, Gathers

LEMMA VisitAnswers ==
  ASSUME NEW nodes, NEW graph, IsGraph(graph, nodes), NEW free \in SUBSET nodes,
         \A s \in free : AnswersFor(graph, nodes, free \ {s}, Visit(graph)[free \ {s}])
  PROVE  AnswersFor(graph, nodes, free, Visit(graph)[free])
<1> DEFINE path == nodes \ free
<1> SUFFICES ASSUME NEW before \in SUBSET free, NEW s \in nodes, Settled(graph, before), Leads(graph, path, s)
             PROVE  Answer(graph, nodes, free, before, {s}, Visit(graph)[free][before][s])
  BY DEF AnswersFor
<1> DEFINE out == Visit(graph)[free][before][s]
<1>1. before \in SUBSET nodes
  OBVIOUS
<1>2. Visits(graph, nodes)
  BY VisitIs
<1>3. out = Entry(graph, Visit(graph), free, before, s)
  BY <1>1, <1>2 DEF Visits
<1> HIDE DEF out
<1>4. CASE s \notin free
  <2>1. out.cyclic = TRUE /\ out.visited = before
    BY <1>3, <1>4 DEF Entry, OnPath
  <2>2. Trap(graph, nodes, path)
    BY <1>4 DEF Trap, Leads
  <2> QED BY <1>1, <2>1, <2>2 DEF Answer, Traps, out
<1>5. CASE s \in free /\ s \in before
  <2>1. out.cyclic = FALSE /\ out.visited = before
    BY <1>3, <1>5 DEF Entry, OnPath
  <2> QED BY <1>1, <1>5, <2>1 DEF Answer, out
<1>6. CASE s \in free /\ s \notin before
  <2> DEFINE below == AnyOf(Visit(graph)[free \ {s}], graph[s], before)
  <2>1. out = IF below.cyclic THEN below ELSE [below EXCEPT !.visited = @ \cup {s}]
    BY <1>3, <1>6 DEF Entry, OnPath
  <2>2. /\ Visit(graph)[free \ {s}] \in Search(nodes)
        /\ graph[s] \in SUBSET nodes /\ IsFiniteSet(graph[s])
    <3> HIDE DEF Search
    <3>1. Visit(graph)[free \ {s}] \in Search(nodes)
      BY <1>2 DEF Visits
    <3> QED BY <3>1, GraphAt
  <2>3. \A t \in graph[s] : Leads(graph, nodes \ (free \ {s}), t)
    BY <1>6 DEF Leads
  <2>4. AnswersFor(graph, nodes, free \ {s}, Visit(graph)[free \ {s}])
    BY <1>6
  <2>5. before \in SUBSET (free \ {s}) /\ free \ {s} \in SUBSET nodes
    BY <1>6
  <2>6. below \in Found(nodes)
    BY <1>1, <2>2, AnyIn
  <2>7. Answer(graph, nodes, free \ {s}, before, graph[s], below)
    BY <2>2, <2>3, <2>4, <2>5, AnyAnswers
  <2> HIDE DEF below
  <2>8. CASE below.cyclic
    BY <2>1, <2>7, <2>8 DEF Answer, out
  <2>9. CASE ~below.cyclic
    <3>1. out.visited = below.visited \cup {s} /\ out.cyclic = FALSE
      BY <2>1, <2>6, <2>9 DEF Found
    <3>2. /\ Settled(graph, below.visited) /\ before \cup graph[s] \subseteq below.visited
          /\ below.visited \subseteq free \ {s}
      BY <2>7, <2>9 DEF Answer
    <3>3. Settled(graph, below.visited \cup {s})
      BY <3>2, SettledMore
    <3> QED BY <1>6, <3>1, <3>2, <3>3 DEF Answer, out
  <2> QED BY <2>8, <2>9
<1> QED BY <1>4, <1>5, <1>6

LEMMA VisitsAnswer ==
  ASSUME NEW nodes, NEW graph, IsGraph(graph, nodes)
  PROVE  AnswersFor(graph, nodes, nodes, Visit(graph)[nodes])
<1> DEFINE Good(free) == AnswersFor(graph, nodes, free, Visit(graph)[free])
           S == {n \in Nat : \A free \in SUBSET nodes : Cardinality(free) <= n => Good(free)}
<1>1. /\ IsFiniteSet(nodes) /\ Cardinality(nodes) \in Nat
      /\ \A T \in SUBSET nodes : IsFiniteSet(T) /\ Cardinality(T) \in Nat /\ Cardinality(T) <= Cardinality(nodes)
  BY FS_Subset, FS_CardinalityType DEF IsGraph
<1>2. \A free \in SUBSET nodes : (\A s \in free : Good(free \ {s})) => Good(free)
  BY VisitAnswers
<1> HIDE DEF Good
<1>3. 0 \in S
  <2>1. \A T \in SUBSET nodes : Cardinality(T) <= 0 => T = {}
    BY <1>1, FS_EmptySet
  <2> QED BY <1>2, <2>1
<1>4. ASSUME NEW n \in Nat, n \in S PROVE n + 1 \in S
  <2>1. ASSUME NEW free \in SUBSET nodes, Cardinality(free) <= n + 1 PROVE Good(free)
    <3>1. ASSUME NEW s \in free PROVE Good(free \ {s})
      <4>1. free \ {s} \in SUBSET nodes /\ Cardinality(free \ {s}) = Cardinality(free) - 1
        BY <1>1, FS_RemoveElement
      <4> QED BY <1>1, <1>4, <2>1, <4>1
    <3> QED BY <1>2, <3>1
  <2> QED BY <2>1
<1>5. Cardinality(nodes) \in S
  <2> HIDE DEF S
  <2>1. 0..Cardinality(nodes) \subseteq S
    BY <1>1, <1>3, <1>4, Induct
  <2> QED BY <1>1, <2>1
<1>6. Good(nodes)
  BY <1>1, <1>5
<1> QED BY <1>6 DEF Good

(* The search finds a cycle exactly when there is a trap. *)
LEMMA SearchIsExact ==
  ASSUME NEW nodes, NEW graph, IsGraph(graph, nodes)
  PROVE  AnyOf(Visit(graph)[nodes], nodes, {}).cyclic <=> Traps(graph, nodes)
<1> DEFINE out == AnyOf(Visit(graph)[nodes], nodes, {})
<1>1. Visit(graph)[nodes] \in Search(nodes)
  <2> HIDE DEF Search
  <2>1. Visits(graph, nodes)
    BY VisitIs
  <2> QED BY <2>1 DEF Visits
<1>2. AnswersFor(graph, nodes, nodes, Visit(graph)[nodes])
  BY VisitsAnswer
<1>3. Settled(graph, {}) /\ \A t \in nodes : Leads(graph, nodes \ nodes, t)
  BY DEF Settled, Leads
<1>4. Answer(graph, nodes, nodes, {}, nodes, out)
  BY <1>1, <1>2, <1>3, AnyAnswers
<1>5. out \in Found(nodes)
  BY <1>1, AnyIn DEF IsGraph
<1> HIDE DEF out
<1>6. ASSUME ~out.cyclic PROVE ~Traps(graph, nodes)
  <2>1. Settled(graph, out.visited) /\ out.visited = nodes
    BY <1>4, <1>6 DEF Answer
  <2>2. Settled(graph, nodes)
    BY <2>1
  <2> QED BY <2>2 DEF Settled, Traps, Trap
<1>7. out.cyclic \in BOOLEAN
  BY <1>5 DEF Found
<1> QED BY <1>4, <1>6, <1>7 DEF Answer, out

-----------------------------------------------------------------------------
(* Definitions.  What the model's steps are, as far as these lemmas need it. *)
Rule == [default : BOOLEAN, goto : Reference]
Typed(steps) == IsFiniteSet(steps) /\ \A s \in steps : s.order \in Nat /\ s.rules \in Seq(Rule)

(* Validator and executor look a clear route up alike. *)
LEMMA TableIs ==
  ASSUME NEW steps, NEW r, r.text \in References(steps), Clear(steps, r)
  PROVE  Table(steps)[r.text] = Resolve(steps, r)
<1> PICK ref : ref = r.text
  OBVIOUS
<1>1. ref # "" /\ ref \in References(steps)
  BY DEF References
<1>5. /\ {s \in steps : ~r.int /\ s.id = ref} = {s \in steps : s.id = ref}
      /\ {s \in steps : ~r.int /\ s.name = ref} = {s \in steps : s.name = ref}
  BY DEF Clear
<1>6. Resolve(steps, r)
        = Earliest(IF {s \in steps : s.id = ref} # {} THEN {s \in steps : s.id = ref}
                   ELSE IF {s \in steps : s.name = ref} # {} THEN {s \in steps : s.name = ref}
                   ELSE {s \in steps : Text(s.order) = ref})
  BY <1>5 DEF Resolve
<1>2. CASE {s \in steps : s.id = ref} # {}
  <2>1. ref \in DOMAIN ById(steps) /\ ById(steps)[ref] = Earliest({s \in steps : s.id = ref})
    BY <1>1, <1>2 DEF ById
  <2> HIDE DEF ById
  <2>2. Table(steps)[ref] = ById(steps)[ref]
    BY <2>1 DEF Table, Overlay
  <2> QED BY <1>2, <1>6, <2>1, <2>2
<1>3. CASE {s \in steps : s.id = ref} = {} /\ {s \in steps : s.name = ref} # {}
  <2>1. ref \notin DOMAIN ById(steps)
    BY <1>3 DEF ById
  <2>2. ref \in DOMAIN ByName(steps) /\ ByName(steps)[ref] = Earliest({s \in steps : s.name = ref})
    BY <1>3 DEF ByName
  <2>3. Table(steps)[ref] = ByName(steps)[ref]
    BY <2>1, <2>2 DEF Table, Overlay
  <2> QED BY <1>3, <1>6, <2>2, <2>3
<1>4. CASE {s \in steps : s.id = ref} = {} /\ {s \in steps : s.name = ref} = {}
  <2>1. ref \notin DOMAIN ById(steps)
    BY <1>4 DEF ById
  <2>2. ref \notin DOMAIN ByName(steps)
    BY <1>4 DEF ByName
  <2>3. ref \in {Text(s.order) : s \in steps}
    BY <1>1, <1>4 DEF References
  <2>4. ref \in DOMAIN ByOrder(steps) /\ ByOrder(steps)[ref] = Earliest({s \in steps : Text(s.order) = ref})
    BY <2>3 DEF ByOrder
  <2>5. Table(steps)[ref] = ByOrder(steps)[ref]
    BY <2>1, <2>2, <2>4 DEF Table, Overlay
  <2> QED BY <1>4, <1>6, <2>4, <2>5
<1> QED BY <1>2, <1>3, <1>4

LEMMA EarliestIn ==
  ASSUME NEW S
  PROVE  Earliest(S) \subseteq S
BY DEF Earliest

LEMMA EarliestSome ==
  ASSUME NEW S, S # {}, \A s \in S : s.order \in Nat
  PROVE  Earliest(S) # {}
<1> DEFINE O == {s.order : s \in S}
<1>1. O \in SUBSET Nat /\ O # {}
  OBVIOUS
<1>2. PICK n \in O : \A m \in O : n <= m
  <2> HIDE DEF O
  <2> QED BY <1>1, Least
<1>3. PICK s \in S : s.order = n
  BY <1>2
<1> QED BY <1>2, <1>3 DEF Earliest

LEMMA ResolveIn ==
  ASSUME NEW steps, NEW ref
  PROVE  Resolve(steps, ref) \subseteq steps
BY DEF Resolve, Earliest

(* What is clearly referred to is found. *)
LEMMA ResolveSome ==
  ASSUME NEW steps, Typed(steps), NEW ref, ref.text \in References(steps), Clear(steps, ref)
  PROVE  Resolve(steps, ref) # {}
<1> DEFINE byId == {s \in steps : ~ref.int /\ s.id = ref.text}
           byName == {s \in steps : ~ref.int /\ s.name = ref.text}
           byOrder == {s \in steps : Text(s.order) = ref.text}
           S == IF byId # {} THEN byId ELSE IF byName # {} THEN byName ELSE byOrder
<1>1. S # {}
  BY DEF References, Clear
<1>2. \A s \in S : s.order \in Nat
  BY DEF Typed
<1>3. Resolve(steps, ref) = Earliest(S)
  BY DEF Resolve
<1> HIDE DEF S
<1> QED BY <1>1, <1>2, <1>3, EarliestSome

LEMMA OnwardIn ==
  ASSUME NEW steps, NEW s
  PROVE  Onward(steps, s) \subseteq steps
<1>1. Successor(steps, s) \subseteq steps
  BY DEF Successor, Earliest
<1>2. \A ref : Resolve(steps, ref) \subseteq steps
  BY ResolveIn
<1> HIDE DEF Resolve
<1> QED BY <1>1, <1>2 DEF Onward

(* Every rule may fire: none stands after a default one. *)
LEMMA AllMayFire ==
  ASSUME NEW steps, Typed(steps), NEW s \in steps, Routed(steps, s)
  PROVE  MayFire(s) = DOMAIN s.rules
<1>1. s.rules \in Seq(Rule)
  BY DEF Typed
<1>2. Len(s.rules) \in Nat /\ DOMAIN s.rules = 1..Len(s.rules)
  BY <1>1
<1>3. \A i \in DOMAIN s.rules : s.rules[i].default => i = Len(s.rules)
  BY DEF Routed
<1>4. \A i \in 1..Len(s.rules) : \A j \in 1..i - 1 : j \in 1..Len(s.rules) /\ j # Len(s.rules)
  BY <1>2
<1>5. \A i \in 1..Len(s.rules) : \A j \in 1..i - 1 : ~s.rules[j].default
  BY <1>2, <1>3, <1>4
<1> QED BY <1>2, <1>5 DEF MayFire

LEMMA RoutesRefer ==
  ASSUME NEW steps, NEW s \in steps, Routed(steps, s)
  PROVE  \A ref \in Routes(s) : ref.text \in References(steps)
<1> SUFFICES ASSUME NEW ref \in Routes(s) PROVE ref.text \in References(steps)
  OBVIOUS
<1>1. \/ \E i \in MayFire(s) : ref = s.rules[i].goto
      \/ s.fallback # "" /\ ref = Named(s.fallback)
  BY DEF Routes
<1>2. CASE \E i \in MayFire(s) : ref = s.rules[i].goto
  BY <1>2 DEF MayFire, Routed
<1>3. CASE s.fallback # "" /\ ref = Named(s.fallback)
  <2>1. ref.text = s.fallback
    BY <1>3 DEF Named
  <2> QED BY <1>3, <2>1 DEF Routed
<1> QED BY <1>1, <1>2, <1>3

LEMMA GoesOnIs ==
  ASSUME NEW s
  PROVE  GoesOn(s) <=> RunsAtOnce(s) /\ ~EndsTurn(s)
BY DEF GoesOn, RunsAtOnce, EndsTurn

(* The edges of the check are the ways the executor may go. *)
LEMMA EdgesAreOnward ==
  ASSUME NEW steps, Typed(steps), WellRouted(steps), AllClear(steps), NEW s \in Automatic(steps)
  PROVE  Edges(steps, s) = Onward(steps, s)
<1>1. s \in steps /\ GoesOn(s) /\ Shaped(s) /\ Routed(steps, s)
  BY DEF Automatic, WellRouted
<1>2. MayFire(s) = DOMAIN s.rules
  BY <1>1, AllMayFire
<1>3. s.type # "complete" /\ (s.fallback # "" => s.type \in {"decision", "tool_call", "validate"})
  BY <1>1 DEF GoesOn, Shaped
<1> DEFINE Gotos == {s.rules[i].goto : i \in DOMAIN s.rules}
           More == IF HasDefault(s) THEN {} ELSE Successor(steps, s)
           Fails == Named(s.fallback)
<1>4. /\ \A ref \in Gotos : ref.text \in References(steps) /\ Clear(steps, ref)
      /\ s.fallback \in References(steps) \cup {""} /\ "" \notin References(steps)
  BY <1>1 DEF Routed, References, AllClear
<1>5. Routes(s) = Gotos \cup (IF s.fallback = "" THEN {} ELSE {Fails})
  BY <1>2, <1>3 DEF Routes
<1>6. Onward(steps, s) = (UNION {Resolve(steps, ref) : ref \in Routes(s)}) \cup More
  BY <1>2, <1>3 DEF Onward, HasDefault
<1>7. Edges(steps, s) = (UNION {Table(steps)[ref.text] : ref \in Gotos}) \cup More
                          \cup (IF s.fallback = "" THEN {} ELSE Table(steps)[s.fallback])
  <2>1. {Table(steps)[s.rules[i].goto.text] : i \in DOMAIN s.rules} = {Table(steps)[ref.text] : ref \in Gotos}
    OBVIOUS
  <2> QED BY <2>1, Zenon DEF Edges
<1>8. \A ref \in Gotos : Table(steps)[ref.text] = Resolve(steps, ref)
  <2> HIDE DEF Gotos
  <2> QED BY <1>4, TableIs
<1> HIDE DEF More, Gotos
<1>9. UNION {Table(steps)[ref.text] : ref \in Gotos} = UNION {Resolve(steps, ref) : ref \in Gotos}
  BY <1>4, <1>8
<1>10. CASE s.fallback = ""
  BY <1>5, <1>6, <1>7, <1>9, <1>10
<1>11. CASE s.fallback # ""
  <2>1. Table(steps)[s.fallback] = Resolve(steps, Fails)
    <3>1. Fails.text = s.fallback /\ ~Fails.int
      BY DEF Named
    <3> HIDE DEF Fails
    <3>2. Fails.text \in References(steps) /\ Clear(steps, Fails)
      BY <1>4, <1>11, <3>1 DEF Clear
    <3> QED BY <3>1, <3>2, TableIs
  <2>2. UNION {Resolve(steps, ref) : ref \in Routes(s)}
          = (UNION {Resolve(steps, ref) : ref \in Gotos}) \cup Resolve(steps, Fails)
    BY <1>5, <1>11
  <2> QED BY <1>6, <1>7, <1>9, <1>11, <2>1, <2>2
<1> QED BY <1>10, <1>11

(* Steps that keep a turn going among themselves. *)
Loops(steps, T) == T # {} /\ T \subseteq Automatic(steps) /\ \A t \in T : Onward(steps, t) \cap T # {}
Stops(steps) == \A T \in SUBSET Automatic(steps) : ~Loops(steps, T)

LEMMA CheckIs ==
  ASSUME NEW steps, Typed(steps), WellRouted(steps), AllClear(steps)
  PROVE  AutomaticCycle(steps) <=> ~Stops(steps)
<1> DEFINE nodes == Automatic(steps)
           graph == Graph(steps)
<1>1. IsFiniteSet(nodes)
  BY FS_Subset DEF Typed, Automatic
<1>2. graph = [s \in nodes |-> Edges(steps, s) \cap nodes]
  BY DEF Graph
<1>3. \A s \in nodes : Edges(steps, s) = Onward(steps, s)
  BY EdgesAreOnward
<1> HIDE DEF nodes, graph
<1>4. IsGraph(graph, nodes)
  BY <1>1, <1>2 DEF IsGraph
<1>5. \A T \in SUBSET nodes : Trap(graph, nodes, T) <=> Loops(steps, T)
  <2> TAKE T \in SUBSET nodes
  <2>1. \A t \in T : graph[t] \cap T = Onward(steps, t) \cap T
    BY <1>2, <1>3
  <2> QED BY <2>1 DEF Trap, Loops, nodes
<1>6. AutomaticCycle(steps) <=> AnyOf(Visit(graph)[nodes], nodes, {}).cyclic
  BY DEF AutomaticCycle, nodes, graph
<1>7. AutomaticCycle(steps) <=> Traps(graph, nodes)
  BY <1>4, <1>6, SearchIsExact
<1> QED BY <1>5, <1>7 DEF Traps, Stops, nodes

-----------------------------------------------------------------------------
(* The steps of a turn, depth by depth. *)
Further(steps, S, d) ==
  {t \in UNION {Onward(steps, s) : s \in {s \in S : d = 1 \/ ~EndsTurn(s)}} : RunsAtOnce(t)}

Depths(steps, most, at) ==
  /\ AtDepth(steps, most) = at[most]
  /\ at[0] = steps
  /\ \A d \in 1..most : at[d] = Further(steps, at[d - 1], d)

LEMMA DepthsAre ==
  ASSUME NEW steps, NEW most \in Nat
  PROVE  \E at : Depths(steps, most, at)
<1> DEFINE More(S, d) == Further(steps, S, d)
           Is(u, n) == u = [d \in 0..n |-> IF d = 0 THEN steps ELSE More(u[d - 1], d)]
           S == {n \in Nat : \E u : Is(u, n)}
           at == CHOOSE u : Is(u, most)
<1>1. AtDepth(steps, most) = at[most]
  BY DEF AtDepth, Further
<1> HIDE DEF at, More
<1>2. 0 \in S
  <2>1. Is([d \in 0..0 |-> steps], 0)
    OBVIOUS
  <2> QED BY <2>1
<1>3. ASSUME NEW n \in Nat, n \in S PROVE n + 1 \in S
  <2>1. PICK u : Is(u, n)
    BY <1>3
  <2> DEFINE v == [d \in 0..n + 1 |-> IF d \in 0..n THEN u[d] ELSE More(u[n], n + 1)]
  <2>2. Is(v, n + 1)
    BY <2>1
  <2> HIDE DEF v, Is
  <2> QED BY <2>2
<1>4. most \in S
  <2> HIDE DEF S
  <2>1. \A i \in 0..most - 1 : i \in S => i + 1 \in S
    BY <1>3
  <2>2. 0..most \subseteq S
    BY <1>2, <2>1, Induct
  <2> QED BY <2>2
<1>5. Is(at, most)
  <2>1. \E u : Is(u, most)
    BY <1>4
  <2> HIDE DEF Is
  <2> QED BY <2>1 DEF at
<1>6. at[0] = steps /\ \A d \in 1..most : at[d] = More(at[d - 1], d)
  BY <1>5
<1>7. Depths(steps, most, at)
  BY <1>1, <1>6 DEF Depths, More
<1> QED BY <1>7

(* A loop is never left. *)
LEMMA LoopStays ==
  ASSUME NEW steps, NEW most \in Nat, NEW T, Loops(steps, T)
  PROVE  AtDepth(steps, most) \cap T # {}
<1>1. PICK at : Depths(steps, most, at)
  BY DepthsAre
<1> DEFINE S == {d \in 0..most : at[d] \cap T # {}}
<1>2. 0 \in S
  BY <1>1 DEF Depths, Loops, Automatic
<1>3. ASSUME NEW d \in 0..most - 1, d \in S PROVE d + 1 \in S
  <2>1. PICK s \in T : s \in at[d]
    BY <1>3
  <2>2. PICK t \in T : t \in Onward(steps, s)
    BY DEF Loops
  <2>3. ~EndsTurn(s) /\ RunsAtOnce(t)
    BY GoesOnIs DEF Loops, Automatic
  <2>4. d + 1 \in 1..most /\ (d + 1) - 1 = d
    OBVIOUS
  <2>5. at[d + 1] = Further(steps, at[d], d + 1)
    BY <1>1, <2>4 DEF Depths
  <2>6. t \in at[d + 1]
    BY <2>1, <2>2, <2>3, <2>5 DEF Further
  <2> QED BY <2>4, <2>6
<1>4. most \in S
  <2> HIDE DEF S
  <2>1. 0..most \subseteq S
    BY <1>2, <1>3, Induct
  <2> QED BY <2>1
<1> QED BY <1>1, <1>4 DEF Depths

(* Where nothing loops, some step of any set of automatic ones is entered from none of them. *)
LEMMA Entered ==
  ASSUME NEW steps, Stops(steps), NEW B \in SUBSET Automatic(steps), IsFiniteSet(B), B # {}
  PROVE  \E b \in B : \A s \in B : b \notin Onward(steps, s)
<1> SUFFICES ASSUME \A b \in B : \E s \in B : b \in Onward(steps, s) PROVE FALSE
  OBVIOUS
<1> DEFINE Ok(W) == W # {} /\ \A r \in B \ W : Onward(steps, r) \cap W = {}
           Sizes == {Cardinality(W) : W \in {W \in SUBSET B : Ok(W)}}
<1>1. \A W \in SUBSET B : IsFiniteSet(W) /\ Cardinality(W) \in Nat
  BY FS_Subset, FS_CardinalityType
<1>2. Sizes \in SUBSET Nat /\ Sizes # {}
  <2>1. Ok(B)
    OBVIOUS
  <2> QED BY <1>1, <2>1
<1>3. PICK W \in SUBSET B : Ok(W) /\ \A X \in SUBSET B : Ok(X) => Cardinality(W) <= Cardinality(X)
  <2>1. PICK n \in Sizes : \A m \in Sizes : n <= m
    <3> HIDE DEF Sizes
    <3> QED BY <1>2, Least
  <2>2. PICK W \in {W \in SUBSET B : Ok(W)} : n = Cardinality(W)
    BY <2>1
  <2> QED BY <2>1, <2>2
<1>4. PICK u \in W : Onward(steps, u) \cap W = {}
  BY <1>3 DEF Stops, Loops
<1>5. CASE W = {u}
  <2>1. PICK s \in B : u \in Onward(steps, s)
    OBVIOUS
  <2> QED BY <1>3, <1>4, <1>5, <2>1
<1>6. CASE W # {u}
  <2>1. Ok(W \ {u})
    BY <1>3, <1>4, <1>6
  <2>2. Cardinality(W \ {u}) = Cardinality(W) - 1
    BY <1>1, <1>4, FS_RemoveElement
  <2>3. Cardinality(W) <= Cardinality(W \ {u})
    BY <1>3, <2>1
  <2> QED BY <1>1, <2>2, <2>3
<1> QED BY <1>5, <1>6

LEMMA Fewer ==
  ASSUME NEW S, IsFiniteSet(S), NEW R \in SUBSET S, R # S
  PROVE  IsFiniteSet(R) /\ Cardinality(R) \in Nat /\ Cardinality(S) \in Nat /\ Cardinality(R) + 1 <= Cardinality(S)
<1>1. PICK s \in S : s \notin R
  OBVIOUS
<1>2. IsFiniteSet(S \ {s}) /\ Cardinality(S \ {s}) = Cardinality(S) - 1 /\ Cardinality(S) \in Nat
  BY <1>1, FS_RemoveElement, FS_CardinalityType
<1>3. R \in SUBSET (S \ {s})
  BY <1>1
<1>4. IsFiniteSet(R) /\ Cardinality(R) \in Nat /\ Cardinality(R) <= Cardinality(S \ {s})
  BY <1>2, <1>3, FS_Subset, FS_CardinalityType
<1> QED BY <1>2, <1>4

(* Where nothing loops, a turn stops before it has gone as deep as there are steps. *)
LEMMA RunsOut ==
  ASSUME NEW steps, Typed(steps), Stops(steps), NEW most \in Nat, Cardinality(steps) < most
  PROVE  AtDepth(steps, most) = {}
<1>1. PICK at : Depths(steps, most, at)
  BY DepthsAre
<1> DEFINE D(d) == at[d] \cap Automatic(steps)
           N == Cardinality(steps)
<1>2. IsFiniteSet(steps) /\ N \in Nat
  BY FS_CardinalityType DEF Typed
<1>3. ASSUME NEW d \in 1..most PROVE at[d] \subseteq steps /\ \A t \in at[d] : RunsAtOnce(t)
  <2>1. at[d] = Further(steps, at[d - 1], d)
    BY <1>1 DEF Depths
  <2> QED BY <2>1, OnwardIn DEF Further
<1>4. \A d \in 1..most : D(d) \subseteq steps /\ IsFiniteSet(D(d)) /\ Cardinality(D(d)) \in Nat
  <2> TAKE d \in 1..most
  <2>1. D(d) \in SUBSET steps
    BY <1>3
  <2> HIDE DEF D
  <2> QED BY <1>2, <2>1, FS_Subset, FS_CardinalityType
<1>5. ASSUME NEW d \in 1..most - 1
      PROVE  \A t \in at[d + 1] : RunsAtOnce(t) /\ \E s \in D(d) : t \in Onward(steps, s)
  <2>1. d + 1 \in 1..most /\ (d + 1) - 1 = d /\ d \in 1..most /\ d + 1 # 1
    OBVIOUS
  <2>2. at[d + 1] = Further(steps, at[d], d + 1)
    BY <1>1, <2>1 DEF Depths
  <2>3. \A s \in at[d] : ~EndsTurn(s) => s \in D(d)
    BY <1>3, <2>1, GoesOnIs DEF Automatic
  <2> HIDE DEF D
  <2> QED BY <2>1, <2>2, <2>3 DEF Further
<1>6. at[0] = steps /\ (1 \in 1..most => at[1] = Further(steps, steps, 1))
  <2>1. 1 \in 1..most => at[1] = Further(steps, at[1 - 1], 1)
    BY <1>1 DEF Depths
  <2> QED BY <1>1, <2>1 DEF Depths
<1>7. ASSUME NEW d \in 1..most - 1 PROVE at[d + 1] \subseteq at[d]
  <2> DEFINE S == {i \in 0..most - 1 : i = 0 \/ at[i + 1] \subseteq at[i]}
  <2>1. 0 \in S
    OBVIOUS
  <2>2. ASSUME NEW i \in 0..(most - 1) - 1, i \in S PROVE i + 1 \in S
    <3>1. i + 1 \in 1..most - 1 /\ i + 1 \in 1..most /\ 1 \in 1..most
      OBVIOUS
    <3>2. ASSUME NEW t \in at[(i + 1) + 1] PROVE t \in at[i + 1]
      <4>1. PICK s \in D(i + 1) : RunsAtOnce(t) /\ t \in Onward(steps, s)
        BY <1>5, <3>1, <3>2
      <4>2. CASE i = 0
        <5>1. s \in steps
          BY <1>4, <3>1, <4>1
        <5>2. t \in Further(steps, steps, 1)
          BY <4>1, <5>1 DEF Further
        <5> QED BY <1>6, <3>1, <4>2, <5>2
      <4>3. CASE i # 0
        <5>1. s \in at[i] /\ s \in Automatic(steps)
          BY <2>2, <4>1, <4>3
        <5>2. at[i + 1] = Further(steps, at[(i + 1) - 1], i + 1) /\ (i + 1) - 1 = i
          BY <1>1, <3>1 DEF Depths
        <5>3. ~EndsTurn(s)
          BY <5>1, GoesOnIs DEF Automatic
        <5> HIDE DEF D
        <5> QED BY <4>1, <5>1, <5>2, <5>3 DEF Further
      <4> QED BY <4>2, <4>3
    <3> QED BY <3>1, <3>2
  <2> HIDE DEF S
  <2>3. 0..most - 1 \subseteq S
    BY <2>1, <2>2, Induct
  <2>4. d \in S
    BY <2>3
  <2> QED BY <2>4 DEF S
<1>8. ASSUME NEW d \in 1..most - 1, D(d) # {} PROVE Cardinality(D(d + 1)) + 1 <= Cardinality(D(d))
  <2>1. d \in 1..most
    OBVIOUS
  <2>2. PICK b \in D(d) : \A s \in D(d) : b \notin Onward(steps, s)
    <3>1. D(d) \in SUBSET Automatic(steps)
      OBVIOUS
    <3> HIDE DEF D
    <3> QED BY <1>4, <1>8, <2>1, <3>1, Entered
  <2>3. b \notin at[d + 1]
    BY <1>5, <2>2
  <2>4. D(d + 1) \in SUBSET D(d) /\ D(d + 1) # D(d)
    BY <1>7, <2>2, <2>3
  <2> HIDE DEF D
  <2> QED BY <1>4, <2>1, <2>4, Fewer
<1>9. ASSUME 1 \in 1..most, steps # {} PROVE Cardinality(D(1)) + 1 <= N
  <2>1. D(1) \in SUBSET steps
    BY <1>4, <1>9
  <2>2. D(1) # steps
    <3>1. SUFFICES ASSUME D(1) = steps PROVE FALSE
      OBVIOUS
    <3>2. steps \in SUBSET Automatic(steps)
      BY <3>1
    <3>3. PICK b \in steps : \A s \in steps : b \notin Onward(steps, s)
      BY <1>2, <1>9, <3>2, Entered
    <3>4. b \notin at[1]
      BY <1>6, <1>9, <3>3 DEF Further
    <3> QED BY <3>1, <3>4
  <2> HIDE DEF D
  <2> QED BY <1>2, <2>1, <2>2, Fewer
<1>10. CASE steps = {}
  <2>1. most \in 1..most
    BY <1>2
  <2> QED BY <1>1, <1>3, <1>10, <2>1 DEF Depths
<1>11. CASE steps # {}
  <2>1. N # 0
    BY <1>2, <1>11, FS_EmptySet
  <2>2. most - 1 \in 1..most - 1 /\ 1 \in 1..most /\ most - 1 >= N /\ most - 1 \in 0..most - 1
    BY <1>2, <2>1
  <2> DEFINE S == {i \in 0..most - 1 : i = 0 \/ D(i) = {} \/ Cardinality(D(i)) + i <= N}
  <2>3. 0 \in S
    BY <2>2
  <2>4. ASSUME NEW i \in 0..(most - 1) - 1, i \in S PROVE i + 1 \in S
    <3>1. i + 1 \in 0..most - 1 /\ i + 1 \in 1..most
      OBVIOUS
    <3>2. CASE i = 0
      BY <1>9, <1>11, <3>1, <3>2
    <3>3. CASE i # 0 /\ D(i) = {}
      <4>1. at[i + 1] = {}
        BY <1>5, <3>3
      <4> QED BY <3>1, <4>1
    <3>4. CASE i # 0 /\ D(i) # {}
      <4>1. Cardinality(D(i)) + i <= N
        BY <2>4, <3>4
      <4>2. i \in 1..most /\ i \in 1..most - 1
        BY <3>4
      <4> HIDE DEF D, N
      <4>3. Cardinality(D(i + 1)) + 1 <= Cardinality(D(i))
        BY <1>8, <3>4, <4>2
      <4>4. Cardinality(D(i)) \in Nat /\ Cardinality(D(i + 1)) \in Nat
        BY <1>4, <3>1, <4>2
      <4>5. Cardinality(D(i + 1)) + (i + 1) <= N
        BY <1>2, <4>1, <4>3, <4>4
      <4> QED BY <3>1, <4>5
    <3> QED BY <3>2, <3>3, <3>4
  <2>5. most - 1 \in S
    <3> HIDE DEF S
    <3>1. most - 1 \in Nat
      BY <2>2
    <3>2. 0..most - 1 \subseteq S
      BY <2>3, <2>4, <3>1, Induct
    <3> QED BY <2>2, <3>2
  <2>6. D(most - 1) = {}
    <3>1. most - 1 # 0 /\ most - 1 \in 1..most
      BY <2>2
    <3>2. D(most - 1) = {} \/ Cardinality(D(most - 1)) + (most - 1) <= N
      BY <2>5, <3>1
    <3> HIDE DEF D, N
    <3>3. Cardinality(D(most - 1)) \in Nat /\ IsFiniteSet(D(most - 1))
      BY <1>4, <3>1
    <3>4. Cardinality(D(most - 1)) + (most - 1) <= N => Cardinality(D(most - 1)) = 0
      BY <1>2, <2>2, <3>3
    <3> QED BY <3>2, <3>3, <3>4, FS_EmptySet
  <2>7. at[(most - 1) + 1] = {}
    BY <1>5, <2>2, <2>6
  <2>8. (most - 1) + 1 = most
    OBVIOUS
  <2> QED BY <1>1, <2>7, <2>8 DEF Depths
<1> QED BY <1>10, <1>11

(* The cycle check of the validator refuses a well-routed definition, whatever its size and *)
(* the names and orders in it, exactly when some turn of the executor would never stop for  *)
(* the user; provided no step is called like an integer some route is, for then the two     *)
(* follow different steps (_validate_workflow_steps, _resolve_step_target, _advance).       *)
THEOREM CheckIsExact ==
  ASSUME NEW steps, Typed(steps), WellRouted(steps), AllClear(steps)
  PROVE  AutomaticCycle(steps) <=> Endless(steps)
<1> DEFINE N == Cardinality(steps)
<1>1. N \in Nat /\ N + 1 \in Nat /\ N < N + 1
  BY FS_CardinalityType DEF Typed
<1>2. ASSUME Stops(steps) PROVE AtDepth(steps, N + 1) = {}
  BY <1>1, <1>2, RunsOut
<1>3. ASSUME ~Stops(steps) PROVE AtDepth(steps, N + 1) # {}
  <2>1. PICK T : Loops(steps, T)
    BY <1>3 DEF Stops
  <2> QED BY <1>1, <2>1, LoopStays
<1> QED BY <1>2, <1>3, CheckIs DEF Endless

-----------------------------------------------------------------------------
(* The definition that was validated, and the one that is stored: the same steps, and the *)
(* new ones among them have got an id that nothing refers to.                              *)
Same(s, u) ==
  /\ u.name = s.name /\ u.order = s.order /\ u.type = s.type /\ u.fields = s.fields
  /\ u.tool = s.tool /\ u.gated = s.gated /\ u.hooked = s.hooked /\ u.key = s.key
  /\ u.fallback = s.fallback /\ u.rules = s.rules

Stored(given, stored, m) ==
  /\ stored = {m[s] : s \in given}
  /\ \A s \in given : Same(s, m[s])
  /\ \A s \in given : IF s.id # "" THEN m[s].id = s.id ELSE m[s].id \notin References(given)

Image(m, S) == {m[s] : s \in S}

LEMMA ImageIs ==
  ASSUME NEW given, NEW m, NEW A \in SUBSET given, NEW B \in SUBSET Image(m, given),
         \A s \in given : m[s] \in B <=> s \in A
  PROVE  B = Image(m, A)
BY DEF Image

LEMMA EarliestImage ==
  ASSUME NEW given, NEW stored, NEW m, Stored(given, stored, m), NEW S \in SUBSET given
  PROVE  Earliest(Image(m, S)) = Image(m, Earliest(S))
<1>1. \A s \in S : m[s].order = s.order
  BY DEF Stored, Same
<1> QED BY <1>1 DEF Earliest, Image

LEMMA StoredAlike ==
  ASSUME NEW s, NEW u, Same(s, u)
  PROVE  /\ MayFire(u) = MayFire(s) /\ Routes(u) = Routes(s) /\ HasDefault(u) = HasDefault(s)
         /\ GoesOn(u) = GoesOn(s) /\ SafeStop(u) = SafeStop(s) /\ u.type = s.type
<1>1. MayFire(u) = MayFire(s)
  BY DEF Same, MayFire
<1>2. Routes(u) = Routes(s)
  BY <1>1 DEF Same, Routes
<1>3. HasDefault(u) = HasDefault(s)
  BY DEF Same, HasDefault
<1>4. GoesOn(u) = GoesOn(s)
  BY DEF Same, GoesOn
<1>5. SafeStop(u) = SafeStop(s)
  BY DEF Same, SafeStop
<1> QED BY <1>1, <1>2, <1>3, <1>4, <1>5 DEF Same

(* What is clear once the steps have their ids was so before. *)
LEMMA ClearStored ==
  ASSUME NEW given, NEW stored, NEW m, Stored(given, stored, m), NEW ref, ref.text \in References(given),
         Clear(stored, ref)
  PROVE  Clear(given, ref)
<1> SUFFICES ASSUME ref.int, NEW s \in given PROVE ref.text \notin {s.id, s.name}
  BY DEF Clear
<1>1. ref.text # ""
  BY DEF References
<1>2. m[s] \in stored /\ m[s].name = s.name /\ (s.id # "" => m[s].id = s.id)
  BY DEF Stored, Same
<1>3. ref.text \notin {m[s].id, m[s].name}
  BY <1>2 DEF Clear
<1> QED BY <1>1, <1>2, <1>3

LEMMA ResolveStored ==
  ASSUME NEW given, NEW stored, NEW m, Stored(given, stored, m), NEW ref, ref.text \in References(given)
  PROVE  Resolve(stored, ref) = Image(m, Resolve(given, ref))
<1> DEFINE byId(S) == {s \in S : ~ref.int /\ s.id = ref.text}
           byName(S) == {s \in S : ~ref.int /\ s.name = ref.text}
           byOrder(S) == {s \in S : Text(s.order) = ref.text}
           Pick(S) == IF byId(S) # {} THEN byId(S) ELSE IF byName(S) # {} THEN byName(S) ELSE byOrder(S)
<1>1. ref.text # ""
  BY DEF References
<1>2. ASSUME NEW s \in given
      PROVE  /\ m[s] \in stored /\ m[s].name = s.name /\ m[s].order = s.order
             /\ m[s].id = ref.text <=> s.id = ref.text
  <2>1. CASE s.id = ""
    BY <1>1, <2>1 DEF Stored, Same
  <2>2. CASE s.id # ""
    BY <2>2 DEF Stored, Same
  <2> QED BY <2>1, <2>2
<1>3. stored = Image(m, given)
  BY DEF Stored, Image
<1>4. byId(stored) = Image(m, byId(given))
  <2>1. byId(given) \in SUBSET given /\ byId(stored) \in SUBSET Image(m, given)
    BY <1>3
  <2>2. \A s \in given : m[s] \in byId(stored) <=> s \in byId(given)
    BY <1>2
  <2> HIDE DEF byId
  <2> QED BY <2>1, <2>2, ImageIs
<1>5. byName(stored) = Image(m, byName(given))
  <2>1. byName(given) \in SUBSET given /\ byName(stored) \in SUBSET Image(m, given)
    BY <1>3
  <2>2. \A s \in given : m[s] \in byName(stored) <=> s \in byName(given)
    BY <1>2
  <2> HIDE DEF byName
  <2> QED BY <2>1, <2>2, ImageIs
<1>6. byOrder(stored) = Image(m, byOrder(given))
  <2>1. byOrder(given) \in SUBSET given /\ byOrder(stored) \in SUBSET Image(m, given)
    BY <1>3
  <2>2. \A s \in given : m[s] \in byOrder(stored) <=> s \in byOrder(given)
    BY <1>2
  <2> HIDE DEF byOrder
  <2> QED BY <2>1, <2>2, ImageIs
<1>7. Resolve(stored, ref) = Earliest(Pick(stored)) /\ Resolve(given, ref) = Earliest(Pick(given))
  BY DEF Resolve
<1>8. byId(given) \in SUBSET given /\ byName(given) \in SUBSET given /\ byOrder(given) \in SUBSET given
  OBVIOUS
<1> HIDE DEF byId, byName, byOrder
<1>9. Pick(stored) = Image(m, Pick(given)) /\ Pick(given) \in SUBSET given
  <2>1. \A S : Image(m, S) = {} <=> S = {}
    BY DEF Image
  <2> QED BY <1>4, <1>5, <1>6, <1>8, <2>1
<1> HIDE DEF Pick
<1> QED BY <1>7, <1>9, EarliestImage

LEMMA SuccessorStored ==
  ASSUME NEW given, NEW stored, NEW m, Stored(given, stored, m), NEW s \in given
  PROVE  Successor(stored, m[s]) = Image(m, Successor(given, s))
<1>1. \A t \in given : m[t].order = t.order
  BY DEF Stored, Same
<1> DEFINE A == {t \in given : t.order > s.order}
           B == {t \in stored : t.order > m[s].order}
<1>2. A \in SUBSET given /\ B \in SUBSET Image(m, given) /\ \A t \in given : m[t] \in B <=> t \in A
  BY <1>1 DEF Stored, Image
<1>3. Successor(stored, m[s]) = Earliest(B) /\ Successor(given, s) = Earliest(A)
  BY DEF Successor
<1> HIDE DEF A, B
<1>4. B = Image(m, A)
  BY <1>2, ImageIs
<1> QED BY <1>2, <1>3, <1>4, EarliestImage

LEMMA OnwardStored ==
  ASSUME NEW given, NEW stored, NEW m, Stored(given, stored, m), NEW s \in given, Routed(given, s)
  PROVE  Onward(stored, m[s]) = Image(m, Onward(given, s))
<1>1. Same(s, m[s])
  BY DEF Stored
<1>2. MayFire(m[s]) = MayFire(s) /\ Routes(m[s]) = Routes(s) /\ m[s].type = s.type /\ m[s].rules = s.rules
  BY <1>1, StoredAlike DEF Same
<1> DEFINE last == \E i \in MayFire(s) : s.rules[i].default
           After(S, t) == IF last THEN {} ELSE Successor(S, t)
           Targets(S) == UNION {Resolve(S, ref) : ref \in Routes(s)}
<1>3. CASE s.type = "complete"
  BY <1>2, <1>3 DEF Onward, Image
<1>4. CASE s.type # "complete"
  <2>1. Onward(given, s) = Targets(given) \cup After(given, s)
    BY <1>4 DEF Onward
  <2>2. Onward(stored, m[s]) = Targets(stored) \cup After(stored, m[s])
    BY <1>2, <1>4 DEF Onward
  <2>3. After(stored, m[s]) = Image(m, After(given, s))
    BY SuccessorStored DEF Image
  <2>4. \A ref \in Routes(s) : Resolve(stored, ref) = Image(m, Resolve(given, ref))
    BY RoutesRefer, ResolveStored
  <2>5. Targets(stored) = Image(m, Targets(given))
    BY <2>4 DEF Image
  <2> HIDE DEF After, Targets
  <2> QED BY <2>1, <2>2, <2>3, <2>5 DEF Image
<1> QED BY <1>3, <1>4

LEMMA StoredStops ==
  ASSUME NEW given, NEW stored, NEW m, Stored(given, stored, m), WellRouted(given), Stops(given)
  PROVE  Stops(stored)
<1> SUFFICES ASSUME NEW T, Loops(stored, T) PROVE FALSE
  BY DEF Stops
<1> DEFINE U == {s \in given : m[s] \in T}
<1>1. \A s \in given : GoesOn(m[s]) = GoesOn(s)
  BY StoredAlike DEF Stored
<1>2. \A t \in T : \E s \in U : t = m[s]
  BY DEF Loops, Automatic, Stored
<1>3. U \in SUBSET Automatic(given)
  BY <1>1 DEF Loops, Automatic
<1>4. ASSUME NEW s \in U PROVE Onward(given, s) \cap U # {}
  <2>1. Routed(given, s)
    BY DEF WellRouted
  <2>2. PICK t \in T : t \in Onward(stored, m[s])
    BY DEF Loops
  <2>3. Onward(stored, m[s]) = Image(m, Onward(given, s))
    BY <2>1, OnwardStored
  <2>4. PICK u \in Onward(given, s) : t = m[u]
    BY <2>2, <2>3 DEF Image
  <2>5. u \in given
    BY <2>4, OnwardIn
  <2> QED BY <2>4, <2>5
<1>5. U # {}
  BY <1>2 DEF Loops
<1> HIDE DEF U
<1>6. Loops(given, U)
  BY <1>3, <1>4, <1>5 DEF Loops
<1> QED BY <1>3, <1>6 DEF Stops

LEMMA StoredTyped ==
  ASSUME NEW given, NEW stored, NEW m, Stored(given, stored, m), Typed(given)
  PROVE  Typed(stored)
<1>1. IsFiniteSet(stored)
  <2> DEFINE f == [s \in given |-> m[s]]
  <2>1. f \in Surjection(given, stored)
    BY DEF Surjection, Stored
  <2> QED BY <2>1, FS_Surjection DEF Typed
<1>2. \A s \in given : m[s].order = s.order /\ m[s].rules = s.rules
  BY DEF Stored, Same
<1> QED BY <1>1, <1>2 DEF Typed, Stored

(* What the validator admits is what the executor needs, also once its new steps are stored *)
(* under ids: every route leads somewhere unless it is an integer some step is called like, *)
(* a failed decision leads to a safe stop, and no turn meets the depth guard unless there is *)
(* such a route (_validate_workflow_steps, _resolve_step_target, _advance).                 *)
THEOREM AcceptedIsSound ==
  ASSUME NEW given, NEW stored, NEW m, Stored(given, stored, m), Typed(given), Accepts(given), MaxDepth \in Nat
  PROVE  Sound(stored)
<1>1. WellRouted(given)
  BY DEF Accepts
<1>2. Typed(stored)
  BY StoredTyped
<1>3. \A t \in stored : \E s \in given : t = m[s] /\ Same(s, t)
  BY DEF Stored
<1>4. ASSUME NEW t \in stored, NEW u \in stored, t # u PROVE t.order # u.order
  <2>1. PICK s \in given, r \in given : t = m[s] /\ u = m[r] /\ Same(s, t) /\ Same(r, u)
    BY <1>3
  <2> QED BY <1>1, <1>4, <2>1 DEF WellRouted, Distinct, Same
<1>5. ASSUME NEW t \in stored
      PROVE  /\ \A ref \in Routes(t) : Clear(stored, ref) => Resolve(stored, ref) # {}
             /\ t.type = "decision" => /\ t.fallback # ""
                                       /\ \A u \in Resolve(stored, Named(t.fallback)) : SafeStop(u)
                                       /\ \A u \in stored : t.key \notin u.fields
             /\ t.type = "tool_call" => t.tool # ""
  <2>1. PICK s \in given : t = m[s] /\ Same(s, t)
    BY <1>3
  <2>2. Shaped(s) /\ Routed(given, s) /\ OwnResult(given, s) /\ SafelyFails(given, s)
    BY <1>1 DEF WellRouted
  <2>3. ASSUME NEW ref \in Routes(t), Clear(stored, ref) PROVE Resolve(stored, ref) # {}
    <3>1. ref.text \in References(given)
      BY <2>1, <2>2, <2>3, StoredAlike, RoutesRefer
    <3>2. Resolve(given, ref) # {} /\ Resolve(stored, ref) = Image(m, Resolve(given, ref))
      BY <2>3, <3>1, ClearStored, ResolveSome, ResolveStored
    <3> QED BY <3>2 DEF Image
  <2>4. ASSUME t.type = "decision"
        PROVE  /\ t.fallback # ""
               /\ \A u \in Resolve(stored, Named(t.fallback)) : SafeStop(u)
               /\ \A u \in stored : t.key \notin u.fields
    <3>1. s.type = "decision" /\ s.fallback = t.fallback /\ s.key = t.key
      BY <2>1, <2>4 DEF Same
    <3>2. t.fallback # ""
      BY <2>2, <3>1 DEF Shaped
    <3>3. t.fallback \in References(given)
      BY <2>2, <3>1, <3>2 DEF Routed
    <3>4. ASSUME NEW u \in Resolve(stored, Named(t.fallback)) PROVE SafeStop(u)
      <4> PICK ref : ref = Named(t.fallback)
        OBVIOUS
      <4>0. ref.text = t.fallback /\ ref.text \in References(given) /\ Clear(given, ref)
        BY <3>3 DEF Named, Clear
      <4>1. Resolve(stored, ref) = Image(m, Resolve(given, ref))
        BY <4>0, ResolveStored
      <4>2. PICK r \in Resolve(given, ref) : u = m[r]
        BY <3>4, <4>1 DEF Image
      <4>3. r \in given /\ r \in Table(given)[s.fallback]
        BY <3>1, <4>0, <4>2, ResolveIn, TableIs
      <4>4. SafeStop(r)
        BY <2>2, <3>1, <4>3 DEF SafelyFails
      <4> QED BY <4>2, <4>3, <4>4, StoredAlike DEF Stored
    <3>5. ASSUME NEW u \in stored PROVE t.key \notin u.fields
      <4>1. PICK r \in given : u = m[r] /\ Same(r, u)
        BY <1>3
      <4>2. s.key \notin Inputs(given)
        BY <2>2, <3>1 DEF OwnResult
      <4> QED BY <3>1, <4>1, <4>2 DEF Inputs, Same
    <3> QED BY <3>2, <3>4, <3>5
  <2>5. t.type = "tool_call" => t.tool # ""
    BY <2>1, <2>2 DEF Shaped, Same
  <2> QED BY <2>3, <2>4, <2>5
<1>6. ASSUME AllClear(stored), Cardinality(stored) <= MaxDepth PROVE AtDepth(stored, MaxDepth + 1) = {}
  <2>0. AllClear(given)
    <3> SUFFICES ASSUME NEW s \in given, NEW i \in DOMAIN s.rules PROVE Clear(given, s.rules[i].goto)
      BY DEF AllClear
    <3>1. m[s] \in stored /\ m[s].rules = s.rules
      BY DEF Stored, Same
    <3>2. Clear(stored, s.rules[i].goto)
      BY <1>6, <3>1 DEF AllClear
    <3>3. s.rules[i].goto.text \in References(given)
      BY <1>1 DEF WellRouted, Routed
    <3> QED BY <3>2, <3>3, ClearStored
  <2>3. Stops(stored)
    <3>1. Stops(given)
      BY <1>1, <2>0, CheckIs DEF Accepts
    <3> QED BY <1>1, <3>1, StoredStops
  <2>1. Cardinality(stored) \in Nat
    BY <1>2, FS_CardinalityType DEF Typed
  <2>2. Cardinality(stored) < MaxDepth + 1 /\ MaxDepth + 1 \in Nat
    BY <1>6, <2>1
  <2> QED BY <1>2, <2>3, <2>2, RunsOut
<1> QED BY <1>4, <1>5, <1>6, Zenon DEF Sound

-----------------------------------------------------------------------------
(* How many ids there are. *)
Supply == Len(Ids)

(* The strengthening.  Given(n): the first n ids. *)
Given(n) == {Ids[i] : i \in 1..n}

(* A name that reads like an id reads like one of them. *)
KnownBy(r, n) == \A k \in 1..Supply : r.name = Ids[k] => k \in 1..n

Shelf(S, n) ==
  /\ \A s \in S : KnownBy(s, n)
  /\ IsFiniteSet(S) /\ S \subseteq Step(Given(n))
  /\ \A s, t \in S : s.id = t.id => s = t

(* A request still carries what it validated, and it validated what it read. *)
Carries(p, n) ==
  /\ p.op \in {"add", "update", "delete", "publish", "put", "drop"}
  /\ Shelf(p.read, n) /\ p.num \in Nat \ {0}
  /\ p.op = "add" => p.row \in Body /\ KnownBy(p.row, n) /\ Accepts(p.read \cup {p.row})
  /\ p.op = "update" => /\ p.row \in Step(Given(n)) /\ KnownBy(p.row, n)
                        /\ \E s \in p.read : p.row.id = s.id /\ Accepts((p.read \ {s}) \cup {p.row})
  /\ p.op = "delete" => p.row \in p.read /\ Accepts(p.read \ {p.row})
  /\ p.op = "publish" => Accepts(p.read)

Active == {a \in Admin : pending[a] # Idle}

(* An id is left for each request that is under way, and no publication is ahead of the *)
(* counter unless a request wrote it from a value another had moved on.                  *)
AdminInv ==
  /\ alive \in BOOLEAN /\ skewed \in BOOLEAN /\ behind \in BOOLEAN
  /\ made \in Nat /\ requests \in 0..MaxRequests /\ (~alive /\ requests = 0 => made = 0)
  /\ IsFiniteSet(Active) /\ Cardinality(Active) <= requests
  /\ made + Cardinality(Active) <= MaxSteps + requests
  /\ Shelf(rows, made)
  /\ DOMAIN pending = Admin /\ \A a \in Admin : pending[a] = Idle \/ Carries(pending[a], made)
  /\ version \in Nat \ {0} /\ DOMAIN published \subseteq Nat \ {0}
  /\ ~behind => \A n \in DOMAIN published : n < version
  /\ LiveSound /\ PublishedSound

LEMMA StepTyped ==
  ASSUME NEW X, NEW S, IsFiniteSet(S), S \subseteq Step(X)
  PROVE  Typed(S)
<1>1. \A s \in S : s.order \in {b.order : b \in Body} /\ s.rules \in Seq([default : BOOLEAN, goto : Reference])
  BY DEF Step
<1>2. {b.order : b \in Body} \subseteq Nat
  BY AdminAssumption
<1> QED BY <1>1, <1>2 DEF Typed, Rule

LEMMA StepIn ==
  ASSUME NEW X, NEW Y, X \subseteq Y
  PROVE  Step(X) \subseteq Step(Y)
BY DEF Step

LEMMA StepId ==
  ASSUME NEW X, NEW s \in Step(X)
  PROVE  s.id \in X
BY DEF Step

LEMMA SavedIs ==
  ASSUME NEW X, NEW s \in Step(X), NEW i
  PROVE  Same(s, Saved(s, i)) /\ Saved(s, i).id = i /\ Saved(s, i) \in Step({i})
<1>1. Same(s, Saved(s, i))
  BY DEF Step, Saved, Same
<1>2. Saved(s, i).id = i
  BY DEF Step, Saved
<1>3. Saved(s, i) \in Step({i})
  BY DEF Step, Saved
<1> QED BY <1>1, <1>2, <1>3

LEMMA MergedIn ==
  ASSUME NEW X, NEW s \in Step(X), NEW new \in Step(X), NEW old, new.id = s.id
  PROVE  /\ Merged(s, old, new) \in Step(X) /\ Merged(s, old, new).id = s.id
         /\ Merged(s, old, new).name \in {s.name, new.name}
<1>1. Merged(s, old, new).id = s.id
  BY DEF Step, Merged
<1>2. Merged(s, old, new) \in Step(X)
  BY DEF Step, Merged
<1>3. Merged(s, old, new).name \in {s.name, new.name}
  BY DEF Step, Merged
<1> QED BY <1>1, <1>2, <1>3

LEMMA MergedIs ==
  ASSUME NEW X, NEW s \in Step(X), NEW new \in Step(X)
  PROVE  Merged(s, s, new) = new
<1>1. DOMAIN s = DOMAIN new /\ new = [f \in DOMAIN new |-> new[f]]
  BY DEF Step
<1>2. Merged(s, s, new) = [f \in DOMAIN s |-> new[f]]
  BY DEF Merged
<1> QED BY <1>1, <1>2

LEMMA BodiesAre ==
  /\ IsFiniteSet(Body) /\ Body \subseteq Step({""})
  /\ \A b \in Body : b.id = "" /\ b.order \in Nat
<1>1. \A b \in Body : b.id = ""
  BY AdminAssumption, StepId
<1> QED BY <1>1, AdminAssumption

LEMMA IdsLen ==
  /\ Supply \in Nat /\ DOMAIN Ids = 1..Supply /\ \A i \in 1..Supply : Ids[i] # ""
  /\ MaxSteps \in Nat /\ MaxRequests \in Nat /\ MaxSteps + MaxRequests <= Supply
<1> DEFINE T == STRING \ {""}
<1>1. Ids \in Seq(T)
  BY AdminAssumption
<1>2. "" \notin T
  OBVIOUS
<1> HIDE DEF T
<1>3. Supply \in Nat /\ DOMAIN Ids = 1..Supply /\ \A i \in 1..Supply : Ids[i] \in T
  BY ONLY <1>1 DEF Supply
<1>4. MaxSteps \in Nat /\ MaxRequests \in Nat /\ MaxSteps + MaxRequests <= Supply
  BY AdminAssumption DEF Supply
<1> QED BY <1>2, <1>3, <1>4

LEMMA SupplyIs == Supply \in Nat
BY IdsLen

LEMMA SupplyLasts ==
  ASSUME NEW n \in Nat, n <= MaxSteps + MaxRequests
  PROVE  n <= Supply
<1>1. MaxSteps \in Nat /\ MaxRequests \in Nat /\ Supply \in Nat /\ MaxSteps + MaxRequests <= Supply
  BY IdsLen
<1>2. PICK k : k = MaxSteps + MaxRequests
  OBVIOUS
<1>3. k \in Nat
  BY <1>1, <1>2
<1>4. n <= k /\ k <= Supply
  BY <1>1, <1>2
<1> QED BY <1>1, <1>3, <1>4

LEMMA IdsAre ==
  ASSUME NEW n \in Nat
  PROVE  /\ \A i \in 1..Supply : i \notin 1..n => \A j \in 1..n : j \in 1..Supply => Ids[i] # Ids[j]
         /\ \A i, j \in 1..Supply : Ids[i] = Ids[j] => i = j
<1>1. \A i, j \in 1..Supply : Ids[i] = Ids[j] => i = j
  BY IdsLen, AdminAssumption
<1> QED BY <1>1

(* The first n ids do not hold a later one, nor the empty one. *)
LEMMA GivenIs ==
  ASSUME NEW n \in Nat, n <= Supply
  PROVE  "" \notin Given(n) /\ \A i \in 1..Supply : i \notin 1..n => Ids[i] \notin Given(n)
<1>1. \A j \in 1..n : j \in 1..Supply
  BY SupplyIs
<1>2. \A j \in 1..n : Ids[j] # ""
  BY <1>1, IdsLen
<1> QED BY <1>1, <1>2, IdsAre DEF Given

LEMMA MoreGiven ==
  ASSUME NEW n \in Nat, NEW k \in Nat, n <= k
  PROVE  Given(n) \subseteq Given(k)
BY DEF Given

LEMMA KnownMore ==
  ASSUME NEW n \in Nat, NEW k \in Nat, n <= k, NEW r, KnownBy(r, n)
  PROVE  KnownBy(r, k)
<1>1. \A i \in 1..Supply : i \in 1..n => i \in 1..k
  OBVIOUS
<1> QED BY <1>1 DEF KnownBy

LEMMA ShelfMore ==
  ASSUME NEW n \in Nat, NEW k \in Nat, n <= k, NEW S, Shelf(S, n)
  PROVE  Shelf(S, k)
<1>1. Step(Given(n)) \subseteq Step(Given(k))
  BY MoreGiven, StepIn
<1> QED BY <1>1, KnownMore DEF Shelf

LEMMA CarriesMore ==
  ASSUME NEW n \in Nat, NEW k \in Nat, n <= k, NEW p, Carries(p, n)
  PROVE  Carries(p, k)
<1>1. Step(Given(n)) \subseteq Step(Given(k)) /\ Shelf(p.read, k)
  BY MoreGiven, StepIn, ShelfMore DEF Carries
<1> HIDE DEF Accepts
<1>2. KnownBy(p.row, n) => KnownBy(p.row, k)
  BY KnownMore
<1> QED BY <1>1, <1>2 DEF Carries

LEMMA ShelfLess ==
  ASSUME NEW n, NEW S, Shelf(S, n), NEW R \in SUBSET S
  PROVE  Shelf(R, n)
BY FS_Subset DEF Shelf

(* A definition that is stored as it was validated. *)
LEMMA AcceptedAsIs ==
  ASSUME NEW X, NEW S, IsFiniteSet(S), S \subseteq Step(X), Accepts(S)
  PROVE  Sound(S)
<1> DEFINE m == [s \in S |-> s]
<1>1. \A s \in S : m[s] = s /\ Same(s, m[s])
  BY DEF Same
<1>2. "" \notin References(S)
  BY DEF References
<1>3. S = {m[s] : s \in S}
  BY <1>1
<1> HIDE DEF m
<1>4. Stored(S, S, m)
  BY <1>1, <1>2, <1>3 DEF Stored
<1> QED BY <1>4, StepTyped, AcceptedIsSound, AdminAssumption

LEMMA FreshId ==
  ASSUME NEW k \in 1..Supply, NEW X, Ids[k] \notin X, NEW S, S \subseteq Step(X), \A s \in S : s.name # Ids[k]
  PROVE  Ids[k] \notin References(S)
<1>1. \A s \in S : s.order \in {b.order : b \in Body} /\ s.id \in X
  BY DEF Step
<1>2. k \in DOMAIN Ids
  BY IdsLen
<1>3. \A b \in Body : Ids[k] # Text(b.order)
  BY <1>2, AdminAssumption
<1> QED BY <1>1, <1>3 DEF References

(* A step is added with the next id. *)
LEMMA AddedIsSound ==
  ASSUME NEW n \in Nat, n + 1 <= Supply, NEW S, Shelf(S, n), NEW b \in Body, KnownBy(b, n)
  PROVE  /\ Shelf(S \cup {Saved(b, Ids[n + 1])}, n + 1)
         /\ Accepts(S \cup {b}) => Sound(S \cup {Saved(b, Ids[n + 1])})
<1> DEFINE i == Ids[n + 1]
           new == Saved(b, i)
           X == Given(n) \cup {""}
           m == [s \in S \cup {b} |-> IF s.id = "" THEN new ELSE s]
<1>1. n <= Supply /\ n + 1 \in 1..Supply /\ n + 1 \notin 1..n /\ n <= n + 1
  BY SupplyIs
<1>2. "" \notin Given(n) /\ i \notin Given(n) /\ i # ""
  BY <1>1, GivenIs, IdsLen
<1>3. i \in Given(n + 1)
  BY <1>1 DEF Given
<1>4. b \in Step({""}) /\ b.id = ""
  BY BodiesAre
<1>5. Same(b, new) /\ new.id = i /\ new \in Step({i})
  BY <1>4, SavedIs
<1>6. \A s \in S : s.id \in Given(n) /\ s.id # ""
  BY <1>2, StepId DEF Shelf
<1>7. Shelf(S, n + 1)
  BY <1>1, ShelfMore
<1>8. new \in Step(Given(n + 1))
  <2>1. Step({i}) \subseteq Step(Given(n + 1))
    BY <1>3, StepIn
  <2> QED BY <1>5, <2>1
<1> HIDE DEF new, i
<1>9. Shelf(S \cup {new}, n + 1)
  <2>1. IsFiniteSet(S \cup {new})
    BY <1>7, FS_AddElement DEF Shelf
  <2>2. \A s \in S : s.id # new.id
    BY <1>2, <1>5, <1>6
  <2>3. KnownBy(new, n + 1)
    <3>1. KnownBy(b, n + 1) /\ new.name = b.name
      BY <1>1, <1>5, KnownMore DEF Same
    <3> QED BY <3>1 DEF KnownBy
  <2> QED BY <1>7, <1>8, <2>1, <2>2, <2>3 DEF Shelf
<1>10. ASSUME Accepts(S \cup {b}) PROVE Sound(S \cup {new})
  <2>1. Step(Given(n)) \subseteq Step(X) /\ Step({""}) \subseteq Step(X)
    BY StepIn
  <2>2. S \cup {b} \subseteq Step(X)
    BY <1>4, <2>1 DEF Shelf
  <2>3. i \notin References(S \cup {b})
    <3>1. i \notin X
      BY <1>2
    <3>2. \A s \in S \cup {b} : s.name # i
      BY <1>1 DEF Shelf, KnownBy, i
    <3> HIDE DEF X
    <3> QED BY <1>1, <2>2, <3>1, <3>2, FreshId DEF i
  <2>4. IsFiniteSet(S \cup {b})
    BY FS_AddElement DEF Shelf
  <2>5. m[b] = new /\ \A s \in S : m[s] = s
    BY <1>4, <1>6
  <2> HIDE DEF m
  <2>6. \A s \in S : Same(s, m[s])
    BY <2>5 DEF Same
  <2>7. S \cup {new} = {m[s] : s \in S \cup {b}}
    BY <2>5
  <2>8. Stored(S \cup {b}, S \cup {new}, m)
    BY <1>4, <1>5, <1>6, <2>3, <2>5, <2>6, <2>7 DEF Stored
  <2>9. Typed(S \cup {b})
    BY <2>2, <2>4, StepTyped
  <2> QED BY <1>10, <2>8, <2>9, AcceptedIsSound, AdminAssumption
<1> QED BY <1>9, <1>10 DEF new, i

NotAfter(S, b) == {c \in S : c.order <= b.order}

LEMMA NotAfterIs ==
  ASSUME NEW S, IsFiniteSet(S), NEW b \in S, b.order \in Nat
  PROVE  Cardinality(NotAfter(S, b)) \in 1..Cardinality(S) /\ IsFiniteSet(NotAfter(S, b))
<1>1. b \in NotAfter(S, b) /\ NotAfter(S, b) \in SUBSET S
  BY DEF NotAfter
<1>2. /\ IsFiniteSet(NotAfter(S, b)) /\ Cardinality(NotAfter(S, b)) \in Nat /\ Cardinality(S) \in Nat
      /\ Cardinality(NotAfter(S, b)) <= Cardinality(S) /\ Cardinality(NotAfter(S, b)) # 0
  BY <1>1, FS_Subset, FS_CardinalityType, FS_EmptySet
<1> QED BY <1>2

LEMMA NotAfterDiffers ==
  ASSUME NEW S, IsFiniteSet(S), \A b \in S : b.order \in Nat, NEW b \in S, NEW c \in S, b.order < c.order
  PROVE  Cardinality(NotAfter(S, b)) # Cardinality(NotAfter(S, c))
<1>1. b.order \in Nat /\ c.order \in Nat
  OBVIOUS
<1>2. \A d \in S : d.order <= b.order => d.order <= c.order
  BY <1>1
<1>3. NotAfter(S, b) \in SUBSET NotAfter(S, c) /\ c \in NotAfter(S, c) /\ c \notin NotAfter(S, b)
  BY <1>1, <1>2 DEF NotAfter
<1>4. IsFiniteSet(NotAfter(S, c)) /\ NotAfter(S, b) # NotAfter(S, c)
  BY <1>1, <1>3, NotAfterIs
<1>5. /\ Cardinality(NotAfter(S, b)) \in Nat /\ Cardinality(NotAfter(S, c)) \in Nat
      /\ Cardinality(NotAfter(S, b)) + 1 <= Cardinality(NotAfter(S, c))
  BY <1>3, <1>4, Fewer
<1> QED BY <1>5

(* The first steps are numbered in their order. *)
LEMMA CreatedIsSound ==
  ASSUME NEW bodies \in SUBSET Body, Cardinality(bodies) <= MaxSteps, Accepts(bodies), \A b \in bodies : KnownBy(b, 0),
         NEW stored, stored = {Saved(b, Ids[Cardinality({c \in bodies : c.order <= b.order})]) : b \in bodies}
  PROVE  Cardinality(bodies) \in Nat /\ Shelf(stored, Cardinality(bodies)) /\ Sound(stored)
<1> DEFINE k(b) == Cardinality(NotAfter(bodies, b))
           m == [b \in bodies |-> Saved(b, Ids[k(b)])]
<1> PICK N : N = Cardinality(bodies)
  OBVIOUS
<1>1. /\ IsFiniteSet(bodies) /\ N \in Nat /\ bodies \subseteq Step({""})
      /\ \A b \in bodies : b.order \in Nat /\ b.id = ""
  BY BodiesAre, FS_Subset, FS_CardinalityType
<1>2. N <= Supply
  <2>1. N <= MaxSteps /\ MaxSteps \in Nat /\ MaxRequests \in Nat /\ N \in Nat
    BY <1>1, AdminAssumption
  <2>2. N <= MaxSteps + MaxRequests
    BY <2>1
  <2> QED BY <1>1, <2>2, SupplyLasts
<1>3. \A b \in bodies : k(b) \in 1..N
  BY <1>1, NotAfterIs
<1>4. \A b \in bodies : k(b) \in 1..Supply
  <2> HIDE DEF k
  <2>1. N \in Nat
    BY <1>1
  <2>2. 1..N \subseteq 1..Supply
    BY <1>2, <2>1, SupplyIs
  <2> QED BY <1>3, <2>2
<1>5. ASSUME NEW b \in bodies, NEW c \in bodies, k(b) = k(c) PROVE b = c
  <2>1. b.order \in Nat /\ c.order \in Nat
    BY <1>1
  <2>2. ~(b.order < c.order) /\ ~(c.order < b.order)
    BY <1>1, <1>5, NotAfterDiffers
  <2>3. b.order = c.order
    BY <2>1, <2>2
  <2> QED BY <2>3 DEF Accepts, WellRouted, Distinct
<1>6. stored = {m[b] : b \in bodies}
  BY DEF NotAfter
<1> HIDE DEF k
<1>7. \A b \in bodies : Same(b, m[b]) /\ m[b].id = Ids[k(b)] /\ m[b] \in Step({Ids[k(b)]})
  BY <1>1, SavedIs
<1>8. \A b \in bodies : Ids[k(b)] \in Given(N)
  BY <1>3 DEF Given
<1> HIDE DEF m
<1>9. Shelf(stored, N)
  <2>1. IsFiniteSet(stored)
    <3>1. [b \in bodies |-> m[b]] \in Surjection(bodies, stored)
      BY <1>6 DEF Surjection
    <3> QED BY <1>1, <3>1, FS_Surjection
  <2>2. stored \subseteq Step(Given(N))
    <3>1. \A b \in bodies : Step({Ids[k(b)]}) \subseteq Step(Given(N))
      BY <1>8, StepIn
    <3> QED BY <1>6, <1>7, <3>1
  <2>3. ASSUME NEW s \in stored, NEW t \in stored, s.id = t.id PROVE s = t
    <3>1. PICK b \in bodies, c \in bodies : s = m[b] /\ t = m[c]
      BY <1>6
    <3>2. k(b) \in 1..Supply /\ k(c) \in 1..Supply /\ Ids[k(b)] = Ids[k(c)]
      BY <1>4, <1>7, <2>3, <3>1
    <3>3. k(b) = k(c)
      BY <1>1, <3>2, IdsAre
    <3> QED BY <1>5, <3>1, <3>3
  <2>4. ASSUME NEW s \in stored PROVE KnownBy(s, N)
    <3>1. PICK b \in bodies : s = m[b] /\ s.name = b.name
      BY <1>6, <1>7 DEF Same
    <3>2. N \in Nat /\ KnownBy(b, 0)
      BY <1>1
    <3>3. 0 \in Nat /\ 0 <= N
      BY ONLY <3>2
    <3>4. KnownBy(b, N)
      BY ONLY <3>2, <3>3, KnownMore
    <3> QED BY <3>1, <3>4 DEF KnownBy
  <2> QED BY <2>1, <2>2, <2>3, <2>4 DEF Shelf
<1>10. Stored(bodies, stored, m)
  <2>1. ASSUME NEW b \in bodies PROVE m[b].id \notin References(bodies)
    <3>1. Ids[k(b)] \notin {""}
      BY <1>4, IdsLen
    <3>2. \A c \in bodies : c.name # Ids[k(b)]
      BY <1>4 DEF KnownBy
    <3> QED BY <1>1, <1>4, <1>7, <3>1, <3>2, FreshId
  <2> QED BY <1>1, <1>6, <1>7, <2>1 DEF Stored
<1>11. Sound(stored)
  BY <1>1, <1>10, StepTyped, AcceptedIsSound, AdminAssumption
<1> QED BY <1>1, <1>9, <1>11

-----------------------------------------------------------------------------
LEMMA AdminStarts == AdminInit => AdminInv
<1> SUFFICES ASSUME AdminInit PROVE AdminInv
  OBVIOUS
<1>1. DOMAIN pending = Admin /\ \A a \in Admin : pending[a] = Idle
  BY DEF AdminInit
<1>2. Active = {}
  BY <1>1 DEF Active
<1>3. IsFiniteSet({}) /\ Cardinality({}) = 0
  BY FS_EmptySet
<1>4. IsFiniteSet(Active) /\ Cardinality(Active) = 0
  BY <1>2, <1>3
<1>5. made = 0 /\ requests = 0 /\ version = 1 /\ rows = {} /\ DOMAIN published = {}
  BY DEF AdminInit
<1>6. Shelf(rows, made)
  BY <1>3, <1>5 DEF Shelf
<1>7. alive = FALSE /\ skewed = FALSE /\ behind = FALSE
  BY DEF AdminInit
<1>8. LiveSound /\ PublishedSound
  BY <1>5, <1>7 DEF LiveSound, PublishedSound
<1>9. MaxSteps \in Nat /\ MaxRequests \in Nat
  BY AdminAssumption
<1>10. made \in Nat /\ requests \in 0..MaxRequests /\ Cardinality(Active) <= requests
  BY <1>4, <1>5, <1>9
<1>11. made + Cardinality(Active) <= MaxSteps + requests
  BY <1>4, <1>5, <1>9
<1>12. version \in Nat \ {0} /\ DOMAIN published \subseteq Nat \ {0} /\ \A n \in DOMAIN published : n < version
  BY <1>5
<1>13. alive \in BOOLEAN /\ skewed \in BOOLEAN /\ behind \in BOOLEAN
  BY <1>7
<1>14. ~alive /\ requests = 0 => made = 0
  BY <1>5
<1> QED BY <1>1, <1>4, <1>6, <1>8, <1>10, <1>11, <1>12, <1>13, <1>14 DEF AdminInv

Op == {"add", "update", "delete", "publish", "put", "drop"}

(* A request that is made carries what it validated. *)
LEMMA ReadsKeep ==
  ASSUME AdminInv, NEW a \in Admin, NEW op \in Op, NEW row, Reads(a, op, row),
         Carries([op |-> op, row |-> row, read |-> rows, num |-> version], made)
  PROVE  AdminInv'
<1> DEFINE p == [op |-> op, row |-> row, read |-> rows, num |-> version]
<1>1. p.op = op
  OBVIOUS
<1> HIDE DEF p
<1>2. pending' = [pending EXCEPT ![a] = p] /\ pending[a] = Idle /\ requests < MaxRequests /\ requests' = requests + 1
  BY DEF Reads, p
<1>3. UNCHANGED <<alive, rows, version, published, made, skewed, behind>>
  BY DEF Reads
<1>4. /\ IsFiniteSet(Active) /\ Cardinality(Active) <= requests /\ requests \in 0..MaxRequests /\ made \in Nat
      /\ made + Cardinality(Active) <= MaxSteps + requests /\ DOMAIN pending = Admin
  BY DEF AdminInv
<1>5. p # Idle
  BY <1>1 DEF Idle, Op
<1>6. Active' = Active \cup {a} /\ a \notin Active
  BY <1>2, <1>4, <1>5 DEF Active
<1>7. IsFiniteSet(Active') /\ Cardinality(Active') = Cardinality(Active) + 1 /\ Cardinality(Active) \in Nat
  BY <1>4, <1>6, FS_AddElement, FS_CardinalityType
<1>8. MaxSteps \in Nat /\ MaxRequests \in Nat
  BY AdminAssumption
<1>9. /\ requests' \in 0..MaxRequests /\ Cardinality(Active') <= requests'
      /\ made + Cardinality(Active') <= MaxSteps + requests'
  BY <1>2, <1>4, <1>7, <1>8
<1>10. DOMAIN pending' = Admin /\ \A b \in Admin : pending'[b] = Idle \/ Carries(pending'[b], made)
  <2>1. Carries(p, made)
    BY DEF p
  <2>2. \A b \in Admin : pending[b] = Idle \/ Carries(pending[b], made)
    BY DEF AdminInv
  <2>3. \A b \in Admin : pending'[b] = IF b = a THEN p ELSE pending[b]
    BY <1>2, <1>4
  <2> QED BY <1>2, <1>4, <2>1, <2>2, <2>3
<1>11. LiveSound' /\ PublishedSound'
  BY <1>3 DEF AdminInv, LiveSound, PublishedSound
<1>12. /\ alive' \in BOOLEAN /\ skewed' \in BOOLEAN /\ behind' \in BOOLEAN /\ made' \in Nat /\ made' = made
       /\ version' \in Nat \ {0} /\ DOMAIN published' \subseteq Nat \ {0} /\ Shelf(rows', made')
       /\ ~behind' => \A n \in DOMAIN published' : n < version'
  BY <1>3 DEF AdminInv
<1>13. \A b \in Admin : pending'[b] = Idle \/ Carries(pending'[b], made')
  BY <1>10, <1>12
<1>14. made' + Cardinality(Active') <= MaxSteps + requests'
  BY <1>9, <1>12
<1> QED BY <1>7, <1>9, <1>10, <1>11, <1>12, <1>13, <1>14 DEF AdminInv

(* What a commit has to establish. *)
Committed ==
  /\ alive' \in BOOLEAN /\ skewed' \in BOOLEAN /\ behind' \in BOOLEAN
  /\ requests' = requests /\ Shelf(rows', made')
  /\ version' \in Nat \ {0} /\ DOMAIN published' \subseteq Nat \ {0}
  /\ ~behind' => \A n \in DOMAIN published' : n < version'
  /\ LiveSound' /\ PublishedSound'

LEMMA Carried ==
  ASSUME AdminInv, NEW a \in Admin, NEW op \in Op, Finishes(a, op)
  PROVE  /\ Carries(pending[a], made) /\ pending[a].op = op
         /\ a \in Active /\ Cardinality(Active) \in Nat /\ Cardinality(Active) # 0
<1>1. pending[a].op = op /\ pending[a] # Idle
  BY DEF Finishes, Idle, Op
<1>2. Carries(pending[a], made)
  BY <1>1 DEF AdminInv
<1>3. a \in Active
  BY <1>1 DEF Active
<1>4. IsFiniteSet(Active)
  BY DEF AdminInv
<1>5. Cardinality(Active) \in Nat /\ Cardinality(Active) # 0
  BY <1>3, <1>4, FS_CardinalityType, FS_EmptySet
<1> QED BY <1>1, <1>2, <1>3, <1>5

LEMMA EditKeeps ==
  ASSUME AdminInv, NEW a \in Admin, NEW op \in Op, Finishes(a, op), Committed, made' \in {made, made + 1}
  PROVE  AdminInv'
<1>1. a \in Active /\ Cardinality(Active) \in Nat /\ Cardinality(Active) # 0
  BY Carried
<1>2. /\ IsFiniteSet(Active) /\ Cardinality(Active) <= requests /\ requests \in 0..MaxRequests /\ made \in Nat
      /\ made + Cardinality(Active) <= MaxSteps + requests /\ DOMAIN pending = Admin
  BY DEF AdminInv
<1>3. pending' = [pending EXCEPT ![a] = Idle]
  BY DEF Finishes
<1>4. DOMAIN pending' = Admin /\ \A b \in Admin : pending'[b] = IF b = a THEN Idle ELSE pending[b]
  BY <1>2, <1>3
<1>5. Active' = Active \ {a}
  BY <1>4 DEF Active
<1>6. IsFiniteSet(Active') /\ Cardinality(Active') = Cardinality(Active) - 1
  BY <1>1, <1>2, <1>5, FS_RemoveElement
<1>7. MaxSteps \in Nat /\ requests' = requests
  BY AdminAssumption DEF Committed
<1>8. made' \in Nat /\ made <= made'
  BY <1>2
<1>9. /\ requests' \in 0..MaxRequests /\ Cardinality(Active') <= requests'
      /\ made' + Cardinality(Active') <= MaxSteps + requests'
  BY <1>1, <1>2, <1>6, <1>7
<1>10. ASSUME NEW b \in Admin PROVE pending'[b] = Idle \/ Carries(pending'[b], made')
  <2>1. pending[b] = Idle \/ Carries(pending[b], made)
    BY DEF AdminInv
  <2>2. Carries(pending[b], made) => Carries(pending[b], made')
    BY <1>2, <1>8, CarriesMore
  <2> QED BY <1>4, <2>1, <2>2
<1>11. ~(requests' = 0)
  BY <1>1, <1>2, <1>7
<1> QED BY <1>4, <1>6, <1>8, <1>9, <1>10, <1>11 DEF AdminInv, Committed

LEMMA Unguessed ==
  ASSUME made \in Nat, NEW b, ~Guessed(b)
  PROVE  KnownBy(b, made)
<1>1. ASSUME NEW k \in 1..Supply, b.name = Ids[k] PROVE k \in 1..made
  <2>1. ~(k > made)
    BY <1>1, IdsLen DEF Guessed
  <2>2. k \in Nat /\ 1 <= k
    BY SupplyIs
  <2> QED BY <2>1, <2>2
<1> QED BY <1>1 DEF KnownBy

LEMMA CreateKeeps == AdminInv /\ Create => AdminInv'
<1> SUFFICES ASSUME AdminInv, Create PROVE AdminInv'
  OBVIOUS
<1>1. PICK bodies \in SUBSET Body :
        /\ Cardinality(bodies) <= MaxSteps /\ Accepts(bodies) /\ \A b \in bodies : ~Guessed(b)
        /\ rows' = {Saved(b, Ids[Cardinality({c \in bodies : c.order <= b.order})]) : b \in bodies}
        /\ made' = Cardinality(bodies)
  BY DEF Create
<1>2. requests = 0 /\ alive' = TRUE /\ UNCHANGED <<version, published, pending, requests, skewed, behind>>
  BY DEF Create
<1>3. made' \in Nat /\ Shelf(rows', made') /\ Sound(rows')
  <2>1. Cardinality(bodies) \in Nat /\ Shelf(rows', Cardinality(bodies)) /\ Sound(rows')
    <3>1. made = 0 /\ made \in Nat
      BY DEF AdminInv, Create
    <3>2. \A b \in bodies : KnownBy(b, made)
      BY <1>1, <3>1, Unguessed
    <3> QED BY <1>1, <3>1, <3>2, CreatedIsSound
  <2> QED BY <1>1, <2>1
<1>4. IsFiniteSet(Active) /\ Cardinality(Active) = 0 /\ Active = {}
  <2>1. IsFiniteSet(Active) /\ Cardinality(Active) <= requests
    BY DEF AdminInv
  <2>2. Cardinality(Active) \in Nat
    BY <2>1, FS_CardinalityType
  <2>3. Cardinality(Active) = 0
    BY <1>2, <2>1, <2>2
  <2> QED BY <2>1, <2>3, FS_EmptySet
<1>5. Active' = Active
  BY <1>2 DEF Active
<1>6. \A a \in Admin : pending'[a] = Idle
  BY <1>2, <1>4 DEF Active
<1>7. MaxSteps \in Nat /\ made' <= MaxSteps
  BY <1>1, AdminAssumption
<1>8. made' + Cardinality(Active') <= MaxSteps + requests' /\ Cardinality(Active') <= requests' /\ IsFiniteSet(Active')
  BY <1>2, <1>3, <1>4, <1>5, <1>7
<1>9. /\ alive' \in BOOLEAN /\ skewed' \in BOOLEAN /\ behind' \in BOOLEAN /\ requests' \in 0..MaxRequests
      /\ DOMAIN pending' = Admin /\ version' \in Nat \ {0} /\ DOMAIN published' \subseteq Nat \ {0}
      /\ ~behind' => \A n \in DOMAIN published' : n < version'
  BY <1>2 DEF AdminInv
<1>10. LiveSound' /\ PublishedSound'
  BY <1>2, <1>3 DEF AdminInv, LiveSound, PublishedSound
<1>11. ~(~alive' /\ requests' = 0)
  BY <1>2
<1> QED BY <1>3, <1>6, <1>8, <1>9, <1>10, <1>11 DEF AdminInv

(* The first half of each request. *)
LEMMA Beginning ==
  ASSUME AdminInv
  PROVE  Shelf(rows, made) /\ version \in Nat \ {0} /\ made \in Nat
BY DEF AdminInv

LEMMA RequestsKeep ==
  ASSUME AdminInv, NEW a \in Admin,
         AddStep(a) \/ UpdateStep(a) \/ DeleteStep(a) \/ Publish(a) \/ UpdateWorkflow(a) \/ DeleteWorkflow(a)
  PROVE  AdminInv'
<1> HIDE DEF Accepts
<1>1. Shelf(rows, made) /\ version \in Nat \ {0} /\ made \in Nat
  BY Beginning
<1>2. CASE AddStep(a)
  <2>1. PICK b \in Body : Accepts(rows \cup {b}) /\ Reads(a, "add", b) /\ KnownBy(b, made)
    BY <1>1, <1>2, Unguessed DEF AddStep
  <2>2. Carries([op |-> "add", row |-> b, read |-> rows, num |-> version], made)
    BY <1>1, <2>1 DEF Carries
  <2> QED BY <2>1, <2>2, ReadsKeep DEF Op
<1>3. CASE UpdateStep(a)
  <2>1. PICK s \in rows, b \in Body :
          /\ Accepts((rows \ {s}) \cup {Saved(b, s.id)}) /\ Reads(a, "update", Saved(b, s.id))
          /\ KnownBy(b, made)
    BY <1>1, <1>3, Unguessed DEF UpdateStep
  <2>2. b \in Step({""}) /\ s.id \in Given(made)
    BY <1>1, BodiesAre, StepId DEF Shelf
  <2>3. Saved(b, s.id).id = s.id /\ Saved(b, s.id) \in Step(Given(made))
    <3>1. Step({s.id}) \subseteq Step(Given(made))
      BY <2>2, StepIn
    <3> QED BY <2>2, <3>1, SavedIs
  <2>4. KnownBy(Saved(b, s.id), made)
    <3>1. Saved(b, s.id).name = b.name
      BY <2>2, SavedIs DEF Same
    <3> QED BY <2>1, <3>1 DEF KnownBy
  <2> PICK row : row = Saved(b, s.id)
    OBVIOUS
  <2>5. Carries([op |-> "update", row |-> row, read |-> rows, num |-> version], made)
    BY <1>1, <2>1, <2>3, <2>4 DEF Carries
  <2> QED BY <2>1, <2>5, ReadsKeep DEF Op
<1>4. CASE DeleteStep(a)
  <2>1. PICK s \in rows : Accepts(rows \ {s}) /\ Reads(a, "delete", s)
    BY <1>4 DEF DeleteStep
  <2>2. Carries([op |-> "delete", row |-> s, read |-> rows, num |-> version], made)
    BY <1>1, <2>1 DEF Carries
  <2> QED BY <2>1, <2>2, ReadsKeep DEF Op
<1>5. CASE Publish(a)
  <2>1. Accepts(rows) /\ Reads(a, "publish", NoRow)
    BY <1>5 DEF Publish
  <2>2. Carries([op |-> "publish", row |-> NoRow, read |-> rows, num |-> version], made)
    BY <1>1, <2>1 DEF Carries
  <2> QED BY <2>1, <2>2, ReadsKeep DEF Op
<1>6. CASE UpdateWorkflow(a)
  <2>1. Carries([op |-> "put", row |-> NoRow, read |-> rows, num |-> version], made)
    BY <1>1 DEF Carries
  <2> QED BY <1>6, <2>1, ReadsKeep DEF Op, UpdateWorkflow
<1>7. CASE DeleteWorkflow(a)
  <2>1. Carries([op |-> "drop", row |-> NoRow, read |-> rows, num |-> version], made)
    BY <1>1 DEF Carries
  <2> QED BY <1>7, <2>1, ReadsKeep DEF Op, DeleteWorkflow
<1> QED BY <1>2, <1>3, <1>4, <1>5, <1>6, <1>7

(* A commit on the steps leaves the publications and the counter alone. *)
LEMMA RowsKept ==
  ASSUME AdminInv, NEW a \in Admin, Stale(a), UNCHANGED <<alive, version, published, requests, behind>>,
         Shelf(rows', made'), alive /\ pending[a].read = rows => Sound(rows')
  PROVE  Committed
<1>1. skewed' \in BOOLEAN /\ (~skewed' => pending[a].read = rows)
  BY DEF Stale
<1>2. LiveSound' /\ PublishedSound'
  BY <1>1 DEF AdminInv, LiveSound, PublishedSound
<1> QED BY <1>1, <1>2 DEF AdminInv, Committed

LEMMA CommitAddKeeps ==
  ASSUME AdminInv, NEW a \in Admin, CommitAdd(a)
  PROVE  AdminInv'
<1>1. Finishes(a, "add") /\ Stale(a) /\ UNCHANGED <<alive, version, published, requests, behind>>
  BY DEF CommitAdd
<1>2. /\ Carries(pending[a], made) /\ pending[a].op = "add"
      /\ Cardinality(Active) \in Nat /\ Cardinality(Active) # 0
  BY <1>1, Carried DEF Op
<1>3. /\ pending[a].row \in Body /\ KnownBy(pending[a].row, made)
      /\ Accepts(pending[a].read \cup {pending[a].row})
  BY <1>2 DEF Carries
<1>4. made \in Nat /\ Shelf(rows, made)
  BY DEF AdminInv
<1>5. made + 1 <= Supply
  <2>1. /\ requests \in 0..MaxRequests /\ made + Cardinality(Active) <= MaxSteps + requests
        /\ MaxSteps \in Nat /\ MaxRequests \in Nat
    BY AdminAssumption DEF AdminInv
  <2>2. made + 1 <= MaxSteps + MaxRequests /\ made + 1 \in Nat
    BY <1>2, <1>4, <2>1
  <2> QED BY <2>2, SupplyLasts
<1>6. Committed /\ made' \in {made, made + 1}
  <2>1. CASE rows' = rows \cup {Saved(pending[a].row, Ids[made + 1])} /\ made' = made + 1
    <3> PICK b \in Body : b = pending[a].row /\ KnownBy(b, made)
      BY <1>3
    <3>1. Accepts(pending[a].read \cup {b}) /\ rows' = rows \cup {Saved(b, Ids[made + 1])}
      BY <1>3, <2>1
    <3>2. Shelf(rows \cup {Saved(b, Ids[made + 1])}, made + 1) /\ (Accepts(rows \cup {b}) => Sound(rows \cup {Saved(b, Ids[made + 1])}))
      BY <1>4, <1>5, AddedIsSound
    <3>3. Shelf(rows', made') /\ (pending[a].read = rows => Sound(rows'))
      BY <2>1, <3>1, <3>2
    <3> QED BY <1>1, <2>1, <3>3, RowsKept
  <2>2. CASE ~alive /\ UNCHANGED <<rows, made>>
    <3>1. Shelf(rows', made')
      BY <1>4, <2>2
    <3> QED BY <1>1, <2>2, <3>1, RowsKept
  <2> QED BY <2>1, <2>2 DEF CommitAdd
<1> QED BY <1>1, <1>6, EditKeeps DEF Op

LEMMA CommitUpdateKeeps ==
  ASSUME AdminInv, NEW a \in Admin, CommitUpdate(a)
  PROVE  AdminInv'
<1> PICK new, read, old : new = pending[a].row /\ read = pending[a].read /\ old = CHOOSE s \in read : s.id = new.id
  OBVIOUS
<1>1. /\ Finishes(a, "update") /\ Stale(a) /\ UNCHANGED <<alive, version, published, requests, behind>>
      /\ made' = made /\ rows' = {IF s.id = new.id THEN Merged(s, old, new) ELSE s : s \in rows}
  BY DEF CommitUpdate
<1>2. Carries(pending[a], made) /\ pending[a].op = "update"
  BY <1>1, Carried DEF Op
<1>3. new \in Step(Given(made)) /\ KnownBy(new, made) /\ \E s \in read : new.id = s.id /\ Accepts((read \ {s}) \cup {new})
  BY <1>2 DEF Carries
<1>4. made \in Nat /\ Shelf(rows, made)
  BY DEF AdminInv
<1> DEFINE f == [s \in rows |-> IF s.id = new.id THEN Merged(s, old, new) ELSE s]
<1>5. \A s \in rows : f[s] \in Step(Given(made)) /\ f[s].id = s.id /\ f[s].name \in {s.name, new.name}
  BY <1>3, <1>4, MergedIn DEF Shelf
<1>6. rows' = {f[s] : s \in rows}
  BY <1>1
<1>7. Shelf(rows', made')
  <2> HIDE DEF f
  <2>1. IsFiniteSet(rows')
    <3>1. [s \in rows |-> f[s]] \in Surjection(rows, rows')
      BY <1>6 DEF Surjection
    <3> QED BY <1>4, <3>1, FS_Surjection DEF Shelf
  <2>2. rows' \subseteq Step(Given(made))
    BY <1>5, <1>6
  <2>3. \A s, t \in rows : s.id = t.id => s = t
    BY <1>4 DEF Shelf
  <2>4. ASSUME NEW u \in rows', NEW v \in rows', u.id = v.id PROVE u = v
    BY <1>5, <1>6, <2>3, <2>4
  <2>5. ASSUME NEW u \in rows' PROVE KnownBy(u, made)
    <3>1. PICK s \in rows : u = f[s]
      BY <1>6
    <3>2. KnownBy(s, made) /\ u.name \in {s.name, new.name}
      BY <1>4, <1>5, <3>1 DEF Shelf
    <3> QED BY <1>3, <3>2 DEF KnownBy
  <2>6. Shelf(rows', made)
    BY <2>1, <2>2, <2>4, <2>5 DEF Shelf
  <2> QED BY <1>1, <2>6
<1>8. ASSUME read = rows PROVE Sound(rows')
  <2>1. PICK s \in rows : new.id = s.id /\ Accepts((rows \ {s}) \cup {new})
    BY <1>3, <1>8
  <2>2. \A t \in rows : t.id = new.id <=> t = s
    BY <1>4, <2>1 DEF Shelf
  <2>3. old = s
    BY <1>8, <2>2
  <2>4. Merged(s, old, new) = new
    <3>1. s \in Step(Given(made)) /\ new \in Step(Given(made))
      BY <1>3, <1>4 DEF Shelf
    <3>2. Merged(s, s, new) = new
      BY <3>1, MergedIs
    <3> QED BY <2>3, <3>2
  <2>5. f[s] = new /\ \A t \in rows \ {s} : f[t] = t
    BY <2>1, <2>2, <2>4
  <2> HIDE DEF f
  <2>6. rows' = (rows \ {s}) \cup {new}
    BY <1>6, <2>5
  <2>7. IsFiniteSet(rows') /\ rows' \subseteq Step(Given(made'))
    BY <1>7 DEF Shelf
  <2> QED BY <2>1, <2>6, <2>7, AcceptedAsIs
<1>9. Committed
  BY <1>1, <1>7, <1>8, RowsKept
<1> QED BY <1>1, <1>9, EditKeeps DEF Op

LEMMA CommitDeleteKeeps ==
  ASSUME AdminInv, NEW a \in Admin, CommitDelete(a)
  PROVE  AdminInv'
<1>1. /\ Finishes(a, "delete") /\ Stale(a) /\ UNCHANGED <<alive, version, published, requests, behind>>
      /\ made' = made /\ rows' = {s \in rows : s.id # pending[a].row.id}
  BY DEF CommitDelete
<1>2. Carries(pending[a], made) /\ pending[a].op = "delete"
  BY <1>1, Carried DEF Op
<1>3. pending[a].row \in pending[a].read /\ Accepts(pending[a].read \ {pending[a].row})
  BY <1>2 DEF Carries
<1>4. Shelf(rows, made)
  BY DEF AdminInv
<1>5. Shelf(rows', made')
  BY <1>1, <1>4, ShelfLess
<1>6. ASSUME pending[a].read = rows PROVE Sound(rows')
  <2>1. rows' = rows \ {pending[a].row}
    BY <1>1, <1>3, <1>4, <1>6 DEF Shelf
  <2>2. IsFiniteSet(rows') /\ rows' \subseteq Step(Given(made'))
    BY <1>5 DEF Shelf
  <2> QED BY <1>3, <1>6, <2>1, <2>2, AcceptedAsIs
<1>7. Committed
  BY <1>1, <1>5, <1>6, RowsKept
<1> QED BY <1>1, <1>7, EditKeeps DEF Op

LEMMA CommitPublishKeeps ==
  ASSUME AdminInv, NEW a \in Admin, CommitPublish(a)
  PROVE  AdminInv'
<1> PICK n, read : n = pending[a].num /\ read = pending[a].read
  OBVIOUS
<1>1. Finishes(a, "publish") /\ UNCHANGED <<alive, rows, made, requests, skewed>>
  BY DEF CommitPublish
<1>2. Carries(pending[a], made) /\ pending[a].op = "publish"
  BY <1>1, Carried DEF Op
<1>3. n \in Nat \ {0} /\ Shelf(read, made) /\ Accepts(read)
  BY <1>2 DEF Carries
<1>4. Sound(read)
  BY <1>3, AcceptedAsIs DEF Shelf
<1>5. /\ alive' \in BOOLEAN /\ skewed' \in BOOLEAN /\ Shelf(rows', made') /\ LiveSound'
  BY <1>1 DEF AdminInv, LiveSound
<1>6. CASE alive /\ n \notin DOMAIN published
  <2>1. published' = Overlay(published, [k \in {n} |-> read]) /\ version' = n + 1 /\ behind' = (behind \/ n # version)
    BY <1>6 DEF CommitPublish, Numbered
  <2>2. /\ DOMAIN published' = DOMAIN published \cup {n} /\ published'[n] = read
        /\ \A k \in DOMAIN published : published'[k] = published[k]
    BY <1>6, <2>1 DEF Overlay
  <2>3. PublishedSound'
    BY <1>4, <2>2 DEF AdminInv, PublishedSound
  <2>4. version' \in Nat \ {0} /\ DOMAIN published' \subseteq Nat \ {0} /\ behind' \in BOOLEAN
    BY <1>3, <2>1, <2>2 DEF AdminInv
  <2>5. ASSUME ~behind', NEW k \in DOMAIN published' PROVE k < version'
    <3>1. ~behind /\ n = version /\ version \in Nat
      BY <2>1, <2>5 DEF AdminInv
    <3>2. k \in DOMAIN published => k < version /\ k \in Nat
      BY <3>1 DEF AdminInv
    <3>3. k \in DOMAIN published \/ k = n
      BY <2>2
    <3> QED BY <2>1, <3>1, <3>2, <3>3
  <2> QED BY <1>1, <1>5, <2>3, <2>4, <2>5, EditKeeps DEF Op, Committed
<1>7. CASE ~(alive /\ n \notin DOMAIN published)
  <2>1. UNCHANGED <<published, version, behind>>
    BY <1>7 DEF CommitPublish
  <2>2. PublishedSound' /\ behind' \in BOOLEAN /\ version' \in Nat \ {0} /\ DOMAIN published' \subseteq Nat \ {0}
    BY <2>1 DEF AdminInv, PublishedSound
  <2>3. ~behind' => \A k \in DOMAIN published' : k < version'
    BY <2>1 DEF AdminInv
  <2> QED BY <1>1, <1>5, <2>2, <2>3, EditKeeps DEF Op, Committed
<1> QED BY <1>6, <1>7

LEMMA CommitPutKeeps ==
  ASSUME AdminInv, NEW a \in Admin, CommitPut(a)
  PROVE  AdminInv'
<1>1. Finishes(a, "put") /\ UNCHANGED <<alive, rows, published, made, requests, skewed>>
  BY DEF CommitPut
<1>2. pending[a].num \in Nat \ {0}
  BY <1>1, Carried DEF Op, Carries
<1>3. /\ alive' \in BOOLEAN /\ skewed' \in BOOLEAN /\ Shelf(rows', made') /\ LiveSound' /\ PublishedSound'
      /\ DOMAIN published' \subseteq Nat \ {0}
  BY <1>1 DEF AdminInv, LiveSound, PublishedSound
<1>4. version' \in Nat \ {0} /\ behind' \in BOOLEAN
  BY <1>2 DEF AdminInv, CommitPut, Numbered
<1>5. ASSUME ~behind', NEW k \in DOMAIN published' PROVE k < version'
  <2>1. /\ ~behind /\ version \in Nat /\ k \in DOMAIN published
        /\ version' = version \/ version' = version + 1
    BY <1>1, <1>5 DEF AdminInv, CommitPut, Numbered
  <2>2. k < version /\ k \in Nat
    BY <2>1 DEF AdminInv
  <2> QED BY <2>1, <2>2
<1> QED BY <1>1, <1>3, <1>4, <1>5, EditKeeps DEF Op, Committed

LEMMA CommitDropKeeps ==
  ASSUME AdminInv, NEW a \in Admin, CommitDrop(a)
  PROVE  AdminInv'
<1>1. /\ Finishes(a, "drop") /\ alive' = FALSE /\ UNCHANGED <<version, published, made, requests, skewed, behind>>
      /\ rows' = {s \in rows : \A t \in pending[a].read : t.id # s.id}
  BY DEF CommitDrop
<1>2. Shelf(rows', made')
  BY <1>1, ShelfLess DEF AdminInv
<1>3. LiveSound' /\ PublishedSound'
  BY <1>1 DEF AdminInv, LiveSound, PublishedSound
<1>4. Committed
  BY <1>1, <1>2, <1>3 DEF AdminInv, Committed
<1> QED BY <1>1, <1>4, EditKeeps DEF Op

LEMMA AdminKeeps == AdminInv /\ [AdminNext]_adminVars => AdminInv'
<1> SUFFICES ASSUME AdminInv, [AdminNext]_adminVars PROVE AdminInv'
  OBVIOUS
<1>1. CASE Create
  BY <1>1, CreateKeeps
<1>2. ASSUME NEW a \in Admin,
             AddStep(a) \/ UpdateStep(a) \/ DeleteStep(a) \/ Publish(a) \/ UpdateWorkflow(a) \/ DeleteWorkflow(a)
      PROVE  AdminInv'
  BY <1>2, RequestsKeep
<1>3. ASSUME NEW a \in Admin,
             CommitAdd(a) \/ CommitUpdate(a) \/ CommitDelete(a) \/ CommitPublish(a) \/ CommitPut(a) \/ CommitDrop(a)
      PROVE  AdminInv'
  BY <1>3, CommitAddKeeps, CommitUpdateKeeps, CommitDeleteKeeps, CommitPublishKeeps, CommitPutKeeps, CommitDropKeeps
<1>4. CASE UNCHANGED adminVars
  <2>1. UNCHANGED adminVars
    BY <1>4
  <2>2. UNCHANGED <<alive, rows, version, published, pending, made, requests, skewed, behind>>
    BY <2>1 DEF adminVars
  <2>3. Active' = Active /\ LiveSound' = LiveSound /\ PublishedSound' = PublishedSound
    BY <2>2 DEF Active, LiveSound, PublishedSound
  <2> QED BY <2>2, <2>3 DEF AdminInv
<1> QED BY <1>1, <1>2, <1>3, <1>4 DEF AdminNext

(* AdminInv is inductive. *)
LEMMA AdminInvariant == AdminSpec => []AdminInv
BY AdminStarts, AdminKeeps, PTL DEF AdminSpec

-----------------------------------------------------------------------------
LEMMA InvIsSound == AdminInv => DefinitionsSound
<1> SUFFICES ASSUME AdminInv PROVE DefinitionsSound
  OBVIOUS
<1>1. /\ alive \in BOOLEAN /\ skewed \in BOOLEAN /\ behind \in BOOLEAN
      /\ made \in Nat /\ requests \in 0..MaxRequests
      /\ version \in Nat \ {0} /\ DOMAIN published \subseteq Nat \ {0}
      /\ Shelf(rows, made) /\ LiveSound /\ PublishedSound
  BY DEF AdminInv
<1>2. \A s \in rows : s.id \in {Ids[n] : n \in 1..made}
  <2>1. \A s \in rows : s.id \in Given(made)
    BY <1>1, StepId DEF Shelf
  <2> QED BY <2>1 DEF Given
<1>3. \A s, t \in rows : s.id = t.id => s = t
  BY <1>1 DEF Shelf
<1>4. \A a \in Admin : pending[a].op \in {"none", "add", "update", "delete", "publish", "put", "drop"}
  <2>1. \A a \in Admin : pending[a] = Idle \/ Carries(pending[a], made)
    BY DEF AdminInv
  <2>2. \A n, p : Carries(p, n) => p.op \in Op
    BY DEF Carries, Op
  <2>3. Idle.op = "none"
    BY DEF Idle
  <2> QED BY <2>1, <2>2, <2>3 DEF Op
<1>5. AdminTypeOK
  BY <1>1, <1>2, <1>3, <1>4 DEF AdminTypeOK
<1>6. NumberIsFree
  <2>1. ~behind => \A n \in DOMAIN published : n < version
    BY DEF AdminInv
  <2> QED BY <1>1, <2>1 DEF NumberIsFree
<1> QED BY <1>1, <1>5, <1>6 DEF DefinitionsSound

LEMMA InvIsExact == AdminInv => CycleCheckExact
<1> SUFFICES ASSUME AdminInv, NEW b \in Body, WellRouted(rows \cup {b}), AllClear(rows \cup {b})
             PROVE  AutomaticCycle(rows \cup {b}) <=> Endless(rows \cup {b})
  BY DEF CycleCheckExact
<1>1. Shelf(rows, made)
  BY DEF AdminInv
<1>2. Step(Given(made)) \subseteq Step(Given(made) \cup {""}) /\ Step({""}) \subseteq Step(Given(made) \cup {""})
  BY StepIn
<1>3. rows \cup {b} \subseteq Step(Given(made) \cup {""})
  BY <1>1, <1>2, BodiesAre DEF Shelf
<1>4. IsFiniteSet(rows \cup {b})
  BY <1>1, FS_AddElement DEF Shelf
<1>5. Typed(rows \cup {b})
  BY <1>3, <1>4, StepTyped
<1> QED BY <1>5, CheckIsExact

(* Whatever requests of any number of administrators overlap, what stands in the tables is *)
(* in its shape, the live definition and every published one are ones the executor can run *)
(* as far as their integer routes are clear, and the next number is free                   *)
(* (api/workflows.py).                                                                     *)
THEOREM DefinitionsHold == AdminSpec => []DefinitionsSound
BY AdminInvariant, InvIsSound, PTL

(* For every definition that can stand in the tables and every step that may be sent, the  *)
(* cycle check of the validator refuses it exactly when some turn of the executor would    *)
(* never stop for the user, as long as no step is called like an integer some route is     *)
(* (_validate_workflow_steps, _resolve_step_target, _advance).                             *)
THEOREM CycleCheckHolds == AdminSpec => []CycleCheckExact
BY AdminInvariant, InvIsExact, PTL
=============================================================================
