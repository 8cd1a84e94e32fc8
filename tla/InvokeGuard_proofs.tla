------------------------- MODULE InvokeGuard_proofs -------------------------
(***************************************************************************)
(* Turns of one session never overlap, nothing leaks and a kept answer is  *)
(* computed once, for any number of requests and sessions.                 *)
(***************************************************************************)
EXTENDS InvokeGuard, FiniteSetTheorems, SequenceTheorems, TLAPS

(* Who is inside and needs the lock of k, who occupies a slot. *)
Users(k) == {r \in Request : Inside(r) /\ LockOf(ask[r]) = k}
Slotted == {r \in Request : Inside(r) /\ ask[r].kind # "upkeep"}

Typed ==
  /\ ask \in [Request -> Ask] /\ pc \in [Request -> PC]
  /\ table \in [LockKey -> Request \cup {None}]
  /\ refs \in [Request -> Nat] /\ holder \in [Request -> Request \cup {None}]
  /\ mine \in [Request -> Request \cup {None}]

(* Everybody inside refers to the lock in the table under their key ... *)
Referring ==
  \A r \in Request :
    mine[r] = IF Inside(r) /\ LockOf(ask[r]) # None THEN table[LockOf(ask[r])] ELSE None

(* ... which was made by a request for that key and counts them all ... *)
Counted ==
  \A k \in LockKey :
    /\ Users(k) = {} => table[k] = None
    /\ Users(k) # {} => /\ table[k] \in Request /\ pc[table[k]] # "idle"
                        /\ LockOf(ask[table[k]]) = k
                        /\ refs[table[k]] = Cardinality(Users(k))

(* ... and who is past the acquisition holds it. *)
Held == \A r \in Request : InTurn(r) /\ mine[r] # None => holder[mine[r]] = r

(* A lock that is yet to be made is free. *)
Unmade == \A l \in Request : pc[l] = "idle" => refs[l] = 0 /\ holder[l] = None

Locked == \A r \in Request : pc[r] = "waiting" => LockOf(ask[r]) # None

LockInv == Typed /\ Referring /\ Counted /\ Held /\ Unmade /\ Locked /\ active = Cardinality(Slotted)

-----------------------------------------------------------------------------
LEMMA LockOfTyped ==
  ASSUME NEW a \in Ask
  PROVE  LockOf(a) \in LockKey \cup {None}
BY GuardConstants DEF LockOf, Ask, LockKey

LEMMA SetsFinite == IsFiniteSet(Slotted) /\ \A k : IsFiniteSet(Users(k))
<1>1. Slotted \in SUBSET Request /\ \A k : Users(k) \in SUBSET Request
  BY DEF Slotted, Users
<1> QED BY <1>1, GuardConstants, FS_Subset

(* A step that moves one request along, from inside to inside. *)
LEMMA MoveKeeps ==
  ASSUME LockInv, NEW r \in Request, Inside(r), ask' = ask, table' = table, refs' = refs, mine' = mine,
         active' = active, holder' \in [Request -> Request \cup {None}],
         NEW to \in {"holding", "running", "closing"}, pc' = [pc EXCEPT ![r] = to],
         Held', Unmade'
  PROVE  LockInv'
<1>1. \A q \in Request : (Inside(q) <=> Inside(q)') /\ (pc'[q] = "idle" <=> pc[q] = "idle")
  BY DEF LockInv, Typed, Inside
<1>2. Slotted' = Slotted /\ \A k : Users(k)' = Users(k)
  BY <1>1 DEF Slotted, Users
<1>3. Typed'
  BY DEF LockInv, Typed, PC
<1>4. Referring'
  BY <1>1 DEF LockInv, Referring
<1>5. Counted'
  BY <1>1, <1>2 DEF LockInv, Counted
<1>6. Locked'
  BY DEF LockInv, Typed, Locked
<1> QED BY <1>2, <1>3, <1>4, <1>5, <1>6 DEF LockInv

LEMMA AdmitKeeps ==
  ASSUME LockInv, NEW r \in Request, NEW a \in Asks, Admit(r, a)
  PROVE  LockInv'
<1> DEFINE k == LockOf(a)
<1>0. /\ pc[r] = "idle" /\ ~Inside(r) /\ a \in Ask /\ k \in LockKey \cup {None}
      /\ ask' = [ask EXCEPT ![r] = a] /\ ask'[r] = a
      /\ \A q \in Request : q # r => ask'[q] = ask[q]
  BY GuardConstants, LockOfTyped DEF Admit, Inside, LockInv, Typed
<1>1. /\ \A q \in Request : q # r => pc'[q] = pc[q]
      /\ pc'[r] \in {"waiting", "holding"} /\ pc' \in [Request -> PC]
      /\ pc'[r] = IF k = None THEN "holding" ELSE "waiting"
  BY DEF Admit, LockInv, Typed, PC
<1>2. /\ Inside(r)' /\ \A q \in Request : q # r => (Inside(q)' <=> Inside(q))
      /\ \A q \in Request : q # r => (InTurn(q)' <=> InTurn(q))
  BY <1>1 DEF Inside, InTurn
<1>3. active' = Cardinality(Slotted')
  <2>1. CASE a.kind = "upkeep"
    <3>1. Slotted' = Slotted
      BY <2>1, <1>0, <1>2 DEF Slotted
    <3>2. active' = active + 0
      BY <2>1 DEF Admit, Slots
    <3> QED BY <3>1, <3>2, SetsFinite, FS_CardinalityType DEF LockInv
  <2>2. CASE a.kind # "upkeep"
    <3>1. Slotted' = Slotted \cup {r} /\ r \notin Slotted
      BY <2>2, <1>0, <1>2 DEF Slotted
    <3>2. active' = active + 1
      BY <2>2 DEF Admit, Slots
    <3> QED BY <3>1, <3>2, SetsFinite, FS_AddElement DEF LockInv
  <2> QED BY <2>1, <2>2
<1>4. \A j \in LockKey : Users(j)' = IF j = k THEN Users(j) \cup {r} ELSE Users(j)
  BY <1>0, <1>2 DEF Users
<1>5. CASE k = None
  <2>1. UNCHANGED <<table, refs, holder, mine>>
    BY <1>5 DEF Admit, locks
  <2>2. \A j \in LockKey : Users(j)' = Users(j)
    BY <1>4, <1>5, GuardConstants
  <2>3. Typed'
    BY <1>0, <1>1, <2>1 DEF LockInv, Typed
  <2>4. Referring'
    BY <1>0, <1>2, <1>5, <2>1 DEF LockInv, Referring
  <2>5. Counted'
    BY <1>0, <1>1, <2>1, <2>2 DEF LockInv, Counted
  <2>6. mine'[r] = None
    BY <1>0, <2>1 DEF LockInv, Referring
  <2>7. Held' /\ Unmade' /\ Locked'
    BY <1>0, <1>1, <1>2, <1>5, <2>1, <2>6 DEF LockInv, Held, Unmade, Locked
  <2> QED BY <1>3, <2>3, <2>4, <2>5, <2>7 DEF LockInv
<1>6. CASE k # None
  <2> DEFINE l == IF table[k] = None THEN r ELSE table[k]
  <2>1. /\ table' = [table EXCEPT ![k] = l] /\ refs' = [refs EXCEPT ![l] = @ + 1]
        /\ mine' = [mine EXCEPT ![r] = l] /\ holder' = holder
    BY <1>6 DEF Admit
  <2>2. k \in LockKey /\ l \in Request
    BY <1>0, <1>6 DEF LockInv, Typed
  <2>3. /\ table'[k] = l /\ refs'[l] = refs[l] + 1 /\ mine'[r] = l
        /\ \A j \in LockKey : j # k => table'[j] = table[j]
        /\ \A q \in Request : (q # l => refs'[q] = refs[q]) /\ (q # r => mine'[q] = mine[q])
    BY <2>1, <2>2 DEF LockInv, Typed
  <2>4. Typed'
    BY <1>0, <1>1, <2>1, <2>2 DEF LockInv, Typed
  <2>5. /\ l = r => Users(k) = {} /\ refs[l] = 0
        /\ l # r => Users(k) # {} /\ pc[l] # "idle" /\ LockOf(ask[l]) = k /\ refs[l] = Cardinality(Users(k))
    <3>1. CASE Users(k) = {}
      <4>1. l = r
        BY <2>2, <3>1 DEF LockInv, Counted
      <4> QED BY <1>0, <3>1, <4>1 DEF LockInv, Unmade
    <3>2. CASE Users(k) # {}
      <4>1. /\ table[k] \in Request /\ pc[table[k]] # "idle" /\ LockOf(ask[table[k]]) = k
            /\ refs[table[k]] = Cardinality(Users(k))
        BY <2>2, <3>2 DEF LockInv, Counted
      <4>2. l = table[k] /\ l # r
        BY <4>1, <1>0, GuardConstants
      <4> QED BY <3>2, <4>1, <4>2
    <3> QED BY <3>1, <3>2
  <2>6. Counted'
    <3> SUFFICES ASSUME NEW j \in LockKey
                 PROVE  /\ Users(j)' = {} => table'[j] = None
                        /\ Users(j)' # {} => /\ table'[j] \in Request /\ pc'[table'[j]] # "idle"
                                             /\ LockOf(ask'[table'[j]]) = j
                                             /\ refs'[table'[j]] = Cardinality(Users(j)')
      BY DEF Counted
    <3>1. CASE j = k
      <4>1. Users(k)' = Users(k) \cup {r} /\ r \notin Users(k)
        BY <1>0, <1>4, <2>2 DEF Users
      <4>2. refs'[l] = Cardinality(Users(k)')
        BY <4>1, <2>3, <2>5, SetsFinite, FS_AddElement, FS_EmptySet
      <4>3. pc'[l] # "idle" /\ LockOf(ask'[l]) = k
        BY <1>0, <1>1, <2>2, <2>5
      <4> QED BY <3>1, <4>1, <4>2, <4>3, <2>2, <2>3
    <3>2. CASE j # k
      <4>1. Users(j)' = Users(j) /\ table'[j] = table[j]
        BY <3>2, <1>4, <2>3
      <4>2. CASE Users(j) = {}
        BY <4>1, <4>2 DEF LockInv, Counted
      <4>3. CASE Users(j) # {}
        <5>1. /\ table[j] \in Request /\ pc[table[j]] # "idle" /\ LockOf(ask[table[j]]) = j
              /\ refs[table[j]] = Cardinality(Users(j))
          BY <4>3 DEF LockInv, Counted
        <5>2. table[j] # r /\ table[j] # l
          BY <5>1, <1>0, <2>5, <3>2
        <5> QED BY <4>1, <4>3, <5>1, <5>2, <1>0, <1>1, <2>3
      <4> QED BY <4>2, <4>3
    <3> QED BY <3>1, <3>2
  <2>7. Referring'
    <3> SUFFICES ASSUME NEW q \in Request
                 PROVE  mine'[q] = IF Inside(q)' /\ LockOf(ask'[q]) # None
                                   THEN table'[LockOf(ask'[q])] ELSE None
      BY DEF Referring
    <3>1. CASE q = r
      BY <3>1, <1>0, <1>2, <1>6, <2>3
    <3>2. CASE q # r
      <4>1. mine[q] = IF Inside(q) /\ LockOf(ask[q]) # None THEN table[LockOf(ask[q])] ELSE None
        BY DEF LockInv, Referring
      <4>2. CASE Inside(q) /\ LockOf(ask[q]) = k
        <5>1. q \in Users(k)
          BY <4>2 DEF Users
        <5>2. table[k] = l
          BY <5>1, <2>2, GuardConstants DEF LockInv, Counted
        <5> QED BY <3>2, <4>1, <4>2, <5>2, <1>0, <1>2, <1>6, <2>3
      <4>3. CASE ~(Inside(q) /\ LockOf(ask[q]) = k)
        <5>1. LockOf(ask[q]) \in LockKey \cup {None}
          BY LockOfTyped DEF LockInv, Typed
        <5> QED BY <3>2, <4>1, <4>3, <5>1, <1>0, <1>2, <2>3
      <4> QED BY <4>2, <4>3
    <3> QED BY <3>1, <3>2
  <2>8. Held' /\ Locked'
    BY <1>0, <1>1, <1>2, <1>6, <2>1, <2>3 DEF LockInv, Held, Locked, InTurn
  <2>9. Unmade'
    <3>1. pc'[l] # "idle"
      BY <1>1, <2>2, <2>5
    <3> QED BY <3>1, <1>1, <2>1, <2>2, <2>3 DEF LockInv, Unmade
  <2> QED BY <1>3, <2>4, <2>6, <2>7, <2>8, <2>9 DEF LockInv
<1> QED BY <1>5, <1>6

LEMMA AcquireKeeps ==
  ASSUME LockInv, NEW r \in Request, Acquire(r)
  PROVE  LockInv'
<1>1. /\ pc[r] = "waiting" /\ Inside(r) /\ holder[mine[r]] = None
      /\ holder' = [holder EXCEPT ![mine[r]] = r] /\ pc' = [pc EXCEPT ![r] = "holding"]
      /\ UNCHANGED <<ask, active, table, refs, mine>>
  BY DEF Acquire, Inside
<1>2. mine[r] \in Request
  <2>1. LockOf(ask[r]) # None /\ LockOf(ask[r]) \in LockKey
    BY <1>1, LockOfTyped DEF LockInv, Locked, Typed
  <2>2. r \in Users(LockOf(ask[r]))
    BY <1>1 DEF Users
  <2> QED BY <1>1, <2>1, <2>2 DEF LockInv, Referring, Counted
<1>3. \A q \in Request : q # r /\ InTurn(q) => mine[q] # mine[r]
  BY <1>1, <1>2, GuardConstants DEF LockInv, Held
<1>4. Held'
  BY <1>1, <1>2, <1>3 DEF LockInv, Typed, Held, InTurn
<1>5. Unmade'
  <2>1. pc[mine[r]] # "idle"
    <3>1. LockOf(ask[r]) # None /\ LockOf(ask[r]) \in LockKey
      BY <1>1, LockOfTyped DEF LockInv, Locked, Typed
    <3>2. r \in Users(LockOf(ask[r]))
      BY <1>1 DEF Users
    <3> QED BY <1>1, <3>1, <3>2 DEF LockInv, Referring, Counted
  <2> QED BY <1>1, <1>2, <2>1 DEF LockInv, Typed, Unmade
<1>6. holder' \in [Request -> Request \cup {None}]
  BY <1>1 DEF LockInv, Typed
<1> QED BY <1>1, <1>4, <1>5, <1>6, MoveKeeps

LEMMA LeaveKeeps ==
  ASSUME LockInv, NEW r \in Request, Inside(r), Leave(r), ask' = ask, pc' = [pc EXCEPT ![r] = "done"]
  PROVE  LockInv'
<1> DEFINE k == LockOf(ask[r])
<1>0. ask[r] \in Ask /\ k \in LockKey \cup {None} /\ pc[r] # "idle"
  BY LockOfTyped DEF LockInv, Typed, Inside
<1>1. /\ \A q \in Request : q # r => pc'[q] = pc[q]
      /\ pc'[r] = "done" /\ pc' \in [Request -> PC]
  BY DEF LockInv, Typed, PC
<1>2. /\ ~Inside(r)' /\ ~InTurn(r)'
      /\ \A q \in Request : q # r => (Inside(q)' <=> Inside(q)) /\ (InTurn(q)' <=> InTurn(q))
  BY <1>1 DEF Inside, InTurn
<1>3. active' = Cardinality(Slotted')
  <2>1. CASE ask[r].kind = "upkeep"
    <3>1. Slotted' = Slotted
      BY <2>1, <1>2 DEF Slotted
    <3>2. active' = active - 0
      BY <2>1 DEF Leave, Slots
    <3> QED BY <3>1, <3>2, SetsFinite, FS_CardinalityType DEF LockInv
  <2>2. CASE ask[r].kind # "upkeep"
    <3>1. Slotted' = Slotted \ {r} /\ r \in Slotted
      BY <2>2, <1>2 DEF Slotted
    <3>2. active' = active - 1
      BY <2>2 DEF Leave, Slots
    <3> QED BY <3>1, <3>2, SetsFinite, FS_RemoveElement DEF LockInv
  <2> QED BY <2>1, <2>2
<1>4. \A j \in LockKey : Users(j)' = IF j = k THEN Users(j) \ {r} ELSE Users(j)
  BY <1>2 DEF Users
<1>5. mine' = [mine EXCEPT ![r] = None] /\ mine'[r] = None /\ \A q \in Request : q # r => mine'[q] = mine[q]
  BY DEF Leave, LockInv, Typed
<1>6. CASE k = None
  <2>1. mine[r] = None
    BY <1>6 DEF LockInv, Referring
  <2>2. UNCHANGED <<table, refs, holder>>
    BY <2>1 DEF Leave
  <2>3. \A j \in LockKey : Users(j)' = Users(j)
    BY <1>4, <1>6, GuardConstants
  <2>4. Typed'
    BY <1>1, <1>5, <2>2 DEF LockInv, Typed
  <2>5. Referring'
    BY <1>2, <1>5, <1>6, <2>2 DEF LockInv, Referring
  <2>6. Counted'
    BY <1>0, <1>1, <2>2, <2>3 DEF LockInv, Counted
  <2>7. Held' /\ Unmade' /\ Locked'
    BY <1>0, <1>1, <1>2, <1>5, <2>2 DEF LockInv, Held, Unmade, Locked
  <2> QED BY <1>3, <2>4, <2>5, <2>6, <2>7 DEF LockInv
<1>7. CASE k # None
  <2> DEFINE l == mine[r]
  <2>1. k \in LockKey /\ r \in Users(k)
    BY <1>0, <1>7 DEF Users
  <2>2. /\ l = table[k] /\ l \in Request /\ l # None /\ pc[l] # "idle" /\ LockOf(ask[l]) = k
        /\ refs[l] = Cardinality(Users(k))
    BY <2>1, <1>7, GuardConstants DEF LockInv, Referring, Counted
  <2>3. /\ holder' = [holder EXCEPT ![l] = IF @ = r THEN None ELSE @]
        /\ refs' = [refs EXCEPT ![l] = @ - 1]
        /\ table' = [table EXCEPT ![k] = IF refs[l] = 1 THEN None ELSE @]
    BY <2>2 DEF Leave
  <2>4. Users(k)' = Users(k) \ {r} /\ Cardinality(Users(k)') = refs[l] - 1 /\ Cardinality(Users(k)') \in Nat
    BY <1>4, <2>1, <2>2, SetsFinite, FS_RemoveElement, FS_CardinalityType
  <2>5. Users(k)' = {} <=> refs[l] = 1
    <3>1. IsFiniteSet(Users(k)') /\ refs[l] \in Nat
      BY <2>2, <2>4, SetsFinite, FS_RemoveElement DEF LockInv, Typed
    <3>2. Cardinality(Users(k)') = 0 <=> Users(k)' = {}
      BY <3>1, FS_EmptySet
    <3> QED BY <2>4, <3>1, <3>2
  <2>6. /\ refs'[l] = refs[l] - 1 /\ table'[k] = IF refs[l] = 1 THEN None ELSE l
        /\ \A j \in LockKey : j # k => table'[j] = table[j]
        /\ \A q \in Request : q # l => refs'[q] = refs[q] /\ holder'[q] = holder[q]
        /\ refs' \in [Request -> Nat] /\ table' \in [LockKey -> Request \cup {None}]
        /\ holder' \in [Request -> Request \cup {None}]
    BY <2>1, <2>2, <2>3, <2>4 DEF LockInv, Typed
  <2>7. Typed'
    BY <1>1, <1>5, <2>6 DEF LockInv, Typed
  <2>8. Counted'
    <3> SUFFICES ASSUME NEW j \in LockKey
                 PROVE  /\ Users(j)' = {} => table'[j] = None
                        /\ Users(j)' # {} => /\ table'[j] \in Request /\ pc'[table'[j]] # "idle"
                                             /\ LockOf(ask'[table'[j]]) = j
                                             /\ refs'[table'[j]] = Cardinality(Users(j)')
      BY DEF Counted
    <3>1. CASE j = k
      BY <3>1, <1>1, <2>2, <2>4, <2>5, <2>6
    <3>2. CASE j # k
      <4>1. Users(j)' = Users(j) /\ table'[j] = table[j]
        BY <3>2, <1>4, <2>6
      <4>2. CASE Users(j) = {}
        BY <4>1, <4>2 DEF LockInv, Counted
      <4>3. CASE Users(j) # {}
        <5>1. /\ table[j] \in Request /\ pc[table[j]] # "idle" /\ LockOf(ask[table[j]]) = j
              /\ refs[table[j]] = Cardinality(Users(j))
          BY <4>3 DEF LockInv, Counted
        <5>2. table[j] # l
          BY <5>1, <2>2, <3>2
        <5> QED BY <4>1, <4>3, <5>1, <5>2, <1>1, <2>6
      <4> QED BY <4>2, <4>3
    <3> QED BY <3>1, <3>2
  <2>9. Referring'
    <3> SUFFICES ASSUME NEW q \in Request
                 PROVE  mine'[q] = IF Inside(q)' /\ LockOf(ask'[q]) # None
                                   THEN table'[LockOf(ask'[q])] ELSE None
      BY DEF Referring
    <3>1. CASE q = r
      BY <3>1, <1>2, <1>5
    <3>2. CASE q # r
      <4>1. mine[q] = IF Inside(q) /\ LockOf(ask[q]) # None THEN table[LockOf(ask[q])] ELSE None
        BY DEF LockInv, Referring
      <4>2. CASE Inside(q) /\ LockOf(ask[q]) = k
        <5>1. q \in Users(k)'
          BY <3>2, <4>2, <2>4 DEF Users
        <5>2. table'[k] = l
          BY <5>1, <2>5, <2>6
        <5> QED BY <3>2, <4>1, <4>2, <5>2, <1>2, <1>5, <1>7, <2>2
      <4>3. CASE ~(Inside(q) /\ LockOf(ask[q]) = k)
        <5>1. LockOf(ask[q]) \in LockKey \cup {None}
          BY LockOfTyped DEF LockInv, Typed
        <5> QED BY <3>2, <4>1, <4>3, <5>1, <1>2, <1>5, <2>6
      <4> QED BY <4>2, <4>3
    <3> QED BY <3>1, <3>2
  <2>10. Held'
    <3> SUFFICES ASSUME NEW q \in Request, InTurn(q)', mine'[q] # None
                 PROVE  holder'[mine'[q]] = q
      BY DEF Held
    <3>1. q # r /\ InTurn(q) /\ mine'[q] = mine[q]
      BY <1>2, <1>5
    <3>2. holder[mine[q]] = q /\ mine[q] \in Request
      BY <3>1 DEF LockInv, Held, Typed
    <3> QED BY <3>1, <3>2, <2>2, <2>3 DEF LockInv, Typed
  <2>11. Unmade' /\ Locked'
    BY <1>0, <1>1, <2>2, <2>6 DEF LockInv, Unmade, Locked
  <2> QED BY <1>3, <2>7, <2>8, <2>9, <2>10, <2>11 DEF LockInv
<1> QED BY <1>6, <1>7

(* A request that never gets inside. *)
LEMMA PassKeeps ==
  ASSUME LockInv, NEW r \in Request, NEW a \in Asks, pc[r] = "idle", ask' = [ask EXCEPT ![r] = a],
         pc' = [pc EXCEPT ![r] = "done"], UNCHANGED <<active, locks>>
  PROVE  LockInv'
<1>1. /\ a \in Ask /\ UNCHANGED <<active, table, refs, holder, mine>>
      /\ \A q \in Request : q # r => ask'[q] = ask[q] /\ pc'[q] = pc[q]
      /\ pc'[r] = "done" /\ ~Inside(r) /\ ~Inside(r)' /\ ~InTurn(r)'
  BY GuardConstants DEF LockInv, Typed, locks, Inside, InTurn
<1>2. \A q \in Request : q # r => (Inside(q)' <=> Inside(q)) /\ (InTurn(q)' <=> InTurn(q))
  BY <1>1 DEF Inside, InTurn
<1>3. Slotted' = Slotted /\ \A k : Users(k)' = Users(k)
  BY <1>1, <1>2 DEF Slotted, Users
<1>4. Typed'
  BY <1>1 DEF LockInv, Typed, PC
<1>5. Referring'
  BY <1>1, <1>2 DEF LockInv, Referring
<1>6. Counted'
  BY <1>1, <1>3 DEF LockInv, Counted
<1>7. Held' /\ Unmade' /\ Locked'
  BY <1>1, <1>2 DEF LockInv, Held, Unmade, Locked
<1> QED BY <1>1, <1>3, <1>4, <1>5, <1>6, <1>7 DEF LockInv

LEMMA StillKeeps ==
  ASSUME LockInv, UNCHANGED <<ask, pc, active, locks>>
  PROVE  LockInv'
BY DEF LockInv, Typed, Referring, Counted, Held, Unmade, Locked, Slotted, Users, Inside, InTurn, locks

(* Moving on under the lock. *)
LEMMA TurnKeeps ==
  ASSUME LockInv, NEW r \in Request, InTurn(r), NEW to \in {"running", "closing"},
         pc' = [pc EXCEPT ![r] = to], UNCHANGED <<ask, active, locks>>
  PROVE  LockInv'
<1>1. Inside(r) /\ UNCHANGED <<table, refs, holder, mine>>
  BY DEF Inside, InTurn, locks
<1>2. \A q \in Request : (InTurn(q)' <=> InTurn(q)) /\ (pc'[q] = "idle" <=> pc[q] = "idle")
  BY DEF LockInv, Typed, InTurn
<1>3. Held' /\ Unmade'
  BY <1>1, <1>2 DEF LockInv, Held, Unmade
<1> QED BY <1>1, <1>3, MoveKeeps DEF LockInv, Typed

-----------------------------------------------------------------------------
LEMMA GuardInit == Init => LockInv
<1> SUFFICES ASSUME Init PROVE LockInv
  OBVIOUS
<1>1. \A r \in Request : ~Inside(r) /\ ~InTurn(r)
  BY DEF Init, Inside, InTurn
<1>2. Slotted = {} /\ \A k : Users(k) = {}
  BY <1>1 DEF Slotted, Users
<1>3. Typed
  BY DEF Init, Typed, NoAsk, Ask, PC
<1>4. Referring /\ Held /\ Unmade /\ Locked
  BY <1>1 DEF Init, Referring, Held, Unmade, Locked
<1>5. Counted
  BY <1>2 DEF Init, Counted
<1> QED BY <1>2, <1>3, <1>4, <1>5, FS_EmptySet DEF Init, LockInv

LEMMA GuardStep == LockInv /\ [Next]_vars => LockInv'
<1> SUFFICES ASSUME LockInv, [Next]_vars PROVE LockInv'
  OBVIOUS
<1>1. ASSUME NEW r \in Request, NEW a \in Asks, ReplayEarly(r, a) \/ TurnAway(r, a) PROVE LockInv'
  BY <1>1, PassKeeps DEF ReplayEarly, TurnAway, End
<1>2. ASSUME NEW r \in Request, NEW a \in Asks, Admit(r, a) PROVE LockInv'
  BY <1>2, AdmitKeeps
<1>3. ASSUME NEW r \in Request, Acquire(r) PROVE LockInv'
  BY <1>3, AcquireKeeps
<1>4. ASSUME NEW r \in Request, GiveUp(r) \/ Refuse(r) \/ ReplayLate(r) \/ Close(r) PROVE LockInv'
  BY <1>4, LeaveKeeps DEF GiveUp, Refuse, ReplayLate, Close, End, Inside
<1>5. ASSUME NEW r \in Request, Begin(r) \/ Cut(r) PROVE LockInv'
  BY <1>5, TurnKeeps DEF Begin, Cut, InTurn
<1>6. ASSUME NEW r \in Request, CommitTurn(r) PROVE LockInv'
  BY <1>6, StillKeeps DEF CommitTurn
<1>7. ASSUME NEW r \in Request, Answer(r) PROVE LockInv'
  <2>1. pc[r] = "running" /\ ask' = ask /\ InTurn(r) /\ Inside(r)
    BY <1>7 DEF Answer, InTurn, Inside
  <2>2. CASE pc' = [pc EXCEPT ![r] = "closing"] /\ UNCHANGED <<active, locks>>
    BY <2>1, <2>2, TurnKeeps
  <2>3. CASE pc' = [pc EXCEPT ![r] = "done"] /\ Leave(r)
    BY <2>1, <2>3, LeaveKeeps
  <2> QED BY <1>7, <2>2, <2>3 DEF Answer, End
<1>8. ASSUME NEW k \in Key, Expire(k) PROVE LockInv'
  BY <1>8, StillKeeps DEF Expire
<1>9. CASE UNCHANGED vars
  BY <1>9, StillKeeps DEF vars, locks
<1> QED BY <1>1, <1>2, <1>3, <1>4, <1>5, <1>6, <1>7, <1>8, <1>9 DEF Next, Arrive, Work, Break

(* Two requests in their turns for one key mean the same lock, and one of them holds it. *)
LEMMA OneTurn == LockInv => TurnsSerialized
<1> SUFFICES ASSUME LockInv, NEW q \in Request, NEW r \in Request, InTurn(q), InTurn(r),
                    LockOf(ask[q]) = LockOf(ask[r]), LockOf(ask[r]) # None
             PROVE  q = r
  BY DEF TurnsSerialized
<1>1. mine[q] = mine[r]
  BY DEF LockInv, Referring, Inside, InTurn
<1>2. r \in Users(LockOf(ask[r])) /\ LockOf(ask[r]) \in LockKey
  BY LockOfTyped DEF Users, Inside, InTurn, LockInv, Typed
<1>3. mine[r] \in Request
  BY <1>2 DEF LockInv, Referring, Counted, Inside, InTurn
<1> QED BY <1>1, <1>3, GuardConstants DEF LockInv, Held

(* Turns of one session never overlap: the reference count keeps a lock in the
   table for as long as anybody uses it, so two requests for one session always
   mean the same lock (session_lock). *)
THEOREM Serialized == Spec => []TurnsSerialized
BY OneTurn, GuardInit, GuardStep, PTL DEF Spec

(* Whatever way requests end, slots and locks are given back (invoke_slot,
   session_lock). *)
THEOREM NoLeak == Spec => []NothingLeaks
<1>1. LockInv => NothingLeaks
  <2> SUFFICES ASSUME LockInv PROVE NothingLeaks
    OBVIOUS
  <2>1. active = Cardinality({r \in Request : Inside(r) /\ ask[r].kind # "upkeep"})
    BY DEF LockInv, Slotted
  <2>2. ASSUME NEW k \in LockKey
        PROVE  table[k] # None <=> \E r \in Request : Inside(r) /\ LockOf(ask[r]) = k
    BY GuardConstants DEF LockInv, Counted, Users
  <2> QED BY <2>1, <2>2 DEF NothingLeaks
<1> QED BY <1>1, GuardInit, GuardStep, PTL DEF Spec

-----------------------------------------------------------------------------
(* What the cache replays: the invariant behind RunsOnce. *)

(* The answer of r is one the cache may replay. *)
Fresh(r) == /\ got[r] = "fresh" /\ pc[r] = "done"
            /\ ask[r].key # None /\ ask[r].key \notin dropped

(* Only a synchronous request brings a key, and what is delivered after its turn does not. *)
Keyed == \A r \in Request : /\ ask[r].key # None => ask[r].kind = "sync"
                            /\ pc[r] = "closing" /\ got[r] = "fresh" => ask[r].kind = "stream"

(* A response stays in the cache until it is dropped, ... *)
FreshKept == \A r \in Request : Fresh(r) => Cached(ask[r].key)

(* ... so whoever found none under the lock computes the first one. *)
Alone == \A q, r \in Request : pc[r] = "running" /\ ask[q] = ask[r] => ~Fresh(q)

OnceInv == LockInv /\ TypeOK /\ Keyed /\ FreshKept /\ Alone /\ RunsOnce
-----------------------------------------------------------------------------
(* The cache: the queues and the list of kept responses. *)

LEMMA Joined ==
  ASSUME NEW S, NEW s, NEW t, s \in Seq(S), t \in Seq(S)
  PROVE  /\ s \o t \in Seq(S) /\ Len(s \o t) = Len(s) + Len(t)
         /\ \A i \in 1 .. Len(s) : (s \o t)[i] = s[i]
         /\ \A i \in 1 .. Len(t) : (s \o t)[Len(s) + i] = t[i]
OBVIOUS

LEMMA WithoutOne ==
  ASSUME NEW S, NEW s, s \in Seq(S), NEW e
  PROVE  /\ Without(s, e) \in Seq(S)
         /\ \A c : c # e /\ (\E i \in DOMAIN s : s[i] = c)
               => \E i \in DOMAIN Without(s, e) : Without(s, e)[i] = c
<1> DEFINE at == {i \in DOMAIN s : s[i] = e}
<1>1. CASE at = {}  BY <1>1 DEF Without
<1>2. CASE at # {}
  <2>1. PICK n \in Nat : n = Len(s)  OBVIOUS
  <2>2. DOMAIN s = 1 .. n /\ \A i \in 1 .. n : s[i] \in S  BY <2>1
  <2>3. PICK h \in Nat : h = (CHOOSE i \in at : TRUE) /\ 1 <= h /\ h <= n /\ s[h] = e  BY <1>2, <2>2
  <2>4. PICK a \in Nat, b \in Nat : h = a + 1 /\ n = h + b
    <3>1. h - 1 \in Nat /\ n - h \in Nat /\ h = (h - 1) + 1 /\ n = h + (n - h)  BY ONLY <2>3, n \in Nat, h \in Nat
    <3> QED BY <3>1
  <2>5. PICK p \in Seq(S) : p = SubSeq(s, 1, h - 1) /\ Len(p) = a /\ \A i \in 1 .. a : p[i] = s[i]
    <3>1. SubSeq(s, 1, h - 1) = [i \in 1 .. a |-> s[i]]  BY <2>1, <2>4
    <3>2. \A i \in 1 .. a : s[i] \in S  BY <2>2, <2>4
    <3> DEFINE f == [i \in 1 .. a |-> s[i]]
    <3>3. f \in Seq(S) /\ Len(f) = a /\ \A i \in 1 .. a : f[i] = s[i]  BY <3>2
    <3> HIDE DEF f
    <3> QED BY <3>1, <3>3 DEF f
  <2>6. PICK q \in Seq(S) : q = SubSeq(s, h + 1, n) /\ Len(q) = b /\ \A i \in 1 .. b : q[i] = s[h + i]
    <3>1. SubSeq(s, h + 1, n) = [i \in 1 .. b |-> s[h + i]]  BY <2>1, <2>4
    <3>2. \A i \in 1 .. b : s[h + i] \in S  BY <2>2, <2>4
    <3> DEFINE f == [i \in 1 .. b |-> s[h + i]]
    <3>3. f \in Seq(S) /\ Len(f) = b /\ \A i \in 1 .. b : f[i] = s[h + i]  BY <3>2
    <3> HIDE DEF f
    <3> QED BY <3>1, <3>3 DEF f
  <2>7. Without(s, e) = p \o q  BY <1>2, <2>1, <2>3, <2>5, <2>6 DEF Without, RemoveAt
  <2>8. /\ p \o q \in Seq(S) /\ DOMAIN (p \o q) = 1 .. a + b
        /\ \A i \in 1 .. a : (p \o q)[i] = s[i]
        /\ \A i \in 1 .. b : (p \o q)[a + i] = s[h + i]
    <3>1. /\ p \o q \in Seq(S) /\ Len(p \o q) = a + b
          /\ \A i \in 1 .. a : (p \o q)[i] = p[i]
          /\ \A i \in 1 .. b : (p \o q)[a + i] = q[i]
      <4>1. p \in Seq(S) /\ q \in Seq(S) /\ Len(p) = a /\ Len(q) = b  BY <2>5, <2>6
      <4> QED BY ONLY <4>1, Joined
    <3> QED BY <2>5, <2>6, <3>1
  <2>9. ASSUME NEW c, c # e, NEW i \in Nat, 1 <= i, i <= n, s[i] = c
        PROVE  \E j \in 1 .. a + b : (p \o q)[j] = c
    <3>1. i # h  BY <2>3, <2>9
    <3>2. CASE i < h
      <4>1. i \in 1 .. a /\ i \in 1 .. a + b  BY <2>4, <2>9, <3>2
      <4> QED BY <4>1, <2>8, <2>9
    <3>3. CASE i > h
      <4>1. PICK k \in Nat : i = h + k /\ k \in 1 .. b /\ a + k \in 1 .. a + b
        <5>1. i - h \in Nat /\ i = h + (i - h) /\ i - h >= 1  BY ONLY <3>3, i \in Nat, h \in Nat
        <5> QED BY <5>1, <2>4, <2>9
      <4> QED BY <4>1, <2>8, <2>9
    <3>4. i < h \/ i > h  BY ONLY <3>1, i \in Nat, h \in Nat
    <3> QED BY <3>2, <3>3, <3>4
  <2>10. \A c : c # e /\ (\E i \in DOMAIN s : s[i] = c) => \E j \in 1 .. a + b : (p \o q)[j] = c
    <3>1. \A i \in DOMAIN s : i \in Nat /\ 1 <= i /\ i <= n  BY <2>2
    <3> QED BY ONLY <2>9, <3>1
  <2> QED BY <2>7, <2>8, <2>10
<1> QED BY <1>1, <1>2

(* What is cached after the entry of k was taken out, and put back at the end. *)
LEMMA CacheSteps ==
  ASSUME cache \in Seq(Key), NEW k \in Key
  PROVE  /\ Others(k) \in Seq(Key) /\ Append(Others(k), k) \in Seq(Key)
         /\ \A c \in Key : c # k /\ Cached(c) => \E i \in DOMAIN Others(k) : Others(k)[i] = c
         /\ \A c \in Key : Cached(c) \/ c = k
              => \E i \in DOMAIN Append(Others(k), k) : Append(Others(k), k)[i] = c
<1>1. PICK o \in Seq(Key) : o = Others(k) /\ \A c : c # k /\ (\E i \in DOMAIN cache : cache[i] = c)
                                                   => \E i \in DOMAIN o : o[i] = c
  BY WithoutOne DEF Others
<1>2. \A c \in Key : c # k /\ Cached(c) => \E i \in DOMAIN o : o[i] = c  BY <1>1 DEF Cached
<1>3. PICK n \in Nat : n = Len(o)  OBVIOUS
<1>4. /\ Append(o, k) \in Seq(Key) /\ DOMAIN Append(o, k) = 1 .. n + 1 /\ Append(o, k)[n + 1] = k
      /\ \A i \in 1 .. n : Append(o, k)[i] = o[i]
  BY <1>3
<1>5. DOMAIN o = 1 .. n /\ n + 1 \in 1 .. n + 1 /\ \A i \in 1 .. n : i \in 1 .. n + 1  BY <1>3
<1>6. ASSUME NEW c \in Key, Cached(c) \/ c = k
      PROVE  \E i \in DOMAIN Append(o, k) : Append(o, k)[i] = c
  <2>1. CASE c = k  BY <2>1, <1>4, <1>5
  <2>2. CASE c # k  BY <2>2, <1>2, <1>4, <1>5, <1>6
  <2> QED BY <2>1, <2>2
<1> QED BY <1>1, <1>2, <1>4, <1>6

LEMMA TouchKeeps ==
  ASSUME cache \in Seq(Key), NEW k \in Key, Touch(k)
  PROVE  cache' \in Seq(Key) /\ \A c \in Key : Cached(c) => Cached(c)'
<1>1. cache' = Append(Others(k), k)  BY DEF Touch
<1>2. \A c \in Key : Cached(c) => \E i \in DOMAIN cache' : cache'[i] = c  BY <1>1, CacheSteps
<1> QED BY <1>1, <1>2, CacheSteps, GuardConstants DEF Cached, LockKey

LEMMA StoreKeeps ==
  ASSUME cache \in Seq(Key), dropped \subseteq Key, NEW k \in Key, Store(k)
  PROVE  /\ cache' \in Seq(Key) /\ dropped \subseteq dropped' /\ dropped' \subseteq Key
         /\ \A c \in Key : Cached(c) \/ c = k => Cached(c)' \/ c \in dropped'
<1>1. PICK new \in Seq(Key) : new = Append(Others(k), k)
                /\ \A c \in Key : Cached(c) \/ c = k => \E i \in DOMAIN new : new[i] = c
  BY CacheSteps
<1>2. None \notin Key  BY GuardConstants DEF LockKey
<1>3. CASE Len(new) > MaxEntries
  <2>1. cache' = Tail(new) /\ dropped' = dropped \cup {Head(new)}  BY <1>1, <1>3 DEF Store
  <2>2. PICK n \in Nat : n = Len(new) /\ n > 0  BY <1>3, GuardConstants
  <2>3. /\ Tail(new) \in Seq(Key) /\ Head(new) = new[1] /\ Head(new) \in Key
        /\ DOMAIN Tail(new) = 1 .. n - 1 /\ \A i \in 1 .. n - 1 : Tail(new)[i] = new[i + 1]
    BY <2>2, HeadTailProperties
  <2>4. ASSUME NEW c \in Key, Cached(c) \/ c = k PROVE Cached(c)' \/ c \in dropped'
    <3>1. PICK i \in 1 .. n : new[i] = c  BY <1>1, <2>2, <2>4
    <3>2. CASE i = 1  BY <2>1, <2>3, <3>1, <3>2
    <3>3. CASE i > 1
      <4>1. i - 1 \in 1 .. n - 1 /\ (i - 1) + 1 = i  BY <3>3
      <4>2. cache'[i - 1] = c /\ i - 1 \in DOMAIN cache'  BY <2>1, <2>3, <3>1, <4>1
      <4> QED BY <1>2, <4>2 DEF Cached
    <3> QED BY <3>2, <3>3
  <2> QED BY <2>1, <2>3, <2>4
<1>4. CASE ~(Len(new) > MaxEntries)
  <2>1. cache' = new /\ dropped' = dropped  BY <1>1, <1>4 DEF Store
  <2> QED BY <1>1, <1>2, <2>1 DEF Cached
<1> QED BY <1>3, <1>4

-----------------------------------------------------------------------------
(* A step changes one request, and loses no response but those it tells. *)
Moves(r) == \A q \in Request : q # r => ask'[q] = ask[q] /\ pc'[q] = pc[q] /\ got'[q] = got[q]
KeepsCache == dropped \subseteq dropped' /\ \A k \in Key : Cached(k) => Cached(k)' \/ k \in dropped'

LEMMA KeyTyped == TypeOK => \A r \in Request : ask[r].key \in Key \cup {None}
BY DEF TypeOK, Ask

LEMMA OnceKept ==
  ASSUME OnceInv, NEW r, Moves(r), KeepsCache,
         r \in Request /\ Fresh(r)' => pc[r] = "running" /\ ask'[r] = ask[r] /\ Cached(ask[r].key)',
         r \in Request /\ pc'[r] = "running"
           => ask'[r] = ask[r] /\ (pc[r] = "running" \/ ~Cached(ask[r].key))
  PROVE  FreshKept' /\ Alone' /\ RunsOnce'
<1>1. ASSUME NEW q \in Request, q # r, Fresh(q)' PROVE Fresh(q)
  BY <1>1 DEF Fresh, Moves, KeepsCache
<1>2. FreshKept'
  <2> SUFFICES ASSUME NEW q \in Request, Fresh(q)' PROVE Cached(ask[q].key)'
    BY DEF FreshKept
  <2>1. CASE q = r  BY <2>1
  <2>2. CASE q # r
    <3>1. Cached(ask[q].key) /\ ask'[q] = ask[q]  BY <1>1, <2>2 DEF OnceInv, FreshKept, Moves
    <3>2. ask[q].key \in Key  BY <3>1, KeyTyped DEF OnceInv, Cached
    <3>3. ask[q].key \notin dropped'  BY <3>1 DEF Fresh
    <3> QED BY <3>1, <3>2, <3>3 DEF KeepsCache, Cached
  <2> QED BY <2>1, <2>2
<1>3. ASSUME NEW p \in Request, NEW q \in Request, pc'[p] = "running", ask'[p] = ask'[q], Fresh(q)'
      PROVE  FALSE
  <2>1. CASE q = r
    <3>1. pc[r] = "running" /\ pc'[r] = "done" /\ ask'[r] = ask[r] /\ ask[r].key # None
      BY <1>3, <2>1 DEF Fresh
    <3>2. p # r /\ pc[p] = "running" /\ ask[p] = ask[r]  BY <1>3, <2>1, <3>1 DEF Moves
    <3>3. LockOf(ask[r]) # None  BY <3>1 DEF LockOf
    <3>4. TurnsSerialized  BY OneTurn DEF OnceInv
    <3>5. InTurn(p) /\ InTurn(r) /\ LockOf(ask[p]) = LockOf(ask[r])  BY <3>1, <3>2 DEF InTurn
    <3> QED BY <2>1, <3>2, <3>3, <3>4, <3>5 DEF TurnsSerialized
  <2>2. CASE q # r
    <3>1. Fresh(q) /\ ask'[q] = ask[q] /\ Cached(ask[q].key)
      BY <1>1, <1>3, <2>2 DEF Moves, OnceInv, FreshKept
    <3>2. CASE p = r  BY <1>3, <3>1, <3>2 DEF OnceInv, Alone
    <3>3. CASE p # r  BY <1>3, <3>1, <3>3 DEF Moves, OnceInv, Alone
    <3> QED BY <3>2, <3>3
  <2> QED BY <2>1, <2>2
<1>4. Alone'  BY <1>3 DEF Alone
<1>5. ASSUME NEW p \in Request, NEW q \in Request, Fresh(p)', Fresh(q)', ask'[p] = ask'[q], p # q
      PROVE  FALSE
  <2>1. ASSUME NEW x \in Request, NEW y \in Request, x = r, y # r, Fresh(x)', Fresh(y)', ask'[x] = ask'[y]
        PROVE  FALSE
    <3>1. Fresh(y) /\ ask'[y] = ask[y]  BY <1>1, <2>1 DEF Moves
    <3>2. pc[x] = "running" /\ ask[x] = ask[y]  BY <2>1, <3>1
    <3> QED BY <3>1, <3>2 DEF OnceInv, Alone
  <2>2. CASE p # r /\ q # r
    <3>1. Fresh(p) /\ Fresh(q) /\ ask[p] = ask[q]  BY <1>1, <1>5, <2>2 DEF Moves
    <3> QED BY <1>5, <3>1 DEF OnceInv, RunsOnce, Fresh
  <2> QED BY <1>5, <2>1, <2>2
<1>6. RunsOnce'  BY <1>5 DEF RunsOnce, Fresh
<1> QED BY <1>2, <1>4, <1>6

(* The rest of the types, beside those of the locks. *)
Listed == /\ queue \in [Request -> Seq(Request)] /\ cache \in Seq(Key)
          /\ got \in [Request -> Outcome] /\ turns \subseteq Request /\ dropped \subseteq Key

LEMMA WholeType == LockInv' /\ Listed' => TypeOK'
<1> SUFFICES ASSUME LockInv', Listed' PROVE TypeOK'
  OBVIOUS
<1>1. Slotted' \subseteq Request  BY DEF Slotted
<1>2. Cardinality(Slotted') \in Nat  BY <1>1, GuardConstants, FS_Subset, FS_CardinalityType
<1> QED BY <1>2 DEF LockInv, Typed, Listed, TypeOK

LEMMA LeaveLists ==
  ASSUME TypeOK, NEW r \in Request, Leave(r)
  PROVE  queue' \in [Request -> Seq(Request)]
<1>1. CASE mine[r] = None  BY <1>1 DEF Leave, TypeOK
<1>2. CASE mine[r] # None
  <2>1. mine[r] \in Request /\ queue[mine[r]] \in Seq(Request)  BY <1>2 DEF TypeOK
  <2>2. Without(queue[mine[r]], r) \in Seq(Request)  BY <2>1, WithoutOne
  <2>3. queue' = [queue EXCEPT ![mine[r]] = Without(queue[mine[r]], r)]  BY <1>2 DEF Leave
  <2> QED BY <2>2, <2>3 DEF TypeOK
<1> QED BY <1>1, <1>2

LEMMA Uncached == ASSUME NEW k, Cached(k), TypeOK PROVE k \in Key
<1>1. PICK i \in DOMAIN cache : cache[i] = k  BY DEF Cached
<1>2. cache \in Seq(Key)  BY DEF TypeOK
<1> QED BY <1>1, <1>2

LEMMA SameCache == UNCHANGED <<cache, dropped>> => KeepsCache
BY DEF KeepsCache, Cached

LEMMA TouchCache ==
  ASSUME TypeOK, NEW k, Cached(k), Touch(k), dropped' = dropped
  PROVE  KeepsCache /\ cache' \in Seq(Key)
<1>1. k \in Key /\ cache \in Seq(Key)  BY Uncached DEF TypeOK
<1> QED BY <1>1, TouchKeeps DEF KeepsCache

(* A request whose way ends here without an answer of its own. *)
LEMMA EndKeeps ==
  ASSUME OnceInv, LockInv', NEW r \in Request, NEW a \in Ask, a = ask[r] \/ a \in Asks,
         ask' = [ask EXCEPT ![r] = a], NEW out \in Outcome \ {"fresh"}, End(r, out),
         KeepsCache, Listed'
  PROVE  OnceInv'
<1>1. /\ \A q \in Request : q # r => ask'[q] = ask[q] /\ pc'[q] = pc[q] /\ got'[q] = got[q]
      /\ ask'[r] = a /\ pc'[r] = "done" /\ got'[r] = out
  BY DEF End, OnceInv, TypeOK
<1>2. Moves(r) /\ ~Fresh(r)'  BY <1>1 DEF Moves, Fresh
<1>3. FreshKept' /\ Alone' /\ RunsOnce'  BY <1>1, <1>2, OnceKept
<1>4. Keyed'
  <2>1. ask'[r].key # None => ask'[r].kind = "sync"  BY <1>1, GuardConstants DEF OnceInv, Keyed
  <2> QED BY <1>1, <2>1 DEF OnceInv, Keyed
<1> QED BY <1>3, <1>4, WholeType DEF OnceInv

(* A request that goes on, or whose delivery is over. *)
LEMMA GoKeeps ==
  ASSUME OnceInv, LockInv', NEW r \in Request, ask' = ask,
         NEW to \in {"holding", "running", "closing", "done"}, pc' = [pc EXCEPT ![r] = to],
         NEW out \in Outcome, got' = [got EXCEPT ![r] = out],
         to = "closing" /\ out = "fresh" => ask[r].kind = "stream",
         to = "done" => pc[r] = "closing" /\ out = got[r],
         to = "running" => ~Cached(ask[r].key),
         UNCHANGED <<cache, dropped, turns>>, Listed'
  PROVE  OnceInv'
<1>1. /\ \A q \in Request : q # r => pc'[q] = pc[q] /\ got'[q] = got[q]
      /\ pc'[r] = to /\ got'[r] = out
  BY DEF OnceInv, TypeOK
<1>2. Moves(r)  BY <1>1 DEF Moves
<1>3. ~Fresh(r)'
  <2>1. to = "done" /\ out = "fresh" => ask[r].kind = "stream"  BY DEF OnceInv, Keyed
  <2>2. to = "done" /\ out = "fresh" => ask[r].key = None  BY <2>1 DEF OnceInv, Keyed
  <2> QED BY <1>1, <2>2 DEF Fresh
<1>4. KeepsCache  BY SameCache
<1>5. FreshKept' /\ Alone' /\ RunsOnce'  BY <1>1, <1>2, <1>3, <1>4, OnceKept
<1>6. Keyed'  BY <1>1 DEF OnceInv, Keyed
<1> QED BY <1>5, <1>6, WholeType DEF OnceInv

LEMMA AdmitLists ==
  ASSUME TypeOK, NEW r \in Request, NEW a \in Asks, Admit(r, a)
  PROVE  Listed'
<1>1. CASE LockOf(a) = None  BY <1>1 DEF Admit, locks, TypeOK, Listed
<1>2. CASE LockOf(a) # None
  <2> DEFINE l == IF table[LockOf(a)] = None THEN r ELSE table[LockOf(a)]
  <2>1. queue' = [queue EXCEPT ![l] = Append(@, r)] /\ UNCHANGED <<cache, got, turns, dropped>>
    BY <1>2 DEF Admit
  <2> HIDE DEF l
  <2>2. \A s \in Seq(Request) : Append(s, r) \in Seq(Request)  OBVIOUS
  <2>3. queue' \in [Request -> Seq(Request)]  BY <2>1, <2>2 DEF TypeOK
  <2> QED BY <2>1, <2>3 DEF TypeOK, Listed
<1> QED BY <1>1, <1>2

LEMMA AdmitOnce ==
  ASSUME OnceInv, LockInv', NEW r \in Request, NEW a \in Asks, Admit(r, a)
  PROVE  OnceInv'
<1>1. /\ ask' = [ask EXCEPT ![r] = a] /\ UNCHANGED <<cache, got, turns, dropped>>
      /\ pc' = [pc EXCEPT ![r] = IF LockOf(a) = None THEN "holding" ELSE "waiting"]
  BY DEF Admit
<1>2. /\ \A q \in Request : q # r => ask'[q] = ask[q] /\ pc'[q] = pc[q]
      /\ ask'[r] = a /\ pc'[r] \in {"holding", "waiting"}
  BY <1>1 DEF OnceInv, TypeOK
<1>3. Moves(r) /\ ~Fresh(r)'  BY <1>1, <1>2 DEF Moves, Fresh
<1>4. KeepsCache  BY <1>1, SameCache
<1>5. FreshKept' /\ Alone' /\ RunsOnce'  BY <1>2, <1>3, <1>4, OnceKept
<1>6. Keyed'  BY <1>1, <1>2, GuardConstants DEF OnceInv, Keyed
<1>7. Listed'  BY AdmitLists DEF OnceInv
<1> QED BY <1>5, <1>6, <1>7, WholeType DEF OnceInv

LEMMA AcquireLists ==
  ASSUME TypeOK, NEW r \in Request, Acquire(r)
  PROVE  Listed'
<1>1. /\ queue[mine[r]] # <<>> /\ queue' = [queue EXCEPT ![mine[r]] = Tail(queue[mine[r]])]
      /\ UNCHANGED <<cache, got, turns, dropped>>
  BY DEF Acquire
<1>2. CASE mine[r] \in Request
  <2>1. queue[mine[r]] \in Seq(Request)  BY <1>2 DEF TypeOK
  <2>2. Tail(queue[mine[r]]) \in Seq(Request)  BY <1>1, <2>1, HeadTailProperties
  <2> QED BY <1>1, <2>2 DEF TypeOK, Listed
<1>3. CASE mine[r] \notin Request
  <2>1. queue' = queue  BY <1>1, <1>3 DEF TypeOK
  <2> QED BY <1>1, <2>1 DEF TypeOK, Listed
<1> QED BY <1>2, <1>3

(* The pipeline of a synchronous request returns. *)
LEMMA AnswerOnce ==
  ASSUME OnceInv, LockInv', NEW r \in Request, pc[r] = "running", NEW out \in {"fresh", "degraded"},
         End(r, out), Leave(r), UNCHANGED <<ask, turns>>,
         \/ out = "fresh" /\ ask[r].key # None /\ Store(ask[r].key)
         \/ (out # "fresh" \/ ask[r].key = None) /\ UNCHANGED <<cache, dropped>>
  PROVE  OnceInv'
<1>1. /\ \A q \in Request : q # r => pc'[q] = pc[q] /\ got'[q] = got[q]
      /\ pc'[r] = "done" /\ got'[r] = out /\ got' \in [Request -> Outcome]
  BY DEF End, OnceInv, TypeOK, Outcome
<1>2. Moves(r)  BY <1>1 DEF Moves
<1>3. queue' \in [Request -> Seq(Request)]  BY LeaveLists DEF OnceInv
<1>4. /\ KeepsCache /\ cache' \in Seq(Key) /\ dropped' \subseteq Key
      /\ Fresh(r)' => Cached(ask[r].key)'
  <2>1. CASE out = "fresh" /\ ask[r].key # None /\ Store(ask[r].key)
    <3>1. ask[r].key \in Key /\ cache \in Seq(Key) /\ dropped \subseteq Key
      BY <2>1, KeyTyped DEF OnceInv, TypeOK
    <3> QED BY <2>1, <3>1, StoreKeeps DEF KeepsCache, Fresh
  <2>2. CASE (out # "fresh" \/ ask[r].key = None) /\ UNCHANGED <<cache, dropped>>
    <3>1. ~Fresh(r)'  BY <1>1, <2>2 DEF Fresh
    <3> QED BY <2>2, <3>1, SameCache DEF OnceInv, TypeOK
  <2> QED BY <2>1, <2>2
<1>5. FreshKept' /\ Alone' /\ RunsOnce'  BY <1>1, <1>2, <1>4, OnceKept
<1>6. Keyed'  BY <1>1 DEF OnceInv, Keyed
<1>7. Listed'  BY <1>1, <1>3, <1>4 DEF Listed, OnceInv, TypeOK
<1> QED BY <1>5, <1>6, <1>7, WholeType DEF OnceInv

LEMMA QuietOnce ==
  ASSUME OnceInv, LockInv', UNCHANGED <<ask, pc, got>>, KeepsCache, Listed'
  PROVE  OnceInv'
<1>1. Moves(None) /\ None \notin Request  BY GuardConstants DEF Moves
<1>2. FreshKept' /\ Alone' /\ RunsOnce'  BY <1>1, OnceKept
<1>3. Keyed'  BY DEF OnceInv, Keyed
<1> QED BY <1>2, <1>3, WholeType DEF OnceInv

LEMMA OnceInit == Init => OnceInv
<1> SUFFICES ASSUME Init PROVE OnceInv
  OBVIOUS
<1>1. LockInv  BY GuardInit
<1>2. <<>> \in Seq(Request) /\ <<>> \in Seq(Key)  OBVIOUS
<1>3. TypeOK  BY <1>1, <1>2 DEF Init, LockInv, Typed, TypeOK, Outcome
<1>4. Keyed /\ FreshKept /\ Alone /\ RunsOnce
  BY DEF Init, NoAsk, Keyed, FreshKept, Alone, RunsOnce, Fresh
<1> QED BY <1>1, <1>3, <1>4 DEF OnceInv

LEMMA OnceStep == OnceInv /\ [Next]_vars => OnceInv'
<1> SUFFICES ASSUME OnceInv, [Next]_vars PROVE OnceInv'
  OBVIOUS
<1>0. LockInv' /\ TypeOK  BY GuardStep DEF OnceInv
<1>1. ASSUME NEW r \in Request, NEW a \in Asks, ReplayEarly(r, a) PROVE OnceInv'
  <2>1. KeepsCache /\ cache' \in Seq(Key)  BY <1>0, <1>1, TouchCache DEF ReplayEarly
  <2>2. Listed'  BY <1>0, <1>1, <2>1 DEF ReplayEarly, End, locks, TypeOK, Listed, Outcome
  <2>3. a \in Ask /\ "replayed" \in Outcome \ {"fresh"}  BY GuardConstants DEF Outcome
  <2> QED BY <1>0, <1>1, <2>1, <2>2, <2>3, EndKeeps DEF ReplayEarly
<1>2. ASSUME NEW r \in Request, NEW a \in Asks, TurnAway(r, a) PROVE OnceInv'
  <2>1. KeepsCache  BY <1>2, SameCache DEF TurnAway
  <2>2. Listed'  BY <1>0, <1>2 DEF TurnAway, End, locks, TypeOK, Listed, Outcome
  <2>3. a \in Ask /\ "full" \in Outcome \ {"fresh"}  BY GuardConstants DEF Outcome
  <2> QED BY <1>0, <1>2, <2>1, <2>2, <2>3, EndKeeps DEF TurnAway
<1>3. ASSUME NEW r \in Request, NEW a \in Asks, Admit(r, a) PROVE OnceInv'
  BY <1>0, <1>3, AdmitOnce
<1>4. ASSUME NEW r \in Request, Acquire(r) PROVE OnceInv'
  <2>1. Listed'  BY <1>0, <1>4, AcquireLists
  <2>2. got' = [got EXCEPT ![r] = got[r]] /\ got[r] \in Outcome  BY <1>0, <1>4 DEF Acquire, TypeOK
  <2> QED BY <1>0, <1>4, <2>1, <2>2, GoKeeps DEF Acquire
<1>5. ASSUME NEW r \in Request, NEW out \in {"busy", "failed"}, End(r, out), Leave(r),
             UNCHANGED <<ask, cache, turns, dropped>>
      PROVE  OnceInv'
  <2>1. KeepsCache /\ queue' \in [Request -> Seq(Request)]  BY <1>0, <1>5, SameCache, LeaveLists
  <2>2. Listed'  BY <1>0, <1>5, <2>1 DEF End, TypeOK, Listed, Outcome
  <2>3. out \in Outcome \ {"fresh"} /\ ask[r] \in Ask /\ ask' = [ask EXCEPT ![r] = ask[r]]
    BY <1>0, <1>5 DEF Outcome, TypeOK
  <2> QED BY <1>0, <1>5, <2>1, <2>2, <2>3, EndKeeps
<1>6. ASSUME NEW r \in Request, ReplayLate(r) PROVE OnceInv'
  <2>1. KeepsCache /\ cache' \in Seq(Key)  BY <1>0, <1>6, TouchCache DEF ReplayLate
  <2>2. queue' \in [Request -> Seq(Request)]  BY <1>0, <1>6, LeaveLists DEF ReplayLate
  <2>3. Listed'  BY <1>0, <1>6, <2>1, <2>2 DEF ReplayLate, End, TypeOK, Listed, Outcome
  <2>4. "replayed" \in Outcome \ {"fresh"} /\ ask[r] \in Ask /\ ask' = [ask EXCEPT ![r] = ask[r]]
    BY <1>0, <1>6 DEF ReplayLate, Outcome, TypeOK
  <2> QED BY <1>0, <1>6, <2>1, <2>3, <2>4, EndKeeps DEF ReplayLate
<1>7. ASSUME NEW r \in Request, Begin(r) PROVE OnceInv'
  <2>1. Listed'  BY <1>0, <1>7 DEF Begin, locks, TypeOK, Listed
  <2>2. got' = [got EXCEPT ![r] = got[r]] /\ got[r] \in Outcome  BY <1>0, <1>7 DEF Begin, TypeOK
  <2> QED BY <1>0, <1>7, <2>1, <2>2, GoKeeps DEF Begin
<1>8. ASSUME NEW r \in Request, NEW out \in {"fresh", "degraded", "failed"}, UNCHANGED <<ask, turns>>,
             out = "fresh" => ask[r].kind = "stream",
             pc' = [pc EXCEPT ![r] = "closing"], got' = [got EXCEPT ![r] = out],
             UNCHANGED <<active, locks, cache, dropped>>
      PROVE  OnceInv'
  <2>1. out \in Outcome  BY <1>8 DEF Outcome
  <2>2. Listed'  BY <1>0, <1>8, <2>1 DEF locks, TypeOK, Listed
  <2> QED BY <1>0, <1>8, <2>1, <2>2, GoKeeps
<1>9. ASSUME NEW r \in Request, Answer(r) PROVE OnceInv'
  <2>1. PICK out \in {"fresh", "degraded"} :
          \/ /\ ask[r].kind = "stream"
             /\ pc' = [pc EXCEPT ![r] = "closing"] /\ got' = [got EXCEPT ![r] = out]
             /\ UNCHANGED <<active, locks, cache, dropped>>
          \/ /\ End(r, out) /\ Leave(r)
             /\ \/ out = "fresh" /\ ask[r].key # None /\ Store(ask[r].key)
                \/ (out # "fresh" \/ ask[r].key = None) /\ UNCHANGED <<cache, dropped>>
    BY <1>9 DEF Answer
  <2>2. pc[r] = "running" /\ UNCHANGED <<ask, turns>>  BY <1>9 DEF Answer
  <2> QED BY <1>0, <1>8, <2>1, <2>2, AnswerOnce
<1>10. ASSUME NEW r \in Request, Cut(r) PROVE OnceInv'
  BY <1>8, <1>10 DEF Cut
<1>11. ASSUME NEW r \in Request, Close(r) PROVE OnceInv'
  <2>1. queue' \in [Request -> Seq(Request)]  BY <1>0, <1>11, LeaveLists DEF Close
  <2>2. Listed'  BY <1>0, <1>11, <2>1 DEF Close, TypeOK, Listed
  <2>3. got' = [got EXCEPT ![r] = got[r]] /\ got[r] \in Outcome  BY <1>0, <1>11 DEF Close, TypeOK
  <2> QED BY <1>0, <1>11, <2>2, <2>3, GoKeeps DEF Close
<1>12. ASSUME NEW r \in Request, CommitTurn(r) PROVE OnceInv'
  <2>1. KeepsCache /\ Listed'  BY <1>0, <1>12, SameCache DEF CommitTurn, locks, TypeOK, Listed
  <2> QED BY <1>0, <1>12, <2>1, QuietOnce DEF CommitTurn
<1>13. ASSUME NEW k \in Key, Expire(k) PROVE OnceInv'
  <2>1. cache \in Seq(Key) /\ None \notin Key  BY <1>0, GuardConstants DEF TypeOK, LockKey
  <2>2. cache' = Others(k) /\ dropped' = dropped \cup {k}  BY <1>13 DEF Expire
  <2>3. cache' \in Seq(Key)  BY <2>1, <2>2, CacheSteps
  <2>4. \A c \in Key : c # k /\ Cached(c) => \E i \in DOMAIN cache' : cache'[i] = c
    BY <2>1, <2>2, CacheSteps
  <2>5. KeepsCache  BY <2>1, <2>2, <2>4 DEF KeepsCache, Cached
  <2>6. Listed'  BY <1>0, <1>13, <2>2, <2>3 DEF Expire, locks, TypeOK, Listed
  <2> QED BY <1>0, <1>13, <2>5, <2>6, QuietOnce DEF Expire
<1>14. CASE UNCHANGED vars
  <2>1. KeepsCache /\ Listed'  BY <1>0, <1>14, SameCache DEF vars, TypeOK, Listed
  <2> QED BY <1>0, <1>14, <2>1, QuietOnce DEF vars
<1>15. ASSUME NEW r \in Request, GiveUp(r) \/ Refuse(r) PROVE OnceInv'
  BY <1>5, <1>15 DEF GiveUp, Refuse
<1> QED BY <1>1, <1>2, <1>3, <1>4, <1>6, <1>7, <1>9, <1>10, <1>11, <1>12, <1>13, <1>14, <1>15
        DEF Next, Arrive, Work, Break

(* While a response is kept its answer is computed once: whoever asks with the same key
   looks into the cache again under the lock, and there nobody else can be in between
   the look and the entry (get_idempotent_response, store_idempotent_response). *)
THEOREM Replies == Spec => []RepliesSound
<1>1. OnceInv => RepliesSound
  BY DEF OnceInv, RepliesSound
<1> QED BY <1>1, OnceInit, OnceStep, PTL DEF Spec
=============================================================================
