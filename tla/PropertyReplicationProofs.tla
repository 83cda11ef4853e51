---------------------- MODULE PropertyReplicationProofs ----------------------
(***************************************************************************)
(* Every change of an actor reaches its client, in order, for any set of   *)
(* properties, conditions, sizes of the histories and losses.              *)
(***************************************************************************)
EXTENDS PropertyReplicationInvariant, FiniteSetTheorems, WellFoundedInduction, TLAPS

LEMMA Constants ==
  /\ MAX_CHANGE_HISTORY \in Nat /\ MAX_CHANGE_HISTORY > 1
  /\ MAX_SENT_HISTORY \in Nat /\ MAX_SENT_HISTORY > 1
  /\ MaxChanges \in Nat /\ MaxOwnerChanges \in Nat /\ MaxLosses \in Nat
  /\ \A p \in Prop : Condition[p] \in {"None", "OwnerOnly", "InitialOnly"}
  /\ Sizes \subseteq {"whole", "partial", "large"}
BY ReplicationAssumption

\* A set of natural numbers with some number has a least one.
LEMMA LeastNumber ==
  ASSUME NEW S \in SUBSET Nat, S # {}
  PROVE  \E n \in S : \A m \in S : n <= m
<1>1. IsWellFoundedOn(OpToRel(<, Nat), Nat)
  BY NatLessThanWellFounded
<1>2. PICK n \in S : \A m \in S : ~ (<<m, n>> \in OpToRel(<, Nat))
  BY <1>1, WFMin
<1>3. ASSUME NEW m \in S, m < n PROVE FALSE
  <2>1. <<m, n>> \in OpToRel(<, Nat)
    BY <1>3 DEF OpToRel
  <2> QED BY <1>2, <2>1
<1> QED BY <1>3

\* A set of places that has with a place all before it is that of the first ones.
LEMMA FirstPlaces ==
  ASSUME NEW n \in Nat, NEW S \in SUBSET (1 .. n),
         \A i \in S : \A j \in 1 .. i - 1 : j \in S
  PROVE  /\ Cardinality(S) \in 0 .. n
         /\ S = 1 .. Cardinality(S)
<1> DEFINE Gaps == {k \in Nat : k + 1 \notin S}
<1>1. n \in Gaps
  OBVIOUS
<1>2. PICK k \in Gaps : \A m \in Gaps : k <= m
  BY <1>1, LeastNumber
<1>3. ASSUME NEW i \in S PROVE i \in 1 .. k
  <2>1. i \in Nat /\ i >= 1
    OBVIOUS
  <2>2. SUFFICES ASSUME i > k PROVE FALSE
    BY <2>1
  <2>3. i # k + 1
    OBVIOUS
  <2> QED BY <2>1, <2>2, <2>3
<1>4. ASSUME NEW i \in 1 .. k PROVE i \in S
  <2>1. i - 1 \in Nat /\ i - 1 < k
    OBVIOUS
  <2>2. i - 1 \notin Gaps
    BY <1>2, <2>1
  <2> QED BY <2>1, <2>2
<1>5. S = 1 .. k
  BY <1>3, <1>4
<1>6. Cardinality(S) = k
  <2>1. k \in Nat /\ k \in Int /\ 1 \in Int
    OBVIOUS
  <2>2. Cardinality(1 .. k) = IF 1 > k THEN 0 ELSE k - 1 + 1
    BY <2>1, FS_Interval
  <2> QED BY <1>5, <2>1, <2>2
<1>7. k <= n
  BY <1>1, <1>2
<1> QED BY <1>5, <1>6, <1>7

-----------------------------------------------------------------------------
(* The comparison                                                          *)

\* Numbers that are less than M apart have their own place in a circle of M.
LEMMA Places ==
  ASSUME NEW M \in Nat, M > 1, NEW i \in Nat
  PROVE  /\ i % M \in 0 .. M - 1
         /\ \A j \in Nat : i < j /\ j - i < M => i % M # j % M
<1>1. i % M \in 0 .. M - 1
  OBVIOUS
<1>2. ASSUME NEW j \in Nat, i < j, j - i < M, i % M = j % M PROVE FALSE
  <2>1. PICK q \in Int : q = i \div M
    OBVIOUS
  <2>2. PICK r \in Int : r = j \div M
    OBVIOUS
  <2>3. i = M * q + (i % M) /\ j = M * r + (j % M)
    BY <2>1, <2>2
  <2>4. j - i = M * r - M * q
    BY <1>2, <2>3
  <2>5. PICK d \in Int : d = r - q
    OBVIOUS
  <2>6. M * r - M * q = M * d
    BY <2>5
  <2>7. d >= 1 => M * d >= M
    OBVIOUS
  <2>8. d <= 0 => M * d <= 0
    OBVIOUS
  <2> QED BY <1>2, <2>4, <2>5, <2>6, <2>7, <2>8
<1> QED BY <1>1, <1>2

\* p is in a change list of number n or later.
InLists(sh, n, p) ==
    \E i \in sh.HistoryStart .. sh.HistoryEnd - 1 :
        i >= n /\ p \in sh.ChangeHistory[i % MAX_CHANGE_HISTORY]

LEMMA ListsAreIn ==
  ASSUME NEW sh \in SharedType, NEW p
  PROVE  p \in UNION Lists(sh) <=> InLists(sh, 0, p)
BY DEF Lists, InLists, SharedType

LEMMA GatheredIsIn ==
  ASSUME NEW sh \in SharedType, NEW s \in SendingType, NEW p
  PROVE  p \in Gathered(s, sh) <=> InLists(sh, s.LastChangelistIndex, p)
BY DEF Gathered, InLists, SharedType, SendingType

Room(sh) == /\ sh.HistoryStart <= sh.HistoryEnd
            /\ sh.HistoryEnd - sh.HistoryStart < MAX_CHANGE_HISTORY

\* What MakeRoom does to a history that may be full: no change leaves it.
LEMMA MakeRoomExact ==
  ASSUME NEW sh \in SharedType, sh.HistoryStart <= sh.HistoryEnd,
         sh.HistoryEnd - sh.HistoryStart <= MAX_CHANGE_HISTORY
  PROVE  LET r == MakeRoom(sh)
         IN /\ r \in SharedType /\ Room(r)
            /\ r.HistoryEnd = sh.HistoryEnd /\ r.StaticBuffer = sh.StaticBuffer
            /\ r.comparedThisFrame = sh.comparedThisFrame /\ r.CompareIndex = sh.CompareIndex
            /\ \A n \in Nat : \A p : n < sh.HistoryEnd /\ InLists(sh, n, p) => InLists(r, n, p)
<1> DEFINE M == MAX_CHANGE_HISTORY
           first == sh.HistoryStart % M
           second == (sh.HistoryStart + 1) % M
           lists == [sh.ChangeHistory EXCEPT ![second] = @ \cup sh.ChangeHistory[first]]
<1>1. CASE sh.HistoryEnd - sh.HistoryStart # MAX_CHANGE_HISTORY
  BY <1>1, Constants DEF MakeRoom, Room, SharedType
<1>2. CASE sh.HistoryEnd - sh.HistoryStart = MAX_CHANGE_HISTORY
  <2>1. PICK r : r = [sh EXCEPT !.HistoryStart = @ + 1, !.ChangeHistory = lists]
    OBVIOUS
  <2>2. MakeRoom(sh) = r
    BY <1>2, <2>1 DEF MakeRoom
  <2>3. /\ sh.HistoryStart \in Nat /\ sh.HistoryEnd \in Nat /\ sh.HistoryStart + 1 \in Nat
        /\ sh.ChangeHistory \in [0 .. M - 1 -> SUBSET Prop]
    BY DEF SharedType
  <2>4. first \in 0 .. M - 1 /\ second \in 0 .. M - 1
    BY <2>3, Constants, Places
  <2>5. lists \in [0 .. M - 1 -> SUBSET Prop]
    BY <2>3, <2>4
  <2>6. r \in SharedType
    BY <2>1, <2>3, <2>5 DEF SharedType
  <2>7. /\ r.HistoryStart = sh.HistoryStart + 1 /\ r.HistoryEnd = sh.HistoryEnd
        /\ r.StaticBuffer = sh.StaticBuffer /\ r.comparedThisFrame = sh.comparedThisFrame
        /\ r.CompareIndex = sh.CompareIndex /\ r.ChangeHistory = lists
    BY <2>1 DEF SharedType
  <2>8. Room(r)
    BY <1>2, <2>3, <2>7, Constants DEF Room
  <2>9. ASSUME NEW n \in Nat, NEW p, n < sh.HistoryEnd, InLists(sh, n, p) PROVE InLists(r, n, p)
    <3>1. PICK i \in sh.HistoryStart .. sh.HistoryEnd - 1 : i >= n /\ p \in sh.ChangeHistory[i % M]
      BY <2>9 DEF InLists
    <3>2. i \in Nat /\ i % M \in 0 .. M - 1
      BY <2>3, Constants, Places
    <3>3. CASE i = sh.HistoryStart
      <4>1. p \in lists[second]
        BY <3>1, <3>3, <2>3, <2>4
      <4>2. sh.HistoryStart + 1 \in r.HistoryStart .. r.HistoryEnd - 1
        BY <2>3, <2>7, <1>2, Constants
      <4>3. sh.HistoryStart + 1 >= n
        BY <3>1, <3>3, <2>3
      <4> QED BY <4>1, <4>2, <4>3, <2>7 DEF InLists
    <3>4. CASE i # sh.HistoryStart
      <4>1. p \in lists[i % M]
        BY <3>1, <3>2, <2>3
      <4>2. i \in r.HistoryStart .. r.HistoryEnd - 1
        BY <3>4, <2>3, <2>7
      <4> QED BY <4>1, <4>2, <3>1, <2>7 DEF InLists
    <3> QED BY <3>3, <3>4
  <2> QED BY <2>2, <2>6, <2>7, <2>8, <2>9
<1> QED BY <1>1, <1>2

\* A comparison: the shadow state gets what was compared, and every change is
\* in the lists, those that a connection has not looked at included.
LEMMA CompareExact ==
  ASSUME NEW b \in BOOLEAN, object \in ObjectType, shared \in SharedType, Room(shared)
  PROVE  LET r == CompareProperties(b)
         IN /\ r \in SharedType /\ Room(r) /\ r.comparedThisFrame
            /\ r.HistoryEnd \in {shared.HistoryEnd, shared.HistoryEnd + 1}
            /\ r.HistoryEnd = shared.HistoryEnd => r.StaticBuffer = shared.StaticBuffer
            /\ r.StaticBuffer = [p \in Prop |-> IF p \in Compared(b) THEN object.value[p]
                                                ELSE shared.StaticBuffer[p]]
            /\ \A n \in Nat : \A p \in Prop :
                 /\ n <= shared.HistoryEnd
                 /\ InLists(shared, n, p) \/ r.StaticBuffer[p] # shared.StaticBuffer[p]
                 => InLists(r, n, p)
<1> DEFINE M == MAX_CHANGE_HISTORY
           changed == {p \in Compared(b) : object.value[p] # shared.StaticBuffer[p]}
           place == shared.HistoryEnd % M
           lists == [shared.ChangeHistory EXCEPT ![place] = changed]
           buffer == [p \in Prop |-> IF p \in changed THEN object.value[p] ELSE shared.StaticBuffer[p]]
<1>1. /\ shared.HistoryStart \in Nat /\ shared.HistoryEnd \in Nat /\ shared.HistoryEnd + 1 \in Nat
      /\ shared.ChangeHistory \in [0 .. M - 1 -> SUBSET Prop]
      /\ shared.StaticBuffer \in [Prop -> Value] /\ object.value \in [Prop -> Value]
  BY DEF SharedType, ObjectType
<1>2. place \in 0 .. M - 1
  BY <1>1, Constants, Places
<1>3. changed \subseteq Prop /\ buffer \in [Prop -> Value] /\ lists \in [0 .. M - 1 -> SUBSET Prop]
  BY <1>1, <1>2 DEF Compared
<1>4. PICK compared : compared = [shared EXCEPT !.CompareIndex = Counted(@ + 1), !.comparedThisFrame = TRUE,
                                                !.ChangeHistory = lists]
  OBVIOUS
<1>5. compared \in SharedType
  <2>1. shared.CompareIndex \in 0 .. 2
    BY DEF SharedType
  <2>2. Counted(shared.CompareIndex + 1) \in 0 .. 2
    BY <2>1 DEF Counted
  <2> QED BY <1>1, <1>3, <1>4, <2>2 DEF SharedType
<1>6. /\ compared.HistoryStart = shared.HistoryStart /\ compared.HistoryEnd = shared.HistoryEnd
      /\ compared.StaticBuffer = shared.StaticBuffer /\ compared.comparedThisFrame
      /\ compared.ChangeHistory = lists
  BY <1>4 DEF SharedType
<1>7. ASSUME NEW i \in shared.HistoryStart .. shared.HistoryEnd - 1
      PROVE  lists[i % M] = shared.ChangeHistory[i % M]
  <2>1. i \in Nat /\ i < shared.HistoryEnd /\ shared.HistoryEnd - i < M
    BY <1>1, Constants DEF Room
  <2>2. i % M \in 0 .. M - 1 /\ i % M # place
    BY <2>1, <1>1, Constants, Places
  <2> QED BY <2>2, <1>1
<1>8. buffer = [p \in Prop |-> IF p \in Compared(b) THEN object.value[p] ELSE shared.StaticBuffer[p]]
  BY <1>1
<1>9. CASE changed = {}
  <2>1. CompareProperties(b) = compared
    BY <1>4, <1>9 DEF CompareProperties
  <2>2. buffer = shared.StaticBuffer
    BY <1>1, <1>9
  <2>3. Room(compared)
    BY <1>6 DEF Room
  <2>4. \A n \in Nat : \A p \in Prop : InLists(shared, n, p) => InLists(compared, n, p)
    BY <1>6, <1>7 DEF InLists
  <2> QED BY <2>1, <2>2, <2>3, <2>4, <1>5, <1>6, <1>8
<1>10. CASE changed # {}
  <2>1. PICK more : more = [compared EXCEPT !.HistoryEnd = @ + 1, !.StaticBuffer = buffer]
    OBVIOUS
  <2>2. /\ more.HistoryStart = shared.HistoryStart /\ more.HistoryEnd = shared.HistoryEnd + 1
        /\ more.StaticBuffer = buffer /\ more.comparedThisFrame /\ more.ChangeHistory = lists
    BY <1>5, <1>6, <2>1 DEF SharedType
  <2>3. more \in SharedType
    BY <1>1, <1>3, <1>5, <1>6, <2>1 DEF SharedType
  <2>4. /\ more.HistoryStart <= more.HistoryEnd
        /\ more.HistoryEnd - more.HistoryStart <= MAX_CHANGE_HISTORY
    BY <2>2, <1>1, Constants DEF Room
  <2>5. CompareProperties(b) = MakeRoom(more)
    <3>1. more = [compared EXCEPT !.HistoryEnd = @ + 1,
                    !.StaticBuffer = [p \in Prop |-> IF p \in changed THEN object.value[p] ELSE @[p]]]
      BY <2>1, <1>6
    <3> QED BY <3>1, <1>4, <1>10 DEF CompareProperties
  <2>6. ASSUME NEW n \in Nat, NEW p \in Prop, n <= shared.HistoryEnd,
               InLists(shared, n, p) \/ buffer[p] # shared.StaticBuffer[p]
        PROVE  InLists(more, n, p)
    <3>1. CASE InLists(shared, n, p)
      <4>1. PICK i \in shared.HistoryStart .. shared.HistoryEnd - 1 :
                i >= n /\ p \in shared.ChangeHistory[i % M]
        BY <3>1 DEF InLists
      <4>2. i \in more.HistoryStart .. more.HistoryEnd - 1
        BY <2>2, <1>1
      <4> QED BY <4>1, <4>2, <1>7, <2>2 DEF InLists
    <3>2. CASE buffer[p] # shared.StaticBuffer[p]
      <4>1. p \in changed
        BY <3>2, <1>1
      <4>2. p \in lists[place]
        BY <4>1, <1>1, <1>2
      <4>3. shared.HistoryEnd \in more.HistoryStart .. more.HistoryEnd - 1
        BY <2>2, <1>1 DEF Room
      <4> QED BY <4>2, <4>3, <2>2, <2>6 DEF InLists
    <3> QED BY <2>6, <3>1, <3>2
  <2>7. PICK r : r = MakeRoom(more)
    OBVIOUS
  <2>8. /\ r \in SharedType /\ Room(r)
        /\ r.HistoryEnd = more.HistoryEnd /\ r.StaticBuffer = more.StaticBuffer
        /\ r.comparedThisFrame = more.comparedThisFrame
        /\ \A n \in Nat : \A p : n < more.HistoryEnd /\ InLists(more, n, p) => InLists(r, n, p)
    BY <2>3, <2>4, <2>7, MakeRoomExact
  <2>9. \A n \in Nat : \A p \in Prop :
            /\ n <= shared.HistoryEnd
            /\ InLists(shared, n, p) \/ r.StaticBuffer[p] # shared.StaticBuffer[p]
            => InLists(r, n, p)
    <3>1. SUFFICES ASSUME NEW n \in Nat, NEW p \in Prop, n <= shared.HistoryEnd,
                          InLists(shared, n, p) \/ r.StaticBuffer[p] # shared.StaticBuffer[p]
                   PROVE  InLists(r, n, p)
      OBVIOUS
    <3>2. InLists(more, n, p)
      BY <3>1, <2>6, <2>8, <2>2
    <3>3. n < more.HistoryEnd
      BY <3>1, <2>2, <1>1
    <3> QED BY <3>1, <3>2, <3>3, <2>8
  <2>10. r.HistoryEnd = shared.HistoryEnd + 1 /\ r.StaticBuffer = buffer /\ r.comparedThisFrame
    BY <2>2, <2>8
  <2>11. r.HistoryEnd # shared.HistoryEnd
    BY <2>10, <1>1
  <2> QED BY <2>5, <2>7, <2>8, <2>9, <2>10, <2>11, <1>8
<1> QED BY <1>9, <1>10

\* How a comparison for any connection may leave the shadow state.
Advanced(r) ==
    /\ r \in SharedType /\ Room(r)
    /\ shared.HistoryEnd <= r.HistoryEnd
    /\ r.HistoryEnd = shared.HistoryEnd => r.StaticBuffer = shared.StaticBuffer
    /\ \A p \in Prop : /\ shared.StaticBuffer[p] <= r.StaticBuffer[p]
                       /\ r.StaticBuffer[p] <= object.value[p]
                       /\ Condition[p] # "InitialOnly" => r.StaticBuffer[p] = object.value[p]
    /\ \A n \in Nat : \A p \in Prop :
         /\ n <= shared.HistoryEnd
         /\ InLists(shared, n, p) \/ r.StaticBuffer[p] # shared.StaticBuffer[p]
         => InLists(r, n, p)

LEMMA ValuesTyped ==
  ASSUME TypeOK
  PROVE  /\ object.value \in [Prop -> Nat] /\ shared.StaticBuffer \in [Prop -> Nat]
         /\ client.value \in [Prop -> Nat] /\ object.changes \in Nat
         /\ shared.HistoryStart \in Nat /\ shared.HistoryEnd \in Nat
BY Constants DEF TypeOK, ObjectType, SharedType, ClientType, Value

LEMMA CompareAdvances ==
  ASSUME TypeOK, Compares, NEW b \in BOOLEAN
  PROVE  /\ Advanced(CompareProperties(b))
         /\ b => CompareProperties(b).StaticBuffer = object.value
<1> DEFINE r == CompareProperties(b)
<1>1. object \in ObjectType /\ shared \in SharedType /\ Room(shared)
  BY DEF TypeOK, Compares, Room
<1>2. /\ r \in SharedType /\ Room(r)
      /\ r.HistoryEnd \in {shared.HistoryEnd, shared.HistoryEnd + 1}
      /\ r.HistoryEnd = shared.HistoryEnd => r.StaticBuffer = shared.StaticBuffer
      /\ r.StaticBuffer = [p \in Prop |-> IF p \in Compared(b) THEN object.value[p]
                                          ELSE shared.StaticBuffer[p]]
      /\ \A n \in Nat : \A p \in Prop :
           /\ n <= shared.HistoryEnd
           /\ InLists(shared, n, p) \/ r.StaticBuffer[p] # shared.StaticBuffer[p]
           => InLists(r, n, p)
  BY <1>1, CompareExact
<1> HIDE DEF r
<1>3. ASSUME NEW p \in Prop
      PROVE  /\ shared.StaticBuffer[p] <= r.StaticBuffer[p]
             /\ r.StaticBuffer[p] <= object.value[p]
             /\ b \/ Condition[p] # "InitialOnly" => r.StaticBuffer[p] = object.value[p]
  <2>1. r.StaticBuffer[p] = IF p \in Compared(b) THEN object.value[p] ELSE shared.StaticBuffer[p]
    BY <1>2
  <2>2. CASE p \in Compared(b)
    BY <2>1, <2>2, ValuesTyped DEF Compares
  <2>3. CASE p \notin Compared(b)
    <3>1. r.StaticBuffer[p] = shared.StaticBuffer[p] /\ shared.StaticBuffer[p] \in Nat
      BY <2>1, <2>3, ValuesTyped
    <3>2. b \/ Condition[p] # "InitialOnly" =>
            /\ Condition[p] # "InitialOnly"
            /\ p \in PushModelProperty /\ p \notin object.dirty
      BY <2>3 DEF Compared
    <3> QED BY <3>1, <3>2 DEF Compares
  <2> QED BY <2>2, <2>3
<1>4. shared.HistoryEnd <= r.HistoryEnd
  BY <1>2, ValuesTyped
<1>5. b => r.StaticBuffer = object.value
  BY <1>2, <1>3, ValuesTyped
<1>6. Advanced(r)
  BY <1>2, <1>3, <1>4 DEF Advanced
<1> QED BY <1>5, <1>6 DEF r

LEMMA UpdateAdvances ==
  ASSUME TypeOK, Compares, NEW b \in BOOLEAN
  PROVE  /\ Advanced(UpdateChangelistMgr(b))
         /\ b => UpdateChangelistMgr(b).StaticBuffer = object.value
<1>1. CASE ~b /\ sending.LastCompareIndex > 1 /\ shared.comparedThisFrame
  <2>1. UpdateChangelistMgr(b) = shared
    BY <1>1 DEF UpdateChangelistMgr
  <2>2. Advanced(shared)
    BY <1>1, ValuesTyped DEF Advanced, Compares, TypeOK, Room
  <2> QED BY <1>1, <2>1, <2>2
<1>2. CASE ~(~b /\ sending.LastCompareIndex > 1 /\ shared.comparedThisFrame)
  <2>1. UpdateChangelistMgr(b) = CompareProperties(b)
    BY <1>2 DEF UpdateChangelistMgr
  <2> QED BY <2>1, CompareAdvances
<1> QED BY <1>1, <1>2

\* The comparison keeps its part of the invariant.
LEMMA ComparesStep ==
  ASSUME TypeOK, Compares, NEW r, Advanced(r),
         object' = [object EXCEPT !.dirty = {}],
         shared' \in SharedType,
         shared'.HistoryStart = r.HistoryStart, shared'.HistoryEnd = r.HistoryEnd,
         shared'.StaticBuffer = r.StaticBuffer, shared'.ChangeHistory = r.ChangeHistory,
         sending'.LastChangelistIndex <= r.HistoryEnd
  PROVE  Compares'
<1>1. object'.value = object.value /\ object'.dirty = {} /\ object'.changes = object.changes
  BY DEF TypeOK, ObjectType
<1>2. shared'.HistoryStart <= shared'.HistoryEnd
      /\ shared'.HistoryEnd - shared'.HistoryStart < MAX_CHANGE_HISTORY
  BY DEF Advanced, Room
<1>3. ASSUME NEW p \in Prop
      PROVE  /\ object'.value[p] <= object'.changes
             /\ shared'.StaticBuffer[p] <= object'.value[p]
             /\ shared'.StaticBuffer[p] # 0 => p \in UNION Lists(shared')
             /\ Condition[p] # "InitialOnly" => object'.value[p] = shared'.StaticBuffer[p]
  <2>1. object'.value[p] <= object'.changes
    BY <1>1 DEF Compares
  <2>2. /\ shared'.StaticBuffer[p] <= object'.value[p]
        /\ Condition[p] # "InitialOnly" => object'.value[p] = shared'.StaticBuffer[p]
    BY <1>1 DEF Advanced
  <2>3. ASSUME shared'.StaticBuffer[p] # 0 PROVE p \in UNION Lists(shared')
    <3>1. shared.StaticBuffer[p] # 0 => InLists(shared, 0, p)
      BY ListsAreIn DEF Compares, TypeOK
    <3>2. InLists(r, 0, p)
      BY <2>3, <3>1, ValuesTyped DEF Advanced
    <3>3. InLists(shared', 0, p)
      BY <3>2 DEF InLists
    <3> QED BY <3>3, ListsAreIn
  <2> QED BY <2>1, <2>2, <2>3
<1>4. sending'.LastChangelistIndex <= shared'.HistoryEnd
  OBVIOUS
<1> QED BY <1>2, <1>3, <1>4 DEF Compares

-----------------------------------------------------------------------------
(* The game, and other connections                                         *)

LEMMA TypeSetValue ==
  ASSUME TypeOK, Compares, NEW q \in Prop, SetValue(q)
  PROVE  TypeOK' /\ object' \in ObjectType
         /\ object'.value = [object.value EXCEPT ![q] = @ + 1]
         /\ object'.dirty = object.dirty \cup {q} /\ object'.changes = object.changes + 1
<1>1. PICK v : v = [object.value EXCEPT ![q] = @ + 1]
  OBVIOUS
<1>2. object' = [object EXCEPT !.value = v, !.dirty = @ \cup {q}, !.changes = @ + 1]
  BY <1>1 DEF SetValue
<1>3. object.value[q] <= object.changes /\ object.changes < MaxChanges
  BY DEF SetValue, Compares
<1>4. v \in [Prop -> Value] /\ object.changes + 1 \in Value
  BY <1>1, <1>3, ValuesTyped, Constants DEF TypeOK, ObjectType, Value
<1>5. object' \in ObjectType
  BY <1>2, <1>4 DEF TypeOK, ObjectType
<1>6. shared' \in SharedType
  BY DEF SetValue, NewFrame, TypeOK, SharedType
<1>7. TypeOK'
  BY <1>5, <1>6 DEF SetValue, TypeOK
<1> QED BY <1>1, <1>2, <1>5, <1>7 DEF TypeOK, ObjectType

\* The parts of the invariant that say nothing of the actor itself.
LEMMA SameWay ==
  ASSUME IInv, TypeOK', UNCHANGED <<sending, channel, network, client>>,
         shared'.HistoryStart = shared.HistoryStart, shared'.HistoryEnd = shared.HistoryEnd,
         shared'.StaticBuffer = shared.StaticBuffer, shared'.ChangeHistory = shared.ChangeHistory,
         Compares'
  PROVE  IInv'
<1>1. HistoryAgrees'
  BY DEF IInv, HistoryAgrees
<1>2. Unopened' /\ HistoryInOrder' /\ Activity'
  BY DEF IInv, Unopened, HistoryInOrder, Activity, Answered, Bunch
<1>3. ReliableInOrder'
  BY DEF IInv, ReliableInOrder, Finished, Bunch
<1>4. PacketsInOrder'
  BY DEF IInv, PacketsInOrder, Answered, Packet, Bunch
<1>5. UpdatesInBetween' /\ NothingNewer'
  BY DEF IInv, UpdatesInBetween, NothingNewer, Packet, Bunch
<1>6. ClientInOrder(client)'
  BY DEF IInv, ClientInOrder, Finished, Packet, Bunch
<1>7. Queue'
  BY DEF IInv, Queue, Received, Packet, Bunch
<1>8. Gathered(sending, shared)' = Gathered(sending, shared)
  BY DEF Gathered
<1>9. NewestOnItsWay'
  BY <1>8 DEF IInv, NewestOnItsWay, OnItsWay, Packet, Bunch, Answered
<1> QED BY <1>1, <1>2, <1>3, <1>4, <1>5, <1>6, <1>7, <1>9 DEF IInv

LEMMA SetValueStep ==
  ASSUME IInv, NEW q \in Prop, SetValue(q)
  PROVE  IInv'
<1>1. TypeOK /\ Compares
  BY DEF IInv, HistoryAgrees
<1>2. TypeOK' /\ object'.value = [object.value EXCEPT ![q] = @ + 1]
      /\ object'.dirty = object.dirty \cup {q} /\ object'.changes = object.changes + 1
  BY <1>1, TypeSetValue
<1>3. /\ shared'.HistoryStart = shared.HistoryStart /\ shared'.HistoryEnd = shared.HistoryEnd
      /\ shared'.StaticBuffer = shared.StaticBuffer /\ shared'.ChangeHistory = shared.ChangeHistory
      /\ shared'.comparedThisFrame = FALSE
      /\ UNCHANGED <<sending, channel, network, client>>
  BY <1>1 DEF SetValue, NewFrame, TypeOK, SharedType
<1>4. Lists(shared)' = Lists(shared)
  BY <1>3 DEF Lists
<1>5. ASSUME NEW p \in Prop
      PROVE  /\ object'.value[p] <= object'.changes
             /\ shared'.StaticBuffer[p] <= object'.value[p]
             /\ /\ Condition[p] # "InitialOnly"
                /\ p \in PushModelProperty /\ p \notin object'.dirty
                => object'.value[p] = shared'.StaticBuffer[p]
  <2>1. object.value[p] \in Nat /\ shared.StaticBuffer[p] \in Nat /\ object.changes \in Nat
    BY <1>1, ValuesTyped
  <2>2. object'.value[p] = IF p = q THEN object.value[p] + 1 ELSE object.value[p]
    BY <1>1, <1>2, ValuesTyped
  <2> QED BY <1>1, <1>2, <1>3, <2>1, <2>2 DEF Compares
<1>6. Compares'
  BY <1>1, <1>3, <1>4, <1>5 DEF Compares
<1> QED BY <1>2, <1>3, <1>6, SameWay

LEMMA SetOwnerStep ==
  ASSUME IInv, SetOwner
  PROVE  IInv'
<1>1. TypeOK /\ Compares
  BY DEF IInv, HistoryAgrees
<1>2. object' \in ObjectType /\ object'.value = object.value /\ object'.dirty = object.dirty
      /\ object'.changes = object.changes
  <2>1. object.ownerChanges + 1 \in 0 .. MaxOwnerChanges
    BY <1>1, Constants DEF SetOwner, TypeOK, ObjectType
  <2>2. PICK n \in 0 .. MaxOwnerChanges : n = object.ownerChanges + 1
    BY <2>1
  <2>3. PICK f \in BOOLEAN : f = ~object.bNetOwner
    OBVIOUS
  <2>4. object' = [object EXCEPT !.bNetOwner = f, !.ownerChanges = n]
    BY <2>2, <2>3 DEF SetOwner
  <2> QED BY <1>1, <2>4 DEF TypeOK, ObjectType
<1>3. /\ shared'.HistoryStart = shared.HistoryStart /\ shared'.HistoryEnd = shared.HistoryEnd
      /\ shared'.StaticBuffer = shared.StaticBuffer /\ shared'.ChangeHistory = shared.ChangeHistory
      /\ shared'.comparedThisFrame = FALSE /\ shared' \in SharedType
      /\ UNCHANGED <<sending, channel, network, client>>
  BY <1>1 DEF SetOwner, NewFrame, TypeOK, SharedType
<1>4. Lists(shared)' = Lists(shared)
  BY <1>3 DEF Lists
<1>5. Compares'
  BY <1>1, <1>2, <1>3, <1>4 DEF Compares
<1>6. TypeOK'
  BY <1>1, <1>2, <1>3 DEF TypeOK
<1> QED BY <1>3, <1>5, <1>6, SameWay

\* The values of a bunch.
LEMMA BunchesTyped ==
  ASSUME TypeOK
  PROVE  /\ \A i \in DOMAIN channel.OutRec : channel.OutRec[i] \in KeptType /\ Bunch(i) \in BunchType
         /\ \A k \in DOMAIN network.packets : Packet(k) \in PacketType /\ Packet(k).bunch \in BunchType
<1>1. channel.OutRec \in Seq(KeptType) /\ network.packets \in Seq(PacketType)
  BY DEF TypeOK, ChannelType, NetworkType
<1>2. ASSUME NEW i \in DOMAIN channel.OutRec PROVE channel.OutRec[i] \in KeptType
  BY <1>1, <1>2
<1>3. ASSUME NEW k \in DOMAIN network.packets PROVE network.packets[k] \in PacketType
  BY <1>1, <1>3
<1> QED BY <1>2, <1>3 DEF Bunch, Packet, KeptType, PacketType

LEMMA BunchValues ==
  ASSUME NEW b \in BunchType
  PROVE  \A p \in DOMAIN b.values : b.values[p] \in Nat
<1>1. PICK S \in SUBSET Prop : b.values \in [S -> Value]
  BY DEF BunchType
<1> QED BY <1>1, Constants DEF Value

\* What is older than the values of a is older than newer ones.
LEMMA OlderThanNewer ==
  ASSUME NEW v, \A p \in DOMAIN v : v[p] \in Nat,
         NEW a \in [Prop -> Nat], NEW b \in [Prop -> Nat],
         Older(v, a), Older(a, b)
  PROVE  Older(v, b)
BY DEF Older

LEMMA StillNothingNewer ==
  ASSUME TypeOK, NothingNewer, UNCHANGED <<channel, network, client>>,
         shared'.StaticBuffer \in [Prop -> Nat],
         Older(shared.StaticBuffer, shared'.StaticBuffer)
  PROVE  NothingNewer'
<1>1. shared.StaticBuffer \in [Prop -> Nat] /\ client.value \in [Prop -> Nat]
  BY ValuesTyped
<1>2. Older(client.value, shared'.StaticBuffer)
  BY <1>1, OlderThanNewer DEF NothingNewer
<1>3. ASSUME NEW i \in DOMAIN channel.OutRec PROVE Older(Bunch(i).values, shared'.StaticBuffer)
  BY <1>1, BunchesTyped, BunchValues, OlderThanNewer DEF NothingNewer
<1>4. ASSUME NEW k \in DOMAIN network.packets PROVE Older(Packet(k).bunch.values, shared'.StaticBuffer)
  BY <1>1, BunchesTyped, BunchValues, OlderThanNewer DEF NothingNewer
<1> QED BY <1>2, <1>3, <1>4 DEF NothingNewer, Bunch, Packet

\* Where a property was on its way before a comparison, it is after it.
LEMMA AdvancedOnItsWay ==
  ASSUME IInv, NEW r, Advanced(r), NEW p \in Prop, OnItsWay(p)
  PROVE  \/ InLists(r, sending.LastChangelistIndex, p)
         \/ /\ r.StaticBuffer[p] = shared.StaticBuffer[p]
            /\ p \notin Gathered(sending, shared)
<1>1. /\ sending.LastChangelistIndex \in Nat /\ sending.LastChangelistIndex <= shared.HistoryEnd
      /\ shared \in SharedType /\ sending \in SendingType
  BY DEF IInv, HistoryAgrees, TypeOK, SendingType, Compares
<1>2. p \in Gathered(sending, shared) => InLists(shared, sending.LastChangelistIndex, p)
  BY <1>1, GatheredIsIn
<1> QED BY <1>1, <1>2 DEF Advanced

LEMMA ReplicateToOtherStep ==
  ASSUME IInv, NEW b \in BOOLEAN, ReplicateToOther(b)
  PROVE  IInv'
<1>1. TypeOK /\ Compares
  BY DEF IInv, HistoryAgrees
<1>2. Advanced(shared')
  BY <1>1, CompareAdvances DEF ReplicateToOther
<1>3. /\ object' = [object EXCEPT !.dirty = {}]
      /\ UNCHANGED <<sending, channel, network, client>>
  BY DEF ReplicateToOther
<1>4. shared' \in SharedType /\ sending'.LastChangelistIndex <= shared'.HistoryEnd
  <2>1. sending.LastChangelistIndex \in Nat /\ shared.HistoryEnd \in Nat /\ shared'.HistoryEnd \in Nat
    BY <1>1, <1>2 DEF Advanced, TypeOK, SharedType, SendingType
  <2> QED BY <1>1, <1>2, <1>3, <2>1 DEF Advanced, Compares
<1>5. Compares'
  BY <1>1, <1>2, <1>3, <1>4, ComparesStep
<1>6. TypeOK'
  BY <1>1, <1>3, <1>4 DEF TypeOK, ObjectType
<1>7. HistoryAgrees'
  BY <1>2, <1>3, <1>6 DEF IInv, HistoryAgrees, Advanced, Room
<1>8. Unopened' /\ HistoryInOrder' /\ Activity'
  BY <1>3 DEF IInv, Unopened, HistoryInOrder, Activity, Answered, Bunch
<1>9. ReliableInOrder' /\ PacketsInOrder' /\ UpdatesInBetween'
  BY <1>3 DEF IInv, ReliableInOrder, PacketsInOrder, UpdatesInBetween, Finished, Answered, Packet, Bunch
<1>10. ClientInOrder(client)' /\ Queue'
  BY <1>3 DEF IInv, ClientInOrder, Queue, Received, Finished, Packet, Bunch
<1>11. NothingNewer'
  <2>1. shared'.StaticBuffer \in [Prop -> Nat]
    BY <1>6, ValuesTyped, Constants DEF TypeOK, SharedType, Value
  <2>2. Older(shared.StaticBuffer, shared'.StaticBuffer)
    BY <1>2 DEF Advanced, Older
  <2> QED BY <1>1, <1>3, <2>1, <2>2, StillNothingNewer DEF IInv
<1>12. ASSUME NEW p \in Prop, OnItsWay(p) PROVE OnItsWay(p)'
  <2>1. CASE InLists(shared', sending.LastChangelistIndex, p)
    <3>1. p \in Gathered(sending, shared')
      BY <1>1, <1>4, <2>1, GatheredIsIn DEF TypeOK
    <3> QED BY <1>3, <3>1 DEF OnItsWay
  <2>2. CASE shared'.StaticBuffer[p] = shared.StaticBuffer[p] /\ p \notin Gathered(sending, shared)
    BY <1>3, <1>12, <2>2 DEF OnItsWay, Answered, Packet, Bunch
  <2> QED BY <1>2, <1>12, <2>1, <2>2, AdvancedOnItsWay
<1>13. NewestOnItsWay'
  BY <1>3, <1>12 DEF IInv, NewestOnItsWay
<1> QED BY <1>5, <1>7, <1>8, <1>9, <1>10, <1>11, <1>13 DEF IInv

-----------------------------------------------------------------------------
(* A replication that sends nothing                                        *)

LEMMA RefreshedExact ==
  ASSUME IInv, ~Paused
  PROVE  /\ Refreshed \in SendingType
         /\ Refreshed.history = sending.history /\ Refreshed.NumNaks = sending.NumNaks
         /\ Refreshed.LastChangelistIndex = sending.LastChangelistIndex
         /\ Refreshed.LastCompareIndex = sending.LastCompareIndex
         /\ Refreshed.RepFlags = sending.RepFlags
         /\ Refreshed.InactiveParents = sending.InactiveParents
         /\ Refreshed.InactiveChangelist = sending.InactiveChangelist
         /\ Refreshed.PreOpenAckHistory = sending.PreOpenAckHistory
         /\ Refreshed.bLastUpdateEmpty = sending.bLastUpdateEmpty
         /\ Refreshed.bOpenAckedCalled => channel.OpenAcked
         /\ sending.bOpenAckedCalled => Refreshed.bOpenAckedCalled
<1>1. PICK f \in BOOLEAN : f = (sending.bOpenAckedCalled \/ ForceRefresh)
  OBVIOUS
<1>2. Refreshed = [sending EXCEPT !.bOpenAckedCalled = f]
  BY <1>1 DEF Refreshed
<1>3. sending \in SendingType
  BY DEF IInv, HistoryAgrees, TypeOK
<1>4. f => channel.OpenAcked
  BY <1>1 DEF ForceRefresh, IInv, Activity
<1>5. Refreshed.bOpenAckedCalled = f
  BY <1>2, <1>3 DEF SendingType
<1> QED BY <1>1, <1>2, <1>3, <1>4, <1>5 DEF SendingType

LEMMA UnpausedExact ==
  ASSUME IInv, ~Paused
  PROVE  /\ Unpaused \in ChannelType
         /\ Unpaused.opened = channel.opened /\ Unpaused.OpenAcked = channel.OpenAcked
         /\ Unpaused.OutReliable = channel.OutReliable /\ Unpaused.OutRec = channel.OutRec
         /\ \A i \in DOMAIN channel.OutRec : Bunch(i).bOpen
<1>1. PICK f \in BOOLEAN : f = (channel.SpawnAcked \/ ForceRefresh)
  OBVIOUS
<1>2. Unpaused = [channel EXCEPT !.SpawnAcked = f, !.bPausedUntilReliableACK = FALSE]
  BY <1>1 DEF Unpaused
<1>3. channel \in ChannelType
  BY DEF IInv, HistoryAgrees, TypeOK
<1>4. ASSUME NEW i \in DOMAIN channel.OutRec PROVE Bunch(i).bOpen
  <2>1. channel.OutRec # <<>>
    BY <1>3, <1>4 DEF ChannelType
  <2> QED BY <1>4, <2>1 DEF IInv, ReliableInOrder, Paused
<1> QED BY <1>2, <1>3, <1>4 DEF ChannelType

\* While nothing is sent the bunches and packets stay as they are.
LEMMA QuietNetwork ==
  ASSUME IInv, ~Paused, UNCHANGED <<network, client>>, channel' = Unpaused
  PROVE  /\ ReliableInOrder' /\ PacketsInOrder' /\ UpdatesInBetween'
         /\ ClientInOrder(client)' /\ Queue'
<1>1. /\ channel'.opened = channel.opened /\ channel'.OpenAcked = channel.OpenAcked
      /\ channel'.OutReliable = channel.OutReliable /\ channel'.OutRec = channel.OutRec
      /\ \A i \in DOMAIN channel.OutRec : Bunch(i).bOpen
  BY UnpausedExact
<1>2. ReliableInOrder'
  BY <1>1 DEF IInv, ReliableInOrder, Finished, Bunch
<1>3. PacketsInOrder' /\ UpdatesInBetween'
  BY <1>1 DEF IInv, PacketsInOrder, UpdatesInBetween, Answered, Packet, Bunch
<1>4. ClientInOrder(client)' /\ Queue'
  BY <1>1 DEF IInv, ClientInOrder, Queue, Received, Finished, Packet, Bunch
<1> QED BY <1>2, <1>3, <1>4

LEMMA SkipUpdateStep ==
  ASSUME IInv, SkipUpdate
  PROVE  IInv'
<1>1. TypeOK /\ Compares /\ ~Paused /\ channel.opened
  BY DEF IInv, HistoryAgrees, SkipUpdate, CanSkipUpdate, CurrentFlags
<1>2. /\ sending' = [Refreshed EXCEPT !.bLastUpdateEmpty = TRUE] /\ channel' = Unpaused
      /\ UNCHANGED <<object, shared, network, client>>
  BY DEF SkipUpdate
<1>3. /\ sending' \in SendingType
      /\ sending'.history = sending.history /\ sending'.NumNaks = sending.NumNaks
      /\ sending'.LastChangelistIndex = sending.LastChangelistIndex
      /\ sending'.RepFlags = sending.RepFlags
      /\ sending'.InactiveParents = sending.InactiveParents
      /\ sending'.InactiveChangelist = sending.InactiveChangelist
      /\ sending'.PreOpenAckHistory = sending.PreOpenAckHistory
      /\ sending'.bOpenAckedCalled => channel.OpenAcked
  BY <1>1, <1>2, RefreshedExact DEF SendingType
<1>4. /\ channel' \in ChannelType
      /\ channel'.opened = channel.opened /\ channel'.OpenAcked = channel.OpenAcked
      /\ channel'.OutReliable = channel.OutReliable /\ channel'.OutRec = channel.OutRec
  BY <1>1, <1>2, UnpausedExact
<1>5. HistoryAgrees'
  BY <1>1, <1>2, <1>3, <1>4 DEF IInv, HistoryAgrees, TypeOK
<1>6. Compares'
  BY <1>2, <1>3 DEF IInv, Compares, Lists
<1>7. Unopened' /\ HistoryInOrder'
  BY <1>1, <1>2, <1>3, <1>4 DEF IInv, Unopened, HistoryInOrder, Answered
<1>8. Activity'
  BY <1>1, <1>2, <1>3, <1>4 DEF IInv, Activity, Bunch
<1>9. NothingNewer'
  BY <1>2, <1>4 DEF IInv, NothingNewer, Bunch, Packet
<1>10. Gathered(sending, shared)' = Gathered(sending, shared)
  BY <1>2, <1>3 DEF Gathered
<1>11. NewestOnItsWay'
  BY <1>1, <1>2, <1>3, <1>4, <1>10 DEF IInv, NewestOnItsWay, OnItsWay, Answered, Packet, Bunch
<1> QED BY <1>1, <1>2, <1>5, <1>6, <1>7, <1>8, <1>9, <1>11, QuietNetwork DEF IInv

-----------------------------------------------------------------------------
(* A packet that is lost                                                   *)

\* The oldest packet under way, and the answer it gets.
LEMMA OldestExact ==
  ASSUME TypeOK, \E i \in DOMAIN network.packets : network.packets[i].fate = "sent"
  PROVE  /\ OldestInFlight \in DOMAIN network.packets
         /\ network.packets[OldestInFlight].fate = "sent"
         /\ \A j \in 1 .. OldestInFlight - 1 : network.packets[j].fate # "sent"
<1> DEFINE S == {i \in DOMAIN network.packets : network.packets[i].fate = "sent"}
<1>1. DOMAIN network.packets = 1 .. Len(network.packets) /\ Len(network.packets) \in Nat
  BY DEF TypeOK, NetworkType
<1>2. S \in SUBSET Nat /\ S # {}
  BY <1>1
<1>3. PICK i \in S : \A m \in S : i <= m
  BY <1>2, LeastNumber
<1>4. ASSUME NEW j \in 1 .. i - 1 PROVE network.packets[j].fate # "sent"
  <2>1. j \in DOMAIN network.packets /\ j < i /\ ~ (i <= j)
    BY <1>1
  <2> QED BY <1>3, <2>1
<1>5. i \in DOMAIN network.packets /\ network.packets[i].fate = "sent"
  OBVIOUS
<1> QED BY <1>4, <1>5 DEF OldestInFlight

\* The packets after an answer to packet o.
LEMMA AnsweredPackets ==
  ASSUME TypeOK, NEW o \in DOMAIN network.packets, NEW fate \in {"ack", "nak"},
         NEW losses \in 0 .. MaxLosses,
         network' = [network EXCEPT !.packets[o].fate = fate, !.losses = losses]
  PROVE  /\ network' \in NetworkType
         /\ network'.OutPacketId = network.OutPacketId
         /\ network'.OutAckPacketId = network.OutAckPacketId
         /\ DOMAIN network'.packets = DOMAIN network.packets
         /\ Len(network'.packets) = Len(network.packets)
         /\ \A k \in DOMAIN network.packets :
              /\ network'.packets[k].bunch = network.packets[k].bunch
              /\ network'.packets[k].fate = IF k = o THEN fate ELSE network.packets[k].fate
<1>1. /\ network.packets \in Seq(PacketType) /\ network \in NetworkType
      /\ DOMAIN network.packets = 1 .. Len(network.packets) /\ Len(network.packets) \in Nat
  BY DEF TypeOK, NetworkType
<1>2. PICK packet : packet = [network.packets[o] EXCEPT !.fate = fate]
  OBVIOUS
<1>3. network.packets[o] \in PacketType
  BY <1>1
<1>4. packet \in PacketType /\ packet.fate = fate /\ packet.bunch = network.packets[o].bunch
  BY <1>2, <1>3 DEF PacketType
<1>5. PICK packets : packets = [network.packets EXCEPT ![o] = packet]
  OBVIOUS
<1>6. packets \in Seq(PacketType) /\ DOMAIN packets = DOMAIN network.packets
      /\ Len(packets) = Len(network.packets)
      /\ \A k \in DOMAIN network.packets : packets[k] = IF k = o THEN packet ELSE network.packets[k]
  BY <1>1, <1>4, <1>5
<1>7. network' = [network EXCEPT !.packets = packets, !.losses = losses]
  BY <1>2, <1>5
<1>8. network' \in NetworkType /\ network'.packets = packets
      /\ network'.OutPacketId = network.OutPacketId
      /\ network'.OutAckPacketId = network.OutAckPacketId
  BY <1>1, <1>6, <1>7 DEF NetworkType
<1> QED BY <1>4, <1>6, <1>8

\* An answer of the client to its oldest packet.
LEMMA AnswerStep ==
  ASSUME IInv, NEW o \in DOMAIN network.packets,
         \A j \in 1 .. o - 1 : network.packets[j].fate # "sent",
         NEW fate \in {"ack", "nak"}, NEW losses \in 0 .. MaxLosses,
         network' = [network EXCEPT !.packets[o].fate = fate, !.losses = losses],
         UNCHANGED <<object, shared, sending, channel>>,
         client' \in ClientType,
         \A p \in Prop : client.value[p] <= client'.value[p],
         Older(client'.value, shared.StaticBuffer),
         ClientInOrder(client)', Queue'
  PROVE  IInv'
<1>1. TypeOK
  BY DEF IInv, HistoryAgrees
<1>2. /\ network' \in NetworkType
      /\ network'.OutPacketId = network.OutPacketId
      /\ network'.OutAckPacketId = network.OutAckPacketId
      /\ DOMAIN network'.packets = DOMAIN network.packets
      /\ Len(network'.packets) = Len(network.packets)
      /\ \A k \in DOMAIN network.packets :
           /\ network'.packets[k].bunch = network.packets[k].bunch
           /\ network'.packets[k].fate = IF k = o THEN fate ELSE network.packets[k].fate
  BY <1>1, AnsweredPackets
<1>3. Answered' = Answered
  BY <1>2 DEF Answered
<1>4. HistoryAgrees'
  BY <1>1, <1>2 DEF IInv, HistoryAgrees, TypeOK
<1>5. Compares' /\ Activity' /\ ReliableInOrder'
  BY DEF IInv, Compares, Activity, ReliableInOrder, Lists, Bunch, Finished
<1>6. channel.opened
  <2>1. network.packets # <<>>
    BY <1>1 DEF TypeOK, NetworkType
  <2> QED BY <2>1 DEF IInv, Unopened
<1>7. Unopened' /\ HistoryInOrder'
  BY <1>2, <1>3, <1>6 DEF IInv, Unopened, HistoryInOrder
<1>8. PacketsInOrder'
  <2>1. ASSUME NEW k \in DOMAIN network.packets
        PROVE  /\ Packet(k)'.bunch = Packet(k).bunch
               /\ \A l \in 1 .. k - 1 :
                    /\ l \in DOMAIN network.packets
                    /\ Packet(l)'.bunch = Packet(l).bunch
                    /\ Packet(k)'.fate # "sent" => Packet(l)'.fate # "sent"
    <3>1. \A l \in 1 .. k - 1 : l \in DOMAIN network.packets
      BY <1>1 DEF TypeOK, NetworkType
    <3>2. \A l \in 1 .. k - 1 : Packet(k).fate # "sent" => Packet(l).fate # "sent"
      BY DEF IInv, PacketsInOrder
    <3> QED BY <1>2, <3>1, <3>2 DEF Packet
  <2> QED BY <1>2, <1>3, <2>1 DEF IInv, PacketsInOrder, Bunch, Packet
<1>9. UpdatesInBetween'
  BY <1>2 DEF IInv, UpdatesInBetween, Bunch, Packet
<1>10. NothingNewer'
  BY <1>2 DEF IInv, NothingNewer, Bunch, Packet
<1>11. ASSUME NEW p \in Prop, OnItsWay(p) PROVE OnItsWay(p)'
  <2>1. Gathered(sending, shared)' = Gathered(sending, shared)
    BY DEF Gathered
  <2>2. CASE client.value[p] = shared.StaticBuffer[p]
    <3>1. /\ client.value[p] \in Nat /\ client'.value[p] \in Nat /\ shared.StaticBuffer[p] \in Nat
          /\ p \in DOMAIN client'.value /\ p \in DOMAIN shared.StaticBuffer
      BY <1>1, ValuesTyped, Constants DEF ClientType, Value
    <3>2. client'.value[p] <= shared.StaticBuffer[p]
      BY <3>1 DEF Older
    <3> QED BY <2>2, <3>1, <3>2 DEF OnItsWay
  <2>3. CASE client.value[p] # shared.StaticBuffer[p]
    BY <1>2, <1>3, <1>11, <2>1, <2>3 DEF OnItsWay, Bunch, Packet
  <2> QED BY <2>2, <2>3
<1>12. NewestOnItsWay'
  BY <1>11 DEF IInv, NewestOnItsWay
<1> QED BY <1>4, <1>5, <1>7, <1>8, <1>9, <1>10, <1>12 DEF IInv

\* The client has no older values, and what it has not received stays newer.
LEMMA OnlyAnswered ==
  ASSUME IInv, NEW o \in DOMAIN network.packets, NEW fate \in {"ack", "nak"},
         NEW losses \in 0 .. MaxLosses,
         network' = [network EXCEPT !.packets[o].fate = fate, !.losses = losses],
         UNCHANGED <<channel, client>>,
         fate = "ack" => /\ Packet(o).bunch.bReliable
                         /\ Received(Packet(o).bunch)
  PROVE  ClientInOrder(client)' /\ Queue'
<1>1. TypeOK
  BY DEF IInv, HistoryAgrees
<1>2. /\ DOMAIN network'.packets = DOMAIN network.packets
      /\ \A k \in DOMAIN network.packets :
           /\ network'.packets[k].bunch = network.packets[k].bunch
           /\ network'.packets[k].fate = IF k = o THEN fate ELSE network.packets[k].fate
  BY <1>1, AnsweredPackets
<1>3. ClientInOrder(client)'
  BY <1>2 DEF IInv, ClientInOrder, Finished, Bunch, Packet
<1>4. Queue'
  BY <1>2 DEF IInv, Queue, Received, Bunch, Packet
<1> QED BY <1>3, <1>4

LEMMA LoseStep ==
  ASSUME IInv, Lose
  PROVE  IInv'
<1>1. TypeOK
  BY DEF IInv, HistoryAgrees
<1>2. PICK o : o = OldestInFlight
  OBVIOUS
<1>3. /\ o \in DOMAIN network.packets /\ network.packets[o].fate = "sent"
      /\ \A j \in 1 .. o - 1 : network.packets[j].fate # "sent"
  BY <1>1, <1>2, OldestExact DEF Lose
<1>4. network.losses + 1 \in 0 .. MaxLosses
  BY <1>1, Constants DEF Lose, TypeOK, NetworkType
<1>5. PICK losses \in 0 .. MaxLosses : losses = network.losses + 1
  BY <1>4
<1>6. /\ network' = [network EXCEPT !.packets[o].fate = "nak", !.losses = losses]
      /\ UNCHANGED <<object, shared, sending, channel, client>>
  BY <1>2, <1>5 DEF Lose
<1>7. ClientInOrder(client)' /\ Queue'
  <2>1. "nak" \in {"ack", "nak"} /\ "nak" # "ack"
    OBVIOUS
  <2> QED BY <1>3, <1>6, <2>1, OnlyAnswered
<1>8. \A p \in Prop : client.value[p] <= client'.value[p]
  BY <1>1, <1>6, ValuesTyped
<1>9. Older(client'.value, shared.StaticBuffer) /\ client' \in ClientType
  BY <1>1, <1>6 DEF IInv, NothingNewer, TypeOK
<1>10. "nak" \in {"ack", "nak"}
  OBVIOUS
<1> QED BY <1>3, <1>6, <1>7, <1>8, <1>9, <1>10, AnswerStep

-----------------------------------------------------------------------------
(* The client                                                              *)

\* What the client and the loop over its queue are after a bunch.
ResultType == [client : ClientType, skipAck : BOOLEAN]

\* The values of the actor after an update with some of them.
Updated(value, values) ==
    [p \in Prop |-> IF p \in DOMAIN values THEN values[p] ELSE value[p]]

LEMMA UpdatedTyped ==
  ASSUME NEW value \in [Prop -> Value], NEW b \in BunchType
  PROVE  Updated(value, b.values) \in [Prop -> Value]
<1>1. PICK S \in SUBSET Prop : b.values \in [S -> Value]
  BY DEF BunchType
<1> QED BY <1>1 DEF Updated

LEMMA NoPartIsNoBunch == NoPart \notin BunchType
<1>1. DOMAIN NoPart = {"ChSequence"}
  BY DEF NoPart
<1>2. \A b \in BunchType : "final" \in DOMAIN b
  BY DEF BunchType
<1> QED BY <1>1, <1>2

LEMMA TakenExact ==
  ASSUME NEW c \in ClientType
  PROVE  Taken(c) \in ResultType /\ Taken(c).client = c /\ ~Taken(c).skipAck
BY DEF Taken, ResultType

LEMMA SkippedExact ==
  ASSUME NEW c \in ClientType
  PROVE  Skipped(c) \in ResultType /\ Skipped(c).client = c /\ Skipped(c).skipAck
<1>1. Skipped(c) \in ResultType
  BY DEF Skipped, ResultType
<1> QED BY <1>1 DEF Skipped

LEMMA ProcessExact ==
  ASSUME NEW c \in ClientType, NEW b \in BunchType
  PROVE  LET r == Process(c, b)
         IN /\ r \in ResultType
            /\ r.client.InReliable = c.InReliable /\ r.client.InRec = c.InRec
            /\ r.client.InPartialBunch = c.InPartialBunch
            /\ IF c.OpenAcked \/ b.bOpen
               THEN /\ r.client.OpenAcked /\ ~r.skipAck
                    /\ r.client.value = Updated(c.value, b.values)
               ELSE r.skipAck /\ r.client = c
<1>1. CASE c.OpenAcked \/ b.bOpen
  <2>1. PICK v : v = Updated(c.value, b.values)
    OBVIOUS
  <2>2. v \in [Prop -> Value]
    BY <2>1, UpdatedTyped DEF ClientType
  <2>3. PICK d : d = [c EXCEPT !.OpenAcked = TRUE, !.value = v]
    OBVIOUS
  <2>4. d \in ClientType
    BY <2>2, <2>3 DEF ClientType
  <2>5. Process(c, b) = Taken(d)
    BY <1>1, <2>1, <2>3 DEF Process, Updated
  <2>6. /\ d.OpenAcked /\ d.value = v /\ d.InReliable = c.InReliable /\ d.InRec = c.InRec
        /\ d.InPartialBunch = c.InPartialBunch
    BY <2>3 DEF ClientType
  <2> QED BY <1>1, <2>1, <2>4, <2>5, <2>6, TakenExact
<1>2. CASE ~(c.OpenAcked \/ b.bOpen)
  <2>1. Process(c, b) = Skipped(c)
    BY <1>2 DEF Process
  <2> QED BY <1>2, <2>1, SkippedExact
<1> QED BY <1>1, <1>2

\* An unreliable bunch: it is skipped, or what it completes is processed by an
\* open channel.  It leaves the parts of a reliable one alone.
LEMMA NextUnreliable ==
  ASSUME NEW c \in ClientType, NEW b \in BunchType, ~b.bReliable, ~b.bOpen,
         b.initial \/ b.final
  PROVE  LET r == ReceivedNextBunch(c, b)
             d == r.client
         IN /\ r \in ResultType
            /\ d.InReliable = c.InReliable /\ d.InRec = c.InRec /\ d.OpenAcked = c.OpenAcked
            /\ c.InPartialBunch # NoPart /\ c.InPartialBunch.bReliable =>
                 d.InPartialBunch = c.InPartialBunch
            /\ \/ d.value = c.value
               \/ c.OpenAcked /\ d.value = Updated(c.value, b.values)
            /\ ~r.skipAck /\ b.final => d.value = Updated(c.value, b.values)
<1> DEFINE next == [c EXCEPT !.InReliable = IF b.bReliable THEN b.ChSequence ELSE @]
           partial == c.InPartialBunch
           reliable == partial # NoPart /\ partial.bReliable
<1>1. next = c
  BY DEF ClientType
<1>3. CASE b.initial /\ b.final
  <2>1. ReceivedNextBunch(c, b) = Process(c, b)
    BY <1>1, <1>3 DEF ReceivedNextBunch
  <2>2. PICK r : r = Process(c, b)
    OBVIOUS
  <2>3. /\ r \in ResultType
        /\ r.client.InReliable = c.InReliable /\ r.client.InRec = c.InRec
        /\ r.client.InPartialBunch = c.InPartialBunch
        /\ IF c.OpenAcked
           THEN /\ r.client.OpenAcked /\ ~r.skipAck
                /\ r.client.value = Updated(c.value, b.values)
           ELSE r.skipAck /\ r.client = c
    BY <2>2, ProcessExact
  <2>4. r.client.OpenAcked = c.OpenAcked
    BY <2>3 DEF ResultType, ClientType
  <2> QED BY <2>1, <2>2, <2>3, <2>4
<1>4. CASE b.initial /\ ~b.final
  <2>1. CASE reliable
    <3>1. ReceivedNextBunch(c, b) = Skipped(c)
      BY <1>1, <1>4, <2>1 DEF ReceivedNextBunch
    <3> QED BY <1>4, <3>1, SkippedExact
  <2>2. CASE ~reliable
    <3>1. ReceivedNextBunch(c, b) = Taken([next EXCEPT !.InPartialBunch = b])
      BY <1>4, <2>2 DEF ReceivedNextBunch
    <3>2. PICK d : d = [c EXCEPT !.InPartialBunch = b]
      OBVIOUS
    <3>3. ReceivedNextBunch(c, b) = Taken(d)
      BY <1>1, <3>1, <3>2
    <3>4. d \in ClientType /\ d.InReliable = c.InReliable /\ d.InRec = c.InRec
          /\ d.OpenAcked = c.OpenAcked /\ d.value = c.value
      BY <3>2 DEF ClientType
    <3> QED BY <1>4, <2>2, <3>3, <3>4, TakenExact
  <2> QED BY <2>1, <2>2
<1>5. CASE ~b.initial
  <2>1. CASE /\ partial # NoPart
             /\ partial.ChSequence + 1 = b.ChSequence
             /\ partial.bReliable = b.bReliable
    <3>1. ReceivedNextBunch(c, b) = Process([next EXCEPT !.InPartialBunch = NoPart], b)
      BY <1>5, <2>1 DEF ReceivedNextBunch
    <3>2. PICK d : d = [c EXCEPT !.InPartialBunch = NoPart]
      OBVIOUS
    <3>3. ReceivedNextBunch(c, b) = Process(d, b)
      BY <1>1, <3>1, <3>2
    <3>4. d \in ClientType /\ d.InReliable = c.InReliable /\ d.InRec = c.InRec
          /\ d.OpenAcked = c.OpenAcked /\ d.value = c.value
      BY <3>2 DEF ClientType
    <3>5. ~reliable
      BY <2>1
    <3>6. PICK q : q = Process(d, b)
      OBVIOUS
    <3>7. /\ q \in ResultType
          /\ q.client.InReliable = d.InReliable /\ q.client.InRec = d.InRec
          /\ IF d.OpenAcked
             THEN /\ q.client.OpenAcked /\ ~q.skipAck
                  /\ q.client.value = Updated(d.value, b.values)
             ELSE q.skipAck /\ q.client = d
      BY <3>4, <3>6, ProcessExact
    <3>8. q.client.OpenAcked = c.OpenAcked
      BY <3>4, <3>7 DEF ClientType, ResultType
    <3> QED BY <3>3, <3>4, <3>5, <3>6, <3>7, <3>8
  <2>2. CASE ~(/\ partial # NoPart
               /\ partial.ChSequence + 1 = b.ChSequence
               /\ partial.bReliable = b.bReliable)
    <3>1. ReceivedNextBunch(c, b) =
            Skipped([next EXCEPT !.InPartialBunch = IF reliable THEN @ ELSE NoPart])
      BY <1>5, <2>2 DEF ReceivedNextBunch
    <3>2. PICK d : d = [c EXCEPT !.InPartialBunch = IF reliable THEN @ ELSE NoPart]
      OBVIOUS
    <3>3. ReceivedNextBunch(c, b) = Skipped(d)
      BY <1>1, <3>1, <3>2
    <3>4. d \in ClientType /\ d.InReliable = c.InReliable /\ d.InRec = c.InRec
          /\ d.OpenAcked = c.OpenAcked /\ d.value = c.value
          /\ (reliable => d.InPartialBunch = c.InPartialBunch)
      BY <3>2 DEF ClientType
    <3> QED BY <3>3, <3>4, SkippedExact
  <2> QED BY <2>1, <2>2
<1> QED BY <1>3, <1>4, <1>5

\* A reliable bunch: a first part is kept, and what is complete is processed
\* when it opens the channel, or the channel is open.
LEMMA NextReliable ==
  ASSUME NEW c \in ClientType, NEW b \in BunchType, b.bReliable,
         b.initial \/ b.final, b.ChSequence = c.InReliable + 1,
         ~b.initial => /\ c.InPartialBunch # NoPart /\ c.InPartialBunch.bReliable
                       /\ c.InPartialBunch.ChSequence = c.InReliable,
         c.OpenAcked \/ b.bOpen
  PROVE  LET r == ReceivedNextBunch(c, b)
             d == r.client
         IN /\ r \in ResultType /\ ~r.skipAck
            /\ d.InReliable = b.ChSequence /\ d.InRec = c.InRec
            /\ IF b.final
               THEN d.OpenAcked /\ d.value = Updated(c.value, b.values)
               ELSE d.OpenAcked = c.OpenAcked /\ d.value = c.value /\ d.InPartialBunch = b
<1> DEFINE next == [c EXCEPT !.InReliable = IF b.bReliable THEN b.ChSequence ELSE @]
           partial == c.InPartialBunch
           reliable == partial # NoPart /\ partial.bReliable
<1>1. PICK e : e = [c EXCEPT !.InReliable = b.ChSequence]
  OBVIOUS
<1>2. next = e
  BY <1>1
<1>3. e \in ClientType /\ e.InReliable = b.ChSequence /\ e.InRec = c.InRec
      /\ e.OpenAcked = c.OpenAcked /\ e.value = c.value
  BY <1>1 DEF ClientType, BunchType
<1>5. CASE b.initial /\ b.final
  <2>1. ReceivedNextBunch(c, b) = Process(e, b)
    BY <1>2, <1>5 DEF ReceivedNextBunch
  <2> QED BY <1>3, <1>5, <2>1, ProcessExact
<1>6. CASE b.initial /\ ~b.final
  <2>1. ReceivedNextBunch(c, b) = Taken([next EXCEPT !.InPartialBunch = b])
    BY <1>6 DEF ReceivedNextBunch
  <2>2. PICK d : d = [e EXCEPT !.InPartialBunch = b]
    OBVIOUS
  <2>3. ReceivedNextBunch(c, b) = Taken(d)
    BY <1>2, <2>1, <2>2
  <2>4. d \in ClientType /\ d.InReliable = e.InReliable /\ d.InRec = e.InRec
        /\ d.OpenAcked = e.OpenAcked /\ d.value = e.value /\ d.InPartialBunch = b
    BY <1>3, <2>2 DEF ClientType
  <2> QED BY <1>3, <1>6, <2>3, <2>4, TakenExact
<1>7. CASE ~b.initial
  <2>1. /\ partial # NoPart
        /\ partial.ChSequence + 1 = b.ChSequence
        /\ partial.bReliable = b.bReliable
    <3>1. partial \in BunchType
      BY <1>7 DEF ClientType
    <3> QED BY <1>7, <3>1 DEF BunchType
  <2>2. ReceivedNextBunch(c, b) = Process([next EXCEPT !.InPartialBunch = NoPart], b)
    BY <1>7, <2>1 DEF ReceivedNextBunch
  <2>3. PICK d : d = [e EXCEPT !.InPartialBunch = NoPart]
    OBVIOUS
  <2>4. ReceivedNextBunch(c, b) = Process(d, b)
    BY <1>2, <2>2, <2>3
  <2>5. d \in ClientType /\ d.InReliable = e.InReliable /\ d.InRec = e.InRec
        /\ d.OpenAcked = e.OpenAcked /\ d.value = e.value
    BY <1>3, <2>3 DEF ClientType
  <2> QED BY <1>3, <1>7, <2>4, <2>5, ProcessExact
<1> QED BY <1>5, <1>6, <1>7

\* The places of the reliable bunches.
LEMMA ReliablePlaces ==
  ASSUME IInv
  PROVE  /\ Len(channel.OutRec) \in Nat /\ DOMAIN channel.OutRec = 1 .. Len(channel.OutRec)
         /\ Finished \in Nat /\ channel.OutReliable = Finished + Len(channel.OutRec)
         /\ \A i \in DOMAIN channel.OutRec :
              Bunch(i).ChSequence = Finished + i /\ Bunch(i) \in BunchType
<1>1. TypeOK /\ channel \in ChannelType
  BY DEF IInv, HistoryAgrees, TypeOK
<1>2. /\ Len(channel.OutRec) \in Nat /\ DOMAIN channel.OutRec = 1 .. Len(channel.OutRec)
      /\ channel.OutReliable \in Nat
  BY <1>1 DEF ChannelType
<1>3. Finished \in Nat /\ channel.OutReliable = Finished + Len(channel.OutRec)
  BY <1>2 DEF IInv, ReliableInOrder, Finished
<1> QED BY <1>1, <1>2, <1>3, BunchesTyped DEF IInv, ReliableInOrder

\* The client processes the next reliable bunch, and nothing older than it
\* has; what it has not received stays newer.
LEMMA ReliableProcessed ==
  ASSUME IInv, NEW c \in ClientType, ClientInOrder(c), Older(c.value, shared.StaticBuffer),
         NEW i \in DOMAIN channel.OutRec, Bunch(i).ChSequence = c.InReliable + 1,
         ~Bunch(i).bOpen => \A k \in DOMAIN network.packets :
                               ~Packet(k).bunch.bReliable => Packet(k).fate # "sent"
  PROVE  LET r == ReceivedNextBunch(c, Bunch(i))
             d == r.client
         IN /\ r \in ResultType /\ ~r.skipAck
            /\ d.InReliable = c.InReliable + 1 /\ d.InRec = c.InRec
            /\ \A p \in Prop : c.value[p] <= d.value[p]
            /\ Older(d.value, shared.StaticBuffer) /\ ClientInOrder(d)
<1> DEFINE b == Bunch(i)
           L == Len(channel.OutRec)
<1>1. TypeOK
  BY DEF IInv, HistoryAgrees
<1>2. /\ L \in Nat /\ DOMAIN channel.OutRec = 1 .. L
      /\ Finished \in Nat /\ channel.OutReliable = Finished + L
      /\ \A j \in DOMAIN channel.OutRec : Bunch(j).ChSequence = Finished + j /\ Bunch(j) \in BunchType
  BY ReliablePlaces
<1>3. c.InReliable \in Nat /\ c.InReliable = Finished + i - 1 /\ i \in 1 .. L
  BY <1>2 DEF ClientType
<1>4. c.OpenAcked \/ b.bOpen
  <2>1. CASE c.OpenAcked
    BY <2>1
  <2>2. CASE ~channel.opened
    BY <1>2, <1>3, <2>2 DEF IInv, Unopened
  <2>3. ASSUME NEW j \in DOMAIN channel.OutRec, Bunch(j).bOpen, Bunch(j).ChSequence > c.InReliable
        PROVE  b.bOpen
    <3>1. j >= i
      BY <1>2, <1>3, <2>3
    <3> QED BY <1>2, <1>3, <2>3, <3>1 DEF IInv, ReliableInOrder
  <2> QED BY <2>1, <2>2, <2>3 DEF ClientInOrder
<1>5. /\ b \in BunchType /\ b.bReliable
      /\ b.initial \/ b.final
  BY <1>2 DEF IInv, ReliableInOrder
<1>6. ~b.initial => /\ c.InPartialBunch # NoPart /\ c.InPartialBunch.bReliable
                    /\ c.InPartialBunch.ChSequence = c.InReliable
  BY DEF ClientInOrder
<1>7. PICK r : r = ReceivedNextBunch(c, b)
  OBVIOUS
<1>8. PICK d : d = r.client
  OBVIOUS
<1>9. /\ r \in ResultType /\ ~r.skipAck
      /\ d.InReliable = b.ChSequence /\ d.InRec = c.InRec
      /\ IF b.final
         THEN d.OpenAcked /\ d.value = Updated(c.value, b.values)
         ELSE d.OpenAcked = c.OpenAcked /\ d.value = c.value /\ d.InPartialBunch = b
  BY <1>4, <1>5, <1>6, <1>7, <1>8, NextReliable
<1>10. d \in ClientType /\ d.InReliable = Finished + i
  BY <1>2, <1>8, <1>9 DEF ResultType
<1>11. /\ c.value \in [Prop -> Nat] /\ d.value \in [Prop -> Nat] /\ shared.StaticBuffer \in [Prop -> Nat]
       /\ \A p \in DOMAIN b.values : b.values[p] \in Nat
  <2>1. shared.StaticBuffer \in [Prop -> Nat]
    BY <1>1, ValuesTyped
  <2>2. \A p \in DOMAIN b.values : b.values[p] \in Nat
    BY <1>5, BunchValues
  <2>3. \A e \in ClientType : e.value \in [Prop -> Nat]
    BY Constants DEF ClientType, Value
  <2> QED BY <1>10, <2>1, <2>2, <2>3
<1>12. Older(c.value, b.values)
  BY <1>3 DEF ClientInOrder
<1>13. \A p \in Prop : d.value[p] = c.value[p] \/ (b.final /\ p \in DOMAIN b.values /\ d.value[p] = b.values[p])
  BY <1>9, <1>11 DEF Updated
<1>14. \A p \in Prop : c.value[p] <= d.value[p]
  BY <1>11, <1>12, <1>13 DEF Older
<1>15. Older(d.value, shared.StaticBuffer)
  BY <1>11, <1>13 DEF Older, IInv, NothingNewer
<1>16. \A v : Older(c.value, v) /\ Older(b.values, v) => Older(d.value, v)
  BY <1>11, <1>13 DEF Older
<1>17. ASSUME NEW j \in DOMAIN channel.OutRec
       PROVE  /\ Bunch(j).ChSequence <= d.InReliable /\ Bunch(j).final => Older(Bunch(j).values, d.value)
              /\ Bunch(j).ChSequence > d.InReliable => Older(d.value, Bunch(j).values)
              /\ d.OpenAcked /\ Bunch(j).bOpen => Bunch(j).ChSequence <= d.InReliable
              /\ Bunch(j).ChSequence = d.InReliable + 1 /\ ~Bunch(j).initial =>
                   /\ d.InPartialBunch # NoPart /\ d.InPartialBunch.bReliable
                   /\ d.InPartialBunch.ChSequence = d.InReliable
  <2>1. Bunch(j).ChSequence = Finished + j /\ j \in 1 .. L
    BY <1>2
  <2>2. ASSUME Bunch(j).ChSequence <= d.InReliable, Bunch(j).final PROVE Older(Bunch(j).values, d.value)
    <3>1. \A p \in DOMAIN Bunch(j).values : Bunch(j).values[p] \in Nat
      BY <1>2, BunchValues
    <3>2. CASE j = i
      BY <1>9, <1>11, <2>2, <3>2 DEF Older, Updated
    <3>3. CASE j # i
      <4>1. Bunch(j).ChSequence <= c.InReliable
        BY <1>2, <1>3, <1>10, <2>1, <2>2, <3>3
      <4>2. Older(Bunch(j).values, c.value)
        BY <2>2, <4>1 DEF ClientInOrder
      <4> QED BY <1>11, <1>14, <3>1, <4>2, OlderThanNewer DEF Older
    <3> QED BY <3>2, <3>3
  <2>3. ASSUME Bunch(j).ChSequence > d.InReliable PROVE Older(d.value, Bunch(j).values)
    <3>1. j > i /\ Bunch(j).ChSequence > c.InReliable
      BY <1>2, <1>3, <1>10, <2>1, <2>3
    <3>2. Older(c.value, Bunch(j).values)
      BY <3>1 DEF ClientInOrder
    <3>3. Older(b.values, Bunch(j).values)
      <4>1. i \in 1 .. j - 1
        BY <1>3, <2>1, <3>1
      <4> QED BY <4>1 DEF IInv, ReliableInOrder
    <3> QED BY <1>16, <3>2, <3>3
  <2>4. ASSUME d.OpenAcked, Bunch(j).bOpen, Bunch(j).ChSequence > d.InReliable PROVE FALSE
    <3>1. j > i /\ Bunch(j).ChSequence > c.InReliable
      BY <1>2, <1>3, <1>10, <2>1, <2>4
    <3>2. i + 1 \in DOMAIN channel.OutRec /\ (i + 1) - 1 = i /\ i + 1 > 1
      BY <1>2, <1>3, <2>1, <3>1
    <3>3. Bunch(i + 1).bOpen
      <4>1. i + 1 = j \/ i + 1 \in 1 .. j - 1
        BY <1>3, <2>1, <3>1
      <4> QED BY <2>4, <4>1 DEF IInv, ReliableInOrder
    <3>4. ~Bunch(i).final
      BY <3>2, <3>3 DEF IInv, ReliableInOrder
    <3>5. c.OpenAcked
      BY <1>9, <2>4, <3>4
    <3> QED BY <1>2, <1>3, <2>1, <2>4, <3>1, <3>5 DEF ClientInOrder
  <2>5. ASSUME Bunch(j).ChSequence = d.InReliable + 1, ~Bunch(j).initial
        PROVE  /\ d.InPartialBunch # NoPart /\ d.InPartialBunch.bReliable
               /\ d.InPartialBunch.ChSequence = d.InReliable
    <3>1. j = i + 1 /\ j > 1 /\ j - 1 = i
      BY <1>2, <1>3, <1>10, <2>1, <2>5
    <3>2. ~b.final
      BY <2>5, <3>1 DEF IInv, ReliableInOrder
    <3>3. d.InPartialBunch = b
      BY <1>9, <3>2
    <3> QED BY <1>5, <1>9, <3>3, NoPartIsNoBunch
  <2>6. Bunch(j).ChSequence \in Int /\ d.InReliable \in Int
    BY <1>2, <1>10, <2>1
  <2> QED BY <2>2, <2>3, <2>4, <2>5, <2>6
<1>18. d.OpenAcked \/ \E j \in DOMAIN channel.OutRec : Bunch(j).bOpen /\ Bunch(j).ChSequence > d.InReliable
  <2>1. CASE b.final
    BY <1>9, <2>1
  <2>2. CASE ~b.final
    <3>1. i # L
      BY <1>2, <1>3, <2>2 DEF IInv, ReliableInOrder
    <3>2. i + 1 \in DOMAIN channel.OutRec /\ (i + 1) - 1 = i /\ i + 1 > 1
      BY <1>2, <1>3, <3>1
    <3>3. ~Bunch(i + 1).initial
      BY <2>2, <3>2 DEF IInv, ReliableInOrder
    <3>4. Bunch(i + 1).bOpen = b.bOpen
      BY <3>2, <3>3 DEF IInv, ReliableInOrder
    <3>5. Bunch(i + 1).ChSequence > d.InReliable
      BY <1>2, <1>3, <1>10, <3>2
    <3> QED BY <1>4, <1>9, <2>2, <3>2, <3>4, <3>5
  <2> QED BY <2>1, <2>2
<1>19. ASSUME NEW k \in DOMAIN network.packets, ~Packet(k).bunch.bReliable, Packet(k).fate = "sent"
       PROVE  Older(d.value, Packet(k).bunch.values)
  <2>1. b.bOpen
    BY <1>19
  <2>2. Older(b.values, Packet(k).bunch.values)
    BY <1>19, <2>1 DEF IInv, UpdatesInBetween
  <2>3. Older(c.value, Packet(k).bunch.values)
    BY <1>19 DEF ClientInOrder
  <2> QED BY <1>16, <2>2, <2>3
<1>20. ClientInOrder(d)
  <2>1. Finished <= d.InReliable /\ d.InReliable <= channel.OutReliable
    BY <1>2, <1>3, <1>10
  <2> QED BY <1>17, <1>18, <1>19, <2>1 DEF ClientInOrder
<1>21. d.InReliable = c.InReliable + 1
  BY <1>2, <1>3, <1>10
<1> QED BY <1>7, <1>8, <1>9, <1>14, <1>15, <1>20, <1>21

-----------------------------------------------------------------------------
(* The queue of the client                                                 *)

LEMMA LastInOrderExact ==
  ASSUME IInv, NEW queued,
         \A b \in queued : \E i \in DOMAIN channel.OutRec :
             b = Bunch(i) /\ b.ChSequence > client.InReliable
  PROVE  LET last == LastInOrder(queued)
         IN /\ last \in Nat /\ client.InReliable <= last /\ last <= channel.OutReliable
            /\ \A n \in client.InReliable + 1 .. last : \E b \in queued : b.ChSequence = n
            /\ \A b \in queued : b.ChSequence # last + 1
<1> DEFINE A == client.InReliable
           Free == {n \in Nat : n >= A /\ \A b \in queued : b.ChSequence # n + 1}
           Found(n) == /\ \A k \in A + 1 .. n : \E b \in queued : b.ChSequence = k
                       /\ \A b \in queued : b.ChSequence # n + 1
           Numbers == {A} \cup {b.ChSequence : b \in queued}
<1>1. /\ Finished \in Nat /\ channel.OutReliable \in Nat
      /\ \A i \in DOMAIN channel.OutRec : Bunch(i).ChSequence \in Nat /\ Bunch(i).ChSequence <= channel.OutReliable
  BY ReliablePlaces
<1>2. A \in Nat /\ A <= channel.OutReliable
  BY DEF IInv, HistoryAgrees, TypeOK, ClientType, ClientInOrder
<1>3. \A b \in queued : b.ChSequence \in Nat /\ b.ChSequence <= channel.OutReliable
  BY <1>1
<1>4. channel.OutReliable \in Free
  BY <1>1, <1>2, <1>3
<1>5. PICK n \in Free : \A m \in Free : n <= m
  BY <1>4, LeastNumber
<1>6. ASSUME NEW k \in A + 1 .. n PROVE \E b \in queued : b.ChSequence = k
  <2>1. k - 1 \in Nat /\ k - 1 >= A /\ k - 1 < n /\ (k - 1) + 1 = k
    BY <1>2
  <2>2. k - 1 \notin Free
    BY <1>5, <2>1
  <2> QED BY <2>1, <2>2
<1>7. n \in Numbers
  <2>1. CASE n = A
    BY <2>1
  <2>2. CASE n # A
    <3>1. n \in A + 1 .. n
      BY <1>2, <2>2
    <3> QED BY <1>6, <3>1
  <2> QED BY <2>1, <2>2
<1>8. n \in Numbers /\ Found(n)
  BY <1>6, <1>7
<1>9. PICK last : last = LastInOrder(queued)
  OBVIOUS
<1>10. LastInOrder(queued) = CHOOSE m \in Numbers : Found(m)
  BY DEF LastInOrder
<1>11. last \in Numbers /\ Found(last)
  BY <1>8, <1>9, <1>10
<1>12. last \in Nat /\ last >= A /\ last <= channel.OutReliable
  BY <1>2, <1>3, <1>11
<1> QED BY <1>9, <1>11, <1>12

\* The loop over the queue: a function of the number that has been processed.
LEMMA DispatchedExists ==
  ASSUME NEW queued, client.InReliable \in Nat, LastInOrder(queued) \in Nat,
         client.InReliable <= LastInOrder(queued)
  PROVE  Dispatched(queued) =
           [n \in client.InReliable .. LastInOrder(queued) |->
              IF n = client.InReliable THEN Taken(client)
              ELSE ReceivedNextBunch(Dispatched(queued)[n - 1].client,
                                     CHOOSE b \in queued : b.ChSequence = n)]
<1> DEFINE A == client.InReliable
           B == LastInOrder(queued)
           After(x, n) == IF n = A THEN Taken(client)
                          ELSE ReceivedNextBunch(x.client, CHOOSE b \in queued : b.ChSequence = n)
           Loop(f, m) == [n \in A .. A + m |-> After(f[n - 1], n)]
           Lengths == {m \in Nat : \E f : f = Loop(f, m)}
<1>1. \A x, y : After(x, A) = After(y, A)
  OBVIOUS
<1> HIDE DEF After
<1>2. 0 \in Lengths
  <2>1. PICK f : f = [n \in A .. A + 0 |-> After(A, n)]
    OBVIOUS
  <2>2. \A n \in A .. A + 0 : n = A
    OBVIOUS
  <2>3. f = Loop(f, 0)
    BY <1>1, <2>1, <2>2
  <2> QED BY <2>3
<1>3. ASSUME NEW m \in Nat, m \in Lengths PROVE m + 1 \in Lengths
  <2>1. PICK f : f = Loop(f, m)
    BY <1>3
  <2>2. PICK g : g = [n \in A .. A + (m + 1) |-> IF n = A + (m + 1) THEN After(f[n - 1], n) ELSE f[n]]
    OBVIOUS
  <2>3. \A n \in A .. A + m : f[n] = After(f[n - 1], n)
    BY <2>1
  <2>4. \A n \in A .. A + m : g[n] = f[n]
    BY <2>2
  <2>5. ASSUME NEW n \in A .. A + (m + 1) PROVE g[n] = After(g[n - 1], n)
    <3>1. CASE n = A
      <4>1. n \in A .. A + m
        BY <3>1
      <4>2. After(f[n - 1], n) = After(g[n - 1], n)
        BY <1>1, <3>1
      <4> QED BY <2>3, <2>4, <4>1, <4>2
    <3>2. CASE n # A
      <4>1. n - 1 \in A .. A + m
        BY <3>2
      <4>2. g[n - 1] = f[n - 1]
        BY <2>4, <4>1
      <4>3. CASE n = A + (m + 1)
        BY <2>2, <4>2, <4>3
      <4>4. CASE n # A + (m + 1)
        <5>1. n \in A .. A + m
          BY <4>4
        <5> QED BY <2>3, <2>4, <4>2, <5>1
      <4> QED BY <4>3, <4>4
    <3> QED BY <3>1, <3>2
  <2>6. g = Loop(g, m + 1)
    BY <2>2, <2>5
  <2> QED BY <2>6
<1>4. \A m \in Nat : m \in Lengths
  <2>1. SUFFICES ASSUME Nat \ Lengths # {} PROVE FALSE
    OBVIOUS
  <2>2. PICK m \in Nat \ Lengths : \A k \in Nat \ Lengths : m <= k
    BY <2>1, LeastNumber
  <2>3. m # 0 /\ m - 1 \in Nat /\ (m - 1) + 1 = m /\ ~ (m <= m - 1)
    BY <1>2
  <2>4. m - 1 \in Lengths
    BY <2>2, <2>3
  <2> QED BY <1>3, <2>3, <2>4
<1>5. B - A \in Lengths /\ A + (B - A) = B
  BY <1>4
<1>6. PICK f : f = [n \in A .. B |-> After(f[n - 1], n)]
  BY <1>5
<1>7. Dispatched(queued) = CHOOSE h : h = [n \in A .. B |-> After(h[n - 1], n)]
  BY DEF Dispatched, After
<1>8. Dispatched(queued) = [n \in A .. B |-> After(Dispatched(queued)[n - 1], n)]
  BY <1>6, <1>7
<1> QED BY <1>8 DEF After

\* The client c after some of its queue: it has only moved on.
MovedOn(c) ==
    /\ c \in ClientType /\ c.InRec = client.InRec
    /\ \A p \in Prop : client.value[p] <= c.value[p]
    /\ Older(c.value, shared.StaticBuffer) /\ ClientInOrder(c)

LEMMA DispatchedExact ==
  ASSUME IInv, NEW queued,
         \A b \in queued : \E i \in DOMAIN channel.OutRec :
             /\ b = Bunch(i) /\ b.ChSequence > client.InReliable
             /\ ~b.bOpen => \A k \in DOMAIN network.packets :
                               ~Packet(k).bunch.bReliable => Packet(k).fate # "sent"
  PROVE  \A n \in client.InReliable .. LastInOrder(queued) :
            /\ Dispatched(queued)[n] \in ResultType /\ ~Dispatched(queued)[n].skipAck
            /\ Dispatched(queued)[n].client.InReliable = n
            /\ MovedOn(Dispatched(queued)[n].client)
<1> DEFINE A == client.InReliable
           B == LastInOrder(queued)
           f == Dispatched(queued)
           Good(n) == /\ f[n] \in ResultType /\ ~f[n].skipAck
                      /\ f[n].client.InReliable = n /\ MovedOn(f[n].client)
           Done == {m \in Nat : A + m <= B => Good(A + m)}
<1>1. TypeOK /\ client \in ClientType /\ A \in Nat
  BY DEF IInv, HistoryAgrees, TypeOK, ClientType
<1>2. \A b \in queued : \E i \in DOMAIN channel.OutRec : b = Bunch(i) /\ b.ChSequence > client.InReliable
  OBVIOUS
<1>3. /\ B \in Nat /\ A <= B /\ B <= channel.OutReliable
      /\ \A n \in A + 1 .. B : \E b \in queued : b.ChSequence = n
  BY <1>2, LastInOrderExact
<1>4. f = [n \in A .. B |->
              IF n = A THEN Taken(client)
              ELSE ReceivedNextBunch(f[n - 1].client, CHOOSE b \in queued : b.ChSequence = n)]
  BY <1>1, <1>3, DispatchedExists
<1> HIDE DEF f, B
<1>5. 0 \in Done
  <2>1. f[A] = Taken(client)
    BY <1>1, <1>3, <1>4
  <2>2. Taken(client) \in ResultType /\ Taken(client).client = client /\ ~Taken(client).skipAck
    BY <1>1, TakenExact
  <2>3. MovedOn(client)
    BY <1>1, ValuesTyped DEF MovedOn, IInv, NothingNewer
  <2>4. A + 0 = A
    BY <1>1
  <2> QED BY <2>1, <2>2, <2>3, <2>4
<1>6. ASSUME NEW m \in Nat, m \in Done PROVE m + 1 \in Done
  <2>1. SUFFICES ASSUME A + (m + 1) <= B PROVE Good(A + (m + 1))
    OBVIOUS
  <2>2. PICK n \in Nat : n = A + (m + 1)
    BY <1>1
  <2>3. n \in A .. B /\ n # A /\ n - 1 = A + m /\ n - 1 \in A .. B /\ n \in A + 1 .. B
        /\ A + m <= B
    BY <1>1, <1>3, <2>1, <2>2
  <2>4. Good(n - 1)
    BY <1>6, <2>3
  <2>5. PICK c : c = f[n - 1].client
    OBVIOUS
  <2>6. MovedOn(c) /\ c.InReliable = n - 1
    BY <2>4, <2>5
  <2>7. PICK b : b = CHOOSE x \in queued : x.ChSequence = n
    OBVIOUS
  <2>8. b \in queued /\ b.ChSequence = n
    BY <1>3, <2>3, <2>7
  <2>9. f[n] = ReceivedNextBunch(c, b)
    BY <1>4, <2>3, <2>5, <2>7
  <2>10. PICK i \in DOMAIN channel.OutRec :
           /\ b = Bunch(i)
           /\ ~b.bOpen => \A k \in DOMAIN network.packets :
                             ~Packet(k).bunch.bReliable => Packet(k).fate # "sent"
    BY <2>8
  <2>11. PICK r : r = ReceivedNextBunch(c, b)
    OBVIOUS
  <2>12. Bunch(i).ChSequence = c.InReliable + 1
    BY <2>3, <2>6, <2>8, <2>10
  <2>13. /\ r \in ResultType /\ ~r.skipAck
         /\ r.client.InReliable = c.InReliable + 1 /\ r.client.InRec = c.InRec
         /\ \A p \in Prop : c.value[p] <= r.client.value[p]
         /\ Older(r.client.value, shared.StaticBuffer) /\ ClientInOrder(r.client)
    BY <2>6, <2>10, <2>11, <2>12, ReliableProcessed DEF MovedOn
  <2>14. \A p \in Prop : client.value[p] <= r.client.value[p]
    <3>1. \A e \in ClientType : e.value \in [Prop -> Nat]
      BY Constants DEF ClientType, Value
    <3>2. r.client \in ClientType
      BY <2>13 DEF ResultType
    <3> QED BY <1>1, <2>6, <2>13, <3>1, <3>2 DEF MovedOn
  <2>15. MovedOn(r.client)
    BY <2>6, <2>13, <2>14 DEF MovedOn, ResultType
  <2> QED BY <2>2, <2>3, <2>6, <2>9, <2>11, <2>13, <2>15
<1>7. \A m \in Nat : m \in Done
  <2>1. SUFFICES ASSUME Nat \ Done # {} PROVE FALSE
    OBVIOUS
  <2>2. PICK m \in Nat \ Done : \A k \in Nat \ Done : m <= k
    BY <2>1, LeastNumber
  <2>3. m # 0 /\ m - 1 \in Nat /\ (m - 1) + 1 = m /\ ~ (m <= m - 1)
    BY <1>5
  <2>4. m - 1 \in Done
    BY <2>2, <2>3
  <2> QED BY <1>6, <2>3, <2>4
<1>8. ASSUME NEW n \in A .. B PROVE Good(n)
  <2>1. n - A \in Nat /\ A + (n - A) = n /\ n <= B
    BY <1>1, <1>3
  <2> QED BY <1>7, <2>1
<1> QED BY <1>8 DEF f, B

LEMMA ArriveUnreliable ==
  ASSUME IInv, NEW o \in DOMAIN network.packets, Packet(o).fate = "sent",
         \A j \in 1 .. o - 1 : network.packets[j].fate # "sent",
         ~Packet(o).bunch.bReliable,
         NEW fate \in {"ack", "nak"}, NEW losses \in 0 .. MaxLosses,
         network' = [network EXCEPT !.packets[o].fate = fate, !.losses = losses],
         UNCHANGED <<object, shared, sending, channel>>,
         NEW r, r = ReceivedNextBunch(client, Packet(o).bunch),
         client' = r.client, fate = "ack" => ~r.skipAck
  PROVE  /\ client' \in ClientType
         /\ \A p \in Prop : client.value[p] <= client'.value[p]
         /\ Older(client'.value, shared.StaticBuffer)
         /\ ClientInOrder(client)' /\ Queue'
<1>1. TypeOK /\ client \in ClientType
  BY DEF IInv, HistoryAgrees, TypeOK
<1>2. PICK b : b = Packet(o).bunch
  OBVIOUS
<1>3. b \in BunchType /\ ~b.bReliable /\ ~b.bOpen /\ (b.initial \/ b.final)
  BY <1>1, <1>2, BunchesTyped DEF IInv, PacketsInOrder
<1>4. PICK d : d = r.client
  OBVIOUS
<1>5. /\ r \in ResultType
      /\ d.InReliable = client.InReliable /\ d.InRec = client.InRec /\ d.OpenAcked = client.OpenAcked
      /\ client.InPartialBunch # NoPart /\ client.InPartialBunch.bReliable =>
           d.InPartialBunch = client.InPartialBunch
      /\ \/ d.value = client.value
         \/ client.OpenAcked /\ d.value = Updated(client.value, b.values)
      /\ ~r.skipAck /\ b.final => d.value = Updated(client.value, b.values)
  BY <1>1, <1>2, <1>3, <1>4, NextUnreliable
<1>6. d \in ClientType /\ client' = d
  BY <1>4, <1>5 DEF ResultType
<1>7. /\ DOMAIN network'.packets = DOMAIN network.packets
      /\ \A k \in DOMAIN network.packets :
           /\ network'.packets[k].bunch = network.packets[k].bunch
           /\ network'.packets[k].fate = IF k = o THEN fate ELSE network.packets[k].fate
  BY <1>1, AnsweredPackets
<1>8. /\ client.value \in [Prop -> Nat] /\ d.value \in [Prop -> Nat] /\ shared.StaticBuffer \in [Prop -> Nat]
      /\ \A p \in DOMAIN b.values : b.values[p] \in Nat
  <2>1. shared.StaticBuffer \in [Prop -> Nat]
    BY <1>1, ValuesTyped
  <2>2. \A p \in DOMAIN b.values : b.values[p] \in Nat
    BY <1>3, BunchValues
  <2>3. \A e \in ClientType : e.value \in [Prop -> Nat]
    BY Constants DEF ClientType, Value
  <2> QED BY <1>1, <1>6, <2>1, <2>2, <2>3
<1>9. Older(client.value, b.values)
  BY <1>2, <1>3 DEF IInv, ClientInOrder
<1>10. \A p \in Prop : \/ d.value[p] = client.value[p]
                       \/ client.OpenAcked /\ p \in DOMAIN b.values /\ d.value[p] = b.values[p]
  BY <1>5, <1>8 DEF Updated
<1>11. \A p \in Prop : client.value[p] <= d.value[p]
  BY <1>8, <1>9, <1>10 DEF Older
<1>12. Older(d.value, shared.StaticBuffer)
  BY <1>2, <1>8, <1>10 DEF Older, IInv, NothingNewer
<1>13. \A v : Older(client.value, v) /\ (client.OpenAcked => Older(b.values, v)) => Older(d.value, v)
  BY <1>8, <1>10 DEF Older
<1>14. \A v : (\A p \in DOMAIN v : v[p] \in Nat) /\ Older(v, client.value) => Older(v, d.value)
  BY <1>8, <1>11 DEF Older
<1>15. ASSUME NEW i \in DOMAIN channel.OutRec
       PROVE  /\ Bunch(i).ChSequence <= d.InReliable /\ Bunch(i).final => Older(Bunch(i).values, d.value)
              /\ Bunch(i).ChSequence > d.InReliable => Older(d.value, Bunch(i).values)
  <2>1. \A p \in DOMAIN Bunch(i).values : Bunch(i).values[p] \in Nat
    BY <1>1, BunchesTyped, BunchValues
  <2>2. ASSUME Bunch(i).ChSequence > d.InReliable PROVE Older(d.value, Bunch(i).values)
    <3>1. Older(client.value, Bunch(i).values)
      BY <1>5, <2>2 DEF IInv, ClientInOrder
    <3>2. ASSUME client.OpenAcked PROVE Older(b.values, Bunch(i).values)
      <4>1. Bunch(i).ChSequence \in Nat /\ client.InReliable \in Nat
        BY <1>1, ReliablePlaces DEF ClientType
      <4>2. ~Bunch(i).bOpen
        BY <1>5, <2>2, <3>2, <4>1 DEF IInv, ClientInOrder
      <4> QED BY <1>2, <1>3, <4>2 DEF IInv, UpdatesInBetween
    <3> QED BY <1>13, <3>1, <3>2
  <2> QED BY <1>5, <1>14, <2>1, <2>2 DEF IInv, ClientInOrder
<1>16. ASSUME NEW k \in DOMAIN network.packets, ~Packet(k).bunch.bReliable, k # o, Packet(k).fate = "sent"
       PROVE  Older(d.value, Packet(k).bunch.values)
  <2>1. o \in 1 .. k - 1
    <3>1. DOMAIN network.packets = 1 .. Len(network.packets) /\ Len(network.packets) \in Nat
      BY <1>1 DEF TypeOK, NetworkType
    <3> QED BY <1>16, <3>1 DEF Packet
  <2>2. Older(b.values, Packet(k).bunch.values)
    BY <1>2, <1>3, <1>16, <2>1 DEF IInv, PacketsInOrder
  <2>3. Older(client.value, Packet(k).bunch.values)
    BY <1>16 DEF IInv, ClientInOrder
  <2> QED BY <1>13, <2>2, <2>3
<1>17. fate # "sent"
  OBVIOUS
<1>18. ClientInOrder(client)'
  <2>1. /\ Finished <= d.InReliable /\ d.InReliable <= channel.OutReliable
        /\ \A i \in DOMAIN channel.OutRec :
             /\ d.OpenAcked /\ Bunch(i).bOpen => Bunch(i).ChSequence <= d.InReliable
             /\ Bunch(i).ChSequence = d.InReliable + 1 /\ ~Bunch(i).initial =>
                  /\ d.InPartialBunch # NoPart /\ d.InPartialBunch.bReliable
                  /\ d.InPartialBunch.ChSequence = d.InReliable
        /\ \/ d.OpenAcked \/ ~channel.opened
           \/ \E i \in DOMAIN channel.OutRec : Bunch(i).bOpen /\ Bunch(i).ChSequence > d.InReliable
    BY <1>5 DEF IInv, ClientInOrder
  <2>2. \A k \in DOMAIN network'.packets :
          ~Packet(k)'.bunch.bReliable /\ Packet(k)'.fate = "sent" => Older(d.value, Packet(k)'.bunch.values)
    BY <1>7, <1>16, <1>17 DEF Packet
  <2> QED BY <1>6, <1>15, <2>1, <2>2 DEF ClientInOrder, Finished, Bunch
<1>19. \A k \in DOMAIN network.packets :
          Packet(k)'.bunch = Packet(k).bunch /\ (Packet(k)'.fate = "sent" => Packet(k).fate = "sent")
  BY <1>7, <1>17 DEF Packet
<1>21. \A e : Received(e)' <=> Received(e)
  BY <1>5, <1>6 DEF Received
<1>22. ASSUME NEW k \in DOMAIN network.packets, Packet(k)'.fate = "ack"
       PROVE  /\ Packet(k).bunch.bReliable => Received(Packet(k).bunch)
              /\ ~Packet(k).bunch.bReliable /\ Packet(k).bunch.final =>
                   Older(Packet(k).bunch.values, d.value)
  <2>1. CASE k = o
    <3>1. fate = "ack"
      BY <1>7, <1>22, <2>1 DEF Packet
    <3>2. b.final => Older(b.values, d.value)
      BY <1>5, <1>8, <3>1 DEF Older, Updated
    <3> QED BY <1>2, <1>3, <2>1, <3>2
  <2>2. CASE k # o
    <3>1. Packet(k).fate = "ack"
      BY <1>7, <1>22, <2>2 DEF Packet
    <3>2. \A p \in DOMAIN Packet(k).bunch.values : Packet(k).bunch.values[p] \in Nat
      BY <1>1, BunchesTyped, BunchValues
    <3> QED BY <1>14, <3>1, <3>2 DEF IInv, Queue
  <2> QED BY <2>1, <2>2
<1>23. Queue'
  <2>1. \A e \in d.InRec : /\ e.ChSequence > d.InReliable + 1
                           /\ \E i \in DOMAIN channel.OutRec : e = Bunch(i)
    BY <1>5 DEF IInv, Queue
  <2>2. \A i \in DOMAIN channel.OutRec :
          /\ channel.OutRec[i].ReceivedAck => Received(Bunch(i))
          /\ Received(Bunch(i)) /\ ~Bunch(i).bOpen =>
               \A k \in DOMAIN network.packets : ~Packet(k)'.bunch.bReliable => Packet(k)'.fate # "sent"
    BY <1>19 DEF IInv, Queue
  <2>3. \A i : Bunch(i)' = Bunch(i)
    BY DEF Bunch
  <2>4. \A i \in DOMAIN channel'.OutRec :
          /\ channel'.OutRec[i].ReceivedAck => Received(Bunch(i))'
          /\ Received(Bunch(i))' /\ ~Bunch(i)'.bOpen =>
               \A k \in DOMAIN network'.packets : ~Packet(k)'.bunch.bReliable => Packet(k)'.fate # "sent"
    BY <1>7, <1>21, <2>2, <2>3
  <2>5. \A k \in DOMAIN network'.packets :
          Packet(k)'.fate = "ack" =>
            /\ Packet(k)'.bunch.bReliable => Received(Packet(k).bunch)'
            /\ ~Packet(k)'.bunch.bReliable /\ Packet(k)'.bunch.final => Older(Packet(k)'.bunch.values, client'.value)
    BY <1>6, <1>7, <1>19, <1>21, <1>22
  <2> QED BY <1>6, <2>1, <2>3, <2>4, <2>5 DEF Queue
<1> QED BY <1>6, <1>11, <1>12, <1>18, <1>23

\* A reliable packet under way is that of a reliable bunch.
LEMMA ReliablePacket ==
  ASSUME IInv, NEW k \in DOMAIN network.packets, Packet(k).bunch.bReliable
  PROVE  \E i \in DOMAIN channel.OutRec : /\ Packet(k).bunch = Bunch(i)
                                          /\ ~channel.OutRec[i].ReceivedAck
                                          /\ channel.OutRec[i].PacketId = Answered + k
<1>1. PICK i \in DOMAIN channel.OutRec : /\ channel.OutRec[i].PacketId = Answered + k
                                         /\ ~channel.OutRec[i].ReceivedAck
  BY DEF IInv, PacketsInOrder
<1>2. Packet(channel.OutRec[i].PacketId - Answered).bunch = Bunch(i)
  BY <1>1 DEF IInv, PacketsInOrder
<1>3. /\ DOMAIN network.packets = 1 .. Len(network.packets) /\ Len(network.packets) \in Nat
      /\ network.OutPacketId \in Nat
  BY DEF IInv, HistoryAgrees, TypeOK, NetworkType
<1>4. (Answered + k) - Answered = k
  BY <1>3 DEF Answered
<1> QED BY <1>1, <1>2, <1>4

\* The client after all that follows without a gap.
AfterQueue(queued) ==
    [Dispatched(queued)[LastInOrder(queued)].client EXCEPT
        !.InRec = {b \in queued : b.ChSequence > LastInOrder(queued)}]

\* What may be dispatched when a packet arrives are reliable bunches that were
\* sent after what the client has processed, and after every unreliable one
\* that is still under way, but for the open bunch.
LEMMA QueuedIsNext ==
  ASSUME IInv, NEW o \in DOMAIN network.packets, Packet(o).fate = "sent",
         \A j \in 1 .. o - 1 : network.packets[j].fate # "sent",
         Packet(o).bunch.bReliable, Packet(o).bunch.ChSequence > client.InReliable,
         NEW queued, queued = client.InRec \cup {Packet(o).bunch}
  PROVE  \A b \in queued : \E i \in DOMAIN channel.OutRec :
            /\ b = Bunch(i) /\ b.ChSequence > client.InReliable
            /\ ~b.bOpen => \A k \in DOMAIN network.packets :
                              ~Packet(k).bunch.bReliable => Packet(k).fate # "sent"
<1>1. PICK i0 \in DOMAIN channel.OutRec : Packet(o).bunch = Bunch(i0)
  BY ReliablePacket
<1>2. /\ DOMAIN network.packets = 1 .. Len(network.packets) /\ Len(network.packets) \in Nat
      /\ Finished \in Nat /\ client.InReliable \in Nat /\ DOMAIN channel.OutRec \subseteq Nat
      /\ \A i \in DOMAIN channel.OutRec : Bunch(i).ChSequence = Finished + i
  BY ReliablePlaces DEF IInv, HistoryAgrees, TypeOK, NetworkType, ClientType
<1>3. ASSUME NEW k \in DOMAIN network.packets, ~Packet(k).bunch.bReliable, ~Packet(o).bunch.bOpen
      PROVE  Packet(k).fate # "sent"
  <2>1. CASE k < o
    <3>1. k \in 1 .. o - 1
      BY <1>2, <2>1
    <3> QED BY <3>1 DEF Packet
  <2>2. CASE k > o
    <3>1. o \in 1 .. k - 1
      BY <1>2, <2>2
    <3> QED BY <1>3, <3>1 DEF IInv, PacketsInOrder
  <2>3. k # o
    BY <1>3
  <2> QED BY <1>2, <2>1, <2>2, <2>3
<1>4. ASSUME NEW b \in queued
      PROVE  \E i \in DOMAIN channel.OutRec :
                /\ b = Bunch(i) /\ b.ChSequence > client.InReliable
                /\ ~b.bOpen => \A k \in DOMAIN network.packets :
                                  ~Packet(k).bunch.bReliable => Packet(k).fate # "sent"
  <2>1. CASE b = Packet(o).bunch
    BY <1>1, <1>3, <2>1
  <2>2. CASE b \in client.InRec
    <3>1. PICK i \in DOMAIN channel.OutRec : b = Bunch(i) /\ b.ChSequence > client.InReliable + 1
      BY <2>2 DEF IInv, Queue
    <3>2. b.ChSequence > client.InReliable
      BY <1>2, <3>1
    <3>3. Received(Bunch(i))
      BY <2>2, <3>1 DEF Received
    <3> QED BY <3>1, <3>2, <3>3 DEF IInv, Queue
  <2> QED BY <2>1, <2>2
<1> QED BY <1>4

LEMMA ArriveReliable ==
  ASSUME IInv, NEW o \in DOMAIN network.packets, Packet(o).fate = "sent",
         \A j \in 1 .. o - 1 : network.packets[j].fate # "sent",
         Packet(o).bunch.bReliable, Packet(o).bunch.ChSequence > client.InReliable,
         NEW fate \in {"ack", "nak"}, NEW losses \in 0 .. MaxLosses,
         network' = [network EXCEPT !.packets[o].fate = fate, !.losses = losses],
         UNCHANGED <<object, shared, sending, channel>>,
         NEW queued, queued = client.InRec \cup {Packet(o).bunch},
         client' = AfterQueue(queued)
  PROVE  /\ client' \in ClientType
         /\ \A p \in Prop : client.value[p] <= client'.value[p]
         /\ Older(client'.value, shared.StaticBuffer)
         /\ ClientInOrder(client)' /\ Queue'
<1>1. TypeOK /\ client \in ClientType
  BY DEF IInv, HistoryAgrees, TypeOK
<1>2. PICK last : last = LastInOrder(queued)
  OBVIOUS
<1>3. PICK i0 \in DOMAIN channel.OutRec : Packet(o).bunch = Bunch(i0)
  BY ReliablePacket
<1>4. \A i \in DOMAIN channel.OutRec : Bunch(i).ChSequence = Finished + i /\ Bunch(i) \in BunchType
  BY ReliablePlaces
<1>5. /\ DOMAIN network.packets = 1 .. Len(network.packets) /\ Len(network.packets) \in Nat
      /\ Finished \in Nat /\ client.InReliable \in Nat
      /\ DOMAIN channel.OutRec \subseteq Nat
  BY <1>1, ReliablePlaces DEF TypeOK, NetworkType, ClientType
<1>6. \A b \in queued : \E i \in DOMAIN channel.OutRec :
         /\ b = Bunch(i) /\ b.ChSequence > client.InReliable
         /\ ~b.bOpen => \A k \in DOMAIN network.packets :
                           ~Packet(k).bunch.bReliable => Packet(k).fate # "sent"
  BY QueuedIsNext
<1>8. /\ last \in Nat /\ client.InReliable <= last /\ last <= channel.OutReliable
      /\ \A n \in client.InReliable + 1 .. last : \E b \in queued : b.ChSequence = n
      /\ \A b \in queued : b.ChSequence # last + 1
  BY <1>2, <1>6, LastInOrderExact
<1>9. PICK c : c = Dispatched(queued)[last].client
  OBVIOUS
<1>10. c.InReliable = last /\ MovedOn(c)
  <2>1. last \in client.InReliable .. last
    BY <1>5, <1>8
  <2> QED BY <1>2, <1>6, <1>9, <2>1, DispatchedExact
<1>11. PICK rest : rest = {b \in queued : b.ChSequence > last}
  OBVIOUS
<1>12. client' = [c EXCEPT !.InRec = rest]
  BY <1>2, <1>9, <1>11 DEF AfterQueue
<1>13. queued \subseteq BunchType
  BY <1>4, <1>6
<1>14. /\ client' \in ClientType /\ client'.value = c.value /\ client'.InReliable = last
       /\ client'.OpenAcked = c.OpenAcked /\ client'.InPartialBunch = c.InPartialBunch
       /\ client'.InRec = rest
  <2>1. c \in ClientType
    BY <1>10 DEF MovedOn
  <2>2. rest \in SUBSET BunchType
    BY <1>11, <1>13
  <2> QED BY <1>10, <1>12, <2>1, <2>2 DEF ClientType
<1>15. /\ DOMAIN network'.packets = DOMAIN network.packets
       /\ \A k \in DOMAIN network.packets :
            /\ network'.packets[k].bunch = network.packets[k].bunch
            /\ network'.packets[k].fate = IF k = o THEN fate ELSE network.packets[k].fate
  BY <1>1, AnsweredPackets
<1>16. \A k \in DOMAIN network.packets :
          /\ Packet(k)'.bunch = Packet(k).bunch /\ (Packet(k)'.fate = "sent" => Packet(k).fate = "sent")
          /\ k # o => Packet(k)'.fate = Packet(k).fate
  BY <1>15 DEF Packet
<1>17. ClientInOrder(client)'
  <2>1. ClientInOrder(c)
    BY <1>10 DEF MovedOn
  <2>2. \A k \in DOMAIN network'.packets :
          ~Packet(k)'.bunch.bReliable /\ Packet(k)'.fate = "sent" => Older(c.value, Packet(k)'.bunch.values)
    BY <1>15, <1>16, <2>1 DEF ClientInOrder
  <2> QED BY <1>10, <1>14, <2>1, <2>2 DEF ClientInOrder, Finished, Bunch
<1>18. ASSUME NEW i \in DOMAIN channel.OutRec, Received(Bunch(i)) PROVE Received(Bunch(i))'
  <2>1. Bunch(i).ChSequence \in Nat
    BY <1>4, <1>5
  <2>2. CASE Bunch(i).ChSequence <= client.InReliable
    BY <1>5, <1>8, <1>14, <2>1, <2>2 DEF Received, Bunch
  <2>3. CASE Bunch(i) \in client.InRec
    <3>1. Bunch(i) \in queued
      BY <2>3
    <3>2. Bunch(i).ChSequence <= last \/ Bunch(i) \in rest
      BY <1>8, <1>11, <2>1, <3>1
    <3> QED BY <1>14, <3>2 DEF Received, Bunch
  <2> QED BY <1>18, <2>2, <2>3 DEF Received
<1>19. Received(Bunch(i0))'
  <2>1. Bunch(i0) \in queued /\ Bunch(i0).ChSequence \in Nat
    BY <1>3, <1>4, <1>5
  <2>2. Bunch(i0).ChSequence <= last \/ Bunch(i0) \in rest
    BY <1>8, <1>11, <2>1
  <2> QED BY <1>14, <2>2 DEF Received, Bunch
<1>20. ASSUME NEW i \in DOMAIN channel.OutRec, Received(Bunch(i))', ~Bunch(i).bOpen,
              NEW k \in DOMAIN network.packets, ~Packet(k).bunch.bReliable
       PROVE  Packet(k).fate # "sent"
  <2>1. Bunch(i).ChSequence \in Nat
    BY <1>4, <1>5
  <2>2. CASE Bunch(i).ChSequence <= client.InReliable
    <3>1. Received(Bunch(i))
      BY <2>2 DEF Received
    <3> QED BY <1>20, <3>1 DEF IInv, Queue
  <2>3. CASE Bunch(i).ChSequence > client.InReliable
    <3>1. Bunch(i) \in queued
      <4>1. CASE Bunch(i).ChSequence <= last
        <5>1. Bunch(i).ChSequence \in client.InReliable + 1 .. last
          BY <1>5, <1>8, <2>1, <2>3, <4>1
        <5>2. PICK b \in queued : b.ChSequence = Bunch(i).ChSequence
          BY <1>8, <5>1
        <5>3. PICK j \in DOMAIN channel.OutRec : b = Bunch(j)
          BY <1>6
        <5>4. j = i
          BY <1>4, <1>5, <5>2, <5>3
        <5> QED BY <5>3, <5>4
      <4>2. CASE Bunch(i) \in rest
        BY <1>11, <4>2
      <4> QED BY <1>14, <1>20, <4>1, <4>2 DEF Received, Bunch
    <3> QED BY <1>6, <1>20, <3>1
  <2> QED BY <1>5, <2>1, <2>2, <2>3
<1>21. ASSUME NEW k \in DOMAIN network.packets, Packet(k)'.fate = "ack"
       PROVE  /\ Packet(k).bunch.bReliable => Received(Packet(k).bunch)'
              /\ ~Packet(k).bunch.bReliable /\ Packet(k).bunch.final =>
                   Older(Packet(k).bunch.values, client'.value)
  <2>1. ASSUME Packet(k).bunch.bReliable PROVE Received(Packet(k).bunch)'
    <3>1. PICK i \in DOMAIN channel.OutRec : Packet(k).bunch = Bunch(i)
      BY <2>1, ReliablePacket
    <3>2. Packet(k)' .bunch = Packet(k).bunch /\ Bunch(i)' = Bunch(i) /\ Bunch(i0)' = Bunch(i0)
      BY <1>16 DEF Bunch
    <3>3. Received(Bunch(i))'
      <4>1. CASE k = o
        BY <1>3, <1>19, <3>1, <3>2, <4>1 DEF Received
      <4>2. CASE k # o
        <5>1. Packet(k).fate = "ack"
          BY <1>16, <1>21, <4>2
        <5>2. Received(Bunch(i))
          BY <2>1, <3>1, <5>1 DEF IInv, Queue
        <5> QED BY <1>18, <5>2
      <4> QED BY <4>1, <4>2
    <3> QED BY <3>1, <3>2, <3>3 DEF Received
  <2>2. ASSUME ~Packet(k).bunch.bReliable, Packet(k).bunch.final
        PROVE  Older(Packet(k).bunch.values, client'.value)
    <3>1. k # o
      BY <2>2
    <3>2. Packet(k).fate = "ack"
      BY <1>16, <1>21, <3>1
    <3>3. Older(Packet(k).bunch.values, client.value)
      BY <2>2, <3>2 DEF IInv, Queue
    <3>4. \A p \in DOMAIN Packet(k).bunch.values : Packet(k).bunch.values[p] \in Nat
      BY <1>1, BunchesTyped, BunchValues
    <3>5. \A e \in ClientType : e.value \in [Prop -> Nat]
      BY Constants DEF ClientType, Value
    <3>6. /\ c \in ClientType /\ \A p \in Prop : client.value[p] <= c.value[p]
      BY <1>10 DEF MovedOn
    <3>7. client.value \in [Prop -> Nat] /\ c.value \in [Prop -> Nat]
      BY <1>1, <3>5, <3>6
    <3>8. Older(client.value, c.value)
      BY <3>6 DEF Older
    <3> QED BY <1>14, <3>3, <3>4, <3>7, <3>8, OlderThanNewer
  <2> QED BY <2>1, <2>2
<1>22. Queue'
  <2>1. ASSUME NEW b \in rest
        PROVE  b.ChSequence > last + 1 /\ \E i \in DOMAIN channel.OutRec : b = Bunch(i)
    <3>1. b \in queued /\ b.ChSequence > last
      BY <1>11
    <3>2. PICK i \in DOMAIN channel.OutRec : b = Bunch(i)
      BY <1>6, <3>1
    <3>3. b.ChSequence \in Nat
      BY <1>4, <1>5, <3>2
    <3> QED BY <1>8, <3>1, <3>2, <3>3
  <2>2. \A i : Bunch(i)' = Bunch(i)
    BY DEF Bunch
  <2>3. \A i \in DOMAIN channel'.OutRec :
          /\ channel'.OutRec[i].ReceivedAck => Received(Bunch(i))'
          /\ Received(Bunch(i))' /\ ~Bunch(i)'.bOpen =>
               \A k \in DOMAIN network'.packets : ~Packet(k)'.bunch.bReliable => Packet(k)'.fate # "sent"
    <3>1. \A i \in DOMAIN channel.OutRec : channel.OutRec[i].ReceivedAck => Received(Bunch(i))
      BY DEF IInv, Queue
    <3> QED BY <1>15, <1>16, <1>18, <1>20, <2>2, <3>1
  <2>4. \A e : Received(e)' <=> (e.ChSequence <= last \/ e \in rest)
    BY <1>14 DEF Received
  <2>5. \A k \in DOMAIN network'.packets :
          Packet(k)'.fate = "ack" =>
            /\ Packet(k)'.bunch.bReliable => (Packet(k)'.bunch.ChSequence <= last \/ Packet(k)'.bunch \in rest)
            /\ ~Packet(k)'.bunch.bReliable /\ Packet(k)'.bunch.final => Older(Packet(k)'.bunch.values, client'.value)
    <3>1. ASSUME NEW k \in DOMAIN network.packets, Packet(k)'.fate = "ack", Packet(k).bunch.bReliable
          PROVE  Packet(k).bunch.ChSequence <= last \/ Packet(k).bunch \in rest
      <4>1. Received(Packet(k).bunch)'
        BY <1>21, <3>1
      <4> QED BY <1>14, <1>16, <4>1 DEF Received
    <3> QED BY <1>15, <1>16, <1>21, <3>1
  <2> QED BY <1>14, <2>1, <2>2, <2>3, <2>5 DEF Queue, Received
<1> QED BY <1>10, <1>14, <1>17, <1>22 DEF MovedOn

LEMMA ArriveStep ==
  ASSUME IInv, NEW known \in BOOLEAN, Arrive(known)
  PROVE  IInv' /\ \A p \in Prop : client.value[p] <= client'.value[p]
<1>1. TypeOK /\ client \in ClientType
  BY DEF IInv, HistoryAgrees, TypeOK
<1>2. PICK o : o = OldestInFlight
  OBVIOUS
<1>3. /\ o \in DOMAIN network.packets /\ network.packets[o].fate = "sent"
      /\ \A j \in 1 .. o - 1 : network.packets[j].fate # "sent"
  BY <1>1, <1>2, OldestExact DEF Arrive
<1>4. PICK losses : losses = IF known THEN network.losses ELSE network.losses + 1
  OBVIOUS
<1>5. losses \in 0 .. MaxLosses
  BY <1>1, <1>4, Constants DEF Arrive, TypeOK, NetworkType
<1>6. PICK b : b = network.packets[o].bunch
  OBVIOUS
<1>7. PICK r : r = ReceivedRawBunch(b)
  OBVIOUS
<1>8. PICK fate : fate = IF r.skipAck \/ ~known THEN "nak" ELSE "ack"
  OBVIOUS
<1>9. fate \in {"ack", "nak"} /\ (fate = "ack" => ~r.skipAck)
  BY <1>8
<1>10. /\ client' = r.client
       /\ network' = [network EXCEPT !.packets[o].fate = fate, !.losses = losses]
       /\ UNCHANGED <<object, shared, sending, channel>>
  BY <1>2, <1>4, <1>6, <1>7, <1>8 DEF Arrive
<1>11. b = Packet(o).bunch /\ Packet(o).fate = "sent" /\ b \in BunchType
  BY <1>1, <1>3, <1>6, BunchesTyped DEF Packet
<1> DEFINE Good == /\ client' \in ClientType
                   /\ \A p \in Prop : client.value[p] <= client'.value[p]
                   /\ Older(client'.value, shared.StaticBuffer)
                   /\ ClientInOrder(client)' /\ Queue'
<1>12. ASSUME client' = client, fate = "ack" => b.bReliable /\ Received(b) PROVE Good
  <2>1. ClientInOrder(client)' /\ Queue'
    BY <1>3, <1>5, <1>9, <1>10, <1>11, <1>12, OnlyAnswered
  <2>2. \A p \in Prop : client.value[p] <= client'.value[p]
    BY <1>1, <1>12, ValuesTyped
  <2> QED BY <1>1, <1>12, <2>1, <2>2 DEF IInv, NothingNewer
<1>13. CASE ~b.bReliable /\ ~HasChannel
  <2>1. r = Skipped(client)
    BY <1>7, <1>13 DEF ReceivedRawBunch
  <2>2. r.client = client /\ r.skipAck
    BY <1>1, <2>1, SkippedExact
  <2>3. Good
    BY <1>9, <1>10, <1>12, <2>2
  <2> QED BY <1>3, <1>5, <1>9, <1>10, <2>3, AnswerStep
<1>14. CASE ~b.bReliable /\ HasChannel
  <2>1. r = ReceivedNextBunch(client, b)
    BY <1>7, <1>14 DEF ReceivedRawBunch
  <2> QED BY <1>3, <1>5, <1>9, <1>10, <1>11, <1>14, <2>1, ArriveUnreliable, AnswerStep
<1>15. CASE b.bReliable /\ b.ChSequence <= client.InReliable
  <2>1. r = Taken(client)
    BY <1>7, <1>15 DEF ReceivedRawBunch
  <2>2. r.client = client /\ Received(b)
    BY <1>1, <1>15, <2>1, TakenExact DEF Received
  <2>3. Good
    BY <1>10, <1>12, <1>15, <2>2
  <2> QED BY <1>3, <1>5, <1>9, <1>10, <2>3, AnswerStep
<1>16. CASE b.bReliable /\ ~(b.ChSequence <= client.InReliable)
  <2>1. PICK queued : queued = client.InRec \cup {b}
    OBVIOUS
  <2>2. b.ChSequence > client.InReliable
    BY <1>1, <1>11, <1>16 DEF ClientType, BunchType
  <2>3. r.client = AfterQueue(queued)
    BY <1>7, <1>16, <2>1 DEF ReceivedRawBunch, AfterQueue
  <2>4. Good
    <3>1. /\ Packet(o).bunch.bReliable /\ Packet(o).bunch.ChSequence > client.InReliable
          /\ queued = client.InRec \cup {Packet(o).bunch}
      BY <1>11, <1>16, <2>1, <2>2
    <3>2. client' = AfterQueue(queued)
      BY <1>10, <2>3
    <3> QED BY <1>3, <1>5, <1>9, <1>10, <1>11, <3>1, <3>2, ArriveReliable
  <2> QED BY <1>3, <1>5, <1>9, <1>10, <2>4, AnswerStep
<1> QED BY <1>13, <1>14, <1>15, <1>16

-----------------------------------------------------------------------------
(* An ack reaches the server                                               *)

\* The first packet and the numbers of those that follow.
LEMMA NetworkExact ==
  ASSUME IInv
  PROVE  /\ network \in NetworkType /\ network.packets \in Seq(PacketType)
         /\ DOMAIN network.packets = 1 .. Len(network.packets) /\ Len(network.packets) \in Nat
         /\ network.OutPacketId \in Nat /\ network.OutAckPacketId \in Nat
         /\ Answered \in Nat /\ network.OutPacketId = Answered + Len(network.packets)
         /\ network.OutAckPacketId <= Answered
<1>1. network \in NetworkType
  BY DEF IInv, HistoryAgrees, TypeOK
<1>2. /\ network.packets \in Seq(PacketType) /\ Len(network.packets) \in Nat
      /\ DOMAIN network.packets = 1 .. Len(network.packets)
      /\ network.OutPacketId \in Nat /\ network.OutAckPacketId \in Nat
  BY <1>1 DEF NetworkType
<1>3. Len(network.packets) <= network.OutPacketId /\ network.OutAckPacketId <= Answered
  BY DEF IInv, HistoryInOrder
<1> QED BY <1>1, <1>2, <1>3 DEF Answered

\* The reliable bunches that an ack releases are the first n, all of them
\* processed by the client; the open bunch is released as a whole.
LEMMA AckedExact ==
  ASSUME IInv, network.packets # <<>>, Head(network.packets).fate = "ack",
         ReceivedAck(Answered + 1)
  PROVE  \E n \in 0 .. Len(channel.OutRec) :
           /\ channel' \in ChannelType
           /\ DOMAIN channel'.OutRec = 1 .. Len(channel.OutRec) - n
           /\ Len(channel'.OutRec) = Len(channel.OutRec) - n
           /\ \A i \in 1 .. Len(channel.OutRec) - n :
                /\ channel'.OutRec[i].bunch = Bunch(n + i)
                /\ channel'.OutRec[i].PacketId = channel.OutRec[n + i].PacketId
                /\ channel'.OutRec[i].ReceivedAck =
                     (channel.OutRec[n + i].ReceivedAck \/ channel.OutRec[n + i].PacketId = Answered + 1)
                /\ channel'.OutRec[i].ReceivedAck => Received(Bunch(n + i))
           /\ \A i \in 1 .. n : /\ channel.OutRec[i].ReceivedAck \/ channel.OutRec[i].PacketId = Answered + 1
                                /\ Bunch(i).ChSequence <= client.InReliable
           /\ channel'.opened = channel.opened
           /\ channel'.bPausedUntilReliableACK = channel.bPausedUntilReliableACK
           /\ channel'.OutReliable = channel.OutReliable
           /\ channel.OpenAcked => channel'.OpenAcked
           /\ channel'.OpenAcked => \A i \in n + 1 .. Len(channel.OutRec) : ~Bunch(i).bOpen
<1> DEFINE L == Len(channel.OutRec)
           Acked(i) == channel.OutRec[i].ReceivedAck \/ channel.OutRec[i].PacketId = Answered + 1
<1>1. /\ channel \in ChannelType /\ client \in ClientType
      /\ L \in Nat /\ DOMAIN channel.OutRec = 1 .. L /\ channel.OutRec \in Seq(KeptType)
  BY ReliablePlaces DEF IInv, HistoryAgrees, TypeOK, ChannelType
<1>2. PICK acked : acked = [i \in DOMAIN channel.OutRec |->
                    [channel.OutRec[i] EXCEPT !.ReceivedAck = @ \/ channel.OutRec[i].PacketId = Answered + 1]]
  OBVIOUS
<1>3. ASSUME NEW i \in 1 .. L
      PROVE  /\ acked[i] \in KeptType
             /\ acked[i].bunch = Bunch(i) /\ acked[i].PacketId = channel.OutRec[i].PacketId
             /\ acked[i].ReceivedAck = Acked(i)
  <2>1. PICK f \in BOOLEAN : f = Acked(i)
    OBVIOUS
  <2>2. acked[i] = [channel.OutRec[i] EXCEPT !.ReceivedAck = f]
    BY <1>1, <1>2, <2>1
  <2>3. channel.OutRec[i] \in KeptType
    BY <1>1
  <2> QED BY <2>1, <2>2, <2>3 DEF KeptType, Bunch
<1>4. acked \in Seq(KeptType) /\ Len(acked) = L /\ DOMAIN acked = 1 .. L
  <2>1. DOMAIN acked = 1 .. L /\ acked = [i \in 1 .. L |-> acked[i]]
    BY <1>1, <1>2
  <2>2. L \in Nat /\ \A i \in 1 .. L : acked[i] \in KeptType
    BY <1>1, <1>3
  <2> QED BY <2>1, <2>2
<1>5. ASSUME NEW i \in 1 .. L, Acked(i) PROVE Received(Bunch(i))
  <2>1. CASE channel.OutRec[i].ReceivedAck
    BY <1>1, <2>1 DEF IInv, Queue
  <2>2. CASE ~channel.OutRec[i].ReceivedAck /\ channel.OutRec[i].PacketId = Answered + 1
    <3>1. (Answered + 1) - Answered = 1
      BY NetworkExact
    <3>2. 1 \in DOMAIN network.packets /\ Packet(1).bunch = Bunch(i)
      BY <1>1, <2>2, <3>1 DEF IInv, PacketsInOrder
    <3>3. Packet(1).fate = "ack"
      BY NetworkExact DEF Packet
    <3>4. Bunch(i).bReliable
      BY <1>1 DEF IInv, ReliableInOrder
    <3> QED BY <3>2, <3>3, <3>4 DEF IInv, Queue
  <2> QED BY <1>5, <2>1, <2>2
<1>6. PICK released : released = Releasable(acked)
  OBVIOUS
<1>7. \A i : i \in released <=>
        /\ i \in 1 .. L /\ \A j \in 1 .. i : Acked(j)
        /\ \A j \in 1 .. L : Bunch(j).bOpen => Acked(j)
  <2>1. ASSUME NEW i \in 1 .. L
        PROVE  i \in released <=>
                 /\ \A j \in 1 .. i : Acked(j)
                 /\ \A j \in 1 .. L : Bunch(j).bOpen => Acked(j)
    <3>1. \A j \in 1 .. i : j \in 1 .. L
      BY <1>1
    <3> QED BY <1>3, <1>4, <1>6, <3>1 DEF Releasable
  <2> QED BY <1>4, <1>6, <2>1 DEF Releasable
<1> HIDE DEF Acked
<1>8. PICK n : n = Cardinality(released)
  OBVIOUS
<1>9. n \in 0 .. L /\ released = 1 .. n
  <2>1. released \in SUBSET (1 .. L)
    BY <1>7
  <2>2. \A i \in released : \A j \in 1 .. i - 1 : j \in released
    <3>1. ASSUME NEW i \in released, NEW j \in 1 .. i - 1 PROVE j \in released
      <4>1. j \in 1 .. L /\ \A k \in 1 .. j : k \in 1 .. i
        BY <1>1, <1>7
      <4> QED BY <1>7, <4>1
    <3> QED BY <3>1
  <2> QED BY <1>1, <1>8, <2>1, <2>2, FirstPlaces
<1>10. \A i \in 1 .. n : Acked(i) /\ i \in 1 .. L
  <2>1. ASSUME NEW i \in 1 .. n PROVE Acked(i) /\ i \in 1 .. L
    <3>1. i \in released /\ i \in 1 .. i
      BY <1>9
    <3> QED BY <1>7, <3>1
  <2> QED BY <2>1
<1>11. ASSUME NEW i \in 1 .. n PROVE Bunch(i).ChSequence <= client.InReliable
  <2>1. /\ Finished \in Nat /\ client.InReliable \in Nat /\ Finished <= client.InReliable
        /\ \A j \in 1 .. L : Bunch(j).ChSequence = Finished + j
    BY <1>1, ReliablePlaces DEF IInv, ClientInOrder, ClientType
  <2>2. SUFFICES ASSUME Finished + i > client.InReliable PROVE FALSE
    BY <1>9, <1>10, <2>1
  <2>3. PICK j \in Int : j = client.InReliable + 1 - Finished
    BY <2>1
  <2>4. j \in 1 .. n /\ Finished + j = client.InReliable + 1
    BY <1>9, <2>1, <2>2, <2>3
  <2>5. Received(Bunch(j)) /\ Bunch(j).ChSequence = client.InReliable + 1
    BY <1>5, <1>10, <2>1, <2>4
  <2>6. Bunch(j) \notin client.InRec
    BY <2>1, <2>5 DEF IInv, Queue
  <2> QED BY <2>1, <2>5, <2>6 DEF Received
<1>12. PICK f \in BOOLEAN : f = (channel.OpenAcked \/ \E i \in released : acked[i].bunch.bOpen)
  OBVIOUS
<1>13. PICK rest : rest = SubSeq(acked, n + 1, L)
  OBVIOUS
<1>14. channel' = [channel EXCEPT !.OutRec = rest, !.OpenAcked = f]
  BY <1>2, <1>4, <1>6, <1>8, <1>12, <1>13 DEF ReceivedAck
<1>15. /\ rest \in Seq(KeptType) /\ Len(rest) = L - n /\ DOMAIN rest = 1 .. L - n
       /\ \A i \in 1 .. L - n : rest[i] = acked[n + i] /\ n + i \in 1 .. L
  <2>1. \A i \in 1 .. L - n : n + i \in 1 .. L
    BY <1>1, <1>9
  <2>2. n + 1 \in 1 .. L + 1 /\ L \in Nat
    BY <1>1, <1>9
  <2>3. rest = [i \in 1 .. L - n |-> acked[n + i]]
    BY <1>1, <1>4, <1>9, <1>13, <2>2
  <2>4. rest \in Seq(KeptType) /\ Len(rest) = L - n
    BY <1>1, <1>3, <1>9, <2>1, <2>3
  <2> QED BY <2>1, <2>3, <2>4
<1>16. /\ channel' \in ChannelType /\ channel'.OutRec = rest /\ channel'.OpenAcked = f
       /\ channel'.opened = channel.opened /\ channel'.OutReliable = channel.OutReliable
       /\ channel'.bPausedUntilReliableACK = channel.bPausedUntilReliableACK
  BY <1>1, <1>14, <1>15 DEF ChannelType
<1>17. ASSUME f, NEW i \in n + 1 .. L PROVE ~Bunch(i).bOpen
  <2>1. i \in 1 .. L /\ i > n
    BY <1>1, <1>9
  <2>2. CASE channel.OpenAcked
    BY <1>1, <2>1, <2>2 DEF IInv, Activity
  <2>3. CASE ~channel.OpenAcked
    <3>1. \A j \in 1 .. L : Bunch(j).bOpen => Acked(j)
      BY <1>7, <1>12, <1>17, <2>3
    <3>2. SUFFICES ASSUME Bunch(i).bOpen PROVE FALSE
      OBVIOUS
    <3>3. \A j \in 1 .. i - 1 : Bunch(j).bOpen
      BY <1>1, <2>1, <3>2 DEF IInv, ReliableInOrder
    <3>4. \A j \in 1 .. i : Acked(j)
      <4>1. \A j \in 1 .. i : j \in 1 .. L /\ (j = i \/ j \in 1 .. i - 1)
        BY <1>1, <2>1
      <4> QED BY <3>1, <3>2, <3>3, <4>1
    <3>5. i \in released
      BY <1>7, <2>1, <3>1, <3>4
    <3> QED BY <1>9, <2>1, <3>5
  <2> QED BY <2>2, <2>3
<1>18. \A i \in 1 .. L - n :
         /\ channel'.OutRec[i].bunch = Bunch(n + i)
         /\ channel'.OutRec[i].PacketId = channel.OutRec[n + i].PacketId
         /\ channel'.OutRec[i].ReceivedAck = Acked(n + i)
         /\ channel'.OutRec[i].ReceivedAck => Received(Bunch(n + i))
  BY <1>3, <1>5, <1>15, <1>16
<1> QED BY <1>9, <1>10, <1>11, <1>12, <1>15, <1>16, <1>17, <1>18 DEF Acked

LEMMA AckStep ==
  ASSUME IInv, network.packets # <<>>, Head(network.packets).fate = "ack",
         ReceivedAck(Answered + 1),
         network' = [network EXCEPT !.packets = Tail(@), !.OutAckPacketId = Answered + 1],
         UNCHANGED <<object, shared, sending, client>>
  PROVE  IInv'
<1> DEFINE L == Len(channel.OutRec)
           N == Len(network.packets)
<1>1. TypeOK /\ client \in ClientType /\ channel.opened
  BY DEF IInv, HistoryAgrees, TypeOK, Unopened
<1>2. /\ L \in Nat /\ DOMAIN channel.OutRec = 1 .. L
      /\ Finished \in Nat /\ channel.OutReliable = Finished + L
      /\ \A i \in 1 .. L : Bunch(i).ChSequence = Finished + i /\ Bunch(i) \in BunchType
  BY ReliablePlaces
<1>3. PICK n \in 0 .. L :
        /\ channel' \in ChannelType
        /\ DOMAIN channel'.OutRec = 1 .. L - n
        /\ Len(channel'.OutRec) = L - n
        /\ \A i \in 1 .. L - n :
             /\ channel'.OutRec[i].bunch = Bunch(n + i)
             /\ channel'.OutRec[i].PacketId = channel.OutRec[n + i].PacketId
             /\ channel'.OutRec[i].ReceivedAck =
                  (channel.OutRec[n + i].ReceivedAck \/ channel.OutRec[n + i].PacketId = Answered + 1)
             /\ channel'.OutRec[i].ReceivedAck => Received(Bunch(n + i))
        /\ \A i \in 1 .. n : /\ channel.OutRec[i].ReceivedAck \/ channel.OutRec[i].PacketId = Answered + 1
                             /\ Bunch(i).ChSequence <= client.InReliable
        /\ channel'.opened = channel.opened
        /\ channel'.bPausedUntilReliableACK = channel.bPausedUntilReliableACK
        /\ channel'.OutReliable = channel.OutReliable
        /\ channel.OpenAcked => channel'.OpenAcked
        /\ channel'.OpenAcked => \A i \in n + 1 .. L : ~Bunch(i).bOpen
  BY AckedExact
<1>4. /\ N \in Nat /\ N >= 1 /\ DOMAIN network.packets = 1 .. N /\ network.packets \in Seq(PacketType)
      /\ Answered \in Nat /\ network.OutPacketId = Answered + N /\ network.OutPacketId \in Nat
      /\ network.OutAckPacketId \in Nat /\ network.OutAckPacketId <= Answered
      /\ network \in NetworkType
  BY NetworkExact
<1>5. PICK packets : packets = Tail(network.packets)
  OBVIOUS
<1>6. /\ packets \in Seq(PacketType) /\ Len(packets) = N - 1 /\ DOMAIN packets = 1 .. N - 1
      /\ \A k \in 1 .. N - 1 : packets[k] = network.packets[k + 1] /\ k + 1 \in 1 .. N
  BY <1>4, <1>5
<1>7. /\ network' \in NetworkType /\ network'.packets = packets
      /\ network'.OutPacketId = network.OutPacketId /\ network'.OutAckPacketId = Answered + 1
  <2>1. PICK id \in Nat : id = Answered + 1
    BY <1>4
  <2>2. network' = [network EXCEPT !.packets = packets, !.OutAckPacketId = id]
    BY <1>5, <2>1
  <2> QED BY <1>4, <1>6, <2>1, <2>2 DEF NetworkType
<1>8. Answered' = Answered + 1
  BY <1>4, <1>6, <1>7 DEF Answered
<1>9. Finished' = Finished + n
  BY <1>2, <1>3 DEF Finished
<1>10. \A i \in 1 .. L - n : n + i \in 1 .. L /\ Bunch(i)' = Bunch(n + i)
  BY <1>2, <1>3 DEF Bunch
<1>11. \A k \in 1 .. N - 1 : Packet(k)' = Packet(k + 1) /\ k + 1 \in 1 .. N
  BY <1>6, <1>7 DEF Packet
<1>12. \A i \in 1 .. L : i > n => i - n \in 1 .. L - n /\ n + (i - n) = i
  BY <1>2, <1>3
<1>13. \A k \in 1 .. N : k # 1 => k - 1 \in 1 .. N - 1 /\ (k - 1) + 1 = k
  BY <1>4
<1>14. HistoryAgrees' /\ Compares'
  BY <1>1, <1>3, <1>7 DEF IInv, HistoryAgrees, TypeOK, Compares, Lists
<1>15. Unopened' /\ HistoryInOrder'
  <2>1. Unopened'
    BY <1>1, <1>3 DEF Unopened
  <2>2. ASSUME NEW i \in DOMAIN sending.history
        PROVE  sending.history[i].First \in Nat /\ sending.history[i].Last \in Nat
    <3>1. sending.history \in Seq(ItemType)
      BY <1>1 DEF TypeOK, SendingType
    <3>2. sending.history[i] \in ItemType
      BY <2>2, <3>1
    <3> QED BY <3>2 DEF ItemType
  <2>3. network'.OutAckPacketId <= Answered' /\ Len(network'.packets) <= network'.OutPacketId
    BY <1>4, <1>6, <1>7, <1>8
  <2> QED BY <1>4, <1>7, <1>8, <2>1, <2>2, <2>3 DEF IInv, HistoryInOrder
<1>16. Activity'
  <2>1. channel'.OpenAcked => \A i \in 1 .. L - n : ~Bunch(i)'.bOpen
    <3>1. \A i \in 1 .. L - n : n + i \in n + 1 .. L
      BY <1>2, <1>3
    <3> QED BY <1>3, <1>10, <3>1
  <2> QED BY <1>1, <1>3, <2>1 DEF IInv, Activity, Bunch
<1>17. ReliableInOrder'
  <2>1. L - n <= channel.OutReliable
    BY <1>2, <1>3
  <2>2. ASSUME NEW i \in 1 .. L - n
        PROVE  /\ Bunch(n + i).bReliable /\ Bunch(n + i).ChSequence = (Finished + n) + i
               /\ Bunch(n + i).initial \/ Bunch(n + i).final
               /\ Bunch(n + i).bOpen \/ (channel.bPausedUntilReliableACK /\ ~sending.bLastUpdateEmpty)
               /\ \A j \in 1 .. i - 1 : /\ j \in 1 .. L - n
                                        /\ Bunch(n + i).bOpen => Bunch(n + j).bOpen
                                        /\ Older(Bunch(n + j).values, Bunch(n + i).values)
               /\ i > 1 => /\ i - 1 \in 1 .. L - n
                           /\ ~Bunch(n + i).initial => /\ Bunch(n + (i - 1)).initial /\ ~Bunch(n + (i - 1)).final
                                                       /\ Bunch(n + i).bOpen = Bunch(n + (i - 1)).bOpen
                           /\ Bunch(n + i).initial => Bunch(n + (i - 1)).final /\ ~Bunch(n + i).bOpen
    <3>1. PICK m \in 1 .. L : m = n + i
      BY <1>10
    <3>2. /\ Bunch(m).bReliable /\ (Bunch(m).initial \/ Bunch(m).final)
          /\ Bunch(m).bOpen \/ (channel.bPausedUntilReliableACK /\ ~sending.bLastUpdateEmpty)
      BY <1>2 DEF IInv, ReliableInOrder
    <3>3. Bunch(m).bReliable /\ (Bunch(m).initial \/ Bunch(m).final)
      BY <1>2 DEF IInv, ReliableInOrder
    <3>4. Bunch(m).ChSequence = (Finished + n) + i
      BY <1>2, <1>3, <3>1
    <3>5. ASSUME NEW j \in 1 .. i - 1
          PROVE  /\ j \in 1 .. L - n
                 /\ Bunch(m).bOpen => Bunch(n + j).bOpen
                 /\ Older(Bunch(n + j).values, Bunch(m).values)
      <4>1. n + j \in 1 .. m - 1 /\ j \in 1 .. L - n
        BY <1>2, <1>3, <3>1
      <4> QED BY <1>2, <4>1 DEF IInv, ReliableInOrder
    <3>6. ASSUME i > 1
          PROVE  /\ i - 1 \in 1 .. L - n
                 /\ ~Bunch(m).initial => /\ Bunch(n + (i - 1)).initial /\ ~Bunch(n + (i - 1)).final
                                         /\ Bunch(m).bOpen = Bunch(n + (i - 1)).bOpen
                 /\ Bunch(m).initial => Bunch(n + (i - 1)).final /\ ~Bunch(m).bOpen
      <4>1. m > 1 /\ m - 1 = n + (i - 1) /\ i - 1 \in 1 .. L - n
        BY <1>2, <1>3, <3>1, <3>6
      <4> QED BY <1>2, <4>1 DEF IInv, ReliableInOrder
    <3> QED BY <3>1, <3>2, <3>3, <3>4, <3>5, <3>6
  <2>3. ASSUME L - n # 0 PROVE channel'.OutRec[Len(channel'.OutRec)].bunch.final
    <3>1. L - n \in 1 .. L - n /\ n + (L - n) = L
      BY <1>2, <1>3, <2>3
    <3>2. channel.OutRec # <<>>
      BY <1>2, <1>3, <2>3
    <3>3. channel'.OutRec[L - n].bunch = Bunch(L)
      BY <1>3, <3>1
    <3> QED BY <1>3, <3>2, <3>3 DEF IInv, ReliableInOrder
  <2>5. \A i \in 1 .. L - n :
               /\ Bunch(i)'.bReliable /\ Bunch(i)'.ChSequence = Finished' + i
               /\ Bunch(i)'.initial \/ Bunch(i)'.final
               /\ Bunch(i)'.bOpen \/ (channel'.bPausedUntilReliableACK /\ ~sending'.bLastUpdateEmpty)
               /\ \A j \in 1 .. i - 1 : /\ Bunch(i)'.bOpen => Bunch(j)'.bOpen
                                        /\ Older(Bunch(j)'.values, Bunch(i)'.values)
    BY <1>3, <1>9, <1>10, <2>2
  <2>6. \A i \in 1 .. L - n :
          i > 1 => /\ ~Bunch(i)'.initial => /\ Bunch(i - 1)'.initial /\ ~Bunch(i - 1)'.final
                                            /\ Bunch(i)'.bOpen = Bunch(i - 1)'.bOpen
                   /\ Bunch(i)'.initial => Bunch(i - 1)'.final /\ ~Bunch(i)'.bOpen
    BY <1>10, <2>2
  <2>4. channel'.OutRec # <<>> => L - n # 0
    BY <1>3 DEF ChannelType
  <2>7. /\ channel'.OutRec # <<>> => Bunch(Len(channel.OutRec))'.final
        /\ Len(channel'.OutRec) <= channel'.OutReliable
    BY <1>3, <2>1, <2>3, <2>4 DEF Bunch
  <2> QED BY <1>3, <2>5, <2>6, <2>7 DEF ReliableInOrder
<1>18. PacketsInOrder'
  <2>1. ASSUME NEW k \in 1 .. N - 1, Packet(k + 1).bunch.bReliable
        PROVE  \E i \in DOMAIN channel'.OutRec : /\ channel'.OutRec[i].PacketId = Answered' + k
                                                 /\ ~channel'.OutRec[i].ReceivedAck
    <3>1. PICK i \in 1 .. L : /\ channel.OutRec[i].PacketId = Answered + (k + 1)
                              /\ ~channel.OutRec[i].ReceivedAck
      BY <1>2, <1>4, <1>11, <2>1 DEF IInv, PacketsInOrder
    <3>2. Answered + (k + 1) # Answered + 1 /\ Answered + (k + 1) = Answered' + k
      BY <1>4, <1>8
    <3>3. i > n
      BY <1>2, <1>3, <3>1, <3>2
    <3>4. PICK m \in 1 .. L - n : n + m = i
      BY <1>12, <3>3
    <3>5. channel'.OutRec[m].PacketId = Answered' + k /\ ~channel'.OutRec[m].ReceivedAck
      BY <1>3, <3>1, <3>2, <3>4
    <3> QED BY <1>3, <3>5
  <2>2. ASSUME NEW k \in 1 .. N - 1
        PROVE  /\ ~Packet(k + 1).bunch.bReliable =>
                    ~Packet(k + 1).bunch.bOpen /\ (Packet(k + 1).bunch.initial \/ Packet(k + 1).bunch.final)
               /\ \A l \in 1 .. k - 1 :
                    /\ l \in 1 .. N - 1
                    /\ Packet(k + 1).fate # "sent" => Packet(l + 1).fate # "sent"
                    /\ ~Packet(k + 1).bunch.bReliable /\ Packet(l + 1).bunch.bReliable => Packet(l + 1).bunch.bOpen
                    /\ ~Packet(k + 1).bunch.bReliable /\ ~Packet(l + 1).bunch.bReliable =>
                         Older(Packet(l + 1).bunch.values, Packet(k + 1).bunch.values)
    <3>1. PICK m \in 1 .. N : m = k + 1
      BY <1>11
    <3>2. ASSUME NEW l \in 1 .. k - 1 PROVE l + 1 \in 1 .. m - 1 /\ l \in 1 .. N - 1
      BY <1>4, <3>1
    <3>3. ~Packet(m).bunch.bReliable =>
             ~Packet(m).bunch.bOpen /\ (Packet(m).bunch.initial \/ Packet(m).bunch.final)
      BY <1>4 DEF IInv, PacketsInOrder
    <3>4. \A l \in 1 .. m - 1 :
            /\ Packet(m).fate # "sent" => Packet(l).fate # "sent"
            /\ ~Packet(m).bunch.bReliable /\ Packet(l).bunch.bReliable => Packet(l).bunch.bOpen
            /\ ~Packet(m).bunch.bReliable /\ ~Packet(l).bunch.bReliable =>
                 Older(Packet(l).bunch.values, Packet(m).bunch.values)
      BY <1>4 DEF IInv, PacketsInOrder
    <3> QED BY <3>1, <3>2, <3>3, <3>4
  <2>3. ASSUME NEW i \in 1 .. L - n, ~channel'.OutRec[i].ReceivedAck
        PROVE  /\ channel'.OutRec[i].PacketId - Answered' \in 1 .. N - 1
               /\ Packet((channel'.OutRec[i].PacketId - Answered') + 1).bunch = Bunch(n + i)
    <3>1. PICK m \in 1 .. L : m = n + i
      BY <1>10
    <3>2. PICK id : id = channel.OutRec[m].PacketId
      OBVIOUS
    <3>3. id \in Nat
      BY <1>1, <1>2, <3>2, BunchesTyped DEF KeptType
    <3>4. ~channel.OutRec[m].ReceivedAck /\ id # Answered + 1 /\ channel'.OutRec[i].PacketId = id
      BY <1>3, <2>3, <3>1, <3>2
    <3>5. id - Answered \in 1 .. N /\ Packet(id - Answered).bunch = Bunch(m)
      BY <1>2, <1>4, <3>2, <3>4 DEF IInv, PacketsInOrder
    <3>6. (id - Answered') + 1 = id - Answered /\ id - Answered' \in 1 .. N - 1
      <4>1. PICK a \in Nat : a = Answered
        BY <1>4
      <4>2. id # a + 1 /\ id - a \in 1 .. N
        BY <3>4, <3>5, <4>1
      <4>3. N \in Nat
        BY <1>4
      <4>4. (id - (a + 1)) + 1 = id - a /\ id - (a + 1) \in 1 .. N - 1
        BY <3>3, <4>2, <4>3
      <4> QED BY <1>8, <4>1, <4>4
    <3> QED BY <3>1, <3>4, <3>5, <3>6
  <2>4. \A k \in DOMAIN network'.packets :
          /\ Packet(k)'.bunch.bReliable =>
                 \E i \in DOMAIN channel'.OutRec : /\ channel'.OutRec[i].PacketId = Answered' + k
                                                 /\ ~channel'.OutRec[i].ReceivedAck
          /\ ~Packet(k)'.bunch.bReliable =>
                 ~Packet(k)'.bunch.bOpen /\ (Packet(k)'.bunch.initial \/ Packet(k)'.bunch.final)
          /\ \A l \in 1 .. k - 1 :
                 /\ Packet(k)'.fate # "sent" => Packet(l)'.fate # "sent"
                 /\ ~Packet(k)'.bunch.bReliable /\ Packet(l)'.bunch.bReliable => Packet(l)'.bunch.bOpen
                 /\ ~Packet(k)'.bunch.bReliable /\ ~Packet(l)'.bunch.bReliable =>
                      Older(Packet(l)'.bunch.values, Packet(k)'.bunch.values)
    BY <1>6, <1>7, <1>11, <2>1, <2>2
  <2>5. \A i \in DOMAIN channel'.OutRec :
          ~channel'.OutRec[i].ReceivedAck =>
            /\ channel'.OutRec[i].PacketId - Answered' \in DOMAIN network'.packets
            /\ network'.packets[channel'.OutRec[i].PacketId - Answered'].bunch = Bunch(i)'
    <3>1. \A k \in 1 .. N - 1 : network'.packets[k] = Packet(k + 1)
      BY <1>11 DEF Packet
    <3>2. ASSUME NEW i \in 1 .. L - n, ~channel'.OutRec[i].ReceivedAck
          PROVE  /\ channel'.OutRec[i].PacketId - Answered' \in 1 .. N - 1
                 /\ network'.packets[channel'.OutRec[i].PacketId - Answered'].bunch = Bunch(i)'
      <4>1. PICK k : k = channel'.OutRec[i].PacketId - Answered'
        OBVIOUS
      <4>2. k \in 1 .. N - 1 /\ Packet(k + 1).bunch = Bunch(n + i)
        BY <2>3, <3>2, <4>1
      <4>3. network'.packets[k].bunch = Bunch(i)'
        BY <1>10, <3>1, <4>2
      <4> QED BY <4>1, <4>2, <4>3
    <3> QED BY <1>3, <1>6, <1>7, <3>2
  <2> QED BY <2>4, <2>5 DEF PacketsInOrder, Packet
<1>19. UpdatesInBetween'
  <2>1. ASSUME NEW k \in 1 .. N - 1, ~Packet(k + 1).bunch.bReliable, NEW i \in 1 .. L - n
        PROVE  IF Bunch(n + i).bOpen THEN Older(Bunch(n + i).values, Packet(k + 1).bunch.values)
               ELSE Older(Packet(k + 1).bunch.values, Bunch(n + i).values)
    BY <1>2, <1>4, <1>10, <1>11, <2>1 DEF IInv, UpdatesInBetween
  <2> QED BY <1>3, <1>6, <1>7, <1>10, <1>11, <2>1 DEF UpdatesInBetween
<1>20. NothingNewer'
  <2>1. \A i \in 1 .. L - n : Older(Bunch(n + i).values, shared.StaticBuffer)
    BY <1>2, <1>10 DEF IInv, NothingNewer
  <2>2. \A k \in 1 .. N - 1 : Older(Packet(k + 1).bunch.values, shared.StaticBuffer)
    BY <1>4, <1>11 DEF IInv, NothingNewer
  <2> QED BY <1>3, <1>6, <1>7, <1>10, <1>11, <2>1, <2>2 DEF IInv, NothingNewer
<1>21. ClientInOrder(client)'
  <2>1. client.InReliable \in Nat /\ Finished <= client.InReliable
    BY <1>1 DEF ClientType, IInv, ClientInOrder
  <2>2. Finished + n <= client.InReliable
    <3>1. CASE n = 0
      BY <1>2, <2>1, <3>1
    <3>2. CASE n # 0
      <4>1. n \in 1 .. n /\ n \in 1 .. L
        BY <1>2, <1>3, <3>2
      <4> QED BY <1>2, <1>3, <4>1
    <3> QED BY <3>1, <3>2
  <2>3. \A i \in 1 .. L - n :
          /\ Bunch(n + i).ChSequence <= client.InReliable /\ Bunch(n + i).final =>
               Older(Bunch(n + i).values, client.value)
          /\ Bunch(n + i).ChSequence > client.InReliable => Older(client.value, Bunch(n + i).values)
          /\ client.OpenAcked /\ Bunch(n + i).bOpen => Bunch(n + i).ChSequence <= client.InReliable
          /\ Bunch(n + i).ChSequence = client.InReliable + 1 /\ ~Bunch(n + i).initial =>
               /\ client.InPartialBunch # NoPart /\ client.InPartialBunch.bReliable
               /\ client.InPartialBunch.ChSequence = client.InReliable
    BY <1>2, <1>10 DEF IInv, ClientInOrder
  <2>4. ASSUME ~client.OpenAcked
        PROVE  \E i \in 1 .. L - n : Bunch(n + i).bOpen /\ Bunch(n + i).ChSequence > client.InReliable
    <3>1. PICK i \in 1 .. L : Bunch(i).bOpen /\ Bunch(i).ChSequence > client.InReliable
      BY <1>1, <1>2, <2>4 DEF IInv, ClientInOrder
    <3>2. i > n
      BY <1>2, <1>3, <2>1, <3>1
    <3> QED BY <1>12, <3>1, <3>2
  <2>5. \A k \in 1 .. N - 1 : ~Packet(k + 1).bunch.bReliable /\ Packet(k + 1).fate = "sent" =>
                                 Older(client.value, Packet(k + 1).bunch.values)
    BY <1>4, <1>11 DEF IInv, ClientInOrder
  <2>6. client.InReliable <= channel.OutReliable
    BY DEF IInv, ClientInOrder
  <2> QED BY <1>3, <1>6, <1>7, <1>9, <1>10, <1>11, <2>2, <2>3, <2>4, <2>5, <2>6 DEF ClientInOrder
<1>22. Queue'
  <2>1. ASSUME NEW b \in client.InRec
        PROVE  b.ChSequence > client.InReliable + 1 /\ \E i \in 1 .. L - n : b = Bunch(n + i)
    <3>1. PICK i \in 1 .. L : b = Bunch(i) /\ b.ChSequence > client.InReliable + 1
      BY <1>2, <2>1 DEF IInv, Queue
    <3>2. client.InReliable \in Nat
      BY <1>1 DEF ClientType
    <3>3. i > n
      BY <1>2, <1>3, <3>1, <3>2
    <3> QED BY <1>12, <3>1, <3>3
  <2>2. \A i \in 1 .. L - n : Received(Bunch(n + i)) /\ ~Bunch(n + i).bOpen =>
          \A k \in 1 .. N - 1 : ~Packet(k + 1).bunch.bReliable => Packet(k + 1).fate # "sent"
    BY <1>2, <1>4, <1>10, <1>11 DEF IInv, Queue
  <2>3. \A k \in 1 .. N - 1 : Packet(k + 1).fate = "ack" =>
          /\ Packet(k + 1).bunch.bReliable => Received(Packet(k + 1).bunch)
          /\ ~Packet(k + 1).bunch.bReliable /\ Packet(k + 1).bunch.final =>
               Older(Packet(k + 1).bunch.values, client.value)
    BY <1>4, <1>11 DEF IInv, Queue
  <2>4. \A b : Received(b)' <=> Received(b)
    BY DEF Received
  <2>5. \A i \in DOMAIN channel'.OutRec :
         /\ channel'.OutRec[i].ReceivedAck => Received(Bunch(n + i))
         /\ Received(Bunch(n + i)) /\ ~Bunch(i)'.bOpen =>
              \A k \in DOMAIN network'.packets : ~Packet(k)'.bunch.bReliable => Packet(k)'.fate # "sent"
    BY <1>3, <1>6, <1>7, <1>10, <1>11, <2>2
  <2>6. \A b \in client'.InRec : /\ b.ChSequence > client'.InReliable + 1
                                 /\ \E i \in DOMAIN channel'.OutRec : b = Bunch(i)'
    BY <1>3, <1>10, <2>1
  <2>7. \A k \in DOMAIN network'.packets : Packet(k)'.fate = "ack" =>
          /\ Packet(k)'.bunch.bReliable => Received(Packet(k)'.bunch)
          /\ ~Packet(k)'.bunch.bReliable /\ Packet(k)'.bunch.final => Older(Packet(k)'.bunch.values, client'.value)
    BY <1>6, <1>7, <1>11, <2>3
  <2> QED BY <1>3, <1>10, <2>5, <2>6, <2>7 DEF Queue, Received
<1>23. ASSUME NEW p \in Prop, OnItsWay(p) PROVE OnItsWay(p)'
  <2>1. /\ client.value[p] \in Nat /\ shared.StaticBuffer[p] \in Nat
        /\ p \in DOMAIN client.value /\ p \in DOMAIN shared.StaticBuffer
        /\ client.value[p] <= shared.StaticBuffer[p]
    <3>1. client.value \in [Prop -> Nat] /\ shared.StaticBuffer \in [Prop -> Nat]
      BY <1>1, ValuesTyped
    <3> QED BY <3>1 DEF IInv, NothingNewer, Older
  <2>2. ASSUME NEW v, p \in DOMAIN v, v[p] = shared.StaticBuffer[p], Older(v, client.value)
        PROVE  client.value[p] = shared.StaticBuffer[p]
    <3>1. v[p] <= client.value[p]
      BY <2>1, <2>2 DEF Older
    <3> QED BY <2>1, <2>2, <3>1
  <2>3. CASE client.value[p] = shared.StaticBuffer[p]
    BY <2>3 DEF OnItsWay
  <2>4. CASE p \in Gathered(sending, shared) \/ p \in sending.InactiveChangelist \cup sending.PreOpenAckHistory
    BY <2>4 DEF OnItsWay, Gathered
  <2>5. ASSUME NEW i \in DOMAIN sending.history, p \in sending.history[i].Changed, sending.history[i].Resend
        PROVE  OnItsWay(p)'
    BY <2>5 DEF OnItsWay
  <2>6. ASSUME NEW i \in DOMAIN sending.history, p \in sending.history[i].Changed,
               NEW k \in 1 .. N, sending.history[i].Last = Answered + k,
               ~Packet(k).bunch.bReliable, Packet(k).bunch.final, p \in DOMAIN Packet(k).bunch.values,
               Packet(k).bunch.values[p] = shared.StaticBuffer[p]
        PROVE  OnItsWay(p)'
    <3>1. CASE k = 1
      <4>1. Packet(1).fate = "ack"
        BY <1>4 DEF Packet
      <4>2. Older(Packet(1).bunch.values, client.value)
        BY <1>4, <2>6, <3>1, <4>1 DEF IInv, Queue
      <4> QED BY <2>2, <2>3, <2>6, <3>1, <4>2
    <3>2. CASE k # 1
      <4>1. PICK m \in 1 .. N - 1 : m = k - 1
        BY <1>4, <3>2
      <4>2. Packet(m)' = Packet(k) /\ sending.history[i].Last = Answered' + m
        BY <1>4, <1>8, <1>11, <1>13, <2>6, <3>2, <4>1
      <4> QED BY <1>6, <1>7, <2>6, <4>2 DEF OnItsWay
    <3> QED BY <3>1, <3>2
  <2>7. ASSUME NEW i \in 1 .. L, Bunch(i).final, p \in DOMAIN Bunch(i).values,
               Bunch(i).values[p] = shared.StaticBuffer[p]
        PROVE  OnItsWay(p)'
    <3>1. CASE i \in 1 .. n
      <4>1. Older(Bunch(i).values, client.value)
        BY <1>2, <1>3, <2>7, <3>1 DEF IInv, ClientInOrder
      <4> QED BY <2>2, <2>3, <2>7, <4>1
    <3>2. CASE i > n
      <4>1. PICK j \in 1 .. L - n : n + j = i
        BY <1>12, <3>2
      <4>2. Bunch(j)' = Bunch(i)
        BY <1>10, <4>1
      <4> QED BY <1>3, <2>7, <4>2 DEF OnItsWay
    <3>3. i \in 1 .. n \/ i > n
      BY <1>2, <1>3
    <3> QED BY <3>1, <3>2, <3>3
  <2> QED BY <1>2, <1>4, <1>23, <2>3, <2>4, <2>5, <2>6, <2>7 DEF OnItsWay
<1>24. NewestOnItsWay'
  BY <1>1, <1>3, <1>23 DEF IInv, NewestOnItsWay
<1> QED BY <1>14, <1>15, <1>16, <1>17, <1>18, <1>19, <1>20, <1>21, <1>22, <1>24 DEF IInv

-----------------------------------------------------------------------------
(* A nak reaches the server                                                *)

\* The reliable bunch of a lost packet is sent again in a new packet, behind
\* all others: at most one, for a packet has one bunch.
LEMMA NakedExact ==
  ASSUME IInv, network.packets # <<>>,
         ReceivedNak(Answered + 1, Tail(network.packets))
  PROVE  LET N == Len(network.packets)
             L == Len(channel.OutRec)
         IN /\ channel' \in ChannelType /\ network' \in NetworkType
            /\ network'.OutAckPacketId = network.OutAckPacketId
            /\ Answered' = Answered + 1
            /\ network.OutPacketId <= network'.OutPacketId
            /\ Len(network'.packets) \in {N - 1, N}
            /\ \A k \in 1 .. N - 1 : Packet(k)' = Packet(k + 1)
            /\ N \in DOMAIN network'.packets =>
                 /\ network'.packets[N].fate = "sent"
                 /\ \E i \in 1 .. L : /\ network'.packets[N].bunch = Bunch(i) /\ ~channel.OutRec[i].ReceivedAck
                                      /\ channel'.OutRec[i].PacketId = Answered' + N
            /\ DOMAIN channel'.OutRec = 1 .. L /\ Len(channel'.OutRec) = L
            /\ channel'.opened = channel.opened /\ channel'.OpenAcked = channel.OpenAcked
            /\ channel'.bPausedUntilReliableACK = channel.bPausedUntilReliableACK
            /\ channel'.OutReliable = channel.OutReliable
            /\ \A i \in 1 .. L :
                 /\ Bunch(i)' = Bunch(i)
                 /\ channel'.OutRec[i].ReceivedAck = channel.OutRec[i].ReceivedAck
                 /\ \/ /\ channel'.OutRec[i].PacketId = channel.OutRec[i].PacketId
                       /\ channel.OutRec[i].ReceivedAck \/ channel.OutRec[i].PacketId # Answered + 1
                    \/ /\ channel'.OutRec[i].PacketId = Answered' + N
                       /\ channel.OutRec[i].PacketId = Answered + 1
                       /\ N \in DOMAIN network'.packets /\ network'.packets[N].bunch = Bunch(i)
<1>1. PICK N \in Nat : N = Len(network.packets)
  BY NetworkExact
<1>2. PICK L \in Nat : L = Len(channel.OutRec)
  BY ReliablePlaces
<1>3. /\ N >= 1 /\ DOMAIN network.packets = 1 .. N /\ network.packets \in Seq(PacketType)
      /\ Answered \in Nat /\ network.OutPacketId = Answered + N /\ network.OutPacketId \in Nat
      /\ network \in NetworkType
  BY <1>1, NetworkExact
<1>4. /\ DOMAIN channel.OutRec = 1 .. L /\ channel \in ChannelType /\ channel.OutRec \in Seq(KeptType)
      /\ Finished \in Nat
      /\ \A i \in 1 .. L : /\ Bunch(i).ChSequence = Finished + i /\ Bunch(i) \in BunchType
                           /\ channel.OutRec[i] \in KeptType
  BY <1>2, ReliablePlaces, BunchesTyped DEF IInv, HistoryAgrees, TypeOK, ChannelType
<1>5. PICK lost : lost = {i \in DOMAIN channel.OutRec : /\ channel.OutRec[i].PacketId = Answered + 1
                                                        /\ ~channel.OutRec[i].ReceivedAck}
  OBVIOUS
<1>6. ASSUME NEW i \in lost PROVE i \in 1 .. L /\ Packet(1).bunch = Bunch(i)
  <2>1. i \in 1 .. L /\ channel.OutRec[i].PacketId = Answered + 1 /\ ~channel.OutRec[i].ReceivedAck
    BY <1>4, <1>5
  <2>2. (Answered + 1) - Answered = 1
    BY <1>3
  <2> QED BY <1>4, <2>1, <2>2 DEF IInv, PacketsInOrder
<1>7. \A i, j \in lost : i = j
  <2>1. ASSUME NEW i \in lost, NEW j \in lost PROVE i = j
    <3>1. Finished + i = Finished + j /\ i \in 1 .. L /\ j \in 1 .. L
      BY <1>4, <1>6
    <3> QED BY <1>4, <3>1
  <2> QED BY <2>1
<1>8. PICK rest : rest = Tail(network.packets)
  OBVIOUS
<1>9. /\ rest \in Seq(PacketType) /\ Len(rest) = N - 1 /\ DOMAIN rest = 1 .. N - 1
      /\ \A k \in 1 .. N - 1 : rest[k] = network.packets[k + 1]
  <2>1. network.packets # <<>> /\ Len(network.packets) = N
    BY <1>1
  <2> QED BY <1>3, <1>8, <2>1
<1> DEFINE Place(i) == Cardinality({j \in lost : j <= i})
           Chosen(k) == CHOOSE i \in lost : Place(i) = k
           resent == [k \in 1 .. Cardinality(lost) |-> channel.OutRec[Chosen(k)].bunch]
           sentAgain == [i \in DOMAIN channel.OutRec |->
                           IF i \in lost
                           THEN [channel.OutRec[i] EXCEPT !.PacketId = network.OutPacketId + Place(i)]
                           ELSE channel.OutRec[i]]
<1>10. /\ channel' = [channel EXCEPT !.OutRec = sentAgain]
       /\ network' = [network EXCEPT !.packets = rest \o InFlight(resent),
                                     !.OutPacketId = @ + Len(resent)]
  BY <1>5, <1>8 DEF ReceivedNak
<1>11. CASE lost = {}
  <2>1. sentAgain = channel.OutRec
    BY <1>4, <1>11
  <2>2. channel' = channel
    BY <1>4, <1>10, <2>1 DEF ChannelType
  <2>3. Cardinality(lost) = 0
    BY <1>11, FS_EmptySet
  <2>4. resent = <<>> /\ Len(resent) = 0 /\ InFlight(resent) = <<>>
    BY <2>3 DEF InFlight
  <2>5. PICK id \in Nat : id = network.OutPacketId
    BY <1>3
  <2>6. network' = [network EXCEPT !.packets = rest, !.OutPacketId = id]
    <3>1. rest \o <<>> = rest
      BY <1>9
    <3>2. id + 0 = id
      OBVIOUS
    <3> HIDE DEF resent
    <3> QED BY <1>10, <2>4, <2>5, <3>1, <3>2
  <2>7. /\ network' \in NetworkType /\ network'.packets = rest
        /\ network'.OutPacketId = network.OutPacketId
        /\ network'.OutAckPacketId = network.OutAckPacketId
    BY <1>3, <1>9, <2>5, <2>6 DEF NetworkType
  <2>8. Answered' = Answered + 1
    BY <1>3, <1>9, <2>7 DEF Answered
  <2>9. \A k \in 1 .. N - 1 : Packet(k)' = Packet(k + 1)
    BY <1>9, <2>7 DEF Packet
  <2>10. N \notin DOMAIN network'.packets
    BY <1>9, <2>7
  <2>11. \A i \in 1 .. L : channel.OutRec[i].ReceivedAck \/ channel.OutRec[i].PacketId # Answered + 1
    BY <1>4, <1>5, <1>11
  <2>12. network.OutPacketId <= network'.OutPacketId
    BY <1>3, <2>7
  <2> QED BY <1>1, <1>2, <1>4, <1>9, <2>2, <2>7, <2>8, <2>9, <2>10, <2>11, <2>12 DEF Bunch
<1>12. ASSUME NEW x \in lost
       PROVE  /\ Cardinality(lost) = 1 /\ Place(x) = 1
              /\ resent = <<Bunch(x)>>
  <2>1. lost = {x} /\ x \in 1 .. L
    BY <1>6, <1>7
  <2>2. {j \in lost : j <= x} = {x}
    BY <2>1
  <2>3. Cardinality({x}) = 1
    BY FS_Singleton
  <2>4. Place(x) = 1
    BY <2>2, <2>3
  <2>5. \A k \in 1 .. 1 : Chosen(k) = x
    BY <2>1, <2>4
  <2>6. Cardinality(lost) = 1
    BY <2>1, <2>3
  <2> HIDE DEF Place
  <2>7. resent = [k \in 1 .. 1 |-> Bunch(x)]
    <3>1. PICK m : m = Cardinality(lost)
      OBVIOUS
    <3>2. resent = [k \in 1 .. m |-> channel.OutRec[Chosen(k)].bunch]
      BY <3>1
    <3>3. m = 1
      BY <2>6, <3>1
    <3> HIDE DEF resent, Chosen
    <3> QED BY <2>5, <3>2, <3>3 DEF Bunch
  <2> QED BY <2>4, <2>6, <2>7
<1>13. ASSUME NEW x \in lost
       PROVE  /\ channel' \in ChannelType
              /\ channel'.opened = channel.opened /\ channel'.OpenAcked = channel.OpenAcked
              /\ channel'.bPausedUntilReliableACK = channel.bPausedUntilReliableACK
              /\ channel'.OutReliable = channel.OutReliable
              /\ DOMAIN channel'.OutRec = 1 .. L /\ Len(channel'.OutRec) = L
              /\ \A i \in 1 .. L :
                   /\ channel'.OutRec[i].bunch = Bunch(i)
                   /\ channel'.OutRec[i].ReceivedAck = channel.OutRec[i].ReceivedAck
                   /\ channel'.OutRec[i].PacketId = IF i = x THEN network.OutPacketId + 1
                                                    ELSE channel.OutRec[i].PacketId
  <2>1. PICK id \in Nat : id = network.OutPacketId + 1
    BY <1>3
  <2>2. lost = {x} /\ Place(x) = 1 /\ x \in 1 .. L
    BY <1>6, <1>7, <1>12
  <2>3. sentAgain = [i \in 1 .. L |-> IF i = x THEN [channel.OutRec[x] EXCEPT !.PacketId = id]
                                      ELSE channel.OutRec[i]]
    <3> HIDE DEF Place
    <3> QED BY <1>4, <2>1, <2>2
  <2>4. PICK kept : kept = [channel.OutRec[x] EXCEPT !.PacketId = id]
    OBVIOUS
  <2>5. kept \in KeptType /\ kept.bunch = Bunch(x) /\ kept.PacketId = id
        /\ kept.ReceivedAck = channel.OutRec[x].ReceivedAck
    BY <1>4, <2>1, <2>2, <2>4 DEF KeptType, Bunch
  <2>6. PICK all : all = [i \in 1 .. L |-> IF i = x THEN kept ELSE channel.OutRec[i]]
    OBVIOUS
  <2>7. \A i \in 1 .. L : all[i] \in KeptType
    BY <1>4, <2>5, <2>6
  <2>8. all \in Seq(KeptType) /\ Len(all) = L /\ DOMAIN all = 1 .. L
    BY <2>6, <2>7
  <2>9. channel' = [channel EXCEPT !.OutRec = all]
    BY <1>10, <2>3, <2>4, <2>6
  <2>10. /\ channel' \in ChannelType /\ channel'.OutRec = all
         /\ channel'.opened = channel.opened /\ channel'.OpenAcked = channel.OpenAcked
         /\ channel'.bPausedUntilReliableACK = channel.bPausedUntilReliableACK
         /\ channel'.OutReliable = channel.OutReliable
    BY <1>4, <2>8, <2>9 DEF ChannelType
  <2> QED BY <2>1, <2>2, <2>5, <2>6, <2>8, <2>10 DEF Bunch
<1>14. ASSUME NEW x \in lost
       PROVE  /\ network' \in NetworkType /\ Len(network'.packets) = N /\ DOMAIN network'.packets = 1 .. N
              /\ network'.OutPacketId = network.OutPacketId + 1
              /\ network'.OutAckPacketId = network.OutAckPacketId
              /\ \A k \in 1 .. N - 1 : network'.packets[k] = network.packets[k + 1]
              /\ network'.packets[N].bunch = Bunch(x) /\ network'.packets[N].fate = "sent"
  <2>1. PICK new : new = [bunch |-> Bunch(x), fate |-> "sent"]
    OBVIOUS
  <2>2. new \in PacketType /\ new.bunch = Bunch(x) /\ new.fate = "sent"
    BY <1>4, <1>6, <2>1 DEF PacketType
  <2>3. Len(resent) = 1 /\ InFlight(resent) = <<new>>
    <3>1. resent = <<Bunch(x)>>
      BY <1>12
    <3> HIDE DEF resent
    <3>2. Len(resent) = 1 /\ DOMAIN resent = 1 .. 1 /\ resent[1] = Bunch(x)
      BY <3>1
    <3>3. InFlight(resent) = [i \in 1 .. 1 |-> new]
      BY <2>1, <3>2 DEF InFlight
    <3> QED BY <3>2, <3>3
  <2>4. PICK id \in Nat : id = network.OutPacketId + 1
    BY <1>3
  <2>5. PICK packets : packets = rest \o <<new>>
    OBVIOUS
  <2>6. packets \in Seq(PacketType) /\ Len(packets) = N /\ DOMAIN packets = 1 .. N
        /\ packets[N] = new /\ \A k \in 1 .. N - 1 : packets[k] = rest[k]
    BY <1>3, <1>9, <2>2, <2>5
  <2>7. network' = [network EXCEPT !.packets = packets, !.OutPacketId = id]
    BY <1>10, <2>3, <2>4, <2>5
  <2> QED BY <1>3, <1>9, <2>2, <2>4, <2>6, <2>7 DEF NetworkType
<1>15. ASSUME NEW x \in lost
       PROVE  /\ Answered' = Answered + 1 /\ network.OutPacketId + 1 = Answered' + N
              /\ network.OutPacketId <= network'.OutPacketId
  <2>1. /\ network'.OutPacketId = network.OutPacketId + 1 /\ Len(network'.packets) = N
    BY <1>14
  <2>2. Answered = network.OutPacketId - N /\ Answered' = network.OutPacketId + 1 - N
    BY <1>1, <1>3, <2>1 DEF Answered
  <2> QED BY <1>3, <2>1, <2>2
<1>16. CASE lost # {}
  <2>1. PICK x \in lost : TRUE
    BY <1>16
  <2>2. x \in 1 .. L /\ ~channel.OutRec[x].ReceivedAck /\ channel.OutRec[x].PacketId = Answered + 1
    BY <1>5, <1>6
  <2>3. \A i \in 1 .. L : i # x => channel.OutRec[i].ReceivedAck \/ channel.OutRec[i].PacketId # Answered + 1
    BY <1>4, <1>5, <1>7
  <2>4. \A k \in 1 .. N - 1 : Packet(k)' = Packet(k + 1)
    BY <1>14 DEF Packet
  <2>5. N \in DOMAIN network'.packets /\ network'.packets[N].fate = "sent" /\ network'.packets[N].bunch = Bunch(x)
    BY <1>3, <1>14
  <2>6. \A i \in 1 .. L : Bunch(i)' = Bunch(i)
    BY <1>13 DEF Bunch
  <2>7. channel'.OutRec[x].PacketId = Answered' + N
    BY <1>13, <1>15, <2>2
  <2>8. \A i \in 1 .. L :
          /\ channel'.OutRec[i].ReceivedAck = channel.OutRec[i].ReceivedAck
          /\ i # x => channel'.OutRec[i].PacketId = channel.OutRec[i].PacketId
    BY <1>13
  <2> QED BY <1>1, <1>2, <1>13, <1>14, <1>15, <2>1, <2>2, <2>3, <2>4, <2>5, <2>6, <2>7, <2>8 DEF Packet
<1> QED BY <1>11, <1>16

\* The items that were in the lost packet are to be sent again.
Naks(history) == {i \in DOMAIN history : history[i].Resend}

LEMMA NakHistoryExact ==
  ASSUME IInv, NEW packet
  PROVE  LET s == NakHistory(sending, packet)
         IN /\ s \in SendingType
            /\ DOMAIN s.history = DOMAIN sending.history /\ Len(s.history) = Len(sending.history)
            /\ \A i \in DOMAIN sending.history :
                 /\ s.history[i].Changed = sending.history[i].Changed
                 /\ s.history[i].First = sending.history[i].First
                 /\ s.history[i].Last = sending.history[i].Last
                 /\ s.history[i].Resend <=>
                      \/ sending.history[i].Resend
                      \/ packet \in sending.history[i].First .. sending.history[i].Last
            /\ s.NumNaks = Cardinality(Naks(s.history))
            /\ s.LastChangelistIndex = sending.LastChangelistIndex
            /\ s.RepFlags = sending.RepFlags /\ s.InactiveParents = sending.InactiveParents
            /\ s.InactiveChangelist = sending.InactiveChangelist
            /\ s.bOpenAckedCalled = sending.bOpenAckedCalled
            /\ s.PreOpenAckHistory = sending.PreOpenAckHistory
            /\ s.bLastUpdateEmpty = sending.bLastUpdateEmpty
            /\ s.LastCompareIndex = sending.LastCompareIndex
<1>1. sending \in SendingType /\ sending.history \in Seq(ItemType)
  BY DEF IInv, HistoryAgrees, TypeOK, SendingType
<1>2. PICK n \in Nat : n = Len(sending.history) /\ DOMAIN sending.history = 1 .. n
  BY <1>1
<1> DEFINE Hit == {i \in DOMAIN sending.history :
                          /\ ~sending.history[i].Resend
                          /\ sending.history[i].First # 0
                          /\ packet \in sending.history[i].First .. sending.history[i].Last}
           Marked == [i \in DOMAIN sending.history |->
                         [sending.history[i] EXCEPT !.Resend = @ \/ i \in Hit]]
<1>3. PICK hit : hit = Hit
  OBVIOUS
<1>4. PICK history : history = [i \in DOMAIN sending.history |->
                                  [sending.history[i] EXCEPT !.Resend = @ \/ i \in hit]]
  OBVIOUS
<1>5. ASSUME NEW i \in 1 .. n
      PROVE  /\ history[i] \in ItemType
             /\ history[i].Changed = sending.history[i].Changed
             /\ history[i].First = sending.history[i].First
             /\ history[i].Last = sending.history[i].Last
             /\ history[i].Resend <=> (sending.history[i].Resend \/ i \in hit)
  <2>1. PICK f \in BOOLEAN : f = (sending.history[i].Resend \/ i \in hit)
    OBVIOUS
  <2>2. history[i] = [sending.history[i] EXCEPT !.Resend = f]
    BY <1>2, <1>4, <2>1
  <2>3. sending.history[i] \in ItemType
    BY <1>1, <1>2
  <2> QED BY <2>1, <2>2, <2>3 DEF ItemType
<1>6. history \in Seq(ItemType) /\ Len(history) = n /\ DOMAIN history = 1 .. n
  <2>1. history = [i \in 1 .. n |-> history[i]]
    BY <1>2, <1>4
  <2>2. \A i \in 1 .. n : history[i] \in ItemType
    BY <1>5
  <2> QED BY <2>1, <2>2
<1> DEFINE Before == {i \in DOMAIN sending.history : sending.history[i].Resend}
           After == {i \in DOMAIN history : history[i].Resend}
<1>7. Before \in SUBSET (1 .. n) /\ hit \in SUBSET (1 .. n) /\ After = Before \cup hit /\ Before \cap hit = {}
  BY <1>2, <1>3, <1>5, <1>6
<1>8. sending.NumNaks = Cardinality(Before)
  BY DEF IInv, HistoryAgrees
<1>9. Cardinality(After) = sending.NumNaks + Cardinality(hit) /\ Cardinality(After) \in Nat
  <2>1. IsFiniteSet(1 .. n)
    BY FS_Interval
  <2>2. IsFiniteSet(Before) /\ IsFiniteSet(hit)
    BY <1>7, <2>1, FS_Subset
  <2> HIDE DEF Before, After
  <2>3. Cardinality(Before \cup hit) = Cardinality(Before) + Cardinality(hit) - Cardinality(Before \cap hit)
        /\ IsFiniteSet(Before \cup hit)
    BY <2>2, FS_Union
  <2>4. Cardinality(Before \cap hit) = 0
    BY <1>7, FS_EmptySet
  <2>5. Cardinality(Before) \in Nat /\ Cardinality(hit) \in Nat
    BY <2>2, FS_CardinalityType
  <2> QED BY <1>7, <1>8, <2>3, <2>4, <2>5
<1>10. PICK naks \in Nat : naks = Cardinality(After)
  BY <1>9
<1>11. PICK s : s = NakHistory(sending, packet)
  OBVIOUS
<1>12. s = [sending EXCEPT !.history = history, !.NumNaks = naks]
  <2>1. sending.NumNaks + Cardinality(hit) = naks
    BY <1>9, <1>10
  <2>2. s = [sending EXCEPT !.history = Marked, !.NumNaks = @ + Cardinality(Hit)]
    BY <1>11 DEF NakHistory
  <2>3. history = Marked
    <3> HIDE DEF Hit
    <3> QED BY <1>3, <1>4
  <2> HIDE DEF After, Hit, Marked
  <2> QED BY <1>3, <2>1, <2>2, <2>3
<1>13. /\ s \in SendingType /\ s.history = history /\ s.NumNaks = naks
       /\ s.LastChangelistIndex = sending.LastChangelistIndex
       /\ s.RepFlags = sending.RepFlags /\ s.InactiveParents = sending.InactiveParents
       /\ s.InactiveChangelist = sending.InactiveChangelist
       /\ s.bOpenAckedCalled = sending.bOpenAckedCalled
       /\ s.PreOpenAckHistory = sending.PreOpenAckHistory
       /\ s.bLastUpdateEmpty = sending.bLastUpdateEmpty
       /\ s.LastCompareIndex = sending.LastCompareIndex
  BY <1>1, <1>6, <1>12 DEF SendingType
<1>14. \A i \in 1 .. n : sending.history[i].First # 0
  BY <1>2 DEF IInv, HistoryAgrees
<1>15. \A i \in 1 .. n : history[i].Resend <=>
                      \/ sending.history[i].Resend
                      \/ packet \in sending.history[i].First .. sending.history[i].Last
  BY <1>2, <1>3, <1>5, <1>14
<1>16. After = Naks(history)
  BY DEF Naks
<1> HIDE DEF After
<1> QED BY <1>2, <1>5, <1>6, <1>10, <1>11, <1>13, <1>15, <1>16

LEMMA NakStep ==
  ASSUME IInv, network.packets # <<>>,
         ReceivedNak(Answered + 1, Tail(network.packets)),
         UNCHANGED <<object, shared, client>>
  PROVE  IInv'
<1>1. TypeOK /\ client \in ClientType /\ channel.opened
  BY DEF IInv, HistoryAgrees, TypeOK, Unopened
<1>2. PICK N \in Nat : N = Len(network.packets)
  BY NetworkExact
<1>3. PICK L \in Nat : L = Len(channel.OutRec)
  BY ReliablePlaces
<1>4. /\ N >= 1 /\ DOMAIN network.packets = 1 .. N
      /\ Answered \in Nat /\ network.OutPacketId = Answered + N /\ network.OutPacketId \in Nat
      /\ network.OutAckPacketId \in Nat /\ network.OutAckPacketId <= Answered
      /\ DOMAIN channel.OutRec = 1 .. L
  BY <1>2, <1>3, NetworkExact, ReliablePlaces
<1>5. /\ channel' \in ChannelType /\ network' \in NetworkType
      /\ network'.OutAckPacketId = network.OutAckPacketId
      /\ Answered' = Answered + 1
      /\ network.OutPacketId <= network'.OutPacketId
      /\ Len(network'.packets) \in {N - 1, N}
      /\ \A k \in 1 .. N - 1 : Packet(k)' = Packet(k + 1)
      /\ N \in DOMAIN network'.packets =>
           /\ network'.packets[N].fate = "sent"
           /\ \E i \in 1 .. L : /\ network'.packets[N].bunch = Bunch(i) /\ ~channel.OutRec[i].ReceivedAck
                                /\ channel'.OutRec[i].PacketId = Answered' + N
      /\ DOMAIN channel'.OutRec = 1 .. L /\ Len(channel'.OutRec) = L
      /\ channel'.opened = channel.opened /\ channel'.OpenAcked = channel.OpenAcked
      /\ channel'.bPausedUntilReliableACK = channel.bPausedUntilReliableACK
      /\ channel'.OutReliable = channel.OutReliable
      /\ \A i \in 1 .. L :
           /\ Bunch(i)' = Bunch(i)
           /\ channel'.OutRec[i].ReceivedAck = channel.OutRec[i].ReceivedAck
           /\ \/ /\ channel'.OutRec[i].PacketId = channel.OutRec[i].PacketId
                 /\ channel.OutRec[i].ReceivedAck \/ channel.OutRec[i].PacketId # Answered + 1
              \/ /\ channel'.OutRec[i].PacketId = Answered' + N
                 /\ channel.OutRec[i].PacketId = Answered + 1
                 /\ N \in DOMAIN network'.packets /\ network'.packets[N].bunch = Bunch(i)
  BY <1>2, <1>3, NakedExact
<1>6. sending' = NakHistory(sending, Answered + 1)
  BY DEF ReceivedNak
<1>7. /\ sending' \in SendingType
      /\ DOMAIN sending'.history = DOMAIN sending.history /\ Len(sending'.history) = Len(sending.history)
      /\ \A i \in DOMAIN sending.history :
           /\ sending'.history[i].Changed = sending.history[i].Changed
           /\ sending'.history[i].First = sending.history[i].First
           /\ sending'.history[i].Last = sending.history[i].Last
           /\ sending'.history[i].Resend <=>
                \/ sending.history[i].Resend
                \/ Answered + 1 \in sending.history[i].First .. sending.history[i].Last
      /\ sending'.NumNaks = Cardinality(Naks(sending'.history))
      /\ sending'.LastChangelistIndex = sending.LastChangelistIndex
      /\ sending'.RepFlags = sending.RepFlags /\ sending'.InactiveParents = sending.InactiveParents
      /\ sending'.InactiveChangelist = sending.InactiveChangelist
      /\ sending'.bOpenAckedCalled = sending.bOpenAckedCalled
      /\ sending'.PreOpenAckHistory = sending.PreOpenAckHistory
      /\ sending'.bLastUpdateEmpty = sending.bLastUpdateEmpty
  BY <1>6, NakHistoryExact
<1>8. \A k \in DOMAIN network'.packets :
        /\ k \in 1 .. N
        /\ \/ k \in 1 .. N - 1 /\ k + 1 \in 1 .. N /\ Packet(k)' = Packet(k + 1)
           \/ /\ k = N /\ Packet(k)'.fate = "sent" /\ Packet(k)'.bunch.bReliable
              /\ \E i \in 1 .. L : /\ Packet(k)'.bunch = Bunch(i) /\ ~channel.OutRec[i].ReceivedAck
                                   /\ channel'.OutRec[i].PacketId = Answered' + N
  <2>1. network'.packets \in Seq(PacketType)
    BY <1>5 DEF NetworkType
  <2>2. DOMAIN network'.packets = 1 .. Len(network'.packets)
    BY <2>1
  <2>3. \A k \in DOMAIN network'.packets : k \in 1 .. N - 1 \/ k = N
    BY <1>4, <1>5, <2>2
  <2>4. \A i \in 1 .. L : Bunch(i).bReliable
    BY <1>4 DEF IInv, ReliableInOrder
  <2>5. ASSUME N \in DOMAIN network'.packets
        PROVE  /\ Packet(N)'.fate = "sent" /\ Packet(N)'.bunch.bReliable
               /\ \E i \in 1 .. L : /\ Packet(N)'.bunch = Bunch(i) /\ ~channel.OutRec[i].ReceivedAck
                                    /\ channel'.OutRec[i].PacketId = Answered' + N
    BY <1>5, <2>4, <2>5 DEF Packet
  <2> QED BY <1>4, <1>5, <2>3, <2>5
<1>9. \A k \in 1 .. N - 1 : k \in DOMAIN network'.packets /\ k + 1 \in 1 .. N
  <2>1. network'.packets \in Seq(PacketType)
    BY <1>5 DEF NetworkType
  <2> QED BY <1>4, <1>5, <2>1
<1>10. HistoryAgrees' /\ Compares'
  <2>1. sending'.NumNaks = Cardinality({i \in DOMAIN sending'.history : sending'.history[i].Resend})
    BY <1>7 DEF Naks
  <2> QED BY <1>1, <1>5, <1>7, <2>1 DEF IInv, HistoryAgrees, TypeOK, Compares, Lists
<1>11. Unopened' /\ Activity'
  <2>1. Unopened'
    BY <1>1, <1>5 DEF Unopened
  <2> QED BY <1>1, <1>4, <1>5, <1>7, <2>1 DEF IInv, Activity
<1>12. \A i \in DOMAIN sending.history :
          /\ sending.history[i].First \in Nat /\ sending.history[i].Last \in Nat
          /\ sending.history[i].First <= sending.history[i].Last
  <2>1. sending.history \in Seq(ItemType)
    BY <1>1 DEF TypeOK, SendingType
  <2>2. \A i \in DOMAIN sending.history : sending.history[i] \in ItemType
    BY <2>1
  <2> QED BY <2>2 DEF ItemType, IInv, HistoryInOrder
<1>13. HistoryInOrder'
  <2>1. /\ network'.OutAckPacketId <= Answered'
        /\ Len(network'.packets) <= network'.OutPacketId
    <3>1. network'.OutPacketId \in Nat /\ Len(network'.packets) \in Nat
      BY <1>5 DEF NetworkType
    <3>2. Answered' = network'.OutPacketId - Len(network'.packets)
      BY DEF Answered
    <3> QED BY <1>4, <1>5, <3>1, <3>2
  <2>2. ASSUME NEW i \in DOMAIN sending.history
        PROVE  /\ sending'.history[i].First <= sending'.history[i].Last
               /\ sending'.history[i].Last <= network'.OutPacketId
               /\ sending'.history[i].Resend => sending'.history[i].First <= Answered'
               /\ sending'.history[i].Last <= Answered' /\ ~sending'.history[i].Resend =>
                    sending'.history[i].Last <= network'.OutAckPacketId
    <3>1. PICK item : item = sending.history[i]
      OBVIOUS
    <3>2. /\ item.First \in Nat /\ item.Last \in Nat /\ item.First <= item.Last
          /\ item.Last <= network.OutPacketId
          /\ item.Resend => item.First <= Answered
          /\ item.Last <= Answered /\ ~item.Resend => item.Last <= network.OutAckPacketId
      BY <1>12, <3>1 DEF IInv, HistoryInOrder
    <3>3. /\ sending'.history[i].First = item.First /\ sending'.history[i].Last = item.Last
          /\ sending'.history[i].Resend <=> (item.Resend \/ Answered + 1 \in item.First .. item.Last)
      BY <1>7, <3>1
    <3>4. network'.OutPacketId \in Nat
      BY <1>5 DEF NetworkType
    <3>5. item.Last <= network'.OutPacketId
      BY <1>4, <1>5, <3>2, <3>4
    <3>6. item.Resend \/ Answered + 1 \in item.First .. item.Last => item.First <= Answered + 1
      BY <1>4, <3>2
    <3>7. item.Last <= Answered + 1 /\ ~(item.Resend \/ Answered + 1 \in item.First .. item.Last) =>
             item.Last <= network.OutAckPacketId
      BY <1>4, <3>2
    <3> QED BY <1>5, <3>2, <3>3, <3>5, <3>6, <3>7
  <2>3. \A i \in DOMAIN sending.history : \A j \in 1 .. i - 1 :
           sending'.history[j].Last < sending'.history[i].First
    <3>1. ASSUME NEW i \in DOMAIN sending.history, NEW j \in 1 .. i - 1
          PROVE  sending'.history[j].Last < sending'.history[i].First
      <4>1. j \in DOMAIN sending.history
        <5>1. sending.history \in Seq(ItemType)
          BY <1>1 DEF TypeOK, SendingType
        <5> QED BY <5>1
      <4> QED BY <1>7, <4>1 DEF IInv, HistoryInOrder
    <3> QED BY <3>1
  <2> QED BY <1>7, <2>1, <2>2, <2>3 DEF HistoryInOrder
<1>14. ReliableInOrder'
  <2>1. Finished' = Finished
    BY <1>3, <1>5 DEF Finished
  <2>2. \A i \in 1 .. L : \A j \in 1 .. i - 1 : j \in 1 .. L
    OBVIOUS
  <2>3. \A i \in 1 .. L : i > 1 => i - 1 \in 1 .. L
    OBVIOUS
  <2>4. channel'.OutRec # <<>> => channel.OutRec # <<>> /\ L \in 1 .. L
    BY <1>3, <1>4, <1>5 DEF ChannelType
  <2>5. channel'.OutRec # <<>> => Bunch(Len(channel.OutRec))'.final
    <3>1. Bunch(Len(channel.OutRec))' = channel'.OutRec[L].bunch
      BY <1>5 DEF Bunch
    <3>2. channel'.OutRec # <<>> => Bunch(L).final
      BY <1>3, <2>4 DEF IInv, ReliableInOrder
    <3> QED BY <1>5, <2>4, <3>1, <3>2 DEF Bunch
  <2>6. Len(channel'.OutRec) <= channel'.OutReliable
    BY <1>3, <1>5 DEF IInv, ReliableInOrder
  <2> QED BY <1>4, <1>5, <1>7, <2>1, <2>2, <2>3, <2>5, <2>6 DEF IInv, ReliableInOrder
<1>15. UpdatesInBetween' /\ NothingNewer'
  <2>1. UpdatesInBetween'
    BY <1>4, <1>5, <1>8 DEF IInv, UpdatesInBetween
  <2>2. \A k \in DOMAIN network'.packets : Older(Packet(k)'.bunch.values, shared.StaticBuffer)
    BY <1>4, <1>8 DEF IInv, NothingNewer
  <2> QED BY <1>4, <1>5, <2>1, <2>2 DEF IInv, NothingNewer
<1>16. ClientInOrder(client)'
  <2>1. Finished' = Finished
    BY <1>3, <1>5 DEF Finished
  <2>2. \A k \in DOMAIN network'.packets :
          ~Packet(k)'.bunch.bReliable /\ Packet(k)'.fate = "sent" =>
             Older(client.value, Packet(k)'.bunch.values)
    BY <1>4, <1>8 DEF IInv, ClientInOrder
  <2> QED BY <1>4, <1>5, <2>1, <2>2 DEF IInv, ClientInOrder
<1>17. Queue'
  <2>1. \A i \in 1 .. L : Received(Bunch(i)) /\ ~Bunch(i).bOpen =>
          \A k \in DOMAIN network'.packets : ~Packet(k)'.bunch.bReliable => Packet(k)'.fate # "sent"
    BY <1>4, <1>8 DEF IInv, Queue
  <2>2. \A k \in DOMAIN network'.packets : Packet(k)'.fate = "ack" =>
          /\ Packet(k)'.bunch.bReliable => Received(Packet(k)'.bunch)
          /\ ~Packet(k)'.bunch.bReliable /\ Packet(k)'.bunch.final => Older(Packet(k)'.bunch.values, client.value)
    BY <1>4, <1>8 DEF IInv, Queue
  <2>3. \A i \in 1 .. L : channel.OutRec[i].ReceivedAck => Received(Bunch(i))
    BY <1>4 DEF IInv, Queue
  <2>4. \A b \in client.InRec : /\ b.ChSequence > client.InReliable + 1
                                /\ \E i \in 1 .. L : b = Bunch(i)
    BY <1>4 DEF IInv, Queue
  <2> QED BY <1>5, <2>1, <2>2, <2>3, <2>4 DEF Queue, Received
<1>18. PacketsInOrder'
  <2>1. ASSUME NEW k \in DOMAIN network'.packets
        PROVE  /\ Packet(k)'.bunch.bReliable =>
                 \E i \in DOMAIN channel'.OutRec : /\ channel'.OutRec[i].PacketId = Answered' + k
                                                 /\ ~channel'.OutRec[i].ReceivedAck
               /\ ~Packet(k)'.bunch.bReliable =>
                    ~Packet(k)'.bunch.bOpen /\ (Packet(k)'.bunch.initial \/ Packet(k)'.bunch.final)
    <3>1. CASE k \in 1 .. N - 1
      <4>1. k + 1 \in 1 .. N /\ Packet(k)' = Packet(k + 1)
        BY <1>5, <1>9, <3>1
      <4>2. ASSUME Packet(k + 1).bunch.bReliable
            PROVE  \E i \in DOMAIN channel'.OutRec : /\ channel'.OutRec[i].PacketId = Answered' + k
                                                   /\ ~channel'.OutRec[i].ReceivedAck
        <5>1. PICK i \in 1 .. L : /\ channel.OutRec[i].PacketId = Answered + (k + 1)
                                  /\ ~channel.OutRec[i].ReceivedAck
          BY <1>4, <4>1, <4>2 DEF IInv, PacketsInOrder
        <5>2. Answered + (k + 1) # Answered + 1 /\ Answered + (k + 1) = Answered' + k
          <6>1. Answered \in Nat /\ Answered' = Answered + 1 /\ k >= 1 /\ k \in Nat
            BY <1>4, <1>5, <3>1
          <6> QED BY <6>1
        <5>3. channel'.OutRec[i].PacketId = Answered' + k /\ ~channel'.OutRec[i].ReceivedAck
          BY <1>5, <5>1, <5>2
        <5> QED BY <1>5, <5>3
      <4> QED BY <1>4, <4>1, <4>2 DEF IInv, PacketsInOrder
    <3>2. CASE k = N
      <4>1. k \notin 1 .. N - 1
        BY <3>2
      <4>2. /\ Packet(k)'.bunch.bReliable
            /\ \E i \in 1 .. L : ~channel.OutRec[i].ReceivedAck /\ channel'.OutRec[i].PacketId = Answered' + N
        BY <1>8, <4>1
      <4> QED BY <1>5, <3>2, <4>2
    <3> QED BY <1>8, <3>1, <3>2
  <2>2. ASSUME NEW k \in DOMAIN network'.packets, NEW l \in 1 .. k - 1
        PROVE  /\ Packet(k)'.fate # "sent" => Packet(l)'.fate # "sent"
               /\ ~Packet(k)'.bunch.bReliable /\ Packet(l)'.bunch.bReliable => Packet(l)'.bunch.bOpen
               /\ ~Packet(k)'.bunch.bReliable /\ ~Packet(l)'.bunch.bReliable =>
                    Older(Packet(l)'.bunch.values, Packet(k)'.bunch.values)
    <3>1. CASE k \in 1 .. N - 1
      <4>1. k + 1 \in 1 .. N /\ l + 1 \in 1 .. (k + 1) - 1 /\ l \in 1 .. N - 1
        BY <3>1
      <4>2. Packet(k)' = Packet(k + 1) /\ Packet(l)' = Packet(l + 1)
        BY <1>5, <3>1, <4>1
      <4> QED BY <1>4, <4>1, <4>2 DEF IInv, PacketsInOrder
    <3>2. CASE k = N
      <4>1. Packet(k)'.fate = "sent" /\ Packet(k)'.bunch.bReliable
        BY <1>8, <3>2
      <4> QED BY <4>1
    <3> QED BY <1>8, <3>1, <3>2
  <2>3. ASSUME NEW i \in 1 .. L, ~channel'.OutRec[i].ReceivedAck
        PROVE  /\ channel'.OutRec[i].PacketId - Answered' \in DOMAIN network'.packets
               /\ network'.packets[channel'.OutRec[i].PacketId - Answered'].bunch = Bunch(i)'
    <3>1. PICK k : k = channel'.OutRec[i].PacketId - Answered'
      OBVIOUS
    <3>2. PICK a \in Nat : a = Answered
      BY <1>4
    <3>3. ~channel.OutRec[i].ReceivedAck /\ Answered' = a + 1 /\ Bunch(i)' = Bunch(i)
      BY <1>5, <2>3, <3>2
    <3>4. CASE channel.OutRec[i].PacketId = a + 1
      <4>1. /\ channel'.OutRec[i].PacketId = (a + 1) + N
            /\ N \in DOMAIN network'.packets /\ network'.packets[N].bunch = Bunch(i)
        BY <1>5, <3>2, <3>3, <3>4
      <4>2. k = N
        BY <3>1, <3>2, <3>3, <4>1
      <4> QED BY <3>1, <3>3, <4>1, <4>2
    <3>5. CASE channel.OutRec[i].PacketId # a + 1
      <4>1. PICK id : id = channel.OutRec[i].PacketId
        OBVIOUS
      <4>2. id \in Nat
        BY <1>1, <1>4, <4>1, BunchesTyped DEF KeptType
      <4>3. id - a \in 1 .. N /\ Packet(id - a).bunch = Bunch(i)
        BY <1>4, <3>2, <3>3, <4>1 DEF IInv, PacketsInOrder
      <4>4. channel'.OutRec[i].PacketId = id
        BY <1>5, <3>2, <3>3, <3>5, <4>1
      <4>5. k = id - (a + 1)
        BY <3>1, <3>3, <4>4
      <4>6. k \in 1 .. N - 1 /\ k + 1 = id - a
        BY <3>2, <3>5, <4>1, <4>2, <4>3, <4>5
      <4>7. Packet(k)'.bunch = Bunch(i) /\ k \in DOMAIN network'.packets
        BY <1>5, <1>9, <4>3, <4>6
      <4>8. network'.packets[k].bunch = Bunch(i)'
        BY <3>3, <4>7 DEF Packet
      <4> QED BY <3>1, <4>7, <4>8
    <3> QED BY <3>4, <3>5
  <2> QED BY <1>5, <2>1, <2>2, <2>3 DEF PacketsInOrder, Packet
<1>19. ASSUME NEW p \in Prop, OnItsWay(p) PROVE OnItsWay(p)'
  <2>1. Gathered(sending, shared)' = Gathered(sending, shared)
    BY <1>7 DEF Gathered
  <2>2. CASE client.value[p] = shared.StaticBuffer[p]
    BY <2>2 DEF OnItsWay
  <2>3. CASE p \in Gathered(sending, shared) \/ p \in sending.InactiveChangelist \cup sending.PreOpenAckHistory
    BY <1>7, <2>1, <2>3 DEF OnItsWay
  <2>4. ASSUME NEW i \in DOMAIN sending.history, p \in sending.history[i].Changed, sending.history[i].Resend
        PROVE  OnItsWay(p)'
    BY <1>7, <2>4 DEF OnItsWay
  <2>5. ASSUME NEW i \in DOMAIN sending.history, p \in sending.history[i].Changed,
               NEW k \in 1 .. N, sending.history[i].Last = Answered + k,
               ~Packet(k).bunch.bReliable, Packet(k).bunch.final, p \in DOMAIN Packet(k).bunch.values,
               Packet(k).bunch.values[p] = shared.StaticBuffer[p]
        PROVE  OnItsWay(p)'
    <3>1. CASE k = 1
      <4>1. Answered + 1 \in sending.history[i].First .. sending.history[i].Last
        BY <1>4, <1>12, <2>5, <3>1
      <4>2. sending'.history[i].Resend /\ p \in sending'.history[i].Changed /\ i \in DOMAIN sending'.history
        BY <1>7, <2>5, <4>1
      <4> QED BY <4>2 DEF OnItsWay
    <3>2. CASE k # 1
      <4>1. PICK m \in 1 .. N - 1 : m + 1 = k
        <5>1. k - 1 \in 1 .. N - 1 /\ (k - 1) + 1 = k
          BY <3>2
        <5> QED BY <5>1
      <4>2. Packet(m)' = Packet(k) /\ sending.history[i].Last = Answered' + m
        BY <1>4, <1>5, <2>5, <4>1
      <4>3. m \in DOMAIN network'.packets /\ i \in DOMAIN sending'.history
            /\ sending'.history[i].Last = Answered' + m /\ p \in sending'.history[i].Changed
        BY <1>7, <1>9, <2>5, <4>2
      <4> QED BY <2>5, <4>2, <4>3 DEF OnItsWay
    <3> QED BY <3>1, <3>2
  <2>6. ASSUME NEW i \in 1 .. L, Bunch(i).final, p \in DOMAIN Bunch(i).values,
               Bunch(i).values[p] = shared.StaticBuffer[p]
        PROVE  OnItsWay(p)'
    BY <1>5, <2>6 DEF OnItsWay
  <2> QED BY <1>4, <1>19, <2>2, <2>3, <2>4, <2>5, <2>6 DEF OnItsWay
<1>20. NewestOnItsWay'
  BY <1>1, <1>5, <1>19 DEF IInv, NewestOnItsWay
<1> QED BY <1>10, <1>11, <1>13, <1>14, <1>15, <1>16, <1>17, <1>18, <1>20 DEF IInv

LEMMA AnswerPasses ==
  ASSUME IInv, Answer
  PROVE  IInv'
<1>1. /\ network.packets # <<>> /\ UNCHANGED <<object, shared, client>>
      /\ \/ /\ Head(network.packets).fate = "ack"
            /\ ReceivedAck(Answered + 1)
            /\ network' = [network EXCEPT !.packets = Tail(@), !.OutAckPacketId = Answered + 1]
            /\ UNCHANGED sending
         \/ ReceivedNak(Answered + 1, Tail(network.packets))
  BY DEF Answer, Answered
<1> QED BY <1>1, AckStep, NakStep

-----------------------------------------------------------------------------
(* The history of what the connection has sent                             *)

WithHistory(s, h, naks) == [s EXCEPT !.history = h, !.NumNaks = naks]

LEMMA HistoryReplaced ==
  ASSUME NEW s \in SendingType, NEW h \in Seq(ItemType), NEW naks \in Nat
  PROVE  LET r == WithHistory(s, h, naks)
         IN r \in SendingType /\ r.history = h /\ r.NumNaks = naks
BY DEF SendingType, WithHistory

\* r is s after the release of its first items.
Remaining(s, released, r) ==
    \E m \in 0 .. Len(s.history) :
       /\ released = 1 .. m
       /\ r \in SendingType /\ r.NumNaks = 0
       /\ Len(r.history) = Len(s.history) - m /\ DOMAIN r.history = 1 .. Len(s.history) - m
       /\ \A i \in 1 .. Len(s.history) - m : /\ m + i \in DOMAIN s.history
                                             /\ r.history[i] = s.history[m + i]
                                             /\ ~s.history[m + i].Resend
       /\ r = WithHistory(s, r.history, 0)

First(places) == \A i \in places : \A j \in 1 .. i - 1 : j \in places

\* What is released are the first items, and with them all naks.
LEMMA HousekeptExact ==
  ASSUME NEW s \in SendingType, s.NumNaks = Cardinality(Naks(s.history)),
         NEW released, released \subseteq DOMAIN s.history, First(released),
         Naks(s.history) \subseteq released,
         NEW r, r = Housekept(s, released)
  PROVE  Remaining(s, released, r)
<1>1. PICK n \in Nat : n = Len(s.history) /\ DOMAIN s.history = 1 .. n
  BY DEF SendingType
<1>2. s.history \in Seq(ItemType) /\ \A i \in 1 .. n : s.history[i] \in ItemType
  BY <1>1 DEF SendingType
<1>3. PICK m : m = Cardinality(released)
  OBVIOUS
<1>4. m \in 0 .. n /\ released = 1 .. m
  <2>1. \A i \in released : \A j \in 1 .. i - 1 : j \in released
    BY DEF First
  <2> QED BY <1>1, <1>3, <2>1, FirstPlaces
<1>5. PICK all : all = [i \in DOMAIN s.history |-> IF i \in released THEN Item({}) ELSE s.history[i]]
  OBVIOUS
<1>6. Item({}) \in ItemType
  BY DEF Item, ItemType
<1>7. all \in Seq(ItemType) /\ Len(all) = n /\ DOMAIN all = 1 .. n
  <2>1. all = [i \in 1 .. n |-> all[i]]
    BY <1>1, <1>5
  <2>2. \A i \in 1 .. n : all[i] \in ItemType
    BY <1>1, <1>2, <1>5, <1>6
  <2> QED BY <2>1, <2>2
<1>8. PICK rest : rest = SubSeq(all, m + 1, n)
  OBVIOUS
<1>9. /\ rest \in Seq(ItemType) /\ Len(rest) = n - m /\ DOMAIN rest = 1 .. n - m
      /\ \A i \in 1 .. n - m : rest[i] = all[m + i] /\ m + i \in 1 .. n /\ m + i \notin released
  <2>1. rest = [i \in 1 .. n - m |-> all[m + i]]
    BY <1>4, <1>7, <1>8
  <2>2. \A i \in 1 .. n - m : m + i \in 1 .. n /\ m + i \notin released
    BY <1>4
  <2>3. \A i \in 1 .. n - m : all[m + i] \in ItemType
    BY <1>7, <2>2
  <2>4. n - m \in Nat
    BY <1>4
  <2>5. rest \in Seq(ItemType) /\ Len(rest) = n - m
    BY <2>1, <2>3, <2>4
  <2> QED BY <2>1, <2>2, <2>5
<1>10. {i \in released : s.history[i].Resend} = Naks(s.history)
  BY DEF Naks
<1>11. s.NumNaks - Cardinality(Naks(s.history)) = 0
  BY DEF SendingType
<1>12. r = [s EXCEPT !.history = SubSeq([i \in DOMAIN s.history |-> IF i \in released THEN Item({}) ELSE s.history[i]],
                                        Cardinality(released) + 1, Len(s.history)),
                     !.NumNaks = s.NumNaks - Cardinality({i \in released : s.history[i].Resend})]
  BY DEF Housekept
<1>13. r = [s EXCEPT !.history = rest, !.NumNaks = 0]
  BY <1>1, <1>3, <1>5, <1>8, <1>10, <1>11, <1>12
<1>14. r \in SendingType /\ r.history = rest /\ r.NumNaks = 0 /\ r = WithHistory(s, r.history, 0)
  <2>1. rest \in Seq(ItemType)
    BY <1>9
  <2>2. PICK naks \in Nat : naks = 0
    OBVIOUS
  <2>3. r = WithHistory(s, rest, naks)
    BY <1>13, <2>2 DEF WithHistory
  <2>4. r \in SendingType /\ r.history = rest /\ r.NumNaks = naks
    BY <2>1, <2>3, HistoryReplaced
  <2> QED BY <2>2, <2>3, <2>4
<1>15. \A i \in 1 .. n - m : r.history[i] = s.history[m + i] /\ ~s.history[m + i].Resend
  BY <1>1, <1>5, <1>9, <1>14 DEF Naks
<1> QED BY <1>1, <1>4, <1>9, <1>13, <1>14, <1>15 DEF Remaining

\* The items of the history of the connection.
LEMMA HistoryExact ==
  ASSUME IInv
  PROVE  /\ sending.history \in Seq(ItemType) /\ Len(sending.history) \in Nat
         /\ DOMAIN sending.history = 1 .. Len(sending.history)
         /\ sending.NumNaks = Cardinality(Naks(sending.history))
         /\ \A i \in DOMAIN sending.history :
              /\ sending.history[i] \in ItemType
              /\ sending.history[i].First \in Nat /\ sending.history[i].Last \in Nat
              /\ sending.history[i].Resend \in BOOLEAN /\ sending.history[i].Changed \subseteq Prop
              /\ sending.history[i].First <= sending.history[i].Last
              /\ \A j \in 1 .. i - 1 : sending.history[j].Last < sending.history[i].First
              /\ sending.history[i].Resend => sending.history[i].First <= Answered
              /\ sending.history[i].Last <= Answered /\ ~sending.history[i].Resend =>
                   sending.history[i].Last <= network.OutAckPacketId
<1>1. sending.history \in Seq(ItemType)
  BY DEF IInv, HistoryAgrees, TypeOK, SendingType
<1>2. \A i \in DOMAIN sending.history : sending.history[i] \in ItemType
  BY <1>1
<1>3. sending.NumNaks = Cardinality(Naks(sending.history))
  BY DEF IInv, HistoryAgrees, Naks
<1> QED BY <1>1, <1>2, <1>3 DEF ItemType, IInv, HistoryInOrder

\* The items that are released are the first ones.
LEMMA ReleasedFirst ==
  ASSUME IInv, ~Paused
  PROVE  LET released == Released(Refreshed)
         IN /\ released \in SUBSET (DOMAIN sending.history)
            /\ \A i \in released : \A j \in 1 .. i - 1 : j \in released
            /\ Naks(sending.history) \subseteq released
            /\ Len(sending.history) + 1 = MAX_SENT_HISTORY => released = DOMAIN sending.history
            /\ \A i \in released : \/ network.OutAckPacketId >= sending.history[i].Last
                                   \/ Again(Refreshed, i)
<1>1. Refreshed.history = sending.history
  BY RefreshedExact
<1>2. \A i : i \in Released(Refreshed) <=>
        /\ i \in DOMAIN sending.history
        /\ \/ network.OutAckPacketId >= sending.history[i].Last
           \/ sending.history[i].Resend
           \/ Len(sending.history) + 1 = MAX_SENT_HISTORY
  BY <1>1 DEF Released, Again
<1>3. ASSUME NEW i \in Released(Refreshed), NEW j \in 1 .. i - 1 PROVE j \in Released(Refreshed)
  <2>1. /\ i \in DOMAIN sending.history /\ j \in DOMAIN sending.history
        /\ sending.history[j].Last < sending.history[i].First
        /\ sending.history[i].First <= sending.history[i].Last
    BY <1>2, <1>3, HistoryExact
  <2>2. PICK a \in Nat : a = Answered
    BY NetworkExact
  <2>3. PICK b \in Nat : b = network.OutAckPacketId
    BY NetworkExact
  <2>4. PICK x \in ItemType : x = sending.history[i]
    BY <2>1, HistoryExact
  <2>5. PICK y \in ItemType : y = sending.history[j]
    BY <2>1, HistoryExact
  <2>6. /\ y.Last < x.First /\ x.First <= x.Last /\ x.First \in Nat /\ x.Last \in Nat /\ y.Last \in Nat
        /\ x.Resend => x.First <= a
        /\ y.Last <= a /\ ~y.Resend => y.Last <= b
        /\ b >= x.Last \/ x.Resend \/ Len(sending.history) + 1 = MAX_SENT_HISTORY
    BY <1>2, <2>1, <2>2, <2>3, <2>4, <2>5, HistoryExact
  <2>7. b >= y.Last \/ y.Resend \/ Len(sending.history) + 1 = MAX_SENT_HISTORY
    BY <2>6
  <2> QED BY <1>2, <2>1, <2>3, <2>5, <2>7
<1>4. Naks(sending.history) \subseteq Released(Refreshed)
  BY <1>2 DEF Naks
<1>5. \A i \in Released(Refreshed) : network.OutAckPacketId >= sending.history[i].Last \/ Again(Refreshed, i)
  BY <1>1 DEF Released
<1> QED BY <1>2, <1>3, <1>4, <1>5

\* What has been acknowledged is first, too.
LEMMA AcknowledgedFirst ==
  ASSUME IInv, NEW released,
         released = {i \in DOMAIN sending.history : network.OutAckPacketId >= sending.history[i].Last}
  PROVE  \A i \in released : \A j \in 1 .. i - 1 : j \in released
<1>1. ASSUME NEW i \in released, NEW j \in 1 .. i - 1 PROVE j \in released
  <2>1. /\ i \in DOMAIN sending.history /\ j \in DOMAIN sending.history
        /\ sending.history[j].Last < sending.history[i].First
        /\ sending.history[i].First <= sending.history[i].Last
        /\ sending.history[i].First \in Nat /\ sending.history[i].Last \in Nat
        /\ sending.history[j].Last \in Nat
    BY <1>1, HistoryExact
  <2>2. network.OutAckPacketId \in Nat /\ network.OutAckPacketId >= sending.history[i].Last
    BY NetworkExact
  <2>3. network.OutAckPacketId >= sending.history[j].Last
    BY <2>1, <2>2
  <2> QED BY <2>1, <2>3
<1> QED BY <1>1

\* The history after a replication of what is not in the list of inactive
\* properties.
Replicating(s, flags, inactive, kept, compared, end, pre, h, empty) ==
    [s EXCEPT !.RepFlags = flags, !.InactiveParents = inactive, !.InactiveChangelist = kept,
              !.LastCompareIndex = compared, !.LastChangelistIndex = end,
              !.PreOpenAckHistory = pre, !.history = h, !.bLastUpdateEmpty = empty]

LEMMA ReplicatingExact ==
  ASSUME NEW s \in SendingType, NEW flags \in FlagsType, NEW inactive \in SUBSET Prop,
         NEW kept \in SUBSET Prop, NEW compared \in 0 .. 2, NEW end \in Nat,
         NEW pre \in SUBSET Prop, NEW h \in Seq(ItemType), NEW empty \in BOOLEAN
  PROVE  LET r == Replicating(s, flags, inactive, kept, compared, end, pre, h, empty)
         IN /\ r \in SendingType
            /\ r.RepFlags = flags /\ r.InactiveParents = inactive /\ r.InactiveChangelist = kept
            /\ r.LastChangelistIndex = end /\ r.PreOpenAckHistory = pre /\ r.history = h
            /\ r.bLastUpdateEmpty = empty
            /\ r.NumNaks = s.NumNaks /\ r.bOpenAckedCalled = s.bOpenAckedCalled
BY DEF SendingType, Replicating

\* How a replication leaves the sending state, with m of n items released.
Outcome(s, sh, flags, changed, inactive, n, m) ==
    /\ Released(Refreshed) = 1 .. m
    /\ s \in SendingType /\ s.NumNaks = 0
    /\ \A i \in 1 .. n - m : /\ m + i \in DOMAIN sending.history
                             /\ s.history[i] = sending.history[m + i]
                             /\ ~sending.history[m + i].Resend
    /\ n - m + 1 < MAX_SENT_HISTORY
    /\ IF changed \subseteq inactive THEN Len(s.history) = n - m
       ELSE /\ Len(s.history) = n - m + 1
            /\ s.history[n - m + 1] = Item(changed \ inactive)
    /\ s.RepFlags = flags /\ s.InactiveParents = inactive
    /\ s.InactiveChangelist = (sending.InactiveChangelist \cup changed) \cap inactive
    /\ s.LastChangelistIndex = sh.HistoryEnd
    /\ s.PreOpenAckHistory = IF Refreshed.bOpenAckedCalled THEN {} ELSE sending.PreOpenAckHistory
    /\ s.bLastUpdateEmpty = (changed \subseteq inactive)
    /\ s.bOpenAckedCalled = Refreshed.bOpenAckedCalled

LEMMA ReplicatedExact ==
  ASSUME IInv, ~Paused, NEW sh, Advanced(sh), NEW flags \in FlagsType,
         NEW changed \in SUBSET Prop, NEW inactive \in SUBSET Prop
  PROVE  \E m \in 0 .. Len(sending.history) :
            Outcome(Replicated(Refreshed, sh, flags, changed, inactive),
                    sh, flags, changed, inactive, Len(sending.history), m)
<1>1. PICK q : q = Refreshed
  OBVIOUS
<1>2. /\ q \in SendingType /\ q.history = sending.history /\ q.NumNaks = sending.NumNaks
      /\ q.InactiveChangelist = sending.InactiveChangelist
      /\ q.PreOpenAckHistory = sending.PreOpenAckHistory
  BY <1>1, RefreshedExact
<1>3. PICK n \in Nat : n = Len(sending.history) /\ DOMAIN sending.history = 1 .. n
  BY HistoryExact
<1>4. PICK released : released = Released(q)
  OBVIOUS
<1>5. /\ released \in SUBSET (DOMAIN sending.history)
      /\ \A i \in released : \A j \in 1 .. i - 1 : j \in released
      /\ Naks(sending.history) \subseteq released
      /\ n + 1 = MAX_SENT_HISTORY => released = 1 .. n
  BY <1>1, <1>3, <1>4, ReleasedFirst
<1>6. PICK r : r = Housekept(q, released)
  OBVIOUS
<1>7. PICK m \in 0 .. n :
           /\ released = 1 .. m
           /\ r \in SendingType /\ r.NumNaks = 0
           /\ Len(r.history) = n - m /\ DOMAIN r.history = 1 .. n - m
           /\ \A i \in 1 .. n - m : /\ m + i \in DOMAIN sending.history
                                    /\ r.history[i] = sending.history[m + i]
                                    /\ ~sending.history[m + i].Resend
           /\ r = WithHistory(q, r.history, 0)
  <2>1. q.NumNaks = Cardinality(Naks(q.history)) /\ Naks(q.history) \subseteq released
        /\ released \subseteq DOMAIN q.history
    BY <1>2, <1>5, HistoryExact
  <2>2. First(released)
    BY <1>5 DEF First
  <2>3. Remaining(q, released, r)
    BY <1>2, <1>6, <2>1, <2>2, HousekeptExact
  <2> QED BY <1>2, <1>3, <2>3 DEF Remaining
<1>8. /\ r.InactiveChangelist = sending.InactiveChangelist
      /\ r.PreOpenAckHistory = sending.PreOpenAckHistory
      /\ r.bOpenAckedCalled = q.bOpenAckedCalled
  <2>1. PICK h : h = r.history
    OBVIOUS
  <2>2. r = [q EXCEPT !.history = h, !.NumNaks = 0]
    BY <1>7, <2>1 DEF WithHistory
  <2> QED BY <1>2, <2>2 DEF SendingType
<1>9. PICK h : h = IF changed \subseteq inactive THEN r.history
                   ELSE Append(r.history, Item(changed \ inactive))
  OBVIOUS
<1>10. r.history \in Seq(ItemType)
  BY <1>7 DEF SendingType
<1>11. /\ h \in Seq(ItemType)
       /\ \A i \in 1 .. n - m : h[i] = r.history[i]
       /\ IF changed \subseteq inactive THEN Len(h) = n - m
          ELSE Len(h) = n - m + 1 /\ h[n - m + 1] = Item(changed \ inactive)
  <2>1. Item(changed \ inactive) \in ItemType
    BY DEF Item, ItemType
  <2>2. CASE changed \subseteq inactive
    BY <1>7, <1>9, <1>10, <2>2
  <2>3. CASE ~(changed \subseteq inactive)
    <3>1. PICK item \in ItemType : item = Item(changed \ inactive)
      BY <2>1
    <3>2. h = Append(r.history, item)
      BY <1>9, <2>3, <3>1
    <3>3. PICK f : f = r.history
      OBVIOUS
    <3>4. f \in Seq(ItemType) /\ Len(f) = n - m /\ h = Append(f, item)
      BY <1>7, <1>10, <3>2, <3>3
    <3>5. h \in Seq(ItemType) /\ Len(h) = Len(f) + 1 /\ h[Len(f) + 1] = item
          /\ \A i \in 1 .. Len(f) : h[i] = f[i]
      BY <3>4
    <3> QED BY <2>3, <3>1, <3>3, <3>4, <3>5
  <2> QED BY <2>2, <2>3
<1>12. PICK kept \in SUBSET Prop : kept = (sending.InactiveChangelist \cup changed) \cap inactive
  OBVIOUS
<1>13. PICK pre \in SUBSET Prop : pre = IF q.bOpenAckedCalled THEN {} ELSE sending.PreOpenAckHistory
  <2>1. sending.PreOpenAckHistory \in SUBSET Prop
    BY DEF IInv, HistoryAgrees, TypeOK, SendingType
  <2> QED BY <2>1
<1>14. PICK empty \in BOOLEAN : empty = (changed \subseteq inactive)
  OBVIOUS
<1>15. sh.CompareIndex \in 0 .. 2 /\ sh.HistoryEnd \in Nat
  BY DEF Advanced, SharedType
<1>16. PICK s : s = Replicated(q, sh, flags, changed, inactive)
  OBVIOUS
<1>17. s = Replicating(r, flags, inactive, kept, sh.CompareIndex, sh.HistoryEnd, pre, h, empty)
  <2>1. (r.InactiveChangelist \cap inactive) \cup (changed \cap inactive) = kept
    BY <1>8, <1>12
  <2>2. s = [r EXCEPT !.RepFlags = flags, !.InactiveParents = inactive,
        !.InactiveChangelist = (r.InactiveChangelist \cap inactive) \cup (changed \cap inactive),
        !.LastCompareIndex = sh.CompareIndex, !.LastChangelistIndex = sh.HistoryEnd,
        !.PreOpenAckHistory = IF q.bOpenAckedCalled THEN {} ELSE r.PreOpenAckHistory,
        !.history = IF changed \subseteq inactive THEN r.history
                    ELSE Append(r.history, Item(changed \ inactive)),
        !.bLastUpdateEmpty = changed \subseteq inactive]
    BY <1>4, <1>6, <1>16 DEF Replicated
  <2>3. PICK x : x = (changed \subseteq inactive)
    OBVIOUS
  <2> QED BY <1>8, <1>9, <1>13, <1>14, <2>1, <2>2 DEF Replicating
<1>18. /\ s \in SendingType
       /\ s.RepFlags = flags /\ s.InactiveParents = inactive /\ s.InactiveChangelist = kept
       /\ s.LastChangelistIndex = sh.HistoryEnd /\ s.PreOpenAckHistory = pre /\ s.history = h
       /\ s.bLastUpdateEmpty = empty
       /\ s.NumNaks = r.NumNaks /\ s.bOpenAckedCalled = r.bOpenAckedCalled
  <2>1. r \in SendingType /\ h \in Seq(ItemType)
    BY <1>7, <1>11
  <2>2. PICK compared \in 0 .. 2 : compared = sh.CompareIndex
    BY <1>15
  <2>3. PICK end \in Nat : end = sh.HistoryEnd
    BY <1>15
  <2>4. s = Replicating(r, flags, inactive, kept, compared, end, pre, h, empty)
    BY <1>17, <2>2, <2>3
  <2>5. flags \in FlagsType /\ inactive \in SUBSET Prop /\ kept \in SUBSET Prop /\ pre \in SUBSET Prop
        /\ empty \in BOOLEAN
    OBVIOUS
  <2> QED BY <2>1, <2>3, <2>4, <2>5 DEF SendingType, Replicating
<1>19. n - m + 1 < MAX_SENT_HISTORY
  <2>1. n < MAX_SENT_HISTORY
    BY <1>3 DEF IInv, HistoryAgrees
  <2>2. n + 1 = MAX_SENT_HISTORY => m = n
    <3>1. ASSUME 1 .. n = 1 .. m PROVE m = n
      <4>1. n = 0 \/ n \in 1 .. m
        BY <3>1
      <4> QED BY <4>1
    <3> QED BY <1>5, <1>7, <3>1
  <2> QED BY <2>1, <2>2, Constants
<1>20. Outcome(s, sh, flags, changed, inactive, n, m)
  BY <1>1, <1>3, <1>4, <1>7, <1>8, <1>11, <1>12, <1>13, <1>14, <1>18, <1>19 DEF Outcome
<1> QED BY <1>1, <1>3, <1>16, <1>20

-----------------------------------------------------------------------------
(* A replication                                                           *)

\* Nothing is newer than what has been compared since.
LEMMA StillOlder ==
  ASSUME IInv, NEW sh, Advanced(sh)
  PROVE  /\ sh.StaticBuffer \in [Prop -> Nat]
         /\ Older(client.value, sh.StaticBuffer)
         /\ \A i \in DOMAIN channel.OutRec : Older(Bunch(i).values, sh.StaticBuffer)
         /\ \A k \in DOMAIN network.packets : Older(Packet(k).bunch.values, sh.StaticBuffer)
<1>1. TypeOK /\ sh \in SharedType
  BY DEF IInv, HistoryAgrees, Advanced
<1>2. sh.StaticBuffer \in [Prop -> Nat]
  BY <1>1, Constants DEF SharedType, Value
<1>3. Older(shared.StaticBuffer, sh.StaticBuffer) /\ shared.StaticBuffer \in [Prop -> Nat]
      /\ client.value \in [Prop -> Nat]
  BY <1>1, ValuesTyped DEF Advanced, Older
<1>4. Older(client.value, sh.StaticBuffer)
  BY <1>2, <1>3, OlderThanNewer DEF IInv, NothingNewer
<1>5. ASSUME NEW i \in DOMAIN channel.OutRec PROVE Older(Bunch(i).values, sh.StaticBuffer)
  BY <1>1, <1>2, <1>3, BunchesTyped, BunchValues, OlderThanNewer DEF IInv, NothingNewer
<1>6. ASSUME NEW k \in DOMAIN network.packets PROVE Older(Packet(k).bunch.values, sh.StaticBuffer)
  BY <1>1, <1>2, <1>3, BunchesTyped, BunchValues, OlderThanNewer DEF IInv, NothingNewer
<1> QED BY <1>2, <1>4, <1>5, <1>6

\* What a replication leaves of the shadow state, the actor and the client.
LEMMA FrameExact ==
  ASSUME IInv, NEW sh, Advanced(sh),
         shared' = [sh EXCEPT !.comparedThisFrame = FALSE],
         object' = [object EXCEPT !.dirty = {}], UNCHANGED client,
         sending'.LastChangelistIndex = sh.HistoryEnd
  PROVE  /\ object' \in ObjectType /\ shared' \in SharedType /\ client' \in ClientType
         /\ shared'.HistoryStart = sh.HistoryStart /\ shared'.HistoryEnd = sh.HistoryEnd
         /\ shared'.StaticBuffer = sh.StaticBuffer
         /\ shared'.HistoryEnd - shared'.HistoryStart < MAX_CHANGE_HISTORY
         /\ Compares'
         /\ sh.StaticBuffer \in [Prop -> Nat]
         /\ Older(client.value, sh.StaticBuffer)
         /\ \A i \in DOMAIN channel.OutRec : Older(Bunch(i).values, sh.StaticBuffer)
         /\ \A k \in DOMAIN network.packets : Older(Packet(k).bunch.values, sh.StaticBuffer)
<1>1. TypeOK /\ Compares
  BY DEF IInv, HistoryAgrees
<1>2. sh \in SharedType /\ Room(sh)
  BY DEF Advanced
<1>3. /\ shared' \in SharedType
      /\ shared'.HistoryStart = sh.HistoryStart /\ shared'.HistoryEnd = sh.HistoryEnd
      /\ shared'.StaticBuffer = sh.StaticBuffer /\ shared'.ChangeHistory = sh.ChangeHistory
  BY <1>2 DEF SharedType
<1>4. object' \in ObjectType /\ client' \in ClientType
  BY <1>1 DEF TypeOK, ObjectType
<1>5. sending'.LastChangelistIndex <= sh.HistoryEnd
  BY <1>2 DEF SharedType
<1>6. Compares'
  BY <1>1, <1>3, <1>5, ComparesStep
<1> QED BY <1>2, <1>3, <1>4, <1>6, StillOlder DEF Room

\* Where the client gets p from after a replication, if not from what it sends.
Sent(s, sh, p, last) ==
    \/ client.value[p] = sh.StaticBuffer[p]
    \/ p \in s.InactiveChangelist \cup s.PreOpenAckHistory
    \/ \E i \in 1 .. last : /\ p \in s.history[i].Changed
                            /\ \E k \in DOMAIN network.packets :
                                 /\ s.history[i].Last = Answered + k
                                 /\ ~Packet(k).bunch.bReliable /\ Packet(k).bunch.final
                                 /\ p \in DOMAIN Packet(k).bunch.values
                                 /\ Packet(k).bunch.values[p] = sh.StaticBuffer[p]
    \/ \E i \in DOMAIN channel.OutRec : /\ Bunch(i).final /\ p \in DOMAIN Bunch(i).values
                                        /\ Bunch(i).values[p] = sh.StaticBuffer[p]

LEMMA SentOrChanged ==
  ASSUME IInv, channel.opened, NEW sh, Advanced(sh), NEW p \in Prop, NEW s, NEW changed,
         NEW n \in Nat, n = Len(sending.history), NEW m \in 0 .. n,
         InLists(sh, sending.LastChangelistIndex, p) => p \in changed,
         p \in sending.InactiveChangelist \cup sending.PreOpenAckHistory =>
             p \in changed \cup s.InactiveChangelist \cup s.PreOpenAckHistory,
         \A i \in 1 .. m : p \in sending.history[i].Changed =>
             \/ p \in changed
             \/ ~sending.history[i].Resend /\ network.OutAckPacketId >= sending.history[i].Last,
         \A i \in 1 .. n - m : s.history[i] = sending.history[m + i] /\ ~sending.history[m + i].Resend
  PROVE  p \in changed \/ Sent(s, sh, p, n - m)
<1>1. OnItsWay(p)
  BY DEF IInv, NewestOnItsWay
<1>2. CASE InLists(sh, sending.LastChangelistIndex, p)
  BY <1>2
<1>3. ASSUME sh.StaticBuffer[p] = shared.StaticBuffer[p], p \notin Gathered(sending, shared)
      PROVE  p \in changed \/ Sent(s, sh, p, n - m)
  <2>1. DOMAIN sending.history = 1 .. n
    BY HistoryExact
  <2>2. ASSUME NEW i \in 1 .. n, p \in sending.history[i].Changed, i > m
        PROVE  /\ i - m \in 1 .. n - m /\ s.history[i - m] = sending.history[i]
               /\ ~sending.history[i].Resend
    <3>1. i - m \in 1 .. n - m /\ m + (i - m) = i
      BY <2>2
    <3> QED BY <3>1
  <2>3. ASSUME NEW i \in 1 .. n, p \in sending.history[i].Changed, sending.history[i].Resend
        PROVE  p \in changed
    <3>1. i \in 1 .. m
      BY <2>2, <2>3
    <3> QED BY <2>3, <3>1
  <2>4. ASSUME NEW i \in 1 .. n, p \in sending.history[i].Changed,
               NEW k \in DOMAIN network.packets, sending.history[i].Last = Answered + k,
               ~Packet(k).bunch.bReliable, Packet(k).bunch.final,
               p \in DOMAIN Packet(k).bunch.values,
               Packet(k).bunch.values[p] = shared.StaticBuffer[p]
        PROVE  p \in changed \/ Sent(s, sh, p, n - m)
    <3>1. ~(network.OutAckPacketId >= sending.history[i].Last)
      BY <2>4, NetworkExact
    <3>2. CASE i \in 1 .. m
      BY <2>4, <3>1, <3>2
    <3>3. CASE i > m
      BY <1>3, <2>2, <2>4, <3>3 DEF Sent
    <3> QED BY <3>2, <3>3
  <2> QED BY <1>1, <1>3, <2>1, <2>3, <2>4 DEF OnItsWay, Sent
<1> QED BY <1>1, <1>2, <1>3, AdvancedOnItsWay

\* The change list of a replication.
LEMMA ChangedExact ==
  ASSUME IInv, ~Paused, NEW sh, Advanced(sh), NEW flags,
         NEW changed, changed = Changed(Refreshed, sh, flags)
  PROVE  /\ changed \in SUBSET Prop
         /\ \A p \in Prop : InLists(sh, sending.LastChangelistIndex, p) => p \in changed
         /\ channel.opened => \A p \in sending.InactiveChangelist :
                                  p \in InactiveUnder(flags) \/ p \in changed
         /\ \A i \in Released(Refreshed) : Again(Refreshed, i) => sending.history[i].Changed \subseteq changed
         /\ Refreshed.bOpenAckedCalled => sending.PreOpenAckHistory \subseteq changed
<1>1. PICK q : q = Refreshed
  OBVIOUS
<1>2. /\ q \in SendingType /\ q.history = sending.history
      /\ q.LastChangelistIndex = sending.LastChangelistIndex
      /\ q.InactiveChangelist = sending.InactiveChangelist
      /\ q.PreOpenAckHistory = sending.PreOpenAckHistory /\ q.RepFlags = sending.RepFlags
  BY <1>1, RefreshedExact
<1>3. \A p : p \in changed <=>
         \/ p \in Gathered(q, sh) \/ p \in NewlyActive(q, flags)
         \/ \E i \in Released(q) : Again(q, i) /\ p \in sending.history[i].Changed
         \/ q.bOpenAckedCalled /\ p \in q.PreOpenAckHistory
  <2>1. changed = Changed(q, sh, flags)
    BY <1>1
  <2>2. \A p : p \in Changed(q, sh, flags) <=>
         \/ p \in Gathered(q, sh) \/ p \in NewlyActive(q, flags)
         \/ \E i \in Released(q) : Again(q, i) /\ p \in q.history[i].Changed
         \/ q.bOpenAckedCalled /\ p \in q.PreOpenAckHistory
    BY DEF Changed
  <2> QED BY <1>2, <2>1, <2>2
<1>4. Released(q) \subseteq DOMAIN sending.history
  BY <1>2 DEF Released
<1>5. \A p : p \in Gathered(q, sh) <=> InLists(sh, sending.LastChangelistIndex, p)
  BY <1>2, GatheredIsIn DEF Advanced
<1>6. changed \in SUBSET Prop
  <2>1. ASSUME NEW p, InLists(sh, sending.LastChangelistIndex, p) PROVE p \in Prop
    <3>1. PICK i \in sh.HistoryStart .. sh.HistoryEnd - 1 : p \in sh.ChangeHistory[i % MAX_CHANGE_HISTORY]
      BY <2>1 DEF InLists
    <3>2. i \in Nat /\ sh \in SharedType
      BY DEF Advanced, SharedType
    <3>3. i % MAX_CHANGE_HISTORY \in 0 .. MAX_CHANGE_HISTORY - 1
      BY <3>2, Constants, Places
    <3> QED BY <3>1, <3>2, <3>3 DEF SharedType
  <2>2. NewlyActive(q, flags) \subseteq Prop /\ q.PreOpenAckHistory \subseteq Prop
    BY <1>2 DEF NewlyActive, SendingType
  <2>3. \A i \in DOMAIN sending.history : sending.history[i].Changed \subseteq Prop
    BY HistoryExact
  <2> QED BY <1>3, <1>4, <1>5, <2>1, <2>2, <2>3
<1>7. ASSUME channel.opened, NEW p \in sending.InactiveChangelist, p \notin InactiveUnder(flags)
      PROVE  p \in changed
  <2>1. p \in InactiveUnder(sending.RepFlags)
    BY <1>7 DEF IInv, Activity
  <2>2. q.RepFlags # flags
    BY <1>2, <1>7, <2>1
  <2>3. p \in NewlyActive(q, flags)
    BY <1>2, <1>7, <2>2 DEF NewlyActive
  <2> QED BY <1>3, <2>3
<1> QED BY <1>1, <1>2, <1>3, <1>5, <1>6, <1>7

\* The items that stay in the history after a replication are still in order.
KeptItems(h, n, m) ==
    \A i \in 1 .. n - m : /\ m + i \in DOMAIN sending.history
                          /\ h[i] = sending.history[m + i]
                          /\ ~sending.history[m + i].Resend

LEMMA KeptInOrder ==
  ASSUME IInv, NEW n \in Nat, n = Len(sending.history), NEW m \in 0 .. n, NEW h,
         KeptItems(h, n, m)
  PROVE  \A i \in 1 .. n - m :
           /\ h[i] \in ItemType /\ h[i].Changed # {} /\ h[i].First # 0 /\ ~h[i].Resend
           /\ h[i].First <= h[i].Last /\ h[i].Last <= network.OutPacketId
           /\ \A j \in 1 .. i - 1 : h[j].Last < h[i].First
           /\ h[i].Last <= Answered => h[i].Last <= network.OutAckPacketId
<1>1. ASSUME NEW i \in 1 .. n - m
      PROVE  /\ h[i] \in ItemType /\ h[i].Changed # {} /\ h[i].First # 0 /\ ~h[i].Resend
             /\ h[i].First <= h[i].Last /\ h[i].Last <= network.OutPacketId
             /\ h[i].Last <= Answered => h[i].Last <= network.OutAckPacketId
  <2>1. h[i] = sending.history[m + i] /\ m + i \in DOMAIN sending.history /\ ~h[i].Resend
    BY DEF KeptItems
  <2>2. h[i].Changed # {} /\ h[i].First # 0
    BY <2>1 DEF IInv, HistoryAgrees
  <2>3. h[i].Last <= network.OutPacketId
    BY <2>1 DEF IInv, HistoryInOrder
  <2> QED BY <2>1, <2>2, <2>3, HistoryExact
<1>2. ASSUME NEW i \in 1 .. n - m, NEW j \in 1 .. i - 1 PROVE h[j].Last < h[i].First
  <2>1. j \in 1 .. n - m /\ m + j \in 1 .. (m + i) - 1
    OBVIOUS
  <2>2. /\ h[i] = sending.history[m + i] /\ m + i \in DOMAIN sending.history
        /\ h[j] = sending.history[m + j]
    BY <2>1 DEF KeptItems
  <2> QED BY <2>1, <2>2, HistoryExact
<1> QED BY <1>1, <1>2

LEMMA NoNaks ==
  ASSUME NEW h, \A i \in DOMAIN h : ~h[i].Resend
  PROVE  Cardinality({i \in DOMAIN h : h[i].Resend}) = 0
<1>1. {i \in DOMAIN h : h[i].Resend} = {}
  OBVIOUS
<1> QED BY <1>1, FS_EmptySet

\* A replication that sends nothing.
LEMMA QuietStep ==
  ASSUME IInv, ~Paused, channel.opened, NEW sh, Advanced(sh),
         shared' = [sh EXCEPT !.comparedThisFrame = FALSE],
         object' = [object EXCEPT !.dirty = {}], UNCHANGED <<network, client>>,
         channel' = Unpaused,
         NEW n \in Nat, n = Len(sending.history), NEW m \in 0 .. n,
         sending' \in SendingType, sending'.NumNaks = 0,
         Len(sending'.history) = n - m, KeptItems(sending'.history, n, m),
         sending'.LastChangelistIndex = sh.HistoryEnd,
         sending'.InactiveParents = InactiveUnder(sending'.RepFlags),
         sending'.InactiveChangelist \subseteq sending'.InactiveParents,
         sending'.bOpenAckedCalled => channel.OpenAcked,
         \A p \in Prop : Sent(sending', sh, p, n - m)
  PROVE  IInv'
<1>1. /\ object' \in ObjectType /\ shared' \in SharedType /\ client' \in ClientType
      /\ shared'.HistoryStart = sh.HistoryStart /\ shared'.HistoryEnd = sh.HistoryEnd
      /\ shared'.StaticBuffer = sh.StaticBuffer
      /\ shared'.HistoryEnd - shared'.HistoryStart < MAX_CHANGE_HISTORY
      /\ Compares'
      /\ Older(client.value, sh.StaticBuffer)
      /\ \A i \in DOMAIN channel.OutRec : Older(Bunch(i).values, sh.StaticBuffer)
      /\ \A k \in DOMAIN network.packets : Older(Packet(k).bunch.values, sh.StaticBuffer)
  BY FrameExact
<1>2. /\ channel' \in ChannelType
      /\ channel'.opened = channel.opened /\ channel'.OpenAcked = channel.OpenAcked
      /\ channel'.OutReliable = channel.OutReliable /\ channel'.OutRec = channel.OutRec
  BY UnpausedExact
<1>3. TypeOK'
  BY <1>1, <1>2, NetworkExact DEF TypeOK
<1>4. PICK h : h = sending'.history
  OBVIOUS
<1>5. h \in Seq(ItemType) /\ DOMAIN h = 1 .. n - m /\ Len(h) = n - m
  <2>1. h \in Seq(ItemType)
    BY <1>4 DEF SendingType
  <2> QED BY <1>4, <2>1
<1>6. \A i \in 1 .. n - m :
           /\ h[i] \in ItemType /\ h[i].Changed # {} /\ h[i].First # 0 /\ ~h[i].Resend
           /\ h[i].First <= h[i].Last /\ h[i].Last <= network.OutPacketId
           /\ \A j \in 1 .. i - 1 : h[j].Last < h[i].First
           /\ h[i].Last <= Answered => h[i].Last <= network.OutAckPacketId
  BY <1>4, KeptInOrder
<1>7. HistoryAgrees'
  <2>1. Cardinality({i \in DOMAIN h : h[i].Resend}) = 0
    BY <1>5, <1>6, NoNaks
  <2>2. n - m < MAX_SENT_HISTORY
    BY Constants DEF IInv, HistoryAgrees
  <2> QED BY <1>1, <1>3, <1>4, <1>5, <1>6, <2>1, <2>2 DEF HistoryAgrees
<1>8. Unopened'
  BY <1>2 DEF Unopened
<1>9. HistoryInOrder'
  <2>1. Answered' = Answered /\ network'.OutAckPacketId = network.OutAckPacketId
        /\ network'.OutPacketId = network.OutPacketId /\ network'.packets = network.packets
    BY DEF Answered
  <2>2. network.OutAckPacketId <= Answered /\ Len(network.packets) <= network.OutPacketId
    BY DEF IInv, HistoryInOrder
  <2>3. \A i \in DOMAIN sending'.history : /\ i \in 1 .. n - m /\ sending'.history[i] = h[i]
                                           /\ \A j \in 1 .. i - 1 : sending'.history[j] = h[j]
    BY <1>4, <1>5
  <2> QED BY <1>6, <2>1, <2>2, <2>3 DEF HistoryInOrder
<1>10. Activity'
  BY <1>2 DEF IInv, Activity, Bunch
<1>11. NothingNewer'
  BY <1>1, <1>2 DEF NothingNewer, Bunch, Packet
<1>12. ASSUME NEW p \in Prop PROVE OnItsWay(p)'
  <2>1. Sent(sending', sh, p, n - m)
    OBVIOUS
  <2>2. CASE p \in sending'.InactiveChangelist \cup sending'.PreOpenAckHistory
    BY <2>2 DEF OnItsWay
  <2>3. CASE client.value[p] = sh.StaticBuffer[p]
    BY <1>1, <2>3 DEF OnItsWay
  <2>4. ASSUME NEW i \in 1 .. n - m, p \in h[i].Changed, NEW k \in DOMAIN network.packets,
               h[i].Last = Answered + k,
               ~Packet(k).bunch.bReliable, Packet(k).bunch.final,
               p \in DOMAIN Packet(k).bunch.values,
               Packet(k).bunch.values[p] = sh.StaticBuffer[p]
        PROVE  OnItsWay(p)'
    <3>1. i \in DOMAIN sending'.history /\ sending'.history[i] = h[i]
      BY <1>4, <1>5
    <3>2. k \in DOMAIN network'.packets /\ Packet(k)' = Packet(k) /\ Answered' = Answered
      BY DEF Packet, Answered
    <3> QED BY <1>1, <2>4, <3>1, <3>2 DEF OnItsWay
  <2>5. ASSUME NEW i \in DOMAIN channel.OutRec, Bunch(i).final, p \in DOMAIN Bunch(i).values,
               Bunch(i).values[p] = sh.StaticBuffer[p]
        PROVE  OnItsWay(p)'
    BY <1>1, <1>2, <2>5 DEF OnItsWay, Bunch
  <2> QED BY <1>4, <2>1, <2>2, <2>3, <2>4, <2>5 DEF Sent
<1>13. NewestOnItsWay'
  BY <1>12 DEF NewestOnItsWay
<1>14. ReliableInOrder' /\ PacketsInOrder' /\ UpdatesInBetween' /\ ClientInOrder(client)' /\ Queue'
  BY QuietNetwork
<1> QED BY <1>1, <1>7, <1>8, <1>9, <1>10, <1>11, <1>13, <1>14 DEF IInv

LEMMA IdleStep ==
  ASSUME IInv, ~Paused, NEW sh, sh = UpdateChangelistMgr(~channel.opened),
         shared' = [sh EXCEPT !.comparedThisFrame = FALSE],
         NothingToDo(Refreshed, sh, CurrentFlags), sending' = Idle(Refreshed, sh),
         channel' = Unpaused,
         object' = [object EXCEPT !.dirty = {}], UNCHANGED <<network, client>>
  PROVE  IInv'
<1>1. TypeOK /\ Compares /\ channel.opened \in BOOLEAN
  BY DEF IInv, HistoryAgrees, TypeOK, ChannelType
<1>2. Advanced(sh)
  BY <1>1, UpdateAdvances
<1>3. PICK q : q = Refreshed
  OBVIOUS
<1>4. /\ q \in SendingType /\ q.history = sending.history /\ q.NumNaks = sending.NumNaks
      /\ q.LastChangelistIndex = sending.LastChangelistIndex /\ q.RepFlags = sending.RepFlags
      /\ q.InactiveParents = sending.InactiveParents
      /\ q.InactiveChangelist = sending.InactiveChangelist
      /\ q.PreOpenAckHistory = sending.PreOpenAckHistory
      /\ q.bOpenAckedCalled => channel.OpenAcked
  BY <1>3, RefreshedExact
<1>5. channel.opened
  <2>1. sending.RepFlags = CurrentFlags
    BY <1>3, <1>4 DEF NothingToDo
  <2>2. CurrentFlags.bNetInitial = ~channel.opened /\ NoFlags.bNetInitial = FALSE
    BY DEF CurrentFlags, NoFlags
  <2>3. ~channel.opened => sending.RepFlags = NoFlags
    BY DEF IInv, Unopened
  <2> QED BY <2>1, <2>2, <2>3
<1>6. /\ sending.NumNaks = 0 /\ sending.LastChangelistIndex = sh.HistoryEnd
  BY <1>3, <1>4 DEF NothingToDo
<1>7. sh.HistoryEnd = shared.HistoryEnd
  <2>1. sending.LastChangelistIndex <= shared.HistoryEnd /\ shared.HistoryEnd <= sh.HistoryEnd
        /\ shared.HistoryEnd \in Nat /\ sh.HistoryEnd \in Nat
    BY <1>1, <1>2, ValuesTyped DEF Compares, Advanced, SharedType
  <2> QED BY <1>6, <2>1
<1>8. PICK n \in Nat : n = Len(sending.history) /\ DOMAIN sending.history = 1 .. n
  BY HistoryExact
<1>9. Naks(sending.history) = {}
  <2>1. Naks(sending.history) \subseteq 1 .. n
    BY <1>8 DEF Naks
  <2>2. IsFiniteSet(1 .. n)
    BY FS_Interval
  <2>3. IsFiniteSet(Naks(sending.history))
    BY <2>1, <2>2, FS_Subset
  <2> QED BY <1>6, <2>3, HistoryExact, FS_EmptySet
<1>10. PICK released : released = {i \in DOMAIN sending.history : network.OutAckPacketId >= sending.history[i].Last}
  OBVIOUS
<1>11. /\ released \subseteq DOMAIN sending.history /\ First(released)
  BY <1>10, AcknowledgedFirst DEF First
<1>12. PICK r : r = Housekept(q, released)
  OBVIOUS
<1>13. Remaining(q, released, r)
  <2>1. q.NumNaks = Cardinality(Naks(q.history)) /\ Naks(q.history) \subseteq released
        /\ released \subseteq DOMAIN q.history
    BY <1>4, <1>9, <1>11, HistoryExact
  <2> QED BY <1>4, <1>11, <1>12, <2>1, HousekeptExact
<1>14. PICK m \in 0 .. n :
           /\ released = 1 .. m
           /\ r \in SendingType /\ r.NumNaks = 0
           /\ Len(r.history) = n - m
           /\ KeptItems(r.history, n, m)
           /\ r = WithHistory(q, r.history, 0)
  BY <1>4, <1>8, <1>13 DEF Remaining, KeptItems
<1>15. /\ r.InactiveChangelist = sending.InactiveChangelist
       /\ r.InactiveParents = sending.InactiveParents /\ r.RepFlags = sending.RepFlags
       /\ r.PreOpenAckHistory = sending.PreOpenAckHistory
       /\ r.LastChangelistIndex = sending.LastChangelistIndex
       /\ r.bOpenAckedCalled = q.bOpenAckedCalled
  <2>1. PICK h : h = r.history
    OBVIOUS
  <2>2. r = [q EXCEPT !.history = h, !.NumNaks = 0]
    BY <1>14, <2>1 DEF WithHistory
  <2> QED BY <1>4, <2>2 DEF SendingType
<1>16. sending' = [r EXCEPT !.LastCompareIndex = sh.CompareIndex, !.bLastUpdateEmpty = TRUE]
  <2>1. released = {i \in DOMAIN q.history : network.OutAckPacketId >= q.history[i].Last}
    BY <1>4, <1>10
  <2>2. sending' = Idle(q, sh)
    BY <1>3
  <2> QED BY <1>12, <2>1, <2>2 DEF Idle
<1>17. sh.CompareIndex \in 0 .. 2
  BY <1>2 DEF Advanced, SharedType
<1>18. /\ sending' \in SendingType /\ sending'.history = r.history /\ sending'.NumNaks = 0
       /\ sending'.InactiveChangelist = r.InactiveChangelist
       /\ sending'.InactiveParents = r.InactiveParents /\ sending'.RepFlags = r.RepFlags
       /\ sending'.PreOpenAckHistory = r.PreOpenAckHistory
       /\ sending'.LastChangelistIndex = r.LastChangelistIndex
       /\ sending'.bOpenAckedCalled = r.bOpenAckedCalled
  BY <1>14, <1>16, <1>17 DEF SendingType
<1>19. ASSUME NEW p \in Prop PROVE Sent(sending', sh, p, n - m)
  <2>1. ~InLists(sh, sending.LastChangelistIndex, p)
    <3>1. sh.HistoryEnd \in Nat /\ sh.HistoryStart \in Nat
      BY <1>2 DEF Advanced, SharedType
    <3> QED BY <1>6, <3>1 DEF InLists
  <2>2. \A i \in 1 .. m : ~sending.history[i].Resend /\ network.OutAckPacketId >= sending.history[i].Last
    <3>1. \A i \in 1 .. m : i \in DOMAIN sending.history /\ network.OutAckPacketId >= sending.history[i].Last
      BY <1>10, <1>14
    <3>2. \A i \in DOMAIN sending.history : ~sending.history[i].Resend
      BY <1>9 DEF Naks
    <3> QED BY <3>1, <3>2
  <2>3. \A i \in 1 .. n - m : sending'.history[i] = sending.history[m + i] /\ ~sending.history[m + i].Resend
    BY <1>14, <1>18 DEF KeptItems
  <2>4. PICK changed : changed = {}
    OBVIOUS
  <2>5. InLists(sh, sending.LastChangelistIndex, p) => p \in changed
    BY <2>1
  <2>6. p \in sending.InactiveChangelist \cup sending.PreOpenAckHistory =>
             p \in changed \cup sending'.InactiveChangelist \cup sending'.PreOpenAckHistory
    BY <1>15, <1>18
  <2>7. \A i \in 1 .. m : p \in sending.history[i].Changed =>
             \/ p \in changed
             \/ ~sending.history[i].Resend /\ network.OutAckPacketId >= sending.history[i].Last
    BY <2>2
  <2>8. PICK s : s = sending'
    OBVIOUS
  <2>9. /\ p \in sending.InactiveChangelist \cup sending.PreOpenAckHistory =>
             p \in changed \cup s.InactiveChangelist \cup s.PreOpenAckHistory
        /\ \A i \in 1 .. n - m : s.history[i] = sending.history[m + i] /\ ~sending.history[m + i].Resend
    BY <2>3, <2>6, <2>8
  <2>10. p \in changed \/ Sent(s, sh, p, n - m)
    BY <1>2, <1>5, <1>8, <2>5, <2>7, <2>9, SentOrChanged
  <2> QED BY <2>4, <2>8, <2>10
<1>20. /\ sending'.InactiveParents = InactiveUnder(sending'.RepFlags)
       /\ sending'.InactiveChangelist \subseteq sending'.InactiveParents
  BY <1>5, <1>15, <1>18 DEF IInv, Activity
<1>21. sending'.bOpenAckedCalled => channel.OpenAcked
  BY <1>4, <1>15, <1>18
<1>22. /\ Len(sending'.history) = n - m /\ KeptItems(sending'.history, n, m)
       /\ sending'.LastChangelistIndex = sh.HistoryEnd
  BY <1>6, <1>14, <1>15, <1>18
<1> QED BY <1>2, <1>5, <1>8, <1>18, <1>19, <1>20, <1>21, <1>22, QuietStep

\* With m of the n items released, s has what is to be sent as its newest item,
\* and everything else on its way.
Replicates(s, sh, flags, changed, inactive, n, m) ==
    /\ s \in SendingType /\ s.NumNaks = 0 /\ KeptItems(s.history, n, m)
    /\ n - m + 1 < MAX_SENT_HISTORY
    /\ IF changed \subseteq inactive THEN Len(s.history) = n - m
       ELSE /\ Len(s.history) = n - m + 1
            /\ s.history[n - m + 1] = Item(changed \ inactive)
    /\ s.RepFlags = flags /\ s.InactiveParents = inactive
    /\ s.InactiveChangelist \subseteq inactive
    /\ s.LastChangelistIndex = sh.HistoryEnd
    /\ s.bLastUpdateEmpty = (changed \subseteq inactive)
    /\ s.bOpenAckedCalled => channel.OpenAcked
    /\ \A p \in Prop : p \in changed \ inactive \/ Sent(s, sh, p, n - m)

LEMMA ReplicatedSent ==
  ASSUME IInv, ~Paused, NEW sh, Advanced(sh), NEW flags \in FlagsType,
         NEW changed, changed = Changed(Refreshed, sh, flags),
         NEW inactive, inactive = InactiveUnder(flags),
         NEW s, s = Replicated(Refreshed, sh, flags, changed, inactive),
         NEW n \in Nat, n = Len(sending.history)
  PROVE  \E m \in 0 .. n : Replicates(s, sh, flags, changed, inactive, n, m)
<1>1. /\ changed \in SUBSET Prop
      /\ \A p \in Prop : InLists(sh, sending.LastChangelistIndex, p) => p \in changed
      /\ channel.opened => \A p \in sending.InactiveChangelist : p \in inactive \/ p \in changed
      /\ \A i \in Released(Refreshed) : Again(Refreshed, i) => sending.history[i].Changed \subseteq changed
      /\ Refreshed.bOpenAckedCalled => sending.PreOpenAckHistory \subseteq changed
  BY ChangedExact
<1>2. inactive \in SUBSET Prop
  BY DEF InactiveUnder
<1>3. PICK m \in 0 .. n : Outcome(s, sh, flags, changed, inactive, n, m)
  BY <1>1, <1>2, ReplicatedExact
<1>4. KeptItems(s.history, n, m)
  BY <1>3 DEF Outcome, KeptItems
<1>5. ASSUME NEW p \in Prop PROVE p \in changed \ inactive \/ Sent(s, sh, p, n - m)
  <2>1. CASE p \in changed
    BY <1>3, <2>1 DEF Outcome, Sent
  <2>2. CASE ~channel.opened /\ p \notin changed
    <3>1. ~InLists(sh, 0, p)
      BY <1>1, <2>2 DEF IInv, Unopened
    <3>2. shared.StaticBuffer[p] # 0 => InLists(shared, 0, p)
      BY ListsAreIn DEF IInv, HistoryAgrees, TypeOK, Compares
    <3>3. InLists(shared, 0, p) \/ sh.StaticBuffer[p] # shared.StaticBuffer[p] => InLists(sh, 0, p)
      <4>1. 0 <= shared.HistoryEnd
        BY ValuesTyped DEF IInv, HistoryAgrees
      <4> QED BY <4>1 DEF Advanced
    <3>4. shared.StaticBuffer[p] = 0 /\ sh.StaticBuffer[p] = 0
      BY <3>1, <3>2, <3>3
    <3>5. client.value[p] \in Nat /\ client.value[p] <= shared.StaticBuffer[p]
      BY ValuesTyped DEF IInv, HistoryAgrees, NothingNewer, Older
    <3>6. client.value[p] = 0
      BY <3>4, <3>5
    <3> QED BY <3>4, <3>6 DEF Sent
  <2>3. CASE channel.opened /\ p \notin changed
    <3>1. p \in sending.InactiveChangelist \cup sending.PreOpenAckHistory =>
             p \in changed \cup s.InactiveChangelist \cup s.PreOpenAckHistory
      BY <1>1, <1>3, <2>3 DEF Outcome
    <3>2. ASSUME NEW i \in 1 .. m, p \in sending.history[i].Changed
          PROVE  ~sending.history[i].Resend /\ network.OutAckPacketId >= sending.history[i].Last
      <4>1. i \in Released(Refreshed) /\ ~Again(Refreshed, i)
        BY <1>1, <1>3, <2>3, <3>2 DEF Outcome
      <4>2. network.OutAckPacketId >= sending.history[i].Last
        BY <4>1, ReleasedFirst
      <4>3. ~sending.history[i].Resend
        BY <4>1, RefreshedExact DEF Again
      <4> QED BY <4>2, <4>3
    <3>3. \A i \in 1 .. n - m : s.history[i] = sending.history[m + i] /\ ~sending.history[m + i].Resend
      BY <1>3 DEF Outcome
    <3>4. InLists(sh, sending.LastChangelistIndex, p) => p \in changed
      BY <1>1
    <3> QED BY <2>3, <3>1, <3>2, <3>3, <3>4, SentOrChanged
  <2> QED BY <2>1, <2>2, <2>3
<1>6. s.bOpenAckedCalled => channel.OpenAcked
  BY <1>3, RefreshedExact DEF Outcome
<1> QED BY <1>3, <1>4, <1>5, <1>6 DEF Outcome, Replicates

LEMMA FlagsTyped ==
  ASSUME IInv
  PROVE  CurrentFlags \in FlagsType
<1>1. channel.opened \in BOOLEAN /\ object.bNetOwner \in BOOLEAN
  BY DEF IInv, HistoryAgrees, TypeOK, ChannelType, ObjectType
<1> QED BY <1>1 DEF CurrentFlags, FlagsType

LEMMA SilentStep ==
  ASSUME IInv, ~Paused, channel.opened, NEW sh, Advanced(sh),
         shared' = [sh EXCEPT !.comparedThisFrame = FALSE],
         NEW changed, changed = Changed(Refreshed, sh, CurrentFlags),
         NEW inactive, inactive = InactiveUnder(CurrentFlags), changed \subseteq inactive,
         sending' = Replicated(Refreshed, sh, CurrentFlags, changed, inactive),
         channel' = Unpaused,
         object' = [object EXCEPT !.dirty = {}], UNCHANGED <<network, client>>
  PROVE  IInv'
<1>1. PICK flags \in FlagsType : flags = CurrentFlags
  BY FlagsTyped
<1>2. PICK n \in Nat : n = Len(sending.history)
  BY HistoryExact
<1>3. PICK s : s = sending'
  OBVIOUS
<1>4. s = Replicated(Refreshed, sh, flags, changed, inactive)
  BY <1>1, <1>3
<1>5. PICK m \in 0 .. n : Replicates(s, sh, flags, changed, inactive, n, m)
  BY <1>1, <1>2, <1>4, ReplicatedSent
<1>6. Len(s.history) = n - m /\ \A p \in Prop : Sent(s, sh, p, n - m)
  BY <1>5 DEF Replicates
<1>7. s.InactiveParents = InactiveUnder(s.RepFlags) /\ s.InactiveChangelist \subseteq s.InactiveParents
  BY <1>1, <1>5 DEF Replicates
<1>8. /\ s \in SendingType /\ s.NumNaks = 0 /\ KeptItems(s.history, n, m)
      /\ s.LastChangelistIndex = sh.HistoryEnd /\ (s.bOpenAckedCalled => channel.OpenAcked)
  BY <1>5 DEF Replicates
<1> QED BY <1>2, <1>3, <1>6, <1>7, <1>8, QuietStep

-----------------------------------------------------------------------------
(* The bunches of an update                                                *)

\* B are the n bunches of an update with these values.
Parts(B, n, values, reliable, open, before) ==
    /\ B \in Seq(BunchType) /\ Len(B) = n
    /\ \A j \in 1 .. n :
         /\ B[j].bReliable = reliable /\ B[j].bOpen = open
         /\ B[j].initial = (j = 1) /\ B[j].final = (j = n)
         /\ B[j].values = values /\ B[j].ChSequence = before + j

LEMMA BunchesExact ==
  ASSUME channel.OutReliable \in Nat, network.OutPacketId \in Nat,
         NEW S \in SUBSET Prop, NEW values \in [S -> Value], NEW size, NEW open \in BOOLEAN,
         NEW reliable \in BOOLEAN, reliable <=> open \/ size = "large",
         NEW before \in Nat, reliable => before = channel.OutReliable,
         ~reliable => before = network.OutPacketId,
         NEW B, B = BunchesOf(values, size, open)
  PROVE  \E n \in {1, 2} : Parts(B, n, values, reliable, open, before)
<1>1. PICK n \in {1, 2} : n = IF size = "whole" THEN 1 ELSE 2
  OBVIOUS
<1>2. B = [i \in 1 .. n |->
          [bReliable |-> reliable, ChSequence |-> before + i,
           bOpen |-> open, initial |-> i = 1, final |-> i = n, values |-> values]]
  <2>1. B = [i \in 1 .. n |->
          [bReliable |-> reliable,
           ChSequence |-> IF reliable THEN channel.OutReliable + i ELSE network.OutPacketId + i,
           bOpen |-> open, initial |-> i = 1, final |-> i = n, values |-> values]]
    BY <1>1 DEF BunchesOf
  <2>2. CASE reliable
    BY <2>1, <2>2
  <2>3. CASE ~reliable
    BY <2>1, <2>3
  <2> QED BY <2>2, <2>3
<1>3. ASSUME NEW j \in 1 .. n
      PROVE  /\ B[j] \in BunchType
             /\ B[j].bReliable = reliable /\ B[j].bOpen = open
             /\ B[j].initial = (j = 1) /\ B[j].final = (j = n)
             /\ B[j].values = values /\ B[j].ChSequence = before + j
  <2>1. PICK initial \in BOOLEAN : initial = (j = 1)
    OBVIOUS
  <2>2. PICK final \in BOOLEAN : final = (j = n)
    OBVIOUS
  <2>3. PICK number \in Nat : number = before + j
    OBVIOUS
  <2>4. B[j] = [bReliable |-> reliable, ChSequence |-> number,
                bOpen |-> open, initial |-> initial, final |-> final, values |-> values]
    BY <1>2, <2>1, <2>2, <2>3
  <2>5. values \in UNION {[T -> Value] : T \in SUBSET Prop}
    OBVIOUS
  <2> QED BY <2>1, <2>2, <2>3, <2>4, <2>5 DEF BunchType
<1>4. B \in Seq(BunchType) /\ Len(B) = n
  <2>1. PICK b : b = [i \in 1 .. n |-> B[i]]
    OBVIOUS
  <2>2. B = b
    BY <1>2, <2>1
  <2>3. b \in Seq(BunchType) /\ Len(b) = n
    BY <1>3, <2>1
  <2> QED BY <2>2, <2>3
<1> QED BY <1>3, <1>4 DEF Parts

WithPackets(net, n, B) ==
    [net EXCEPT !.OutPacketId = net.OutPacketId + n, !.packets = net.packets \o InFlight(B)]

WithBunches(c, n, B, paused) ==
    [c EXCEPT !.opened = TRUE, !.bPausedUntilReliableACK = paused,
              !.OutRec = c.OutRec \o Kept(B), !.OutReliable = c.OutReliable + n]

\* Packets in which n bunches follow on those under way.
Followed(net, n, B) ==
    LET N == Len(network.packets)
    IN /\ net \in NetworkType
       /\ net.OutPacketId = network.OutPacketId + n
       /\ net.OutAckPacketId = network.OutAckPacketId
       /\ net.OutPacketId - Len(net.packets) = Answered
       /\ Len(net.packets) = N + n /\ DOMAIN net.packets = 1 .. N + n
       /\ \A k \in 1 .. N : net.packets[k] = network.packets[k]
       /\ \A j \in 1 .. n : /\ net.packets[N + j].bunch = B[j]
                            /\ net.packets[N + j].fate = "sent"

LEMMA InFlightExact ==
  ASSUME IInv, NEW n \in {1, 2}, NEW B \in Seq(BunchType), Len(B) = n,
         network' = WithPackets(network, n, B)
  PROVE  Followed(network', n, B)
<1>1. PICK N \in Nat : N = Len(network.packets)
  BY NetworkExact
<1>2. PICK old : old = network.packets
  OBVIOUS
<1>3. old \in Seq(PacketType) /\ Len(old) = N /\ network \in NetworkType
      /\ network.OutPacketId \in Nat /\ Answered = network.OutPacketId - N
  BY <1>1, <1>2, NetworkExact DEF Answered
<1>4. PICK new : new = InFlight(B)
  OBVIOUS
<1>5. /\ new \in Seq(PacketType) /\ Len(new) = n
      /\ \A j \in 1 .. n : new[j].bunch = B[j] /\ new[j].fate = "sent"
  <2>1. DOMAIN B = 1 .. n /\ \A j \in 1 .. n : B[j] \in BunchType
    OBVIOUS
  <2>2. new = [j \in 1 .. n |-> [bunch |-> B[j], fate |-> "sent"]]
    BY <1>4, <2>1 DEF InFlight
  <2>3. \A j \in 1 .. n : new[j] \in PacketType /\ new[j].bunch = B[j] /\ new[j].fate = "sent"
    BY <2>1, <2>2 DEF PacketType
  <2>4. new = [j \in 1 .. n |-> new[j]]
    BY <2>2
  <2> QED BY <2>3, <2>4
<1>6. PICK all : all = old \o new
  OBVIOUS
<1>7. /\ all \in Seq(PacketType) /\ Len(all) = N + n /\ DOMAIN all = 1 .. N + n
      /\ \A k \in 1 .. N : all[k] = old[k]
      /\ \A j \in 1 .. n : all[N + j] = new[j]
  BY <1>3, <1>5, <1>6
<1>8. PICK id \in Nat : id = network.OutPacketId + n
  BY <1>3
<1>9. network' = [network EXCEPT !.OutPacketId = id, !.packets = all]
  BY <1>2, <1>4, <1>6, <1>8 DEF WithPackets
<1>10. /\ network' \in NetworkType /\ network'.packets = all /\ network'.OutPacketId = id
       /\ network'.OutAckPacketId = network.OutAckPacketId
  BY <1>3, <1>7, <1>9 DEF NetworkType
<1>11. network'.OutPacketId - Len(network'.packets) = Answered
  <2>1. Len(network'.packets) = N + n /\ network'.OutPacketId = network.OutPacketId + n
    BY <1>7, <1>8, <1>10
  <2>2. network.OutPacketId \in Nat /\ Answered = network.OutPacketId - N
    BY <1>3
  <2> QED BY <2>1, <2>2
<1>12. \A k \in 1 .. N : network'.packets[k] = network.packets[k]
  BY <1>2, <1>7, <1>10
<1>13. \A j \in 1 .. n : /\ network'.packets[N + j].bunch = B[j]
                         /\ network'.packets[N + j].fate = "sent"
  BY <1>5, <1>7, <1>10
<1> QED BY <1>1, <1>7, <1>8, <1>10, <1>11, <1>12, <1>13 DEF Followed

\* The reliable bunches, with n more that are not acknowledged.
Extended(c, n, B, paused) ==
    LET L == Len(channel.OutRec)
    IN /\ c \in ChannelType
       /\ c.opened /\ c.OpenAcked = channel.OpenAcked
       /\ c.bPausedUntilReliableACK = paused
       /\ c.OutReliable = channel.OutReliable + n
       /\ Len(c.OutRec) = L + n /\ DOMAIN c.OutRec = 1 .. L + n
       /\ \A i \in 1 .. L : c.OutRec[i] = channel.OutRec[i]
       /\ \A j \in 1 .. n : /\ c.OutRec[L + j].bunch = B[j]
                            /\ c.OutRec[L + j].PacketId = network.OutPacketId + j
                            /\ ~c.OutRec[L + j].ReceivedAck

LEMMA KeptExact ==
  ASSUME IInv, ~Paused, NEW n \in {1, 2}, NEW B \in Seq(BunchType), Len(B) = n,
         NEW paused \in BOOLEAN,
         channel' = WithBunches(Unpaused, n, B, paused)
  PROVE  Extended(channel', n, B, paused)
<1>1. PICK c : c = Unpaused
  OBVIOUS
<1>2. /\ c \in ChannelType /\ c.OpenAcked = channel.OpenAcked
      /\ c.OutReliable = channel.OutReliable /\ c.OutRec = channel.OutRec
  BY <1>1, UnpausedExact
<1>3. PICK L \in Nat : L = Len(channel.OutRec)
  BY ReliablePlaces
<1>4. PICK old : old = c.OutRec
  OBVIOUS
<1>5. old \in Seq(KeptType) /\ Len(old) = L /\ c.OutReliable \in Nat
  BY <1>2, <1>3, <1>4 DEF ChannelType
<1>6. PICK new : new = Kept(B)
  OBVIOUS
<1>7. /\ new \in Seq(KeptType) /\ Len(new) = n
      /\ \A j \in 1 .. n : /\ new[j].bunch = B[j] /\ new[j].PacketId = network.OutPacketId + j
                           /\ ~new[j].ReceivedAck
  <2>1. DOMAIN B = 1 .. n /\ \A j \in 1 .. n : B[j] \in BunchType
    OBVIOUS
  <2>2. new = [j \in 1 .. n |-> [bunch |-> B[j], PacketId |-> network.OutPacketId + j,
                                 ReceivedAck |-> FALSE]]
    BY <1>6, <2>1 DEF Kept
  <2>3. ASSUME NEW j \in 1 .. n
        PROVE  /\ new[j] \in KeptType /\ new[j].bunch = B[j]
               /\ new[j].PacketId = network.OutPacketId + j /\ ~new[j].ReceivedAck
    <3>1. PICK id \in Nat : id = network.OutPacketId + j
      BY NetworkExact
    <3>2. new[j] = [bunch |-> B[j], PacketId |-> id, ReceivedAck |-> FALSE]
      BY <2>2, <3>1
    <3> QED BY <2>1, <3>1, <3>2 DEF KeptType
  <2>4. new = [j \in 1 .. n |-> new[j]]
    BY <2>2
  <2> QED BY <2>3, <2>4
<1>8. PICK all : all = old \o new
  OBVIOUS
<1>9. /\ all \in Seq(KeptType) /\ Len(all) = L + n /\ DOMAIN all = 1 .. L + n
      /\ \A i \in 1 .. L : all[i] = old[i]
      /\ \A j \in 1 .. n : all[L + j] = new[j]
  BY <1>5, <1>7, <1>8
<1>10. PICK number \in Nat : number = c.OutReliable + n
  BY <1>5
<1>11. channel' = [c EXCEPT !.opened = TRUE, !.bPausedUntilReliableACK = paused,
                            !.OutRec = all, !.OutReliable = number]
  BY <1>1, <1>4, <1>6, <1>8, <1>10 DEF WithBunches
<1>12. /\ channel' \in ChannelType /\ channel'.opened /\ channel'.OpenAcked = c.OpenAcked
       /\ channel'.bPausedUntilReliableACK = paused
       /\ channel'.OutReliable = number /\ channel'.OutRec = all
  BY <1>2, <1>9, <1>11 DEF ChannelType
<1> QED BY <1>2, <1>3, <1>4, <1>7, <1>9, <1>10, <1>12 DEF Extended

\* values are those of buf, and nothing the client has or gets is newer.
Newest(values, buf) ==
    /\ buf \in [Prop -> Nat]
    /\ \A p \in DOMAIN values : p \in Prop /\ values[p] = buf[p]
    /\ Older(client.value, buf)
    /\ \A i \in DOMAIN channel.OutRec : Older(Bunch(i).values, buf)
    /\ \A k \in DOMAIN network.packets : Older(Packet(k).bunch.values, buf)

LEMMA OlderThanNewest ==
  ASSUME NEW values, NEW buf, Newest(values, buf)
  PROVE  /\ Older(values, values) /\ Older(values, buf) /\ Older(client.value, values)
         /\ \A i \in DOMAIN channel.OutRec : Older(Bunch(i).values, values)
         /\ \A k \in DOMAIN network.packets : Older(Packet(k).bunch.values, values)
<1>1. ASSUME NEW v, Older(v, buf) PROVE Older(v, values)
  BY <1>1 DEF Newest, Older
<1>2. Older(values, values) /\ Older(values, buf)
  BY DEF Newest, Older
<1> QED BY <1>1, <1>2 DEF Newest

LEMMA SentReliably ==
  ASSUME IInv, ~Paused, NEW n \in {1, 2}, NEW B, NEW values, NEW buf, Newest(values, buf),
         Parts(B, n, values, TRUE, ~channel.opened, channel.OutReliable),
         NEW paused \in BOOLEAN, ~channel.opened \/ (paused /\ ~sending'.bLastUpdateEmpty),
         network' = WithPackets(network, n, B),
         channel' = WithBunches(Unpaused, n, B, paused),
         UNCHANGED client
  PROVE  /\ ReliableInOrder' /\ PacketsInOrder' /\ UpdatesInBetween'
         /\ ClientInOrder(client)' /\ Queue'
         /\ \A i \in DOMAIN channel'.OutRec : Older(Bunch(i)'.values, buf)
         /\ \A k \in DOMAIN network'.packets : Older(Packet(k)'.bunch.values, buf)
<1>1. PICK L : L = Len(channel.OutRec)
  OBVIOUS
<1>2. PICK F : F = Finished
  OBVIOUS
<1>3. /\ L \in Nat /\ DOMAIN channel.OutRec = 1 .. L
      /\ F \in Nat /\ channel.OutReliable = F + L
      /\ \A i \in 1 .. L : Bunch(i).ChSequence = F + i /\ Bunch(i) \in BunchType
  BY <1>1, <1>2, ReliablePlaces
<1>4. PICK N : N = Len(network.packets)
  OBVIOUS
<1>5. PICK A : A = Answered
  OBVIOUS
<1>6. /\ N \in Nat /\ DOMAIN network.packets = 1 .. N /\ A \in Nat
      /\ network.OutPacketId = A + N /\ network.OutPacketId \in Nat
  BY <1>4, <1>5, NetworkExact
<1>7. \A i \in 1 .. L : Bunch(i).bOpen
  BY <1>3, UnpausedExact
<1>8. ~channel.opened => L = 0 /\ N = 0 /\ F = 0 /\ ~client.OpenAcked
  BY <1>1, <1>3, <1>4 DEF IInv, Unopened
<1>9. B \in Seq(BunchType) /\ Len(B) = n
  BY DEF Parts
<1>10. \A j \in 1 .. n :
         /\ B[j].bReliable /\ B[j].bOpen = ~channel.opened
         /\ B[j].initial <=> j = 1
         /\ B[j].final <=> j = n
         /\ B[j].values = values /\ B[j].ChSequence = F + L + j
  BY <1>3 DEF Parts
<1>11. /\ channel'.opened /\ channel'.OpenAcked = channel.OpenAcked
       /\ channel'.bPausedUntilReliableACK = paused
       /\ channel'.OutReliable = F + L + n
       /\ Len(channel'.OutRec) = L + n /\ DOMAIN channel'.OutRec = 1 .. L + n
       /\ \A i \in 1 .. L : channel'.OutRec[i] = channel.OutRec[i]
       /\ \A j \in 1 .. n : /\ channel'.OutRec[L + j].bunch = B[j]
                            /\ channel'.OutRec[L + j].PacketId = A + N + j
                            /\ ~channel'.OutRec[L + j].ReceivedAck
  <2>1. /\ channel'.opened /\ channel'.OpenAcked = channel.OpenAcked
        /\ channel'.bPausedUntilReliableACK = paused
        /\ channel'.OutReliable = channel.OutReliable + n
        /\ Len(channel'.OutRec) = L + n /\ DOMAIN channel'.OutRec = 1 .. L + n
        /\ \A i \in 1 .. L : channel'.OutRec[i] = channel.OutRec[i]
        /\ \A j \in 1 .. n : /\ channel'.OutRec[L + j].bunch = B[j]
                             /\ channel'.OutRec[L + j].PacketId = network.OutPacketId + j
                             /\ ~channel'.OutRec[L + j].ReceivedAck
    <3>1. Extended(channel', n, B, paused)
      BY <1>9, KeptExact
    <3> QED BY <1>1, <3>1 DEF Extended
  <2>2. \A j \in 1 .. n : network.OutPacketId + j = A + N + j
    BY <1>6
  <2>3. channel.OutReliable + n = F + L + n
    BY <1>3
  <2> QED BY <2>1, <2>2, <2>3
<1>12. /\ Answered' = A
       /\ Len(network'.packets) = N + n /\ DOMAIN network'.packets = 1 .. N + n
       /\ \A k \in 1 .. N : network'.packets[k] = network.packets[k]
       /\ \A j \in 1 .. n : /\ network'.packets[N + j].bunch = B[j]
                            /\ network'.packets[N + j].fate = "sent"
  <2>1. Followed(network', n, B)
    BY <1>9, InFlightExact
  <2>2. Answered' = network'.OutPacketId - Len(network'.packets)
    BY DEF Answered
  <2> QED BY <1>4, <1>5, <2>1, <2>2 DEF Followed
<1>13. /\ \A i \in 1 .. L : Bunch(i)' = Bunch(i)
       /\ \A j \in 1 .. n : Bunch(L + j)' = B[j]
       /\ \A k \in 1 .. N : Packet(k)' = Packet(k)
       /\ \A j \in 1 .. n : Packet(N + j)'.bunch = B[j] /\ Packet(N + j)'.fate = "sent"
  BY <1>11, <1>12 DEF Bunch, Packet
<1>14. Finished' = F
  BY <1>3, <1>11 DEF Finished
<1>15. /\ \A i \in 1 .. L + n : i \in 1 .. L \/ \E j \in 1 .. n : i = L + j
       /\ \A k \in 1 .. N + n : k \in 1 .. N \/ \E j \in 1 .. n : k = N + j
  <2>1. ASSUME NEW M \in Nat, NEW i \in 1 .. M + n, i \notin 1 .. M PROVE \E j \in 1 .. n : i = M + j
    <3>1. i - M \in 1 .. n /\ i = M + (i - M)
      BY <2>1
    <3> QED BY <3>1
  <2> QED BY <1>3, <1>6, <2>1
<1>16. /\ Older(values, values) /\ Older(values, buf) /\ Older(client.value, values)
       /\ \A i \in 1 .. L : Older(Bunch(i).values, values) /\ Older(Bunch(i).values, buf)
       /\ \A k \in 1 .. N : Older(Packet(k).bunch.values, values) /\ Older(Packet(k).bunch.values, buf)
  BY <1>3, <1>6, OlderThanNewest DEF Newest
<1>24. \A k \in 1 .. N + n : ~Packet(k)'.bunch.bReliable => k \in 1 .. N /\ Packet(k)' = Packet(k)
  BY <1>10, <1>13, <1>15
<1>17. ReliableInOrder'
  <2>1. ASSUME NEW i \in 1 .. L
        PROVE  /\ Bunch(i)'.bReliable /\ Bunch(i)'.ChSequence = F + i
               /\ Bunch(i)'.initial \/ Bunch(i)'.final
               /\ Bunch(i)'.bOpen
               /\ \A j \in 1 .. i - 1 : /\ Bunch(i)'.bOpen => Bunch(j)'.bOpen
                                        /\ Older(Bunch(j)'.values, Bunch(i)'.values)
               /\ i > 1 /\ ~Bunch(i)'.initial => /\ Bunch(i - 1)'.initial /\ ~Bunch(i - 1)'.final
                                                 /\ Bunch(i)'.bOpen = Bunch(i - 1)'.bOpen
               /\ i > 1 /\ Bunch(i)'.initial => Bunch(i - 1)'.final /\ ~Bunch(i)'.bOpen
    <3>1. Bunch(i)' = Bunch(i) /\ \A j \in 1 .. i - 1 : Bunch(j)' = Bunch(j) /\ j \in 1 .. L
      BY <1>3, <1>13
    <3>2. i > 1 => Bunch(i - 1)' = Bunch(i - 1)
      BY <1>3, <3>1
    <3>3. /\ Bunch(i).bReliable /\ Bunch(i).ChSequence = F + i
          /\ Bunch(i).initial \/ Bunch(i).final
          /\ \A j \in 1 .. i - 1 : Older(Bunch(j).values, Bunch(i).values)
          /\ i > 1 /\ ~Bunch(i).initial => /\ Bunch(i - 1).initial /\ ~Bunch(i - 1).final
                                           /\ Bunch(i).bOpen = Bunch(i - 1).bOpen
          /\ i > 1 /\ Bunch(i).initial => Bunch(i - 1).final /\ ~Bunch(i).bOpen
      BY <1>2, <1>3 DEF IInv, ReliableInOrder
    <3> QED BY <1>7, <3>1, <3>2, <3>3
  <2>2. ASSUME NEW m \in 1 .. n, NEW i, i = L + m
        PROVE  /\ Bunch(i)'.bReliable /\ Bunch(i)'.ChSequence = F + i
               /\ Bunch(i)'.initial \/ Bunch(i)'.final
               /\ Bunch(i)'.bOpen \/ (channel'.bPausedUntilReliableACK /\ ~sending'.bLastUpdateEmpty)
               /\ \A j \in 1 .. i - 1 : /\ Bunch(i)'.bOpen => Bunch(j)'.bOpen
                                        /\ Older(Bunch(j)'.values, Bunch(i)'.values)
               /\ i > 1 /\ ~Bunch(i)'.initial => /\ Bunch(i - 1)'.initial /\ ~Bunch(i - 1)'.final
                                                 /\ Bunch(i)'.bOpen = Bunch(i - 1)'.bOpen
               /\ i > 1 /\ Bunch(i)'.initial => Bunch(i - 1)'.final /\ ~Bunch(i)'.bOpen
    <3>1. Bunch(i)' = B[m]
      BY <1>13, <2>2
    <3>2. /\ B[m].bReliable /\ B[m].bOpen = ~channel.opened
          /\ B[m].initial <=> m = 1
          /\ B[m].final <=> m = n
          /\ B[m].values = values /\ B[m].ChSequence = F + L + m
      BY <1>10
    <3>3. Bunch(i)'.bReliable /\ Bunch(i)'.ChSequence = F + i /\ (Bunch(i)'.initial \/ Bunch(i)'.final)
      <4>1. m = 1 \/ m = n
        OBVIOUS
      <4>2. F + L + m = F + i
        BY <1>3, <2>2
      <4> QED BY <3>1, <3>2, <4>1, <4>2
    <3>4. Bunch(i)'.bOpen \/ (channel'.bPausedUntilReliableACK /\ ~sending'.bLastUpdateEmpty)
      BY <1>11, <3>1, <3>2
    <3>5. ASSUME NEW j \in 1 .. i - 1
          PROVE  (Bunch(i)'.bOpen => Bunch(j)'.bOpen) /\ Older(Bunch(j)'.values, Bunch(i)'.values)
      <4>1. j \in 1 .. L + n
        BY <1>3, <2>2
      <4>2. CASE j \in 1 .. L
        <5>1. Bunch(j)' = Bunch(j) /\ Bunch(j).bOpen /\ Older(Bunch(j).values, values)
          BY <1>7, <1>13, <1>16, <4>2
        <5> QED BY <3>1, <3>2, <5>1
      <4>3. ASSUME NEW l \in 1 .. n, j = L + l
            PROVE (Bunch(i)'.bOpen => Bunch(j)'.bOpen) /\ Older(Bunch(j)'.values, Bunch(i)'.values)
        <5>1. Bunch(j)' = B[l] /\ B[l].bOpen = ~channel.opened /\ B[l].values = values
          BY <1>10, <1>13, <4>3
        <5> QED BY <1>16, <3>1, <3>2, <5>1
      <4> QED BY <1>15, <4>1, <4>2, <4>3
    <3>6. CASE m = 1
      <4>1. ASSUME i > 1 PROVE Bunch(i - 1)'.final /\ ~Bunch(i)'.bOpen
        <5>1. i - 1 = L /\ L \in 1 .. L
          BY <1>3, <2>2, <3>6, <4>1
        <5>2. Bunch(L).final
          BY <1>1, <1>3, <5>1 DEF IInv, ReliableInOrder
        <5>3. channel.opened
          BY <1>8, <5>1
        <5> QED BY <1>13, <3>1, <3>2, <5>1, <5>2, <5>3
      <4> QED BY <3>1, <3>2, <3>3, <3>4, <3>5, <3>6, <4>1
    <3>7. CASE m = 2 /\ n = 2
      <4>1. i - 1 = L + 1 /\ 1 \in 1 .. n
        BY <1>3, <2>2, <3>7
      <4>2. Bunch(i - 1)' = B[1] /\ B[1].initial /\ ~B[1].final /\ B[1].bOpen = ~channel.opened
        <5>1. Bunch(L + 1)' = B[1]
          BY <1>13, <4>1
        <5>2. B[1].initial /\ ~B[1].final /\ B[1].bOpen = ~channel.opened
          BY <1>10, <3>7, <4>1
        <5> QED BY <4>1, <5>1, <5>2
      <4> QED BY <3>1, <3>2, <3>3, <3>4, <3>5, <3>7, <4>2
    <3> QED BY <3>6, <3>7
  <2>3. ASSUME NEW i \in DOMAIN channel'.OutRec
        PROVE  /\ Bunch(i)'.bReliable /\ Bunch(i)'.ChSequence = F + i
               /\ Bunch(i)'.initial \/ Bunch(i)'.final
               /\ Bunch(i)'.bOpen \/ (channel'.bPausedUntilReliableACK /\ ~sending'.bLastUpdateEmpty)
               /\ \A j \in 1 .. i - 1 : /\ Bunch(i)'.bOpen => Bunch(j)'.bOpen
                                        /\ Older(Bunch(j)'.values, Bunch(i)'.values)
               /\ i > 1 /\ ~Bunch(i)'.initial => /\ Bunch(i - 1)'.initial /\ ~Bunch(i - 1)'.final
                                                 /\ Bunch(i)'.bOpen = Bunch(i - 1)'.bOpen
               /\ i > 1 /\ Bunch(i)'.initial => Bunch(i - 1)'.final /\ ~Bunch(i)'.bOpen
    <3>1. i \in 1 .. L \/ \E m \in 1 .. n : i = L + m
      BY <1>11, <1>15
    <3> QED BY <2>1, <2>2, <3>1
  <2>4. Len(channel'.OutRec) <= channel'.OutReliable
    BY <1>3, <1>11
  <2>5. Bunch(L + n)'.final
    <3>1. n \in 1 .. n
      OBVIOUS
    <3>2. Bunch(L + n)' = B[n]
      BY <1>13, <3>1
    <3>3. B[n].final
      BY <1>10, <3>1
    <3> QED BY <3>2, <3>3
  <2>6. channel'.OutRec # <<>> => Bunch(Len(channel.OutRec))'.final
    BY <1>11, <2>5
  <2> QED BY <1>14, <2>3, <2>4, <2>6 DEF ReliableInOrder
<1>18. PacketsInOrder'
  <2>1. ASSUME NEW k \in 1 .. N
        PROVE  LET bunch == Packet(k)'.bunch
               IN /\ bunch.bReliable => \E i \in 1 .. L + n : /\ channel'.OutRec[i].PacketId = A + k
                                                              /\ ~channel'.OutRec[i].ReceivedAck
                  /\ ~bunch.bReliable => ~bunch.bOpen /\ (bunch.initial \/ bunch.final)
                  /\ \A l \in 1 .. k - 1 :
                       /\ Packet(k)'.fate # "sent" => Packet(l)'.fate # "sent"
                       /\ ~bunch.bReliable /\ Packet(l)'.bunch.bReliable => Packet(l)'.bunch.bOpen
                       /\ ~bunch.bReliable /\ ~Packet(l)'.bunch.bReliable =>
                            Older(Packet(l)'.bunch.values, bunch.values)
    <3>1. Packet(k)' = Packet(k) /\ \A l \in 1 .. k - 1 : Packet(l)' = Packet(l)
      BY <1>6, <1>13
    <3>2. \A i \in 1 .. L : i \in 1 .. L + n
      BY <1>3
    <3>3. LET bunch == Packet(k).bunch
          IN /\ bunch.bReliable => \E i \in 1 .. L : /\ channel.OutRec[i].PacketId = A + k
                                                     /\ ~channel.OutRec[i].ReceivedAck
             /\ ~bunch.bReliable => ~bunch.bOpen /\ (bunch.initial \/ bunch.final)
             /\ \A l \in 1 .. k - 1 :
                  /\ Packet(k).fate # "sent" => Packet(l).fate # "sent"
                  /\ ~bunch.bReliable /\ Packet(l).bunch.bReliable => Packet(l).bunch.bOpen
                  /\ ~bunch.bReliable /\ ~Packet(l).bunch.bReliable =>
                       Older(Packet(l).bunch.values, bunch.values)
      BY <1>3, <1>5, <1>6 DEF IInv, PacketsInOrder
    <3> QED BY <1>11, <3>1, <3>2, <3>3
  <2>2. ASSUME NEW m \in 1 .. n, NEW k, k = N + m
        PROVE  /\ Packet(k)'.bunch.bReliable /\ Packet(k)'.fate = "sent"
               /\ \E i \in 1 .. L + n : /\ channel'.OutRec[i].PacketId = A + k
                                        /\ ~channel'.OutRec[i].ReceivedAck
    <3>1. L + m \in 1 .. L + n /\ A + k = A + N + m
      BY <1>3, <1>6, <2>2
    <3> QED BY <1>10, <1>11, <1>13, <2>2, <3>1
  <2>3. ASSUME NEW k \in DOMAIN network'.packets
        PROVE  LET bunch == Packet(k)'.bunch
               IN /\ bunch.bReliable => \E i \in DOMAIN channel'.OutRec :
                                           /\ channel'.OutRec[i].PacketId = A + k
                                           /\ ~channel'.OutRec[i].ReceivedAck
                  /\ ~bunch.bReliable => ~bunch.bOpen /\ (bunch.initial \/ bunch.final)
                  /\ \A l \in 1 .. k - 1 :
                       /\ Packet(k)'.fate # "sent" => Packet(l)'.fate # "sent"
                       /\ ~bunch.bReliable /\ Packet(l)'.bunch.bReliable => Packet(l)'.bunch.bOpen
                       /\ ~bunch.bReliable /\ ~Packet(l)'.bunch.bReliable =>
                            Older(Packet(l)'.bunch.values, bunch.values)
    <3>1. k \in 1 .. N \/ \E m \in 1 .. n : k = N + m
      BY <1>12, <1>15
    <3> QED BY <1>11, <2>1, <2>2, <3>1
  <2>4. ASSUME NEW i \in DOMAIN channel'.OutRec, ~channel'.OutRec[i].ReceivedAck
        PROVE  /\ channel'.OutRec[i].PacketId - A \in DOMAIN network'.packets
               /\ Packet(channel.OutRec[i].PacketId - A)'.bunch = Bunch(i)'
    <3>1. i \in 1 .. L \/ \E m \in 1 .. n : i = L + m
      BY <1>11, <1>15
    <3>2. CASE i \in 1 .. L
      <4>1. PICK k : k = channel.OutRec[i].PacketId - A
        OBVIOUS
      <4>2. channel'.OutRec[i] = channel.OutRec[i]
        BY <1>11, <3>2
      <4>3. k \in 1 .. N /\ Packet(k).bunch = Bunch(i)
        BY <1>3, <1>5, <1>6, <2>4, <3>2, <4>1, <4>2 DEF IInv, PacketsInOrder
      <4>4. k = channel'.OutRec[i].PacketId - A /\ k \in DOMAIN network'.packets
        BY <1>6, <1>12, <4>1, <4>2, <4>3
      <4>5. Packet(k)'.bunch = Bunch(i)'
        BY <1>13, <3>2, <4>3
      <4> QED BY <4>4, <4>5 DEF Packet
    <3>3. ASSUME NEW m \in 1 .. n, i = L + m
          PROVE  /\ channel'.OutRec[i].PacketId - A \in DOMAIN network'.packets
                 /\ Packet(channel.OutRec[i].PacketId - A)'.bunch = Bunch(i)'
      <4>1. channel'.OutRec[i].PacketId = A + N + m
        BY <1>11, <3>3
      <4>2. PICK k : k = N + m
        OBVIOUS
      <4>3. k = channel'.OutRec[i].PacketId - A /\ k \in DOMAIN network'.packets
        BY <1>6, <1>12, <4>1, <4>2
      <4>4. Packet(k)'.bunch = B[m] /\ Bunch(i)' = B[m]
        BY <1>13, <3>3, <4>2
      <4> QED BY <4>3, <4>4 DEF Packet
    <3> QED BY <3>1, <3>2, <3>3
  <2> QED BY <1>12, <2>3, <2>4 DEF PacketsInOrder
<1>19. UpdatesInBetween'
  <2>1. ASSUME NEW k \in DOMAIN network'.packets, ~Packet(k)'.bunch.bReliable,
               NEW i \in DOMAIN channel'.OutRec
        PROVE  IF Bunch(i)'.bOpen THEN Older(Bunch(i)'.values, Packet(k)'.bunch.values)
               ELSE Older(Packet(k)'.bunch.values, Bunch(i)'.values)
    <3>1. k \in 1 .. N /\ Packet(k)' = Packet(k)
      BY <1>12, <1>24, <2>1
    <3>2. i \in 1 .. L \/ \E m \in 1 .. n : i = L + m
      BY <1>11, <1>15
    <3>3. CASE i \in 1 .. L
      <4>1. Bunch(i)' = Bunch(i)
        BY <1>13, <3>3
      <4> QED BY <1>3, <1>6, <2>1, <3>1, <3>3, <4>1 DEF IInv, UpdatesInBetween
    <3>4. ASSUME NEW m \in 1 .. n, i = L + m
          PROVE  ~Bunch(i)'.bOpen /\ Older(Packet(k)'.bunch.values, Bunch(i)'.values)
      <4>1. channel.opened
        BY <1>8, <3>1
      <4>2. Bunch(i)' = B[m]
        BY <1>13, <3>4
      <4>3. B[m].bOpen = ~channel.opened /\ B[m].values = values
        BY <1>10
      <4>4. Older(Packet(k)'.bunch.values, values)
        BY <1>16, <3>1
      <4> QED BY <4>1, <4>2, <4>3, <4>4
    <3> QED BY <3>2, <3>3, <3>4
  <2> QED BY <2>1 DEF UpdatesInBetween
<1>20. /\ \A i \in DOMAIN channel'.OutRec : Older(Bunch(i)'.values, buf)
       /\ \A k \in DOMAIN network'.packets : Older(Packet(k)'.bunch.values, buf)
  <2>1. ASSUME NEW i \in DOMAIN channel'.OutRec PROVE Older(Bunch(i)'.values, buf)
    <3>1. i \in 1 .. L \/ \E m \in 1 .. n : i = L + m
      BY <1>11, <1>15
    <3> QED BY <1>10, <1>13, <1>16, <3>1
  <2>2. ASSUME NEW k \in DOMAIN network'.packets PROVE Older(Packet(k)'.bunch.values, buf)
    <3>1. k \in 1 .. N \/ \E m \in 1 .. n : k = N + m
      BY <1>12, <1>15
    <3> QED BY <1>10, <1>13, <1>16, <3>1
  <2> QED BY <2>1, <2>2
<1>21. /\ client.InReliable \in Nat /\ F <= client.InReliable /\ client.InReliable <= F + L
  BY <1>2, <1>3 DEF IInv, HistoryAgrees, TypeOK, ClientType, ClientInOrder
<1>22. ClientInOrder(client)'
  <2>1. ASSUME NEW i \in DOMAIN channel'.OutRec
        PROVE  /\ Bunch(i)'.ChSequence <= client.InReliable /\ Bunch(i)'.final => Older(Bunch(i)'.values, client.value)
               /\ Bunch(i)'.ChSequence > client.InReliable => Older(client.value, Bunch(i)'.values)
               /\ client.OpenAcked /\ Bunch(i)'.bOpen => Bunch(i)'.ChSequence <= client.InReliable
               /\ Bunch(i)'.ChSequence = client.InReliable + 1 /\ ~Bunch(i)'.initial =>
                    /\ client.InPartialBunch # NoPart /\ client.InPartialBunch.bReliable
                    /\ client.InPartialBunch.ChSequence = client.InReliable
    <3>1. i \in 1 .. L \/ \E m \in 1 .. n : i = L + m
      BY <1>11, <1>15
    <3>2. CASE i \in 1 .. L
      <4>1. Bunch(i)' = Bunch(i)
        BY <1>13, <3>2
      <4> QED BY <1>3, <3>2, <4>1 DEF IInv, ClientInOrder
    <3>3. ASSUME NEW m \in 1 .. n, i = L + m
          PROVE  /\ Bunch(i)'.ChSequence > client.InReliable /\ Older(client.value, Bunch(i)'.values)
                 /\ Bunch(i)'.ChSequence = client.InReliable + 1 => Bunch(i)'.initial
                 /\ client.OpenAcked => ~Bunch(i)'.bOpen
                 /\ ~(Bunch(i)'.ChSequence <= client.InReliable)
      <4>1. Bunch(i)' = B[m] /\ B[m].ChSequence = F + L + m /\ B[m].values = values
            /\ B[m].bOpen = ~channel.opened
        BY <1>10, <1>13, <3>3
      <4>2. PICK x \in Nat : x = client.InReliable /\ x <= F + L
        BY <1>21
      <4>3. F + L + m > x /\ ~(F + L + m <= x)
        BY <1>3, <4>2
      <4>4. F + L + m = x + 1 => m = 1
        BY <1>3, <4>2
      <4>5. m = 1 => B[m].initial
        BY <1>10
      <4>6. client.OpenAcked => ~B[m].bOpen
        BY <1>8, <4>1
      <4> QED BY <1>16, <4>1, <4>2, <4>3, <4>4, <4>5, <4>6
    <3> QED BY <3>1, <3>2, <3>3
  <2>2. \/ client.OpenAcked
        \/ \E i \in DOMAIN channel'.OutRec : Bunch(i)'.bOpen /\ Bunch(i)'.ChSequence > client.InReliable
    <3>1. CASE channel.opened
      <4>1. CASE client.OpenAcked
        BY <4>1
      <4>2. CASE ~client.OpenAcked
        <5>1. PICK i \in 1 .. L : Bunch(i).bOpen /\ Bunch(i).ChSequence > client.InReliable
          BY <1>3, <3>1, <4>2 DEF IInv, ClientInOrder
        <5>2. i \in DOMAIN channel'.OutRec /\ Bunch(i)' = Bunch(i)
          BY <1>3, <1>11, <1>13, <5>1
        <5> QED BY <5>1, <5>2
      <4> QED BY <4>1, <4>2
    <3>2. CASE ~channel.opened
      <4>1. 1 \in 1 .. n /\ L + 1 \in DOMAIN channel'.OutRec
        BY <1>3, <1>11
      <4>2. Bunch(L + 1)' = B[1] /\ B[1].bOpen /\ B[1].ChSequence = F + L + 1
        BY <1>10, <1>13, <3>2, <4>1
      <4>3. Bunch(L + 1)'.bOpen /\ Bunch(L + 1)'.ChSequence > client.InReliable
        BY <1>3, <1>21, <4>2
      <4> QED BY <4>1, <4>3
    <3> QED BY <3>1, <3>2
  <2>3. ASSUME NEW k \in DOMAIN network'.packets, ~Packet(k)'.bunch.bReliable, Packet(k)'.fate = "sent"
        PROVE  Older(client.value, Packet(k)'.bunch.values)
    <3>1. k \in 1 .. N /\ Packet(k)' = Packet(k)
      BY <1>12, <1>24, <2>3
    <3> QED BY <1>6, <2>3, <3>1 DEF IInv, ClientInOrder
  <2>4. F <= client.InReliable /\ client.InReliable <= channel'.OutReliable
    BY <1>3, <1>11, <1>21
  <2> QED BY <1>14, <2>1, <2>2, <2>3, <2>4 DEF ClientInOrder
<1>23. Queue'
  <2>1. \A b \in client.InRec : /\ b.ChSequence > client.InReliable + 1
                                /\ \E i \in 1 .. L : b = Bunch(i)
    BY <1>3 DEF IInv, Queue
  <2>2. \A b \in client.InRec : \E i \in DOMAIN channel'.OutRec : b = Bunch(i)'
    <3>1. \A i \in 1 .. L : i \in DOMAIN channel'.OutRec /\ Bunch(i)' = Bunch(i)
      BY <1>3, <1>11, <1>13
    <3> QED BY <2>1, <3>1
  <2>3. \A b : Received(b)' <=> Received(b)
    BY DEF Received
  <2>4. ASSUME NEW i \in DOMAIN channel'.OutRec
        PROVE  /\ channel'.OutRec[i].ReceivedAck => Received(Bunch(i)')
               /\ Received(Bunch(i)') => Bunch(i)'.bOpen
    <3>1. i \in 1 .. L \/ \E m \in 1 .. n : i = L + m
      BY <1>11, <1>15
    <3>2. CASE i \in 1 .. L
      <4>1. Bunch(i)' = Bunch(i) /\ channel'.OutRec[i] = channel.OutRec[i]
        BY <1>11, <1>13, <3>2
      <4> QED BY <1>3, <1>7, <3>2, <4>1 DEF IInv, Queue
    <3>3. ASSUME NEW m \in 1 .. n, i = L + m
          PROVE  ~channel'.OutRec[i].ReceivedAck /\ ~Received(Bunch(i)')
      <4>1. Bunch(i)' = B[m] /\ B[m].ChSequence = F + L + m /\ ~channel'.OutRec[i].ReceivedAck
        BY <1>10, <1>11, <1>13, <3>3
      <4>2. B[m] \notin client.InRec
        <5>1. \A b \in client.InRec : b.ChSequence \in F + 1 .. F + L
          BY <1>3, <2>1
        <5>2. F + L + m \notin F + 1 .. F + L
          BY <1>3
        <5> QED BY <4>1, <5>1, <5>2
      <4>3. ~(B[m].ChSequence <= client.InReliable)
        BY <1>3, <1>21, <4>1
      <4> QED BY <4>1, <4>2, <4>3 DEF Received
    <3> QED BY <3>1, <3>2, <3>3
  <2>5. ASSUME NEW k \in DOMAIN network'.packets, Packet(k)'.fate = "ack"
        PROVE  /\ Packet(k)'.bunch.bReliable => Received(Packet(k)'.bunch)
               /\ ~Packet(k)'.bunch.bReliable /\ Packet(k)'.bunch.final =>
                    Older(Packet(k)'.bunch.values, client.value)
    <3>1. k \in 1 .. N /\ Packet(k)' = Packet(k)
      BY <1>12, <1>13, <1>15, <2>5
    <3> QED BY <1>6, <2>5, <3>1 DEF IInv, Queue
  <2> QED BY <2>1, <2>2, <2>3, <2>4, <2>5 DEF Queue, Received
<1> QED BY <1>17, <1>18, <1>19, <1>20, <1>22, <1>23

LEMMA SentUnreliably ==
  ASSUME IInv, ~Paused, channel.opened, NEW n \in {1, 2}, NEW B, NEW values, NEW buf,
         Newest(values, buf), NEW before, Parts(B, n, values, FALSE, FALSE, before),
         network' = WithPackets(network, n, B),
         channel'.OutReliable = channel.OutReliable, channel'.OutRec = channel.OutRec,
         UNCHANGED client
  PROVE  /\ ReliableInOrder' /\ PacketsInOrder' /\ UpdatesInBetween'
         /\ ClientInOrder(client)' /\ Queue'
         /\ \A i \in DOMAIN channel'.OutRec : Older(Bunch(i)'.values, buf)
         /\ \A k \in DOMAIN network'.packets : Older(Packet(k)'.bunch.values, buf)
<1>1. PICK L : L = Len(channel.OutRec)
  OBVIOUS
<1>2. /\ L \in Nat /\ DOMAIN channel.OutRec = 1 .. L /\ \A i \in 1 .. L : Bunch(i).bOpen
  BY <1>1, ReliablePlaces, UnpausedExact
<1>3. PICK N : N = Len(network.packets)
  OBVIOUS
<1>4. PICK A : A = Answered
  OBVIOUS
<1>5. N \in Nat /\ DOMAIN network.packets = 1 .. N /\ A \in Nat
  BY <1>3, <1>4, NetworkExact
<1>6. B \in Seq(BunchType) /\ Len(B) = n
  BY DEF Parts
<1>7. \A j \in 1 .. n : /\ ~B[j].bReliable /\ ~B[j].bOpen /\ B[j].values = values
                        /\ B[j].initial <=> j = 1
                        /\ B[j].final <=> j = n
  BY DEF Parts
<1>8. /\ Answered' = A
      /\ Len(network'.packets) = N + n /\ DOMAIN network'.packets = 1 .. N + n
      /\ \A k \in 1 .. N : network'.packets[k] = network.packets[k]
      /\ \A j \in 1 .. n : /\ network'.packets[N + j].bunch = B[j]
                           /\ network'.packets[N + j].fate = "sent"
  <2>1. Followed(network', n, B)
    BY <1>6, InFlightExact
  <2>2. Answered' = network'.OutPacketId - Len(network'.packets)
    BY DEF Answered
  <2> QED BY <1>3, <1>4, <2>1, <2>2 DEF Followed
<1>9. /\ \A i : Bunch(i)' = Bunch(i)
      /\ \A k \in 1 .. N : Packet(k)' = Packet(k)
      /\ \A j \in 1 .. n : Packet(N + j)'.bunch = B[j] /\ Packet(N + j)'.fate = "sent"
  BY <1>8 DEF Bunch, Packet
<1>10. \A k \in 1 .. N + n : \/ k \in 1 .. N
                             \/ /\ Packet(k)'.fate = "sent" /\ ~Packet(k)'.bunch.bReliable
                                /\ ~Packet(k)'.bunch.bOpen /\ Packet(k)'.bunch.values = values
                                /\ Packet(k)'.bunch.initial \/ Packet(k)'.bunch.final
  <2>1. ASSUME NEW k \in 1 .. N + n, k \notin 1 .. N PROVE \E j \in 1 .. n : k = N + j
    <3>1. k - N \in 1 .. n /\ k = N + (k - N)
      BY <1>5, <2>1
    <3> QED BY <3>1
  <2>2. \A j \in 1 .. n : B[j].initial \/ B[j].final
    BY <1>7
  <2> QED BY <1>7, <1>9, <2>1, <2>2
<1>11. /\ Older(values, values) /\ Older(values, buf) /\ Older(client.value, values)
       /\ \A i \in 1 .. L : Older(Bunch(i).values, values) /\ Older(Bunch(i).values, buf)
       /\ \A k \in 1 .. N : Older(Packet(k).bunch.values, values) /\ Older(Packet(k).bunch.values, buf)
  BY <1>2, <1>5, OlderThanNewest DEF Newest
<1>12. ReliableInOrder'
  <2>1. Finished' = Finished
    BY DEF Finished
  <2> QED BY <1>2, <1>9, <2>1 DEF IInv, ReliableInOrder
<1>13. \A k \in 1 .. N : Packet(k).bunch.bReliable => Packet(k).bunch.bOpen
  BY <1>2, <1>5, ReliablePacket
<1>14. PacketsInOrder'
  <2>1. ASSUME NEW k \in DOMAIN network'.packets
        PROVE  LET bunch == Packet(k)'.bunch
               IN /\ bunch.bReliable => \E i \in DOMAIN channel'.OutRec :
                                           /\ channel'.OutRec[i].PacketId = A + k
                                           /\ ~channel'.OutRec[i].ReceivedAck
                  /\ ~bunch.bReliable => ~bunch.bOpen /\ (bunch.initial \/ bunch.final)
                  /\ \A l \in 1 .. k - 1 :
                       /\ Packet(k)'.fate # "sent" => Packet(l)'.fate # "sent"
                       /\ ~bunch.bReliable /\ Packet(l)'.bunch.bReliable => Packet(l)'.bunch.bOpen
                       /\ ~bunch.bReliable /\ ~Packet(l)'.bunch.bReliable =>
                            Older(Packet(l)'.bunch.values, bunch.values)
    <3>1. CASE k \in 1 .. N
      <4>1. Packet(k)' = Packet(k) /\ \A l \in 1 .. k - 1 : Packet(l)' = Packet(l)
        BY <1>5, <1>9, <3>1
      <4>2. LET bunch == Packet(k).bunch
            IN /\ bunch.bReliable => \E i \in DOMAIN channel.OutRec :
                                        /\ channel.OutRec[i].PacketId = A + k
                                        /\ ~channel.OutRec[i].ReceivedAck
               /\ ~bunch.bReliable => ~bunch.bOpen /\ (bunch.initial \/ bunch.final)
               /\ \A l \in 1 .. k - 1 :
                    /\ Packet(k).fate # "sent" => Packet(l).fate # "sent"
                    /\ ~bunch.bReliable /\ Packet(l).bunch.bReliable => Packet(l).bunch.bOpen
                    /\ ~bunch.bReliable /\ ~Packet(l).bunch.bReliable =>
                         Older(Packet(l).bunch.values, bunch.values)
        BY <1>4, <1>5, <3>1 DEF IInv, PacketsInOrder
      <4> QED BY <4>1, <4>2
    <3>2. CASE k \notin 1 .. N
      <4>1. /\ Packet(k)'.fate = "sent" /\ ~Packet(k)'.bunch.bReliable
            /\ ~Packet(k)'.bunch.bOpen /\ Packet(k)'.bunch.values = values
            /\ Packet(k)'.bunch.initial \/ Packet(k)'.bunch.final
        BY <1>8, <1>10, <3>2
      <4>2. ASSUME NEW l \in 1 .. k - 1
            PROVE  /\ Packet(l)'.bunch.bReliable => Packet(l)'.bunch.bOpen
                   /\ Older(Packet(l)'.bunch.values, values)
        <5>1. l \in 1 .. N + n
          BY <1>5, <1>8
        <5> QED BY <1>9, <1>10, <1>11, <1>13, <5>1
      <4> QED BY <4>1, <4>2
    <3> QED BY <3>1, <3>2
  <2>2. ASSUME NEW i \in DOMAIN channel'.OutRec, ~channel'.OutRec[i].ReceivedAck
        PROVE  /\ channel'.OutRec[i].PacketId - A \in DOMAIN network'.packets
               /\ Packet(channel.OutRec[i].PacketId - A)'.bunch = Bunch(i)'
    <3>1. PICK k : k = channel.OutRec[i].PacketId - A
      OBVIOUS
    <3>2. k \in 1 .. N /\ Packet(k).bunch = Bunch(i)
      BY <1>4, <1>5, <2>2, <3>1 DEF IInv, PacketsInOrder
    <3>3. k = channel'.OutRec[i].PacketId - A /\ k \in DOMAIN network'.packets
      BY <1>5, <1>8, <3>1, <3>2
    <3>4. Packet(k)'.bunch = Bunch(i)'
      BY <1>9, <3>2
    <3> QED BY <3>3, <3>4 DEF Packet
  <2> QED BY <1>8, <2>1, <2>2 DEF PacketsInOrder
<1>15. UpdatesInBetween'
  <2>1. ASSUME NEW k \in DOMAIN network'.packets, ~Packet(k)'.bunch.bReliable,
               NEW i \in DOMAIN channel'.OutRec
        PROVE  Bunch(i)'.bOpen /\ Older(Bunch(i)'.values, Packet(k)'.bunch.values)
    <3>1. Bunch(i)' = Bunch(i) /\ Bunch(i).bOpen /\ i \in 1 .. L
      BY <1>2, <1>9
    <3>2. CASE k \in 1 .. N
      BY <1>2, <1>5, <1>9, <2>1, <3>1, <3>2 DEF IInv, UpdatesInBetween
    <3>3. CASE k \notin 1 .. N
      BY <1>8, <1>10, <1>11, <3>1, <3>3
    <3> QED BY <3>2, <3>3
  <2> QED BY <2>1 DEF UpdatesInBetween
<1>16. /\ \A i \in DOMAIN channel'.OutRec : Older(Bunch(i)'.values, buf)
       /\ \A k \in DOMAIN network'.packets : Older(Packet(k)'.bunch.values, buf)
  BY <1>2, <1>8, <1>9, <1>10, <1>11
<1>17. ClientInOrder(client)'
  <2>1. ASSUME NEW k \in DOMAIN network'.packets, ~Packet(k)'.bunch.bReliable, Packet(k)'.fate = "sent"
        PROVE  Older(client.value, Packet(k)'.bunch.values)
    <3>1. CASE k \in 1 .. N
      BY <1>5, <1>9, <2>1, <3>1 DEF IInv, ClientInOrder
    <3>2. CASE k \notin 1 .. N
      BY <1>8, <1>10, <1>11, <3>2
    <3> QED BY <3>1, <3>2
  <2>2. Finished' = Finished
    BY DEF Finished
  <2>3. /\ Finished <= client.InReliable /\ client.InReliable <= channel.OutReliable
        /\ \A i \in DOMAIN channel.OutRec :
             /\ Bunch(i).ChSequence <= client.InReliable /\ Bunch(i).final => Older(Bunch(i).values, client.value)
             /\ Bunch(i).ChSequence > client.InReliable => Older(client.value, Bunch(i).values)
             /\ client.OpenAcked /\ Bunch(i).bOpen => Bunch(i).ChSequence <= client.InReliable
             /\ Bunch(i).ChSequence = client.InReliable + 1 /\ ~Bunch(i).initial =>
                  /\ client.InPartialBunch # NoPart /\ client.InPartialBunch.bReliable
                  /\ client.InPartialBunch.ChSequence = client.InReliable
        /\ \/ client.OpenAcked
           \/ \E i \in DOMAIN channel.OutRec : Bunch(i).bOpen /\ Bunch(i).ChSequence > client.InReliable
    BY DEF IInv, ClientInOrder
  <2> QED BY <1>9, <2>1, <2>2, <2>3 DEF ClientInOrder
<1>18. Queue'
  <2>1. \A b : Received(b)' <=> Received(b)
    BY DEF Received
  <2>2. ASSUME NEW k \in DOMAIN network'.packets, Packet(k)'.fate = "ack"
        PROVE  /\ Packet(k)'.bunch.bReliable => Received(Packet(k)'.bunch)
               /\ ~Packet(k)'.bunch.bReliable /\ Packet(k)'.bunch.final =>
                    Older(Packet(k)'.bunch.values, client.value)
    <3>1. k \in 1 .. N /\ Packet(k)' = Packet(k)
      BY <1>8, <1>9, <1>10, <2>2
    <3> QED BY <1>5, <2>2, <3>1 DEF IInv, Queue
  <2>3. \A b \in client.InRec : /\ b.ChSequence > client.InReliable + 1
                                /\ \E i \in DOMAIN channel.OutRec : b = Bunch(i)
    BY DEF IInv, Queue
  <2>4. \A i \in DOMAIN channel.OutRec : /\ channel.OutRec[i].ReceivedAck => Received(Bunch(i))
                                         /\ Bunch(i).bOpen
    BY <1>2 DEF IInv, Queue
  <2> QED BY <1>9, <2>1, <2>2, <2>3, <2>4 DEF Queue, Received
<1> QED BY <1>12, <1>14, <1>15, <1>16, <1>17, <1>18

\* The new item, if the bunch has one, learns its packets or is taken back.
Posted(r, s, l, has, items, first, last, paused) ==
    /\ r \in SendingType /\ r.NumNaks = s.NumNaks /\ r.RepFlags = s.RepFlags
    /\ r.InactiveParents = s.InactiveParents /\ r.InactiveChangelist = s.InactiveChangelist
    /\ r.LastChangelistIndex = s.LastChangelistIndex
    /\ r.bOpenAckedCalled = s.bOpenAckedCalled /\ r.bLastUpdateEmpty = s.bLastUpdateEmpty
    /\ s.PreOpenAckHistory \subseteq r.PreOpenAckHistory
    /\ \A i \in 1 .. l : r.history[i] = s.history[i]
    /\ IF has /\ ~paused
       THEN /\ Len(r.history) = l + 1
            /\ r.history[l + 1].Changed = items /\ ~r.history[l + 1].Resend
            /\ r.history[l + 1].First = first /\ r.history[l + 1].Last = last
       ELSE Len(r.history) = l

\* What was kept of the history, and the new item, if there is one.
Appended(h, l, has, items) ==
    IF has THEN Len(h) = l + 1 /\ h[l + 1] = Item(items) ELSE Len(h) = l

LEMMA PostSendExact ==
  ASSUME NEW s \in SendingType, NEW l \in Nat, NEW items \in SUBSET Prop, NEW has \in BOOLEAN,
         \A i \in 1 .. l : s.history[i].First # 0,
         Appended(s.history, l, has, items),
         NEW first \in Nat, NEW last \in Nat, NEW reliable \in BOOLEAN, NEW paused \in BOOLEAN,
         NEW r, r = PostSendBunch(s, first, last, reliable, paused)
  PROVE  Posted(r, s, l, has, items, first, last, paused)
<1>1. PICK h : h = s.history
  OBVIOUS
<1>2. h \in Seq(ItemType)
  BY <1>1 DEF SendingType
<1>3. PICK unsent : unsent = {i \in DOMAIN s.history : s.history[i].First = 0}
  OBVIOUS
<1>4. Item(items) \in ItemType /\ Item(items).First = 0 /\ Item(items).Changed = items
      /\ ~Item(items).Resend
  BY DEF Item, ItemType
<1>5. r = IF unsent = {} THEN s
          ELSE IF paused THEN [s EXCEPT !.history = Front(s.history)]
          ELSE [s EXCEPT
               !.history = [i \in DOMAIN s.history |-> IF i \in unsent
                               THEN [s.history[i] EXCEPT !.First = first, !.Last = last] ELSE s.history[i]],
               !.PreOpenAckHistory = IF reliable \/ s.bOpenAckedCalled THEN s.PreOpenAckHistory
                       ELSE s.PreOpenAckHistory \cup UNION {s.history[i].Changed : i \in unsent}]
  BY <1>3 DEF PostSendBunch
<1>6. CASE ~has
  <2>1. DOMAIN s.history = 1 .. l /\ Len(s.history) = l
    BY <1>1, <1>2, <1>6 DEF Appended
  <2>2. unsent = {}
    BY <1>3, <2>1
  <2>3. r = s
    BY <1>5, <2>2
  <2> QED BY <1>6, <2>1, <2>3 DEF Posted
<1>7. CASE has
  <2>1. DOMAIN s.history = 1 .. l + 1 /\ Len(s.history) = l + 1 /\ s.history[l + 1] = Item(items)
    BY <1>1, <1>2, <1>7 DEF Appended
  <2>2. unsent = {l + 1}
    <3>1. \A i \in 1 .. l + 1 : i \in 1 .. l \/ i = l + 1
      OBVIOUS
    <3>2. l + 1 \in 1 .. l + 1
      OBVIOUS
    <3> QED BY <1>3, <1>4, <2>1, <3>1, <3>2
  <2>3. CASE paused
    <3>1. PICK g : g = Front(s.history)
      OBVIOUS
    <3>2. g = SubSeq(h, 1, l)
      <4>1. Len(s.history) - 1 = l
        BY <2>1
      <4> QED BY <1>1, <3>1, <4>1 DEF Front
    <3>3. g \in Seq(ItemType) /\ Len(g) = l /\ \A i \in 1 .. l : g[i] = h[i]
      <4>1. Len(h) = l + 1
        BY <1>1, <2>1
      <4>2. g = [i \in 1 .. l |-> h[i]]
        BY <1>2, <3>2, <4>1
      <4>3. \A i \in 1 .. l : h[i] \in ItemType
        BY <1>2, <4>1
      <4> QED BY <4>2, <4>3
    <3>4. r = [s EXCEPT !.history = g]
      BY <1>5, <2>2, <2>3, <3>1
    <3> QED BY <1>1, <2>3, <3>3, <3>4 DEF Posted, SendingType
  <2>4. CASE ~paused
    <3>1. PICK g : g = [i \in DOMAIN s.history |-> IF i \in unsent
                               THEN [s.history[i] EXCEPT !.First = first, !.Last = last] ELSE s.history[i]]
      OBVIOUS
    <3>2. PICK new : new = [Item(items) EXCEPT !.First = first, !.Last = last]
      OBVIOUS
    <3>3. /\ new \in ItemType /\ new.Changed = items /\ ~new.Resend
          /\ new.First = first /\ new.Last = last
      BY <1>4, <3>2 DEF ItemType
    <3>4. g[l + 1] = new /\ \A i \in 1 .. l : g[i] = h[i]
      <4>1. l + 1 \in DOMAIN s.history /\ \A i \in 1 .. l : i \in DOMAIN s.history /\ i \notin unsent
        BY <2>1, <2>2
      <4> QED BY <1>1, <2>1, <2>2, <3>1, <3>2, <4>1
    <3>5. g \in Seq(ItemType) /\ Len(g) = l + 1
      <4>1. g = [i \in 1 .. l + 1 |-> g[i]]
        BY <2>1, <3>1
      <4>2. ASSUME NEW i \in 1 .. l + 1 PROVE g[i] \in ItemType
        <5>1. i \in 1 .. l \/ i = l + 1
          OBVIOUS
        <5>2. i \in 1 .. l => h[i] \in ItemType
          BY <1>1, <1>2, <2>1
        <5> QED BY <3>3, <3>4, <5>1, <5>2
      <4> QED BY <4>1, <4>2
    <3>6. PICK pre : pre = IF reliable \/ s.bOpenAckedCalled THEN s.PreOpenAckHistory
                           ELSE s.PreOpenAckHistory \cup UNION {s.history[i].Changed : i \in unsent}
      OBVIOUS
    <3>7. pre \in SUBSET Prop /\ s.PreOpenAckHistory \subseteq pre
      <4>1. {s.history[i].Changed : i \in unsent} = {items}
        BY <1>4, <2>1, <2>2
      <4>2. UNION {items} = items
        OBVIOUS
      <4>3. s.PreOpenAckHistory \in SUBSET Prop
        BY DEF SendingType
      <4> QED BY <3>6, <4>1, <4>2, <4>3
    <3>8. r = [s EXCEPT !.history = g, !.PreOpenAckHistory = pre]
      BY <1>5, <2>2, <2>4, <3>1, <3>6
    <3>9. /\ r \in SendingType /\ r.NumNaks = s.NumNaks /\ r.RepFlags = s.RepFlags
          /\ r.InactiveParents = s.InactiveParents /\ r.InactiveChangelist = s.InactiveChangelist
          /\ r.LastChangelistIndex = s.LastChangelistIndex
          /\ r.bOpenAckedCalled = s.bOpenAckedCalled /\ r.bLastUpdateEmpty = s.bLastUpdateEmpty
          /\ r.PreOpenAckHistory = pre /\ r.history = g
      BY <3>5, <3>7, <3>8 DEF SendingType
    <3> QED BY <1>1, <1>7, <2>4, <3>3, <3>4, <3>5, <3>7, <3>9 DEF Posted
  <2> QED BY <2>3, <2>4
<1> QED BY <1>6, <1>7

\* What is sent is as it was compared last.
LEMMA ValuesExact ==
  ASSUME IInv, NEW sh, Advanced(sh), ~channel.opened => sh.StaticBuffer = object.value,
         NEW inactive, inactive = InactiveUnder(CurrentFlags), NEW changed \in SUBSET Prop,
         NEW values, values = [p \in changed \ inactive |-> object.value[p]]
  PROVE  /\ values \in [changed \ inactive -> Value]
         /\ \A p \in changed \ inactive : values[p] = sh.StaticBuffer[p]
<1>1. object.value \in [Prop -> Value]
  BY DEF IInv, HistoryAgrees, TypeOK, ObjectType
<1>2. ASSUME NEW p \in changed \ inactive PROVE object.value[p] = sh.StaticBuffer[p]
  <2>1. CASE ~channel.opened
    BY <2>1
  <2>2. CASE channel.opened
    <3>1. ~CurrentFlags.bNetInitial
      BY <2>2 DEF CurrentFlags
    <3>2. Condition[p] # "InitialOnly"
      BY <1>2, <3>1 DEF InactiveUnder
    <3> QED BY <3>2 DEF Advanced
  <2> QED BY <2>1, <2>2
<1> QED BY <1>1, <1>2

\* The steps of the network when an update is sent.
UpdateSent(k, s, values, size, buf) ==
    /\ sending' = PostSendBunch(s, network.OutPacketId + 1, network.OutPacketId + k,
                                ~channel.opened \/ size = "large", size = "large")
    /\ channel' \in ChannelType /\ network' \in NetworkType
    /\ channel'.opened /\ channel'.OpenAcked = channel.OpenAcked
    /\ ReliableInOrder' /\ PacketsInOrder' /\ UpdatesInBetween'
    /\ ClientInOrder(client)' /\ Queue'
    /\ \A i \in DOMAIN channel'.OutRec : Older(Bunch(i)'.values, buf)
    /\ \A i \in DOMAIN network'.packets : Older(Packet(i)'.bunch.values, buf)
    /\ network'.OutPacketId = network.OutPacketId + k
    /\ network'.OutAckPacketId = network.OutAckPacketId
    /\ Answered' = Answered
    /\ Len(network.packets) + k \in DOMAIN network'.packets
    /\ \A i \in DOMAIN network.packets : i \in DOMAIN network'.packets /\ Packet(i)' = Packet(i)
    /\ \A i \in DOMAIN channel.OutRec : i \in DOMAIN channel'.OutRec /\ Bunch(i)' = Bunch(i)
    /\ channel'.OpenAcked => \A i \in DOMAIN channel'.OutRec : ~Bunch(i)'.bOpen
    /\ IF ~channel.opened \/ size = "large"
       THEN \E i \in DOMAIN channel'.OutRec : /\ i = Len(channel'.OutRec)
                                              /\ Bunch(i)'.final /\ Bunch(i)'.values = values
       ELSE LET bunch == network'.packets[Len(network.packets) + k].bunch
            IN ~bunch.bReliable /\ bunch.final /\ bunch.values = values

LEMMA BunchesSent ==
  ASSUME IInv, ~Paused, NEW s, NEW S \in SUBSET Prop, NEW values \in [S -> Value], NEW size,
         SendBunch(s, values, size), UNCHANGED client, NEW buf, Newest(values, buf),
         channel.opened => ~sending'.bLastUpdateEmpty
  PROVE  \E k \in {1, 2} : UpdateSent(k, s, values, size, buf)
<1>1. PICK open \in BOOLEAN : open = ~channel.opened
  OBVIOUS
<1>2. PICK reliable \in BOOLEAN : reliable = (~channel.opened \/ size = "large")
  OBVIOUS
<1>3. PICK paused \in BOOLEAN : paused = (size = "large")
  OBVIOUS
<1>4. channel.OutReliable \in Nat /\ network.OutPacketId \in Nat /\ channel \in ChannelType
  BY ReliablePlaces, NetworkExact DEF IInv, HistoryAgrees, TypeOK, ChannelType
<1>5. PICK before \in Nat : before = IF reliable THEN channel.OutReliable ELSE network.OutPacketId
  BY <1>4
<1>6. PICK B : B = BunchesOf(values, size, ~channel.opened)
  OBVIOUS
<1>7. PICK k \in {1, 2} : Parts(B, k, values, reliable, open, before)
  <2>1. B = BunchesOf(values, size, open) /\ reliable = (open \/ size = "large")
    BY <1>1, <1>2, <1>6
  <2>2. /\ reliable <=> open \/ size = "large"
        /\ reliable => before = channel.OutReliable
        /\ ~reliable => before = network.OutPacketId
    BY <1>5, <2>1
  <2>3. B = BunchesOf(values, size, open) /\ values \in [S -> Value]
    BY <2>1
  <2> QED BY <1>4, <2>2, <2>3, BunchesExact
<1>8. B \in Seq(BunchType) /\ Len(B) = k
  BY <1>7 DEF Parts
<1>9. /\ sending' = PostSendBunch(s, network.OutPacketId + 1, network.OutPacketId + k,
                                  ~channel.opened \/ size = "large", size = "large")
      /\ channel' = [Unpaused EXCEPT
             !.opened = TRUE, !.bPausedUntilReliableACK = size = "large",
             !.OutRec = IF ~channel.opened \/ size = "large"
                        THEN Unpaused.OutRec \o Kept(B) ELSE Unpaused.OutRec,
             !.OutReliable = IF ~channel.opened \/ size = "large"
                             THEN Unpaused.OutReliable + k ELSE Unpaused.OutReliable]
      /\ network' = WithPackets(network, k, B)
  BY <1>6, <1>8 DEF SendBunch, WithPackets
<1>10. PICK N : N = Len(network.packets)
  OBVIOUS
<1>11. N \in Nat /\ DOMAIN network.packets = 1 .. N
  BY <1>10, NetworkExact
<1>12. /\ network' \in NetworkType
       /\ network'.OutPacketId = network.OutPacketId + k
       /\ network'.OutAckPacketId = network.OutAckPacketId
       /\ Answered' = Answered
       /\ DOMAIN network'.packets = 1 .. N + k
       /\ \A i \in 1 .. N : network'.packets[i] = network.packets[i]
       /\ \A j \in 1 .. k : network'.packets[N + j].bunch = B[j]
  <2>1. Followed(network', k, B)
    BY <1>8, <1>9, InFlightExact
  <2>2. Answered' = network'.OutPacketId - Len(network'.packets)
    BY DEF Answered
  <2> QED BY <1>10, <2>1, <2>2 DEF Followed
<1>13. /\ N + k \in DOMAIN network'.packets
       /\ \A i \in DOMAIN network.packets : i \in DOMAIN network'.packets /\ Packet(i)' = Packet(i)
  BY <1>11, <1>12 DEF Packet
<1>14. k \in 1 .. k /\ B[k].bReliable = reliable /\ B[k].final = (k = k) /\ B[k].values = values
       /\ \A j \in 1 .. k : B[j].bOpen = open
  <2>1. k \in 1 .. k
    OBVIOUS
  <2> QED BY <1>7, <2>1 DEF Parts
<1>15. B[k].final
  BY <1>14
<1>16. PICK L : L = Len(channel.OutRec)
  OBVIOUS
<1>17. L \in Nat /\ DOMAIN channel.OutRec = 1 .. L /\ \A i \in 1 .. L : Bunch(i).bOpen
  BY <1>16, ReliablePlaces, UnpausedExact
<1>18. channel.OpenAcked => L = 0 /\ channel.opened
  <2>1. channel.OpenAcked => channel.opened /\ \A i \in 1 .. L : ~Bunch(i).bOpen
    BY <1>17 DEF IInv, Activity
  <2>2. L # 0 => 1 \in 1 .. L
    BY <1>17
  <2> QED BY <1>17, <2>1, <2>2
<1>19. CASE ~channel.opened \/ size = "large"
  <2>1. channel' = WithBunches(Unpaused, k, B, paused)
    BY <1>3, <1>9, <1>19 DEF WithBunches
  <2>2. Extended(channel', k, B, paused)
    BY <1>8, <2>1, KeptExact
  <2>3. /\ channel' \in ChannelType /\ channel'.opened /\ channel'.OpenAcked = channel.OpenAcked
        /\ DOMAIN channel'.OutRec = 1 .. L + k
        /\ \A i \in 1 .. L : channel'.OutRec[i] = channel.OutRec[i]
        /\ \A j \in 1 .. k : channel'.OutRec[L + j].bunch = B[j]
    BY <1>16, <2>2 DEF Extended
  <2>4. Parts(B, k, values, TRUE, ~channel.opened, channel.OutReliable)
    <3>1. reliable = TRUE /\ before = channel.OutReliable
      BY <1>2, <1>5, <1>19
    <3> QED BY <1>1, <1>7, <3>1
  <2>5. ~channel.opened \/ (paused /\ ~sending'.bLastUpdateEmpty)
    BY <1>3, <1>19
  <2>6. /\ ReliableInOrder' /\ PacketsInOrder' /\ UpdatesInBetween'
        /\ ClientInOrder(client)' /\ Queue'
        /\ \A i \in DOMAIN channel'.OutRec : Older(Bunch(i)'.values, buf)
        /\ \A i \in DOMAIN network'.packets : Older(Packet(i)'.bunch.values, buf)
    BY <1>9, <2>1, <2>4, <2>5, SentReliably
  <2>7. \A i \in DOMAIN channel.OutRec : i \in DOMAIN channel'.OutRec /\ Bunch(i)' = Bunch(i)
    BY <1>17, <2>3 DEF Bunch
  <2>8. ASSUME channel'.OpenAcked, NEW i \in DOMAIN channel'.OutRec PROVE ~Bunch(i)'.bOpen
    <3>1. L = 0 /\ ~open
      BY <1>1, <1>18, <2>3, <2>8
    <3>2. i \in 1 .. k /\ L + i = i
      BY <2>3, <3>1
    <3>3. Bunch(i)' = B[i]
      BY <2>3, <3>2 DEF Bunch
    <3> QED BY <1>14, <3>1, <3>2, <3>3
  <2>9. \E i \in DOMAIN channel'.OutRec : /\ i = Len(channel'.OutRec)
                                         /\ Bunch(i)'.final /\ Bunch(i)'.values = values
    <3>1. L + k \in DOMAIN channel'.OutRec /\ L + k = Len(channel'.OutRec)
      BY <1>16, <1>17, <2>2, <2>3 DEF Extended
    <3>2. Bunch(L + k)' = B[k]
      BY <1>14, <2>3 DEF Bunch
    <3> QED BY <1>14, <1>15, <3>1, <3>2
  <2> QED BY <1>9, <1>10, <1>12, <1>13, <1>19, <2>3, <2>6, <2>7, <2>8, <2>9 DEF UpdateSent
<1>20. CASE ~(~channel.opened \/ size = "large")
  <2>1. channel' = [Unpaused EXCEPT !.opened = TRUE, !.bPausedUntilReliableACK = FALSE,
                                    !.OutRec = Unpaused.OutRec, !.OutReliable = Unpaused.OutReliable]
    BY <1>9, <1>20
  <2>2. /\ channel' \in ChannelType /\ channel'.opened /\ channel'.OpenAcked = channel.OpenAcked
        /\ channel'.OutRec = channel.OutRec /\ channel'.OutReliable = channel.OutReliable
    BY <2>1, UnpausedExact DEF ChannelType
  <2>3. Parts(B, k, values, FALSE, FALSE, before) /\ reliable = FALSE
    <3>1. reliable = FALSE /\ open = FALSE
      BY <1>1, <1>2, <1>20
    <3> QED BY <1>7, <3>1
  <2>4. /\ ReliableInOrder' /\ PacketsInOrder' /\ UpdatesInBetween'
        /\ ClientInOrder(client)' /\ Queue'
        /\ \A i \in DOMAIN channel'.OutRec : Older(Bunch(i)'.values, buf)
        /\ \A i \in DOMAIN network'.packets : Older(Packet(i)'.bunch.values, buf)
    BY <1>9, <1>20, <2>2, <2>3, SentUnreliably
  <2>5. \A i \in DOMAIN channel.OutRec : i \in DOMAIN channel'.OutRec /\ Bunch(i)' = Bunch(i)
    BY <2>2 DEF Bunch
  <2>6. ASSUME channel'.OpenAcked, NEW i \in DOMAIN channel'.OutRec PROVE ~Bunch(i)'.bOpen
    BY <1>17, <1>18, <2>2, <2>6
  <2>7. LET bunch == network'.packets[Len(network.packets) + k].bunch
        IN ~bunch.bReliable /\ bunch.final /\ bunch.values = values
    BY <1>10, <1>12, <1>14, <1>15, <2>3
  <2> QED BY <1>9, <1>10, <1>12, <1>13, <1>20, <2>2, <2>4, <2>5, <2>6, <2>7 DEF UpdateSent
<1> QED BY <1>19, <1>20

\* Acknowledged in the order in which they were sent, and none to be resent.
SentInOrder(h, l) ==
    \A i \in 1 .. l : /\ h[i] \in ItemType /\ h[i].Changed # {} /\ h[i].First # 0 /\ ~h[i].Resend
                      /\ h[i].First <= h[i].Last /\ h[i].Last <= network.OutPacketId
                      /\ \A j \in 1 .. i - 1 : h[j].Last < h[i].First
                      /\ h[i].Last <= Answered => h[i].Last <= network.OutAckPacketId

LEMMA KeptSentInOrder ==
  ASSUME IInv, NEW n \in Nat, n = Len(sending.history), NEW m \in 0 .. n, NEW h,
         KeptItems(h, n, m), NEW l \in Nat, l = n - m
  PROVE  SentInOrder(h, l)
<1>1. \A i \in 1 .. n - m :
        /\ h[i] \in ItemType /\ h[i].Changed # {} /\ h[i].First # 0 /\ ~h[i].Resend
        /\ h[i].First <= h[i].Last /\ h[i].Last <= network.OutPacketId
        /\ \A j \in 1 .. i - 1 : h[j].Last < h[i].First
        /\ h[i].Last <= Answered => h[i].Last <= network.OutAckPacketId
  BY KeptInOrder
<1> QED BY <1>1 DEF SentInOrder

\* The values of a bunch are those that were compared.
Values(S) == [p \in S |-> object.value[p]]
ValuesAsCompared(values, items, sh) ==
    values \in [items -> Value] /\ \A p \in items : values[p] = sh.StaticBuffer[p]

LEMMA ValuesCompared ==
  ASSUME IInv, NEW sh, Advanced(sh), ~channel.opened => sh.StaticBuffer = object.value,
         NEW inactive, inactive = InactiveUnder(CurrentFlags), NEW changed \in SUBSET Prop,
         NEW items, items = changed \ inactive
  PROVE  ValuesAsCompared(Values(items), items, sh)
<1>1. PICK values : values = [p \in changed \ inactive |-> object.value[p]]
  OBVIOUS
<1>2. values = Values(items)
  BY <1>1 DEF Values
<1>3. /\ values \in [changed \ inactive -> Value]
      /\ \A p \in changed \ inactive : values[p] = sh.StaticBuffer[p]
  BY <1>1, ValuesExact
<1> QED BY <1>2, <1>3 DEF ValuesAsCompared

\* A replication that sends a bunch.
LEMMA SendStep ==
  ASSUME IInv, ~Paused, NEW sh, Advanced(sh), ~channel.opened => sh.StaticBuffer = object.value,
         shared' = [sh EXCEPT !.comparedThisFrame = FALSE],
         NEW changed, changed = Changed(Refreshed, sh, CurrentFlags),
         NEW inactive, inactive = InactiveUnder(CurrentFlags),
         ~(channel.opened /\ changed \subseteq inactive),
         NEW s, s = Replicated(Refreshed, sh, CurrentFlags, changed, inactive),
         NEW values, values = [p \in changed \ inactive |-> object.value[p]],
         NEW size, SendBunch(s, values, size),
         object' = [object EXCEPT !.dirty = {}], UNCHANGED client
  PROVE  IInv'
<1>1. PICK flags \in FlagsType : flags = CurrentFlags
  BY FlagsTyped
<1>2. PICK n \in Nat : n = Len(sending.history)
  BY HistoryExact
<1>3. PICK m \in 0 .. n : Replicates(s, sh, flags, changed, inactive, n, m)
  <2>1. s = Replicated(Refreshed, sh, flags, changed, inactive)
    BY <1>1
  <2> QED BY <1>1, <1>2, <2>1, ReplicatedSent
<1>4. PICK l \in Nat : l = n - m
  OBVIOUS
<1>5. PICK has \in BOOLEAN : has = ~(changed \subseteq inactive)
  OBVIOUS
<1>6. /\ s \in SendingType /\ s.NumNaks = 0 /\ KeptItems(s.history, n, m)
      /\ l + 1 < MAX_SENT_HISTORY
      /\ IF has THEN Len(s.history) = l + 1 /\ s.history[l + 1] = Item(changed \ inactive)
         ELSE Len(s.history) = l
      /\ s.RepFlags = flags /\ s.InactiveParents = inactive
      /\ s.InactiveChangelist \subseteq inactive
      /\ s.LastChangelistIndex = sh.HistoryEnd
      /\ s.bLastUpdateEmpty = (changed \subseteq inactive)
      /\ s.bOpenAckedCalled => channel.OpenAcked
      /\ \A p \in Prop : p \in changed \ inactive \/ Sent(s, sh, p, l)
  BY <1>3, <1>4, <1>5 DEF Replicates
<1>7. changed \in SUBSET Prop /\ inactive \in SUBSET Prop
  <2>1. changed \in SUBSET Prop
    BY ChangedExact
  <2> QED BY <2>1 DEF InactiveUnder
<1>8. PICK items \in SUBSET Prop : items = changed \ inactive
  BY <1>7
<1>9. /\ values \in [items -> Value] /\ DOMAIN values = items
      /\ \A p \in items : values[p] = sh.StaticBuffer[p]
  <2>1. ValuesAsCompared(Values(items), items, sh)
    BY <1>7, <1>8, ValuesCompared
  <2>2. values = Values(items)
    BY <1>8 DEF Values
  <2> QED BY <2>1, <2>2 DEF ValuesAsCompared
<1>10. \A i \in 1 .. l :
           /\ s.history[i] \in ItemType /\ s.history[i].Changed # {} /\ s.history[i].First # 0
           /\ ~s.history[i].Resend
           /\ s.history[i].First <= s.history[i].Last /\ s.history[i].Last <= network.OutPacketId
           /\ \A j \in 1 .. i - 1 : s.history[j].Last < s.history[i].First
           /\ s.history[i].Last <= Answered => s.history[i].Last <= network.OutAckPacketId
  <2>1. PICK h0 : h0 = s.history
    OBVIOUS
  <2>2. KeptItems(h0, n, m)
    BY <1>6, <2>1
  <2>3. SentInOrder(h0, l)
    BY <1>2, <1>4, <2>2, KeptSentInOrder
  <2> QED BY <2>1, <2>3 DEF SentInOrder
<1>11. network.OutPacketId \in Nat /\ channel.opened \in BOOLEAN /\ Answered \in Nat
  BY NetworkExact DEF IInv, HistoryAgrees, TypeOK, ChannelType
<1>12. PICK reliable \in BOOLEAN : reliable = (~channel.opened \/ size = "large")
  OBVIOUS
<1>13. PICK paused \in BOOLEAN : paused = (size = "large")
  OBVIOUS
<1>14. ASSUME NEW first \in Nat, NEW last \in Nat
       PROVE  Posted(PostSendBunch(s, first, last, reliable, paused), s, l, has, items, first, last, paused)
  <2>1. /\ \A i \in 1 .. l : s.history[i].First # 0
    BY <1>10
  <2>2. Appended(s.history, l, has, items)
    BY <1>6, <1>8 DEF Appended
  <2>3. PICK r : r = PostSendBunch(s, first, last, reliable, paused)
    OBVIOUS
  <2>4. Posted(r, s, l, has, items, first, last, paused)
    <3>1. s \in SendingType
      BY <1>6
    <3> QED BY <1>4, <1>5, <1>8, <1>12, <1>13, <1>14, <2>1, <2>2, <2>3, <3>1, PostSendExact
  <2> QED BY <2>3, <2>4
<1>15. \E first \in Nat, last \in Nat : sending' = PostSendBunch(s, first, last, reliable, paused)
  <2>1. PICK k : k = Len(BunchesOf(values, size, ~channel.opened))
    OBVIOUS
  <2>2. sending' = PostSendBunch(s, network.OutPacketId + 1, network.OutPacketId + k, reliable, paused)
    BY <1>12, <1>13, <2>1 DEF SendBunch
  <2>3. PICK open \in BOOLEAN : open = ~channel.opened
    OBVIOUS
  <2>4. k \in Nat
    <3>1. PICK B : B = [i \in 1 .. (IF size = "whole" THEN 1 ELSE 2) |->
          [bReliable |-> open \/ size = "large",
           ChSequence |-> IF open \/ size = "large" THEN channel.OutReliable + i ELSE network.OutPacketId + i,
           bOpen |-> open, initial |-> i = 1, final |-> i = (IF size = "whole" THEN 1 ELSE 2), values |-> values]]
      OBVIOUS
    <3> QED BY <2>1, <2>3 DEF BunchesOf
  <2> QED BY <1>11, <2>2, <2>4
<1>16. /\ sending'.LastChangelistIndex = s.LastChangelistIndex
       /\ sending'.bLastUpdateEmpty = s.bLastUpdateEmpty
  BY <1>14, <1>15 DEF Posted
<1>17. /\ object' \in ObjectType /\ shared' \in SharedType /\ client' \in ClientType
       /\ shared'.HistoryStart = sh.HistoryStart /\ shared'.HistoryEnd = sh.HistoryEnd
       /\ shared'.StaticBuffer = sh.StaticBuffer
       /\ shared'.HistoryEnd - shared'.HistoryStart < MAX_CHANGE_HISTORY
       /\ Compares'
       /\ sh.StaticBuffer \in [Prop -> Nat]
       /\ Older(client.value, sh.StaticBuffer)
       /\ \A i \in DOMAIN channel.OutRec : Older(Bunch(i).values, sh.StaticBuffer)
       /\ \A k \in DOMAIN network.packets : Older(Packet(k).bunch.values, sh.StaticBuffer)
  BY <1>6, <1>16, FrameExact
<1>18. PICK buf : buf = sh.StaticBuffer
  OBVIOUS
<1>19. Newest(values, buf)
  BY <1>9, <1>17, <1>18 DEF Newest
<1>20. channel.opened => ~sending'.bLastUpdateEmpty
  BY <1>6, <1>16
<1>21. PICK k \in {1, 2} : UpdateSent(k, s, values, size, buf)
  BY <1>9, <1>19, <1>20, BunchesSent
<1>22. PICK first \in Nat : first = network.OutPacketId + 1
  BY <1>11
<1>23. PICK last \in Nat : last = network.OutPacketId + k
  BY <1>11
<1>24. PICK r : r = sending'
  OBVIOUS
<1>25. Posted(r, s, l, has, items, first, last, paused)
  <2>1. r = PostSendBunch(s, first, last, reliable, paused)
    BY <1>12, <1>13, <1>21, <1>22, <1>23, <1>24 DEF UpdateSent
  <2> QED BY <1>14, <2>1
<1>26. PICK h : h = r.history
  OBVIOUS
<1>27. PICK N \in Nat : N = Len(network.packets) /\ network.OutPacketId = Answered + N
  BY NetworkExact
<1>28. h \in Seq(ItemType) /\ DOMAIN h = 1 .. Len(h) /\ Len(h) \in Nat
  <2>1. h \in Seq(ItemType)
    BY <1>25, <1>26 DEF Posted, SendingType
  <2> QED BY <2>1
<1>29. /\ \A i \in 1 .. l : h[i] = s.history[i]
       /\ IF has /\ ~paused
          THEN /\ Len(h) = l + 1
               /\ h[l + 1].Changed = items /\ ~h[l + 1].Resend
               /\ h[l + 1].First = first /\ h[l + 1].Last = last
          ELSE Len(h) = l
  BY <1>25, <1>26 DEF Posted
<1>30. ASSUME NEW i \in DOMAIN h
       PROVE  /\ h[i].Changed # {} /\ h[i].First # 0 /\ ~h[i].Resend
              /\ h[i].First <= h[i].Last /\ h[i].Last <= last
              /\ \A j \in 1 .. i - 1 : h[j].Last < h[i].First
              /\ h[i].Last <= Answered => h[i].Last <= network.OutAckPacketId
  <2>1. i \in 1 .. l \/ (i = l + 1 /\ has /\ ~paused)
    BY <1>28, <1>29
  <2>2. CASE i \in 1 .. l
    <3>1. h[i] = s.history[i] /\ \A j \in 1 .. i - 1 : h[j] = s.history[j]
      BY <1>29, <2>2
    <3>2. PICK x \in ItemType : x = s.history[i]
      BY <1>10, <2>2
    <3>3. x.Last <= network.OutPacketId /\ x.Last \in Nat
      BY <1>10, <2>2, <3>2 DEF ItemType
    <3>4. x.Last <= last
      BY <1>11, <1>23, <3>3
    <3> QED BY <1>10, <2>2, <3>1, <3>2, <3>4
  <2>3. CASE i = l + 1 /\ has /\ ~paused
    <3>1. items # {}
      BY <1>5, <1>8, <2>3
    <3>2. ASSUME NEW j \in 1 .. i - 1 PROVE h[j].Last < h[i].First
      <4>1. j \in 1 .. l
        BY <2>3
      <4>2. PICK x \in ItemType : x = s.history[j]
        BY <1>10, <4>1
      <4>3. x.Last <= network.OutPacketId /\ x.Last \in Nat
        BY <1>10, <4>1, <4>2 DEF ItemType
      <4>4. x.Last < first
        BY <1>11, <1>22, <4>3
      <4> QED BY <1>29, <2>3, <4>1, <4>2, <4>4
    <3>3. first # 0 /\ first <= last /\ last <= last /\ ~(last <= Answered)
      BY <1>11, <1>22, <1>23, <1>27
    <3> QED BY <1>29, <2>3, <3>1, <3>2, <3>3
  <2> QED BY <2>1, <2>2, <2>3
<1>31. /\ channel' \in ChannelType /\ network' \in NetworkType
       /\ channel'.opened /\ channel'.OpenAcked = channel.OpenAcked
       /\ ReliableInOrder' /\ PacketsInOrder' /\ UpdatesInBetween'
       /\ ClientInOrder(client)' /\ Queue'
       /\ \A i \in DOMAIN channel'.OutRec : Older(Bunch(i)'.values, buf)
       /\ \A i \in DOMAIN network'.packets : Older(Packet(i)'.bunch.values, buf)
       /\ network'.OutPacketId = last
       /\ network'.OutAckPacketId = network.OutAckPacketId
       /\ Answered' = Answered
       /\ N + k \in DOMAIN network'.packets
       /\ \A i \in DOMAIN network.packets : i \in DOMAIN network'.packets /\ Packet(i)' = Packet(i)
       /\ \A i \in DOMAIN channel.OutRec : i \in DOMAIN channel'.OutRec /\ Bunch(i)' = Bunch(i)
       /\ channel'.OpenAcked => \A i \in DOMAIN channel'.OutRec : ~Bunch(i)'.bOpen
       /\ IF ~channel.opened \/ size = "large"
          THEN \E i \in DOMAIN channel'.OutRec : Bunch(i)'.final /\ Bunch(i)'.values = values
          ELSE LET bunch == network'.packets[N + k].bunch
               IN ~bunch.bReliable /\ bunch.final /\ bunch.values = values
  BY <1>21, <1>23, <1>27 DEF UpdateSent
<1>32. /\ r \in SendingType /\ r.NumNaks = 0 /\ r.RepFlags = flags
       /\ r.InactiveParents = inactive /\ r.InactiveChangelist = s.InactiveChangelist
       /\ r.bOpenAckedCalled => channel.OpenAcked
       /\ s.PreOpenAckHistory \subseteq r.PreOpenAckHistory
  BY <1>6, <1>25 DEF Posted
<1>33. HistoryAgrees'
  <2>1. TypeOK'
    BY <1>17, <1>24, <1>31, <1>32 DEF TypeOK
  <2>2. Cardinality({i \in DOMAIN h : h[i].Resend}) = 0
    BY <1>30, NoNaks
  <2>3. Len(h) < MAX_SENT_HISTORY
    BY <1>6, <1>29, Constants
  <2> QED BY <1>17, <1>24, <1>26, <1>30, <1>32, <2>1, <2>2, <2>3 DEF HistoryAgrees
<1>34. Unopened'
  BY <1>31 DEF Unopened
<1>35. HistoryInOrder'
  <2>1. /\ network'.OutAckPacketId <= Answered' /\ Len(network'.packets) <= network'.OutPacketId
    <3>1. Answered' = network'.OutPacketId - Len(network'.packets)
      BY DEF Answered
    <3>2. Len(network'.packets) \in Nat
      BY <1>31 DEF NetworkType
    <3> QED BY <1>11, <1>31, <3>1, <3>2, NetworkExact
  <2>2. sending'.history = h
    BY <1>24, <1>26
  <2> QED BY <1>30, <1>31, <2>1, <2>2 DEF HistoryInOrder
<1>36. Activity'
  <2>1. sending'.InactiveParents = InactiveUnder(sending'.RepFlags)
        /\ sending'.InactiveChangelist \subseteq sending'.InactiveParents
    BY <1>1, <1>6, <1>24, <1>32
  <2>2. sending'.bOpenAckedCalled => channel'.OpenAcked
    BY <1>24, <1>31, <1>32
  <2> QED BY <1>31, <2>1, <2>2 DEF Activity
<1>37. NothingNewer'
  BY <1>17, <1>18, <1>31 DEF NothingNewer
<1>38. ASSUME NEW p \in Prop PROVE OnItsWay(p)'
  <2>1. CASE p \in items
    <3>1. values[p] = shared'.StaticBuffer[p] /\ p \in DOMAIN values
      BY <1>9, <1>17, <2>1
    <3>2. CASE ~channel.opened \/ size = "large"
      <4>1. PICK i \in DOMAIN channel'.OutRec : Bunch(i)'.final /\ Bunch(i)'.values = values
        BY <1>31, <3>2
      <4> QED BY <3>1, <4>1 DEF OnItsWay
    <3>3. CASE ~(~channel.opened \/ size = "large")
      <4>1. has /\ ~paused
        BY <1>5, <1>13, <3>3
      <4>2. l + 1 \in DOMAIN h /\ h[l + 1].Changed = items /\ h[l + 1].Last = last
        BY <1>28, <1>29, <4>1
      <4>3. last = Answered' + (N + k)
        BY <1>11, <1>23, <1>27, <1>31
      <4>4. ~Packet(N + k)'.bunch.bReliable /\ Packet(N + k)'.bunch.final /\ Packet(N + k)'.bunch.values = values
        BY <1>31, <3>3 DEF Packet
      <4>5. sending'.history = h
        BY <1>24, <1>26
      <4>6. PICK x \in DOMAIN network'.packets : x = N + k
        BY <1>31
      <4>7. PICK i : i = l + 1
        OBVIOUS
      <4> QED BY <2>1, <3>1, <4>2, <4>3, <4>4, <4>5, <4>6, <4>7 DEF OnItsWay
    <3> QED BY <3>2, <3>3
  <2>2. CASE p \notin items
    <3>1. Sent(s, sh, p, l)
      BY <1>6, <1>8, <2>2
    <3>2. CASE client.value[p] = sh.StaticBuffer[p]
      BY <1>17, <3>2 DEF OnItsWay
    <3>3. CASE p \in s.InactiveChangelist \cup s.PreOpenAckHistory
      BY <1>24, <1>32, <3>3 DEF OnItsWay
    <3>4. ASSUME NEW i \in 1 .. l, p \in s.history[i].Changed,
                 NEW j \in DOMAIN network.packets, s.history[i].Last = Answered + j,
                 ~Packet(j).bunch.bReliable, Packet(j).bunch.final,
                 p \in DOMAIN Packet(j).bunch.values,
                 Packet(j).bunch.values[p] = sh.StaticBuffer[p]
          PROVE  OnItsWay(p)'
      <4>1. i \in DOMAIN sending'.history /\ sending'.history[i] = s.history[i]
        <5>1. i \in DOMAIN h
          BY <1>28, <1>29
        <5> QED BY <1>24, <1>26, <1>29, <5>1
      <4>2. j \in DOMAIN network'.packets /\ Packet(j)' = Packet(j) /\ Answered' = Answered
        BY <1>31
      <4> QED BY <1>17, <3>4, <4>1, <4>2 DEF OnItsWay
    <3>5. ASSUME NEW i \in DOMAIN channel.OutRec, Bunch(i).final, p \in DOMAIN Bunch(i).values,
                 Bunch(i).values[p] = sh.StaticBuffer[p]
          PROVE  OnItsWay(p)'
      BY <1>17, <1>31, <3>5 DEF OnItsWay
    <3> QED BY <3>1, <3>2, <3>3, <3>4, <3>5 DEF Sent
  <2> QED BY <2>1, <2>2
<1>39. NewestOnItsWay'
  BY <1>38 DEF NewestOnItsWay
<1> QED BY <1>17, <1>31, <1>33, <1>34, <1>35, <1>36, <1>37, <1>39 DEF IInv

-----------------------------------------------------------------------------
(* The inductive invariant                                                 *)

LEMMA ReplicateActorStep ==
  ASSUME IInv, NEW size \in Sizes, ReplicateActor(size)
  PROVE  IInv'
<1>1. TypeOK /\ Compares /\ channel.opened \in BOOLEAN
  BY DEF IInv, HistoryAgrees, TypeOK, ChannelType
<1>2. PICK initial \in BOOLEAN : initial = ~channel.opened
  BY <1>1
<1>3. PICK sh : sh = UpdateChangelistMgr(~channel.opened)
  OBVIOUS
<1>4. Advanced(sh) /\ (~channel.opened => sh.StaticBuffer = object.value)
  BY <1>1, <1>2, <1>3, UpdateAdvances
<1>5. /\ ~Paused /\ shared' = [sh EXCEPT !.comparedThisFrame = FALSE]
      /\ object' = [object EXCEPT !.dirty = {}] /\ UNCHANGED client
  BY <1>3 DEF ReplicateActor
<1>6. PICK changed : changed = Changed(Refreshed, sh, CurrentFlags)
  OBVIOUS
<1>7. PICK inactive : inactive = InactiveUnder(CurrentFlags)
  OBVIOUS
<1>8. PICK s : s = Replicated(Refreshed, sh, CurrentFlags, changed, inactive)
  OBVIOUS
<1>9. \/ /\ NothingToDo(Refreshed, sh, CurrentFlags)
         /\ sending' = Idle(Refreshed, sh) /\ channel' = Unpaused /\ UNCHANGED network
      \/ /\ channel.opened /\ changed \subseteq inactive
         /\ sending' = s /\ channel' = Unpaused /\ UNCHANGED network
      \/ /\ ~(channel.opened /\ changed \subseteq inactive)
         /\ SendBunch(s, [p \in changed \ inactive |-> object.value[p]], size)
  BY <1>3, <1>6, <1>7, <1>8 DEF ReplicateActor
<1>10. CASE /\ NothingToDo(Refreshed, sh, CurrentFlags)
            /\ sending' = Idle(Refreshed, sh) /\ channel' = Unpaused /\ UNCHANGED network
  BY <1>3, <1>5, <1>10, IdleStep
<1>11. CASE /\ channel.opened /\ changed \subseteq inactive
            /\ sending' = s /\ channel' = Unpaused /\ UNCHANGED network
  BY <1>4, <1>5, <1>6, <1>7, <1>8, <1>11, SilentStep
<1>12. CASE /\ ~(channel.opened /\ changed \subseteq inactive)
            /\ SendBunch(s, [p \in changed \ inactive |-> object.value[p]], size)
  <2>1. PICK values : values = [p \in changed \ inactive |-> object.value[p]]
    OBVIOUS
  <2>2. SendBunch(s, values, size)
    BY <1>12, <2>1
  <2> QED BY <1>4, <1>5, <1>6, <1>7, <1>8, <1>12, <2>1, <2>2, SendStep
<1> QED BY <1>9, <1>10, <1>11, <1>12

LEMMA InitInvariant == Init => IInv
<1> SUFFICES ASSUME Init PROVE IInv
  OBVIOUS
<1>1. NoFlags \in FlagsType /\ NoPart \in BunchType \cup {NoPart} /\ Value \subseteq Nat /\ 0 \in Value
  BY Constants DEF NoFlags, FlagsType, Value
<1>2. object \in ObjectType /\ client \in ClientType
  BY <1>1, Constants DEF Init, ObjectType, ClientType
<1>3. shared \in SharedType
  BY <1>1 DEF Init, SharedType
<1>4. sending \in SendingType /\ sending.history = <<>>
  BY <1>1 DEF Init, SendingType
<1>5. channel \in ChannelType /\ channel.OutRec = <<>>
  BY DEF Init, ChannelType
<1>6. network \in NetworkType /\ network.packets = <<>>
  BY Constants DEF Init, NetworkType
<1>7. TypeOK
  BY <1>2, <1>3, <1>4, <1>5, <1>6 DEF TypeOK
<1>8. HistoryAgrees
  <2>1. {i \in DOMAIN sending.history : sending.history[i].Resend} = {}
    BY <1>4
  <2>2. sending.NumNaks = Cardinality({i \in DOMAIN sending.history : sending.history[i].Resend})
    BY <2>1, FS_EmptySet DEF Init
  <2>3. \A i \in DOMAIN sending.history :
          sending.history[i].Changed # {} /\ sending.history[i].First # 0
    BY <1>4
  <2>4. Len(sending.history) < MAX_SENT_HISTORY
    BY <1>4, Constants
  <2>5. shared.HistoryEnd - shared.HistoryStart < MAX_CHANGE_HISTORY
    BY Constants DEF Init
  <2> QED BY <1>7, <2>2, <2>3, <2>4, <2>5 DEF HistoryAgrees
<1>9. Compares
  BY Constants DEF Init, Compares
<1>10. Unopened
  BY DEF Init, Unopened
<1>11. HistoryInOrder
  BY <1>4 DEF Init, HistoryInOrder, Answered
<1>12. Activity
  BY DEF Init, Activity
<1>13. ReliableInOrder /\ PacketsInOrder /\ UpdatesInBetween
  BY DEF Init, ReliableInOrder, PacketsInOrder, UpdatesInBetween
<1>14. NothingNewer
  BY DEF Init, NothingNewer, Older
<1>15. ClientInOrder(client) /\ Queue
  BY DEF Init, ClientInOrder, Queue, Finished
<1>16. NewestOnItsWay
  BY DEF Init, NewestOnItsWay
<1> QED BY <1>8, <1>9, <1>10, <1>11, <1>12, <1>13, <1>14, <1>15, <1>16 DEF IInv

LEMMA StutterInvariant ==
  ASSUME IInv, UNCHANGED vars
  PROVE  IInv'
<1>1. /\ object' = object /\ shared' = shared /\ sending' = sending
      /\ channel' = channel /\ network' = network /\ client' = client
  BY DEF vars
<1>2. HistoryAgrees' /\ Compares' /\ Unopened' /\ HistoryInOrder' /\ Activity'
  BY <1>1 DEF IInv, HistoryAgrees, TypeOK, Compares, Lists, Unopened, HistoryInOrder, Activity,
              Answered, Bunch
<1>3. ReliableInOrder' /\ PacketsInOrder' /\ UpdatesInBetween' /\ NothingNewer'
  BY <1>1 DEF IInv, ReliableInOrder, PacketsInOrder, UpdatesInBetween, NothingNewer,
              Answered, Finished, Bunch, Packet
<1>4. ClientInOrder(client)' /\ Queue'
  BY <1>1 DEF IInv, ClientInOrder, Queue, Received, Finished, Bunch, Packet
<1>5. NewestOnItsWay'
  BY <1>1 DEF IInv, NewestOnItsWay, OnItsWay, Gathered, Answered, Bunch, Packet
<1> QED BY <1>2, <1>3, <1>4, <1>5 DEF IInv

LEMMA NextInvariant ==
  ASSUME IInv, Next
  PROVE  IInv'
<1>1. CASE \E p \in Prop : SetValue(p)
  BY <1>1, SetValueStep
<1>2. CASE SetOwner
  BY <1>2, SetOwnerStep
<1>3. CASE \E bNetInitial \in BOOLEAN : ReplicateToOther(bNetInitial)
  BY <1>3, ReplicateToOtherStep
<1>4. CASE \E size \in Sizes : ReplicateActor(size)
  BY <1>4, ReplicateActorStep
<1>5. CASE SkipUpdate
  BY <1>5, SkipUpdateStep
<1>6. CASE \E known \in BOOLEAN : Arrive(known)
  BY <1>6, ArriveStep
<1>7. CASE Lose
  BY <1>7, LoseStep
<1>8. CASE Answer
  BY <1>8, AnswerPasses
<1> QED BY <1>1, <1>2, <1>3, <1>4, <1>5, <1>6, <1>7, <1>8 DEF Next

\* The invariant holds in every state.
THEOREM Invariant == Spec => []IInv
<1>1. IInv /\ [Next]_vars => IInv'
  BY NextInvariant, StutterInvariant
<1> QED BY InitInvariant, <1>1, PTL DEF Spec

-----------------------------------------------------------------------------
(* The properties                                                          *)

\* The histories of the connection and of the comparison are well formed and
\* never full (RepLayout.cpp, UpdateChangelistHistory and MergeChangeList).
THEOREM AlwaysHistoryAgrees == Spec => []HistoryAgrees
<1>1. IInv => HistoryAgrees
  BY DEF IInv
<1> QED BY <1>1, Invariant, PTL

\* A change that the client does not have is to be sent, or is in a packet
\* whose loss would have it sent again (ReplicateProperties, ReceivedNak).
THEOREM AlwaysNothingForgotten == Spec => []NothingForgotten
<1>1. ASSUME IInv PROVE NothingForgotten
  <2> SUFFICES ASSUME channel.opened, NEW p \in Prop, client.value[p] # shared.StaticBuffer[p]
               PROVE  \/ p \in Gathered(sending, shared)
                      \/ p \in sending.InactiveChangelist \cup sending.PreOpenAckHistory
                      \/ \E i \in DOMAIN sending.history : /\ p \in sending.history[i].Changed
                                                           /\ Unanswered(sending.history[i])
                      \/ \E i \in DOMAIN channel.OutRec : p \in DOMAIN channel.OutRec[i].bunch.values
    BY DEF NothingForgotten
  <2>1. OnItsWay(p)
    BY <1>1 DEF IInv, NewestOnItsWay
  <2>2. ASSUME NEW i \in DOMAIN sending.history, NEW k \in DOMAIN network.packets,
               sending.history[i].Last = Answered + k
        PROVE  Unanswered(sending.history[i])
    <3>1. network.OutAckPacketId <= Answered /\ Answered \in Nat /\ network.OutAckPacketId \in Nat
      BY <1>1, NetworkExact DEF IInv, HistoryInOrder, HistoryAgrees, TypeOK, NetworkType
    <3>2. k \in Nat /\ k > 0
      BY <1>1, NetworkExact
    <3>3. sending.history[i].Last > network.OutAckPacketId
      BY <2>2, <3>1, <3>2
    <3> QED BY <3>3 DEF Unanswered
  <2>3. ASSUME NEW i \in DOMAIN sending.history, sending.history[i].Resend
        PROVE  Unanswered(sending.history[i])
    BY <2>3 DEF Unanswered
  <2> QED BY <2>1, <2>2, <2>3 DEF OnItsWay, Bunch
<1> QED BY <1>1, Invariant, PTL

\* A replicator may go dormant only when its client has all that was compared
\* for it (FObjectReplicator::ReadyForDormancy).
THEOREM AlwaysDormantIsUpToDate == Spec => []DormantIsUpToDate
<1>1. ASSUME IInv PROVE DormantIsUpToDate
  <2> SUFFICES ASSUME ReadyForDormancy(sending), NEW p \in Prop, p \notin sending.InactiveParents
               PROVE  \/ client.value[p] = shared.StaticBuffer[p]
                      \/ p \in Gathered(sending, shared)
    BY DEF DormantIsUpToDate
  <2>1. /\ sending.bLastUpdateEmpty /\ sending.history = <<>>
        /\ sending.bOpenAckedCalled /\ sending.PreOpenAckHistory = {}
    BY DEF ReadyForDormancy
  <2>2. /\ channel.OpenAcked /\ channel.opened
        /\ sending.InactiveChangelist \subseteq sending.InactiveParents
        /\ \A i \in DOMAIN channel.OutRec : ~Bunch(i).bOpen
    BY <1>1, <2>1 DEF IInv, Activity
  <2>3. ASSUME NEW i \in DOMAIN channel.OutRec PROVE FALSE
    <3>1. Bunch(i).bOpen \/ (channel.bPausedUntilReliableACK /\ ~sending.bLastUpdateEmpty)
      BY <1>1 DEF IInv, ReliableInOrder
    <3> QED BY <2>1, <2>2, <3>1
  <2>4. OnItsWay(p)
    BY <1>1, <2>2 DEF IInv, NewestOnItsWay
  <2>5. DOMAIN sending.history = {}
    BY <2>1
  <2> QED BY <2>1, <2>2, <2>3, <2>4, <2>5 DEF OnItsWay
<1> QED BY <1>1, Invariant, PTL

\* With nothing marked dirty a comparison of push model properties finds no
\* change.
LEMMA NothingCompared ==
  ASSUME IInv, PushModelProperty = Prop, object.dirty = {}
  PROVE  /\ UpdateChangelistMgr(FALSE).HistoryStart = shared.HistoryStart
         /\ UpdateChangelistMgr(FALSE).HistoryEnd = shared.HistoryEnd
<1>1. shared \in SharedType
  BY DEF IInv, HistoryAgrees, TypeOK
<1>2. {p \in Compared(FALSE) : object.value[p] # shared.StaticBuffer[p]} = {}
  BY DEF Compared
<1>3. PICK lists : lists = [shared.ChangeHistory EXCEPT ![shared.HistoryEnd % MAX_CHANGE_HISTORY] = {}]
  OBVIOUS
<1>4. CompareProperties(FALSE) =
        [shared EXCEPT !.CompareIndex = Counted(@ + 1), !.comparedThisFrame = TRUE,
                       !.ChangeHistory = lists]
  BY <1>1, <1>2, <1>3 DEF CompareProperties, SharedType
<1>5. /\ CompareProperties(FALSE).HistoryStart = shared.HistoryStart
      /\ CompareProperties(FALSE).HistoryEnd = shared.HistoryEnd
  BY <1>1, <1>4 DEF SharedType
<1> QED BY <1>5 DEF UpdateChangelistMgr

\* An update that is left out would have sent nothing
\* (FObjectReplicator::CanSkipUpdate).
THEOREM AlwaysSkippedIsEmpty == Spec => []SkippedIsEmpty
<1>1. ASSUME IInv PROVE SkippedIsEmpty
  <2> SUFFICES ASSUME ~Paused, CanSkipUpdate(Refreshed, CurrentFlags)
               PROVE  Changed(Refreshed, UpdateChangelistMgr(FALSE), CurrentFlags) = {}
    BY DEF SkippedIsEmpty
  <2>1. PICK s : s = Refreshed
    OBVIOUS
  <2>2. PICK sh : sh = UpdateChangelistMgr(FALSE)
    OBVIOUS
  <2>3. PICK flags : flags = CurrentFlags
    OBVIOUS
  <2>4. /\ PushModelProperty = Prop /\ object.dirty = {}
        /\ s.RepFlags = flags /\ s.history = <<>>
        /\ s.LastChangelistIndex = shared.HistoryEnd
        /\ ~(s.bOpenAckedCalled /\ s.PreOpenAckHistory # {})
    BY <2>1, <2>3 DEF CanSkipUpdate
  <2>5. sh.HistoryStart = shared.HistoryStart /\ sh.HistoryEnd = shared.HistoryEnd
    BY <1>1, <2>2, <2>4, NothingCompared
  <2>6. Gathered(s, sh) = {}
    <3>1. /\ shared.HistoryStart \in Nat /\ shared.HistoryEnd \in Nat
          /\ shared.HistoryStart <= shared.HistoryEnd
      BY <1>1 DEF IInv, HistoryAgrees, TypeOK, SharedType, Compares
    <3>2. PICK from : from = IF s.LastChangelistIndex <= sh.HistoryStart
                             THEN sh.HistoryStart ELSE s.LastChangelistIndex
      OBVIOUS
    <3>3. from .. sh.HistoryEnd - 1 = {}
      BY <2>4, <2>5, <3>1, <3>2
    <3> QED BY <3>2, <3>3 DEF Gathered
  <2>7. NewlyActive(s, flags) = {}
    BY <2>4 DEF NewlyActive
  <2>8. {j \in Released(s) : Again(s, j)} = {}
    <3>1. DOMAIN s.history = {}
      BY <2>4
    <3> QED BY <3>1 DEF Released
  <2>9. (IF s.bOpenAckedCalled THEN s.PreOpenAckHistory ELSE {}) = {}
    BY <2>4
  <2>10. Changed(s, sh, flags) = {}
    BY <2>6, <2>7, <2>8, <2>9 DEF Changed
  <2> QED BY <2>1, <2>2, <2>3, <2>10
<1> QED BY <1>1, Invariant, PTL

\* The client never gets an older value of a property after a newer one
\* (ReceivedRawBunch, ReceivedNextBunch).
THEOREM AlwaysNeverGoesBack == Spec => NeverGoesBack
<1>1. ASSUME IInv, [Next]_vars PROVE \A p \in Prop : client'.value[p] >= client.value[p]
  <2>1. client.value \in [Prop -> Nat]
    BY <1>1, Constants DEF IInv, HistoryAgrees, TypeOK, ClientType, Value
  <2>2. CASE UNCHANGED client
    BY <2>1, <2>2
  <2>3. CASE client' # client
    <3>1. PICK known \in BOOLEAN : Arrive(known)
      BY <1>1, <2>3 DEF Next, vars, SetValue, SetOwner, ReplicateToOther, ReplicateActor, SkipUpdate,
                        Lose, Answer
    <3>2. IInv' /\ \A p \in Prop : client.value[p] <= client'.value[p]
      BY <1>1, <3>1, ArriveStep
    <3>3. client'.value \in [Prop -> Nat]
      BY <3>2, Constants DEF IInv, HistoryAgrees, TypeOK, ClientType, Value
    <3> QED BY <2>1, <3>2, <3>3
  <2> QED BY <2>2, <2>3
<1>2. IInv /\ [Next]_vars => [\A p \in Prop : client'.value[p] >= client.value[p]]_vars
  BY <1>1
<1> QED BY <1>2, Invariant, PTL DEF Spec, NeverGoesBack

\* What has a value is in the lists that a new connection gathers.
LEMMA ValuesAreListed ==
  ASSUME IInv, NEW sh, Advanced(sh), NEW p \in Prop, sh.StaticBuffer[p] # 0
  PROVE  InLists(sh, 0, p)
<1>1. /\ shared \in SharedType /\ shared.HistoryEnd \in Nat
      /\ shared.StaticBuffer[p] # 0 => p \in UNION Lists(shared)
  BY DEF IInv, HistoryAgrees, TypeOK, Compares, SharedType
<1>2. shared.StaticBuffer[p] # 0 => InLists(shared, 0, p)
  BY <1>1, ListsAreIn
<1>3. 0 \in Nat /\ 0 <= shared.HistoryEnd
  BY <1>1
<1> QED BY <1>2, <1>3 DEF Advanced

LEMMA OpeningStep ==
  ASSUME IInv, Next, ~channel.opened, channel'.opened
  PROVE  \A p \in Prop \ sending'.InactiveParents :
            object.value[p] # 0 =>
                LET values == Last(channel'.OutRec).bunch.values
                IN p \in DOMAIN values /\ values[p] = object.value[p]
<1>1. TypeOK /\ Compares /\ channel \in ChannelType /\ sending \in SendingType
  BY DEF IInv, HistoryAgrees, TypeOK
<1>2. PICK size \in Sizes : ReplicateActor(size)
  <2>1. ~SkipUpdate
    BY DEF SkipUpdate, CanSkipUpdate, CurrentFlags
  <2>2. ~Answer
    BY <1>1 DEF Answer, ReceivedAck, ReceivedNak, ChannelType
  <2> QED BY <2>1, <2>2 DEF Next, SetValue, SetOwner, ReplicateToOther, Arrive, Lose
<1>3. PICK sh : sh = UpdateChangelistMgr(~channel.opened)
  OBVIOUS
<1>4. Advanced(sh) /\ sh.StaticBuffer = object.value
  <2>1. PICK initial \in BOOLEAN : initial = ~channel.opened
    OBVIOUS
  <2> QED BY <1>1, <1>3, <2>1, UpdateAdvances
<1>5. ~Paused /\ UNCHANGED client
  BY <1>2 DEF ReplicateActor
<1>6. PICK changed : changed = Changed(Refreshed, sh, CurrentFlags)
  OBVIOUS
<1>7. PICK inactive : inactive = InactiveUnder(CurrentFlags)
  OBVIOUS
<1>8. PICK s : s = Replicated(Refreshed, sh, CurrentFlags, changed, inactive)
  OBVIOUS
<1>9. PICK values : values = [p \in changed \ inactive |-> object.value[p]]
  OBVIOUS
<1>10. SendBunch(s, values, size)
  <2>1. channel' # Unpaused
    BY <1>5, UnpausedExact
  <2> QED BY <1>2, <1>3, <1>6, <1>7, <1>8, <1>9, <2>1 DEF ReplicateActor
<1>11. /\ changed \in SUBSET Prop
       /\ \A p \in Prop : InLists(sh, sending.LastChangelistIndex, p) => p \in changed
  BY <1>4, <1>5, <1>6, ChangedExact
<1>12. sending.LastChangelistIndex = 0
  BY DEF IInv, Unopened
<1>13. PICK items \in SUBSET Prop : items = changed \ inactive
  BY <1>11
<1>14. PICK buf : buf = sh.StaticBuffer
  OBVIOUS
<1>15. values \in [items -> Value] /\ \A p \in items : values[p] = buf[p]
  <2>1. ValuesAsCompared(Values(items), items, sh)
    BY <1>4, <1>7, <1>11, <1>13, ValuesCompared
  <2>2. values = Values(items)
    BY <1>9, <1>13 DEF Values
  <2> QED BY <1>14, <2>1, <2>2 DEF ValuesAsCompared
<1>16. PICK k \in {1, 2} : UpdateSent(k, s, values, size, buf)
  <2>1. /\ buf \in [Prop -> Nat]
        /\ Older(client.value, buf)
        /\ \A i \in DOMAIN channel.OutRec : Older(Bunch(i).values, buf)
        /\ \A i \in DOMAIN network.packets : Older(Packet(i).bunch.values, buf)
    BY <1>4, <1>14, StillOlder
  <2>2. Newest(values, buf)
    BY <1>15, <2>1 DEF Newest
  <2> QED BY <1>5, <1>10, <1>13, <1>15, <2>2, BunchesSent
<1>17. PICK i \in DOMAIN channel'.OutRec : i = Len(channel'.OutRec) /\ Bunch(i)'.values = values
  BY <1>16 DEF UpdateSent
<1>18. Last(channel'.OutRec).bunch.values = values
  BY <1>17 DEF Last, Bunch
<1>19. sending'.InactiveParents = inactive
  <2>1. PICK flags \in FlagsType : flags = CurrentFlags
    BY FlagsTyped
  <2>2. PICK n \in Nat : n = Len(sending.history)
    BY HistoryExact
  <2>3. PICK m \in 0 .. n : Replicates(s, sh, flags, changed, inactive, n, m)
    <3>1. s = Replicated(Refreshed, sh, flags, changed, inactive)
      BY <1>8, <2>1
    <3> QED BY <1>4, <1>5, <1>6, <1>7, <2>1, <2>2, <3>1, ReplicatedSent
  <2>4. s \in SendingType /\ s.InactiveParents = inactive
    BY <2>3 DEF Replicates
  <2>5. PICK first : first = network.OutPacketId + 1
    OBVIOUS
  <2>6. PICK last : last = network.OutPacketId + k
    OBVIOUS
  <2>7. PICK reliable \in BOOLEAN : reliable = (~channel.opened \/ size = "large")
    OBVIOUS
  <2>8. PICK paused \in BOOLEAN : paused = (size = "large")
    OBVIOUS
  <2>9. sending' = PostSendBunch(s, first, last, reliable, paused)
    BY <1>16, <2>5, <2>6, <2>7, <2>8 DEF UpdateSent
  <2> QED BY <2>4, <2>9 DEF PostSendBunch, SendingType
<1>20. ASSUME NEW p \in Prop, p \notin inactive, object.value[p] # 0
       PROVE  p \in DOMAIN values /\ values[p] = object.value[p]
  <2>1. InLists(sh, 0, p)
    BY <1>4, <1>20, ValuesAreListed
  <2>2. p \in items
    BY <1>11, <1>12, <1>13, <1>20, <2>1
  <2> QED BY <1>4, <1>14, <1>15, <2>2
<1> QED BY <1>18, <1>19, <1>20

\* The open bunch has every active property as it is, however the changes were
\* compared before (CompareProperties, ReplicateProperties).
THEOREM AlwaysOpenBunchIsComplete == Spec => OpenBunchIsComplete
<1>1. IInv /\ [Next]_vars =>
        [~channel.opened /\ channel'.opened =>
            \A p \in Prop \ sending'.InactiveParents :
                object.value[p] # 0 =>
                    LET values == Last(channel'.OutRec).bunch.values
                    IN p \in DOMAIN values /\ values[p] = object.value[p]]_vars
  BY OpeningStep DEF vars
<1> QED BY <1>1, Invariant, PTL DEF Spec, OpenBunchIsComplete

\* What is dispatched from the queue is never skipped, though its packet would
\* not be sent again if it were (UChannel::ReceivedRawBunch).
THEOREM QueueIsNeverSkipped == Spec => []QueueNeverSkips
<1>1. ASSUME IInv PROVE QueueNeverSkips
  <2> SUFFICES ASSUME \E i \in DOMAIN network.packets : network.packets[i].fate = "sent",
                      NEW o, o = OldestInFlight, NEW queued,
                      queued = client.InRec \cup {network.packets[o].bunch},
                      network.packets[o].bunch.bReliable,
                      network.packets[o].bunch.ChSequence > client.InReliable,
                      NEW n \in client.InReliable + 1 .. LastInOrder(queued)
               PROVE  ~Dispatched(queued)[n].skipAck
    BY DEF QueueNeverSkips
  <2>1. TypeOK /\ client.InReliable \in Nat
    BY <1>1 DEF IInv, HistoryAgrees, TypeOK, ClientType
  <2>2. /\ o \in DOMAIN network.packets /\ network.packets[o].fate = "sent"
        /\ \A j \in 1 .. o - 1 : network.packets[j].fate # "sent"
    BY <2>1, OldestExact
  <2>3. \A b \in queued : \E i \in DOMAIN channel.OutRec :
            /\ b = Bunch(i) /\ b.ChSequence > client.InReliable
            /\ ~b.bOpen => \A k \in DOMAIN network.packets :
                              ~Packet(k).bunch.bReliable => Packet(k).fate # "sent"
    <3>1. /\ Packet(o).fate = "sent" /\ Packet(o).bunch.bReliable
          /\ Packet(o).bunch.ChSequence > client.InReliable
          /\ queued = client.InRec \cup {Packet(o).bunch}
      BY <2>2 DEF Packet
    <3> QED BY <1>1, <2>2, <3>1, QueuedIsNext
  <2>4. LastInOrder(queued) \in Nat
    BY <1>1, <2>3, LastInOrderExact
  <2>5. n \in client.InReliable .. LastInOrder(queued)
    BY <2>1, <2>4
  <2> QED BY <1>1, <2>3, <2>5, DispatchedExact
<1> QED BY <1>1, Invariant, PTL

=============================================================================
