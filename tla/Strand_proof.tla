---------------------------- MODULE Strand_proof ----------------------------
(***************************************************************************)
(* Proofs about Strand, for any number of sessions, clones and threads and *)
(* whatever the limits.                                                    *)
(***************************************************************************)
EXTENDS Strand, Basics

-----------------------------------------------------------------------------
(* The clones of a session.                                                *)

Chains(f, k) == f = [i \in 0 .. Clones |-> IF i = 0 THEN k ELSE NextIp[f[i - 1]]]

(* The addresses a session is cloned to are keys.                          *)
LEMMA ChainExists ==
  ASSUME NEW k \in Keys
  PROVE  \E f : Chains(f, k)
<1> DEFINE Chain(f, n) == f = [i \in 0 .. n |-> IF i = 0 THEN k ELSE NextIp[f[i - 1]]]
           N == {n \in Nat : \E f : Chain(f, n)}
<1>1. 0 \in N
  <2>1. Chain([i \in 0 .. 0 |-> k], 0)
    OBVIOUS
  <2> QED BY <2>1
<1>2. ASSUME NEW n \in Nat, n \in N PROVE n + 1 \in N
  <2>1. PICK f : Chain(f, n)
    BY <1>2
  <2> DEFINE g == [i \in 0 .. n + 1 |-> IF i <= n THEN f[i] ELSE NextIp[f[i - 1]]]
  <2>2. ASSUME NEW i \in 0 .. n + 1
        PROVE  g[i] = IF i = 0 THEN k ELSE NextIp[g[i - 1]]
    <3>1. i <= n => f[i] = IF i = 0 THEN k ELSE NextIp[f[i - 1]]
      <4> HIDE DEF g
      <4> SUFFICES ASSUME i <= n
                   PROVE  f[i] = IF i = 0 THEN k ELSE NextIp[f[i - 1]]
        OBVIOUS
      <4>1. i \in 0 .. n
        OBVIOUS
      <4> QED BY <2>1, <4>1
    <3>2. i # 0 => i - 1 \in 0 .. n + 1 /\ i - 1 <= n
      OBVIOUS
    <3>3. i # 0 => g[i - 1] = f[i - 1]
      BY <3>2
    <3> QED BY <3>1, <3>3
  <2>3. Chain(g, n + 1)
    BY <2>2
  <2> HIDE DEF g
  <2>4. \E h : Chain(h, n + 1)
    BY <2>3
  <2> HIDE DEF Chain
  <2> QED BY <2>4
<1> HIDE DEF N
<1>3. Clones \in N
  BY <1>1, <1>2, Induct, StrandAssumption
<1> QED BY <1>3 DEF N, Chains

LEMMA ChainType ==
  ASSUME NEW k \in Keys, NEW f, Chains(f, k)
  PROVE  f \in [0 .. Clones -> Keys]
<1>1. \A i \in 0 .. Clones : f[i] = IF i = 0 THEN k ELSE NextIp[f[i - 1]]
  BY DEF Chains
<1> DEFINE N == {n \in Nat : n <= Clones => f[n] \in Keys}
<1>2. 0 \in N
  BY <1>1, StrandAssumption
<1>3. ASSUME NEW n \in Nat, n \in N PROVE n + 1 \in N
  <2> SUFFICES ASSUME n + 1 <= Clones PROVE f[n + 1] \in Keys
    OBVIOUS
  <2>1. n + 1 \in 0 .. Clones /\ n + 1 # 0 /\ (n + 1) - 1 = n /\ n <= Clones
    BY StrandAssumption
  <2>2. f[n + 1] = NextIp[f[n]]
    BY <1>1, <2>1
  <2>3. f[n] \in Keys
    BY <1>3, <2>1
  <2> QED BY <2>2, <2>3, StrandAssumption
<1> HIDE DEF N
<1>4. \A n \in Nat : n \in N
  BY <1>2, <1>3, Induct
<1>5. \A i \in 0 .. Clones : f[i] \in Keys
  BY <1>4, StrandAssumption DEF N
<1>6. f = [i \in 0 .. Clones |-> f[i]]
  BY DEF Chains
<1> QED BY <1>5, <1>6

(* clone_sessions adds at most Clones sessions, all different and none of  *)
(* them under a key that is taken.                                         *)
LEMMA ClonesShape ==
  ASSUME NEW k \in Keys, NEW taken
  PROVE  /\ ClonesOf(k, taken) \in Seq(Keys)
         /\ Len(ClonesOf(k, taken)) \in 0 .. Clones
         /\ Injective(ClonesOf(k, taken))
         /\ Range(ClonesOf(k, taken)) \cap taken = {}
<1> DEFINE f == CHOOSE f : Chains(f, k)
           Free(n) == \A i \in 1 .. n : /\ f[i] \notin taken
                                        /\ \A j \in 1 .. (i - 1) : f[i] # f[j]
           Best(n) == Free(n) /\ \A m \in 0 .. Clones : Free(m) => m <= n
           num == CHOOSE n \in 0 .. Clones : Best(n)
           c == [i \in 1 .. num |-> f[i]]
<1>1. f \in [0 .. Clones -> Keys]
  <2>1. Chains(f, k)
    BY ChainExists
  <2> HIDE DEF f
  <2> QED BY <2>1, ChainType
<1>2. ClonesOf(k, taken) = c
  BY DEF ClonesOf, Chains
<1> HIDE DEF f
<1>3. num \in 0 .. Clones /\ Free(num)
  <2> DEFINE F == {n \in 0 .. Clones : Free(n)}
  <2>1. F \in SUBSET (0 .. Clones) /\ Clones \in Nat
    BY StrandAssumption
  <2>2. 0 \in F
    BY StrandAssumption
  <2>3. F # {}
    BY <2>2
  <2> HIDE DEF F
  <2>4. \E n \in F : \A m \in F : m <= n
    BY <2>1, <2>3, GreatestNat
  <2> USE DEF F
  <2>5. \E n \in 0 .. Clones : Best(n)
    <3>1. PICK n \in F : \A m \in F : m <= n
      BY <2>4
    <3>2. n \in 0 .. Clones /\ Free(n)
      BY <3>1
    <3>3. \A m \in 0 .. Clones : Free(m) => m <= n
      BY <3>1
    <3> QED BY <3>2, <3>3
  <2> HIDE DEF F, Free
  <2> QED BY <2>5
<1> HIDE DEF num
<1>4. c \in Seq(Keys) /\ Len(c) = num /\ \A i \in 1 .. num : c[i] = f[i]
  <2>1. \A i \in 1 .. num : f[i] \in Keys
    BY <1>1, <1>3, StrandAssumption
  <2> QED BY <1>3, <2>1
<1>5. Injective(c)
  <2>1. \A i, j \in 1 .. num : i > j => f[i] # f[j]
    BY <1>3
  <2>2. \A i, j \in 1 .. num : f[i] = f[j] => i = j
    BY <1>3, <2>1
  <2> QED BY <1>4, <2>2 DEF Injective
<1>6. Range(c) \cap taken = {}
  <2>1. \A i \in 1 .. num : f[i] \notin taken
    BY <1>3
  <2>2. Range(c) = {c[i] : i \in 1 .. Len(c)}
    BY <1>4, RangeOf
  <2> HIDE DEF c
  <2> QED BY <1>4, <2>1, <2>2
<1> HIDE DEF c
<1> QED BY <1>2, <1>3, <1>4, <1>5, <1>6
-----------------------------------------------------------------------------
(* Counting sessions.                                                      *)

LEMMA Finite ==
  ASSUME NEW S \in SUBSET Keys
  PROVE  IsFiniteSet(S) /\ Cardinality(S) \in Nat
BY FS_Subset, FS_CardinalityType, StrandAssumption

LEMMA Fewer ==
  ASSUME NEW S \in SUBSET Keys, NEW T \in SUBSET S
  PROVE  Cardinality(T) \in Nat /\ Cardinality(T) <= Cardinality(S)
BY Finite, FS_Subset, FS_CardinalityType

LEMMA OneLess ==
  ASSUME NEW S \in SUBSET Keys, NEW k \in S
  PROVE  Cardinality(S \ {k}) = Cardinality(S) - 1
BY Finite, FS_RemoveElement

LEMMA OneMore ==
  ASSUME NEW S \in SUBSET Keys, NEW k \in Keys \ S
  PROVE  Cardinality(S \cup {k}) = Cardinality(S) + 1
BY Finite, FS_AddElement

LEMMA Together ==
  ASSUME NEW S \in SUBSET Keys, NEW T \in SUBSET Keys
  PROVE  /\ Cardinality(S \cup T) <= Cardinality(S) + Cardinality(T)
         /\ S \cap T = {} => Cardinality(S \cup T) = Cardinality(S) + Cardinality(T)
<1>1. /\ IsFiniteSet(S) /\ IsFiniteSet(T)
      /\ Cardinality(S) \in Nat /\ Cardinality(T) \in Nat
      /\ Cardinality(S \cap T) \in Nat
  BY Finite
<1>2. Cardinality(S \cup T) = Cardinality(S) + Cardinality(T) - Cardinality(S \cap T)
  BY <1>1, FS_Union
<1>3. S \cap T = {} => Cardinality(S \cap T) = 0
  BY FS_EmptySet
<1> QED BY <1>1, <1>2, <1>3

LEMMA Times ==
  ASSUME NEW c \in Nat, NEW a \in Nat, NEW b \in Nat, a <= b
  PROVE  c * a \in Nat /\ c * b \in Nat /\ c * a <= c * b
<1>1. PICK d \in Nat : b = a + d
  <2>1. b - a \in Nat /\ b = a + (b - a)
    OBVIOUS
  <2> QED BY <2>1
<1>2. c * a \in Nat /\ c * d \in Nat /\ c * (a + d) = c * a + c * d
  OBVIOUS
<1> QED BY <1>1, <1>2

Room(S, A) == Cardinality(S \ Offline) + Clones * Cardinality(A)
                 <= SessionLimit * (Clones + 1)

LEMMA RoomFewer ==
  ASSUME NEW S \in SUBSET Keys, NEW A \in SUBSET Keys, Room(S, A),
         NEW S2 \in SUBSET Keys, NEW A2 \in SUBSET A,
         S2 \ Offline \subseteq S
  PROVE  Room(S2, A2)
<1>1. /\ Cardinality(S2 \ Offline) \in Nat /\ Cardinality(S \ Offline) \in Nat
      /\ Cardinality(S2 \ Offline) <= Cardinality(S \ Offline)
  <2>1. S \ Offline \in SUBSET Keys /\ S2 \ Offline \in SUBSET (S \ Offline)
    OBVIOUS
  <2> QED BY <2>1, Fewer, Finite
<1>2. /\ Cardinality(A2) \in Nat /\ Cardinality(A) \in Nat
      /\ Cardinality(A2) <= Cardinality(A)
  BY Fewer, Finite
<1>3. /\ Clones * Cardinality(A2) <= Clones * Cardinality(A)
      /\ Clones * Cardinality(A2) \in Nat /\ Clones * Cardinality(A) \in Nat
  BY <1>2, Times, StrandAssumption
<1>4. SessionLimit * (Clones + 1) \in Nat
  BY StrandAssumption
<1> QED BY <1>1, <1>3, <1>4 DEF Room

LEMMA RoomBelow ==
  ASSUME NEW S \in SUBSET Keys, NEW A \in SUBSET S,
         Cardinality(S) <= SessionLimit
  PROVE  Room(S, A)
<1>1. /\ Cardinality(S \ Offline) \in Nat /\ Cardinality(S) \in Nat
      /\ Cardinality(S \ Offline) <= SessionLimit
  <2>1. S \ Offline \in SUBSET S
    OBVIOUS
  <2> QED BY <2>1, Fewer, Finite, StrandAssumption
<1>2. Cardinality(A) \in Nat /\ Cardinality(A) <= SessionLimit
  BY <1>1, Fewer, Finite, StrandAssumption
<1>3. /\ Clones * Cardinality(A) <= Clones * SessionLimit
      /\ Clones * Cardinality(A) \in Nat /\ Clones * SessionLimit \in Nat
  BY <1>2, Times, StrandAssumption
<1>4. SessionLimit * (Clones + 1) = SessionLimit + Clones * SessionLimit
  BY StrandAssumption
<1> QED BY <1>1, <1>3, <1>4, StrandAssumption DEF Room

LEMMA RoomCloned ==
  ASSUME NEW S \in SUBSET Keys, NEW A \in SUBSET Keys, Room(S, A),
         NEW k \in A, NEW T \in SUBSET Keys, Cardinality(T) <= Clones
  PROVE  Room(S \cup T, A \ {k})
<1>1. /\ Cardinality((S \cup T) \ Offline) \in Nat
      /\ Cardinality(S \ Offline) \in Nat
      /\ Cardinality((S \cup T) \ Offline) <= Cardinality(S \ Offline) + Clones
  <2>1. /\ S \ Offline \in SUBSET Keys /\ T \ Offline \in SUBSET T
        /\ T \ Offline \in SUBSET Keys
        /\ (S \cup T) \ Offline = (S \ Offline) \cup (T \ Offline)
    OBVIOUS
  <2>2. Cardinality(T \ Offline) \in Nat /\ Cardinality(T \ Offline) <= Cardinality(T)
    BY <2>1, Fewer
  <2>3. Cardinality((S \cup T) \ Offline)
          <= Cardinality(S \ Offline) + Cardinality(T \ Offline)
    BY <2>1, Together
  <2>4. Cardinality(S \ Offline) \in Nat /\ Cardinality((S \cup T) \ Offline) \in Nat
        /\ Cardinality(T) \in Nat
    <3>1. (S \cup T) \ Offline \in SUBSET Keys
      OBVIOUS
    <3> QED BY <2>1, <3>1, Finite
  <2> QED BY <2>2, <2>3, <2>4, StrandAssumption
<1>2. Cardinality(A \ {k}) = Cardinality(A) - 1 /\ Cardinality(A) \in Nat
  BY OneLess, Finite
<1>3. Clones * (Cardinality(A) - 1) = Clones * Cardinality(A) - Clones
  BY <1>2, StrandAssumption
<1>4. /\ Clones * Cardinality(A) \in Int
      /\ SessionLimit * (Clones + 1) \in Int
  BY <1>2, StrandAssumption
<1> QED BY <1>1, <1>2, <1>3, <1>4, StrandAssumption DEF Room
-----------------------------------------------------------------------------
(* The invariant, step by step.                                            *)

LEMMA LimitOfPass == PassLimit \in Int
<1>1. (ConcurrencyLimit + Threads) \div Threads \in Int
  BY StrandAssumption
<1> QED BY <1>1 DEF PassLimit

LEMMA InitInv == ASSUME Init PROVE StrandInv
<1>1. Sessions = {} /\ Accumulating = {} /\ Alive = {}
  BY DEF Init, Sessions, Accumulating, Alive
<1>2. TypeOK
  <2>1. /\ life \in [Keys -> Lives]
        /\ got \in [Keys -> (SUBSET Parts) \cup {Twice}]
        /\ handlers \in [Keys -> 0 .. HandlersBound]
    BY DEF Init, Lives, HandlersBound
  <2>2. order \in Seq(Keys) /\ cursor \in 1 .. (Len(order) + 1)
    BY DEF Init
  <2>3. /\ quiet = {} /\ timer = {} /\ started = {} /\ pc = "load"
        /\ healthy = 0 /\ polled = 0
    BY DEF Init
  <2>4. dangling \in BOOLEAN /\ jam \in BOOLEAN
    BY Zenon DEF Init
  <2> QED BY <1>1, <2>1, <2>2, <2>3, <2>4 DEF TypeOK
<1>3. Phases /\ NothingLeft /\ InStep
  BY DEF Init, Phases, NothingLeft, InStep
<1>4. RegistryAgrees
  <2>1. Range(<<>>) = {}
    BY DEF Range
  <2> QED BY <1>1, <2>1 DEF Init, RegistryAgrees
<1>5. Watched /\ StartedFirst /\ HealthyNotOver
  BY <1>1 DEF Init, Watched, StartedFirst, HealthyNotOver
<1>6. RoomForClones
  <2>1. Cardinality({}) = 0 /\ {} \in SUBSET Keys
    BY FS_EmptySet
  <2>2. Room({}, {})
    BY <2>1, RoomBelow, StrandAssumption
  <2> QED BY <1>1, <2>2 DEF Room, RoomForClones
<1> QED BY <1>2, <1>3, <1>4, <1>5, <1>6 DEF StrandInv

(* The steps of the strand's program counter.                              *)
LEMMA CounterInv ==
  ASSUME StrandInv,
         \/ StartJob \/ EndInject \/ PassDone \/ EndRecv \/ UNCHANGED vars
  PROVE  StrandInv'
<1>1. /\ UNCHANGED <<life, got, quiet, timer, handlers, dangling, order, healthy,
                     jam, started>>
      /\ \/ UNCHANGED <<pc, cursor, polled>>
         \/ pc = "posted" /\ pc' = "inject" /\ UNCHANGED <<cursor, polled>>
         \/ pc = "inject" /\ pc' = "send" /\ cursor' = 1 /\ polled' = 0
         \/ pc = "send" /\ pc' = "recv" /\ UNCHANGED <<cursor, polled>>
         \/ pc = "recv" /\ pc' = "posted" /\ UNCHANGED <<cursor, polled>>
  BY DEF StartJob, EndInject, PassDone, EndRecv, vars, manager, clock, loop
<1>2. /\ Sessions' = Sessions /\ Accumulating' = Accumulating /\ Alive' = Alive
  BY <1>1 DEF Sessions, Accumulating, Alive
<1>3. TypeOK'
  BY <1>1, <1>2 DEF StrandInv, TypeOK
<1>4. Phases' /\ NothingLeft' /\ InStep'
  BY <1>1, <1>2 DEF StrandInv, Phases, NothingLeft, InStep
<1>5. RegistryAgrees' /\ Watched' /\ StartedFirst' /\ RoomForClones'
  BY <1>1, <1>2 DEF StrandInv, RegistryAgrees, Watched, StartedFirst, RoomForClones
<1>6. HealthyNotOver'
  BY <1>1, <1>2 DEF StrandInv, HealthyNotOver
<1> QED BY <1>3, <1>4, <1>5, <1>6 DEF StrandInv

LEMMA LoadInv ==
  ASSUME StrandInv, NEW k \in Offline, DispatchIpPkt(k)
  PROVE  StrandInv'
<1>1. /\ pc = "load" /\ life[k] = "none" /\ k \in Keys
      /\ life' = [life EXCEPT ![k] = "loaded"]
      /\ order' = Append(order, k)
      /\ UNCHANGED <<got, healthy, jam, quiet, timer, handlers, dangling, pc,
                     cursor, polled, started>>
  BY StrandAssumption DEF DispatchIpPkt, clock, loop
<1>2. /\ Sessions' = Sessions \cup {k} /\ k \notin Sessions
      /\ Accumulating' = Accumulating /\ Accumulating = {} /\ Alive' = Alive
  BY <1>1 DEF StrandInv, TypeOK, Phases, Sessions, Accumulating, Alive
<1>3. /\ order' \in Seq(Keys) /\ Len(order') = Len(order) + 1
      /\ Range(order') = Range(order) \cup {k} /\ k \notin Range(order)
      /\ Injective(order')
  <2>1. order \in Seq(Keys) /\ Injective(order) /\ k \notin Range(order)
    BY <1>2 DEF StrandInv, TypeOK, RegistryAgrees, Injective
  <2> QED BY <1>1, <2>1, RangeAppend, InjectiveAppend
<1>4. TypeOK'
  BY <1>1, <1>2, <1>3 DEF StrandInv, TypeOK, Lives, Phases
<1>5. Phases' /\ NothingLeft' /\ InStep'
  BY <1>1, <1>2 DEF StrandInv, TypeOK, Phases, NothingLeft, InStep
<1>6. RegistryAgrees'
  BY <1>2, <1>3 DEF StrandInv, RegistryAgrees, Injective
<1>7. Watched' /\ StartedFirst' /\ HealthyNotOver'
  BY <1>1, <1>2 DEF StrandInv, Phases, Watched, StartedFirst, HealthyNotOver
<1>8. RoomForClones'
  <2>1. /\ Sessions \in SUBSET Keys /\ Sessions' \in SUBSET Keys
        /\ Accumulating \in SUBSET Keys /\ Room(Sessions, Accumulating)
        /\ Sessions' \ Offline \subseteq Sessions
    BY <1>1, <1>2 DEF StrandInv, Room, RoomForClones, Sessions, Accumulating
  <2>2. Room(Sessions', Accumulating')
    BY <2>1, <1>2, RoomFewer
  <2> QED BY <2>2 DEF Room, RoomForClones
<1> QED BY <1>4, <1>5, <1>6, <1>7, <1>8 DEF StrandInv

LEMMA CleanInv ==
  ASSUME StrandInv, NEW sick \in SUBSET Sessions, CleanSickSession(sick)
  PROVE  StrandInv'
<1>1. /\ pc = "load" /\ pc' = "ready"
      /\ life' = [k \in Keys |-> IF k \in sick THEN "none" ELSE life[k]]
      /\ order' = Selected(order, Keys \ sick)
      /\ UNCHANGED <<got, healthy, jam, quiet, timer, handlers, dangling,
                     cursor, polled, started>>
  BY DEF CleanSickSession, clock, loop
<1>2. /\ Sessions' = Sessions \ sick
      /\ Accumulating' = {} /\ Accumulating = {} /\ Alive' = {}
  BY <1>1 DEF StrandInv, Phases, Sessions, Accumulating, Alive
<1>3. /\ order' \in Seq(Keys)
      /\ Range(order') = Range(order) \cap (Keys \ sick)
      /\ Injective(order')
  <2>1. order \in Seq(Keys) /\ Injective(order)
    BY DEF StrandInv, TypeOK, RegistryAgrees, Injective
  <2> QED BY <1>1, <2>1, SelectedShape
<1>4. TypeOK'
  <2>1. life' \in [Keys -> Lives]
    BY <1>1 DEF StrandInv, TypeOK, Lives
  <2>2. cursor' = 1 /\ Len(order') \in Nat
    BY <1>1, <1>3 DEF StrandInv, Phases
  <2>3. timer' = {} /\ started' = {} /\ quiet' = {}
    BY <1>1, <1>2 DEF StrandInv, Phases, TypeOK
  <2> QED BY <1>1, <1>2, <1>3, <2>1, <2>2, <2>3 DEF StrandInv, TypeOK
<1>5. Phases' /\ NothingLeft' /\ InStep'
  BY <1>1, <1>2 DEF StrandInv, TypeOK, Phases, NothingLeft, InStep
<1>6. RegistryAgrees'
  <2>1. Sessions \subseteq Keys
    BY DEF Sessions
  <2> QED BY <1>2, <1>3, <2>1 DEF StrandInv, RegistryAgrees, Injective
<1>7. Watched' /\ StartedFirst' /\ HealthyNotOver'
  BY <1>1, <1>2, FS_EmptySet DEF StrandInv, Phases, Watched, StartedFirst, HealthyNotOver
<1>8. RoomForClones'
  <2>1. /\ Sessions \in SUBSET Keys /\ Sessions' \in SUBSET Keys
        /\ Accumulating \in SUBSET Keys /\ Room(Sessions, Accumulating)
        /\ Sessions' \ Offline \subseteq Sessions
    BY <1>1, <1>2 DEF StrandInv, Room, RoomForClones, Sessions, Accumulating
  <2>2. Room(Sessions', Accumulating')
    BY <2>1, <1>2, RoomFewer
  <2> QED BY <2>2 DEF Room, RoomForClones
<1> QED BY <1>4, <1>5, <1>6, <1>7, <1>8 DEF StrandInv

LEMMA ReadyInv == ASSUME StrandInv, GetReady PROVE StrandInv'
<1>1. /\ pc = "ready" /\ pc' = "posted"
      /\ life' = [k \in Keys |-> IF life[k] = "loaded" THEN "alive" ELSE life[k]]
      /\ healthy' = Cardinality(Sessions) /\ jam' = FALSE
      /\ UNCHANGED <<got, quiet, timer, handlers, dangling, order, cursor, polled,
                     started>>
  BY DEF GetReady, clock, loop
<1>2. /\ Sessions' = Sessions /\ Alive' = Sessions
      /\ Accumulating' = {} /\ Accumulating = {}
  BY <1>1 DEF StrandInv, Phases, Sessions, Accumulating, Alive
<1>3. Cardinality(Sessions) \in Nat
  <2>1. Sessions \in SUBSET Keys
    BY DEF Sessions
  <2> QED BY <2>1, Finite
<1>4. TypeOK'
  <2>1. life' \in [Keys -> Lives]
    BY <1>1 DEF StrandInv, TypeOK, Lives
  <2>2. timer' = {} /\ started' = {} /\ quiet' = {}
    BY <1>1, <1>2 DEF StrandInv, Phases, TypeOK
  <2>3. jam' \in BOOLEAN
    BY <1>1, Zenon
  <2>4. /\ UNCHANGED <<got, handlers, dangling, order, cursor, polled>>
        /\ pc' = "posted" /\ healthy' \in Int
    BY <1>1, <1>3
  <2> QED BY <2>1, <2>2, <2>3, <2>4 DEF StrandInv, TypeOK
<1>5. Phases' /\ NothingLeft' /\ InStep'
  BY <1>1, <1>2 DEF StrandInv, TypeOK, Phases, NothingLeft, InStep
<1>6. RegistryAgrees' /\ Watched' /\ StartedFirst' /\ RoomForClones'
  BY <1>1, <1>2 DEF StrandInv, RegistryAgrees, Watched, StartedFirst, RoomForClones
<1>7. HealthyNotOver'
  BY <1>1, <1>2, <1>3 DEF HealthyNotOver
<1> QED BY <1>4, <1>5, <1>6, <1>7 DEF StrandInv
-----------------------------------------------------------------------------
(* What a captured packet does.                                            *)

Injecting == /\ pc = "inject" /\ UNCHANGED <<pc, cursor, polled>>
             /\ jam' \in BOOLEAN

(* A session without a jam is a session below the ceiling.                 *)
LEMMA BelowCeiling ==
  ASSUME TypeOK, NEW k \in Keys, NEW part, ~Ignored(k, part)
  PROVE  /\ life[k] \in {"none", "accumulating"}
         /\ life[k] = "none" =>
              /\ k \notin Sessions
              /\ Cardinality(Sessions \cup {k}) <= SessionLimit
<1>1. life[k] \in {"none", "accumulating"}
  BY DEF Ignored
<1>2. ASSUME life[k] = "none"
      PROVE  k \notin Sessions /\ Cardinality(Sessions \cup {k}) <= SessionLimit
  <2>1. ~(Cardinality(Sessions) >= SessionLimit)
    BY <1>2 DEF Ignored, JamAfter
  <2>2. k \in Keys \ Sessions /\ Sessions \in SUBSET Keys
    BY <1>2 DEF Sessions
  <2>3. Cardinality(Sessions \cup {k}) = Cardinality(Sessions) + 1
        /\ Cardinality(Sessions) \in Nat
    BY <2>2, OneMore, Finite
  <2> QED BY <2>1, <2>2, <2>3, StrandAssumption
<1> QED BY <1>1, <1>2

(* A session that is not registered yet is registered once.                *)
LEMMA Registered ==
  ASSUME TypeOK, RegistryAgrees, NEW k \in Keys, order' = Append(order, k),
         k \notin Sessions \ Accumulating
  PROVE  /\ order' \in Seq(Keys) /\ Len(order') = Len(order) + 1
         /\ Len(order) \in Nat
         /\ \A i \in 1 .. Len(order) : order'[i] = order[i]
         /\ Range(order') = Range(order) \cup {k}
         /\ Injective(order')
<1>1. order \in Seq(Keys) /\ Injective(order) /\ k \notin Range(order)
  BY DEF TypeOK, RegistryAgrees, Injective
<1>2. /\ Append(order, k) \in Seq(Keys) /\ Len(Append(order, k)) = Len(order) + 1
      /\ Len(order) \in Nat
      /\ \A i \in 1 .. Len(order) : Append(order, k)[i] = order[i]
  BY <1>1
<1> QED BY <1>1, <1>2, RangeAppend, InjectiveAppend

LEMMA InjectIgnoredInv ==
  ASSUME StrandInv, Injecting, NEW k, NEW part, InjectIgnored(k, part)
  PROVE  StrandInv'
<1>1. /\ UNCHANGED <<life, got, healthy, quiet, timer, handlers, dangling, order,
                     started, pc, cursor, polled>>
      /\ pc = "inject" /\ jam' \in BOOLEAN
  BY DEF InjectIgnored, Injecting, clock
<1>2. /\ Sessions' = Sessions /\ Accumulating' = Accumulating /\ Alive' = Alive
  BY <1>1 DEF Sessions, Accumulating, Alive
<1>3. TypeOK'
  BY <1>1, <1>2 DEF StrandInv, TypeOK
<1>4. Phases' /\ NothingLeft' /\ InStep'
  BY <1>1, <1>2 DEF StrandInv, Phases, NothingLeft, InStep
<1>5. RegistryAgrees' /\ Watched' /\ StartedFirst' /\ RoomForClones'
  BY <1>1, <1>2 DEF StrandInv, RegistryAgrees, Watched, StartedFirst, RoomForClones
<1>6. HealthyNotOver'
  BY <1>1, <1>2 DEF StrandInv, HealthyNotOver
<1> QED BY <1>3, <1>4, <1>5, <1>6 DEF StrandInv

LEMMA InjectRstInv ==
  ASSUME StrandInv, Injecting, NEW k \in Keys, InjectRst(k)
  PROVE  StrandInv'
<1>1. /\ life' = [life EXCEPT ![k] = "abort"]
      /\ got' = [got EXCEPT ![k] = {}]
      /\ quiet' = quiet \ {k}
      /\ timer' = IF life[k] = "none" THEN timer \cup {k} ELSE timer
      /\ UNCHANGED <<handlers, dangling, healthy, started, pc, cursor, polled>>
      /\ pc = "inject" /\ jam' \in BOOLEAN
  BY DEF InjectRst, Injecting
<1>2. /\ life[k] \in {"none", "accumulating"}
      /\ life[k] = "none" =>
           /\ k \notin Sessions
           /\ Cardinality(Sessions \cup {k}) <= SessionLimit
  BY BelowCeiling DEF InjectRst, StrandInv
<1>3. /\ life' \in [Keys -> Lives] /\ got' \in [Keys -> (SUBSET Parts) \cup {Twice}]
      /\ \A j \in Keys : j # k => life'[j] = life[j] /\ got'[j] = got[j]
      /\ life'[k] = "abort" /\ got'[k] = {}
  BY <1>1 DEF StrandInv, TypeOK, Lives
<1>4. /\ Sessions' = Sessions \cup {k} /\ Accumulating' = Accumulating \ {k}
      /\ Alive' = Alive /\ k \notin Sessions \ Accumulating
      /\ k \in Sessions <=> life[k] # "none"
  BY <1>2, <1>3 DEF Sessions, Accumulating, Alive
<1>5. /\ order' \in Seq(Keys) /\ Len(order') = Len(order) + 1
      /\ Len(order) \in Nat
      /\ \A i \in 1 .. Len(order) : order'[i] = order[i]
      /\ Range(order') = Range(order) \cup {k}
      /\ Injective(order')
  BY <1>4, Registered DEF StrandInv, InjectRst
<1>6. TypeOK'
  <2>1. quiet' \subseteq Accumulating' /\ timer' \subseteq Sessions'
        /\ started' \subseteq Sessions'
    BY <1>1, <1>4 DEF StrandInv, TypeOK
  <2>2. cursor' \in 1 .. (Len(order') + 1)
    BY <1>1, <1>5 DEF StrandInv, TypeOK
  <2> QED BY <1>1, <1>3, <1>5, <2>1, <2>2 DEF StrandInv, TypeOK
<1>7. Phases' /\ InStep'
  BY <1>1, <1>3 DEF StrandInv, Phases, InStep
<1>8. NothingLeft'
  BY <1>3, <1>4 DEF StrandInv, NothingLeft
<1>9. RegistryAgrees'
  <2>1. k \in Sessions' \ Accumulating'
    BY <1>4
  <2> QED BY <1>4, <1>5, <2>1 DEF StrandInv, RegistryAgrees, Injective, Sessions
<1>10. Watched'
  BY <1>1, <1>4 DEF StrandInv, Watched, Accumulating
<1>11. StartedFirst'
  BY <1>1, <1>5 DEF StrandInv, StartedFirst
<1>12. HealthyNotOver'
  BY <1>1, <1>4 DEF StrandInv, HealthyNotOver
<1>13. RoomForClones'
  <2>1. /\ Sessions \in SUBSET Keys /\ Sessions' \in SUBSET Keys
        /\ Accumulating' \in SUBSET Sessions' /\ Accumulating \in SUBSET Keys
        /\ Accumulating' \in SUBSET Accumulating
    BY <1>4 DEF Sessions, Accumulating
  <2>2. CASE life[k] = "none"
    <3>1. Room(Sessions', Accumulating')
      BY <1>2, <1>4, <2>1, <2>2, RoomBelow
    <3> QED BY <3>1 DEF Room, RoomForClones
  <2>3. CASE life[k] # "none"
    <3>1. Sessions' = Sessions /\ Room(Sessions, Accumulating)
      BY <1>4, <2>3 DEF StrandInv, Room, RoomForClones
    <3>2. Room(Sessions', Accumulating')
      BY <2>1, <3>1, RoomFewer
    <3> QED BY <3>2 DEF Room, RoomForClones
  <2> QED BY <2>2, <2>3
<1> QED BY <1>6, <1>7, <1>8, <1>9, <1>10, <1>11, <1>12, <1>13 DEF StrandInv

(* A packet that leaves its session incomplete.                            *)
LEMMA InjectMoreInv ==
  ASSUME StrandInv, Injecting, NEW k \in Keys, NEW part, ~Ignored(k, part),
         NEW g \in (SUBSET Parts) \cup {Twice},
         life' = [life EXCEPT ![k] = "accumulating"],
         got' = [got EXCEPT ![k] = g],
         quiet' = quiet \ {k},
         timer' = IF life[k] = "none" THEN timer \cup {k} ELSE timer,
         UNCHANGED <<order, healthy, handlers, dangling, started>>
  PROVE  StrandInv'
<1>1. /\ pc = "inject" /\ jam' \in BOOLEAN
      /\ UNCHANGED <<pc, cursor, polled>>
  BY DEF Injecting
<1>2. /\ life[k] \in {"none", "accumulating"}
      /\ life[k] = "none" =>
           /\ k \notin Sessions
           /\ Cardinality(Sessions \cup {k}) <= SessionLimit
  BY BelowCeiling DEF StrandInv
<1>3. /\ life' \in [Keys -> Lives] /\ got' \in [Keys -> (SUBSET Parts) \cup {Twice}]
      /\ \A j \in Keys : j # k => life'[j] = life[j] /\ got'[j] = got[j]
      /\ life'[k] = "accumulating"
  BY DEF StrandInv, TypeOK, Lives
<1>4. /\ Sessions' = Sessions \cup {k} /\ Accumulating' = Accumulating \cup {k}
      /\ Alive' = Alive /\ Sessions' \ Accumulating' = Sessions \ Accumulating
      /\ k \in Sessions <=> life[k] # "none"
      /\ k \in Accumulating <=> life[k] # "none"
  BY <1>2, <1>3 DEF Sessions, Accumulating, Alive
<1>5. TypeOK'
  <2>1. quiet' \subseteq Accumulating' /\ timer' \subseteq Sessions'
        /\ started' \subseteq Sessions'
    BY <1>4 DEF StrandInv, TypeOK
  <2> QED BY <1>1, <1>3, <2>1 DEF StrandInv, TypeOK
<1>6. Phases' /\ InStep'
  BY <1>1, <1>3 DEF StrandInv, Phases, InStep
<1>7. NothingLeft'
  BY <1>3, <1>4 DEF StrandInv, NothingLeft
<1>8. RegistryAgrees' /\ StartedFirst' /\ HealthyNotOver'
  BY <1>1, <1>4 DEF StrandInv, RegistryAgrees, StartedFirst, HealthyNotOver
<1>9. Watched'
  BY <1>1, <1>4 DEF StrandInv, Watched
<1>10. RoomForClones'
  <2>1. /\ Sessions \in SUBSET Keys /\ Sessions' \in SUBSET Keys
        /\ Accumulating' \in SUBSET Sessions' /\ Accumulating \in SUBSET Keys
    BY <1>4 DEF Sessions, Accumulating
  <2>2. CASE life[k] = "none"
    <3>1. Room(Sessions', Accumulating')
      BY <1>2, <1>4, <2>1, <2>2, RoomBelow
    <3> QED BY <3>1 DEF Room, RoomForClones
  <2>3. CASE life[k] # "none"
    <3>1. Sessions' = Sessions /\ Accumulating' = Accumulating
      BY <1>4, <2>3
    <3> QED BY <3>1 DEF StrandInv, RoomForClones
  <2> QED BY <2>2, <2>3
<1> QED BY <1>5, <1>6, <1>7, <1>8, <1>9, <1>10 DEF StrandInv
(* A single packet does not complete a session, and no packet takes what   *)
(* is collected out of its type.                                           *)
LEMMA CollectedType ==
  ASSUME NEW g \in (SUBSET Parts) \cup {Twice}, NEW part \in Parts \cup {"ack"}
  PROVE  /\ Collected(g, part) \in (SUBSET Parts) \cup {Twice}
         /\ g = {} => ~Sane(Collected(g, part))
BY DEF Collected, Sane, Parts, Twice

(* A packet that completes its session, which is cloned.                   *)
LEMMA InjectLastInv ==
  ASSUME StrandInv, Injecting, NEW k \in Keys, life[k] = "accumulating",
         NEW clones, clones = ClonesOf(k, Sessions \cup {k}),
         life' = [j \in Keys |-> IF j = k \/ j \in Range(clones)
                                 THEN "alive" ELSE life[j]],
         got' = [got EXCEPT ![k] = {}],
         quiet' = quiet \ {k}, timer' = timer \ {k},
         order' = Append(order, k) \o clones,
         healthy' = healthy + 1 + Len(clones),
         UNCHANGED <<handlers, dangling, started>>
  PROVE  StrandInv'
<1>1. /\ pc = "inject" /\ jam' \in BOOLEAN
      /\ UNCHANGED <<pc, cursor, polled>>
  BY DEF Injecting
<1>2. /\ clones \in Seq(Keys) /\ Len(clones) \in 0 .. Clones
      /\ Injective(clones) /\ Range(clones) \cap (Sessions \cup {k}) = {}
  BY ClonesShape
<1>3. Range(clones) \in SUBSET Keys /\ Cardinality(Range(clones)) = Len(clones)
  BY <1>2, RangeOf, InjectiveCardinality
<1>4. /\ life' \in [Keys -> Lives] /\ got' \in [Keys -> (SUBSET Parts) \cup {Twice}]
      /\ \A j \in Keys : life'[j] = IF j = k \/ j \in Range(clones)
                                    THEN "alive" ELSE life[j]
      /\ \A j \in Keys : j # k => got'[j] = got[j]
      /\ got'[k] = {}
  BY DEF StrandInv, TypeOK, Lives
<1>5. /\ Sessions' = Sessions \cup Range(clones)
      /\ Accumulating' = Accumulating \ {k}
      /\ Alive' = (Alive \cup {k}) \cup Range(clones)
      /\ k \in Sessions /\ k \in Accumulating /\ k \notin Alive
      /\ (Alive \cup {k}) \cap Range(clones) = {}
      /\ Accumulating \cap Range(clones) = {}
  <2> DEFINE C == Range(clones)
  <2>1. C \in SUBSET Keys /\ C \cap (Sessions \cup {k}) = {} /\ life[k] = "accumulating"
    BY <1>2, <1>3
  <2>2. \A j \in Keys : life'[j] = IF j = k \/ j \in C THEN "alive" ELSE life[j]
    BY <1>4
  <2> HIDE DEF C
  <2>3. Sessions' = Sessions \cup C /\ k \in Sessions
    BY <2>1, <2>2 DEF Sessions
  <2>4. Accumulating' = Accumulating \ {k} /\ k \in Accumulating
    BY <2>1, <2>2 DEF Accumulating, Sessions
  <2>5. Alive' = (Alive \cup {k}) \cup C /\ k \notin Alive
    BY <2>1, <2>2 DEF Alive
  <2>6. (Alive \cup {k}) \cap C = {} /\ Accumulating \cap C = {}
    BY <2>1 DEF Alive, Accumulating, Sessions
  <2> QED BY <2>3, <2>4, <2>5, <2>6 DEF C
<1>6. /\ Append(order, k) \in Seq(Keys) /\ Len(Append(order, k)) = Len(order) + 1
      /\ Len(order) \in Nat
      /\ \A i \in 1 .. Len(order) : Append(order, k)[i] = order[i]
      /\ Range(Append(order, k)) = Range(order) \cup {k}
      /\ Injective(Append(order, k))
  <2>1. order \in Seq(Keys) /\ Injective(order) /\ k \notin Range(order)
    BY <1>5 DEF StrandInv, TypeOK, RegistryAgrees, Injective
  <2> QED BY <2>1, RangeAppend, InjectiveAppend
<1>7. /\ order' \in Seq(Keys) /\ Len(order') = Len(order) + 1 + Len(clones)
      /\ \A i \in 1 .. Len(order) : order'[i] = order[i]
      /\ Range(order') = (Range(order) \cup {k}) \cup Range(clones)
      /\ Injective(order')
  <2> DEFINE s == Append(order, k)
  <2>1. s \in Seq(Keys) /\ Len(s) = Len(order) + 1 /\ Injective(s)
        /\ Range(s) = Range(order) \cup {k}
        /\ \A i \in 1 .. Len(order) : s[i] = order[i]
    BY <1>6
  <2>2. Range(s) \cap Range(clones) = {}
    BY <1>2, <1>5, <2>1 DEF StrandInv, RegistryAgrees
  <2>3. order' = s \o clones
    OBVIOUS
  <2> HIDE DEF s
  <2>4. clones \in Seq(Keys) /\ Injective(clones)
    BY <1>2
  <2>5. /\ s \o clones \in Seq(Keys) /\ Len(s \o clones) = Len(s) + Len(clones)
        /\ \A i \in 1 .. Len(s) + Len(clones) :
              (s \o clones)[i] = IF i <= Len(s) THEN s[i] ELSE clones[i - Len(s)]
    BY <2>1, <2>4, ConcatProperties
  <2>6. Injective(s \o clones)
    BY <2>1, <2>2, <2>4, InjectiveConcat
  <2>7. Range(s \o clones) = Range(s) \cup Range(clones)
    BY <2>1, <2>4, RangeConcat
  <2>8. \A i \in 1 .. Len(order) : (s \o clones)[i] = order[i]
    BY <1>2, <1>6, <2>1, <2>5
  <2> QED BY <2>1, <2>3, <2>5, <2>6, <2>7, <2>8
<1>8. TypeOK'
  <2>1. quiet' \subseteq Accumulating' /\ timer' \subseteq Sessions'
        /\ started' \subseteq Sessions'
    BY <1>5 DEF StrandInv, TypeOK
  <2>2. cursor' \in 1 .. (Len(order') + 1) /\ healthy' \in Int
    BY <1>1, <1>2, <1>6, <1>7 DEF StrandInv, TypeOK
  <2> QED BY <1>1, <1>4, <1>7, <2>1, <2>2 DEF StrandInv, TypeOK
<1>9. Phases' /\ InStep'
  BY <1>1, <1>4 DEF StrandInv, Phases, InStep
<1>10. NothingLeft'
  BY <1>4, <1>5 DEF StrandInv, NothingLeft
<1>11. RegistryAgrees'
  <2>1. Range(order') = Sessions' \ Accumulating'
    <3>1. Range(order) = Sessions \ Accumulating
      BY DEF StrandInv, RegistryAgrees
    <3> QED BY <1>2, <1>5, <1>7, <3>1
  <2>2. \A i, j \in 1 .. Len(order') : order'[i] = order'[j] => i = j
    <3>1. DOMAIN order' = 1 .. Len(order')
      BY <1>7
    <3> QED BY <1>7, <3>1, Zenon DEF Injective
  <2> QED BY <2>1, <2>2 DEF RegistryAgrees
<1>12. Watched'
  BY <1>5 DEF StrandInv, Watched
<1>13. StartedFirst'
  BY <1>2, <1>6, <1>7 DEF StrandInv, StartedFirst
<1>14. HealthyNotOver'
  <2>1. Alive \in SUBSET Keys /\ Alive \cup {k} \in SUBSET Keys /\ k \in Keys \ Alive
    BY <1>5 DEF Alive
  <2>2. /\ Cardinality(Alive') = Cardinality(Alive) + 1 + Len(clones)
        /\ Cardinality(Alive) \in Nat
    <3>1. Cardinality(Alive \cup {k}) = Cardinality(Alive) + 1
      BY <2>1, OneMore
    <3>2. Cardinality((Alive \cup {k}) \cup Range(clones))
            = Cardinality(Alive \cup {k}) + Cardinality(Range(clones))
      BY <1>3, <1>5, <2>1, Together
    <3> QED BY <1>3, <1>5, <2>1, <3>1, <3>2, Finite
  <2>3. healthy <= Cardinality(Alive) /\ healthy \in Int
    BY <1>1 DEF StrandInv, TypeOK, HealthyNotOver
  <2> QED BY <1>2, <2>2, <2>3 DEF HealthyNotOver
<1>15. RoomForClones'
  <2>1. /\ Sessions \in SUBSET Keys /\ Accumulating \in SUBSET Keys
        /\ Room(Sessions, Accumulating) /\ Cardinality(Range(clones)) <= Clones
    BY <1>2, <1>3 DEF Sessions, Accumulating, Room, RoomForClones, StrandInv
  <2>2. Room(Sessions \cup Range(clones), Accumulating \ {k})
    BY <1>3, <1>5, <2>1, RoomCloned
  <2> QED BY <1>5, <2>2 DEF Room, RoomForClones
<1> QED BY <1>8, <1>9, <1>10, <1>11, <1>12, <1>13, <1>14, <1>15 DEF StrandInv

LEMMA InjectInv ==
  ASSUME StrandInv, NEW k \in Keys, NEW part \in Injected, Inject(k, part)
  PROVE  StrandInv'
<1>1. Injecting
  <2>1. jam' \in BOOLEAN
    <3>1. jam' = JamAfter
      BY DEF Inject
    <3> QED BY <3>1, Zenon DEF JamAfter
  <2> QED BY <2>1 DEF Inject, Injecting, loop
<1>2. CASE InjectIgnored(k, part)
  BY <1>1, <1>2, InjectIgnoredInv
<1>3. CASE InjectRst(k)
  BY <1>1, <1>3, InjectRstInv
<1>4. CASE part \in Parts \cup {"ack"} /\ InjectPart(k, part)
  <2> DEFINE g == Collected(got[k], part)
             clones == ClonesOf(k, Sessions \cup {k})
  <2>1. ~Ignored(k, part) /\ quiet' = quiet \ {k}
        /\ UNCHANGED <<handlers, dangling, started>>
    BY <1>4 DEF InjectPart
  <2>2. g \in (SUBSET Parts) \cup {Twice} /\ (got[k] = {} => ~Sane(g))
    BY <1>4, CollectedType DEF StrandInv, TypeOK
  <2>3. CASE /\ ~Sane(g)
             /\ life' = [life EXCEPT ![k] = "accumulating"]
             /\ got' = [got EXCEPT ![k] = g]
             /\ timer' = IF life[k] = "none" THEN timer \cup {k} ELSE timer
             /\ UNCHANGED <<order, healthy>>
    <3> HIDE DEF g
    <3> QED BY <1>1, <2>1, <2>2, <2>3, InjectMoreInv
  <2>4. CASE /\ Sane(g)
             /\ life' = [j \in Keys |-> IF j = k \/ j \in Range(clones)
                                        THEN "alive" ELSE life[j]]
             /\ got' = [got EXCEPT ![k] = {}]
             /\ timer' = timer \ {k}
             /\ order' = Append(order, k) \o clones
             /\ healthy' = healthy + 1 + Len(clones)
    <3>1. life[k] = "accumulating"
      <4>1. got[k] # {}
        BY <2>2, <2>4
      <4> QED BY <4>1 DEF StrandInv, NothingLeft, Accumulating
    <3>2. clones = ClonesOf(k, Sessions \cup {k})
      OBVIOUS
    <3> HIDE DEF g, clones
    <3> QED BY <1>1, <2>1, <2>4, <3>1, <3>2, InjectLastInv
  <2> QED BY <1>4, <2>3, <2>4 DEF InjectPart
<1> QED BY <1>2, <1>3, <1>4 DEF Inject
-----------------------------------------------------------------------------
(* What a poll does.                                                       *)

(* The sessions and where they are registered, when one of them leaves     *)
(* life v for life w without being registered or erased.                   *)
LEMMA LifeChanges ==
  ASSUME StrandInv, NEW k \in Keys, NEW w \in Lives \ {"none", "loaded", "alive", "accumulating"},
         life[k] \notin {"none", "accumulating"},
         life' = [life EXCEPT ![k] = w],
         UNCHANGED <<got, quiet, timer, handlers, dangling, order, jam>>
  PROVE  /\ life' \in [Keys -> Lives]
         /\ Sessions' = Sessions /\ Accumulating' = Accumulating
         /\ Alive' = Alive \ {k} /\ k \in Sessions
         /\ NothingLeft' /\ RegistryAgrees' /\ Watched' /\ RoomForClones'
         /\ \A j \in Keys : life[j] # "loaded" => life'[j] # "loaded"
<1>1. /\ life' \in [Keys -> Lives] /\ life'[k] = w
      /\ \A j \in Keys : j # k => life'[j] = life[j]
  BY DEF StrandInv, TypeOK
<1>2. /\ Sessions' = Sessions /\ Accumulating' = Accumulating
      /\ Alive' = Alive \ {k} /\ k \in Sessions
      /\ \A j \in Keys : life[j] # "loaded" => life'[j] # "loaded"
  BY <1>1 DEF Sessions, Accumulating, Alive
<1>3. NothingLeft' /\ RegistryAgrees' /\ Watched' /\ RoomForClones'
  BY <1>2 DEF StrandInv, NothingLeft, RegistryAgrees, Watched, RoomForClones
<1> QED BY <1>1, <1>2, <1>3

LEMMA PollEndedInv ==
  ASSUME StrandInv, NEW k \in Keys, PollEnded(k)
  PROVE  StrandInv'
<1>1. /\ pc = "send" /\ cursor \in 1 .. Len(order) /\ k = order[cursor]
      /\ order \in Seq(Keys) /\ Injective(order)
      /\ life[k] \in {"abort", "abortDead", "dying"}
      /\ life' = [life EXCEPT ![k] = "none"]
      /\ got' = [got EXCEPT ![k] = {}]
      /\ quiet' = quiet \ {k} /\ timer' = timer \ {k}
      /\ handlers' = [handlers EXCEPT ![k] = 0]
      /\ started' = started \ {k}
      /\ order' = RemoveAt(order, cursor)
      /\ UNCHANGED <<healthy, jam, pc, cursor, polled>>
  BY DEF PollEnded, Polling, Erase, loop, StrandInv, TypeOK, RegistryAgrees, Injective
<1>2. dangling' \in BOOLEAN
  BY Zenon DEF PollEnded, Erase
<1>3. /\ life' \in [Keys -> Lives] /\ got' \in [Keys -> (SUBSET Parts) \cup {Twice}]
      /\ handlers' \in [Keys -> 0 .. HandlersBound]
      /\ life'[k] = "none" /\ got'[k] = {}
      /\ \A j \in Keys : j # k => /\ life'[j] = life[j] /\ got'[j] = got[j]
                                  /\ handlers'[j] = handlers[j]
  BY <1>1 DEF StrandInv, TypeOK, Lives, HandlersBound
<1>4. /\ Sessions' = Sessions \ {k} /\ Accumulating' = Accumulating
      /\ Alive' = Alive /\ k \notin Accumulating /\ k \in Sessions
  BY <1>1, <1>3 DEF Sessions, Accumulating, Alive
<1>5. /\ order' \in Seq(Keys) /\ Len(order') = Len(order) - 1
      /\ Len(order) \in Nat
      /\ \A i \in 1 .. Len(order) - 1 :
            order'[i] = IF i < cursor THEN order[i] ELSE order[i + 1]
      /\ Injective(order') /\ Range(order') = Range(order) \ {k}
  <2>1. order \in Seq(Keys) /\ cursor \in 1 .. Len(order) /\ Injective(order)
        /\ Len(order) \in Nat
    BY <1>1
  <2>2. /\ RemoveAt(order, cursor) \in Seq(Keys)
        /\ Len(RemoveAt(order, cursor)) = Len(order) - 1
        /\ \A i \in 1 .. Len(order) - 1 : RemoveAt(order, cursor)[i]
              = IF i < cursor THEN order[i] ELSE order[i + 1]
    BY <2>1, RemoveAtShape
  <2>3. /\ Injective(RemoveAt(order, cursor))
        /\ Range(RemoveAt(order, cursor)) = Range(order) \ {order[cursor]}
    BY <2>1, RemoveAtInjective
  <2> QED BY <1>1, <2>1, <2>2, <2>3
<1>6. TypeOK'
  <2>1. quiet' \subseteq Accumulating' /\ timer' \subseteq Sessions'
        /\ started' \subseteq Sessions'
    BY <1>1, <1>4 DEF StrandInv, TypeOK
  <2>2. cursor' \in 1 .. (Len(order') + 1)
    BY <1>1, <1>5
  <2> QED BY <1>1, <1>2, <1>3, <1>5, <2>1, <2>2 DEF StrandInv, TypeOK
<1>7. Phases' /\ InStep'
  BY <1>1, <1>3 DEF StrandInv, Phases, InStep
<1>8. NothingLeft'
  BY <1>3, <1>4 DEF StrandInv, NothingLeft
<1>9. RegistryAgrees'
  BY <1>4, <1>5 DEF StrandInv, RegistryAgrees, Injective
<1>10. Watched'
  BY <1>1, <1>3, <1>4 DEF StrandInv, Watched, Accumulating
<1>11. StartedFirst'
  <2> SUFFICES ASSUME NEW j \in started'
               PROVE  \E i \in 1 .. Len(order') : i <= PassLimit /\ order'[i] = j
    BY DEF StartedFirst
  <2>1. j \in started /\ j # k
    BY <1>1
  <2>2. PICK i \in 1 .. Len(order) : i <= PassLimit /\ order[i] = j
    BY <2>1 DEF StrandInv, StartedFirst
  <2>3. CASE i < cursor
    <3>1. i \in 1 .. Len(order') /\ order'[i] = j
      BY <1>1, <1>5, <2>2, <2>3
    <3> QED BY <2>2, <3>1
  <2>4. CASE i > cursor
    <3>1. i - 1 \in 1 .. Len(order') /\ order'[i - 1] = j /\ i - 1 <= PassLimit
      BY <1>1, <1>5, <2>2, <2>4, LimitOfPass
    <3> QED BY <3>1
  <2>5. i # cursor
    BY <1>1, <2>1, <2>2
  <2> QED BY <1>1, <2>3, <2>4, <2>5
<1>12. HealthyNotOver'
  BY <1>1, <1>4 DEF StrandInv, HealthyNotOver
<1>13. RoomForClones'
  <2>1. /\ Sessions \in SUBSET Keys /\ Sessions' \in SUBSET Keys
        /\ Accumulating \in SUBSET Keys /\ Accumulating' \in SUBSET Accumulating
        /\ Sessions' \ Offline \subseteq Sessions
        /\ Room(Sessions, Accumulating)
    BY <1>4 DEF Sessions, Accumulating, StrandInv, Room, RoomForClones
  <2>2. Room(Sessions', Accumulating')
    BY <2>1, RoomFewer
  <2> QED BY <2>2 DEF Room, RoomForClones
<1> QED BY <1>6, <1>7, <1>8, <1>9, <1>10, <1>11, <1>12, <1>13 DEF StrandInv

(* The pass goes on to the next session or is over.                        *)
LEMMA Moved ==
  ASSUME StrandInv, pc = "send", cursor <= Len(order), Next1 \/ Stop,
         UNCHANGED order
  PROVE  /\ pc' \in {"send", "recv"}
         /\ cursor' \in 1 .. (Len(order') + 1)
         /\ polled' \in Nat /\ InStep'
BY DEF StrandInv, TypeOK, InStep, Next1, Stop, loop

(* A session that is polled is among the PassLimit oldest.                 *)
LEMMA PolledFirst ==
  ASSUME StrandInv, NEW k \in Keys, NEW L, Polling(k, L),
         started' = started \cup {k}, UNCHANGED order
  PROVE  StartedFirst'
<1>1. /\ cursor \in 1 .. Len(order) /\ order[cursor] = k /\ cursor <= PassLimit
  BY LimitOfPass DEF StrandInv, TypeOK, InStep, Polling
<1> QED BY <1>1 DEF StrandInv, StartedFirst

LEMMA PollResettingInv ==
  ASSUME StrandInv, NEW k \in Keys, PollResetting(k)
  PROVE  StrandInv'
<1>1. /\ pc = "send" /\ cursor <= Len(order) /\ life[k] = "resetting"
      /\ life' = [life EXCEPT ![k] = "dying"]
      /\ Next1 \/ Stop
      /\ UNCHANGED <<got, quiet, timer, handlers, dangling, order, healthy, jam,
                     started>>
  BY DEF PollResetting, Polling, clock
<1>2. /\ life' \in [Keys -> Lives]
      /\ Sessions' = Sessions /\ Accumulating' = Accumulating
      /\ Alive' = Alive \ {k} /\ k \in Sessions
      /\ NothingLeft' /\ RegistryAgrees' /\ Watched' /\ RoomForClones'
      /\ \A j \in Keys : life[j] # "loaded" => life'[j] # "loaded"
  BY <1>1, LifeChanges DEF Lives
<1>3. /\ pc' \in {"send", "recv"}
      /\ cursor' \in 1 .. (Len(order') + 1)
      /\ polled' \in Nat /\ InStep'
  BY <1>1, Moved
<1>4. TypeOK'
  BY <1>1, <1>2, <1>3 DEF StrandInv, TypeOK
<1>5. Phases' /\ StartedFirst'
  BY <1>1, <1>2, <1>3 DEF StrandInv, Phases, StartedFirst
<1>6. HealthyNotOver'
  <2>1. Alive' = Alive
    BY <1>1, <1>2 DEF Alive
  <2> QED BY <1>1, <2>1 DEF StrandInv, HealthyNotOver
<1> QED BY <1>2, <1>3, <1>4, <1>5, <1>6 DEF StrandInv

LEMMA PollAliveInv ==
  ASSUME StrandInv, NEW k \in Keys, PollAlive(k)
  PROVE  StrandInv'
<1>1. /\ pc = "send" /\ cursor <= Len(order) /\ life[k] = "alive"
      /\ Next1 \/ Stop
      /\ started' = started \cup {k}
      /\ UNCHANGED <<life, got, quiet, timer, handlers, dangling, order, healthy, jam>>
  BY DEF PollAlive, Polling, clock, manager
<1>2. /\ Sessions' = Sessions /\ Accumulating' = Accumulating /\ Alive' = Alive
      /\ k \in Sessions
  BY <1>1 DEF Sessions, Accumulating, Alive
<1>3. /\ pc' \in {"send", "recv"}
      /\ cursor' \in 1 .. (Len(order') + 1)
      /\ polled' \in Nat /\ InStep'
  BY <1>1, Moved
<1>4. TypeOK'
  BY <1>1, <1>2, <1>3 DEF StrandInv, TypeOK
<1>5. Phases' /\ NothingLeft' /\ RegistryAgrees' /\ Watched' /\ RoomForClones'
  BY <1>1, <1>2, <1>3
     DEF StrandInv, Phases, NothingLeft, RegistryAgrees, Watched, RoomForClones
<1>6. StartedFirst'
  BY <1>1, PolledFirst DEF PollAlive
<1>7. HealthyNotOver'
  BY <1>1, <1>2 DEF StrandInv, HealthyNotOver
<1> QED BY <1>3, <1>4, <1>5, <1>6, <1>7 DEF StrandInv

(* One healthy session less, and one counted less.                         *)
LEMMA OneHealthyLess ==
  ASSUME StrandInv, NEW k \in Keys, pc \notin {"load", "ready"},
         Alive' = Alive \ {k}, healthy' = healthy - 1
  PROVE  HealthyNotOver' /\ healthy' \in Int
<1>1. healthy <= Cardinality(Alive) /\ healthy \in Int /\ Alive \in SUBSET Keys
  BY DEF StrandInv, TypeOK, HealthyNotOver, Alive
<1>2. Cardinality(Alive') \in Nat /\ Cardinality(Alive) \in Nat
  <2>1. Alive \ {k} \in SUBSET Keys
    BY <1>1
  <2> QED BY <1>1, <2>1, Finite
<1>3. CASE k \in Alive
  <2>1. Cardinality(Alive') = Cardinality(Alive) - 1
    BY <1>1, <1>3, OneLess
  <2> QED BY <1>1, <1>2, <2>1 DEF HealthyNotOver
<1>4. CASE k \notin Alive
  <2>1. Cardinality(Alive') = Cardinality(Alive)
    BY <1>4
  <2> QED BY <1>1, <1>2, <2>1 DEF HealthyNotOver
<1> QED BY <1>3, <1>4

LEMMA PollKillsInv ==
  ASSUME StrandInv, NEW k \in Keys, PollKills(k)
  PROVE  StrandInv'
<1>1. PICK w \in {"resetting", "dying"} : life' = [life EXCEPT ![k] = w]
  BY DEF PollKills
<1>2. /\ pc = "send" /\ cursor <= Len(order) /\ life[k] = "alive"
      /\ Next1 \/ Stop
      /\ started' = started \cup {k}
      /\ healthy' = healthy - 1
      /\ UNCHANGED <<got, quiet, timer, handlers, dangling, order, jam>>
  BY DEF PollKills, Polling, clock
<1>3. /\ life' \in [Keys -> Lives]
      /\ Sessions' = Sessions /\ Accumulating' = Accumulating
      /\ Alive' = Alive \ {k} /\ k \in Sessions
      /\ NothingLeft' /\ RegistryAgrees' /\ Watched' /\ RoomForClones'
      /\ \A j \in Keys : life[j] # "loaded" => life'[j] # "loaded"
  BY <1>1, <1>2, LifeChanges DEF Lives
<1>4. /\ pc' \in {"send", "recv"}
      /\ cursor' \in 1 .. (Len(order') + 1)
      /\ polled' \in Nat /\ InStep'
  BY <1>2, Moved
<1>5. HealthyNotOver' /\ healthy' \in Int
  BY <1>2, <1>3, OneHealthyLess
<1>6. TypeOK'
  BY <1>2, <1>3, <1>4, <1>5 DEF StrandInv, TypeOK
<1>7. Phases'
  BY <1>2, <1>3, <1>4 DEF StrandInv, Phases
<1>8. StartedFirst'
  BY <1>2, PolledFirst DEF PollKills
<1> QED BY <1>3, <1>4, <1>5, <1>6, <1>7, <1>8 DEF StrandInv

LEMMA RecvKillsInv ==
  ASSUME StrandInv, NEW k \in Keys, RecvKills(k)
  PROVE  StrandInv'
<1>1. PICK w \in {"dying", "abortDead"} : life' = [life EXCEPT ![k] = w]
  BY DEF RecvKills
<1>2. /\ pc = "recv" /\ life[k] \in {"alive", "abort"}
      /\ healthy' = healthy - 1
      /\ life[k] = "abort" => Cardinality(Alive) - healthy < UndercountBound
      /\ UNCHANGED <<got, quiet, timer, handlers, dangling, order, jam, pc,
                     cursor, polled, started>>
  BY DEF RecvKills, clock, loop
<1>3. /\ life' \in [Keys -> Lives]
      /\ Sessions' = Sessions /\ Accumulating' = Accumulating
      /\ Alive' = Alive \ {k} /\ k \in Sessions
      /\ NothingLeft' /\ RegistryAgrees' /\ Watched' /\ RoomForClones'
      /\ \A j \in Keys : life[j] # "loaded" => life'[j] # "loaded"
  BY <1>1, <1>2, LifeChanges DEF Lives
<1>4. HealthyNotOver' /\ healthy' \in Int
  BY <1>2, <1>3, OneHealthyLess
<1>5. TypeOK'
  BY <1>2, <1>3, <1>4 DEF StrandInv, TypeOK
<1>6. Phases' /\ StartedFirst' /\ InStep'
  BY <1>2, <1>3 DEF StrandInv, Phases, StartedFirst, InStep
<1> QED BY <1>3, <1>4, <1>5, <1>6 DEF StrandInv
-----------------------------------------------------------------------------
(* Timers.                                                                 *)

(* The sessions, their registrations and the loop are left alone.          *)
LEMMA OnlyTimers ==
  ASSUME StrandInv,
         UNCHANGED <<life, got, order, healthy, jam, pc, cursor, polled, started>>,
         quiet' \subseteq Accumulating, timer' \subseteq Sessions,
         handlers' \in [Keys -> 0 .. HandlersBound], dangling' \in BOOLEAN,
         \A j \in Accumulating : j \in timer' \/ handlers'[j] > 0,
         timer' \subseteq timer \/ pc \notin {"load", "ready"}
  PROVE  StrandInv'
<1>1. /\ Sessions' = Sessions /\ Accumulating' = Accumulating /\ Alive' = Alive
  BY DEF Sessions, Accumulating, Alive
<1>2. TypeOK'
  BY <1>1 DEF StrandInv, TypeOK
<1>3. Phases' /\ NothingLeft' /\ InStep'
  BY <1>1 DEF StrandInv, Phases, NothingLeft, InStep
<1>4. RegistryAgrees' /\ Watched' /\ StartedFirst' /\ RoomForClones'
  BY <1>1 DEF StrandInv, RegistryAgrees, Watched, StartedFirst, RoomForClones
<1>5. HealthyNotOver'
  BY <1>1 DEF StrandInv, HealthyNotOver
<1> QED BY <1>2, <1>3, <1>4, <1>5 DEF StrandInv

(* A session is given up: it is registered, for the postoffice to erase.   *)
LEMMA GivenUp ==
  ASSUME StrandInv, NEW k \in Accumulating,
         life' = [life EXCEPT ![k] = "abort"],
         got' = [got EXCEPT ![k] = {}],
         quiet' = quiet \ {k}, order' = Append(order, k),
         handlers' \in [Keys -> 0 .. HandlersBound], dangling' \in BOOLEAN,
         \A j \in Keys : j # k => handlers'[j] = handlers[j],
         UNCHANGED <<timer, healthy, jam, pc, cursor, polled, started>>,
         pc = "posted"
  PROVE  StrandInv'
<1>1. /\ k \in Keys /\ life[k] = "accumulating"
      /\ life' \in [Keys -> Lives] /\ got' \in [Keys -> (SUBSET Parts) \cup {Twice}]
      /\ \A j \in Keys : j # k => life'[j] = life[j] /\ got'[j] = got[j]
      /\ life'[k] = "abort" /\ got'[k] = {}
  BY DEF StrandInv, TypeOK, Lives, Accumulating
<1>2. /\ Sessions' = Sessions /\ Accumulating' = Accumulating \ {k}
      /\ Alive' = Alive /\ k \in Sessions /\ k \notin Sessions \ Accumulating
  BY <1>1 DEF Sessions, Accumulating, Alive
<1>3. /\ order' \in Seq(Keys) /\ Len(order') = Len(order) + 1
      /\ Len(order) \in Nat
      /\ \A i \in 1 .. Len(order) : order'[i] = order[i]
      /\ Range(order') = Range(order) \cup {k}
      /\ Injective(order')
  BY <1>1, <1>2, Registered DEF StrandInv
<1>4. TypeOK'
  <2>1. quiet' \subseteq Accumulating' /\ timer' \subseteq Sessions'
        /\ started' \subseteq Sessions'
    BY <1>2 DEF StrandInv, TypeOK
  <2>2. cursor' \in 1 .. (Len(order') + 1)
    BY <1>3 DEF StrandInv, TypeOK
  <2> QED BY <1>1, <1>3, <2>1, <2>2 DEF StrandInv, TypeOK
<1>5. Phases' /\ InStep'
  BY <1>1 DEF StrandInv, Phases, InStep
<1>6. NothingLeft'
  BY <1>1, <1>2 DEF StrandInv, NothingLeft
<1>7. RegistryAgrees'
  BY <1>2, <1>3 DEF StrandInv, RegistryAgrees, Injective
<1>8. Watched'
  BY <1>2 DEF StrandInv, Watched, Accumulating
<1>9. StartedFirst'
  BY <1>3 DEF StrandInv, StartedFirst
<1>10. HealthyNotOver'
  BY <1>2 DEF StrandInv, HealthyNotOver
<1>11. RoomForClones'
  <2>1. /\ Sessions \in SUBSET Keys /\ Sessions' \in SUBSET Keys
        /\ Accumulating \in SUBSET Keys /\ Accumulating' \in SUBSET Accumulating
        /\ Sessions' \ Offline \subseteq Sessions
        /\ Room(Sessions, Accumulating)
    BY <1>2 DEF Sessions, Accumulating, StrandInv, Room, RoomForClones
  <2>2. Room(Sessions', Accumulating')
    BY <2>1, RoomFewer
  <2> QED BY <2>2 DEF Room, RoomForClones
<1> QED BY <1>4, <1>5, <1>6, <1>7, <1>8, <1>9, <1>10, <1>11 DEF StrandInv

LEMMA ExpiresInv ==
  ASSUME StrandInv, NEW k \in Keys, TimerExpires(k)
  PROVE  StrandInv'
<1>1. /\ UNCHANGED <<life, got, order, healthy, jam, pc, cursor, polled, started,
                     quiet, dangling>>
      /\ timer' = timer \ {k} /\ handlers[k] < HandlersBound
      /\ handlers' = [handlers EXCEPT ![k] = @ + 1]
  BY DEF TimerExpires, manager, loop
<1>2. /\ handlers \in [Keys -> 0 .. HandlersBound]
      /\ quiet' \subseteq Accumulating /\ timer' \subseteq Sessions
      /\ dangling' \in BOOLEAN
  BY <1>1 DEF StrandInv, TypeOK
<1>3. /\ handlers' \in [Keys -> 0 .. HandlersBound] /\ handlers'[k] > 0
      /\ \A j \in Keys : j # k => handlers'[j] = handlers[j]
  BY <1>1, <1>2 DEF HandlersBound
<1>4. \A j \in Accumulating : j \in timer' \/ handlers'[j] > 0
  BY <1>1, <1>3 DEF StrandInv, Watched, Accumulating
<1> QED BY <1>1, <1>2, <1>3, <1>4, OnlyTimers

LEMMA QuietInv ==
  ASSUME StrandInv, NEW k \in Keys, BecomesQuiet(k)
  PROVE  StrandInv'
<1>1. /\ UNCHANGED <<life, got, order, healthy, jam, pc, cursor, polled, started,
                     timer, handlers, dangling>>
      /\ quiet' = quiet \cup {k} /\ k \in Accumulating
  BY DEF BecomesQuiet, manager, loop
<1>2. /\ handlers' \in [Keys -> 0 .. HandlersBound]
      /\ quiet' \subseteq Accumulating /\ timer' \subseteq Sessions
      /\ dangling' \in BOOLEAN /\ timer' \subseteq timer
      /\ \A j \in Accumulating : j \in timer' \/ handlers'[j] > 0
  BY <1>1 DEF StrandInv, TypeOK, Watched
<1> QED BY <1>1, <1>2, OnlyTimers

(* The handler of a session, its own or, by a dangling pointer, another's. *)
LEMMA CheckInv ==
  ASSUME StrandInv, pc = "posted", NEW k \in Keys, CheckTimeout(k),
         handlers' \in [Keys -> 0 .. HandlersBound], dangling' \in BOOLEAN,
         \A j \in Keys : j # k => handlers'[j] = handlers[j],
         UNCHANGED <<healthy, jam, pc, cursor, polled, started>>
  PROVE  StrandInv'
<1>1. CASE k \notin Accumulating /\ UNCHANGED <<life, got, quiet, timer, order>>
  <2>1. /\ quiet' \subseteq Accumulating /\ timer' \subseteq Sessions
        /\ timer' \subseteq timer
        /\ \A j \in Accumulating : j \in timer' \/ handlers'[j] > 0
    BY <1>1 DEF StrandInv, TypeOK, Watched, Accumulating
  <2> QED BY <1>1, <2>1, OnlyTimers
<1>2. CASE /\ k \in Accumulating /\ life' = [life EXCEPT ![k] = "abort"]
           /\ got' = [got EXCEPT ![k] = {}]
           /\ quiet' = quiet \ {k} /\ order' = Append(order, k)
           /\ UNCHANGED timer
  BY <1>2, GivenUp
<1>3. CASE /\ k \in Accumulating /\ timer' = timer \cup {k}
           /\ UNCHANGED <<life, got, quiet, order>>
  <2>1. /\ quiet' \subseteq Accumulating /\ timer' \subseteq Sessions
        /\ \A j \in Accumulating : j \in timer' \/ handlers'[j] > 0
    BY <1>3 DEF StrandInv, TypeOK, Watched, Accumulating, Sessions
  <2> QED BY <1>3, <2>1, OnlyTimers
<1> QED BY <1>1, <1>2, <1>3 DEF CheckTimeout

LEMMA RunTimerInv ==
  ASSUME StrandInv, NEW k \in Keys, RunTimer(k)
  PROVE  StrandInv'
<1>1. /\ pc = "posted" /\ handlers[k] > 0 /\ CheckTimeout(k)
      /\ handlers' = [handlers EXCEPT ![k] = @ - 1]
      /\ UNCHANGED <<dangling, healthy, jam, pc, cursor, polled, started>>
  BY DEF RunTimer, loop
<1>2. handlers \in [Keys -> 0 .. HandlersBound] /\ dangling' \in BOOLEAN
  BY <1>1 DEF StrandInv, TypeOK
<1>3. /\ handlers' \in [Keys -> 0 .. HandlersBound]
      /\ \A j \in Keys : j # k => handlers'[j] = handlers[j]
  BY <1>1, <1>2 DEF HandlersBound
<1> QED BY <1>1, <1>2, <1>3, CheckInv

LEMMA DanglingInv == ASSUME StrandInv, RunDangling PROVE StrandInv'
<1>1. /\ pc = "posted"
      /\ UNCHANGED <<handlers, healthy, jam, pc, cursor, polled, started>>
  BY DEF RunDangling, loop
<1>2. dangling' \in BOOLEAN
  BY Zenon DEF RunDangling
<1>3. /\ handlers' \in [Keys -> 0 .. HandlersBound]
      /\ \A j \in Keys : handlers'[j] = handlers[j]
  BY <1>1 DEF StrandInv, TypeOK
<1>4. CASE UNCHANGED <<life, got, quiet, timer, order>>
  <2>1. /\ quiet' \subseteq Accumulating /\ timer' \subseteq Sessions
        /\ timer' \subseteq timer
        /\ \A j \in Accumulating : j \in timer' \/ handlers'[j] > 0
    BY <1>1, <1>4 DEF StrandInv, TypeOK, Watched, Accumulating
  <2> QED BY <1>1, <1>2, <1>3, <1>4, <2>1, OnlyTimers
<1>5. CASE \E k \in Accumulating : CheckTimeout(k)
  <2>1. PICK k \in Accumulating : CheckTimeout(k)
    BY <1>5
  <2>2. k \in Keys
    BY DEF Accumulating
  <2> QED BY <1>1, <1>2, <1>3, <2>1, <2>2, CheckInv
<1> QED BY <1>4, <1>5 DEF RunDangling

-----------------------------------------------------------------------------
LEMMA NextInv == ASSUME StrandInv, [Next]_vars PROVE StrandInv'
<1>1. CASE Load
  BY <1>1, LoadInv, CleanInv, ReadyInv DEF Load
<1>2. CASE SendPass
  BY <1>2, PollEndedInv, PollResettingInv, PollAliveInv, PollKillsInv, CounterInv
     DEF SendPass
<1>3. CASE Timers
  BY <1>3, ExpiresInv, QuietInv, RunTimerInv, DanglingInv DEF Timers
<1> QED BY <1>1, <1>2, <1>3, CounterInv, InjectInv, RecvKillsInv DEF Next

(* The inductive invariant of a strand, for any number of keys, clones and *)
(* threads, with the timers and the packets in whatever order.             *)
THEOREM StrandSafety == Spec => []StrandInv
<1>1. Init => StrandInv
  BY InitInv
<1>2. StrandInv /\ [Next]_vars => StrandInv'
  BY NextInv
<1> QED BY <1>1, <1>2, PTL DEF Spec

(* The postoffice calls exactly the sessions of the manager that are not   *)
(* accumulating, each of them once: never one that has been erased.        *)
THEOREM RegistriesAgree == Spec => []RegistryAgrees
<1>1. StrandInv => RegistryAgrees
  BY DEF StrandInv
<1> QED BY <1>1, StrandSafety, PTL

(* _healthy_sess_count never exceeds the sessions that are alive.          *)
THEOREM HealthyCounted == Spec => []HealthyNotOver
<1>1. StrandInv => HealthyNotOver
  BY DEF StrandInv
<1> QED BY <1>1, StrandSafety, PTL

(* A session that accumulates has its timer waiting or a handler queued,   *)
(* whatever was cancelled, re-armed or dangling.                           *)
THEOREM AllWatched == Spec => []Watched
<1>1. StrandInv => Watched
  BY DEF StrandInv
<1> QED BY <1>1, StrandSafety, PTL

(* The limits of a strand: on its sessions, and on those on the wire.      *)
THEOREM WithinLimits == Spec => []Limits
<1>1. ASSUME StrandInv PROVE SessionCeiling
  <2>1. /\ Sessions \ Offline \in SUBSET Keys /\ Accumulating \in SUBSET Keys
    BY DEF Sessions, Accumulating
  <2>2. Cardinality(Sessions \ Offline) \in Nat /\ Cardinality(Accumulating) \in Nat
    BY <2>1, Finite
  <2> DEFINE more == Clones * Cardinality(Accumulating)
             most == SessionLimit * (Clones + 1)
  <2>3. more \in Nat /\ most \in Nat
    BY <2>2, StrandAssumption
  <2>4. Cardinality(Sessions \ Offline) + more <= most
    BY <1>1 DEF StrandInv, RoomForClones
  <2>5. SessionCeiling <=> Cardinality(Sessions \ Offline) <= most
    BY DEF SessionCeiling
  <2> HIDE DEF more, most
  <2> QED BY <2>2, <2>3, <2>4, <2>5
<1>2. StrandInv => Limits
  BY <1>1 DEF StrandInv, Limits
<1> QED BY <1>2, StrandSafety, PTL

=============================================================================
