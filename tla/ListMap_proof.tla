---------------------------- MODULE ListMap_proof ---------------------------
(***************************************************************************)
(* Proofs about ListMap, for any keys, values and cells: that its links    *)
(* and its map agree, that the loop never stands on an erased element, and *)
(* that it implements OrderedMap.                                          *)
(***************************************************************************)
EXTENDS ListMap, Basics

-----------------------------------------------------------------------------
(* Chain is the sequence of cells that is linked, if there is one.         *)

IsNth(f) == f = [i \in 1 .. Cardinality(Cells) |->
                   IF i = 1 THEN head
                   ELSE IF f[i - 1] = NULL THEN NULL ELSE quad[f[i - 1]].next]

LEMMA LiveCells == ASSUME TypeOK PROVE Live \subseteq Cells /\ NULL \notin Live
BY DEF TypeOK, Live

(* The elements of a sequence of live cells.                               *)
LEMMA ChainSize ==
  ASSUME TypeOK, NEW c \in Seq(Cells), LinkedAs(c)
  PROVE  /\ Range(c) = Live /\ Injective(c) /\ IsFiniteSet(Live)
         /\ Size = Len(c) /\ Len(c) <= Cardinality(Cells)
<1>1. Range(c) = Live /\ Injective(c)
  BY RangeOf DEF LinkedAs, Injective
<1>2. IsFiniteSet(Live) /\ Size = Len(c)
  BY <1>1, InjectiveCardinality DEF Size
<1>3. Size <= Cardinality(Cells)
  BY LiveCells, FS_Subset, ListMapAssumption DEF Size
<1> QED BY <1>1, <1>2, <1>3

LEMMA ChainIs ==
  ASSUME TypeOK, NEW c \in Seq(Cells), LinkedAs(c)
  PROVE  Chain = c
<1> DEFINE m == Cardinality(Cells)
           n == Len(c)
           f == [i \in 1 .. m |-> IF i <= n THEN c[i] ELSE NULL]
<1>1. n \in Nat /\ m \in Nat /\ n <= m /\ Size = n /\ (n = 0 <=> c = <<>>)
  <2>1. m \in Nat
    BY FS_CardinalityType, ListMapAssumption
  <2> QED BY <2>1, ChainSize
<1>2. /\ \A i \in 1 .. n : c[i] \in Cells /\ c[i] # NULL
      /\ head = IF n = 0 THEN NULL ELSE c[1]
      /\ \A i \in 1 .. n : quad[c[i]].next = IF i = n THEN NULL ELSE c[i + 1]
  BY <1>1, ListMapAssumption DEF LinkedAs
<1> HIDE DEF m, n
<1>3. IsNth(f)
  <2>1. ASSUME NEW i \in 1 .. m
        PROVE  f[i] = IF i = 1 THEN head
                      ELSE IF f[i - 1] = NULL THEN NULL ELSE quad[f[i - 1]].next
    <3>1. CASE i = 1
      BY <1>1, <1>2, <3>1
    <3>2. CASE i # 1
      <4>1. i - 1 \in 1 .. m
        BY <1>1, <3>2
      <4>2. f[i - 1] = IF i - 1 <= n THEN c[i - 1] ELSE NULL
        BY <4>1
      <4>3. i - 1 <= n => /\ c[i - 1] # NULL
                          /\ quad[c[i - 1]].next = IF i - 1 = n THEN NULL ELSE c[i]
        BY <1>1, <1>2, <4>1
      <4> QED BY <1>1, <3>2, <4>1, <4>2, <4>3
    <3> QED BY <3>1, <3>2
  <2> QED BY <2>1 DEF IsNth, m
<1>4. IsNth(Nth)
  <2>1. Nth = CHOOSE g : IsNth(g)
    BY DEF Nth, IsNth
  <2> QED BY <1>3, <2>1
<1>5. \A i \in 1 .. m : Nth[i] = IF i = 1 THEN head
                                 ELSE IF Nth[i - 1] = NULL THEN NULL ELSE quad[Nth[i - 1]].next
  BY <1>4 DEF IsNth, m
<1> DEFINE N == {i \in Nat : i + 1 \in 1 .. n => Nth[i + 1] = c[i + 1]}
<1>6. 0 \in N
  BY <1>1, <1>2, <1>5
<1>7. ASSUME NEW i \in Nat, i \in N PROVE i + 1 \in N
  <2> SUFFICES ASSUME (i + 1) + 1 \in 1 .. n PROVE Nth[(i + 1) + 1] = c[(i + 1) + 1]
    OBVIOUS
  <2>1. i + 1 \in 1 .. n /\ i + 2 \in 1 .. m /\ (i + 2) - 1 = i + 1 /\ (i + 1) + 1 = i + 2
    BY <1>1
  <2>2. Nth[i + 1] = c[i + 1] /\ c[i + 1] # NULL /\ quad[c[i + 1]].next = c[i + 2]
    BY <1>2, <1>7, <2>1
  <2>3. Nth[i + 2] = IF Nth[i + 1] = NULL THEN NULL ELSE quad[Nth[i + 1]].next
    BY <1>5, <2>1
  <2> QED BY <2>1, <2>2, <2>3
<1> HIDE DEF N
<1>8. \A i \in Nat : i \in N
  BY <1>6, <1>7, Induct
<1>9. ASSUME NEW i \in 1 .. n PROVE Nth[i] = c[i]
  <2>1. i - 1 \in N /\ (i - 1) + 1 = i
    BY <1>1, <1>8
  <2> QED BY <2>1 DEF N
<1>10. Chain = [i \in 1 .. n |-> c[i]]
  BY <1>1, <1>9 DEF Chain
<1> QED BY <1>10 DEF n

(* What the properties of the links say follows.                           *)
LEMMA ChainLinked ==
  ASSUME TypeOK, NEW c \in Seq(Cells), LinkedAs(c)
  PROVE  Linked /\ LinkedAs(Chain) /\ Chain \in Seq(Cells)
<1>1. Chain = c /\ Size = Len(c) /\ Len(c) \in Nat /\ (Len(c) = 0 <=> c = <<>>)
  BY ChainIs, ChainSize
<1>2. Linked
  <2>1. {Chain[i] : i \in 1 .. Size} = Live
    BY <1>1 DEF LinkedAs
  <2>2. Size = 0 => head = NULL /\ tail = NULL
    BY <1>1 DEF LinkedAs
  <2>3. Size > 0 => tail = Chain[Size] /\ quad[tail].next = NULL
    BY <1>1 DEF LinkedAs
  <2>4. \A i \in 2 .. Size : quad[Chain[i]].prev = Chain[i - 1]
    BY <1>1 DEF LinkedAs
  <2> QED BY <2>1, <2>2, <2>3, <2>4 DEF Linked
<1> QED BY <1>1, <1>2

(* The invariant without Chain, as the steps keep it.                      *)
Quads == [prev : Cells \cup {NULL}, next : Cells \cup {NULL}, data : Values \cup {NULL}]

Kept == TypeOK /\ CursorLive /\ OneKeyEach /\ OneValueEach

LEMMA InvChain ==
  ASSUME ListMapInv
  PROVE  Kept /\ \E c \in Seq(Cells) : c = Chain /\ LinkedAs(c)
<1>1. Live \subseteq Cells /\ IsFiniteSet(Cells)
  BY LiveCells, ListMapAssumption DEF ListMapInv
<1>2. Size \in Nat
  BY <1>1, FS_Subset, FS_CardinalityType DEF Size
<1>3. DOMAIN Chain = 1 .. Size /\ Len(Chain) = Size
  BY <1>2 DEF Chain
<1>4. \A i \in 1 .. Size : Chain[i] \in Cells
  BY <1>1, <1>3 DEF ListMapInv, LinkedAs
<1>5. Chain = [i \in 1 .. Size |-> Chain[i]]
  BY DEF Chain
<1>6. Chain \in Seq(Cells)
  BY <1>2, <1>4, <1>5
<1> QED BY <1>6 DEF ListMapInv, Kept

LEMMA ChainInv ==
  ASSUME Kept, NEW c \in Seq(Cells), LinkedAs(c)
  PROVE  ListMapInv /\ Chain = c
BY ChainLinked, ChainIs DEF Kept, ListMapInv

(* What a chain of cells is, element by element.                           *)
LEMMA ChainCells ==
  ASSUME Kept, NEW c \in Seq(Cells), LinkedAs(c)
  PROVE  /\ Len(c) \in Nat /\ (c = <<>> <=> Len(c) = 0) /\ Size = Len(c)
         /\ \A i \in 1 .. Len(c) : c[i] \in Live /\ c[i] \in Cells /\ c[i] # NULL
         /\ \A x \in Live : \E i \in 1 .. Len(c) : x = c[i]
         /\ \A i, j \in 1 .. Len(c) : c[i] = c[j] => i = j
         /\ head = IF Len(c) = 0 THEN NULL ELSE c[1]
         /\ tail = IF Len(c) = 0 THEN NULL ELSE c[Len(c)]
         /\ \A i \in 1 .. Len(c) :
               quad[c[i]].next = IF i = Len(c) THEN NULL ELSE c[i + 1]
         /\ \A i \in 2 .. Len(c) : quad[c[i]].prev = c[i - 1]
<1>1. Len(c) \in Nat /\ (c = <<>> <=> Len(c) = 0) /\ Size = Len(c)
  BY ChainSize DEF Kept
<1>2. NULL \notin Cells
  BY ListMapAssumption
<1> QED BY <1>1, <1>2 DEF LinkedAs

-----------------------------------------------------------------------------
(* operator[]                                                              *)

LEMMA PutNew ==
  ASSUME Kept, NEW c \in Seq(Cells), LinkedAs(c),
         NEW k \in Keys, NEW v \in Values, NEW x \in Cells \ Live,
         map[k] = NULL, v \notin ValuesIn, LinkBehindTail(x, v), tail' = x,
         map' = [map EXCEPT ![k] = x], UNCHANGED cursor
  PROVE  /\ Kept' /\ LinkedAs(Append(c, x))' /\ Live' = Live \cup {x}
         /\ quad'[x].data = v /\ \A y \in Live : quad'[y].data = quad[y].data
<1> DEFINE n == Len(c)
<1>1. /\ n \in Nat /\ Size = n
      /\ \A i \in 1 .. n : c[i] \in Live /\ c[i] \in Cells /\ c[i] # NULL
      /\ \A y \in Live : \E i \in 1 .. n : y = c[i]
      /\ \A i, j \in 1 .. n : c[i] = c[j] => i = j
      /\ head = IF n = 0 THEN NULL ELSE c[1]
      /\ tail = IF n = 0 THEN NULL ELSE c[n]
      /\ \A i \in 1 .. n : quad[c[i]].next = IF i = n THEN NULL ELSE c[i + 1]
      /\ \A i \in 2 .. n : quad[c[i]].prev = c[i - 1]
  BY ChainCells
<1>2. /\ Append(c, x) # <<>> /\ Len(Append(c, x)) = n + 1
      /\ \A i \in 1 .. n : Append(c, x)[i] = c[i]
      /\ Append(c, x)[n + 1] = x
  OBVIOUS
<1> HIDE DEF n
<1>3. /\ map \in [Keys -> Cells \cup {NULL}] /\ x \in Cells /\ x \notin Live /\ x # NULL
      /\ quad \in [Cells -> Quads]
      /\ {head, tail, cursor} \subseteq Cells \cup {NULL}
  BY ListMapAssumption DEF Kept, TypeOK, Quads
<1>4. /\ map' \in [Keys -> Cells \cup {NULL}]
      /\ map'[k] = x /\ \A l \in Keys : l # k => map'[l] = map[l]
  BY <1>3
<1>5. Live' = Live \cup {x}
  BY <1>3, <1>4 DEF Live
<1>6. /\ quad' \in [Cells -> Quads]
      /\ quad'[x].prev = tail /\ quad'[x].next = NULL /\ quad'[x].data = v
      /\ \A y \in Live : /\ quad'[y].prev = quad[y].prev /\ quad'[y].data = quad[y].data
                         /\ quad'[y].next = IF y = tail THEN x ELSE quad[y].next
      /\ head' = IF n = 0 THEN x ELSE head
  <2>1. CASE n = 0
    <3> DEFINE s == [prev |-> NULL, next |-> NULL, data |-> v]
    <3>1. quad' = [quad EXCEPT ![x] = s] /\ head' = x /\ tail = NULL /\ Live = {}
      BY <1>1, <2>1 DEF LinkBehindTail
    <3>2. s \in Quads /\ s.prev = NULL /\ s.next = NULL /\ s.data = v
      BY DEF Quads
    <3> HIDE DEF s
    <3> QED BY <1>3, <2>1, <3>1, <3>2
  <2>2. CASE n # 0
    <3>1. /\ quad' = [quad EXCEPT ![tail].next = x,
                                  ![x] = [prev |-> tail, next |-> NULL, data |-> v]]
          /\ head' = head /\ tail \in Live /\ tail \in Cells /\ tail # x
      BY <1>1, <1>3, <2>2 DEF LinkBehindTail
    <3> DEFINE r == [quad[tail] EXCEPT !.next = x]
               s == [prev |-> tail, next |-> NULL, data |-> v]
    <3>2. /\ r \in Quads /\ r.next = x /\ r.prev = quad[tail].prev
          /\ r.data = quad[tail].data
      BY <1>3, <3>1 DEF Quads
    <3>3. s \in Quads /\ s.prev = tail /\ s.next = NULL /\ s.data = v
      BY <3>1 DEF Quads
    <3>4. quad' = [[quad EXCEPT ![tail] = r] EXCEPT ![x] = s]
      BY <3>1
    <3> HIDE DEF r, s
    <3>5. /\ quad' \in [Cells -> Quads] /\ quad'[x] = s /\ quad'[tail] = r
          /\ \A y \in Cells : y # x /\ y # tail => quad'[y] = quad[y]
      BY <1>3, <3>1, <3>2, <3>3, <3>4
    <3>6. Live \subseteq Cells
      BY LiveCells DEF Kept
    <3>7. /\ quad'[x].prev = tail /\ quad'[x].next = NULL /\ quad'[x].data = v
      BY <3>3, <3>5
    <3>8. ASSUME NEW y \in Live
          PROVE  /\ quad'[y].prev = quad[y].prev /\ quad'[y].data = quad[y].data
                 /\ quad'[y].next = IF y = tail THEN x ELSE quad[y].next
      <4>1. y \in Cells /\ y # x
        BY <1>3, <3>6
      <4>2. CASE y = tail
        BY <3>2, <3>5, <4>2
      <4>3. CASE y # tail
        BY <3>5, <4>1, <4>3
      <4> QED BY <4>2, <4>3
    <3> QED BY <2>2, <3>1, <3>5, <3>7, <3>8
  <2> QED BY <2>1, <2>2
<1>7. TypeOK'
  <2>1. head' \in Cells \cup {NULL}
    BY <1>3, <1>6
  <2> QED BY <1>3, <1>4, <1>6, <2>1 DEF TypeOK, Quads
<1>8. CursorLive'
  BY <1>5 DEF Kept, CursorLive
<1>9. OneKeyEach'
  <2>1. \A l \in Keys : map[l] # x
    BY <1>3 DEF Live
  <2> QED BY <1>4, <2>1 DEF Kept, OneKeyEach
<1>10. OneValueEach'
  BY <1>5, <1>6 DEF Kept, OneValueEach, ValuesIn
<1>11. LinkedAs(Append(c, x))'
  <2> DEFINE e == Append(c, x)
  <2> HIDE DEF e
  <2>0. /\ e # <<>> /\ Len(e) = n + 1 /\ \A i \in 1 .. n : e[i] = c[i]
        /\ e[n + 1] = x
    BY <1>2 DEF e
  <2>1. {e[i] : i \in 1 .. Len(e)} = Live'
    <3>1. \A i \in 1 .. n + 1 : i \in 1 .. n \/ i = n + 1
      BY <1>1
    <3>2. \A i \in 1 .. n : i \in 1 .. n + 1
      BY <1>1
    <3>3. n + 1 \in 1 .. n + 1
      BY <1>1
    <3> QED BY <1>1, <1>5, <2>0, <3>1, <3>2, <3>3
  <2>2. \A i, j \in 1 .. Len(e) : e[i] = e[j] => i = j
    BY <1>1, <1>3, <2>0
  <2>3. head' = e[1]
    BY <1>1, <1>6, <2>0
  <2>4. tail' = e[Len(e)]
    BY <2>0
  <2>5. ASSUME NEW i \in 1 .. Len(e)
        PROVE  quad'[e[i]].next = IF i = Len(e) THEN NULL ELSE e[i + 1]
    <3>1. CASE i = n + 1
      BY <1>6, <2>0, <3>1
    <3>2. CASE i = n
      <4>1. i \in 1 .. n /\ e[i] = c[i] /\ i # n + 1 /\ n # 0
        BY <1>1, <2>0, <3>2
      <4>2. c[i] \in Live /\ c[i] = tail
        BY <1>1, <3>2, <4>1
      <4> QED BY <1>6, <2>0, <3>2, <4>1, <4>2
    <3>3. CASE i # n + 1 /\ i # n
      <4>1. i \in 1 .. n /\ i + 1 \in 1 .. n /\ n \in 1 .. n
        BY <1>1, <2>0, <3>3
      <4>2. c[i] # tail /\ c[i] \in Live
        BY <1>1, <3>3, <4>1
      <4>3. quad[c[i]].next = c[i + 1]
        BY <1>1, <3>3, <4>1
      <4>4. e[i] = c[i] /\ e[i + 1] = c[i + 1] /\ i # Len(e)
        BY <2>0, <3>3, <4>1
      <4> QED BY <1>6, <4>2, <4>3, <4>4
    <3> QED BY <3>1, <3>2, <3>3
  <2>6. ASSUME NEW i \in 2 .. Len(e) PROVE quad'[e[i]].prev = e[i - 1]
    <3>1. CASE i = n + 1
      <4>1. n # 0 /\ i - 1 = n /\ n \in 1 .. n
        BY <1>1, <2>0, <3>1
      <4>2. e[i] = x /\ e[i - 1] = c[n]
        BY <2>0, <3>1, <4>1
      <4> QED BY <1>1, <1>6, <4>1, <4>2
    <3>2. CASE i # n + 1
      <4>1. i \in 2 .. n /\ i \in 1 .. n /\ i - 1 \in 1 .. n
        BY <1>1, <2>0, <3>2
      <4>2. e[i] = c[i] /\ e[i - 1] = c[i - 1] /\ c[i] \in Live
        BY <1>1, <2>0, <4>1
      <4>3. quad[c[i]].prev = c[i - 1]
        BY <1>1, <4>1
      <4> QED BY <1>6, <4>2, <4>3
    <3> QED BY <3>1, <3>2
  <2>7. LinkedAs(e)'
    BY <2>0, <2>1, <2>2, <2>3, <2>4, <2>5, <2>6 DEF LinkedAs
  <2> QED BY <2>7 DEF e
<1> QED BY <1>5, <1>6, <1>7, <1>8, <1>9, <1>10, <1>11 DEF Kept

(* A key that is there gets a value that no other key has.                 *)
LEMMA PutAgain ==
  ASSUME Kept, NEW c \in Seq(Cells), LinkedAs(c),
         NEW k \in Keys, NEW v \in Values, map[k] # NULL,
         v \notin ValuesIn \ {quad[map[k]].data},
         quad' = [quad EXCEPT ![map[k]].data = v], UNCHANGED <<head, tail, map, cursor>>
  PROVE  /\ Kept' /\ LinkedAs(c)' /\ Live' = Live
         /\ quad'[map[k]].data = v
         /\ \A y \in Live \ {map[k]} : quad'[y].data = quad[y].data
<1> DEFINE x == map[k]
<1>1. x \in Live /\ Live' = Live /\ Live \subseteq Cells
  BY LiveCells DEF Kept, Live
<1>2. quad \in [Cells -> Quads]
  BY DEF Kept, TypeOK, Quads
<1> HIDE DEF x
<1>3. /\ quad' \in [Cells -> Quads]
      /\ quad'[x].data = v
      /\ \A y \in Cells : /\ quad'[y].prev = quad[y].prev /\ quad'[y].next = quad[y].next
                          /\ y # x => quad'[y].data = quad[y].data
  <2> DEFINE r == [quad[x] EXCEPT !.data = v]
  <2>1. quad' = [quad EXCEPT ![x] = r]
    BY DEF x
  <2>2. r \in Quads /\ r.data = v /\ r.prev = quad[x].prev /\ r.next = quad[x].next
    BY <1>1, <1>2 DEF Quads
  <2> HIDE DEF r
  <2> QED BY <1>1, <1>2, <2>1, <2>2
<1>4. TypeOK' /\ CursorLive' /\ OneKeyEach'
  BY <1>1, <1>3 DEF Kept, TypeOK, CursorLive, OneKeyEach, Quads
<1>5. OneValueEach'
  <2>1. \A y \in Live : y # x => quad[y].data # v
    <3>1. \A y \in Live : y # x => quad[y].data # quad[x].data
      BY <1>1 DEF Kept, OneValueEach
    <3>2. v \notin ValuesIn \ {quad[x].data}
      BY DEF x
    <3> QED BY <3>1, <3>2 DEF ValuesIn
  <2> QED BY <1>1, <1>3, <2>1 DEF Kept, OneValueEach
<1>6. LinkedAs(c)'
  <2>1. \A i \in 1 .. Len(c) : c[i] \in Cells
    OBVIOUS
  <2> QED BY <1>1, <1>3, <2>1 DEF LinkedAs
<1> QED BY <1>1, <1>3, <1>4, <1>5, <1>6 DEF Kept, x

-----------------------------------------------------------------------------
(* erase(position)                                                         *)

KeysApart ==
  \A x \in Live : /\ KeyAt(x) \in Keys /\ map[KeyAt(x)] = x
                  /\ \A k \in Keys : map[k] = x => k = KeyAt(x)

LEMMA KeyOf == Kept => KeysApart
<1> SUFFICES ASSUME Kept, NEW x \in Live
             PROVE  /\ KeyAt(x) \in Keys /\ map[KeyAt(x)] = x
                    /\ \A k \in Keys : map[k] = x => k = KeyAt(x)
  BY DEF KeysApart
<1>1. x # NULL /\ \E k \in Keys : map[k] = x
  BY DEF Live
<1>2. KeyAt(x) \in Keys /\ map[KeyAt(x)] = x
  BY <1>1 DEF KeyAt
<1> QED BY <1>1, <1>2 DEF Kept, OneKeyEach

(* Values tell elements apart, so that erase() knows the head.             *)
LEMMA PositionOf ==
  ASSUME Kept, NEW x \in Live
  PROVE  /\ \A y \in Live : SamePosition(x, y) <=> x = y
         /\ ~SamePosition(x, NULL)
BY LiveCells DEF Kept, SamePosition, OneValueEach

LEMMA HeadErased ==
  ASSUME Kept, NEW c \in Seq(Cells), LinkedAs(c), NEW j \in 1 .. Len(c), j = 1, EraseAt(c[j])
  PROVE  /\ UNCHANGED quad
         /\ head' = IF Len(c) = 1 THEN NULL ELSE c[2]
         /\ tail' = IF Len(c) = 1 THEN NULL ELSE c[Len(c)]
         /\ map' = [map EXCEPT ![KeyAt(c[j])] = NULL]
<1>0. /\ Len(c) \in Nat
      /\ \A i \in 1 .. Len(c) : c[i] \in Live /\ c[i] \in Cells /\ c[i] # NULL
      /\ head = IF Len(c) = 0 THEN NULL ELSE c[1]
      /\ tail = IF Len(c) = 0 THEN NULL ELSE c[Len(c)]
      /\ \A i \in 1 .. Len(c) :
            quad[c[i]].next = IF i = Len(c) THEN NULL ELSE c[i + 1]
  BY ChainCells
<1>1. /\ Len(c) \in Nat /\ Len(c) # 0 /\ head = c[1] /\ tail = c[Len(c)] /\ c[1] \in Live
      /\ quad[c[1]].next = IF 1 = Len(c) THEN NULL ELSE c[2]
      /\ \A i \in 1 .. Len(c) : c[i] # NULL
  <2> DEFINE n == Len(c)
  <2>1. n \in Nat /\ j \in 1 .. n /\ j = 1
    BY <1>0
  <2> HIDE DEF n
  <2>2. 1 \in 1 .. n /\ n # 0 /\ 1 + 1 = 2
    BY <2>1
  <2> QED BY <1>0, <2>1, <2>2 DEF n
<1>2. SamePosition(c[j], head)
  BY <1>1, PositionOf
<1>3. EraseHead
  BY <1>2 DEF EraseAt
<1>4. Len(c) # 1 => c[2] # NULL
  <2> DEFINE n == Len(c)
  <2>1. n \in Nat /\ n # 0
    BY <1>1
  <2> HIDE DEF n
  <2>2. n # 1 => 2 \in 1 .. n
    BY <2>1
  <2> QED BY <1>1, <2>2 DEF n
<1> QED BY <1>1, <1>3, <1>4 DEF EraseHead

LEMMA OtherErased ==
  ASSUME Kept, NEW c \in Seq(Cells), LinkedAs(c), NEW j \in 2 .. Len(c), EraseAt(c[j])
  PROVE  /\ quad' \in [Cells -> Quads] /\ \A y \in Cells : quad'[y].data = quad[y].data
         /\ UNCHANGED head
         /\ tail' = IF j = Len(c) THEN c[j - 1] ELSE c[Len(c)]
         /\ map' = [map EXCEPT ![KeyAt(c[j])] = NULL]
         /\ \A i \in 1 .. Len(c) : i # j =>
               /\ quad'[c[i]].next = IF i = j - 1 THEN quad[c[j]].next ELSE quad[c[i]].next
               /\ quad'[c[i]].prev = IF i = j + 1 THEN c[j - 1] ELSE quad[c[i]].prev
<1> DEFINE n == Len(c)
           x == c[j]
           p == c[j - 1]
           q == quad[x].next
<1>1. /\ n \in Nat /\ head = c[1] /\ tail = c[n]
      /\ \A i \in 1 .. n : c[i] \in Live /\ c[i] \in Cells /\ c[i] # NULL
      /\ \A i, l \in 1 .. n : c[i] = c[l] => i = l
      /\ q = IF j = n THEN NULL ELSE c[j + 1]
      /\ quad[x].prev = p
  BY ChainCells
<1>2. j \in 1 .. n /\ j - 1 \in 1 .. n /\ 1 \in 1 .. n /\ (j # n => j + 1 \in 1 .. n)
  BY <1>1
<1>3. x \in Live /\ c[1] \in Live /\ x # head /\ p \in Cells /\ p # x /\ x # NULL
  BY <1>1, <1>2
<1>4. ~SamePosition(x, head)
  BY <1>1, <1>3, PositionOf
<1>5. /\ quad' = Relinked(x) /\ UNCHANGED head
      /\ tail' = IF q = NULL THEN p ELSE tail
      /\ map' = [map EXCEPT ![KeyAt(x)] = NULL]
  BY <1>1, <1>4 DEF EraseAt, Unlink
<1>6. quad \in [Cells -> Quads]
  BY DEF Kept, TypeOK, Quads
<1> DEFINE r == [quad[p] EXCEPT !.next = q]
           before == [quad EXCEPT ![p] = r]
<1>7. q \in Cells \cup {NULL} /\ (q = NULL <=> j = n)
  BY <1>1, <1>2
<1>8. r \in Quads /\ r.next = q /\ r.prev = quad[p].prev /\ r.data = quad[p].data
  BY <1>3, <1>6, <1>7 DEF Quads
<1>9. quad' = IF q = NULL THEN before ELSE [before EXCEPT ![q] = [before[q] EXCEPT !.prev = p]]
  BY <1>1, <1>5 DEF Relinked
<1> HIDE DEF r
<1>10. /\ before \in [Cells -> Quads] /\ before[p] = r
       /\ \A y \in Cells : y # p => before[y] = quad[y]
  BY <1>3, <1>6, <1>8
<1> HIDE DEF before, n, x, p
<1>11. ASSUME q # NULL
       PROVE  /\ quad' \in [Cells -> Quads]
              /\ quad'[q].prev = p /\ quad'[q].next = before[q].next
              /\ quad'[q].data = before[q].data
              /\ \A y \in Cells : y # q => quad'[y] = before[y]
  <2> DEFINE s == [before[q] EXCEPT !.prev = p]
  <2> HIDE DEF q
  <2>1. s \in Quads /\ s.prev = p /\ s.next = before[q].next /\ s.data = before[q].data
    BY <1>3, <1>7, <1>10, <1>11 DEF Quads
  <2>2. quad' = [before EXCEPT ![q] = s]
    BY <1>9, <1>11
  <2> HIDE DEF s
  <2> QED BY <1>7, <1>10, <1>11, <2>1, <2>2
<1> HIDE DEF q
<1>12. /\ quad' \in [Cells -> Quads]
       /\ \A y \in Cells :
             /\ quad'[y].data = quad[y].data
             /\ quad'[y].next = IF y = p THEN q ELSE quad[y].next
             /\ quad'[y].prev = IF y = q THEN p ELSE quad[y].prev
  <2>1. CASE q = NULL
    <3>1. NULL \notin Cells
      BY ListMapAssumption
    <3> QED BY <1>8, <1>9, <1>10, <2>1, <3>1
  <2>2. CASE q # NULL
    <3> HIDE <1>9
    <3> QED BY <1>8, <1>10, <1>11, <2>2
  <2> QED BY <2>1, <2>2
<1>13. ASSUME NEW i \in 1 .. n, i # j
       PROVE  /\ c[i] \in Cells /\ (c[i] = p <=> i = j - 1) /\ (c[i] = q <=> i = j + 1)
  <2>1. c[i] = p <=> i = j - 1
    BY <1>1, <1>2, <1>13 DEF p
  <2>2. c[i] = q <=> i = j + 1
    <3>1. CASE j = n
      BY <1>1, <1>13, <3>1
    <3>2. CASE j # n
      BY <1>1, <1>2, <1>13, <3>2
    <3> QED BY <3>1, <3>2
  <2> QED BY <1>1, <2>1, <2>2
<1>14. ASSUME NEW i \in 1 .. n, i # j
       PROVE  /\ quad'[c[i]].next = IF i = j - 1 THEN q ELSE quad[c[i]].next
              /\ quad'[c[i]].prev = IF i = j + 1 THEN p ELSE quad[c[i]].prev
  BY <1>12, <1>13, <1>14
<1>15. tail' = IF j = n THEN p ELSE c[n]
  BY <1>1, <1>5, <1>7
<1> QED BY <1>5, <1>12, <1>14, <1>15 DEF n, x, p, q

LEMMA Erased ==
  ASSUME Kept, NEW c \in Seq(Cells), LinkedAs(c), NEW j \in 1 .. Len(c), EraseAt(c[j]),
         cursor' \in (Live \ {c[j]}) \cup {NULL}
  PROVE  /\ Kept' /\ LinkedAs(RemoveAt(c, j))' /\ Live' = Live \ {c[j]}
         /\ map' = [map EXCEPT ![KeyAt(c[j])] = NULL]
         /\ \A y \in Cells : quad'[y].data = quad[y].data
<1> DEFINE n == Len(c)
           x == c[j]
           e == RemoveAt(c, j)
           k == KeyAt(x)
<1>1. /\ n \in Nat /\ j \in 1 .. n
      /\ \A i \in 1 .. n : c[i] \in Live /\ c[i] \in Cells /\ c[i] # NULL
      /\ \A y \in Live : \E i \in 1 .. n : y = c[i]
      /\ \A i, l \in 1 .. n : c[i] = c[l] => i = l
      /\ head = IF n = 0 THEN NULL ELSE c[1]
      /\ tail = IF n = 0 THEN NULL ELSE c[n]
      /\ \A i \in 1 .. n : quad[c[i]].next = IF i = n THEN NULL ELSE c[i + 1]
      /\ \A i \in 2 .. n : quad[c[i]].prev = c[i - 1]
  BY ChainCells
<1>0. n \in Nat /\ j \in 1 .. n
  BY <1>1
<1>2. /\ e \in Seq(Cells) /\ Len(e) = n - 1 /\ n >= 1 /\ (e = <<>> <=> n = 1)
      /\ \A i \in 1 .. n - 1 : e[i] = IF i < j THEN c[i] ELSE c[i + 1]
  <2>1. /\ e \in Seq(Cells) /\ Len(e) = n - 1
        /\ \A i \in 1 .. n - 1 : e[i] = IF i < j THEN c[i] ELSE c[i + 1]
    BY RemoveAtShape
  <2> HIDE DEF e
  <2>2. n >= 1 /\ (n = 1 <=> Len(e) = 0)
    BY <1>1, <2>1
  <2>3. e = <<>> <=> Len(e) = 0
    BY <2>1
  <2> QED BY <2>1, <2>2, <2>3
<1>3. /\ quad \in [Cells -> Quads] /\ map \in [Keys -> Cells \cup {NULL}]
      /\ {head, tail, cursor} \subseteq Cells \cup {NULL} /\ Live \subseteq Cells
      /\ NULL \notin Cells
  BY LiveCells, ListMapAssumption DEF Kept, TypeOK, Quads
<1>4. /\ x \in Live /\ k \in Keys /\ map[k] = x /\ \A l \in Keys : map[l] = x => l = k
  <2>1. x \in Live
    BY <1>1
  <2> QED BY <2>1, KeyOf DEF KeysApart
<1>5. /\ quad' \in [Cells -> Quads] /\ map' = [map EXCEPT ![k] = NULL]
      /\ \A y \in Cells : quad'[y].data = quad[y].data
      /\ head' = IF j # 1 THEN c[1] ELSE IF n = 1 THEN NULL ELSE c[2]
      /\ tail' = IF n = 1 THEN NULL ELSE IF j = n THEN c[j - 1] ELSE c[n]
      /\ \A i \in 1 .. n : i # j => quad'[c[i]].next = IF i = j - 1 THEN quad[x].next
                                                       ELSE quad[c[i]].next
      /\ \A i \in 2 .. n : i # j /\ (j = 1 => i # 2) =>
               quad'[c[i]].prev = IF i = j + 1 THEN c[j - 1] ELSE c[i - 1]
  <2>1. CASE j = 1
    <3>1. /\ UNCHANGED quad /\ head' = (IF n = 1 THEN NULL ELSE c[2])
          /\ tail' = (IF n = 1 THEN NULL ELSE c[n]) /\ map' = [map EXCEPT ![k] = NULL]
      BY <2>1, HeadErased
    <3> HIDE DEF n, x, e, k
    <3> QED BY <1>1, <1>3, <2>1, <3>1
  <2>2. CASE j # 1
    <3>1. j \in 2 .. n /\ n # 1
      BY <1>1, <2>2
    <3>2. /\ quad' \in [Cells -> Quads] /\ \A y \in Cells : quad'[y].data = quad[y].data
          /\ UNCHANGED head
          /\ tail' = (IF j = n THEN c[j - 1] ELSE c[n])
          /\ map' = [map EXCEPT ![k] = NULL]
          /\ \A i \in 1 .. n : i # j =>
               /\ quad'[c[i]].next = IF i = j - 1 THEN quad[x].next ELSE quad[c[i]].next
               /\ quad'[c[i]].prev = IF i = j + 1 THEN c[j - 1] ELSE quad[c[i]].prev
      BY <3>1, OtherErased
    <3> HIDE DEF n, x, e, k
    <3>3. \A i \in 2 .. n : i \in 1 .. n
      BY <1>1
    <3>4. /\ head' = IF j # 1 THEN c[1] ELSE IF n = 1 THEN NULL ELSE c[2]
          /\ tail' = IF n = 1 THEN NULL ELSE IF j = n THEN c[j - 1] ELSE c[n]
      <4>1. n # 0 /\ head = c[1] /\ head' = head
        BY <1>0, <1>1, <3>2
      <4> QED BY <2>2, <3>1, <3>2, <4>1
    <3>5. ASSUME NEW i \in 2 .. n, i # j
          PROVE  quad'[c[i]].prev = IF i = j + 1 THEN c[j - 1] ELSE c[i - 1]
      BY <1>1, <3>2, <3>3, <3>5
    <3> QED BY <3>2, <3>4, <3>5
  <2> QED BY <2>1, <2>2
<1> HIDE DEF n, e, k
<1>6. Live' = Live \ {x}
  <2>1. map'[k] = NULL /\ \A l \in Keys : l # k => map'[l] = map[l]
    BY <1>3, <1>4, <1>5
  <2> QED BY <1>4, <2>1 DEF Live
<1>7. /\ TypeOK' /\ CursorLive' /\ OneKeyEach' /\ OneValueEach'
  <2>1. map' \in [Keys -> Cells \cup {NULL}] /\ \A l \in Keys : map'[l] # NULL => map'[l] = map[l]
    BY <1>3, <1>5
  <2>2. head' \in Cells \cup {NULL} /\ tail' \in Cells \cup {NULL}
    <3>1. 1 \in 1 .. n /\ n \in 1 .. n /\ (n # 1 => 2 \in 1 .. n)
      BY <1>0
    <3>2. j # 1 => j - 1 \in 1 .. n
      BY <1>0
    <3>3. head' = c[1] \/ head' = NULL \/ (n # 1 /\ head' = c[2])
      BY <1>5
    <3>4. tail' = NULL \/ tail' = c[n] \/ (j # 1 /\ tail' = c[j - 1])
      BY <1>5
    <3>5. \A i \in 1 .. n : c[i] \in Cells
      BY <1>1
    <3> QED BY <3>1, <3>2, <3>3, <3>4, <3>5
  <2>3. CursorLive' /\ cursor' \in Cells \cup {NULL}
    BY <1>3, <1>6 DEF CursorLive
  <2>4. TypeOK'
    BY <1>5, <2>1, <2>2, <2>3 DEF TypeOK, Quads
  <2>5. OneKeyEach'
    BY <2>1 DEF Kept, OneKeyEach
  <2>6. OneValueEach'
    BY <1>3, <1>5, <1>6 DEF Kept, OneValueEach
  <2> QED BY <2>3, <2>4, <2>5, <2>6
<1> HIDE DEF x
<1>8. LinkedAs(e)'
  <2>1. {e[i] : i \in 1 .. Len(e)} = Live'
    <3>1. ASSUME NEW i \in 1 .. n - 1 PROVE e[i] \in Live'
      <4>1. PICK l \in 1 .. n : l # j /\ e[i] = c[l]
        BY <1>0, <1>2
      <4>2. c[l] \in Live /\ c[l] # x
        BY <1>1, <4>1 DEF x
      <4> QED BY <1>6, <4>1, <4>2
    <3>2. ASSUME NEW y \in Live' PROVE \E i \in 1 .. n - 1 : e[i] = y
      <4>1. PICK i \in 1 .. n : y = c[i] /\ i # j
        BY <1>1, <1>6 DEF x
      <4>2. CASE i < j
        BY <1>1, <1>2, <4>1, <4>2
      <4>3. CASE i > j
        <5>1. i - 1 \in 1 .. n - 1 /\ ~(i - 1 < j) /\ (i - 1) + 1 = i
          BY <1>1, <4>3
        <5> QED BY <1>2, <4>1, <5>1
      <4> QED BY <4>1, <4>2, <4>3
    <3> QED BY <1>2, <3>1, <3>2
  <2>2. ASSUME NEW i \in 1 .. Len(e), NEW l \in 1 .. Len(e), e[i] = e[l]
        PROVE  i = l
    <3> DEFINE at(m) == IF m < j THEN m ELSE m + 1
    <3>1. \A m \in 1 .. n - 1 : at(m) \in 1 .. n /\ e[m] = c[at(m)]
      BY <1>0, <1>2
    <3>2. i \in 1 .. n - 1 /\ l \in 1 .. n - 1
      BY <1>2
    <3>3. at(i) = at(l) => i = l
      BY <1>0, <3>2
    <3> HIDE DEF at
    <3>4. c[at(i)] = c[at(l)] /\ at(i) \in 1 .. n /\ at(l) \in 1 .. n
      BY <2>2, <3>1, <3>2
    <3>5. at(i) = at(l)
      BY <1>1, <3>4
    <3> QED BY <3>3, <3>5
  <2>3. head' = IF e = <<>> THEN NULL ELSE e[1]
    BY <1>1, <1>2, <1>5
  <2>4. tail' = IF e = <<>> THEN NULL ELSE e[Len(e)]
    BY <1>1, <1>2, <1>5
  <2>5. ASSUME NEW i \in 1 .. Len(e)
        PROVE  quad'[e[i]].next = IF i = Len(e) THEN NULL ELSE e[i + 1]
    <3>0. /\ i \in 1 .. n - 1 /\ i \in 1 .. n /\ i + 1 \in 1 .. n /\ i # n
      <4>1. Len(e) = n - 1
        BY <1>2
      <4> QED BY <1>0, <4>1
    <3>1. CASE i < j
      <4>0. e[i] = c[i]
        BY <1>2, <3>0, <3>1
      <4>1. /\ e[i] = c[i] /\ i # j /\ (i = j - 1 <=> i + 1 = j)
            /\ quad[c[i]].next = c[i + 1] /\ j \in 1 .. n
        <5>1. i # j /\ (i = j - 1 <=> i + 1 = j)
          BY <1>0, <3>1
        <5>2. quad[c[i]].next = c[i + 1]
          BY <1>1, <3>0
        <5> QED BY <1>0, <4>0, <5>1, <5>2
      <4>2. quad'[e[i]].next = IF i = j - 1 THEN quad[x].next ELSE c[i + 1]
        BY <1>5, <3>0, <4>1
      <4>3. CASE i = j - 1
        <5>1. quad[x].next = IF j = n THEN NULL ELSE c[j + 1]
          BY <1>1 DEF x
        <5>2. i = Len(e) <=> j = n
          BY <1>0, <1>2, <3>0, <4>3
        <5>3. j # n => e[i + 1] = c[j + 1]
          BY <1>0, <1>2, <3>0, <4>3
        <5> QED BY <4>2, <4>3, <5>1, <5>2, <5>3
      <4>4. CASE i # j - 1
        <5>1. i # Len(e) /\ e[i + 1] = c[i + 1]
          BY <1>0, <1>2, <3>0, <3>1, <4>4
        <5> QED BY <4>2, <4>4, <5>1
      <4> QED BY <4>3, <4>4
    <3>2. CASE ~(i < j)
      <4>1. /\ e[i] = c[i + 1] /\ i + 1 # j /\ i + 1 # j - 1
            /\ (i + 1 = n <=> i = Len(e)) /\ (i # Len(e) => e[i + 1] = c[(i + 1) + 1])
        BY <1>0, <1>2, <3>0, <3>2
      <4>2. quad'[c[i + 1]].next = quad[c[i + 1]].next
        BY <1>5, <3>0, <4>1
      <4>3. quad[c[i + 1]].next = IF i + 1 = n THEN NULL ELSE c[(i + 1) + 1]
        BY <1>1, <3>0
      <4> QED BY <4>1, <4>2, <4>3
    <3> QED BY <3>1, <3>2
  <2>6. ASSUME NEW i \in 2 .. Len(e) PROVE quad'[e[i]].prev = e[i - 1]
    <3>0. /\ i \in 2 .. n /\ i + 1 \in 2 .. n /\ i - 1 \in 1 .. n - 1 /\ i \in 1 .. n - 1
      BY <1>0, <1>2
    <3>1. CASE i < j
      <4>1. e[i] = c[i] /\ e[i - 1] = c[i - 1] /\ i # j + 1 /\ i # j /\ j # 1
        BY <1>0, <1>2, <3>0, <3>1
      <4> QED BY <1>5, <3>0, <4>1
    <3>2. CASE i = j
      <4>1. e[i] = c[i + 1] /\ e[i - 1] = c[j - 1] /\ i + 1 = j + 1 /\ i + 1 # j /\ j # 1
        BY <1>0, <1>2, <3>0, <3>2
      <4> QED BY <1>5, <3>0, <4>1
    <3>3. CASE i > j
      <4>1. /\ e[i] = c[i + 1] /\ e[i - 1] = c[i] /\ i + 1 # j + 1 /\ i + 1 # j
            /\ i + 1 # 2 /\ (i + 1) - 1 = i
        BY <1>0, <1>2, <3>0, <3>3
      <4> QED BY <1>5, <3>0, <4>1
    <3> QED BY <3>0, <3>1, <3>2, <3>3
  <2> QED BY <2>1, <2>2, <2>3, <2>4, <2>5, <2>6 DEF LinkedAs
<1> QED BY <1>5, <1>6, <1>7, <1>8 DEF Kept, e, k, x

-----------------------------------------------------------------------------
(* What a chain of cells stands for.                                       *)

Mapped == {key \in Keys : map[key] # NULL}

StandsFor(c) ==
  /\ ListMapInv /\ Chain = c
  /\ KeysInOrder \in Seq(Keys) /\ Len(KeysInOrder) = Len(c)
  /\ \A i \in 1 .. Len(c) : KeysInOrder[i] = KeyAt(c[i])
  /\ \A i, j \in 1 .. Len(c) : KeysInOrder[i] = KeysInOrder[j] => i = j
  /\ Range(KeysInOrder) = Mapped
  /\ ValueOfKey = [k \in Mapped |-> quad[map[k]].data]

LEMMA ChainKeys == \A c \in Seq(Cells) : Kept /\ LinkedAs(c) => StandsFor(c)
<1> SUFFICES ASSUME NEW c \in Seq(Cells), Kept, LinkedAs(c) PROVE StandsFor(c)
  OBVIOUS
<1>1. ListMapInv /\ Chain = c
  BY ChainInv
<1>2. /\ Len(c) \in Nat /\ Size = Len(c)
      /\ \A i \in 1 .. Len(c) : c[i] \in Live
      /\ \A x \in Live : \E i \in 1 .. Len(c) : x = c[i]
      /\ \A i, j \in 1 .. Len(c) : c[i] = c[j] => i = j
  BY ChainCells
<1>3. \A i \in 1 .. Len(c) : KeyAt(c[i]) \in Keys /\ map[KeyAt(c[i])] = c[i]
  BY <1>2, KeyOf DEF KeysApart
<1>4. \A k \in Mapped : map[k] \in Live /\ KeyAt(map[k]) = k
  <2> SUFFICES ASSUME NEW k \in Mapped PROVE map[k] \in Live /\ KeyAt(map[k]) = k
    OBVIOUS
  <2>1. map[k] \in Live /\ k \in Keys
    BY DEF Live, Mapped
  <2> QED BY <2>1, KeyOf DEF KeysApart
<1>5. KeysInOrder = [i \in 1 .. Len(c) |-> KeyAt(c[i])]
  BY <1>1, <1>2 DEF KeysInOrder
<1>6. /\ KeysInOrder \in Seq(Keys) /\ Len(KeysInOrder) = Len(c)
      /\ \A i \in 1 .. Len(c) : KeysInOrder[i] = KeyAt(c[i])
  BY <1>2, <1>3, <1>5
<1>7. \A i, j \in 1 .. Len(c) : KeysInOrder[i] = KeysInOrder[j] => i = j
  <2> SUFFICES ASSUME NEW i \in 1 .. Len(c), NEW j \in 1 .. Len(c),
                      KeysInOrder[i] = KeysInOrder[j]
               PROVE  i = j
    OBVIOUS
  <2>1. KeyAt(c[i]) = KeyAt(c[j])
    BY <1>6
  <2>2. c[i] = c[j]
    BY <1>3, <2>1
  <2> QED BY <1>2, <2>2
<1>8. Range(KeysInOrder) = Mapped
  <2>1. Range(KeysInOrder) = {KeyAt(c[i]) : i \in 1 .. Len(c)}
    BY <1>6, RangeOf
  <2>2. \A i \in 1 .. Len(c) : KeyAt(c[i]) \in Mapped
    <3>1. NULL \notin Live
      BY DEF Live
    <3> QED BY <1>2, <1>3, <3>1 DEF Mapped
  <2>3. \A k \in Mapped : \E i \in 1 .. Len(c) : k = KeyAt(c[i])
    BY <1>2, <1>4
  <2> QED BY <2>1, <2>2, <2>3
<1>9. ValueOfKey = [k \in Mapped |-> quad[map[k]].data]
  BY DEF ValueOfKey, Mapped
<1> QED BY <1>1, <1>6, <1>7, <1>8, <1>9 DEF StandsFor

LEMMA KeyOfNext == Kept' => KeysApart'
BY KeyOf, PTL

LEMMA ChainKeysNext == (\A c \in Seq(Cells) : Kept /\ LinkedAs(c) => StandsFor(c))'
BY ChainKeys, PTL

(* Two sequences of keys.                                                  *)
LEMMA SameSeq ==
  ASSUME NEW S, NEW s \in Seq(S), NEW t \in Seq(S), Len(s) = Len(t),
         \A i \in 1 .. Len(s) : s[i] = t[i]
  PROVE  s = t
OBVIOUS

LEMMA Placed ==
  ASSUME Kept, NEW c \in Seq(Cells), LinkedAs(c), NEW j \in 1 .. Len(c)
  PROVE  /\ Abstract!PlaceOf(KeyAt(c[j])) = j /\ KeyAt(c[j]) \in Mapped
         /\ KeyAt(c[j]) # NoKey
<1>1. StandsFor(c)
  BY ChainKeys
<1>2. /\ Len(c) \in Nat /\ DOMAIN KeysInOrder = 1 .. Len(c)
      /\ KeysInOrder[j] = KeyAt(c[j])
      /\ \A i \in 1 .. Len(c) : KeysInOrder[i] = KeysInOrder[j] => i = j
  BY <1>1 DEF StandsFor
<1>3. Abstract!PlaceOf(KeyAt(c[j])) = j
  BY <1>2 DEF Abstract!PlaceOf
<1>4. KeysInOrder[j] \in Mapped
  BY <1>1, <1>2 DEF StandsFor, Range
<1> QED BY <1>2, <1>3, <1>4, ListMapAssumption DEF Mapped

LEMMA Present == Abstract!Present = Range(KeysInOrder)
BY DEF Abstract!Present, Abstract!Range, Range

-----------------------------------------------------------------------------
(* Each operation is one of OrderedMap.                                    *)

LEMMA PutStep ==
  ASSUME ListMapInv, NEW k \in Keys, NEW v \in Values, Put(k, v)
  PROVE  ListMapInv' /\ Abstract!Put(k, v)
<1>1. PICK c \in Seq(Cells) : LinkedAs(c)
  BY InvChain
<1>2. Kept /\ StandsFor(c) /\ KeysApart
  BY <1>1, InvChain, ChainKeys, KeyOf
<1>3. CASE map[k] = NULL
  <2>1. PICK x \in Cells \ Live :
            /\ v \notin ValuesIn /\ LinkBehindTail(x, v) /\ tail' = x
            /\ map' = [map EXCEPT ![k] = x] /\ UNCHANGED cursor
    BY <1>3 DEF Put
  <2> DEFINE e == Append(c, x)
  <2>2. /\ Kept' /\ LinkedAs(e)' /\ Live' = Live \cup {x}
        /\ quad'[x].data = v /\ \A y \in Live : quad'[y].data = quad[y].data
    BY <1>1, <1>2, <1>3, <2>1, PutNew
  <2>3. /\ e \in Seq(Cells) /\ Len(e) = Len(c) + 1 /\ e[Len(c) + 1] = x
        /\ \A i \in 1 .. Len(c) : e[i] = c[i]
        /\ Len(c) \in Nat
    OBVIOUS
  <2> HIDE DEF e
  <2>4. StandsFor(e)' /\ KeysApart'
    BY <2>2, <2>3, ChainKeysNext, KeyOfNext
  <2>5. map \in [Keys -> Cells \cup {NULL}] /\ Live \subseteq Cells /\ NULL \notin Live
    BY <1>2, LiveCells DEF Kept, TypeOK
  <2>6. ASSUME NEW y \in Live PROVE KeyAt(y)' = KeyAt(y)
    <3>1. KeyAt(y) \in Keys /\ map[KeyAt(y)] = y /\ y # NULL
      BY <1>2, <2>5 DEF KeysApart
    <3>2. map'[KeyAt(y)] = y /\ y \in Live'
      BY <1>3, <2>1, <2>2, <2>5, <3>1
    <3> QED BY <2>4, <3>1, <3>2 DEF KeysApart
  <2>7. KeyAt(x)' = k
    <3>1. map'[k] = x /\ x \in Live'
      BY <2>1, <2>2, <2>5
    <3> QED BY <2>4, <3>1 DEF KeysApart
  <2>8. KeysInOrder' = Append(KeysInOrder, k)
    <3> DEFINE s == KeysInOrder'
               t == Append(KeysInOrder, k)
    <3>1. KeysInOrder \in Seq(Keys) /\ Len(KeysInOrder) = Len(c)
      BY <1>2 DEF StandsFor
    <3>2. /\ t \in Seq(Keys) /\ Len(t) = Len(c) + 1 /\ t[Len(c) + 1] = k
          /\ \A i \in 1 .. Len(c) : t[i] = KeysInOrder[i]
      BY <3>1
    <3>3. /\ s \in Seq(Keys) /\ Len(s) = Len(c) + 1
          /\ \A i \in 1 .. Len(c) + 1 : s[i] = KeyAt(e[i])'
      BY <2>3, <2>4 DEF StandsFor
    <3>4. \A i \in 1 .. Len(c) : c[i] \in Live /\ KeysInOrder[i] = KeyAt(c[i])
      BY <1>1, <1>2, ChainCells DEF StandsFor
    <3> HIDE DEF s, t
    <3>5. ASSUME NEW i \in 1 .. Len(s) PROVE s[i] = t[i]
      <4>1. CASE i = Len(c) + 1
        BY <2>3, <2>7, <3>2, <3>3, <4>1
      <4>2. CASE i # Len(c) + 1
        <5>1. i \in 1 .. Len(c) /\ i \in 1 .. Len(c) + 1
          BY <2>3, <3>3, <4>2
        <5> QED BY <2>3, <2>6, <3>2, <3>3, <3>4, <5>1
      <4> QED BY <4>1, <4>2
    <3>6. s = t
      BY <3>2, <3>3, <3>5, SameSeq
    <3> QED BY <3>6 DEF s, t
  <2>9. Mapped' = Mapped \cup {k} /\ k \notin Mapped
    BY <1>3, <2>1, <2>5, ListMapAssumption DEF Mapped
  <2>10. ValueOfKey' = [o \in Mapped \cup {k} |-> IF o = k THEN v ELSE ValueOfKey[o]]
    <3>1. ValueOfKey' = [o \in Mapped' |-> quad'[map'[o]].data]
      BY <2>4 DEF StandsFor
    <3>2. ASSUME NEW o \in Mapped'
          PROVE  quad'[map'[o]].data = IF o = k THEN v ELSE ValueOfKey[o]
      <4>1. CASE o = k
        BY <2>1, <2>2, <2>5, <4>1
      <4>2. CASE o # k
        <5>1. o \in Mapped /\ o \in Keys /\ map'[o] = map[o] /\ map[o] \in Live
          BY <2>1, <2>5, <2>9, <4>2 DEF Mapped, Live
        <5>2. ValueOfKey[o] = quad[map[o]].data
          BY <1>2, <5>1 DEF StandsFor
        <5> QED BY <2>2, <4>2, <5>1, <5>2
      <4> QED BY <4>1, <4>2
    <3> QED BY <2>9, <3>1, <3>2
  <2>11. KeyReached' = KeyReached
    BY <1>2, <2>1, <2>6 DEF KeyReached, Kept, CursorLive
  <2>12. Abstract!Present = Mapped
    BY <1>2, Present DEF StandsFor
  <2>13. Abstract!Put(k, v)
    BY <2>8, <2>9, <2>10, <2>11, <2>12 DEF Abstract!Put
  <2> QED BY <2>4, <2>13 DEF StandsFor
<1>4. CASE map[k] # NULL
  <2>1. /\ v \notin ValuesIn \ {quad[map[k]].data}
        /\ quad' = [quad EXCEPT ![map[k]].data = v] /\ UNCHANGED <<head, tail, map, cursor>>
    BY <1>4 DEF Put
  <2>2. /\ Kept' /\ LinkedAs(c)' /\ Live' = Live
        /\ quad'[map[k]].data = v
        /\ \A y \in Live \ {map[k]} : quad'[y].data = quad[y].data
    BY <1>1, <1>2, <1>4, <2>1, PutAgain
  <2>3. StandsFor(c)'
    BY <2>2, ChainKeysNext
  <2>4. \A y : KeyAt(y)' = KeyAt(y)
    BY <2>1 DEF KeyAt
  <2>5. KeysInOrder' = KeysInOrder
    BY <1>2, <2>3, <2>4, SameSeq DEF StandsFor
  <2>6. Mapped' = Mapped /\ k \in Mapped
    BY <1>4, <2>1 DEF Mapped
  <2>7. ValueOfKey' = [o \in Mapped \cup {k} |-> IF o = k THEN v ELSE ValueOfKey[o]]
    <3>1. ValueOfKey' = [o \in Mapped |-> quad'[map[o]].data]
      BY <2>1, <2>3, <2>6 DEF StandsFor
    <3>2. ASSUME NEW o \in Mapped
          PROVE  quad'[map[o]].data = IF o = k THEN v ELSE ValueOfKey[o]
      <4>1. CASE o = k
        BY <2>2, <4>1
      <4>2. CASE o # k
        <5>1. o \in Keys /\ map[o] \in Live /\ map[o] # map[k]
          BY <1>2, <1>4, <4>2 DEF Mapped, Live, Kept, OneKeyEach
        <5>2. ValueOfKey[o] = quad[map[o]].data
          BY <1>2 DEF StandsFor
        <5> QED BY <2>2, <4>2, <5>1, <5>2
      <4> QED BY <4>1, <4>2
    <3> QED BY <2>6, <3>1, <3>2
  <2>8. KeyReached' = KeyReached
    BY <2>1, <2>4 DEF KeyReached
  <2>9. Abstract!Present = Mapped
    BY <1>2, Present DEF StandsFor
  <2>10. Abstract!Put(k, v)
    BY <2>5, <2>6, <2>7, <2>8, <2>9 DEF Abstract!Put
  <2> QED BY <2>3, <2>10 DEF StandsFor
<1> QED BY <1>3, <1>4

(* Erasing the element at a place is taking its key out of the sequence.   *)
LEMMA EraseTakesOut ==
  ASSUME Kept, NEW c \in Seq(Cells), LinkedAs(c), NEW j \in 1 .. Len(c), EraseAt(c[j]),
         cursor' \in (Live \ {c[j]}) \cup {NULL}
  PROVE  /\ ListMapInv'
         /\ KeysInOrder' = Abstract!Without(KeyAt(c[j]))
         /\ ValueOfKey' = Abstract!ValuesWithout(KeyAt(c[j]))
         /\ \A y \in Live \ {c[j]} : KeyAt(y)' = KeyAt(y)
<1> DEFINE x == c[j]
           k == KeyAt(x)
           e == RemoveAt(c, j)
<1>1. /\ Kept' /\ LinkedAs(e)' /\ Live' = Live \ {x} /\ map' = [map EXCEPT ![k] = NULL]
      /\ \A y \in Cells : quad'[y].data = quad[y].data
  BY Erased
<1>2. /\ e \in Seq(Cells) /\ Len(e) = Len(c) - 1
      /\ \A i \in 1 .. Len(c) - 1 : e[i] = IF i < j THEN c[i] ELSE c[i + 1]
  BY RemoveAtShape
<1>3. StandsFor(c) /\ KeysApart
  BY ChainKeys, KeyOf
<1>4. StandsFor(e)' /\ KeysApart'
  BY <1>1, <1>2, ChainKeysNext, KeyOfNext
<1>5. /\ map \in [Keys -> Cells \cup {NULL}] /\ Live \subseteq Cells /\ NULL \notin Live
      /\ x \in Live /\ \A i \in 1 .. Len(c) : c[i] \in Live
      /\ \A i, l \in 1 .. Len(c) : c[i] = c[l] => i = l
      /\ Len(c) \in Nat
  BY LiveCells, ChainCells DEF Kept, TypeOK
<1>6. k \in Keys /\ map[k] = x /\ \A l \in Keys : map[l] = x => l = k
  BY <1>3, <1>5 DEF KeysApart
<1> HIDE DEF e, k, x
<1>7. ASSUME NEW y \in Live \ {x} PROVE KeyAt(y)' = KeyAt(y)
  <2>1. KeyAt(y) \in Keys /\ map[KeyAt(y)] = y /\ KeyAt(y) # k
    BY <1>3, <1>6 DEF KeysApart
  <2>2. map'[KeyAt(y)] = y /\ y \in Live'
    BY <1>1, <1>5, <2>1
  <2> QED BY <1>4, <2>1, <2>2 DEF KeysApart
<1>8. Abstract!PlaceOf(k) = j /\ k \in Mapped
  BY Placed DEF k, x
<1>9. KeysInOrder' = Abstract!Without(k)
  <2> DEFINE s == KeysInOrder'
             t == RemoveAt(KeysInOrder, j)
  <2>1. KeysInOrder \in Seq(Keys) /\ Len(KeysInOrder) = Len(c)
    BY <1>3 DEF StandsFor
  <2>2. /\ t \in Seq(Keys) /\ Len(t) = Len(c) - 1
        /\ \A i \in 1 .. Len(c) - 1 :
              t[i] = IF i < j THEN KeysInOrder[i] ELSE KeysInOrder[i + 1]
    BY <2>1, RemoveAtShape
  <2>3. /\ s \in Seq(Keys) /\ Len(s) = Len(c) - 1
        /\ \A i \in 1 .. Len(c) - 1 : s[i] = KeyAt(e[i])'
    BY <1>2, <1>4 DEF StandsFor
  <2>4. \A i \in 1 .. Len(c) : KeysInOrder[i] = KeyAt(c[i])
    BY <1>3 DEF StandsFor
  <2>5. Abstract!Without(k) = t
    BY <1>8 DEF Abstract!Without, Abstract!RemoveAt, RemoveAt
  <2> HIDE DEF s, t
  <2>6. ASSUME NEW i \in 1 .. Len(s) PROVE s[i] = t[i]
    <3>1. i \in 1 .. Len(c) - 1 /\ i \in 1 .. Len(c) /\ i + 1 \in 1 .. Len(c) /\ j \in 1 .. Len(c)
      BY <1>5, <2>3
    <3>2. CASE i < j
      <4>1. e[i] = c[i] /\ c[i] \in Live \ {x}
        BY <1>2, <1>5, <3>1, <3>2 DEF x
      <4> QED BY <1>7, <2>2, <2>3, <2>4, <3>1, <3>2, <4>1
    <3>3. CASE ~(i < j)
      <4>1. e[i] = c[i + 1] /\ c[i + 1] \in Live \ {x}
        BY <1>2, <1>5, <3>1, <3>3 DEF x
      <4> QED BY <1>7, <2>2, <2>3, <2>4, <3>1, <3>3, <4>1
    <3> QED BY <3>2, <3>3
  <2>7. s = t
    BY <2>2, <2>3, <2>6, SameSeq
  <2> QED BY <2>5, <2>7 DEF s
<1>10. ValueOfKey' = Abstract!ValuesWithout(k)
  <2>1. Mapped' = Mapped \ {k}
    BY <1>1, <1>5, <1>6 DEF Mapped
  <2>2. ValueOfKey' = [o \in Mapped' |-> quad'[map'[o]].data]
    BY <1>4 DEF StandsFor
  <2>3. ASSUME NEW o \in Mapped \ {k} PROVE quad'[map'[o]].data = ValueOfKey[o]
    <3>1. o \in Keys /\ map'[o] = map[o] /\ map[o] \in Cells
      BY <1>1, <1>5, <2>3 DEF Mapped
    <3>2. ValueOfKey[o] = quad[map[o]].data
      BY <1>3 DEF StandsFor
    <3> QED BY <1>1, <3>1, <3>2
  <2>4. Abstract!Present = Mapped
    BY <1>3, Present DEF StandsFor
  <2> QED BY <2>1, <2>2, <2>3, <2>4 DEF Abstract!ValuesWithout
<1>11. ListMapInv'
  BY <1>4 DEF StandsFor
<1> QED BY <1>7, <1>9, <1>10, <1>11 DEF k, x

LEMMA EraseStep ==
  ASSUME ListMapInv, NEW k \in Keys, Erase(k)
  PROVE  ListMapInv' /\ Abstract!Erase(k)
<1>1. PICK c \in Seq(Cells) : LinkedAs(c)
  BY InvChain
<1>2. Kept /\ StandsFor(c) /\ KeysApart
  BY <1>1, InvChain, ChainKeys, KeyOf
<1>3. map[k] \in Live /\ KeyAt(map[k]) = k
  BY <1>2 DEF Erase, Live, KeysApart
<1>4. PICK j \in 1 .. Len(c) : map[k] = c[j]
  BY <1>1, <1>2, <1>3, ChainCells
<1>5. /\ EraseAt(c[j]) /\ cursor' = cursor /\ cursor # c[j]
      /\ cursor \in Live \cup {NULL}
  BY <1>2, <1>4 DEF Erase, Kept, CursorLive
<1>6. /\ ListMapInv' /\ KeysInOrder' = Abstract!Without(k)
      /\ ValueOfKey' = Abstract!ValuesWithout(k)
      /\ \A y \in Live \ {c[j]} : KeyAt(y)' = KeyAt(y)
  BY <1>1, <1>2, <1>3, <1>4, <1>5, EraseTakesOut
<1>7. KeyReached' = KeyReached /\ KeyReached # k
  <2>1. KeyReached' = KeyReached
    BY <1>5, <1>6 DEF KeyReached
  <2>2. cursor # NULL => KeyAt(cursor) # k
    BY <1>2, <1>4, <1>5 DEF KeysApart
  <2> QED BY <2>1, <2>2, ListMapAssumption DEF KeyReached
<1>8. k \in Abstract!Present
  BY <1>1, <1>2, <1>3, <1>4, Present, Placed DEF StandsFor
<1> QED BY <1>6, <1>7, <1>8 DEF Abstract!Erase

LEMMA ClearStep ==
  ASSUME ListMapInv, Clear
  PROVE  ListMapInv' /\ Abstract!Clear
<1>1. Kept
  BY InvChain
<1>2. Live' = {} /\ Mapped' = {} /\ cursor = NULL /\ cursor' = NULL
  BY DEF Clear, Live, Mapped
<1>3. Kept'
  <2>1. TypeOK'
    BY <1>1 DEF Kept, TypeOK, Clear
  <2>2. OneKeyEach'
    BY DEF Clear, OneKeyEach
  <2> QED BY <1>2, <2>1, <2>2 DEF Kept, CursorLive, OneValueEach
<1>4. LinkedAs(<<>>)' /\ <<>> \in Seq(Cells)
  BY <1>2 DEF LinkedAs, Clear
<1>5. StandsFor(<<>>)'
  BY <1>3, <1>4, ChainKeysNext
<1>6. KeysInOrder' = <<>>
  BY <1>5 DEF StandsFor
<1>7. ValueOfKey' = <<>>
  <2>1. ValueOfKey' = [o \in {} |-> quad'[map'[o]].data]
    BY <1>2, <1>5 DEF StandsFor
  <2> QED BY <2>1
<1>8. KeyReached = NoKey /\ KeyReached' = NoKey
  BY <1>2 DEF KeyReached
<1> QED BY <1>5, <1>6, <1>7, <1>8 DEF StandsFor, Abstract!Clear

(* What the cursor stands on, and what comes next.                         *)
LEMMA CursorAt ==
  ASSUME Kept, NEW c \in Seq(Cells), LinkedAs(c), ~SamePosition(cursor, NULL)
  PROVE  \E j \in 1 .. Len(c) :
            /\ cursor = c[j] /\ c[j] \in Live /\ KeyReached = KeyAt(c[j])
            /\ KeyReached # NoKey
            /\ quad[cursor].next \in (Live \ {c[j]}) \cup {NULL}
            /\ Abstract!After(KeyReached)
                 = IF quad[cursor].next = NULL THEN NoKey ELSE KeyAt(quad[cursor].next)
<1>1. cursor # NULL /\ cursor \in Live
  BY DEF SamePosition, Kept, CursorLive
<1>2. /\ Len(c) \in Nat
      /\ \A i \in 1 .. Len(c) : c[i] \in Live /\ c[i] # NULL
      /\ \A y \in Live : \E i \in 1 .. Len(c) : y = c[i]
      /\ \A i, l \in 1 .. Len(c) : c[i] = c[l] => i = l
      /\ \A i \in 1 .. Len(c) : quad[c[i]].next = IF i = Len(c) THEN NULL ELSE c[i + 1]
  BY ChainCells
<1>3. PICK j \in 1 .. Len(c) : cursor = c[j]
  BY <1>1, <1>2
<1>4. KeyReached = KeyAt(c[j]) /\ KeyReached # NoKey /\ Abstract!PlaceOf(KeyAt(c[j])) = j
  BY <1>1, <1>3, Placed DEF KeyReached
<1>5. Len(KeysInOrder) = Len(c) /\ \A i \in 1 .. Len(c) : KeysInOrder[i] = KeyAt(c[i])
  BY ChainKeys DEF StandsFor
<1>6. Abstract!After(KeyReached) = IF j = Len(c) THEN NoKey ELSE KeysInOrder[j + 1]
  BY <1>4, <1>5 DEF Abstract!After
<1>7. j # Len(c) => j + 1 \in 1 .. Len(c)
  BY <1>2
<1>8. CASE j = Len(c)
  BY <1>1, <1>2, <1>3, <1>4, <1>6, <1>8
<1>9. CASE j # Len(c)
  <2>1. quad[cursor].next = c[j + 1] /\ c[j + 1] # NULL /\ c[j + 1] \in Live
    BY <1>2, <1>3, <1>7, <1>9
  <2>2. c[j + 1] # c[j]
    BY <1>2, <1>7, <1>9
  <2> QED BY <1>1, <1>3, <1>4, <1>5, <1>6, <1>7, <1>9, <2>1, <2>2
<1> QED BY <1>8, <1>9

(* The steps that move the cursor only.                                    *)
LEMMA CursorMoves ==
  ASSUME ListMapInv, UNCHANGED <<head, tail, quad, map>>, cursor' \in Live \cup {NULL}
  PROVE  /\ ListMapInv' /\ UNCHANGED <<KeysInOrder, ValueOfKey>>
         /\ \A y : KeyAt(y)' = KeyAt(y)
<1>1. \A y : KeyAt(y)' = KeyAt(y)
  BY DEF KeyAt
<1>2. PICK c \in Seq(Cells) : LinkedAs(c) /\ Kept
  BY InvChain
<1>3. Live' = Live /\ Live \subseteq Cells
  BY <1>2, LiveCells DEF Live, Kept
<1>4. Kept' /\ LinkedAs(c)'
  <2>1. LinkedAs(c)'
    BY <1>2, <1>3 DEF LinkedAs
  <2>2. TypeOK'
    BY <1>2, <1>3 DEF Kept, TypeOK
  <2> QED BY <1>2, <1>3, <2>1, <2>2 DEF Kept, CursorLive, OneKeyEach, OneValueEach
<1>5. StandsFor(c) /\ StandsFor(c)'
  BY <1>2, <1>4, ChainKeys, ChainKeysNext
<1>6. KeysInOrder' = KeysInOrder
  BY <1>1, <1>5, SameSeq DEF StandsFor
<1>7. ValueOfKey' = ValueOfKey
  BY DEF ValueOfKey
<1> QED BY <1>1, <1>5, <1>6, <1>7 DEF StandsFor

LEMMA BeginStep ==
  ASSUME ListMapInv, Begin
  PROVE  ListMapInv' /\ Abstract!Begin
<1>1. PICK c \in Seq(Cells) : LinkedAs(c) /\ Kept
  BY InvChain
<1>2. StandsFor(c)
  BY <1>1, ChainKeys
<1>3. /\ Len(c) \in Nat /\ Size = Len(c) /\ head = (IF Len(c) = 0 THEN NULL ELSE c[1])
      /\ \A i \in 1 .. Len(c) : c[i] \in Live /\ c[i] # NULL
  BY <1>1, ChainCells
<1>4. Len(c) # 0 /\ 1 \in 1 .. Len(c)
  BY <1>3 DEF Begin
<1>5. cursor' = c[1] /\ cursor = NULL /\ c[1] \in Live /\ c[1] # NULL
  BY <1>3, <1>4 DEF Begin
<1>6. ListMapInv' /\ UNCHANGED <<KeysInOrder, ValueOfKey>> /\ KeyAt(c[1])' = KeyAt(c[1])
  BY <1>5, CursorMoves DEF Begin
<1>7. KeysInOrder # <<>> /\ Head(KeysInOrder) = KeyAt(c[1])
  BY <1>2, <1>4 DEF StandsFor
<1>8. KeyReached = NoKey /\ KeyReached' = KeyAt(c[1])
  BY <1>5, <1>6 DEF KeyReached
<1> QED BY <1>6, <1>7, <1>8 DEF Abstract!Begin

LEMMA AdvanceStep ==
  ASSUME ListMapInv, Advance
  PROVE  ListMapInv' /\ Abstract!Advance
<1>1. PICK c \in Seq(Cells) : LinkedAs(c) /\ Kept
  BY InvChain
<1>2. /\ KeyReached # NoKey
      /\ quad[cursor].next \in Live \cup {NULL}
      /\ Abstract!After(KeyReached)
           = IF quad[cursor].next = NULL THEN NoKey ELSE KeyAt(quad[cursor].next)
  BY <1>1, CursorAt DEF Advance
<1>3. /\ ListMapInv' /\ UNCHANGED <<KeysInOrder, ValueOfKey>>
      /\ \A y : KeyAt(y)' = KeyAt(y)
  BY <1>2, CursorMoves DEF Advance
<1>4. KeyReached' = Abstract!After(KeyReached)
  BY <1>2, <1>3 DEF KeyReached, Advance
<1> QED BY <1>2, <1>3, <1>4 DEF Abstract!Advance

LEMMA StopStep ==
  ASSUME ListMapInv, Stop
  PROVE  ListMapInv' /\ Abstract!Stop
<1>1. PICK c \in Seq(Cells) : LinkedAs(c) /\ Kept
  BY InvChain
<1>2. KeyReached # NoKey
  BY <1>1, CursorAt DEF Stop
<1>3. ListMapInv' /\ UNCHANGED <<KeysInOrder, ValueOfKey>> /\ KeyReached' = NoKey
  BY CursorMoves DEF Stop, KeyReached
<1> QED BY <1>2, <1>3 DEF Abstract!Stop

LEMMA EraseAndAdvanceStep ==
  ASSUME ListMapInv, EraseAndAdvance
  PROVE  ListMapInv' /\ Abstract!EraseAndAdvance
<1>1. PICK c \in Seq(Cells) : LinkedAs(c) /\ Kept
  BY InvChain
<1>2. PICK j \in 1 .. Len(c) :
            /\ cursor = c[j] /\ c[j] \in Live /\ KeyReached = KeyAt(c[j])
            /\ KeyReached # NoKey
            /\ quad[cursor].next \in (Live \ {c[j]}) \cup {NULL}
            /\ Abstract!After(KeyReached)
                 = IF quad[cursor].next = NULL THEN NoKey ELSE KeyAt(quad[cursor].next)
  BY <1>1, CursorAt DEF EraseAndAdvance
<1>3. EraseAt(c[j]) /\ cursor' = quad[cursor].next
  BY <1>2 DEF EraseAndAdvance
<1>4. /\ ListMapInv'
      /\ KeysInOrder' = Abstract!Without(KeyReached)
      /\ ValueOfKey' = Abstract!ValuesWithout(KeyReached)
      /\ \A y \in Live \ {c[j]} : KeyAt(y)' = KeyAt(y)
  BY <1>1, <1>2, <1>3, EraseTakesOut
<1>5. KeyReached' = Abstract!After(KeyReached)
  BY <1>2, <1>3, <1>4 DEF KeyReached
<1> QED BY <1>2, <1>4, <1>5 DEF Abstract!EraseAndAdvance

LEMMA InitStep == ASSUME Init PROVE ListMapInv /\ Abstract!Init
<1>1. Live = {} /\ Mapped = {} /\ cursor = NULL
  BY DEF Init, Live, Mapped
<1>2. Kept
  <2>1. TypeOK
    BY DEF Init, TypeOK
  <2>2. OneKeyEach
    BY DEF Init, OneKeyEach
  <2> QED BY <1>1, <2>1, <2>2 DEF Kept, CursorLive, OneValueEach
<1>3. LinkedAs(<<>>) /\ <<>> \in Seq(Cells)
  BY <1>1 DEF LinkedAs, Init
<1>4. StandsFor(<<>>)
  BY <1>2, <1>3, ChainKeys
<1>5. KeysInOrder = <<>>
  BY <1>4 DEF StandsFor
<1>6. ValueOfKey = <<>>
  <2>1. ValueOfKey = [o \in {} |-> quad[map[o]].data]
    BY <1>1, <1>4 DEF StandsFor
  <2> QED BY <2>1
<1>7. KeyReached = NoKey
  BY <1>1 DEF KeyReached
<1> QED BY <1>4, <1>5, <1>6, <1>7 DEF StandsFor, Abstract!Init

LEMMA NextStep == ASSUME ListMapInv, [Next]_vars PROVE ListMapInv' /\ [Abstract!Next]_(Abstract!ovars)
<1>1. CASE UNCHANGED vars
  <2>1. cursor \in Live \cup {NULL}
    BY DEF ListMapInv, CursorLive
  <2>2. /\ ListMapInv' /\ UNCHANGED <<KeysInOrder, ValueOfKey>>
        /\ \A y : KeyAt(y)' = KeyAt(y)
    BY <1>1, <2>1, CursorMoves DEF vars
  <2>3. KeyReached' = KeyReached
    BY <1>1, <2>2 DEF KeyReached, vars
  <2> QED BY <2>2, <2>3 DEF Abstract!ovars
<1>2. ASSUME NEW k \in Keys, NEW v \in Values, Put(k, v)
      PROVE  ListMapInv' /\ Abstract!Next
  BY <1>2, PutStep DEF Abstract!Next
<1>3. ASSUME NEW k \in Keys, Erase(k)
      PROVE  ListMapInv' /\ Abstract!Next
  BY <1>3, EraseStep DEF Abstract!Next
<1>4. CASE Clear
  BY <1>4, ClearStep DEF Abstract!Next
<1>5. CASE Begin
  BY <1>5, BeginStep DEF Abstract!Next
<1>6. CASE Advance
  BY <1>6, AdvanceStep DEF Abstract!Next
<1>7. CASE Stop
  BY <1>7, StopStep DEF Abstract!Next
<1>8. CASE EraseAndAdvance
  BY <1>8, EraseAndAdvanceStep DEF Abstract!Next
<1> QED BY <1>1, <1>2, <1>3, <1>4, <1>5, <1>6, <1>7, <1>8 DEF Next

-----------------------------------------------------------------------------
(* The inductive invariant of a listmap with an iterator in it: links, map *)
(* and values belong together, and the iterator is on an element.          *)
THEOREM ListMapSafety == Spec => []ListMapInv
<1>1. Init => ListMapInv
  BY InitStep
<1>2. ListMapInv /\ [Next]_vars => ListMapInv'
  BY NextStep
<1> QED BY <1>1, <1>2, PTL DEF Spec

(* The links of the list and the hash map agree, whatever is inserted,     *)
(* erased and reused (listmap.h).                                          *)
THEOREM StaysLinked == Spec => []Linked
<1>1. ListMapInv => Linked
  BY InvChain, ChainLinked DEF Kept
<1> QED BY <1>1, ListMapSafety, PTL

(* The loop of the postoffice never stands on an element that was erased   *)
(* (postoffice.cpp, send_packets_to_wire).                                 *)
THEOREM CursorStaysLive == Spec => []CursorLive
<1>1. ListMapInv => CursorLive
  BY DEF ListMapInv
<1> QED BY <1>1, ListMapSafety, PTL

(* A listmap is a map in order of insertion: each of its operations is one *)
(* of OrderedMap on the keys in the order in which they are linked.        *)
THEOREM ListMapRefines == Spec => ImplementsOrderedMap
<1>1. Init => Abstract!Init
  BY InitStep
<1>2. ListMapInv /\ [Next]_vars => [Abstract!Next]_(Abstract!ovars)
  BY NextStep
<1> QED BY <1>1, <1>2, ListMapSafety, PTL DEF Spec, ImplementsOrderedMap, Abstract!Spec
=============================================================================
