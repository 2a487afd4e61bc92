-------------------------- MODULE TestSuite_proof --------------------------
(***************************************************************************)
(* Proofs about TestSuite, for any number of strands, any reports, any     *)
(* length of the queues and any number of reloads: what becomes of the     *)
(* reports, and that traffic which split_traffic accepts is whole.         *)
(***************************************************************************)
EXTENDS TestSuite, Basics

-----------------------------------------------------------------------------
(* split_traffic.                                                          *)

LEMMA PacketParts ==
  ASSUME NEW t \in Seq(Packets), NEW i \in 1 .. Len(t)
  PROVE  /\ DOMAIN t = 1 .. Len(t) /\ Len(t) \in Nat
         /\ t[i] \in Packets /\ t[i].from \in Sides /\ t[i].syn \in BOOLEAN
         /\ t[i].seq \in Nat /\ t[i].len \in Nat /\ NextExpected(t[i]) \in Nat
<1>1. t[i] \in Packets /\ DOMAIN t = 1 .. Len(t) /\ Len(t) \in Nat
  OBVIOUS
<1>2. /\ t[i].from \in Sides /\ t[i].syn \in BOOLEAN
      /\ t[i].seq \in Nat /\ t[i].len \in Nat
  BY <1>1 DEF Packets
<1> QED BY <1>1, <1>2 DEF NextExpected

(* Every packet with data starts where the last one before it that carries *)
(* anything ends: of the server's the code compares just these, of the     *)
(* client's an empty one may stand between, which History speaks of.       *)
LEMMA DataFollows ==
  ASSUME NEW t \in Seq(Packets), History(t), SplitTraffic(t),
         NEW k \in 1 .. Len(t), t[k].syn,
         NEW i \in 1 .. Len(t), t[i].len > 0, t[i].from = t[k].from
  PROVE  /\ k < i
         /\ \A j \in 1 .. Len(t) : Follows(t, j, i) => t[i].seq = NextExpected(t[j])
<1>1. DOMAIN t = 1 .. Len(t) /\ Len(t) \in Nat /\ t[i].from \in {"server", "client"}
  BY PacketParts DEF Sides
<1>2. Carries(t[i]) /\ Carries(t[k])
  BY DEF Carries
<1>3. k <= i /\ t[k].len = 0
  BY <1>1, <1>2 DEF History
<1>4. k < i
  BY <1>3
<1>5. ~t[i].syn
  BY <1>1, <1>2, <1>4 DEF History
<1>6. Continues(t, i)
  BY <1>1, <1>5 DEF SplitTraffic
<1>7. PICK l \in 1 .. (i - 1) :
        /\ t[l].from = t[i].from /\ SetsExpected(t[l])
        /\ \A m \in (l + 1) .. (i - 1) : ~(t[m].from = t[i].from /\ SetsExpected(t[m]))
        /\ NextExpected(t[l]) = t[i].seq
  BY <1>6 DEF Continues
<1>8. ASSUME NEW j \in 1 .. Len(t), Follows(t, j, i)
      PROVE  t[i].seq = NextExpected(t[j])
  <2>1. /\ j \in 1 .. (i - 1) /\ t[j].from = t[i].from /\ Carries(t[j])
        /\ \A m \in (j + 1) .. (i - 1) : t[m].from = t[j].from => ~Carries(t[m])
    BY <1>8 DEF Follows
  <2>2. ~(l < j)
    <3> SUFFICES ASSUME l < j PROVE FALSE
      OBVIOUS
    <3>1. j \in (l + 1) .. (i - 1)
      BY <2>1
    <3> QED BY <1>7, <2>1, <3>1 DEF SetsExpected
  <2>3. CASE l = j
    BY <1>7, <2>3
  <2>4. CASE j < l
    <3>1. l \in (j + 1) .. (i - 1)
      BY <2>1, <2>4
    <3>2. t[l].from = "client"
      BY <1>7, <2>1, <3>1 DEF SetsExpected
    <3>3. t[j].from = "client"
      BY <1>7, <2>1, <3>2
    <3>4. \E m \in (j + 1) .. (i - 1) : t[m].from = "client"
      BY <3>1, <3>2
    <3> QED BY <1>1, <1>8, <3>3, <3>4 DEF History
  <2>5. l \in Int /\ j \in Int
    OBVIOUS
  <2> QED BY <2>2, <2>3, <2>4, <2>5
<1> QED BY <1>4, <1>8

(* The packets of a side up to place n, from its SYN at k on, have the     *)
(* bytes from the one behind the SYN to the one before e, each once, if    *)
(* the last that carries anything ends at e.                               *)
DataTo(t, side, n) == {m \in 1 .. n : t[m].from = side /\ t[m].len > 0}
BytesTo(t, side, n) == UNION {Bytes(t[m]) : m \in DataTo(t, side, n)}
WholeTo(t, k, n) ==
  /\ \E m \in k .. n :
        /\ t[m].from = t[k].from /\ Carries(t[m])
        /\ \A l \in (m + 1) .. n : t[l].from = t[k].from => ~Carries(t[l])
        /\ NextExpected(t[m]) > t[k].seq
        /\ BytesTo(t, t[k].from, n) = (t[k].seq + 1) .. (NextExpected(t[m]) - 1)
  /\ \A l, m \in DataTo(t, t[k].from, n) : l # m => Bytes(t[l]) \cap Bytes(t[m]) = {}

LEMMA WholeAtSyn ==
  ASSUME NEW t \in Seq(Packets), History(t), SplitTraffic(t),
         NEW k \in 1 .. Len(t), t[k].syn
  PROVE  WholeTo(t, k, k)
<1>1. /\ \A m \in 1 .. k : m \in 1 .. Len(t)
      /\ \A m \in 1 .. k : ~(k < m)
  OBVIOUS
<1>2. DataTo(t, t[k].from, k) = {}
  BY <1>1, DataFollows DEF DataTo
<1>3. BytesTo(t, t[k].from, k) = {}
  BY <1>2 DEF BytesTo
<1>4. t[k].seq \in Nat /\ NextExpected(t[k]) = t[k].seq + 1
  BY PacketParts DEF NextExpected
<1>5. (t[k].seq + 1) .. (NextExpected(t[k]) - 1) = {}
  BY <1>4
<1>6. k \in k .. k /\ (k + 1) .. k = {} /\ Carries(t[k])
  BY DEF Carries
<1> QED BY <1>2, <1>3, <1>4, <1>5, <1>6 DEF WholeTo

(* The next packet adds its bytes behind those there are, or none.         *)
LEMMA WholeGrows ==
  ASSUME NEW t \in Seq(Packets), History(t), SplitTraffic(t),
         NEW k \in 1 .. Len(t), t[k].syn,
         NEW n \in k .. (Len(t) - 1), WholeTo(t, k, n)
  PROVE  WholeTo(t, k, n + 1)
<1> DEFINE side == t[k].from
           i == n + 1
           s == t[k].seq
<1>1. /\ i \in 1 .. Len(t) /\ 1 .. i = (1 .. n) \cup {i} /\ k <= n /\ i = n + 1
      /\ n \in 1 .. Len(t) /\ k \in Nat
  OBVIOUS
<1>2. PICK m \in k .. n :
        /\ t[m].from = side /\ Carries(t[m])
        /\ \A l \in (m + 1) .. n : t[l].from = side => ~Carries(t[l])
        /\ NextExpected(t[m]) > s
        /\ BytesTo(t, side, n) = (s + 1) .. (NextExpected(t[m]) - 1)
  BY DEF WholeTo
<1>3. \A l, j \in DataTo(t, side, n) : l # j => Bytes(t[l]) \cap Bytes(t[j]) = {}
  BY DEF WholeTo
<1>4. /\ m \in 1 .. Len(t) /\ m <= n /\ m < i /\ m \in k .. i
      /\ \A l \in (m + 1) .. (i - 1) : l \in (m + 1) .. n
  OBVIOUS
<1>5. /\ s \in Nat /\ NextExpected(t[m]) \in Nat /\ t[i].seq \in Nat /\ t[i].len \in Nat
      /\ t[i].syn \in BOOLEAN
  BY <1>1, <1>4, PacketParts
<1> HIDE DEF i, s, side
<1>6. CASE t[i].from = side /\ t[i].len > 0
  <2>1. Carries(t[i])
    BY <1>6 DEF Carries
  <2>2. Follows(t, m, i)
    BY <1>2, <1>4, <1>6, <2>1 DEF Follows
  <2>3. t[i].seq = NextExpected(t[m])
    BY <1>1, <1>4, <1>6, <2>2, DataFollows DEF side
  <2>4. ~t[i].syn
    <3>1. t[i].syn => i <= k
      BY <1>1, <1>6, PacketParts DEF History, Carries, side
    <3> QED BY <1>1, <3>1
  <2>5. NextExpected(t[i]) = NextExpected(t[m]) + t[i].len
    BY <2>3, <2>4 DEF NextExpected
  <2>6. DataTo(t, side, i) = DataTo(t, side, n) \cup {i}
    BY <1>1, <1>6 DEF DataTo
  <2>7. BytesTo(t, side, i) = BytesTo(t, side, n) \cup Bytes(t[i])
    BY <2>6 DEF BytesTo
  <2>8. Bytes(t[i]) = NextExpected(t[m]) .. (NextExpected(t[i]) - 1)
    BY <1>5, <2>3, <2>5 DEF Bytes
  <2>9. BytesTo(t, side, i) = (s + 1) .. (NextExpected(t[i]) - 1)
    <3> DEFINE e == NextExpected(t[m])
               g == NextExpected(t[i])
    <3>1. e \in Nat /\ g \in Nat /\ s < e /\ e <= g /\ s \in Nat
      BY <1>2, <1>5, <2>5
    <3> HIDE DEF e, g
    <3>2. (s + 1) .. (g - 1) = ((s + 1) .. (e - 1)) \cup (e .. (g - 1))
      BY <3>1
    <3> QED BY <1>2, <2>7, <2>8, <3>2 DEF e, g
  <2>10. \A l \in DataTo(t, side, n) : Bytes(t[l]) \cap Bytes(t[i]) = {}
    <3>1. \A l \in DataTo(t, side, n) : Bytes(t[l]) \subseteq BytesTo(t, side, n)
      BY DEF BytesTo
    <3>2. BytesTo(t, side, n) \cap Bytes(t[i]) = {}
      BY <1>2, <1>5, <2>8, <2>5
    <3> QED BY <3>1, <3>2
  <2>11. \A l, j \in DataTo(t, side, i) : l # j => Bytes(t[l]) \cap Bytes(t[j]) = {}
    BY <1>3, <2>6, <2>10
  <2>12. /\ i \in k .. i /\ (i + 1) .. i = {}
         /\ NextExpected(t[i]) > s
    BY <1>1, <1>2, <1>5, <2>5
  <2>13. WholeTo(t, k, i)
    BY <1>6, <2>1, <2>9, <2>11, <2>12 DEF WholeTo, side, s
  <2> QED BY <2>13 DEF i
<1>7. CASE ~(t[i].from = side /\ t[i].len > 0)
  <2>1. t[i].from = side => ~Carries(t[i])
    <3> SUFFICES ASSUME t[i].from = side, t[i].syn PROVE FALSE
      BY <1>5, <1>7 DEF Carries
    <3>1. i <= k
      BY <1>1, PacketParts DEF History, Carries, side
    <3> QED BY <1>1, <3>1
  <2>2. DataTo(t, side, i) = DataTo(t, side, n)
    BY <1>1, <1>7 DEF DataTo
  <2>3. BytesTo(t, side, i) = BytesTo(t, side, n)
    BY <2>2 DEF BytesTo
  <2>4. \A l \in (m + 1) .. i : t[l].from = side => ~Carries(t[l])
    <3>1. \A l \in (m + 1) .. i : l \in (m + 1) .. n \/ l = i
      BY <1>1
    <3> QED BY <1>2, <2>1, <3>1
  <2>5. WholeTo(t, k, i)
    BY <1>2, <1>3, <1>4, <2>2, <2>3, <2>4 DEF WholeTo, side, s
  <2> QED BY <2>5 DEF i
<1> QED BY <1>6, <1>7

LEMMA SplitIsWhole ==
  ASSUME NEW t \in Seq(Packets), History(t), SplitTraffic(t)
  PROVE  Whole(t)
<1>1. ASSUME NEW side \in Sides, NEW k \in 1 .. Len(t), t[k].from = side, t[k].syn
      PROVE  /\ AllBytes(t, side) =
                   (t[k].seq + 1) .. (t[k].seq + Cardinality(AllBytes(t, side)))
             /\ \A m, n \in Data(t, side) : m # n => Bytes(t[m]) \cap Bytes(t[n]) = {}
  <2> DEFINE N == {n \in Nat : k + n <= Len(t) => WholeTo(t, k, k + n)}
  <2>1. 0 \in N
    <3>1. WholeTo(t, k, k)
      BY <1>1, WholeAtSyn
    <3>2. k + 0 = k
      OBVIOUS
    <3> QED BY <3>1, <3>2
  <2>2. ASSUME NEW n \in Nat, n \in N PROVE n + 1 \in N
    <3> SUFFICES ASSUME k + (n + 1) <= Len(t) PROVE WholeTo(t, k, k + (n + 1))
      OBVIOUS
    <3>1. k + n \in k .. (Len(t) - 1) /\ (k + n) + 1 = k + (n + 1) /\ k + n <= Len(t)
      OBVIOUS
    <3>2. WholeTo(t, k, k + n)
      BY <2>2, <3>1
    <3>3. WholeTo(t, k, (k + n) + 1)
      <4> HIDE DEF N
      <4> QED BY <1>1, <3>1, <3>2, WholeGrows
    <3> QED BY <3>1, <3>3
  <2> HIDE DEF N
  <2>3. Len(t) - k \in N
    <3>1. Len(t) - k \in Nat
      OBVIOUS
    <3> QED BY <2>1, <2>2, <3>1, Induct
  <2>4. WholeTo(t, k, Len(t))
    <3>1. k + (Len(t) - k) = Len(t) /\ k + (Len(t) - k) <= Len(t)
      OBVIOUS
    <3> QED BY <2>3, <3>1 DEF N
  <2>5. Data(t, side) = DataTo(t, side, Len(t)) /\ AllBytes(t, side) = BytesTo(t, side, Len(t))
    BY PacketParts DEF Data, DataTo, AllBytes, BytesTo
  <2>6. PICK m \in k .. Len(t) :
          /\ NextExpected(t[m]) > t[k].seq
          /\ AllBytes(t, side) = (t[k].seq + 1) .. (NextExpected(t[m]) - 1)
    BY <1>1, <2>4, <2>5 DEF WholeTo
  <2>7. t[k].seq \in Nat /\ NextExpected(t[m]) \in Nat
    <3>1. m \in 1 .. Len(t)
      OBVIOUS
    <3> QED BY <3>1, PacketParts
  <2> DEFINE a == t[k].seq
             e == NextExpected(t[m])
             all == AllBytes(t, side)
  <2>8. a \in Nat /\ e \in Nat /\ e > a /\ all = (a + 1) .. (e - 1)
    BY <2>6, <2>7
  <2> HIDE DEF a, e, all
  <2>9. Cardinality((a + 1) .. (e - 1)) = IF a + 1 > e - 1 THEN 0 ELSE (e - 1) - (a + 1) + 1
    <3>1. a + 1 \in Int /\ e - 1 \in Int
      BY <2>8
    <3> QED BY <3>1, FS_Interval
  <2>10. a + Cardinality((a + 1) .. (e - 1)) = e - 1
    BY <2>8, <2>9
  <2>11. all = (a + 1) .. (a + Cardinality(all))
    BY <2>8, <2>10
  <2>12. \A l, n \in Data(t, side) : l # n => Bytes(t[l]) \cap Bytes(t[n]) = {}
    BY <1>1, <2>4, <2>5 DEF WholeTo
  <2> QED BY <2>11, <2>12 DEF a, all
<1>2. DOMAIN t = 1 .. Len(t)
  OBVIOUS
<1> QED BY <1>1, <1>2 DEF Whole

-----------------------------------------------------------------------------
(* What has been passed of the reports of a strand.                        *)

AccountedFor(p, r, d) ==
  /\ \A i, j \in 1 .. Len(p) : i < j => p[i] < p[j]
  /\ {p[i] : i \in 1 .. Len(p)} = (1 .. r) \ d

Numbers(q) == [i \in 1 .. Len(q) |-> q[i][1]]
InHand(s) == IF turn = s THEN hand ELSE <<>>

LEMMA AccountsNext ==
  ASSUME NEW p \in Seq(Nat), NEW r \in Nat, NEW d \in SUBSET (1 .. r),
         AccountedFor(p, r, d)
  PROVE  AccountedFor(Append(p, r + 1), r + 1, d)
<1> DEFINE a == Append(p, r + 1)
<1>1. /\ Len(p) \in Nat /\ Len(a) = Len(p) + 1 /\ a[Len(p) + 1] = r + 1
      /\ \A i \in 1 .. Len(p) : a[i] = p[i]
  OBVIOUS
<1> HIDE DEF a
<1>2. \A i \in 1 .. Len(p) : p[i] \in 1 .. r
  BY DEF AccountedFor
<1>3. \A i \in 1 .. Len(a) : i \in 1 .. Len(p) \/ i = Len(p) + 1
  BY <1>1
<1>4. ASSUME NEW i \in 1 .. Len(a), NEW j \in 1 .. Len(a), i < j PROVE a[i] < a[j]
  <2>1. i \in 1 .. Len(p)
    BY <1>1, <1>4
  <2>2. CASE j \in 1 .. Len(p)
    BY <1>1, <1>4, <2>1, <2>2 DEF AccountedFor
  <2>3. CASE j = Len(p) + 1
    BY <1>1, <1>2, <2>1, <2>3
  <2> QED BY <1>3, <2>2, <2>3
<1>5. {a[i] : i \in 1 .. Len(a)} = {p[i] : i \in 1 .. Len(p)} \cup {r + 1}
  <2>1. \A i \in 1 .. Len(p) : i \in 1 .. Len(a)
    BY <1>1
  <2>2. Len(p) + 1 \in 1 .. Len(a)
    BY <1>1
  <2> QED BY <1>1, <1>3, <2>1, <2>2
<1>6. (1 .. r + 1) \ d = ((1 .. r) \ d) \cup {r + 1}
  <2>1. r + 1 \notin d /\ 1 .. r + 1 = (1 .. r) \cup {r + 1}
    OBVIOUS
  <2> QED BY <2>1
<1> QED BY <1>4, <1>5, <1>6 DEF AccountedFor, a

LEMMA AccountsLoss ==
  ASSUME NEW p \in Seq(Nat), NEW r \in Nat, NEW d \in SUBSET (1 .. r),
         AccountedFor(p, r, d)
  PROVE  AccountedFor(p, r + 1, d \cup {r + 1})
<1>1. (1 .. r + 1) \ (d \cup {r + 1}) = (1 .. r) \ d
  OBVIOUS
<1> QED BY <1>1 DEF AccountedFor

(* Throwing away the end q of what was passed.                             *)
LEMMA AccountsCut ==
  ASSUME NEW p \in Seq(Nat), NEW q \in Seq(Nat), NEW r \in Nat, NEW d,
         AccountedFor(p \o q, r, d)
  PROVE  AccountedFor(p, r, d \cup {q[i] : i \in 1 .. Len(q)})
<1> DEFINE c == p \o q
<1>1. /\ Len(p) \in Nat /\ Len(q) \in Nat /\ Len(c) = Len(p) + Len(q)
      /\ \A i \in 1 .. Len(p) : i \in 1 .. Len(c) /\ c[i] = p[i] /\ p[i] \in Nat
      /\ \A i \in 1 .. Len(q) : /\ Len(p) + i \in 1 .. Len(c)
                                /\ c[Len(p) + i] = q[i] /\ q[i] \in Nat
  <2>1. /\ Len(p) \in Nat /\ Len(q) \in Nat /\ Len(c) = Len(p) + Len(q)
        /\ \A i \in 1 .. Len(p) + Len(q) : c[i] = IF i <= Len(p) THEN p[i] ELSE q[i - Len(p)]
    BY ConcatProperties
  <2> HIDE DEF c
  <2>2. ASSUME NEW i \in 1 .. Len(q) PROVE c[Len(p) + i] = q[i]
    <3>1. /\ Len(p) + i \in 1 .. Len(p) + Len(q) /\ ~(Len(p) + i <= Len(p))
          /\ (Len(p) + i) - Len(p) = i
      BY <2>1
    <3> QED BY <2>1, <3>1
  <2> QED BY <2>1, <2>2
<1>2. /\ \A i, j \in 1 .. Len(c) : i < j => c[i] < c[j]
      /\ {c[i] : i \in 1 .. Len(c)} = (1 .. r) \ d
  BY DEF AccountedFor
<1> HIDE DEF c
<1>3. \A i \in 1 .. Len(p), j \in 1 .. Len(q) : p[i] < q[j]
  <2> TAKE i \in 1 .. Len(p), j \in 1 .. Len(q)
  <2>1. i < Len(p) + j
    BY <1>1
  <2> QED BY <1>1, <1>2, <2>1
<1>4. \A i \in 1 .. Len(c) : \/ i \in 1 .. Len(p)
                            \/ \E j \in 1 .. Len(q) : i = Len(p) + j
  <2> SUFFICES ASSUME NEW i \in 1 .. Len(c), i \notin 1 .. Len(p)
               PROVE  \E j \in 1 .. Len(q) : i = Len(p) + j
    OBVIOUS
  <2>1. i - Len(p) \in 1 .. Len(q) /\ i = Len(p) + (i - Len(p))
    BY <1>1
  <2> QED BY <2>1
<1> DEFINE P == {p[i] : i \in 1 .. Len(p)}
           Q == {q[i] : i \in 1 .. Len(q)}
<1>5. {c[i] : i \in 1 .. Len(c)} = P \cup Q
  <2>1. /\ \A i \in 1 .. Len(p) : p[i] \in {c[l] : l \in 1 .. Len(c)}
        /\ \A i \in 1 .. Len(q) : q[i] \in {c[l] : l \in 1 .. Len(c)}
    BY <1>1
  <2>2. ASSUME NEW i \in 1 .. Len(c) PROVE c[i] \in P \cup Q
    <3>1. CASE i \in 1 .. Len(p)
      BY <1>1, <3>1
    <3>2. ASSUME NEW j \in 1 .. Len(q), i = Len(p) + j PROVE c[i] \in Q
      BY <1>1, <3>2
    <3> QED BY <1>4, <3>1, <3>2
  <2> QED BY <2>1, <2>2
<1>6. P \cap Q = {}
  BY <1>1, <1>3
<1>7. P = (1 .. r) \ (d \cup Q)
  <2> HIDE DEF P, Q
  <2> QED BY <1>2, <1>5, <1>6
<1>8. \A i, j \in 1 .. Len(p) : i < j => p[i] < p[j]
  BY <1>1, <1>2
<1> QED BY <1>7, <1>8 DEF AccountedFor

LEMMA NumbersOf ==
  ASSUME NEW q \in Seq(Nat \X Verdicts)
  PROVE  /\ Numbers(q) \in Seq(Nat) /\ Len(Numbers(q)) = Len(q)
         /\ \A i \in 1 .. Len(q) : Numbers(q)[i] = q[i][1]
<1>1. Len(q) \in Nat /\ \A i \in 1 .. Len(q) : q[i][1] \in Nat
  OBVIOUS
<1> QED BY <1>1 DEF Numbers

LEMMA NumbersAppend ==
  ASSUME NEW q \in Seq(Nat \X Verdicts), NEW n \in Nat, NEW v \in Verdicts
  PROVE  Numbers(Append(q, <<n, v>>)) = Append(Numbers(q), n)
<1> DEFINE a == Append(q, <<n, v>>)
           b == Append(Numbers(q), n)
<1>1. /\ a \in Seq(Nat \X Verdicts) /\ Len(a) = Len(q) + 1 /\ a[Len(q) + 1] = <<n, v>>
      /\ \A i \in 1 .. Len(q) : a[i] = q[i]
  <2>1. <<n, v>> \in Nat \X Verdicts
    OBVIOUS
  <2> QED BY <2>1, AppendProperties
<1>2. /\ b \in Seq(Nat) /\ Len(b) = Len(q) + 1 /\ b[Len(q) + 1] = n
      /\ \A i \in 1 .. Len(q) : b[i] = q[i][1]
  BY NumbersOf, AppendProperties
<1> HIDE DEF a, b
<1>3. /\ Numbers(a) \in Seq(Nat) /\ Len(Numbers(a)) = Len(a)
      /\ \A i \in 1 .. Len(a) : Numbers(a)[i] = a[i][1]
  BY <1>1, NumbersOf
<1>4. ASSUME NEW i \in 1 .. Len(a) PROVE Numbers(a)[i] = b[i]
  <2>1. i \in 1 .. Len(q) \/ i = Len(q) + 1
    BY <1>1
  <2>2. i = Len(q) + 1 => a[i][1] = n
    BY <1>1
  <2> QED BY <1>1, <1>2, <1>3, <2>1, <2>2
<1>5. Numbers(a) = b
  BY <1>1, <1>2, <1>3, <1>4, SeqEqual
<1> QED BY <1>5 DEF a, b

LEMMA SingleIs ==
  ASSUME NEW S, NEW q \in Seq(S), Len(q) = 1
  PROVE  q[1] \in S /\ q = <<q[1]>>
<1>1. q[1] \in S
  OBVIOUS
<1>2. /\ <<q[1]>> \in Seq(S) /\ Len(<<q[1]>>) = 1
      /\ \A i \in 1 .. Len(q) : q[i] = <<q[1]>>[i]
  BY <1>1
<1>3. q = <<q[1]>>
  BY <1>2, SeqEqual
<1> QED BY <1>1, <1>3

LEMMA Limits ==
  /\ \A s \in Strands : Reports[s] \in Seq(Jobs) /\ Len(Reports[s]) \in Nat
  /\ QueueLen \in Nat /\ QueueLen > 0 /\ Garbage \subseteq Int
  /\ FileLimit \in Nat /\ MaxReloads \in Nat
BY TestSuiteAssumption

LEMMA StrandNumbers ==
  /\ Cardinality(Strands) \in Nat /\ Strands = 0 .. (Cardinality(Strands) - 1)
  /\ 0 \in Strands
BY TestSuiteAssumption, FS_CardinalityType

(* Passed, by its parts, and what each report in it is.                    *)
LEMMA PassedParts ==
  ASSUME TypeOK, NEW s \in Strands
  PROVE  /\ Numbers(judged[s]) \in Seq(Nat) /\ InHand(s) \in Seq(Nat)
         /\ queues[s] \in Seq(Nat) /\ Numbers(judged[s]) \o InHand(s) \in Seq(Nat)
         /\ Passed(s) = (Numbers(judged[s]) \o InHand(s)) \o queues[s]
         /\ Passed(s) \in Seq(Nat)
<1>1. /\ judged[s] \in Seq(Nat \X Verdicts) /\ queues[s] \in Seq(Nat)
      /\ hand \in Seq(Nat)
  BY DEF TypeOK, StrandsTyped, WorkerTyped
<1>2. Numbers(judged[s]) \in Seq(Nat) /\ InHand(s) \in Seq(Nat)
  BY <1>1, NumbersOf DEF InHand
<1>3. Passed(s) = (Numbers(judged[s]) \o InHand(s)) \o queues[s]
  BY DEF Passed, Numbers, InHand
<1>4. Numbers(judged[s]) \o InHand(s) \in Seq(Nat)
  BY <1>2, ConcatProperties
<1>5. Passed(s) \in Seq(Nat)
  BY <1>1, <1>3, <1>4, ConcatProperties
<1> QED BY <1>1, <1>2, <1>3, <1>4, <1>5

LEMMA AccountedForEach ==
  Accounted <=> \A s \in Strands : AccountedFor(Passed(s), reported[s], dropped[s])
BY DEF Accounted, AccountedFor

(* Whatever is judged, held or queued is the number of a report.           *)
LEMMA PassedAreReports ==
  ASSUME TypeOK, Accounted, NEW s \in Strands
  PROVE  /\ \A i \in 1 .. Len(judged[s]) : judged[s][i][1] \in 1 .. reported[s]
         /\ hand # <<>> /\ turn = s => hand[1] \in 1 .. reported[s]
         /\ \A i \in 1 .. Len(queues[s]) : queues[s][i] \in 1 .. reported[s]
<1> DEFINE a == Numbers(judged[s])
           b == InHand(s)
           q == queues[s]
<1>1. /\ a \in Seq(Nat) /\ b \in Seq(Nat) /\ q \in Seq(Nat) /\ a \o b \in Seq(Nat)
      /\ Passed(s) = (a \o b) \o q
  BY PassedParts
<1>2. Len(a) = Len(judged[s]) /\ \A i \in 1 .. Len(judged[s]) : a[i] = judged[s][i][1]
  BY NumbersOf DEF TypeOK, StrandsTyped, WorkerTyped
<1>3. hand # <<>> /\ turn = s => 1 \in 1 .. Len(b) /\ b[1] = hand[1]
  <2>1. hand # <<>> => Len(hand) = 1
    BY Short DEF TypeOK, StrandsTyped, WorkerTyped
  <2> QED BY <2>1 DEF InHand
<1>4. Range(Passed(s)) \subseteq 1 .. reported[s]
  <2>1. Range(Passed(s)) = {Passed(s)[i] : i \in 1 .. Len(Passed(s))}
    BY PassedParts, RangeOf
  <2>2. Range(Passed(s)) = (1 .. reported[s]) \ dropped[s]
    BY <2>1, AccountedForEach DEF AccountedFor
  <2> QED BY <2>2
<1> HIDE DEF a, b, q
<1>5. Range(Passed(s)) = (Range(a) \cup Range(b)) \cup Range(q)
  <2>1. Range((a \o b) \o q) = Range(a \o b) \cup Range(q)
    <3> DEFINE c == a \o b
    <3>1. c \in Seq(Nat)
      BY <1>1
    <3> HIDE DEF c
    <3>2. Range(c \o q) = Range(c) \cup Range(q)
      BY <1>1, <3>1, RangeConcat
    <3> QED BY <3>2 DEF c
  <2>2. Range(a \o b) = Range(a) \cup Range(b)
    BY <1>1, RangeConcat
  <2> QED BY <1>1, <2>1, <2>2
<1>6. /\ \A i \in 1 .. Len(a) : a[i] \in Range(a)
      /\ \A i \in 1 .. Len(b) : b[i] \in Range(b)
      /\ \A i \in 1 .. Len(q) : q[i] \in Range(q)
  BY <1>1, RangeOf
<1>7. \A i \in 1 .. Len(judged[s]) : judged[s][i][1] \in 1 .. reported[s]
  BY <1>2, <1>4, <1>5, <1>6
<1>8. hand # <<>> /\ turn = s => hand[1] \in 1 .. reported[s]
  BY <1>3, <1>4, <1>5, <1>6
<1>9. \A i \in 1 .. Len(q) : q[i] \in 1 .. reported[s]
  BY <1>4, <1>5, <1>6
<1> QED BY <1>7, <1>8, <1>9 DEF q

-----------------------------------------------------------------------------
(* The steps.                                                              *)

(* The part of the state that a step leaves as it is.                      *)
LEMMA StrandsStay ==
  ASSUME StrandsTyped, UNCHANGED <<reported, queues, dropped>>,
         reporter' \in [Strands -> {"idle", "counting", "notifying"}], counts' \in [Strands -> Int]
  PROVE  StrandsTyped'
BY DEF StrandsTyped
LEMMA WorkerStays == ASSUME WorkerTyped, UNCHANGED work PROVE WorkerTyped'
BY DEF WorkerTyped, work
LEMMA ReloadStays == ASSUME ReloadTyped, UNCHANGED <<done, reload>> PROVE ReloadTyped'
BY DEF ReloadTyped, reload

LEMMA InitTyped == Init => TypeOK
<1> SUFFICES ASSUME Init PROVE TypeOK
  OBVIOUS
<1>1. StrandsTyped
  <2>1. /\ reported \in [Strands -> Nat]
        /\ reporter \in [Strands -> {"idle", "counting", "notifying"}]
        /\ queues \in [Strands -> Seq(Nat)]
        /\ dropped \in [Strands -> SUBSET Nat]
    BY DEF Init
  <2>2. counts \in [Strands -> Int]
    BY Limits DEF Init
  <2>3. \A s \in Strands :
           /\ reported[s] <= Len(Reports[s]) /\ Len(queues[s]) <= QueueLen
           /\ dropped[s] \subseteq 1 .. reported[s]
    <3> TAKE s \in Strands
    <3>1. reported[s] = 0 /\ queues[s] = <<>> /\ dropped[s] = {} /\ Len(<<>>) = 0
      BY DEF Init
    <3> QED BY <3>1, Limits
  <2> QED BY <2>1, <2>2, <2>3 DEF StrandsTyped
<1>2. WorkerTyped
  <2>1. /\ judged \in [Strands -> Seq(Nat \X Verdicts)]
        /\ hand \in Seq(Nat) /\ Len(hand) <= 1
    BY DEF Init
  <2>2. worker = "testing" /\ hand = <<>> /\ turn = 0 /\ files = 0 /\ busy \in BOOLEAN
    BY DEF Init
  <2>3. turn \in 0 .. Cardinality(Strands) /\ files \in 0 .. FileLimit
    BY <2>2, StrandNumbers, Limits
  <2> QED BY <2>1, <2>2, <2>3 DEF WorkerTyped
<1>3. ReloadTyped
  <2>1. reloads = 0 /\ asked = 0 /\ main = Polling /\ done \in BOOLEAN
    BY DEF Init
  <2>2. reloads \in 0 .. asked /\ asked \in 0 .. MaxReloads
    BY <2>1, Limits
  <2> QED BY <2>1, <2>2 DEF ReloadTyped
<1> QED BY <1>1, <1>2, <1>3 DEF TypeOK

LEMMA ReportTyped == ASSUME StrandsTyped, NEW s \in Strands, Report(s) PROVE StrandsTyped'
<1>1. /\ reported[s] \in Nat /\ reported[s] + 1 <= Len(Reports[s])
      /\ reported' = [reported EXCEPT ![s] = reported[s] + 1]
      /\ UNCHANGED counts
      /\ reporter' = reporter \/ reporter' = [reporter EXCEPT ![s] = "counting"]
  BY DEF StrandsTyped, Report
<1>2. /\ reported' \in [Strands -> Nat]
      /\ reported'[s] = reported[s] + 1 /\ \A r \in Strands \ {s} : reported'[r] = reported[r]
  BY <1>1 DEF StrandsTyped
<1>3. reporter' \in [Strands -> {"idle", "counting", "notifying"}] /\ counts' \in [Strands -> Int]
  BY <1>1 DEF StrandsTyped
<1>4. queues' \in [Strands -> Seq(Nat)] /\ \A r \in Strands : Len(queues'[r]) <= QueueLen
  <2>1. \/ queues' = queues
        \/ /\ queues' = [queues EXCEPT ![s] = Append(queues[s], reported[s] + 1)]
           /\ Len(queues[s]) < QueueLen
    BY DEF Report
  <2>2. queues[s] \in Seq(Nat) /\ Append(queues[s], reported[s] + 1) \in Seq(Nat) 
        /\ Len(Append(queues[s], reported[s] + 1)) = Len(queues[s]) + 1 /\ Len(queues[s]) \in Nat
    BY <1>1 DEF StrandsTyped
  <2>3. queues' \in [Strands -> Seq(Nat)]
    BY <2>1, <2>2 DEF StrandsTyped
  <2>4. \A r \in Strands : Len(queues'[r]) <= QueueLen
    <3> TAKE r \in Strands
    <3>1. queues'[r] = queues[r] \/ (queues'[r] = Append(queues[s], reported[s] + 1) /\ Len(queues[s]) < QueueLen)
      BY <2>1 DEF StrandsTyped
    <3> QED BY <2>2, <3>1, Limits DEF StrandsTyped
  <2> QED BY <2>3, <2>4
<1>5. /\ dropped' \in [Strands -> SUBSET Nat]
      /\ \A r \in Strands : dropped'[r] \subseteq 1 .. reported'[r]
  <2>1. dropped' = dropped \/ dropped' = [dropped EXCEPT ![s] = dropped[s] \cup {reported[s] + 1}]
    BY DEF Report
  <2>2. dropped[s] \cup {reported[s] + 1} \subseteq 1 .. (reported[s] + 1)
    <3>1. dropped[s] \subseteq 1 .. reported[s]
      BY DEF StrandsTyped
    <3>2. 1 .. reported[s] \subseteq 1 .. (reported[s] + 1)
      BY <1>1
    <3>3. reported[s] + 1 \in 1 .. (reported[s] + 1)
      BY <1>1
    <3> QED BY <3>1, <3>2, <3>3
  <2>3. dropped' \in [Strands -> SUBSET Nat]
    <3>1. dropped[s] \cup {reported[s] + 1} \in SUBSET Nat
      BY <1>1 DEF StrandsTyped
    <3> QED BY <2>1, <3>1 DEF StrandsTyped
  <2>4. ASSUME NEW r \in Strands PROVE dropped'[r] \subseteq 1 .. reported'[r]
    <3>1. dropped[r] \subseteq 1 .. reported[r] /\ reported[r] \in Nat
      BY DEF StrandsTyped
    <3>2. dropped'[r] = dropped[r] \/ (r = s /\ dropped'[r] = dropped[s] \cup {reported[s] + 1})
      BY <2>1 DEF StrandsTyped
    <3> QED BY <1>1, <1>2, <2>2, <3>1, <3>2 
  <2> QED BY <2>3, <2>4
<1>6. \A r \in Strands : reported'[r] <= Len(Reports[r])
  BY <1>1, <1>2 DEF StrandsTyped
<1> QED BY <1>2, <1>3, <1>4, <1>5, <1>6 DEF StrandsTyped

LEMMA SuiteInit == Init => SuiteInv
<1> SUFFICES ASSUME Init PROVE SuiteInv
  OBVIOUS
<1>1. TypeOK
  BY InitTyped
<1>2. ASSUME NEW s \in Strands
      PROVE  AccountedFor(Passed(s), reported[s], dropped[s])
  <2>1. judged[s] = <<>> /\ queues[s] = <<>> /\ InHand(s) = <<>>
    BY DEF Init, InHand
  <2>2. Numbers(judged[s]) = <<>>
    BY <2>1 DEF Numbers
  <2>3. Passed(s) = <<>>
    <3>1. Passed(s) = (<<>> \o <<>>) \o <<>>
      BY <1>1, <2>1, <2>2, PassedParts
    <3> QED BY <3>1
  <2>4. reported[s] = 0 /\ dropped[s] = {}
    BY DEF Init
  <2> QED BY <2>3, <2>4 DEF AccountedFor
<1>3. JoinsFirst
  BY DEF JoinsFirst, Init, Polling
<1>4. TestedIsSplit
  BY DEF TestedIsSplit, Init
<1> QED BY <1>1, <1>2, <1>3, <1>4, AccountedForEach DEF SuiteInv, ReportsKept

(* Nothing is passed where queue, hand and judgements stay.                *)
LEMMA NothingPassed ==
  ASSUME NEW s \in Strands, judged'[s] = judged[s], queues'[s] = queues[s],
         InHand(s)' = InHand(s)
  PROVE  Passed(s)' = Passed(s)
BY DEF Passed, InHand

LEMMA ResetTyped ==
  ASSUME TypeOK, Accounted, NEW s \in Strands, ResetsQueue(s)
  PROVE  StrandsTyped'
<1>1. StrandsTyped
  BY DEF TypeOK
<1>2. UNCHANGED <<reported, reporter>>
  BY DEF ResetsQueue, strands
<1>3. counts' \in [Strands -> Int]
  <2>1. PICK n \in Garbage : counts' = [counts EXCEPT ![s] = n]
    BY DEF ResetsQueue
  <2>2. n \in Int
    BY Limits
  <2> QED BY <1>1, <2>1, <2>2 DEF StrandsTyped
<1>4. queues' \in [Strands -> Seq(Nat)] /\ \A r \in Strands : Len(queues'[r]) <= QueueLen
  <2>1. queues' = [queues EXCEPT ![s] = <<>>] /\ <<>> \in Seq(Nat) /\ Len(<<>>) = 0
    BY DEF ResetsQueue
  <2>2. ASSUME NEW r \in Strands PROVE Len(queues'[r]) <= QueueLen
    <3>1. queues'[r] = queues[r] \/ queues'[r] = <<>>
      BY <1>1, <2>1 DEF StrandsTyped
    <3> QED BY <1>1, <2>1, <3>1, Limits DEF StrandsTyped
  <2> QED BY <1>1, <2>1, <2>2 DEF StrandsTyped
<1>5. /\ dropped' \in [Strands -> SUBSET Nat]
      /\ \A r \in Strands : dropped'[r] \subseteq 1 .. reported[r]
  <2> DEFINE lost == {queues[s][i] : i \in DOMAIN queues[s]}
  <2>1. lost \subseteq 1 .. reported[s]
    <3>1. queues[s] \in Seq(Nat)
      BY <1>1 DEF StrandsTyped
    <3> QED BY <3>1, PassedAreReports
  <2>2. dropped' = [dropped EXCEPT ![s] = dropped[s] \cup lost]
    BY DEF ResetsQueue
  <2> HIDE DEF lost
  <2>3. /\ dropped \in [Strands -> SUBSET Nat] /\ 1 .. reported[s] \subseteq Nat
        /\ \A r \in Strands : dropped[r] \subseteq 1 .. reported[r]
    BY <1>1 DEF StrandsTyped
  <2>4. dropped[s] \cup lost \in SUBSET Nat /\ dropped[s] \cup lost \subseteq 1 .. reported[s]
    BY <2>1, <2>3
  <2>5. dropped' \in [Strands -> SUBSET Nat]
    BY <2>2, <2>3, <2>4
  <2>6. ASSUME NEW r \in Strands PROVE dropped'[r] \subseteq 1 .. reported[r]
    <3>1. \/ dropped'[r] = dropped[r]
          \/ r = s /\ dropped'[r] = dropped[s] \cup lost
      BY <2>2, <2>3
    <3> QED BY <2>3, <2>4, <3>1
  <2> QED BY <2>5, <2>6
<1> QED BY <1>1, <1>2, <1>3, <1>4, <1>5 DEF StrandsTyped

(* A verdict is one of five, and saved only below the limit of files.      *)
LEMMA VerdictKinds ==
  ASSUME TypeOK, NEW job, NEW v \in Verdict(job)
  PROVE  /\ v \in Verdicts
         /\ v \in {"saved", "unsaved"} => files < FileLimit
         /\ v = "tested" => job.closed /\ SplitTraffic(job.traffic)
BY Limits DEF TypeOK, WorkerTyped, Verdict, SaveTraffic, Verdicts

LEMMA JudgesTyped ==
  ASSUME TypeOK, Judges
  PROVE  WorkerTyped'
<1>1. WorkerTyped
  BY DEF TypeOK
<1>2. PICK v \in Verdict(Reports[turn][hand[1]]) :
        /\ judged' = [judged EXCEPT ![turn] = Append(@, <<hand[1], v>>)]
        /\ files' = IF v \in {"saved", "unsaved"} THEN files + 1 ELSE files
  BY DEF Judges
<1>3. v \in Verdicts /\ (v \in {"saved", "unsaved"} => files < FileLimit)
  BY VerdictKinds
<1>4. hand # <<>> /\ turn \in Strands /\ hand \in Seq(Nat)
  BY <1>1 DEF WorkerTyped, Judges
<1>5. hand[1] \in Nat
  BY <1>1, <1>4, Short DEF WorkerTyped
<1>6. judged' \in [Strands -> Seq(Nat \X Verdicts)]
  <2>1. <<hand[1], v>> \in Nat \X Verdicts /\ judged[turn] \in Seq(Nat \X Verdicts)
    BY <1>1, <1>3, <1>4, <1>5 DEF WorkerTyped
  <2>2. Append(judged[turn], <<hand[1], v>>) \in Seq(Nat \X Verdicts)
    BY <2>1, AppendProperties
  <2> QED BY <1>1, <1>2, <1>4, <2>2 DEF WorkerTyped
<1>7. files' \in 0 .. FileLimit
  BY <1>1, <1>2, <1>3, Limits DEF WorkerTyped
<1>8. /\ hand' = <<>> /\ worker' = "popping" /\ turn' = turn + 1 /\ busy' = busy
      /\ <<>> \in Seq(Nat) /\ Len(<<>>) = 0
  BY DEF Judges
<1>9. turn' \in 0 .. Cardinality(Strands)
  BY <1>4, <1>8, StrandNumbers
<1> QED BY <1>1, <1>6, <1>7, <1>8, <1>9 DEF WorkerTyped

(* The other steps of the worker, which judge nothing.                     *)
LEMMA WorkerStepTyped ==
  ASSUME TypeOK,
         \/ BeginsRound \/ Pops \/ PassesQueue \/ Uncounts \/ EndsRound
         \/ FallsAsleep \/ TimedOut
  PROVE  WorkerTyped'
<1>1. WorkerTyped /\ done \in BOOLEAN
  BY DEF TypeOK, ReloadTyped
<1>2. CASE BeginsRound
  <2>1. /\ worker' \in {"ended", "popping"} /\ turn' = 0 /\ busy' \in BOOLEAN
        /\ UNCHANGED <<hand, judged, files>> /\ worker = "testing"
    BY <1>2 DEF BeginsRound
  <2>2. turn' \in 0 .. Cardinality(Strands)
    BY <2>1, StrandNumbers
  <2> QED BY <1>1, <2>1, <2>2 DEF WorkerTyped
<1>3. CASE Pops
  <2>1. /\ turn \in Strands /\ hand' = <<Head(queues[turn])>> /\ worker' = "popped"
        /\ queues[turn] # <<>> /\ UNCHANGED <<turn, busy, judged, files>>
    BY <1>3 DEF Pops
  <2>2. queues[turn] \in Seq(Nat)
    BY <2>1 DEF TypeOK, StrandsTyped
  <2>3. Head(queues[turn]) \in Nat
    BY <2>1, <2>2
  <2>4. hand' \in Seq(Nat) /\ Len(hand') = 1 /\ hand' # <<>>
    BY <2>1, <2>3
  <2> QED BY <1>1, <2>1, <2>4 DEF WorkerTyped
<1>4. CASE PassesQueue
  <2>1. /\ turn \in Strands /\ worker = "popping" /\ turn' = turn + 1
        /\ UNCHANGED <<worker, busy, hand, judged, files>>
    BY <1>4 DEF PassesQueue
  <2>2. turn' \in 0 .. Cardinality(Strands)
    BY <2>1, StrandNumbers
  <2> QED BY <1>1, <2>1, <2>2 DEF WorkerTyped
<1>5. CASE Uncounts
  BY <1>1, <1>5 DEF WorkerTyped, Uncounts
<1>6. CASE EndsRound
  <2>1. /\ worker' \in {"testing", "empty"} /\ worker = "popping"
        /\ UNCHANGED <<turn, busy, hand, judged, files>>
    BY <1>6 DEF EndsRound
  <2> QED BY <1>1, <2>1 DEF WorkerTyped
<1>7. CASE FallsAsleep \/ TimedOut
  BY <1>1, <1>7 DEF WorkerTyped, FallsAsleep, TimedOut
<1> QED BY <1>2, <1>3, <1>4, <1>5, <1>6, <1>7

LEMMA TypeStep ==
  ASSUME SuiteInv, Next
  PROVE  TypeOK'
<1>1. TypeOK /\ Accounted /\ JoinsFirst /\ StrandsTyped /\ WorkerTyped /\ ReloadTyped
  BY DEF SuiteInv, ReportsKept, TypeOK
<1>2. ASSUME NEW s \in Strands, Report(s) PROVE TypeOK'
  <2>1. StrandsTyped'
    BY <1>1, <1>2, ReportTyped
  <2>2. WorkerTyped' /\ ReloadTyped'
    <3>1. UNCHANGED <<work, done, reload>>
      BY <1>2 DEF Report
    <3> QED BY <1>1, <3>1, WorkerStays, ReloadStays
  <2> QED BY <2>1, <2>2 DEF TypeOK
<1>3. ASSUME NEW s \in Strands, Count(s) PROVE TypeOK'
  <2>1. UNCHANGED <<reported, queues, dropped, work, done, reload>>
    BY <1>3 DEF Count
  <2>2. /\ reporter' \in [Strands -> {"idle", "counting", "notifying"}]
        /\ counts' \in [Strands -> Int]
    BY <1>1, <1>3 DEF Count, StrandsTyped
  <2> QED BY <1>1, <2>1, <2>2, StrandsStay, WorkerStays, ReloadStays DEF TypeOK
<1>4. ASSUME NEW s \in Strands, Notify(s) PROVE TypeOK'
  <2>1. /\ UNCHANGED <<reported, queues, counts, dropped, done, reload>>
        /\ reporter' = [reporter EXCEPT ![s] = "idle"]
    BY <1>4 DEF Notify
  <2>2. /\ reporter' \in [Strands -> {"idle", "counting", "notifying"}]
        /\ counts' \in [Strands -> Int]
    BY <1>1, <2>1 DEF StrandsTyped
  <2>3. WorkerTyped'
    <3>1. /\ UNCHANGED <<turn, busy, hand, judged, files>>
          /\ worker' = worker \/ (worker = "asleep" /\ worker' = "testing")
      BY <1>4 DEF Notify
    <3> QED BY <1>1, <3>1 DEF WorkerTyped
  <2> QED BY <1>1, <2>1, <2>2, <2>3, StrandsStay, ReloadStays DEF TypeOK
<1>5. ASSUME Worker PROVE TypeOK'
  <2>1. WorkerTyped'
    BY <1>1, <1>5, JudgesTyped, WorkerStepTyped DEF Worker
  <2>2. UNCHANGED <<strands, done, reload, dropped>>
    BY <1>5 DEF Worker, BeginsRound, Pops, PassesQueue, Uncounts, Judges, EndsRound,
       FallsAsleep, TimedOut
  <2>3. StrandsTyped'
    <3>1. CASE Pops
      <4>1. /\ turn \in Strands /\ queues[turn] # <<>> /\ counts' = counts
            /\ queues' = [queues EXCEPT ![turn] = Tail(queues[turn])]
        BY <3>1 DEF Pops
      <4>2. queues[turn] \in Seq(Nat) /\ Len(queues[turn]) <= QueueLen
        BY <1>1, <4>1 DEF StrandsTyped
      <4>3. Tail(queues[turn]) \in Seq(Nat) /\ Len(Tail(queues[turn])) <= QueueLen
        BY <4>1, <4>2, Limits
      <4>4. queues' \in [Strands -> Seq(Nat)]
        BY <1>1, <4>1, <4>3 DEF StrandsTyped
      <4>5. ASSUME NEW r \in Strands PROVE Len(queues'[r]) <= QueueLen
        <5>1. queues'[r] = queues[r] \/ queues'[r] = Tail(queues[turn])
          BY <1>1, <4>1 DEF StrandsTyped
        <5> QED BY <1>1, <4>3, <5>1 DEF StrandsTyped
      <4> QED BY <1>1, <2>2, <4>1, <4>4, <4>5 DEF StrandsTyped, strands
    <3>2. CASE Uncounts
      <4>1. queues' = queues /\ counts' = [counts EXCEPT ![turn] = counts[turn] - 1]
        BY <3>2 DEF Uncounts
      <4>2. counts' \in [Strands -> Int]
        <5>1. turn \in Strands
          BY <1>1, <3>2 DEF WorkerTyped, Uncounts
        <5> QED BY <1>1, <4>1, <5>1 DEF StrandsTyped
      <4>3. reporter' \in [Strands -> {"idle", "counting", "notifying"}]
        BY <1>1, <2>2 DEF StrandsTyped, strands
      <4> QED BY <1>1, <2>2, <4>1, <4>2, <4>3, StrandsStay DEF strands
    <3>3. ASSUME ~Pops, ~Uncounts PROVE StrandsTyped'
      <4>1. UNCHANGED <<queues, counts>>
        BY <1>5, <3>3 DEF Worker, BeginsRound, PassesQueue, Judges, EndsRound,
           FallsAsleep, TimedOut
      <4>2. /\ reporter' \in [Strands -> {"idle", "counting", "notifying"}]
            /\ counts' \in [Strands -> Int]
        BY <1>1, <2>2, <4>1 DEF StrandsTyped, strands
      <4> QED BY <1>1, <2>2, <4>1, <4>2, StrandsStay DEF strands
    <3> QED BY <3>1, <3>2, <3>3
  <2> QED BY <1>1, <2>1, <2>2, <2>3, ReloadStays DEF TypeOK
<1>6. ASSUME AsksForReload \/ Stops \/ Joins \/ StartsWorker PROVE TypeOK'
  <2>1. StrandsTyped'
    <3>1. UNCHANGED <<strands, queues, counts, dropped>>
      BY <1>6 DEF AsksForReload, Stops, Joins, StartsWorker
    <3>2. /\ reporter' \in [Strands -> {"idle", "counting", "notifying"}]
          /\ counts' \in [Strands -> Int]
      BY <1>1, <3>1 DEF StrandsTyped, strands
    <3> QED BY <1>1, <3>1, <3>2, StrandsStay DEF strands
  <2>2. WorkerTyped'
    <3>1. CASE StartsWorker
      <4>1. /\ worker' = "testing" /\ UNCHANGED <<turn, busy, hand, judged, files>>
            /\ main = Cardinality(Strands)
        BY <3>1 DEF StartsWorker
      <4>2. worker = "ended"
        BY <1>1, <4>1, StrandNumbers DEF JoinsFirst
      <4> QED BY <1>1, <4>1, <4>2 DEF WorkerTyped
    <3>2. ASSUME ~StartsWorker PROVE WorkerTyped'
      <4>1. UNCHANGED work
        BY <1>6, <3>2 DEF AsksForReload, Stops, Joins
      <4> QED BY <1>1, <4>1, WorkerStays
    <3> QED BY <3>1, <3>2
  <2>3. ReloadTyped'
    <3>1. CASE AsksForReload
      BY <1>1, <3>1, Limits DEF ReloadTyped, AsksForReload
    <3>2. CASE Stops
      BY <1>1, <3>2 DEF ReloadTyped, Stops
    <3>3. CASE Joins
      <4>1. main' = 0 /\ done' \in BOOLEAN /\ UNCHANGED <<reloads, asked>>
        BY <3>3 DEF Joins
      <4>2. main' \in 0 .. Cardinality(Strands)
        BY <4>1, StrandNumbers
      <4> QED BY <1>1, <4>1, <4>2 DEF ReloadTyped
    <3>4. CASE StartsWorker
      <4>1. /\ main' = Polling /\ reloads' = reloads - 1 /\ UNCHANGED <<done, asked>>
            /\ main = Cardinality(Strands)
        BY <3>4 DEF StartsWorker
      <4>2. reloads > 0
        BY <1>1, <4>1, StrandNumbers DEF JoinsFirst, Polling
      <4>3. reloads' \in 0 .. asked
        BY <1>1, <4>1, <4>2 DEF ReloadTyped
      <4> QED BY <1>1, <4>1, <4>3 DEF ReloadTyped
    <3> QED BY <1>6, <3>1, <3>2, <3>3, <3>4
  <2> QED BY <2>1, <2>2, <2>3 DEF TypeOK
<1>7. ASSUME NEW s \in Strands, ResetsQueue(s) PROVE TypeOK'
  <2>1. StrandsTyped' /\ WorkerTyped'
    <3>1. UNCHANGED work
      BY <1>7 DEF ResetsQueue
    <3> QED BY <1>1, <1>7, <3>1, ResetTyped, WorkerStays
  <2>2. ReloadTyped'
    <3>1. main' = s + 1 /\ UNCHANGED <<done, reloads, asked>>
      BY <1>7 DEF ResetsQueue
    <3>2. main' \in 0 .. Cardinality(Strands)
      BY <3>1, StrandNumbers
    <3> QED BY <1>1, <3>1, <3>2 DEF ReloadTyped
  <2> QED BY <2>1, <2>2 DEF TypeOK
<1> QED BY <1>2, <1>3, <1>4, <1>5, <1>6, <1>7 DEF Next, Reload

(* Who passes what: a report goes to the end or is lost, a pop and a       *)
(* judgement move one on, a reload cuts off what is queued.                *)
LEMMA AccountsStep ==
  ASSUME SuiteInv, Next, NEW s \in Strands
  PROVE  AccountedFor(Passed(s), reported[s], dropped[s])'
<1>1. TypeOK /\ Accounted /\ JoinsFirst /\ TypeOK'
  BY TypeStep DEF SuiteInv, ReportsKept
<1> DEFINE a == Numbers(judged[s])
           b == InHand(s)
           q == queues[s]
<1>2. /\ a \in Seq(Nat) /\ b \in Seq(Nat) /\ q \in Seq(Nat) /\ a \o b \in Seq(Nat)
      /\ Passed(s) = (a \o b) \o q /\ Passed(s) \in Seq(Nat)
      /\ Passed(s)' = (Numbers(judged'[s]) \o InHand(s)') \o queues'[s]
  <2>1. Passed(s)' = (Numbers(judged'[s]) \o InHand(s)') \o queues'[s]
    BY DEF Passed, Numbers, InHand
  <2> QED BY <1>1, <2>1, PassedParts
<1>3. AccountedFor(Passed(s), reported[s], dropped[s])
  BY <1>1, AccountedForEach
<1>4. reported[s] \in Nat /\ dropped[s] \in SUBSET (1 .. reported[s])
  BY <1>1 DEF TypeOK, StrandsTyped, WorkerTyped
<1> HIDE DEF a, b, q
<1>5. ASSUME NEW r \in Strands, Report(r)
      PROVE  AccountedFor(Passed(s), reported[s], dropped[s])'
  <2>1. /\ judged'[s] = judged[s] /\ InHand(s)' = InHand(s)
        /\ UNCHANGED <<judged, turn, hand>>
    BY <1>5 DEF Report, work, InHand
  <2>2. CASE r # s
    <3>1. reported'[s] = reported[s] /\ dropped'[s] = dropped[s] /\ queues'[s] = queues[s]
      BY <1>1, <1>5, <2>2 DEF Report, TypeOK, StrandsTyped, WorkerTyped
    <3>2. Passed(s)' = Passed(s)
      BY <2>1, <3>1, NothingPassed
    <3> QED BY <1>3, <3>1, <3>2 DEF AccountedFor
  <2>3. CASE r = s /\ Len(queues[s]) < QueueLen
    <3>1. /\ reported'[s] = reported[s] + 1 /\ dropped'[s] = dropped[s]
          /\ queues'[s] = Append(queues[s], reported[s] + 1)
      <4>1. /\ reported' = [reported EXCEPT ![s] = reported[s] + 1] /\ dropped' = dropped
            /\ queues' = [queues EXCEPT ![s] = Append(queues[s], reported[s] + 1)]
        BY <1>2, <1>5, <2>3, Limits DEF Report, q
      <4> QED BY <1>1, <4>1 DEF TypeOK, StrandsTyped
    <3>2. Passed(s)' = Append(Passed(s), reported[s] + 1)
      <4>1. reported[s] + 1 \in Nat
        BY <1>4
      <4>2. (a \o b) \o Append(q, reported[s] + 1) = Append((a \o b) \o q, reported[s] + 1)
        <5> DEFINE c == a \o b
        <5>1. c \in Seq(Nat) /\ q \in Seq(Nat)
          BY <1>2
        <5> HIDE DEF c
        <5>2. c \o Append(q, reported[s] + 1) = Append(c \o q, reported[s] + 1)
          BY <4>1, <5>1, AppendConcat
        <5> QED BY <5>2 DEF c
      <4> QED BY <1>2, <2>1, <3>1, <4>2 DEF a, b, q
    <3>3. AccountedFor(Append(Passed(s), reported[s] + 1), reported[s] + 1, dropped[s])
      BY <1>2, <1>3, <1>4, AccountsNext
    <3> QED BY <3>1, <3>2, <3>3 DEF AccountedFor
  <2>4. CASE r = s /\ ~(Len(queues[s]) < QueueLen)
    <3>1. /\ reported'[s] = reported[s] + 1 /\ queues'[s] = queues[s]
          /\ dropped'[s] = dropped[s] \cup {reported[s] + 1}
      BY <1>1, <1>5, <2>4 DEF Report, TypeOK, StrandsTyped, WorkerTyped
    <3>2. Passed(s)' = Passed(s)
      BY <2>1, <3>1, NothingPassed
    <3>3. AccountedFor(Passed(s), reported[s] + 1, dropped[s] \cup {reported[s] + 1})
      BY <1>2, <1>3, <1>4, AccountsLoss
    <3> QED BY <3>1, <3>2, <3>3 DEF AccountedFor
  <2> QED BY <2>2, <2>3, <2>4
<1>6. ASSUME NEW r \in Strands, Count(r) \/ Notify(r)
      PROVE  AccountedFor(Passed(s), reported[s], dropped[s])'
  <2>1. UNCHANGED <<judged, turn, hand, queues, reported, dropped>>
    BY <1>6 DEF Count, Notify, work
  <2>2. Passed(s)' = Passed(s)
    BY <2>1, NothingPassed DEF InHand
  <2> QED BY <1>3, <2>1, <2>2 DEF AccountedFor
<1>7. ASSUME \/ BeginsRound \/ EndsRound \/ FallsAsleep \/ TimedOut \/ PassesQueue \/ Uncounts
      PROVE  AccountedFor(Passed(s), reported[s], dropped[s])'
  <2>1. UNCHANGED <<judged, hand, queues, reported, dropped>>
    BY <1>7 DEF BeginsRound, EndsRound, FallsAsleep, TimedOut, PassesQueue, Uncounts, strands
  <2>2. turn' = turn \/ hand = <<>>
    <3>1. turn' = turn \/ worker \in {"testing", "popping"}
      BY <1>7 DEF BeginsRound, EndsRound, FallsAsleep, TimedOut, PassesQueue, Uncounts
    <3> QED BY <1>1, <3>1 DEF TypeOK, WorkerTyped
  <2>3. Passed(s)' = Passed(s)
    BY <2>1, <2>2, NothingPassed DEF InHand
  <2> QED BY <1>3, <2>1, <2>3 DEF AccountedFor
<1>8. ASSUME Pops PROVE AccountedFor(Passed(s), reported[s], dropped[s])'
  <2>1. /\ UNCHANGED <<judged, reported, dropped, turn>> /\ hand = <<>>
        /\ hand' = <<Head(queues[turn])>> /\ turn \in Strands /\ queues[turn] # <<>>
        /\ queues' = [queues EXCEPT ![turn] = Tail(@)]
    BY <1>1, <1>8 DEF Pops, strands, TypeOK, StrandsTyped, WorkerTyped
  <2>2. CASE turn # s
    <3>1. queues'[s] = queues[s] /\ InHand(s)' = InHand(s)
      BY <1>1, <2>1, <2>2 DEF TypeOK, StrandsTyped, WorkerTyped, InHand
    <3>2. Passed(s)' = Passed(s)
      BY <2>1, <3>1, NothingPassed
    <3> QED BY <1>3, <2>1, <3>2 DEF AccountedFor
  <2>3. CASE turn = s
    <3>1. /\ queues'[s] = Tail(queues[s]) /\ b = <<>> /\ InHand(s)' = <<Head(q)>>
      BY <1>1, <2>1, <2>3 DEF TypeOK, StrandsTyped, WorkerTyped, InHand, b, q
    <3>2. a \o <<>> = a
      BY <1>2, ConcatEmptySeq
    <3>3. /\ Head(q) \in Nat /\ a \o <<Head(q)>> = Append(a, Head(q))
          /\ Append(a, Head(q)) \o Tail(q) = a \o q
      <4>1. q # <<>>
        BY <2>1, <2>3 DEF q
      <4>2. Head(q) \in Nat
        BY <1>2, <4>1
      <4>3. a \in Seq(Nat) /\ q \in Seq(Nat)
        BY <1>2
      <4>4. a \o <<Head(q)>> = Append(a, Head(q))
        BY <4>2, <4>3, AppendConcat
      <4>5. Append(a, Head(q)) \o Tail(q) = a \o q
        BY <4>1, <4>3, HeadMoves
      <4> QED BY <4>2, <4>4, <4>5
    <3>4. Passed(s)' = Passed(s)
      BY <1>2, <2>1, <3>1, <3>2, <3>3 DEF a, q
    <3> QED BY <1>3, <2>1, <3>4 DEF AccountedFor
  <2> QED BY <2>2, <2>3
<1>9. ASSUME Judges PROVE AccountedFor(Passed(s), reported[s], dropped[s])'
  <2>1. PICK v : /\ v \in Verdict(Reports[turn][hand[1]])
                 /\ judged' = [judged EXCEPT ![turn] = Append(@, <<hand[1], v>>)]
    BY <1>9 DEF Judges
  <2>2. /\ v \in Verdicts /\ UNCHANGED <<queues, reported, dropped>> /\ hand' = <<>>
        /\ turn \in Strands /\ hand # <<>> /\ InHand(s)' = <<>>
    BY <1>1, <1>9, <2>1 DEF Verdict, SaveTraffic, Verdicts, TypeOK, StrandsTyped, WorkerTyped, Judges, strands, InHand
  <2>3. CASE turn # s
    <3>1. judged'[s] = judged[s] /\ InHand(s)' = InHand(s)
      BY <1>1, <2>1, <2>2, <2>3 DEF TypeOK, StrandsTyped, WorkerTyped, InHand
    <3>2. Passed(s)' = Passed(s)
      BY <2>2, <3>1, NothingPassed
    <3> QED BY <1>3, <2>2, <3>2 DEF AccountedFor
  <2>4. CASE turn = s
    <3>1. /\ hand[1] \in Nat /\ b = <<hand[1]>>
      <4>1. hand \in Seq(Nat) /\ Len(hand) = 1
        BY <1>1, <2>2, Short DEF TypeOK, StrandsTyped, WorkerTyped
      <4>2. hand[1] \in Nat /\ hand = <<hand[1]>>
        BY <4>1, SingleIs
      <4> QED BY <2>4, <4>2 DEF b, InHand
    <3>2. judged'[s] = Append(judged[s], <<hand[1], v>>) /\ judged[s] \in Seq(Nat \X Verdicts)
      BY <1>1, <2>1, <2>4 DEF TypeOK, StrandsTyped, WorkerTyped
    <3>3. Numbers(judged'[s]) = Append(a, hand[1])
      BY <2>2, <3>1, <3>2, NumbersAppend DEF a
    <3>4. Append(a, hand[1]) \o <<>> = Append(a, hand[1]) /\ a \o b = Append(a, hand[1])
      <4>1. Append(a, hand[1]) \in Seq(Nat)
        BY <1>2, <3>1, AppendProperties
      <4> QED BY <1>2, <3>1, <4>1, ConcatEmptySeq, AppendConcat
    <3>5. Passed(s)' = Passed(s)
      BY <1>2, <2>2, <3>3, <3>4 DEF q
    <3> QED BY <1>3, <2>2, <3>5 DEF AccountedFor
  <2> QED BY <2>3, <2>4
<1>10. ASSUME AsksForReload \/ Stops \/ Joins \/ StartsWorker
       PROVE  AccountedFor(Passed(s), reported[s], dropped[s])'
  <2>1. UNCHANGED <<judged, turn, hand, queues, reported, dropped>>
    BY <1>10 DEF AsksForReload, Stops, Joins, StartsWorker, strands, work
  <2>2. Passed(s)' = Passed(s)
    BY <2>1, NothingPassed DEF InHand
  <2> QED BY <1>3, <2>1, <2>2 DEF AccountedFor
<1>11. ASSUME NEW r \in Strands, ResetsQueue(r)
       PROVE  AccountedFor(Passed(s), reported[s], dropped[s])'
  <2>1. UNCHANGED <<judged, turn, hand, reported>> /\ InHand(s)' = InHand(s)
    BY <1>11 DEF ResetsQueue, strands, work, InHand
  <2>2. CASE r # s
    <3>1. queues'[s] = queues[s] /\ dropped'[s] = dropped[s]
      BY <1>1, <1>11, <2>2 DEF ResetsQueue, TypeOK, StrandsTyped, WorkerTyped
    <3>2. Passed(s)' = Passed(s)
      BY <2>1, <3>1, NothingPassed
    <3> QED BY <1>3, <2>1, <3>1, <3>2 DEF AccountedFor
  <2>3. CASE r = s
    <3>1. queues'[s] = <<>> /\ dropped'[s] = dropped[s] \cup {q[i] : i \in 1 .. Len(q)}
      <4>1. /\ queues' = [queues EXCEPT ![s] = <<>>]
            /\ dropped' = [dropped EXCEPT ![s] = @ \cup {queues[s][i] : i \in DOMAIN queues[s]}]
        BY <1>11, <2>3 DEF ResetsQueue
      <4>2. DOMAIN queues[s] = 1 .. Len(q)
        BY <1>2 DEF q
      <4> QED BY <1>1, <4>1, <4>2 DEF TypeOK, StrandsTyped, q
    <3>2. Passed(s)' = a \o b
      BY <1>2, <2>1, <3>1, ConcatEmptySeq DEF a, b
    <3>3. AccountedFor(a \o b, reported[s], dropped[s] \cup {q[i] : i \in 1 .. Len(q)})
      BY <1>2, <1>3, <1>4, AccountsCut
    <3> QED BY <2>1, <3>1, <3>2, <3>3 DEF AccountedFor
  <2> QED BY <2>2, <2>3
<1> QED BY <1>5, <1>6, <1>7, <1>8, <1>9, <1>10, <1>11 DEF Next, Worker, Reload

(* A reload goes on only when the worker has ended, and the worker ends    *)
(* only in a round that it begins.                                         *)
LEMMA JoinsStep ==
  ASSUME SuiteInv, Next
  PROVE  JoinsFirst'
<1>1. JoinsFirst /\ WorkerTyped /\ ReloadTyped
  BY DEF SuiteInv, ReportsKept, TypeOK
<1>2. ASSUME NEW s \in Strands, Report(s) \/ Count(s) PROVE JoinsFirst'
  <2>1. UNCHANGED <<work, reload>>
    BY <1>2 DEF Report, Count
  <2> QED BY <1>1, <2>1 DEF JoinsFirst, work, reload
<1>3. ASSUME NEW s \in Strands, Notify(s) PROVE JoinsFirst'
  <2>1. UNCHANGED reload /\ (worker' = worker \/ worker = "asleep")
    BY <1>3 DEF Notify
  <2> QED BY <1>1, <2>1 DEF JoinsFirst, reload
<1>4. ASSUME Worker PROVE JoinsFirst'
  <2>1. UNCHANGED reload /\ worker # "ended"
    BY <1>4 DEF Worker, BeginsRound, Pops, PassesQueue, Uncounts, Judges, EndsRound,
       FallsAsleep, TimedOut
  <2> QED BY <1>1, <2>1 DEF JoinsFirst, reload
<1>5. ASSUME AsksForReload PROVE JoinsFirst'
  BY <1>1, <1>5 DEF JoinsFirst, AsksForReload, Polling
<1>6. ASSUME Stops PROVE JoinsFirst'
  BY <1>1, <1>6 DEF JoinsFirst, Stops, Joining
<1>7. ASSUME Joins PROVE JoinsFirst'
  BY <1>1, <1>7 DEF JoinsFirst, Joins, Polling, Joining, work
<1>8. ASSUME NEW s \in Strands, ResetsQueue(s) PROVE JoinsFirst'
  <2>1. main = s /\ UNCHANGED <<work, reloads>>
    BY <1>8 DEF ResetsQueue
  <2>2. main >= 0 /\ main # Polling
    BY <2>1, StrandNumbers DEF Polling
  <2> QED BY <1>1, <2>1, <2>2 DEF JoinsFirst, work
<1>9. ASSUME StartsWorker PROVE JoinsFirst'
  BY <1>9 DEF JoinsFirst, StartsWorker, Polling
<1> QED BY <1>2, <1>3, <1>4, <1>5, <1>6, <1>7, <1>8, <1>9 DEF Next, Reload

(* Only what split_traffic accepts is judged to be tested.                 *)
LEMMA SplitStep ==
  ASSUME SuiteInv, Next
  PROVE  TestedIsSplit'
<1>1. TypeOK /\ TestedIsSplit
  BY DEF SuiteInv, ReportsKept
<1>2. CASE Judges
  <2>1. PICK v \in Verdict(Reports[turn][hand[1]]) :
          judged' = [judged EXCEPT ![turn] = Append(judged[turn], <<hand[1], v>>)]
    BY <1>2 DEF Judges
  <2>2. v \in Verdicts /\ (v = "tested" => SplitTraffic(Reports[turn][hand[1]].traffic))
    BY <1>1, VerdictKinds
  <2>3. /\ turn \in Strands /\ hand[1] \in Nat
        /\ judged \in [Strands -> Seq(Nat \X Verdicts)]
    BY <1>1, <1>2, Short, SingleIs DEF TypeOK, WorkerTyped, Judges
  <2> SUFFICES ASSUME NEW s \in Strands, NEW i \in 1 .. Len(judged'[s]),
                      judged'[s][i][2] = "tested"
               PROVE  SplitTraffic(Reports[s][judged'[s][i][1]].traffic)
    BY DEF TestedIsSplit
  <2>4. CASE s # turn
    <3>1. judged'[s] = judged[s]
      BY <2>1, <2>3, <2>4
    <3> QED BY <1>1, <3>1 DEF TestedIsSplit
  <2>5. CASE s = turn
    <3> DEFINE e == <<hand[1], v>>
    <3>1. judged'[s] = Append(judged[s], e) /\ judged[s] \in Seq(Nat \X Verdicts)
      BY <2>1, <2>3, <2>5
    <3>2. e \in Nat \X Verdicts /\ e[1] = hand[1] /\ e[2] = v
      BY <2>2, <2>3
    <3> HIDE DEF e
    <3>3. \/ i \in 1 .. Len(judged[s]) /\ judged'[s][i] = judged[s][i]
          \/ judged'[s][i] = e
      BY <3>1, <3>2, AppendProperties
    <3>4. CASE judged'[s][i] = e
      BY <2>2, <2>5, <3>2, <3>4
    <3>5. CASE i \in 1 .. Len(judged[s]) /\ judged'[s][i] = judged[s][i]
      BY <1>1, <3>5 DEF TestedIsSplit
    <3> QED BY <3>3, <3>4, <3>5
  <2> QED BY <2>4, <2>5
<1>3. CASE ~Judges
  <2>1. judged' = judged
    BY <1>3 DEF Next, Report, Count, Notify, Worker, BeginsRound, Pops, PassesQueue, Uncounts,
       EndsRound, FallsAsleep, TimedOut, AsksForReload, Reload, Stops, Joins, ResetsQueue,
       StartsWorker, work
  <2> QED BY <1>1, <2>1 DEF TestedIsSplit
<1> QED BY <1>2, <1>3

LEMMA SuiteStep ==
  ASSUME SuiteInv, [Next]_vars
  PROVE  SuiteInv'
<1>1. CASE Next
  <2>1. TypeOK' /\ JoinsFirst' /\ TestedIsSplit'
    BY <1>1, TypeStep, JoinsStep, SplitStep
  <2>2. \A s \in Strands : AccountedFor(Passed(s), reported[s], dropped[s])'
    BY <1>1, AccountsStep
  <2>3. Accounted'
    BY <2>2 DEF Accounted, AccountedFor
  <2> QED BY <2>1, <2>3 DEF SuiteInv, ReportsKept
<1>2. CASE UNCHANGED vars
  <2>1. UNCHANGED <<reported, reporter, queues, counts, worker, turn, busy, hand, judged, files,
                    done, main, reloads, asked, dropped>>
    BY <1>2 DEF vars, strands, work, reload
  <2>2. TypeOK'
    BY <2>1, StrandsStay, WorkerStays, ReloadStays
       DEF SuiteInv, ReportsKept, TypeOK, StrandsTyped, work, reload
  <2>3. Accounted'
    <3>1. \A s \in Strands : Passed(s)' = Passed(s)
      BY <2>1 DEF Passed
    <3> QED BY <2>1, <3>1 DEF SuiteInv, ReportsKept, Accounted
  <2>4. JoinsFirst' /\ TestedIsSplit'
    BY <2>1 DEF SuiteInv, JoinsFirst, TestedIsSplit
  <2> QED BY <2>2, <2>3, <2>4 DEF SuiteInv, ReportsKept
<1> QED BY <1>1, <1>2

-----------------------------------------------------------------------------
(***************************************************************************)
(* Whatever the strands, the worker and the reloads of the console do      *)
(* between each other's steps, the reports of a strand are judged in order *)
(* and once, and none is lost but for a full queue or one that ready_go    *)
(* replaces; a reload goes on only after the worker has ended, and what    *)
(* was tested was accepted by split_traffic (testsuite.cpp).               *)
(***************************************************************************)
THEOREM SuiteSafety == Spec => []SuiteInv
<1>1. Init => SuiteInv
  BY SuiteInit
<1>2. SuiteInv /\ [Next]_vars => SuiteInv'
  BY SuiteStep
<1> QED BY <1>1, <1>2, PTL DEF Spec

(***************************************************************************)
(* No interleaving of report_sess_traffic, run_worker and a reload judges  *)
(* a session twice, out of order, or forgets one.                          *)
(***************************************************************************)
THEOREM ReportsAccounted == Spec => []ReportsKept
<1>1. SuiteInv => ReportsKept
  BY DEF SuiteInv
<1> QED BY <1>1, SuiteSafety, PTL

(***************************************************************************)
(* The traffic that the lua scripts are given has of either side every     *)
(* byte from the handshake to the last and has it once (split_traffic).    *)
(***************************************************************************)
THEOREM TestedIsWhole == Spec => []TestedWhole
<1>1. SuiteInv => TestedWhole
  <2> SUFFICES ASSUME SuiteInv, NEW s \in Strands, NEW i \in DOMAIN judged[s],
                      judged[s][i][2] = "tested"
               PROVE  Whole(Reports[s][judged[s][i][1]].traffic)
    BY DEF TestedWhole
  <2> DEFINE n == judged[s][i][1]
             t == Reports[s][n].traffic
  <2>1. TypeOK /\ Accounted /\ i \in 1 .. Len(judged[s])
    BY DEF SuiteInv, ReportsKept, TypeOK, WorkerTyped
  <2>2. SplitTraffic(t)
    BY <2>1 DEF SuiteInv, TestedIsSplit
  <2>3. n \in 1 .. Len(Reports[s])
    <3>1. n \in 1 .. reported[s]
      BY <2>1, PassedAreReports
    <3>2. reported[s] <= Len(Reports[s]) /\ reported[s] \in Nat
      BY <2>1 DEF TypeOK, StrandsTyped
    <3> QED BY <3>1, <3>2, Limits
  <2>4. Reports[s][n] \in Jobs /\ n \in DOMAIN Reports[s]
    <3>1. Reports[s] \in Seq(Jobs)
      BY Limits
    <3> HIDE DEF n
    <3> QED BY <2>3, <3>1
  <2>5. t \in Seq(Packets)
    BY <2>4 DEF Jobs
  <2>6. History(t)
    BY <2>4, TestSuiteAssumption
  <2> QED BY <2>2, <2>5, <2>6, SplitIsWhole
<1> QED BY <1>1, SuiteSafety, PTL
=============================================================================
