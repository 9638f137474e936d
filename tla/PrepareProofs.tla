---------------------------- MODULE PrepareProofs ----------------------------
(***************************************************************************)
(* Proofs about the prepare commands, for any numbers of threads,          *)
(* warehouses and partitions and every scale factor.  A thread loads its   *)
(* share, the numbers with its own remainder, in order; so what it has     *)
(* reached is loaded, and what lies ahead of it is not, whatever the other *)
(* threads do.                                                             *)
(***************************************************************************)
EXTENDS TPCHPrepare, SumTheorems

LEMMA DivMod ==
    ASSUME NEW a \in Nat, NEW n \in Nat \ {0}
    PROVE  /\ a \div n \in Nat
           /\ a % n \in 0 .. n - 1
           /\ a = n * (a \div n) + (a % n)
  BY Z3

LEMMA ModTyped == \A a \in Nat : \A n \in Nat \ {0} : a % n \in Nat /\ a % n < n
<1> TAKE a \in Nat
<1> TAKE n \in Nat \ {0}
<1> QED
  BY DivMod

LEMMA ModSmall ==
    ASSUME NEW n \in Nat \ {0}, NEW a \in Nat, a < n  PROVE a % n = a
<1> DEFINE x == a \div n
<1>1. x \in Nat /\ a % n \in 0 .. n - 1 /\ a = n * x + (a % n)
  BY DivMod
<1> HIDE DEF x
<1>2. x >= 1 => n * x >= n
  BY <1>1, Z3
<1>3. x = 0 => n * x = 0
  BY Z3
<1> QED
  BY <1>1, <1>2, <1>3

(* Numbers less than n apart have different remainders. *)
LEMMA ModDistinct ==
    ASSUME NEW n \in Nat \ {0}, NEW a \in Nat, NEW b \in Nat,
           a < b, b < a + n, a % n = b % n
    PROVE  FALSE
<1> DEFINE p == a \div n
           q == b \div n
<1>1. p \in Nat /\ q \in Nat /\ a = n * p + (a % n) /\ b = n * q + (b % n)
  BY DivMod
<1>2. a % n \in Nat
  BY DivMod
<1> HIDE DEF p, q
<1>3. b - a = n * q - n * p
  BY <1>1, <1>2
<1>4. CASE q <= p
  <2>1. n * q <= n * p
    BY <1>1, <1>4, Z3
  <2> QED
    BY <1>1, <1>3, <2>1
<1>5. CASE q >= p + 1
  <2>1. n * q >= n * (p + 1)
    BY <1>1, <1>5, Z3
  <2>2. n * (p + 1) = n * p + n
    BY <1>1, Z3
  <2> QED
    BY <1>1, <1>3, <2>1, <2>2
<1> QED
  BY <1>1, <1>4, <1>5

LEMMA ModNext ==
    ASSUME NEW n \in Nat \ {0}, NEW a \in Nat  PROVE (a + n) % n = a % n
<1> DEFINE p == a \div n
           q == (a + n) \div n
           r == a % n
           u == (a + n) % n
<1>1. /\ p \in Nat /\ r \in 0 .. n - 1 /\ a = n * p + r
      /\ q \in Nat /\ u \in 0 .. n - 1 /\ a + n = n * q + u
  <2>1. a + n \in Nat
    OBVIOUS
  <2> QED
    BY <2>1, DivMod
<1> HIDE DEF p, q, r, u
<1>2. n * (p + 1) = n * p + n
  BY <1>1, Z3
<1>3. q >= p + 2 => n * q >= n * (p + 2) /\ n * (p + 2) = n * p + n + n
  BY <1>1, Z3
<1>4. q <= p => n * q <= n * p
  BY <1>1, Z3
<1>5. q = p + 1
  BY <1>1, <1>2, <1>3, <1>4
<1>6. u = r
  BY <1>1, <1>2, <1>5
<1> QED
  BY <1>6 DEF u, r

LEMMA DivUnique ==
    ASSUME NEW n \in Nat \ {0}, NEW q \in Nat, NEW r \in 0 .. n - 1
    PROVE  (n * q + r) \div n = q /\ (n * q + r) % n = r /\ n * q + r \in Nat
<1> DEFINE a == n * q + r
           p == a \div n
           u == a % n
<1>1. n * q \in Nat
  BY Z3
<1>2. a \in Nat
  BY <1>1
<1> HIDE DEF a
<1>3. p \in Nat /\ u \in 0 .. n - 1 /\ a = n * p + u
  BY <1>2, DivMod
<1> HIDE DEF p, u
<1>4. n * (q + 1) = n * q + n /\ n * (p + 1) = n * p + n
  BY <1>3, Z3
<1>5. p >= q + 1 => n * p >= n * (q + 1)
  BY <1>3, Z3
<1>6. q >= p + 1 => n * q >= n * (p + 1)
  BY <1>3, Z3
<1>7. a = n * q + r /\ n * p \in Nat
  BY <1>3, Z3 DEF a
<1>8. p = q
  BY <1>1, <1>3, <1>4, <1>5, <1>6, <1>7
<1>9. u = r
  BY <1>1, <1>3, <1>7, <1>8
<1> QED
  BY <1>2, <1>8, <1>9 DEF a, p, u

------------------------------------------------------------------------------
(* Partitions: as many as there are warehouses at most. *)

LEMMA RoundedUpIs ==
    ASSUME NEW n \in Nat, NEW d \in Nat \ {0}
    PROVE  /\ RoundedUp(n, d) \in Nat
           /\ n <= d * RoundedUp(n, d)
           /\ n > 0 => RoundedUp(n, d) > 0
           /\ n > 0 => d * RoundedUp(n, d) < n + d
<1> DEFINE q == n \div d
           r == n % d
<1>1. q \in Nat /\ r \in 0 .. d - 1 /\ n = d * q + r
  BY DivMod
<1>2. RoundedUp(n, d) = IF r = 0 THEN q ELSE q + 1
  BY <1>1 DEF RoundedUp
<1> HIDE DEF q, r
<1>3. d * (q + 1) = d * q + d /\ d * q \in Nat /\ (q = 0 => d * q = 0)
  BY <1>1, Z3
<1> QED
  BY <1>1, <1>2, <1>3

(* The beginning of Taken. *)
TakenUpTo(g, warehouses, parts, n) ==
    g = [p \in 0 .. n |-> IF p = 0 THEN 0
                          ELSE g[p - 1] + RoundedUp(warehouses - g[p - 1], parts - (p - 1))]

LEMMA TakenBegins ==
    ASSUME NEW warehouses, NEW parts, NEW n \in Nat
    PROVE  \E g : TakenUpTo(g, warehouses, parts, n)
<1> DEFINE Bad == {m \in Nat : ~\E g : TakenUpTo(g, warehouses, parts, m)}
<1> SUFFICES ASSUME Bad # {} PROVE FALSE
  OBVIOUS
<1>1. PICK m \in Bad : \A j \in Bad : m <= j
  BY LeastElement
<1>2. m # 0
  <2>1. TakenUpTo([p \in 0 .. 0 |-> 0], warehouses, parts, 0)
    BY DEF TakenUpTo
  <2> QED
    BY <2>1
<1>3. m - 1 \in Nat /\ m - 1 \notin Bad
  BY <1>1, <1>2
<1>4. PICK g : TakenUpTo(g, warehouses, parts, m - 1)
  BY <1>3
<1> DEFINE h == [p \in 0 .. m |-> IF p = m
                   THEN g[m - 1] + RoundedUp(warehouses - g[m - 1], parts - (m - 1)) ELSE g[p]]
<1>5. \A p \in 0 .. m - 1 : g[p] = IF p = 0 THEN 0
           ELSE g[p - 1] + RoundedUp(warehouses - g[p - 1], parts - (p - 1))
  BY <1>4 DEF TakenUpTo
<1>6. ASSUME NEW p \in 0 .. m
      PROVE  h[p] = IF p = 0 THEN 0
                    ELSE h[p - 1] + RoundedUp(warehouses - h[p - 1], parts - (p - 1))
  <2>1. p # 0 => p - 1 \in 0 .. m - 1 /\ h[p - 1] = g[p - 1]
    BY <1>3
  <2>2. CASE p = m
    BY <1>2, <2>1, <2>2
  <2>3. CASE p # m
    BY <1>5, <2>1, <2>3
  <2> QED
    BY <2>2, <2>3
<1>7. h = [p \in 0 .. m |-> IF p = 0 THEN 0
             ELSE h[p - 1] + RoundedUp(warehouses - h[p - 1], parts - (p - 1))]
  <2> HIDE DEF h
  <2> DEFINE e == [p \in 0 .. m |-> IF p = 0 THEN 0
                     ELSE h[p - 1] + RoundedUp(warehouses - h[p - 1], parts - (p - 1))]
  <2>1. h = [p \in 0 .. m |-> h[p]]
    BY DEF h
  <2> QED
    BY <1>6, <2>1
<1> QED
  BY <1>7 DEF TakenUpTo

LEMMA TakenUnfolds ==
    ASSUME NEW warehouses, NEW parts \in Nat, NEW p \in 0 .. parts
    PROVE  Taken(warehouses, parts)[p] =
               IF p = 0 THEN 0
               ELSE Taken(warehouses, parts)[p - 1]
                    + RoundedUp(warehouses - Taken(warehouses, parts)[p - 1], parts - (p - 1))
<1>1. PICK g : TakenUpTo(g, warehouses, parts, parts)
  BY TakenBegins
<1>2. TakenUpTo(Taken(warehouses, parts), warehouses, parts, parts)
  BY <1>1 DEF TakenUpTo, Taken
<1> QED
  BY <1>2 DEF TakenUpTo

(* The partitions left get a warehouse each, and in the end none is left. *)
LEMMA TakenSteps ==
    ASSUME NEW warehouses \in Nat, NEW parts \in Nat \ {0}, parts <= warehouses,
           NEW p \in 0 .. parts
    PROVE  LET t == Taken(warehouses, parts)
           IN  /\ t[p] \in Nat
               /\ t[p] <= warehouses - (parts - p)
               /\ p = parts => t[p] = warehouses
               /\ p > 0 => t[p - 1] \in Nat /\ t[p - 1] < t[p]
<1> DEFINE t == Taken(warehouses, parts)
           Good(j) == t[j] \in Nat /\ t[j] <= warehouses - (parts - j)
           Bad == {j \in 0 .. parts : ~Good(j)}
<1>1. t[0] = 0
  BY TakenUnfolds
<1>2. \A j \in 1 .. parts : t[j] = t[j - 1] + RoundedUp(warehouses - t[j - 1], parts - (j - 1))
  BY TakenUnfolds
<1> HIDE DEF t
<1>3. ASSUME NEW j \in 1 .. parts, Good(j - 1)
      PROVE  Good(j) /\ t[j - 1] < t[j] /\ (j = parts => t[j] = warehouses)
  <2> DEFINE left == warehouses - t[j - 1]
             d == parts - (j - 1)
             r == RoundedUp(left, d)
  <2>1. left \in Nat /\ d \in Nat \ {0} /\ left >= d
    BY <1>3
  <2>2. r \in Nat /\ r > 0 /\ left <= d * r /\ d * r < left + d
    <3>1. left > 0
      BY <2>1
    <3> HIDE DEF left, d
    <3> QED
      BY <2>1, <3>1, RoundedUpIs
  <2>3. t[j] = t[j - 1] + r
    BY <1>2
  <2>5. j = parts => d = 1
    OBVIOUS
  <2> HIDE DEF r
  <2>4. r <= left - (d - 1)
    <3> HIDE DEF left, d
    <3> SUFFICES ASSUME r >= left - d + 2 PROVE FALSE
      BY <2>1, <2>2
    <3>1. d * r = r + (d - 1) * r
      BY <2>1, <2>2, Z3
    <3>2. (d - 1) * r >= (d - 1) * 2 \/ d = 1
      <4>1. CASE d = 1
        BY <4>1
      <4>2. CASE d # 1
        <5>1. r >= 2
          BY <2>1, <2>2
        <5> QED
          BY <5>1, <2>1, <2>2, <4>2, Z3
      <4> QED
        BY <4>1, <4>2
    <3>3. d = 1 => d * r = r
      BY <2>2
    <3> QED
      BY <2>1, <2>2, <3>1, <3>2, <3>3
  <2>6. j = parts => r = left
    <3> HIDE DEF left, d
    <3>1. d = 1 => d * r = r
      BY <2>2
    <3> QED
      BY <2>1, <2>2, <2>5, <3>1
  <2> QED
    BY <1>3, <2>1, <2>2, <2>3, <2>4, <2>6
<1>4. Good(0)
  BY <1>1
<1>5. Bad = {}
  <2> SUFFICES ASSUME Bad # {} PROVE FALSE
    OBVIOUS
  <2>1. PICK j \in Bad : \A m \in Bad : j <= m
    <3>1. Bad \in SUBSET Nat
      OBVIOUS
    <3> HIDE DEF Bad
    <3> QED
      BY <3>1, LeastElement
  <2>2. j # 0
    BY <1>4, <2>1
  <2>3. j \in 1 .. parts /\ j - 1 \in 0 .. parts /\ j - 1 \notin Bad
    BY <2>1, <2>2
  <2> QED
    BY <1>3, <2>1, <2>3
<1>6. \A j \in 0 .. parts : Good(j)
  BY <1>5
<1>7. CASE p = 0
  BY <1>1, <1>6, <1>7 DEF t
<1>8. CASE p > 0
  <2>1. p \in 1 .. parts /\ p - 1 \in 0 .. parts
    BY <1>8
  <2> QED
    BY <1>3, <1>6, <1>8, <2>1 DEF t
<1> QED
  BY <1>7, <1>8

LEMMA TakenGrows ==
    ASSUME NEW warehouses \in Nat, NEW parts \in Nat \ {0}, parts <= warehouses,
           NEW p \in 0 .. parts, NEW q \in 0 .. parts, p <= q
    PROVE  Taken(warehouses, parts)[p] <= Taken(warehouses, parts)[q]
<1> DEFINE t == Taken(warehouses, parts)
           Bad == {j \in 0 .. parts : p <= j /\ ~(t[p] <= t[j])}
<1>1. /\ \A j \in 0 .. parts : t[j] \in Nat
      /\ \A j \in 1 .. parts : t[j - 1] < t[j]
  BY TakenSteps
<1> HIDE DEF t
<1>2. Bad = {}
  <2> SUFFICES ASSUME Bad # {} PROVE FALSE
    OBVIOUS
  <2>1. PICK j \in Bad : \A m \in Bad : j <= m
    <3>1. Bad \in SUBSET Nat
      OBVIOUS
    <3> HIDE DEF Bad
    <3> QED
      BY <3>1, LeastElement
  <2>2. j # p
    BY <1>1, <2>1
  <2>3. j \in 1 .. parts /\ j - 1 \in 0 .. parts /\ p <= j - 1 /\ j - 1 \notin Bad
    BY <2>1, <2>2
  <2>4. t[p] <= t[j - 1] /\ t[j - 1] < t[j]
    BY <1>1, <2>3
  <2> QED
    BY <1>1, <2>1, <2>3, <2>4
<1> QED
  BY <1>2 DEF t

(* appendPartition: the clause is one that the server takes. *)
LEMMA PartitionsWellFormed ==
    ASSUME NEW type \in PartitionTypes, NEW warehouses \in Nat, NEW parts \in Nat \ {0},
           parts <= warehouses
    PROVE  WellFormed(type, warehouses, parts)
<1>1. CASE type = "HASH"
  BY <1>1 DEF WellFormed, IsList
<1>2. CASE type = "RANGE"
  <2> DEFINE r == RoundedUp(warehouses, parts)
  <2>1. r \in Nat /\ r > 0
    BY RoundedUpIs
  <2>2. ASSUME NEW p \in 1 .. parts - 1
        PROVE  Below(warehouses, parts, p - 1) < Below(warehouses, parts, p)
    <3>1. Below(warehouses, parts, p - 1) = 1 + p * r /\ Below(warehouses, parts, p) = 1 + (p + 1) * r
      BY DEF Below
    <3> HIDE DEF r
    <3>2. (p + 1) * r = p * r + r /\ p * r \in Nat
      BY <2>1, Z3
    <3> QED
      BY <2>1, <3>1, <3>2
  <2> QED
    BY <1>2, <2>2 DEF WellFormed, IsList
<1>3. CASE type = "LIST like HASH"
  <2>1. \A p \in 0 .. parts - 1 :
           Listed(type, warehouses, parts, p) =
               {j + 1 : j \in {j \in 0 .. warehouses - 1 : j % parts = p}}
    BY <1>3 DEF Listed
  <2>2. ASSUME NEW p \in 0 .. parts - 1  PROVE p + 1 \in Listed(type, warehouses, parts, p)
    <3>0. p \in Nat
      OBVIOUS
    <3>3. p % parts = p
      BY <3>0, ModSmall
    <3> QED
      BY <2>1, <3>3
  <2>3. ASSUME NEW p \in 0 .. parts - 1, NEW q \in 0 .. parts - 1, p # q,
               NEW w \in Listed(type, warehouses, parts, p), w \in Listed(type, warehouses, parts, q)
        PROVE  FALSE
    <3>1. PICK j \in 0 .. warehouses - 1 : j % parts = p /\ w = j + 1
      BY <2>1
    <3>2. PICK l \in 0 .. warehouses - 1 : l % parts = q /\ w = l + 1
      BY <2>1, <2>3
    <3>3. j = l
      BY <3>1, <3>2
    <3> QED
      BY <2>3, <3>1, <3>2, <3>3
  <2> QED
    BY <1>3, <2>2, <2>3 DEF WellFormed, IsList
<1>4. CASE type = "LIST like RANGE"
  <2> DEFINE t == Taken(warehouses, parts)
  <2>1. \A p \in 0 .. parts - 1 : Listed(type, warehouses, parts, p) = (t[p] + 1) .. t[p + 1]
    BY <1>4 DEF Listed
  <2>2. \A p \in 0 .. parts - 1 : t[p] \in Nat /\ t[p + 1] \in Nat /\ t[p] < t[p + 1]
    <3> SUFFICES ASSUME NEW p \in 0 .. parts - 1
                 PROVE  t[p] \in Nat /\ t[p + 1] \in Nat /\ t[p] < t[p + 1]
      OBVIOUS
    <3>1. p + 1 \in 0 .. parts /\ p + 1 > 0 /\ (p + 1) - 1 = p
      OBVIOUS
    <3> QED
      BY <3>1, TakenSteps
  <2>3. \A p, q \in 0 .. parts - 1 : p < q => t[p + 1] <= t[q]
    <3> SUFFICES ASSUME NEW p \in 0 .. parts - 1, NEW q \in 0 .. parts - 1, p < q
                 PROVE  t[p + 1] <= t[q]
      OBVIOUS
    <3>1. p + 1 \in 0 .. parts /\ q \in 0 .. parts /\ p + 1 <= q
      OBVIOUS
    <3> QED
      BY <3>1, TakenGrows
  <2> HIDE DEF t
  <2>4. ASSUME NEW p \in 0 .. parts - 1  PROVE t[p + 1] \in Listed(type, warehouses, parts, p)
    BY <2>1, <2>2
  <2>5. ASSUME NEW p \in 0 .. parts - 1, NEW q \in 0 .. parts - 1, p < q
        PROVE  Listed(type, warehouses, parts, p) \cap Listed(type, warehouses, parts, q) = {}
    <3>1. /\ Listed(type, warehouses, parts, p) = (t[p] + 1) .. t[p + 1]
          /\ Listed(type, warehouses, parts, q) = (t[q] + 1) .. t[q + 1]
          /\ t[p + 1] <= t[q] /\ t[p + 1] \in Nat /\ t[q] \in Nat /\ t[p] \in Nat /\ t[q + 1] \in Nat
      BY <2>1, <2>2, <2>3, <2>5
    <3> QED
      BY <3>1
  <2>6. ASSUME NEW p \in 0 .. parts - 1, NEW q \in 0 .. parts - 1, p # q
        PROVE  Listed(type, warehouses, parts, p) \cap Listed(type, warehouses, parts, q) = {}
    <3>1. CASE p < q
      BY <2>5, <3>1
    <3>2. CASE q < p
      BY <2>5, <3>2
    <3> QED
      BY <2>6, <3>1, <3>2
  <2> QED
    BY <1>4, <2>4, <2>6 DEF WellFormed, IsList
<1> QED
  BY <1>1, <1>2, <1>3, <1>4 DEF PartitionTypes

(* appendPartition: every warehouse belongs in a partition. *)
LEMMA WarehousesPlaced ==
    ASSUME NEW type \in PartitionTypes, NEW warehouses \in Nat, NEW parts \in Nat \ {0},
           parts <= warehouses, NEW w \in 1 .. warehouses
    PROVE  Placed(type, warehouses, parts, w)
<1>1. CASE type = "HASH"
  BY <1>1 DEF Placed, IsList
<1>2. CASE type = "RANGE"
  <2>1. warehouses <= parts * RoundedUp(warehouses, parts) /\ RoundedUp(warehouses, parts) \in Nat
    BY RoundedUpIs
  <2>2. Below(warehouses, parts, parts - 1) = 1 + parts * RoundedUp(warehouses, parts)
    BY DEF Below
  <2>3. parts * RoundedUp(warehouses, parts) \in Nat
    BY <2>1, Z3
  <2> QED
    BY <1>2, <2>1, <2>2, <2>3 DEF Placed, IsList
<1>3. CASE type = "LIST like HASH"
  <2> DEFINE p == (w - 1) % parts
  <2>1. p \in 0 .. parts - 1
    BY DivMod
  <2>2. w \in {j + 1 : j \in {j \in 0 .. warehouses - 1 : j % parts = p}}
    BY <2>1
  <2> HIDE DEF p
  <2>3. w \in Listed(type, warehouses, parts, p)
    BY <1>3, <2>2 DEF Listed
  <2> QED
    BY <1>3, <2>1, <2>3 DEF Placed, IsList
<1>4. CASE type = "LIST like RANGE"
  <2> DEFINE t == Taken(warehouses, parts)
             Enough == {j \in 0 .. parts : w <= t[j]}
  <2>1. \A j \in 0 .. parts : t[j] \in Nat
    BY TakenSteps
  <2>2. t[0] = 0 /\ t[parts] = warehouses
    BY TakenUnfolds, TakenSteps
  <2> HIDE DEF t
  <2>3. Enough \in SUBSET Nat /\ parts \in Enough
    BY <2>2
  <2>4. PICK j \in Enough : \A m \in Enough : j <= m
    <3> HIDE DEF Enough
    <3> QED
      BY <2>3, LeastElement
  <2>5. j # 0
    BY <2>2, <2>4
  <2>6. j - 1 \in 0 .. parts - 1 /\ j - 1 \in 0 .. parts /\ j - 1 \notin Enough
    BY <2>4, <2>5
  <2>7. w \in (t[j - 1] + 1) .. t[j]
    BY <2>1, <2>4, <2>6
  <2>8. w \in Listed(type, warehouses, parts, j - 1)
    <3>1. (j - 1) + 1 = j
      BY <2>4
    <3> QED
      BY <1>4, <2>7, <3>1 DEF Listed, t
  <2> QED
    BY <1>4, <2>6, <2>8 DEF Placed, IsList
<1> QED
  BY <1>1, <1>2, <1>3, <1>4 DEF PartitionTypes

------------------------------------------------------------------------------
(* Which thread loads what, and when: the numbers of warehouses and of districts,
   counted from 0, are shared out by their remainders. *)

Number(load) == IF load[3] = 0 THEN load[2] - 1
                ELSE (load[2] - 1) * DistrictPerWarehouse + (load[3] - 1)

PlaceOf(table) ==
    CASE table \in {"item", "warehouse", "customer"} -> 1
      [] table \in {"stock", "history"}              -> 2
      [] table \in {"district", "orders"}            -> 3
      [] table = "new_order"                         -> 4
      [] table = "order_line"                        -> 5

PhaseOf(load) == IF load = Item THEN "item"
                 ELSE IF load[3] = 0 THEN "warehouses" ELSE "districts"

Owner(load) == IF load = Item THEN 0 ELSE Number(load) % flags.threads

Rank(step) == CASE step \in {"init", "drop", "create", "barrier"} -> 0
                [] step = "item"                                  -> 1
                [] step = "warehouses"                            -> 2
                [] step = "districts"                             -> 3
                [] OTHER                                          -> 4

(* A thread is past a load. *)
Past(t, load) == \/ Rank(pc[t]) > Rank(PhaseOf(load))
                 \/ /\ pc[t] = PhaseOf(load) /\ pc[t] # "item"
                    /\ \/ Number(load) < i[t]
                       \/ Number(load) = i[t] /\ PlaceOf(load[1]) < k[t]

(* It has not failed. *)
Well(t) == pc[t] # "failed" /\ (pc[t] = "done" => ~errCh)

(* The database was empty, or has been emptied. *)
Fresh == flags.before = "absent" \/ (flags.dropData /\ Cleans)

(* Where a thread can be. *)
ControlOf(t) ==
    /\ pc[t] \in Loading => IsTpcc
    /\ pc[t] = "item" => t = 0
    /\ pc[t] = "barrier" => HasBarrier
    /\ pc[t] = "drop" => flags.dropData
    /\ t \in arrived => pc[t] \notin {"init", "drop", "create"}
    /\ pc[t] \in {"warehouses", "districts", "initCheck"} => i[t] % flags.threads = t
    /\ pc[t] = "check" /\ IsTpcc => i[t] % flags.threads = t
    /\ command = "loading" /\ HasBarrier
          /\ (pc[t] \in Loading \/ (Well(t) /\ pc[t] \in {"cleanup", "done"})) => arrived = Threads
    /\ command = "loading" => pc[t] \notin {"initCheck", "check"}
    /\ command = "analyzing" => pc[t] = "done"
    /\ command \in {"checking", "ok"} => pc[t] \in {"initCheck", "check", "done"}

Control == /\ \A t \in Threads : ControlOf(t)
           /\ command = "analyzing" => ~errCh /\ IsTpcc /\ ~ToFiles
           /\ command = "checking" /\ IsTpcc => ~ToFiles

(* The tables. *)
TablesInv ==
    /\ 0 \in arrived => tables # "absent"
    /\ pc[0] = "init" => tables = flags.before
    /\ pc[0] = "drop" => tables = flags.before
    /\ pc[0] = "create" => tables = IF Fresh THEN "absent" ELSE flags.before
    /\ tables = "referenced" => flags.before = "referenced" \/ flags.useFK

(* TPC-C, into the database. *)
RowsInv ==
    IsTpcc /\ ~ToFiles /\ command = "loading" =>
        /\ pc[0] = "init" => rows = [load \in Loads |-> IF flags.before = "absent" THEN "none" ELSE "all"]
        /\ ~Fresh => /\ rows[Item] # "none"
                     /\ Well(0) => pc[0] \in {"init", "create", "barrier", "item"}
        /\ Fresh /\ (pc[0] = "create" \/ 0 \in arrived) =>
              \A load \in Loads : Well(Owner(load)) =>
                  rows[load] = IF Past(Owner(load), load) THEN "all" ELSE "none"

(* TPC-C, into files. *)
FilesInv ==
    IsTpcc /\ ToFiles /\ command = "loading" =>
        \A t \in Threads : \A load \in Loads : Selected(load) =>
            IF t = Owner(load)
            THEN Well(t) /\ pc[t] # "init" =>
                     files[t][load] = IF Past(t, load) THEN "all" ELSE "none"
            ELSE pc[t] # "init" \/ ~HasFile(t, load) => files[t][load] = "none"

(* TPC-H and CH-benCHmark. *)
UnitOf(table) == IF flags.workload = "tpch"
                 THEN CASE table = "nation"                  -> 1
                        [] table = "region"                  -> 2
                        [] table = "customer"                -> 3
                        [] table = "supplier"                -> 4
                        [] table \in {"part", "partsupp"}    -> 5
                        [] table \in {"orders", "lineitem"}  -> 6
                 ELSE CASE table = "nation"   -> 1
                        [] table = "region"   -> 2
                        [] table = "supplier" -> 3

Expected(unit) ==
    IF pc[0] \in {"finish", "cleanup", "done"} THEN "all"
    ELSE IF pc[0] = "create" THEN "none"
    ELSE IF unit < i[0] THEN "all"
    ELSE IF unit = i[0] /\ pc[0] = "flush" THEN "written" ELSE "none"

GeneratedInv ==
    ~IsTpcc /\ command = "loading" =>
        /\ ToFiles => \A t \in Threads \ {0} : \A load \in Loads : files[t][load] = "none"
        /\ faults = 0 /\ ~ToFiles /\ ~Fresh => \A load \in Loads : rows[load] = "all"
        /\ flags.before = "absent" /\ ~ToFiles /\ pc[0] \in {"init", "drop"} =>
              \A load \in Loads : rows[load] = "none"
        /\ /\ faults = 0 /\ Well(0)
           /\ \/ ToFiles /\ pc[0] \notin {"init", "drop", "create"}
              \/ ~ToFiles /\ Fresh /\ pc[0] \notin {"init", "drop"}
           => \A load \in Loads : Stored(load) = Expected(UnitOf(load[1]))

(* A failure has a cause. *)
CauseInv == /\ errCh => Cause
            /\ \A t \in Threads : pc[t] = "failed" => Cause

(* The checks. *)
ChecksInv ==
    /\ command \in {"loading", "analyzing"} => \A w \in Warehouses : checked[w] = 0
    /\ command = "checking" /\ IsTpcc => \A w \in Warehouses :
          LET t == (w - 1) % flags.threads
          IN  /\ pc[t] \in {"initCheck", "check"} => checked[w] = IF w - 1 < i[t] THEN 1 ELSE 0
              /\ pc[t] = "done" /\ ~errCh => checked[w] = 1

Prepared == /\ TypeOK
            /\ Control
            /\ TablesInv
            /\ RowsInv
            /\ FilesInv
            /\ GeneratedInv
            /\ TablesBeforeRows
            /\ PostStepsSeeAllRows
            /\ CauseInv
            /\ FailsForCause
            /\ ChecksInv
            /\ EachWarehouseChecked

------------------------------------------------------------------------------
(* The command line, and what only depends on it. *)

LEMMA FlagsTyped ==
    ASSUME flags \in Flags
    PROVE  /\ flags \in FlagSets /\ Accepted(flags)
           /\ flags.threads \in Nat \ {0} /\ flags.warehouses \in Nat \ {0}
           /\ flags.parts \in Nat \ {0} /\ flags.parts <= flags.warehouses
           /\ flags.partitionType \in PartitionTypes
           /\ flags.before \in {"absent", "plain", "referenced"}
           /\ DistrictPerWarehouse \in Nat \ {0}
           /\ MaxFaults \in Nat
           /\ 0 \in Threads
           /\ IsTpcc /\ ~ToFiles => flags.connected
  BY PrepareAssumption DEF FlagSets, Accepted, Threads, IsTpcc, ToFiles

LEMMA FlagsFixed ==
    ASSUME flags' = flags
    PROVE  /\ Threads' = Threads /\ Warehouses' = Warehouses /\ Loads' = Loads
           /\ (IsTpcc' <=> IsTpcc) /\ (ToFiles' <=> ToFiles) /\ (HasBarrier' <=> HasBarrier)
           /\ (Cleans' <=> Cleans) /\ (Fresh' <=> Fresh) /\ Units' = Units
           /\ \A load : (Selected(load)' <=> Selected(load)) /\ Owner(load)' = Owner(load)
           /\ \A table : UnitOf(table)' = UnitOf(table)
           /\ \A t, load : HasFile(t, load)' <=> HasFile(t, load)
  BY DEF Threads, Warehouses, Loads, IsTpcc, ToFiles, HasBarrier, Cleans, Fresh, Units, TpccLoads,
         Selected, Owner, UnitOf, HasFile

LEMMA Lengths == Len(WarehouseTables) = 3 /\ Len(DistrictTables) = 5
  BY DEF WarehouseTables, DistrictTables

LEMMA UnitsTyped == /\ Len(Units) \in Nat /\ Len(Units) >= 1
                    /\ flags.workload = "tpch" => Len(Units) = 6
                    /\ flags.workload # "tpch" => Len(Units) = 3
  BY DEF Units

LEMMA InitTyped ==
    ASSUME Init  PROVE TypeOK
<1> USE DEF Init
<1>1. flags.threads \in Nat \ {0} /\ flags.before \in {"absent", "plain", "referenced"} /\ MaxFaults \in Nat
  BY FlagsTyped
<1>2. Len(DistrictTables) = 5
  BY Lengths
<1>3. rows \in [Loads -> {"none", "part", "written", "all", "twice"}]
  OBVIOUS
<1>4. files \in [Threads -> [Loads -> {"none", "part", "written", "all", "twice", "stale"}]]
  <2>1. \A t \in Threads : files[t] \in [Loads -> {"none", "part", "written", "all", "twice", "stale"}]
    OBVIOUS
  <2> QED
    BY <2>1
<1>5. \A t \in Threads : pc[t] = "init" /\ i[t] = 0 /\ k[t] = 1
  OBVIOUS
<1>6. pc \in [Threads -> Steps] /\ i \in [Threads -> Nat] /\ k \in [Threads -> 1 .. Len(DistrictTables)]
  BY <1>2 DEF Steps
<1>7. checked \in [Warehouses -> Nat]
  OBVIOUS
<1>8. \A t \in Threads : pc[t] # "warehouses" /\ pc[t] \notin Generating
  BY <1>5 DEF Generating
<1>9. /\ flags \in Flags /\ arrived \subseteq Threads /\ tables \in {"absent", "plain", "referenced"}
      /\ errCh \in BOOLEAN /\ command = "loading" /\ ctx = "live" /\ faults = 0
  BY <1>1, Zenon
<1> QED
  BY <1>1, <1>3, <1>4, <1>6, <1>7, <1>8, <1>9 DEF TypeOK

LEMMA GotoLoopTyped ==
    ASSUME TypeOK, NEW t \in Threads, NEW step \in {"warehouses", "districts"}, GotoLoop(t, step)
    PROVE  /\ pc' \in [Threads -> Steps] /\ i' \in [Threads -> Nat]
           /\ k' \in [Threads -> 1 .. Len(DistrictTables)]
           /\ pc' = [pc EXCEPT ![t] = step] /\ i'[t] = t % flags.threads /\ k'[t] = 1
           /\ \A u \in Threads : u # t => pc'[u] = pc[u] /\ i'[u] = i[u] /\ k'[u] = k[u]
<1>1. t \in Nat /\ flags.threads \in Nat \ {0}
  BY FlagsTyped DEF TypeOK, Threads
<1>2. t % flags.threads \in Nat
  BY <1>1, ModTyped
<1>3. Len(DistrictTables) = 5
  BY Lengths
<1> QED
  BY <1>2, <1>3 DEF TypeOK, GotoLoop, Goto, Steps, Loading

LEMMA BeginChecksTyped ==
    ASSUME TypeOK, BeginChecks
    PROVE  /\ pc' \in [Threads -> Steps] /\ i' \in [Threads -> Nat] /\ k' = k
           /\ \/ command' = "ok" /\ IsTpcc /\ (flags.noCheck \/ ToFiles) /\ UNCHANGED thread
              \/ /\ command' = "checking" /\ ~(IsTpcc /\ (flags.noCheck \/ ToFiles))
                 /\ \A t \in Threads : pc'[t] = "initCheck" /\ i'[t] = t % flags.threads
<1>1. \A t \in Threads : t % flags.threads \in Nat
  <2> SUFFICES ASSUME NEW t \in Threads PROVE t % flags.threads \in Nat
    OBVIOUS
  <2>1. t \in Nat /\ flags.threads \in Nat \ {0}
    BY FlagsTyped DEF TypeOK, Threads
  <2> QED
    BY <2>1, DivMod
<1> QED
  BY <1>1 DEF TypeOK, BeginChecks, thread, Steps

(* What an action leaves or changes of the variables with simple types. *)
LEMMA RefusedTyped ==
    ASSUME TypeOK, NEW blamed, Refused(blamed)
    PROVE  faults' \in Nat /\ faults' <= MaxFaults /\ faults' >= faults
  BY FlagsTyped DEF TypeOK, Refused

LEMMA AdvanceTyped ==
    ASSUME TypeOK, NEW t \in Threads, InLoop(t), Advance(t)
    PROVE  /\ pc' \in [Threads -> Steps] /\ i' \in [Threads -> Nat]
           /\ k' \in [Threads -> 1 .. Len(DistrictTables)]
           /\ pc'[t] \in Loading /\ (pc'[t] = "warehouses" => k'[t] <= Len(WarehouseTables))
           /\ \A u \in Threads : u # t => pc'[u] = pc[u] /\ i'[u] = i[u] /\ k'[u] = k[u]
<1>0. flags.threads \in Nat \ {0} /\ t \in Nat
  BY FlagsTyped DEF TypeOK, Threads
<1>1. CASE pc[t] = "item"
  <2>1. GotoLoop(t, "warehouses")
    BY <1>1 DEF Advance
  <2> QED
    BY <2>1, GotoLoopTyped, Lengths DEF Loading, TypeOK
<1>2. CASE pc[t] \in {"warehouses", "districts"}
  <2>1. /\ \/ k[t] < Len(TablesOf(pc[t])) /\ k' = [k EXCEPT ![t] = k[t] + 1] /\ i' = i
           \/ k' = [k EXCEPT ![t] = 1] /\ i' = [i EXCEPT ![t] = i[t] + flags.threads]
        /\ pc' = pc
    BY <1>2 DEF Advance, NextOfShare
  <2>2. Len(TablesOf(pc[t])) = IF pc[t] = "warehouses" THEN 3 ELSE 5
    BY Lengths DEF TablesOf
  <2>3. Len(WarehouseTables) = 3 /\ Len(DistrictTables) = 5
    BY Lengths
  <2>4. pc' \in [Threads -> Steps] /\ pc'[t] = pc[t] /\ pc[t] \in Loading
    BY <1>2, <2>1 DEF TypeOK, Loading
  <2>5. /\ i \in [Threads -> Nat] /\ k \in [Threads -> 1 .. 5] /\ i[t] + flags.threads \in Nat
        /\ pc[t] = "warehouses" => k[t] <= 3
    BY <1>0, <2>3 DEF TypeOK
  <2>6. CASE /\ k[t] < Len(TablesOf(pc[t])) /\ k' = [k EXCEPT ![t] = k[t] + 1] /\ i' = i
    <3>1. k[t] + 1 \in 1 .. 5 /\ (pc[t] = "warehouses" => k[t] + 1 <= 3)
      BY <2>2, <2>5, <2>6
    <3> QED
      BY <2>1, <2>3, <2>4, <2>5, <2>6, <3>1
  <2>7. CASE k' = [k EXCEPT ![t] = 1] /\ i' = [i EXCEPT ![t] = i[t] + flags.threads]
    BY <2>1, <2>3, <2>4, <2>5, <2>7
  <2> QED
    BY <2>1, <2>6, <2>7
<1> QED
  BY <1>1, <1>2 DEF InLoop

LEMMA FlagsStay ==
    ASSUME [PreparesNext]_vars  PROVE flags' = flags
  BY DEF PreparesNext, Next, Goroutine, Generator, Main, vars, InitThread, DropTable, CreateTables,
         Wait, Load, LoopEnds, Cleanup, InitCheck, Check, Crash, PostPrepare, Analyze, Return,
         Deadline, Signal, ForceExit, Terminated, Unaffected, CreateTpchTables, Generate, Flush,
         Finish, CheckNothing

(* Refused, Crash and the steps after the loads are left to the definitions. *)
LEMMA TypeKept ==
    ASSUME TypeOK, [PreparesNext]_vars  PROVE TypeOK'
<1> USE DEF thread, data
<1> DEFINE Statuses == {"none", "part", "written", "all", "twice"}
<1>0. /\ flags.threads \in Nat \ {0} /\ 0 \in Threads /\ MaxFaults \in Nat
      /\ Len(WarehouseTables) = 3 /\ Len(DistrictTables) = 5
  BY FlagsTyped, Lengths DEF TypeOK
<1> DEFINE FileStatuses == {"none", "part", "written", "all", "twice", "stale"}
<1>t. /\ pc \in [Threads -> Steps] /\ i \in [Threads -> Nat]
      /\ files \in [Threads -> [Loads -> FileStatuses]] /\ checked \in [Warehouses -> Nat]
  BY DEF TypeOK
<1>1. flags' = flags
  BY FlagsStay
<1>2. /\ Threads' = Threads /\ Warehouses' = Warehouses /\ Loads' = Loads
      /\ (IsTpcc' <=> IsTpcc) /\ Units' = Units
  BY <1>1, FlagsFixed
<1>3. ASSUME NEW t \in Threads, InitThread(t)  PROVE TypeOK'
  <2>1. CASE Refused(FALSE) /\ Crash
    BY <1>1, <1>2, <2>1, RefusedTyped DEF Crash, TypeOK
  <2>2. CASE /\ Goto(t, IF flags.dropData THEN "drop" ELSE "create")
             /\ CreateFiles(t)
             /\ UNCHANGED <<i, k, arrived, tables, rows, checked, errCh, command, ctx, faults>>
    <3>1. files' \in [Threads -> [Loads -> {"none", "part", "written", "all", "twice", "stale"}]]
      BY <2>2 DEF CreateFiles, TypeOK
    <3>2. pc' \in [Threads -> Steps] /\ \A u \in Threads : pc'[u] = pc[u] \/ pc'[u] \in {"drop", "create"}
      BY <2>2 DEF TypeOK, Goto, Steps
    <3> QED
      BY <1>1, <1>2, <2>2, <3>1, <3>2 DEF TypeOK, Generating
  <2> QED
    BY <1>3, <2>1, <2>2 DEF InitThread
<1>4. ASSUME NEW t \in Threads, DropTable(t)  PROVE TypeOK'
  <2>1. rows' \in [Loads -> Statuses] /\ files' = files /\ tables' \in {tables, "absent"}
    BY <1>4 DEF DropTable, TypeOK
  <2>2. pc' \in [Threads -> Steps] /\ \A u \in Threads : pc'[u] = pc[u] \/ pc'[u] \in {"create", "failed"}
    BY <1>4 DEF DropTable, TypeOK, Goto, Steps
  <2>3. faults' \in Nat /\ faults' <= MaxFaults
    BY <1>4, RefusedTyped DEF DropTable, TypeOK
  <2> QED
    BY <1>1, <1>2, <1>4, <2>1, <2>2, <2>3 DEF DropTable, TypeOK, Generating
<1>5. ASSUME NEW t \in Threads, BeginLoads(t)
      PROVE  /\ pc' \in [Threads -> Steps] /\ i' \in [Threads -> Nat] /\ k' \in [Threads -> 1 .. 5]
             /\ pc'[t] \in Loading /\ (pc'[t] = "warehouses" => k'[t] <= 3)
             /\ \A u \in Threads : u # t => pc'[u] = pc[u] /\ i'[u] = i[u] /\ k'[u] = k[u]
  <2>1. CASE t = 0
    BY <1>0, <1>5, <2>1 DEF BeginLoads, Goto, TypeOK, Steps, Loading
  <2>2. CASE t # 0
    BY <1>0, <1>5, <2>2, GotoLoopTyped DEF BeginLoads, Loading
  <2> QED
    BY <2>1, <2>2
<1>6. ASSUME pc' \in [Threads -> Steps], i' \in [Threads -> Nat], k' \in [Threads -> 1 .. 5], NEW t \in Threads,
             pc'[t] \in Loading /\ (pc'[t] = "warehouses" => k'[t] <= 3),
             \A u \in Threads : u # t => pc'[u] = pc[u] /\ i'[u] = i[u] /\ k'[u] = k[u]
      PROVE  /\ \A u \in Threads : pc'[u] = "warehouses" => k'[u] <= 3
             /\ \A u \in Threads : pc'[u] \in Generating => ~IsTpcc /\ u = 0 /\ i'[u] \in 1 .. Len(Units)
  BY <1>0, <1>6 DEF TypeOK, Loading, Generating
<1>7. ASSUME NEW t \in Threads, CreateTables(t)  PROVE TypeOK'
  <2>1. /\ tables' \in {"absent", "plain", "referenced"} /\ arrived' \subseteq Threads
        /\ faults' \in Nat /\ faults' <= MaxFaults
    BY <1>7, RefusedTyped DEF CreateTables, TypeOK
  <2>2. CASE BeginLoads(t)
    BY <1>0, <1>1, <1>2, <1>5, <1>6, <1>7, <2>1, <2>2 DEF CreateTables, TypeOK
  <2>3. CASE UNCHANGED <<i, k>> /\ (Goto(t, "barrier") \/ Goto(t, "failed"))
    <3>1. pc' \in [Threads -> Steps] /\ \A u \in Threads : pc'[u] = pc[u] \/ pc'[u] \in {"barrier", "failed"}
      BY <2>3 DEF TypeOK, Goto, Steps
    <3> QED
      BY <1>1, <1>2, <1>7, <2>1, <2>3, <3>1 DEF CreateTables, TypeOK, Generating
  <2> QED
    BY <1>7, <2>2, <2>3 DEF CreateTables
<1>8. ASSUME NEW t \in Threads, Wait(t)  PROVE TypeOK'
  BY <1>0, <1>1, <1>2, <1>5, <1>6, <1>8 DEF Wait, TypeOK
<1>9. ASSUME NEW t \in Threads, Load(t)  PROVE TypeOK'
  <2>1. CASE LoadTable(t)
    <3>1. rows' \in [Loads -> Statuses] /\ files' = files
      BY <2>1 DEF LoadTable, TypeOK, Loaded, Begun
    <3>2. faults' \in Nat /\ faults' <= MaxFaults
      BY <2>1, RefusedTyped DEF LoadTable, TypeOK
    <3>3. CASE Advance(t)
      <4>1. InLoop(t) /\ UNCHANGED <<arrived, tables, checked, errCh, command, ctx>>
        BY <1>9 DEF Load
      <4>2. /\ pc' \in [Threads -> Steps] /\ i' \in [Threads -> Nat] /\ k' \in [Threads -> 1 .. 5]
            /\ pc'[t] \in Loading /\ (pc'[t] = "warehouses" => k'[t] <= 3)
            /\ \A u \in Threads : u # t => pc'[u] = pc[u] /\ i'[u] = i[u] /\ k'[u] = k[u]
        BY <1>0, <3>3, <4>1, AdvanceTyped
      <4>3. /\ \A u \in Threads : pc'[u] = "warehouses" => k'[u] <= 3
            /\ \A u \in Threads : pc'[u] \in Generating => ~IsTpcc /\ u = 0 /\ i'[u] \in 1 .. Len(Units)
        BY <1>6, <4>2
      <4> QED
        BY <1>0, <1>1, <1>2, <3>1, <3>2, <4>1, <4>2, <4>3 DEF TypeOK
    <3>4. CASE Goto(t, "failed") /\ UNCHANGED <<i, k>>
      <4>1. pc' \in [Threads -> Steps] /\ \A u \in Threads : pc'[u] = pc[u] \/ pc'[u] = "failed"
        BY <3>4 DEF TypeOK, Goto, Steps
      <4> QED
        BY <1>1, <1>2, <1>9, <3>1, <3>2, <3>4, <4>1 DEF Load, TypeOK, Generating
    <3> QED
      BY <2>1, <3>3, <3>4 DEF LoadTable
  <2>2. CASE LoadFile(t)
    <3>1. rows' = rows /\ files' \in [Threads -> [Loads -> {"none", "part", "written", "all", "twice", "stale"}]]
      <4> DEFINE All == {"none", "part", "written", "all", "twice", "stale"}
                 load == Current(t)
      <4>1. files[t] \in [Loads -> All]
        BY DEF TypeOK
      <4>2. [files[t] EXCEPT ![load] = Loaded(@)] \in [Loads -> All]
        BY <4>1 DEF Loaded
      <4>3. [files[t] EXCEPT ![load] = Begun(@)] \in [Loads -> All]
        BY <4>1 DEF Begun
      <4>4. \/ files' = files \/ files' = [files EXCEPT ![t][load] = Loaded(@)]
            \/ files' = [files EXCEPT ![t][load] = Begun(@)]
        BY <2>2 DEF LoadFile
      <4>5. \A f \in [Loads -> All] : [files EXCEPT ![t] = f] \in [Threads -> [Loads -> All]]
        BY DEF TypeOK
      <4>6. rows' = rows
        BY <2>2 DEF LoadFile
      <4> QED
        BY <4>2, <4>3, <4>4, <4>5, <4>6 DEF TypeOK
    <3>2. faults' \in Nat /\ faults' <= MaxFaults
      BY <2>2, RefusedTyped DEF LoadFile, TypeOK
    <3>3. CASE Advance(t)
      <4>1. InLoop(t) /\ UNCHANGED <<arrived, tables, checked, errCh, command, ctx>>
        BY <1>9 DEF Load
      <4>2. /\ pc' \in [Threads -> Steps] /\ i' \in [Threads -> Nat] /\ k' \in [Threads -> 1 .. 5]
            /\ pc'[t] \in Loading /\ (pc'[t] = "warehouses" => k'[t] <= 3)
            /\ \A u \in Threads : u # t => pc'[u] = pc[u] /\ i'[u] = i[u] /\ k'[u] = k[u]
        BY <1>0, <3>3, <4>1, AdvanceTyped
      <4>3. /\ \A u \in Threads : pc'[u] = "warehouses" => k'[u] <= 3
            /\ \A u \in Threads : pc'[u] \in Generating => ~IsTpcc /\ u = 0 /\ i'[u] \in 1 .. Len(Units)
        BY <1>6, <4>2
      <4> QED
        BY <1>0, <1>1, <1>2, <3>1, <3>2, <4>1, <4>2, <4>3 DEF TypeOK
    <3>4. CASE Goto(t, "failed") /\ UNCHANGED <<i, k>>
      <4>1. pc' \in [Threads -> Steps] /\ \A u \in Threads : pc'[u] = pc[u] \/ pc'[u] = "failed"
        BY <3>4 DEF TypeOK, Goto, Steps
      <4> QED
        BY <1>1, <1>2, <1>9, <3>1, <3>2, <3>4, <4>1 DEF Load, TypeOK, Generating
    <3> QED
      BY <2>2, <3>3, <3>4 DEF LoadFile
  <2> QED
    BY <1>9, <2>1, <2>2 DEF Load
<1>10. ASSUME NEW t \in Threads, LoopEnds(t)  PROVE TypeOK'
  <2>1. CASE pc[t] = "warehouses" /\ GotoLoop(t, "districts")
    <3>1. pc'[t] = "districts" /\ pc'[t] \in Loading
      BY <2>1, GotoLoopTyped DEF Loading
    <3> QED
      BY <1>0, <1>1, <1>2, <1>6, <1>10, <2>1, <3>1, GotoLoopTyped DEF LoopEnds, TypeOK
  <2>2. CASE Goto(t, "cleanup") /\ UNCHANGED <<i, k>>
    <3>1. pc' \in [Threads -> Steps] /\ \A u \in Threads : pc'[u] = pc[u] \/ pc'[u] = "cleanup"
      BY <2>2 DEF TypeOK, Goto, Steps
    <3> QED
      BY <1>1, <1>2, <1>10, <2>2, <3>1 DEF LoopEnds, TypeOK, Generating
  <2> QED
    BY <1>10, <2>1, <2>2 DEF LoopEnds
<1>11. ASSUME NEW t \in Threads, Cleanup(t)  PROVE TypeOK'
  <2>1. pc' \in [Threads -> Steps] /\ \A u \in Threads : pc'[u] = pc[u] \/ pc'[u] = "done"
    BY <1>11 DEF Cleanup, TypeOK, Goto, Steps
  <2> QED
    BY <1>1, <1>2, <1>11, <2>1 DEF Cleanup, TypeOK, Generating
<1>12. ASSUME NEW t \in Threads, InitCheck(t)  PROVE TypeOK'
  <2>1. CASE Goto(t, "check") /\ UNCHANGED <<i, k, arrived, data, checked, errCh, command, ctx, faults>>
    <3>1. pc' \in [Threads -> Steps] /\ \A u \in Threads : pc'[u] = pc[u] \/ pc'[u] = "check"
      BY <2>1 DEF TypeOK, Goto, Steps
    <3> QED
      BY <1>1, <1>2, <2>1, <3>1 DEF TypeOK, Generating
  <2>2. CASE Refused(ctx # "live") /\ Crash
    BY <1>1, <1>2, <2>2, RefusedTyped DEF TypeOK, Crash
  <2> QED
    BY <1>12, <2>1, <2>2 DEF InitCheck
<1>13. ASSUME NEW t \in Threads, Check(t)  PROVE TypeOK'
  <2>1. pc' \in [Threads -> Steps] /\ \A u \in Threads : pc'[u] = pc[u] \/ pc'[u] = "done"
    BY <1>13 DEF Check, TypeOK, Goto, Steps
  <2>2. faults' \in Nat /\ faults' <= MaxFaults
    BY <1>13, RefusedTyped DEF Check, TypeOK
  <2>3. i' \in [Threads -> Nat] /\ (i' = i \/ IsTpcc)
    BY <1>0, <1>13 DEF Check, TypeOK, NextOfShare
  <2>4. checked' \in [Warehouses -> Nat] /\ errCh' \in BOOLEAN
    <3>1. errCh' \in BOOLEAN
      BY <1>13 DEF Check, TypeOK
    <3>2. ASSUME NEW w  PROVE [checked EXCEPT ![w] = @ + 1] \in [Warehouses -> Nat]
      <4>1. CASE w \in Warehouses
        BY <1>t, <4>1
      <4>2. CASE w \notin Warehouses
        <5>1. [checked EXCEPT ![w] = @ + 1] = checked
          BY <1>t, <4>2
        <5> QED
          BY <1>t, <5>1
      <4> QED
        BY <4>1, <4>2
    <3>3. checked' = checked \/ checked' = [checked EXCEPT ![WarehouseAt(i[t])] = @ + 1]
      BY <1>13 DEF Check
    <3> QED
      BY <1>t, <3>1, <3>2, <3>3
  <2> QED
    BY <1>1, <1>2, <1>13, <2>1, <2>2, <2>3, <2>4 DEF Check, TypeOK, Generating
<1>14. ASSUME BeginChecks, UNCHANGED <<arrived, data, checked, errCh, ctx>>,
              faults' \in Nat /\ faults' <= MaxFaults
       PROVE  TypeOK'
  <2>1. /\ pc' \in [Threads -> Steps] /\ i' \in [Threads -> Nat] /\ k' = k
        /\ command' \in {"ok", "checking"}
        /\ UNCHANGED thread \/ \A t \in Threads : pc'[t] = "initCheck"
    BY <1>14, BeginChecksTyped
  <2> QED
    BY <1>1, <1>2, <1>14, <2>1 DEF TypeOK, Generating
<1>15. ASSUME PostPrepare  PROVE TypeOK'
  <2>1. CASE BeginChecks
    BY <1>14, <1>15, <2>1 DEF PostPrepare, TypeOK
  <2>2. CASE command' \in {"failed", "analyzing"} /\ UNCHANGED thread
    BY <1>1, <1>2, <1>15, <2>2 DEF PostPrepare, TypeOK
  <2> QED
    BY <1>15, <2>1, <2>2 DEF PostPrepare
<1>16. ASSUME Analyze  PROVE TypeOK'
  <2>1. faults' \in Nat /\ faults' <= MaxFaults
    BY <1>16, RefusedTyped DEF Analyze, TypeOK
  <2>2. CASE BeginChecks
    BY <1>14, <1>16, <2>1, <2>2 DEF Analyze
  <2>3. CASE command' = "failed" /\ UNCHANGED thread
    BY <1>1, <1>2, <1>16, <2>1, <2>3 DEF Analyze, TypeOK
  <2> QED
    BY <1>16, <2>2, <2>3 DEF Analyze
<1>17. ASSUME NEW c \in {"ok", "failed", "killed", command}, command' = c,
              ctx' \in {"live", "deadline", "signal"},
              UNCHANGED <<thread, arrived, data, checked, errCh, faults>>
       PROVE  TypeOK'
  BY <1>1, <1>2, <1>17 DEF TypeOK
<1>18. ASSUME Return  PROVE TypeOK'
  BY <1>17, <1>18 DEF Return, TypeOK
<1>19. ASSUME Deadline \/ Signal \/ ForceExit  PROVE TypeOK'
  BY <1>17, <1>19 DEF Deadline, Signal, ForceExit, Unaffected, TypeOK
<1>20. ASSUME UNCHANGED vars  PROVE TypeOK'
  BY <1>17, <1>20 DEF vars, TypeOK
<1>21. ASSUME NEW t \in Threads, NEW f, f \in [Loads -> Statuses] \/ (ToFiles /\ f \in [Loads -> Statuses \cup {"stale"}]),
              StoredBecomes(f)
       PROVE  /\ rows' \in [Loads -> Statuses]
              /\ files' \in [Threads -> [Loads -> {"none", "part", "written", "all", "twice", "stale"}]]
  <2>1. CASE ToFiles
    <3>1. f \in [Loads -> Statuses \cup {"stale"}]
      BY <1>21
    <3>2. files' = [files EXCEPT ![0] = f] /\ rows' = rows
      BY <1>21, <2>1 DEF StoredBecomes
    <3> QED
      BY <1>0, <3>1, <3>2 DEF TypeOK
  <2>2. CASE ~ToFiles
    BY <1>21, <2>2 DEF StoredBecomes, TypeOK
  <2> QED
    BY <2>1, <2>2
<1>22. ASSUME NEW load \in Loads
       PROVE  Stored(load) \in Statuses \/ (ToFiles /\ Stored(load) \in Statuses \cup {"stale"})
  BY <1>0, <1>22 DEF Stored, TypeOK
<1>23. ASSUME NEW t \in Threads, CreateTpchTables(t)  PROVE TypeOK'
  <2>c. CASE Refused(FALSE) /\ Crash
    BY <1>1, <1>2, <2>c, RefusedTyped DEF Crash, TypeOK
  <2>n. SUFFICES ASSUME ~(Refused(FALSE) /\ Crash)  PROVE TypeOK'
    BY <2>c
  <2>s. /\ UNCHANGED <<flags, k, arrived, checked, errCh, command, ctx>> /\ ~IsTpcc
        /\ \/ t # 0 /\ Goto(t, "cleanup") /\ UNCHANGED <<i, data, faults>>
           \/ /\ t = 0
              /\ Goto(t, "generate")
              /\ i' = [i EXCEPT ![t] = 1]
              /\ tables' = "plain"
              /\ files' = IF ToFiles THEN [files EXCEPT ![0] = [load \in Loads |-> "none"]] ELSE files
              /\ UNCHANGED <<rows, faults>>
           \/ t = 0 /\ Refused(FALSE) /\ Goto(t, "failed") /\ UNCHANGED <<i, data>>
    BY <1>23, <2>n DEF CreateTpchTables
  <2>1. files' \in [Threads -> [Loads -> {"none", "part", "written", "all", "twice", "stale"}]] /\ rows' = rows
    <3>1. [load \in Loads |-> "none"] \in [Loads -> {"none", "part", "written", "all", "twice", "stale"}]
      OBVIOUS
    <3>2. rows' = rows /\ (files' = files \/ files' = [files EXCEPT ![0] = [load \in Loads |-> "none"]])
      BY <2>s
    <3> DEFINE none == [load \in Loads |-> "none"]
    <3> HIDE DEF none
    <3>3. none \in [Loads -> FileStatuses] /\ rows' = rows /\ (files' = files \/ files' = [files EXCEPT ![0] = none])
      BY <3>1, <3>2 DEF none
    <3> QED
      BY <1>0, <1>t, <3>3
  <2>2. faults' \in Nat /\ faults' <= MaxFaults /\ tables' \in {tables, "plain"}
    BY <2>s, RefusedTyped DEF TypeOK
  <2>3. /\ pc' \in [Threads -> Steps] /\ i' \in [Threads -> Nat]
        /\ \A u \in Threads : \/ pc'[u] = pc[u] /\ i'[u] = i[u]
                              \/ pc'[u] \in {"cleanup", "failed"}
                              \/ u = 0 /\ i'[u] = 1 /\ pc'[u] = "generate"
    <3>1. CASE (Goto(t, "cleanup") \/ Goto(t, "failed")) /\ i' = i
      BY <1>t, <3>1 DEF Goto, Steps
    <3>2. CASE t = 0 /\ Goto(t, "generate") /\ i' = [i EXCEPT ![t] = 1]
      BY <1>t, <3>2 DEF Goto, Steps, Generating
    <3> QED
      BY <2>s, <3>1, <3>2
  <2>4. \A u \in Threads : pc'[u] \in Generating => ~IsTpcc /\ u = 0 /\ i'[u] \in 1 .. Len(Units)
    <3>1. ~IsTpcc /\ 1 \in 1 .. Len(Units)
      BY <2>s, UnitsTyped
    <3> QED
      BY <2>3, <3>1 DEF TypeOK, Generating
  <2>5. \A u \in Threads : pc'[u] = "warehouses" => pc[u] = "warehouses"
    BY <2>3
  <2> QED
    BY <1>1, <1>2, <2>s, <2>1, <2>2, <2>3, <2>4, <2>5 DEF TypeOK
<1>24. ASSUME NEW t \in Threads, Generate(t)  PROVE TypeOK'
  <2>1. /\ rows' \in [Loads -> Statuses]
        /\ files' \in [Threads -> [Loads -> {"none", "part", "written", "all", "twice", "stale"}]]
    <3> DEFINE unit == TablesOfUnit(Units[i[t]])
               AfterLoop(lost) == [load \in Loads |->
                   IF load[1] \notin unit \/ KeysTaken(load[1]) THEN Stored(load)
                   ELSE IF load[1] \in lost THEN "part" ELSE "written"]
    <3>1. \E lost : StoredBecomes(AfterLoop(lost))
      <4>1. \/ StoredBecomes(AfterLoop({})) \/ StoredBecomes(AfterLoop(unit))
            \/ \E table : StoredBecomes(AfterLoop({table}))
        BY <1>24, Zenon DEF Generate
      <4> HIDE DEF AfterLoop
      <4> QED
        BY <4>1
    <3>2. PICK lost : StoredBecomes(AfterLoop(lost))
      BY <3>1
    <3>3. \/ AfterLoop(lost) \in [Loads -> Statuses]
          \/ ToFiles /\ AfterLoop(lost) \in [Loads -> Statuses \cup {"stale"}]
      <4>1. CASE ToFiles
        BY <1>22, <4>1
      <4>2. CASE ~ToFiles
        BY <1>22, <4>2
      <4> QED
        BY <4>1, <4>2
    <3> HIDE DEF AfterLoop
    <3> QED
      BY <1>21, <3>2, <3>3
  <2>2. faults' \in Nat /\ faults' <= MaxFaults
    BY <1>24, RefusedTyped DEF Generate, TypeOK
  <2>3. pc' \in [Threads -> Steps] /\ \A u \in Threads : pc'[u] = pc[u] \/ pc'[u] = "failed" \/ (u = t /\ pc'[u] = "flush")
    BY <1>24 DEF Generate, TypeOK, Goto, Steps, Generating
  <2>4. pc[t] \in Generating
    BY <1>24 DEF Generate, At, Generating
  <2> QED
    BY <1>1, <1>2, <1>24, <2>1, <2>2, <2>3, <2>4 DEF Generate, TypeOK, Generating
<1>25. ASSUME NEW t \in Threads, Flush(t)  PROVE TypeOK'
  <2>1. /\ rows' \in [Loads -> Statuses]
        /\ files' \in [Threads -> [Loads -> {"none", "part", "written", "all", "twice", "stale"}]]
    <3> DEFINE unit == Units[i[t]]
               AfterFlush(flushed) == [load \in Loads |->
                   IF load[1] \notin TablesOfUnit(unit) \/ Stored(load) # "written" THEN Stored(load)
                   ELSE IF load[1] \in flushed THEN "all" ELSE "part"]
    <3>1. \E flushed : StoredBecomes(AfterFlush(flushed))
      BY <1>25 DEF Flush
    <3>2. PICK flushed : StoredBecomes(AfterFlush(flushed))
      BY <3>1
    <3>3. \/ AfterFlush(flushed) \in [Loads -> Statuses]
          \/ ToFiles /\ AfterFlush(flushed) \in [Loads -> Statuses \cup {"stale"}]
      <4>1. CASE ToFiles
        BY <1>22, <4>1
      <4>2. CASE ~ToFiles
        BY <1>22, <4>2
      <4> QED
        BY <4>1, <4>2
    <3> HIDE DEF AfterFlush
    <3> QED
      BY <1>21, <3>2, <3>3
  <2>2. faults' \in Nat /\ faults' <= MaxFaults
    BY <1>25, RefusedTyped DEF Flush, TypeOK
  <2>4. pc[t] \in Generating /\ pc[t] = "flush"
    BY <1>25 DEF Flush, At, Generating
  <2>5. Len(Units) \in Nat /\ NextUnit(t)
    BY <1>25, UnitsTyped DEF Flush
  <2>6. /\ pc' \in [Threads -> Steps] /\ i' \in [Threads -> Nat]
        /\ \A u \in Threads : u # t => pc'[u] = pc[u] /\ i'[u] = i[u]
        /\ i'[t] \in 1 .. Len(Units)
    <3>1. i[t] \in 1 .. Len(Units) /\ i[t] \in Nat
      BY <2>4 DEF TypeOK
    <3>2. CASE i[t] < Len(Units) /\ Goto(t, "generate") /\ i' = [i EXCEPT ![t] = i[t] + 1]
      BY <2>5, <3>1, <3>2 DEF TypeOK, Goto, Steps, Generating
    <3>3. CASE Goto(t, "finish") /\ i' = i
      BY <3>1, <3>3 DEF TypeOK, Goto, Steps, Generating
    <3> QED
      BY <2>5, <3>2, <3>3 DEF NextUnit
  <2>7. pc'[t] \in {"generate", "finish"}
    BY <2>4, <2>5 DEF NextUnit, TypeOK, Goto
  <2> QED
    BY <1>1, <1>2, <1>25, <2>1, <2>2, <2>4, <2>6, <2>7 DEF Flush, TypeOK, Generating
<1>26. ASSUME NEW t \in Threads, Finish(t) \/ CheckNothing(t)  PROVE TypeOK'
  <2>1. pc' \in [Threads -> Steps] /\ \A u \in Threads : pc'[u] = pc[u] \/ pc'[u] \in {"cleanup", "failed", "done"}
    BY <1>26 DEF Finish, CheckNothing, TypeOK, Goto, Steps
  <2>2. faults' \in Nat /\ faults' <= MaxFaults
    BY <1>26, RefusedTyped DEF Finish, CheckNothing, TypeOK
  <2> QED
    BY <1>1, <1>2, <1>26, <2>1, <2>2 DEF Finish, CheckNothing, TypeOK, Generating
<1> QED
  BY <1>3, <1>4, <1>7, <1>8, <1>9, <1>10, <1>11, <1>12, <1>13, <1>15, <1>16, <1>18, <1>19, <1>20,
     <1>23, <1>24, <1>25, <1>26
     DEF PreparesNext, Next, Goroutine, Generator, Main, Terminated

------------------------------------------------------------------------------
(* What the step of a thread leaves alone. *)

LEMMA OthersStay ==
    ASSUME TypeOK, NEW t \in Threads, Goroutine(t) \/ Generator(t)
    PROVE  /\ Alive /\ pc[t] # "done"
           /\ flags' = flags /\ ctx' = ctx /\ (errCh => errCh')
           /\ command' \in {command, "crashed"}
           /\ command' = "crashed" => UNCHANGED thread
           /\ faults' \in Nat /\ faults' >= faults
           /\ \A u \in Threads : u # t => pc'[u] = pc[u] /\ i'[u] = i[u] /\ k'[u] = k[u]
<1> USE DEF thread, data
<1>1. pc \in [Threads -> Steps] /\ i \in [Threads -> Nat] /\ faults \in Nat /\ errCh \in BOOLEAN
      /\ k \in [Threads -> 1 .. Len(DistrictTables)]
  BY DEF TypeOK
<1>2. Alive => command # "crashed"
  BY DEF Alive
<1>4. CASE InitThread(t)
  BY <1>1, <1>2, <1>4 DEF InitThread, Refused, Goto, Crash, At
<1>5. CASE DropTable(t)
  BY <1>1, <1>2, <1>5 DEF DropTable, Refused, Goto, At
<1>6. CASE CreateTables(t) \/ Wait(t)
  BY <1>1, <1>2, <1>6 DEF CreateTables, Refused, Wait, Goto, BeginLoads, GotoLoop, At
<1>7. CASE Load(t)
  <2>0. Alive /\ pc[t] # "done"
    BY <1>7 DEF Load, InLoop
  <2>1. /\ flags' = flags /\ ctx' = ctx /\ errCh' = errCh /\ command' = command
        /\ faults' \in Nat /\ faults' >= faults
    BY <1>1, <1>7 DEF Load, LoadTable, LoadFile, Refused
  <2>2. Advance(t) \/ (Goto(t, "failed") /\ UNCHANGED <<i, k>>)
    BY <1>7 DEF Load, LoadTable, LoadFile
  <2>3. command # "crashed" /\ InLoop(t)
    BY <1>2, <1>7 DEF Load, InLoop
  <2>4. \A u \in Threads : u # t => pc'[u] = pc[u] /\ i'[u] = i[u] /\ k'[u] = k[u]
    BY <1>1, <2>2, <2>3, AdvanceTyped DEF Goto
  <2> QED
    BY <2>0, <2>1, <2>3, <2>4
<1>8. CASE LoopEnds(t) \/ Cleanup(t)
  BY <1>1, <1>2, <1>8 DEF LoopEnds, Cleanup, Goto, GotoLoop, At
<1>9. CASE InitCheck(t) \/ Check(t)
  BY <1>1, <1>2, <1>9 DEF InitCheck, Check, Refused, Goto, At, Crash
<1>10. CASE CreateTpchTables(t) \/ Finish(t) \/ CheckNothing(t)
  BY <1>1, <1>2, <1>10 DEF CreateTpchTables, Refused, Finish, CheckNothing, Goto, At, Crash
<1>11. CASE Generate(t)
  <2>1. faults' \in Nat /\ faults' >= faults
    <3>1. (\E b : Refused(b)) \/ UNCHANGED faults
      BY <1>11, Zenon DEF Generate
    <3> QED
      BY <1>1, <3>1, RefusedTyped
  <2>2. Alive /\ pc[t] = "generate" /\ UNCHANGED <<flags, i, k, errCh, command, ctx>>
    BY <1>11, Zenon DEF Generate, At
  <2>3. Goto(t, "flush") \/ Goto(t, "failed")
    BY <1>11, Zenon DEF Generate
  <2> QED
    BY <1>1, <1>2, <2>1, <2>2, <2>3 DEF Goto
<1>12. CASE Flush(t)
  BY <1>1, <1>2, <1>12 DEF Flush, Refused, NextUnit, Goto, At
<1> QED
  BY <1>4, <1>5, <1>6, <1>7, <1>8, <1>9, <1>10, <1>11, <1>12 DEF Goroutine, Generator

(* Where a loop begins, and where it goes. *)
LEMMA LoopBegins ==
    ASSUME TypeOK, NEW t \in Threads, NEW step \in {"warehouses", "districts"}, GotoLoop(t, step)
    PROVE  pc'[t] = step /\ i'[t] = t /\ k'[t] = 1 /\ t % flags.threads = t
<1>1. flags.threads \in Nat \ {0} /\ t \in Nat /\ t < flags.threads
  BY FlagsTyped DEF TypeOK, Threads
<1>2. t % flags.threads = t
  BY <1>1, ModSmall
<1> QED
  BY <1>2, GotoLoopTyped

LEMMA Advances ==
    ASSUME TypeOK, NEW t \in Threads, InLoop(t), Advance(t)
    PROVE  /\ pc[t] = "item" => pc'[t] = "warehouses" /\ i'[t] = t /\ k'[t] = 1 /\ t % flags.threads = t
           /\ pc[t] # "item" =>
                /\ pc'[t] = pc[t]
                /\ \/ k[t] < Len(TablesOf(pc[t])) /\ k'[t] = k[t] + 1 /\ i'[t] = i[t]
                   \/ k[t] = Len(TablesOf(pc[t])) /\ k'[t] = 1 /\ i'[t] = i[t] + flags.threads
           /\ i'[t] % flags.threads = IF pc[t] = "item" THEN t ELSE i[t] % flags.threads
<1>1. CASE pc[t] = "item"
  <2>1. GotoLoop(t, "warehouses")
    BY <1>1 DEF Advance
  <2> QED
    BY <1>1, <2>1, LoopBegins
<1>2. CASE pc[t] # "item"
  <2>1. /\ \/ k[t] < Len(TablesOf(pc[t])) /\ k' = [k EXCEPT ![t] = k[t] + 1] /\ i' = i
           \/ /\ ~(k[t] < Len(TablesOf(pc[t])))
              /\ k' = [k EXCEPT ![t] = 1] /\ i' = [i EXCEPT ![t] = i[t] + flags.threads]
        /\ pc' = pc
    BY <1>2 DEF Advance, NextOfShare
  <2>2. /\ Len(TablesOf(pc[t])) = IF pc[t] = "warehouses" THEN 3 ELSE 5
        /\ Len(WarehouseTables) = 3 /\ Len(DistrictTables) = 5
    BY Lengths DEF TablesOf
  <2>3. /\ i[t] \in Nat /\ k[t] \in 1 .. 5 /\ (pc[t] = "warehouses" => k[t] <= 3)
        /\ flags.threads \in Nat \ {0}
        /\ i \in [Threads -> Nat] /\ k \in [Threads -> 1 .. 5]
    BY <2>2, FlagsTyped DEF TypeOK
  <2>4. (i[t] + flags.threads) % flags.threads = i[t] % flags.threads
    BY <2>3, ModNext
  <2> QED
    BY <1>2, <2>1, <2>2, <2>3, <2>4
<1> QED
  BY <1>1, <1>2

------------------------------------------------------------------------------
(* Control. *)

LEMMA ControlOfStep ==
    ASSUME TypeOK, Control, NEW t \in Threads, Goroutine(t) \/ Generator(t),
           arrived' \in {arrived, arrived \cup {t}},
           command' = command => ControlOf(t)',
           command' # command => arrived' = arrived
    PROVE  Control'
<1>1. /\ flags' = flags /\ (errCh => errCh') /\ command' \in {command, "crashed"} /\ pc[t] # "done"
      /\ command' = "crashed" => UNCHANGED thread
      /\ \A u \in Threads : u # t => pc'[u] = pc[u] /\ i'[u] = i[u]
  BY OthersStay
<1>2. /\ Threads' = Threads /\ (IsTpcc' <=> IsTpcc) /\ (ToFiles' <=> ToFiles) /\ (HasBarrier' <=> HasBarrier)
  BY <1>1, FlagsFixed
<1>3. ASSUME NEW u \in Threads, u # t \/ command' # command  PROVE ControlOf(u)'
  <2>1. pc'[u] = pc[u] /\ i'[u] = i[u] /\ (u \in arrived' => u \in arrived)
    BY <1>1, <1>3 DEF thread
  <2>2. (arrived = Threads => arrived' = Threads) /\ (Well(u)' => Well(u))
    BY <1>1, <2>1 DEF Well
  <2>3. (command' = command \/ command' = "crashed") /\ ControlOf(u)
    BY <1>1 DEF Control
  <2> QED
    BY <1>1, <1>2, <2>1, <2>2, <2>3 DEF ControlOf
<1>4. \A u \in Threads : ControlOf(u)'
  BY <1>3
<1>5. command # "analyzing"
  BY <1>1 DEF Control, ControlOf
<1> QED
  BY <1>1, <1>2, <1>4, <1>5 DEF Control

LEMMA ControlKept ==
    ASSUME TypeOK, Control, [PreparesNext]_vars  PROVE Control'
<1> USE DEF thread, data
<1>0. /\ flags.threads \in Nat \ {0} /\ 0 \in Threads /\ errCh \in BOOLEAN
      /\ pc \in [Threads -> Steps] /\ i \in [Threads -> Nat] /\ arrived \subseteq Threads
      /\ IsTpcc /\ ~ToFiles => flags.connected
  BY FlagsTyped DEF TypeOK
<1>1. ASSUME NEW t \in Threads, flags' = flags
      PROVE  Threads' = Threads /\ (IsTpcc' <=> IsTpcc) /\ (ToFiles' <=> ToFiles) /\ (HasBarrier' <=> HasBarrier)
  BY <1>1, FlagsFixed
<1>2. ASSUME NEW t \in Threads, flags' = flags, UNCHANGED <<arrived, command>>,
             pc'[t] \notin Loading \cup {"init", "drop", "create", "barrier", "initCheck", "check"},
             /\ command # "checking" /\ command # "ok" /\ command # "analyzing"
             /\ pc'[t] = "done" /\ ~errCh' => pc[t] = "cleanup" \/ ~HasBarrier
             /\ pc'[t] = "cleanup" => pc[t] \in Loading \/ ~HasBarrier
      PROVE  ControlOf(t)'
  BY <1>1, <1>2 DEF ControlOf, Control, Well, Loading
<1>3. ASSUME NEW t \in Threads, Alive, pc[t] \notin {"initCheck", "check", "done"}
      PROVE  command = "loading"
  BY <1>3 DEF Alive, Control, ControlOf
<1>4. ASSUME NEW t \in Threads, InitThread(t)  PROVE Control'
  <2>1. arrived' = arrived /\ pc[t] = "init" /\ flags' = flags /\ Alive
    BY <1>4 DEF InitThread, Crash, At
  <2>2. command' = command => /\ pc'[t] = IF flags.dropData THEN "drop" ELSE "create"
    BY <1>0, <1>4, <2>1 DEF InitThread, Crash, Goto, Alive
  <2>3. command' = command => ControlOf(t)'
    BY <1>1, <1>3, <2>1, <2>2 DEF ControlOf, Control, Loading
  <2> QED
    BY <1>4, <2>1, <2>3, ControlOfStep DEF Goroutine
<1>5. ASSUME NEW t \in Threads, DropTable(t)  PROVE Control'
  <2>1. UNCHANGED <<flags, arrived, command>> /\ pc[t] = "drop" /\ Alive /\ pc'[t] \in {"create", "failed"}
    BY <1>0, <1>5 DEF DropTable, At, Goto
  <2>2. ControlOf(t)'
    BY <1>1, <1>3, <2>1 DEF ControlOf, Control, Loading, Well
  <2> QED
    BY <1>5, <2>1, <2>2, ControlOfStep DEF Goroutine
<1>6. ASSUME NEW t \in Threads, BeginLoads(t)
      PROVE  \/ t = 0 /\ pc'[t] = "item"
             \/ pc'[t] = "warehouses" /\ i'[t] % flags.threads = t
  <2>1. CASE t = 0
    BY <1>0, <1>6, <2>1 DEF BeginLoads, Goto
  <2>2. CASE t # 0
    BY <1>0, <1>6, <2>2, LoopBegins DEF BeginLoads
  <2> QED
    BY <2>1, <2>2
<1>7. ASSUME NEW t \in Threads, CreateTables(t)  PROVE Control'
  <2>1. UNCHANGED <<flags, command>> /\ pc[t] = "create" /\ Alive /\ IsTpcc
    BY <1>7 DEF CreateTables, At
  <2>2. CASE ~flags.connected /\ BeginLoads(t) /\ arrived' = arrived
    <3>1. ControlOf(t)'
      BY <1>1, <1>3, <1>6, <2>1, <2>2 DEF ControlOf, Control, Loading, HasBarrier
    <3> QED
      BY <1>7, <2>1, <2>2, <3>1, ControlOfStep DEF Goroutine
  <2>3. CASE flags.connected /\ Goto(t, "barrier") /\ arrived' = arrived \cup {t}
    <3>1. pc'[t] = "barrier"
      BY <1>0, <2>3 DEF Goto
    <3>2. ControlOf(t)'
      BY <1>1, <1>3, <2>1, <2>3, <3>1 DEF ControlOf, Control, Loading, HasBarrier
    <3> QED
      BY <1>7, <2>1, <2>3, <3>2, ControlOfStep DEF Goroutine
  <2>4. CASE Goto(t, "failed") /\ arrived' = arrived
    <3>1. pc'[t] = "failed"
      BY <1>0, <2>4 DEF Goto
    <3>2. ControlOf(t)'
      BY <1>1, <1>2, <1>3, <2>1, <2>4, <3>1 DEF Loading
    <3> QED
      BY <1>7, <2>1, <2>4, <3>2, ControlOfStep DEF Goroutine
  <2> QED
    BY <1>7, <2>2, <2>3, <2>4 DEF CreateTables
<1>8. ASSUME NEW t \in Threads, Wait(t)  PROVE Control'
  <2>1. UNCHANGED <<flags, command, arrived>> /\ pc[t] = "barrier" /\ Alive /\ arrived = Threads /\ BeginLoads(t)
    BY <1>8 DEF Wait, At
  <2>2. ControlOf(t)'
    BY <1>1, <1>3, <1>6, <2>1 DEF ControlOf, Control, Loading, HasBarrier
  <2> QED
    BY <1>8, <2>1, <2>2, ControlOfStep DEF Goroutine
<1>9. ASSUME NEW t \in Threads, Load(t)  PROVE Control'
  <2>1. UNCHANGED <<flags, command, arrived>> /\ Alive /\ InLoop(t) /\ pc[t] \in Loading
    BY <1>9 DEF Load, InLoop, Loading
  <2>2. Advance(t) \/ Goto(t, "failed")
    BY <1>9 DEF Load, LoadTable, LoadFile
  <2>3. CASE Advance(t)
    <3>1. /\ pc'[t] \in {"warehouses", "districts"} /\ i'[t] % flags.threads = t
      BY <2>1, <2>3, Advances DEF Control, ControlOf, Loading
    <3> QED
      <4>1. ControlOf(t)'
        BY <1>1, <1>3, <2>1, <3>1 DEF ControlOf, Control, Loading
      <4> QED
        BY <1>9, <2>1, <4>1, ControlOfStep DEF Goroutine
  <2>4. CASE Goto(t, "failed")
    <3>1. pc'[t] = "failed"
      BY <1>0, <2>4 DEF Goto
    <3>2. ControlOf(t)'
      BY <1>2, <1>3, <2>1, <2>4, <3>1 DEF Loading
    <3> QED
      BY <1>9, <2>1, <2>4, <3>2, ControlOfStep DEF Goroutine
  <2> QED
    BY <2>2, <2>3, <2>4
<1>10. ASSUME NEW t \in Threads, LoopEnds(t)  PROVE Control'
  <2>1. UNCHANGED <<flags, command, arrived>> /\ Alive /\ pc[t] \in Loading
    BY <1>10 DEF LoopEnds, Loading
  <2>2. CASE GotoLoop(t, "districts")
    <3>1. pc'[t] = "districts" /\ i'[t] % flags.threads = t
      BY <2>2, LoopBegins
    <3>2. ControlOf(t)'
      BY <1>1, <1>3, <2>1, <3>1 DEF ControlOf, Control, Loading
    <3> QED
      BY <1>10, <2>1, <3>2, ControlOfStep DEF Goroutine
  <2>3. CASE Goto(t, "cleanup")
    <3>1. pc'[t] = "cleanup"
      BY <1>0, <2>3 DEF Goto
    <3>2. ControlOf(t)'
      BY <1>2, <1>3, <2>1, <3>1 DEF Loading
    <3> QED
      BY <1>10, <2>1, <3>2, ControlOfStep DEF Goroutine
  <2> QED
    BY <1>10, <2>2, <2>3 DEF LoopEnds
<1>11. ASSUME NEW t \in Threads, Cleanup(t)  PROVE Control'
  <2>1. /\ UNCHANGED <<flags, command, arrived>> /\ Alive /\ pc[t] \in {"cleanup", "failed"} /\ pc'[t] = "done"
        /\ pc[t] = "failed" => errCh'
    BY <1>0, <1>11 DEF Cleanup, At, Goto
  <2>2. ControlOf(t)'
    BY <1>2, <1>3, <2>1 DEF Loading
  <2> QED
    BY <1>11, <2>1, <2>2, ControlOfStep DEF Goroutine
<1>12. ASSUME NEW t \in Threads, InitCheck(t)  PROVE Control'
  <2>1. UNCHANGED <<flags, arrived>> /\ pc[t] = "initCheck" /\ Alive
    BY <1>12 DEF InitCheck, Crash, At
  <2>2. command' = command => pc'[t] = "check" /\ i'[t] = i[t]
    BY <1>0, <1>12, <2>1 DEF InitCheck, Crash, Goto, Alive
  <2>3. command' = command => ControlOf(t)'
    BY <1>1, <2>1, <2>2 DEF ControlOf, Control, Loading
  <2> QED
    BY <1>12, <2>1, <2>3, ControlOfStep DEF Goroutine
<1>13. ASSUME NEW t \in Threads, Check(t)  PROVE Control'
  <2>1. UNCHANGED <<flags, arrived, command>> /\ pc[t] = "check" /\ Alive /\ IsTpcc
    BY <1>13 DEF Check, At
  <2>2. \/ pc'[t] = "check" /\ i'[t] = i[t] + flags.threads
        \/ pc'[t] = "done"
    BY <1>0, <1>13, <2>1 DEF Check, Goto, NextOfShare
  <2>3. (i[t] + flags.threads) % flags.threads = t
    BY <1>0, <2>1, ModNext DEF Control, ControlOf
  <2>4. command # "loading" /\ command # "analyzing"
    BY <2>1 DEF Control, ControlOf
  <2>5. ControlOf(t)'
    BY <1>1, <2>1, <2>2, <2>3, <2>4 DEF ControlOf, Control, Loading
  <2> QED
    BY <1>13, <2>1, <2>5, ControlOfStep DEF Goroutine
<1>14. ASSUME BeginChecks, AllDone, UNCHANGED <<flags, arrived, errCh>>  PROVE Control'
  <2>1. ASSUME NEW t \in Threads  PROVE (t % flags.threads) % flags.threads = t
    <3>1. t \in Nat /\ t < flags.threads
      BY <1>0 DEF Threads
    <3>2. t % flags.threads = t
      BY <1>0, <3>1, ModSmall
    <3> QED
      BY <3>2
  <2>2. \/ command' = "ok" /\ UNCHANGED thread
        \/ /\ command' = "checking" /\ ~(IsTpcc /\ ToFiles)
           /\ \A t \in Threads : pc'[t] = "initCheck" /\ i'[t] = t % flags.threads
    BY <1>14, BeginChecksTyped
  <2>3. Threads' = Threads /\ (IsTpcc' <=> IsTpcc) /\ (ToFiles' <=> ToFiles) /\ (HasBarrier' <=> HasBarrier)
    BY <1>14, FlagsFixed
  <2>4. CASE command' = "ok" /\ UNCHANGED thread
    BY <1>14, <2>3, <2>4 DEF Control, ControlOf, AllDone, Loading
  <2>5. CASE /\ command' = "checking" /\ ~(IsTpcc /\ ToFiles)
             /\ \A t \in Threads : pc'[t] = "initCheck" /\ i'[t] = t % flags.threads
    BY <1>14, <2>1, <2>3, <2>5 DEF Control, ControlOf, AllDone, Loading
  <2> QED
    BY <2>2, <2>4, <2>5
<1>15. ASSUME UNCHANGED <<flags, thread, arrived, errCh>>,
              command' \in {command, "failed", "killed"} \/ (command' = "ok" /\ AllDone)
              \/ (command' = "analyzing" /\ AllDone /\ ~errCh /\ IsTpcc /\ ~ToFiles)
       PROVE  Control'
  <2>1. Threads' = Threads /\ (IsTpcc' <=> IsTpcc) /\ (ToFiles' <=> ToFiles) /\ (HasBarrier' <=> HasBarrier)
    BY <1>15, FlagsFixed
  <2>2. (Well(0)' <=> Well(0)) /\ \A t : Well(t)' <=> Well(t)
    BY <1>15 DEF Well
  <2> QED
    BY <1>15, <2>1, <2>2 DEF Control, ControlOf, AllDone, Loading
<1>16. ASSUME PostPrepare  PROVE Control'
  BY <1>14, <1>15, <1>16 DEF PostPrepare
<1>17. ASSUME Analyze  PROVE Control'
  <2>1. AllDone
    BY <1>17 DEF Analyze, Control, ControlOf, AllDone
  <2> QED
    BY <1>14, <1>15, <1>17, <2>1 DEF Analyze
<1>18. ASSUME Return \/ Deadline \/ Signal \/ ForceExit \/ UNCHANGED vars  PROVE Control'
  <2>1. UNCHANGED <<flags, thread, arrived, errCh>>
    BY <1>18 DEF Return, Deadline, Signal, ForceExit, Unaffected, vars
  <2>2. command' \in {command, "failed", "killed"} \/ (command' = "ok" /\ AllDone)
    BY <1>18 DEF Return, Deadline, Signal, ForceExit, Unaffected, vars
  <2> QED
    BY <1>15, <2>1, <2>2
<1>19. ASSUME NEW t \in Threads, Generator(t)  PROVE Control'
  <2>c. CASE CreateTpchTables(t) /\ Crash
    <3>1. UNCHANGED arrived /\ Alive /\ command' # command
      BY <2>c DEF CreateTpchTables, Crash, At, Alive
    <3> QED
      BY <1>19, <3>1, ControlOfStep
  <2>n. SUFFICES ASSUME ~(CreateTpchTables(t) /\ Crash)  PROVE Control'
    BY <2>c
  <2>1. UNCHANGED <<flags, arrived, command>> /\ Alive
    BY <1>19, <2>n, Zenon DEF Generator, CreateTpchTables, Generate, Flush, Finish, CheckNothing, At
  <2>2. ~IsTpcc /\ pc[t] # "done"
    BY <1>19 DEF Generator, CreateTpchTables, Generate, Flush, Finish, CheckNothing, At, TypeOK, Generating
  <2>3. \E step \in Generating \cup {"cleanup", "failed", "done"} :
           Goto(t, step) /\ (step = "done" => pc[t] = "check") /\ (step # "done" => pc[t] # "check")
    <3>1. \/ \E step \in Generating \cup {"cleanup", "failed"} : Goto(t, step) /\ pc[t] # "check"
          \/ Goto(t, "done") /\ pc[t] = "check"
      BY <1>19, <2>n DEF Generator, CreateTpchTables, Generate, Flush, NextUnit, Finish, CheckNothing, At, Generating
    <3> QED
      BY <3>1 DEF Generating
  <2>4. PICK step \in Generating \cup {"cleanup", "failed", "done"} :
           Goto(t, step) /\ (step = "done" => pc[t] = "check") /\ (step # "done" => pc[t] # "check")
    BY <2>3
  <2>5. pc'[t] = step
    BY <1>0, <2>4 DEF Goto
  <2>6. pc[t] # "initCheck"
    BY <1>19 DEF Generator, CreateTpchTables, Generate, Flush, Finish, CheckNothing, At
  <2>7. ~HasBarrier
    BY <2>2 DEF HasBarrier
  <2>8. ControlOf(t)'
    <3>1. CASE step = "done"
      BY <1>1, <2>1, <2>2, <2>4, <2>5, <2>7, <3>1 DEF ControlOf, Control, Loading
    <3>2. CASE step # "done"
      <4>1. command = "loading"
        BY <1>3, <2>1, <2>2, <2>4, <2>6, <3>2
      <4> QED
        BY <1>1, <2>1, <2>2, <2>4, <2>5, <2>7, <3>2, <4>1 DEF ControlOf, Control, Loading, Generating
    <3> QED
      BY <3>1, <3>2
  <2> QED
    BY <1>19, <2>1, <2>8, ControlOfStep
<1> QED
  BY <1>4, <1>5, <1>7, <1>8, <1>9, <1>10, <1>11, <1>12, <1>13, <1>16, <1>17, <1>18, <1>19
     DEF PreparesNext, Next, Goroutine, Main, Terminated

------------------------------------------------------------------------------
(* The tables. *)

(* Steps that do not come before the loads, and do not lead back to them. *)
LEMMA Onward ==
    ASSUME TypeOK, [PreparesNext]_vars,
           ~\E t \in Threads : InitThread(t) \/ DropTable(t) \/ CreateTables(t) \/ CreateTpchTables(t)
    PROVE  /\ UNCHANGED <<flags, tables, arrived>>
           /\ \A u \in Threads : pc'[u] \in {"init", "drop", "create"} => pc'[u] = pc[u]
<1> USE DEF thread, data
<1>0. pc \in [Threads -> Steps]
  BY DEF TypeOK
<1>1. CASE \E t \in Threads : Wait(t) \/ LoopEnds(t) \/ Cleanup(t)
  BY <1>0, <1>1 DEF Wait, LoopEnds, Cleanup, BeginLoads, GotoLoop, Goto
<1>2. CASE \E t \in Threads : Load(t)
  <2>1. PICK t \in Threads : Load(t)
    BY <1>2
  <2>2. UNCHANGED <<flags, tables, arrived>> /\ (Advance(t) \/ Goto(t, "failed")) /\ InLoop(t)
    BY <2>1 DEF Load, LoadTable, LoadFile
  <2>3. CASE Advance(t)
    <3>1. pc'[t] \notin {"init", "drop", "create"} /\ \A u \in Threads : u # t => pc'[u] = pc[u]
      BY <2>2, <2>3, AdvanceTyped DEF Loading
    <3> QED
      BY <2>2, <3>1
  <2> QED
    BY <1>0, <2>2, <2>3 DEF Goto
<1>3. CASE \E t \in Threads : InitCheck(t) \/ Check(t)
  BY <1>0, <1>3 DEF InitCheck, Check, Goto, Crash
<1>4. CASE PostPrepare \/ Analyze
  <2>1. UNCHANGED <<flags, tables, arrived>> /\ (UNCHANGED thread \/ BeginChecks)
    BY <1>4 DEF PostPrepare, Analyze
  <2> QED
    BY <2>1, BeginChecksTyped
<1>5. CASE Return \/ Deadline \/ Signal \/ ForceExit \/ UNCHANGED vars
  BY <1>5 DEF Return, Deadline, Signal, ForceExit, Unaffected, vars
<1>6. CASE \E t \in Threads : Generate(t) \/ Flush(t) \/ Finish(t) \/ CheckNothing(t)
  <2>1. PICK t \in Threads : Generate(t) \/ Flush(t) \/ Finish(t) \/ CheckNothing(t)
    BY <1>6
  <2>2. UNCHANGED <<flags, tables, arrived>>
    BY <2>1, Zenon DEF Generate, Flush, Finish, CheckNothing
  <2>3. \E step \in {"generate", "finish", "flush", "cleanup", "failed", "done"} : Goto(t, step)
    BY <2>1 DEF Generate, Flush, NextUnit, Finish, CheckNothing
  <2> QED
    BY <1>0, <2>2, <2>3 DEF Goto
<1> QED
  BY <1>1, <1>2, <1>3, <1>4, <1>5, <1>6 DEF PreparesNext, Next, Goroutine, Generator, Main, Terminated

LEMMA TablesKept ==
    ASSUME TypeOK, Control, TablesInv, [PreparesNext]_vars  PROVE TablesInv'
<1> USE DEF thread, data
<1>0. pc \in [Threads -> Steps] /\ 0 \in Threads
  BY FlagsTyped DEF TypeOK
<1>f. flags' = flags /\ (Fresh' <=> Fresh)
  BY FlagsStay, FlagsFixed
<1>1. CASE ~\E t \in Threads : InitThread(t) \/ DropTable(t) \/ CreateTables(t) \/ CreateTpchTables(t)
  BY <1>0, <1>f, <1>1, Onward DEF TablesInv
<1>2. ASSUME NEW t \in Threads, InitThread(t)  PROVE TablesInv'
  <2>1. UNCHANGED <<tables, arrived>>
    BY <1>2 DEF InitThread, Crash
  <2>2. pc'[0] = pc[0] \/ (pc[0] = "init" /\ pc'[0] = IF flags.dropData THEN "drop" ELSE "create")
    BY <1>0, <1>2 DEF InitThread, Crash, Goto, At
  <2>3. ~flags.dropData => (Fresh <=> flags.before = "absent")
    BY Zenon DEF Fresh
  <2> QED
    BY <1>f, <2>1, <2>2, <2>3 DEF TablesInv
<1>3. ASSUME NEW t \in Threads, DropTable(t)  PROVE TablesInv'
  <2>1. pc[t] = "drop" /\ flags.dropData /\ UNCHANGED arrived /\ t \notin arrived
    BY <1>3 DEF DropTable, At, Control, ControlOf
  <2>2. \/ Cleans /\ t = 0 /\ tables' = "absent" /\ pc'[0] = "create"
        \/ tables' = tables /\ pc'[0] = pc[0]
        \/ tables' = tables /\ t = 0 /\ pc'[0] = "create" /\ ~Cleans
        \/ tables' = tables /\ t = 0 /\ pc'[0] = "failed"
    BY <1>0, <1>3 DEF DropTable, Goto
  <2>3. Fresh <=> flags.before = "absent" \/ Cleans
    BY <2>1, Zenon DEF Fresh
  <2> QED
    BY <1>f, <2>1, <2>2, <2>3 DEF TablesInv
<1>4. ASSUME NEW t \in Threads, CreateTables(t)  PROVE TablesInv'
  <2>1. /\ flags' = flags
        /\ \A u \in Threads : pc'[u] = pc[u] \/ (u = t /\ pc'[u] \notin {"init", "drop", "create"})
    <3>1. \A u \in Threads : u # t => pc'[u] = pc[u]
      BY <1>4, OthersStay DEF Goroutine
    <3> QED
      BY <1>0, <1>4, <3>1 DEF CreateTables, BeginLoads, Goto, GotoLoop
  <2>2. \/ tables' = tables /\ (t # 0 \/ arrived' = arrived)
        \/ tables' = "referenced" /\ t = 0 /\ flags.useFK
        \/ tables' # "absent" /\ t = 0 /\ (tables' = tables \/ tables' = "plain")
    BY <1>4 DEF CreateTables
  <2>3. arrived' \in {arrived, arrived \cup {t}} /\ pc[t] = "create"
    BY <1>4 DEF CreateTables, At
  <2>4. CASE t = 0
    <3>1. pc'[0] \notin {"init", "drop", "create"}
      BY <1>0, <1>4, <2>4 DEF CreateTables, BeginLoads, Goto, GotoLoop
    <3> QED
      BY <1>f, <2>1, <2>2, <2>3, <2>4, <3>1 DEF TablesInv
  <2>5. CASE t # 0
    <3>1. pc'[0] = pc[0]
      BY <1>0, <2>1, <2>5
    <3> QED
      BY <1>f, <2>1, <2>2, <2>3, <2>5, <3>1 DEF TablesInv
  <2> QED
    BY <2>4, <2>5
<1>5. ASSUME NEW t \in Threads, CreateTpchTables(t)  PROVE TablesInv'
  BY <1>0, <1>f, <1>5 DEF CreateTpchTables, Goto, At, Crash, TablesInv, Control, ControlOf
<1> QED
  BY <1>1, <1>2, <1>3, <1>4, <1>5

------------------------------------------------------------------------------
(* The checks. *)

LEMMA ChecksKept ==
    ASSUME TypeOK, Control, ChecksInv, EachWarehouseChecked, [PreparesNext]_vars
    PROVE  ChecksInv' /\ EachWarehouseChecked'
<1> USE DEF thread, data
<1>0. /\ flags.threads \in Nat \ {0} /\ flags.warehouses \in Nat \ {0} /\ errCh \in BOOLEAN
      /\ pc \in [Threads -> Steps] /\ i \in [Threads -> Nat] /\ checked \in [Warehouses -> Nat]
  BY FlagsTyped DEF TypeOK
<1>1. ASSUME NEW w \in Warehouses  PROVE (w - 1) % flags.threads \in Threads
  <2>1. w - 1 \in Nat
    BY DEF Warehouses
  <2>2. (w - 1) % flags.threads \in Nat /\ (w - 1) % flags.threads < flags.threads
    BY <1>0, <2>1, ModTyped
  <2> QED
    BY <1>0, <2>2 DEF Threads
<1>2. ASSUME flags' = flags, checked' = checked, command' = "crashed" \/ command' = "killed" \/ command' = "failed"
      PROVE  ChecksInv' /\ EachWarehouseChecked'
  BY <1>2 DEF ChecksInv, EachWarehouseChecked
<1>3. ASSUME NEW t \in Threads, Goroutine(t) \/ Generator(t), checked' = checked, command' = command,
             command = "checking" /\ IsTpcc =>
                 pc[t] = "initCheck" /\ pc'[t] = "check" /\ i'[t] = i[t]
      PROVE  ChecksInv' /\ EachWarehouseChecked'
  <2>1. /\ flags' = flags /\ (errCh => errCh')
        /\ \A u \in Threads : u # t => pc'[u] = pc[u] /\ i'[u] = i[u]
    BY <1>3, OthersStay
  <2>2. /\ Threads' = Threads /\ Warehouses' = Warehouses
        /\ (IsTpcc' <=> IsTpcc) /\ (ToFiles' <=> ToFiles)
    BY <2>1, FlagsFixed
  <2>3. command # "ok"
    BY <1>3, OthersStay DEF Alive
  <2>4. EachWarehouseChecked'
    BY <1>3, <2>3 DEF EachWarehouseChecked
  <2>5. CASE command = "checking" /\ IsTpcc
    <3>1. ASSUME NEW w \in Warehouses, NEW u \in Threads, u = (w - 1) % flags.threads
          PROVE  /\ pc'[u] \in {"initCheck", "check"} => checked[w] = IF w - 1 < i'[u] THEN 1 ELSE 0
                 /\ pc'[u] = "done" /\ ~errCh' => checked[w] = 1
      <4>1. /\ pc[u] \in {"initCheck", "check"} => checked[w] = IF w - 1 < i[u] THEN 1 ELSE 0
            /\ pc[u] = "done" /\ ~errCh => checked[w] = 1
        BY <2>5, <3>1 DEF ChecksInv
      <4>2. (pc'[u] = pc[u] \/ (pc[u] = "initCheck" /\ pc'[u] = "check")) /\ i'[u] = i[u]
        BY <1>3, <2>1, <2>5
      <4> QED
        BY <2>1, <4>1, <4>2
    <3> QED
      BY <1>1, <1>3, <2>1, <2>2, <2>4, <2>5, <3>1 DEF ChecksInv
  <2>6. CASE ~(command = "checking" /\ IsTpcc)
    BY <1>3, <2>2, <2>4, <2>6 DEF ChecksInv
  <2> QED
    BY <2>5, <2>6
<1>4. ASSUME NEW t \in Threads, Alive, command = "checking", IsTpcc, pc[t] \notin {"initCheck", "check", "done"}
      PROVE  FALSE
  BY <1>4 DEF Control, ControlOf
<1>5. ASSUME NEW t \in Threads, Goroutine(t) \/ Generator(t), ~InitCheck(t), ~Check(t)
      PROVE  ChecksInv' /\ EachWarehouseChecked'
  <2>1. flags' = flags /\ command' \in {command, "crashed"} /\ Alive /\ pc[t] # "done"
    BY <1>5, OthersStay
  <2>2. checked' = checked
    <3>1. CASE Goroutine(t)
      BY <1>5, <3>1, Zenon DEF Goroutine, InitThread, DropTable, CreateTables, Wait, Load, LoopEnds, Cleanup, Crash
    <3>2. CASE Generator(t)
      BY <3>2, Zenon DEF Generator, CreateTpchTables, Generate, Flush, Finish, CheckNothing, Crash
    <3> QED
      BY <1>5, <3>1, <3>2
  <2>3. ~(command = "checking" /\ IsTpcc)
    <3>1. CASE Goroutine(t)
      <4>1. pc[t] \notin {"initCheck", "check", "done"}
        BY <1>5, <2>1, <3>1 DEF Goroutine, InitThread, DropTable, CreateTables, Wait, Load, LoopEnds, Cleanup, At, InLoop
      <4> QED
        BY <1>4, <2>1, <4>1
    <3>2. CASE Generator(t)
      <4>1. ~IsTpcc \/ pc[t] \in Generating
        BY <3>2 DEF Generator, CreateTpchTables, Generate, Flush, Finish, CheckNothing, At, Generating
      <4> QED
        BY <4>1 DEF TypeOK
    <3> QED
      BY <1>5, <3>1, <3>2
  <2> QED
    BY <1>2, <1>3, <1>5, <2>1, <2>2, <2>3
<1>6. ASSUME NEW t \in Threads, InitCheck(t)  PROVE ChecksInv' /\ EachWarehouseChecked'
  <2>1. flags' = flags /\ checked' = checked /\ pc[t] = "initCheck"
    BY <1>6 DEF InitCheck, Crash, At
  <2>2. CASE command' = "crashed"
    BY <1>2, <2>1, <2>2
  <2>3. CASE Goto(t, "check") /\ UNCHANGED <<i, command>>
    <3>1. pc'[t] = "check" /\ i'[t] = i[t]
      BY <1>0, <2>3 DEF Goto
    <3> QED
      BY <1>3, <1>6, <2>1, <2>3, <3>1 DEF Goroutine
  <2> QED
    BY <1>6, <2>2, <2>3 DEF InitCheck, Crash
<1>7. ASSUME NEW t \in Threads, Check(t)  PROVE ChecksInv' /\ EachWarehouseChecked'
  <2>0. /\ flags' = flags /\ (errCh => errCh') /\ pc[t] = "check" /\ IsTpcc /\ Alive /\ command' = command
        /\ \A u \in Threads : u # t => pc'[u] = pc[u] /\ i'[u] = i[u]
    BY <1>7, OthersStay DEF Goroutine, Check, At
  <2>1. /\ Threads' = Threads /\ Warehouses' = Warehouses
        /\ (IsTpcc' <=> IsTpcc) /\ (ToFiles' <=> ToFiles)
    BY <2>0, FlagsFixed
  <2>2. command = "checking" /\ i[t] % flags.threads = t /\ i[t] \in Nat
    BY <1>0, <2>0 DEF Control, ControlOf, Alive
  <2>3. EachWarehouseChecked'
    BY <2>0, <2>2 DEF EachWarehouseChecked
  <2>4. ASSUME NEW w \in Warehouses, NEW u \in Threads, u = (w - 1) % flags.threads
        PROVE  /\ pc'[u] \in {"initCheck", "check"} => checked'[w] = IF w - 1 < i'[u] THEN 1 ELSE 0
               /\ pc'[u] = "done" /\ ~errCh' => checked'[w] = 1
    <3>0. w - 1 \in Nat /\ w - 1 < flags.warehouses /\ w \in Nat
      BY <1>0 DEF Warehouses
    <3>1. /\ pc[u] \in {"initCheck", "check"} => checked[w] = IF w - 1 < i[u] THEN 1 ELSE 0
          /\ pc[u] = "done" /\ ~errCh => checked[w] = 1
      BY <2>0, <2>2, <2>4 DEF ChecksInv
    <3>2. CASE i[t] < flags.warehouses /\ checked' = [checked EXCEPT ![WarehouseAt(i[t])] = @ + 1]
               /\ i' = [i EXCEPT ![t] = NextOfShare(@)] /\ UNCHANGED <<pc, errCh>>
      <4>1. WarehouseAt(i[t]) = i[t] + 1
        BY <1>0, <2>2, <3>2, ModSmall DEF WarehouseAt
      <4>2. checked'[w] = IF w = i[t] + 1 THEN checked[w] + 1 ELSE checked[w]
        BY <1>0, <3>2, <4>1
      <4>3. CASE u # t
        <5>1. w # i[t] + 1
          BY <2>2, <2>4, <3>0, <4>3
        <5> QED
          BY <2>0, <3>1, <3>2, <4>2, <4>3, <5>1
      <4>4. CASE u = t
        <5>1. i'[t] = i[t] + flags.threads
          BY <1>0, <3>2 DEF NextOfShare
        <5>2. w - 1 > i[t] => ~(w - 1 < i[t] + flags.threads)
          BY <1>0, <2>2, <2>4, <3>0, <4>4, ModDistinct
        <5> QED
          BY <1>0, <2>0, <2>2, <3>0, <3>1, <3>2, <4>2, <4>4, <5>1, <5>2
      <4> QED
        BY <4>3, <4>4
    <3>3. CASE Goto(t, "done") /\ checked' = checked /\ i' = i /\ (errCh' \/ i[t] >= flags.warehouses)
      <4>1. pc'[t] = "done"
        BY <1>0, <3>3 DEF Goto
      <4> QED
        BY <1>0, <2>0, <2>2, <3>0, <3>1, <3>3, <4>1
    <3> QED
      BY <1>7, <3>2, <3>3 DEF Check
  <2> QED
    BY <1>1, <2>0, <2>1, <2>2, <2>3, <2>4 DEF ChecksInv
<1>8. ASSUME BeginChecks, UNCHANGED <<flags, checked, errCh>>, command \in {"loading", "analyzing"}
      PROVE  ChecksInv' /\ EachWarehouseChecked'
  <2>1. /\ Threads' = Threads /\ Warehouses' = Warehouses
        /\ (IsTpcc' <=> IsTpcc) /\ (ToFiles' <=> ToFiles)
    BY <1>8, FlagsFixed
  <2>2. \/ command' = "ok" /\ IsTpcc /\ (flags.noCheck \/ ToFiles)
        \/ /\ command' = "checking"
           /\ \A t \in Threads : pc'[t] = "initCheck" /\ i'[t] = t % flags.threads
    BY <1>8, BeginChecksTyped
  <2>3. ASSUME NEW w \in Warehouses, NEW u \in Threads, u = (w - 1) % flags.threads
        PROVE  ~(w - 1 < u % flags.threads)
    <3> DEFINE n == flags.threads
               a == w - 1
    <3>1. a \in Nat /\ n \in Nat \ {0} /\ u \in Nat /\ u < n
      BY <1>0 DEF Warehouses, Threads
    <3>2. u % n = u
      BY <3>1, ModSmall
    <3>3. a < n => a % n = a
      BY <3>1, ModSmall
    <3> QED
      BY <2>3, <3>1, <3>2, <3>3
  <2>4. \A w \in Warehouses : checked[w] = 0
    BY <1>8 DEF ChecksInv
  <2> QED
    BY <1>1, <1>8, <2>1, <2>2, <2>3, <2>4 DEF ChecksInv, EachWarehouseChecked
<1>9. ASSUME UNCHANGED <<flags, thread, checked, errCh>>, command' = command
      PROVE  ChecksInv' /\ EachWarehouseChecked'
  BY <1>9, FlagsFixed DEF ChecksInv, EachWarehouseChecked
<1>10. ASSUME PostPrepare  PROVE ChecksInv' /\ EachWarehouseChecked'
  <2>1. CASE command' = "analyzing"
    BY <1>10, <2>1, FlagsFixed DEF PostPrepare, ChecksInv, EachWarehouseChecked
  <2> QED
    BY <1>2, <1>8, <1>10, <2>1 DEF PostPrepare
<1>11. ASSUME Analyze  PROVE ChecksInv' /\ EachWarehouseChecked'
  BY <1>2, <1>8, <1>11 DEF Analyze
<1>12. ASSUME Return  PROVE ChecksInv' /\ EachWarehouseChecked'
  <2>1. UNCHANGED <<flags, thread, checked, errCh>> /\ command = "checking" /\ AllDone
        /\ command' = IF errCh THEN "failed" ELSE "ok"
    BY <1>12 DEF Return
  <2>2. CASE errCh
    BY <1>2, <2>1, <2>2
  <2>3. CASE ~errCh
    <3>1. ASSUME NEW w \in Warehouses, NEW u \in Threads, u = (w - 1) % flags.threads, IsTpcc
          PROVE  checked[w] = 1
      <4>1. pc[u] = "done" /\ ~errCh => checked[w] = 1
        BY <2>1, <3>1 DEF ChecksInv
      <4> QED
        BY <2>1, <2>3, <4>1 DEF AllDone
    <3>2. /\ Warehouses' = Warehouses /\ (IsTpcc' <=> IsTpcc)
      BY <2>1, FlagsFixed
    <3> QED
      BY <1>1, <2>1, <2>3, <3>1, <3>2 DEF ChecksInv, EachWarehouseChecked
  <2> QED
    BY <2>2, <2>3
<1>13. ASSUME Deadline \/ Signal \/ ForceExit \/ UNCHANGED vars  PROVE ChecksInv' /\ EachWarehouseChecked'
  <2>1. UNCHANGED <<flags, thread, checked, errCh>> /\ (command' = command \/ command' = "killed")
    BY <1>13 DEF Deadline, Signal, ForceExit, Unaffected, vars
  <2> QED
    BY <1>2, <1>9, <2>1
<1> QED
  BY <1>5, <1>6, <1>7, <1>10, <1>11, <1>12, <1>13 DEF PreparesNext, Next, Main, Terminated

------------------------------------------------------------------------------
(* The loads of TPC-C by their places in the loops. *)

AtPlace(load, phase, x, n) ==
    \/ /\ phase = "warehouses" /\ n \in 1 .. 3 /\ x \in Nat /\ x < flags.warehouses
       /\ load = <<WarehouseTables[n], x + 1, 0>>
    \/ /\ phase = "districts" /\ n \in 1 .. 5 /\ x \in Nat /\ x < Districts
       /\ load = <<DistrictTables[n], x \div DistrictPerWarehouse + 1, (x % DistrictPerWarehouse) + 1>>

LEMMA Tables ==
    /\ \A n \in 1 .. 3 : PlaceOf(WarehouseTables[n]) = n /\ WarehouseTables[n] \notin {"item", "history"}
    /\ \A n \in 1 .. 5 : PlaceOf(DistrictTables[n]) = n /\ DistrictTables[n] # "item"
<1>1. \A n \in 1 .. 3 : n = 1 \/ n = 2 \/ n = 3
  OBVIOUS
<1>2. \A n \in 1 .. 5 : n = 1 \/ n = 2 \/ n = 3 \/ n = 4 \/ n = 5
  OBVIOUS
<1>3. \A n \in 1 .. 3 : PlaceOf(WarehouseTables[n]) = n /\ WarehouseTables[n] \notin {"item", "history"}
  BY <1>1 DEF PlaceOf, WarehouseTables
<1>4. \A n \in 1 .. 5 : PlaceOf(DistrictTables[n]) = n /\ DistrictTables[n] # "item"
  BY <1>2 DEF PlaceOf, DistrictTables
<1> QED
  BY <1>3, <1>4

LEMMA PlaceTells ==
    ASSUME TypeOK, IsTpcc, NEW load, NEW phase, NEW x, NEW n, AtPlace(load, phase, x, n)
    PROVE  /\ load \in Loads /\ load # Item
           /\ PhaseOf(load) = phase /\ Number(load) = x /\ PlaceOf(load[1]) = n
           /\ load[2] \in Warehouses
<1> DEFINE D == DistrictPerWarehouse
<1>0. D \in Nat \ {0} /\ flags.warehouses \in Nat \ {0}
  BY FlagsTyped DEF TypeOK
<1>1. CASE /\ phase = "warehouses" /\ n \in 1 .. 3 /\ x \in Nat /\ x < flags.warehouses
           /\ load = <<WarehouseTables[n], x + 1, 0>>
  <2>1. load # Item /\ load[2] \in Warehouses /\ load[3] = 0 /\ load[2] = x + 1
    BY <1>0, <1>1, Tables DEF Item, Warehouses
  <2>2. load \in Loads
    <3>1. DOMAIN WarehouseTables = 1 .. 3
      BY DEF WarehouseTables
    <3>2. load \in {<<WarehouseTables[m], w, 0>> : m \in DOMAIN WarehouseTables, w \in Warehouses}
      BY <1>1, <2>1, <3>1
    <3> QED
      BY <3>2 DEF Loads, TpccLoads
  <2> QED
    BY <1>1, <2>1, <2>2, Tables DEF PhaseOf, Number
<1>2. CASE /\ phase = "districts" /\ n \in 1 .. 5 /\ x \in Nat /\ x < Districts
           /\ load = <<DistrictTables[n], x \div D + 1, (x % D) + 1>>
  <2> DEFINE q == x \div D
             r == x % D
  <2>1. q \in Nat /\ r \in 0 .. D - 1 /\ x = D * q + r
    BY <1>0, <1>2, DivMod
  <2>2. q < flags.warehouses
    <3>1. q >= flags.warehouses => D * q >= D * flags.warehouses
      <4> HIDE DEF q
      <4> QED
        BY <1>0, <2>1, Z3
    <3>2. D * flags.warehouses = flags.warehouses * D /\ flags.warehouses * D \in Nat
      BY <1>0, Z3
    <3>3. x < flags.warehouses * D
      BY <1>2 DEF Districts
    <3> HIDE DEF q, r
    <3>4. D * q \in Nat
      BY <1>0, <2>1, Z3
    <3> QED
      BY <1>0, <1>2, <2>1, <3>1, <3>2, <3>3, <3>4
  <2>3. load = <<DistrictTables[n], q + 1, r + 1>>
    BY <1>2
  <2> HIDE DEF q, r
  <2>4. q + 1 \in Warehouses /\ r + 1 \in 1 .. D /\ r + 1 # 0
    BY <1>0, <2>1, <2>2 DEF Warehouses
  <2>5. load[2] = q + 1 /\ load[3] = r + 1 /\ load[1] = DistrictTables[n]
    BY <2>3
  <2>6. load # Item
    BY <1>2, <2>3, Tables DEF Item
  <2>7. load \in Loads
    <3>1. DOMAIN DistrictTables = 1 .. 5
      BY DEF DistrictTables
    <3>2. load \in {<<DistrictTables[m], w, d>> : m \in DOMAIN DistrictTables, w \in Warehouses, d \in 1 .. D}
      BY <1>2, <2>3, <2>4, <3>1
    <3> QED
      BY <3>2 DEF Loads, TpccLoads
  <2>8. Number(load) = x
    <3>1. Number(load) = (load[2] - 1) * D + (load[3] - 1)
      BY <2>4, <2>5 DEF Number
    <3>2. load[2] - 1 = q /\ load[3] - 1 = r
      BY <2>1, <2>5
    <3>3. q * D = D * q
      BY <1>0, <2>1, Z3
    <3> QED
      BY <2>1, <3>1, <3>2, <3>3
  <2> QED
    BY <1>2, <2>4, <2>5, <2>6, <2>7, <2>8, Tables DEF PhaseOf
<1> QED
  BY <1>1, <1>2 DEF AtPlace

LEMMA LoadHasPlace ==
    ASSUME TypeOK, IsTpcc, NEW load \in Loads, load # Item
    PROVE  AtPlace(load, PhaseOf(load), Number(load), PlaceOf(load[1]))
<1> DEFINE D == DistrictPerWarehouse
<1>0. D \in Nat \ {0} /\ flags.warehouses \in Nat \ {0}
  BY FlagsTyped DEF TypeOK
<1>1. \/ load \in {<<WarehouseTables[n], w, 0>> : n \in DOMAIN WarehouseTables, w \in Warehouses}
      \/ load \in {<<DistrictTables[n], w, d>> : n \in DOMAIN DistrictTables, w \in Warehouses, d \in 1 .. D}
  BY DEF Loads, TpccLoads
<1>2. DOMAIN WarehouseTables = 1 .. 3 /\ DOMAIN DistrictTables = 1 .. 5
  BY DEF WarehouseTables, DistrictTables
<1>3. CASE load \in {<<WarehouseTables[n], w, 0>> : n \in DOMAIN WarehouseTables, w \in Warehouses}
  <2>1. PICK n \in 1 .. 3, w \in Warehouses : load = <<WarehouseTables[n], w, 0>>
    BY <1>2, <1>3
  <2>2. w - 1 \in Nat /\ w - 1 < flags.warehouses /\ (w - 1) + 1 = w
    BY <1>0 DEF Warehouses
  <2>3. AtPlace(load, "warehouses", w - 1, n)
    BY <2>1, <2>2 DEF AtPlace
  <2> QED
    BY <2>3, PlaceTells
<1>4. CASE load \in {<<DistrictTables[n], w, d>> : n \in DOMAIN DistrictTables, w \in Warehouses, d \in 1 .. D}
  <2>1. PICK n \in 1 .. 5, w \in Warehouses, d \in 1 .. D : load = <<DistrictTables[n], w, d>>
    BY <1>2, <1>4
  <2> DEFINE q == w - 1
             r == d - 1
             x == D * q + r
  <2>2. q \in Nat /\ q < flags.warehouses /\ r \in 0 .. D - 1 /\ q + 1 = w /\ r + 1 = d
    BY <1>0 DEF Warehouses
  <2> HIDE DEF q, r
  <2>3. x \div D = q /\ x % D = r /\ x \in Nat
    BY <1>0, <2>2, DivUnique
  <2>4. x < Districts
    <3>1. D * (q + 1) <= D * flags.warehouses /\ D * (q + 1) = D * q + D
      BY <1>0, <2>2, Z3
    <3>2. D * flags.warehouses = flags.warehouses * D /\ flags.warehouses * D \in Nat /\ D * q \in Nat
      BY <1>0, <2>2, Z3
    <3> QED
      BY <1>0, <2>2, <3>1, <3>2 DEF Districts
  <2>5. load = <<DistrictTables[n], x \div D + 1, (x % D) + 1>>
    BY <2>1, <2>2, <2>3
  <2> HIDE DEF x
  <2>6. AtPlace(load, "districts", x, n)
    BY <2>3, <2>4, <2>5 DEF AtPlace
  <2> QED
    BY <2>6, PlaceTells
<1> QED
  BY <1>1, <1>3, <1>4

LEMMA PlaceUnique ==
    ASSUME NEW load, NEW other, NEW phase, NEW x, NEW n,
           AtPlace(load, phase, x, n), AtPlace(other, phase, x, n)
    PROVE  load = other
  BY DEF AtPlace

LEMMA CurrentPlace ==
    ASSUME TypeOK, IsTpcc, NEW t \in Threads, InLoop(t), pc[t] # "item"
    PROVE  AtPlace(Current(t), pc[t], i[t], k[t])
<1> DEFINE D == DistrictPerWarehouse
<1>0. /\ D \in Nat \ {0} /\ flags.warehouses \in Nat \ {0} /\ i[t] \in Nat /\ k[t] \in 1 .. 5
      /\ pc[t] = "warehouses" => k[t] <= 3
  BY FlagsTyped, Lengths DEF TypeOK
<1>1. CASE pc[t] = "warehouses" /\ i[t] < flags.warehouses
  <2>1. WarehouseAt(i[t]) = i[t] + 1
    BY <1>0, <1>1, ModSmall DEF WarehouseAt
  <2> QED
    BY <1>0, <1>1, <2>1 DEF AtPlace, Current
<1>2. CASE pc[t] = "districts" /\ i[t] < Districts
  <2> DEFINE q == i[t] \div D
  <2>1. q \in Nat /\ i[t] % D \in 0 .. D - 1 /\ i[t] = D * q + (i[t] % D)
    BY <1>0, DivMod
  <2> HIDE DEF q
  <2>2. q < flags.warehouses
    <3>1. q >= flags.warehouses => D * q >= D * flags.warehouses
      BY <1>0, <2>1, Z3
    <3>2. D * flags.warehouses = flags.warehouses * D /\ flags.warehouses * D \in Nat /\ D * q \in Nat
      BY <1>0, <2>1, Z3
    <3> QED
      BY <1>0, <1>2, <2>1, <3>1, <3>2 DEF Districts
  <2>3. WarehouseAt(q) = q + 1
    BY <1>0, <2>1, <2>2, ModSmall DEF WarehouseAt
  <2>4. Current(t) = <<DistrictTables[k[t]], q + 1, (i[t] % D) + 1>>
    BY <1>2, <2>3 DEF Current, q
  <2> QED
    BY <1>0, <1>2, <2>4 DEF AtPlace, q
<1> QED
  BY <1>1, <1>2 DEF InLoop

(* What a thread loads now is its own, and it is not past it yet. *)
LEMMA CurrentIsAhead ==
    ASSUME TypeOK, Control, IsTpcc, NEW t \in Threads, InLoop(t)
    PROVE  Current(t) \in Loads /\ Owner(Current(t)) = t /\ ~Past(t, Current(t))
<1>1. CASE pc[t] = "item"
  <2>1. Current(t) = Item /\ t = 0
    BY <1>1 DEF Current, Control, ControlOf
  <2>2. Item \in Loads
    BY DEF Loads, TpccLoads
  <2> QED
    BY <1>1, <2>1, <2>2 DEF Owner, Past, PhaseOf, Rank
<1>2. CASE pc[t] # "item"
  <2>1. pc[t] \in {"warehouses", "districts"} /\ i[t] \in Nat /\ i[t] % flags.threads = t
        /\ k[t] \in 1 .. 5
    BY <1>2, Lengths DEF InLoop, Control, ControlOf, TypeOK
  <2>2. /\ Current(t) \in Loads /\ Current(t) # Item /\ PhaseOf(Current(t)) = pc[t]
        /\ Number(Current(t)) = i[t] /\ PlaceOf(Current(t)[1]) = k[t]
    BY <1>2, CurrentPlace, PlaceTells
  <2> DEFINE c == Current(t)
  <2> HIDE DEF c
  <2>3. /\ c \in Loads /\ c # Item /\ PhaseOf(c) = pc[t]
        /\ Number(c) = i[t] /\ PlaceOf(c[1]) = k[t]
    BY <2>2 DEF c
  <2>4. c \in Loads /\ Owner(c) = t /\ ~Past(t, c)
    BY <2>1, <2>3 DEF Owner, Past, Rank
  <2> QED
    BY <2>4 DEF c
<1> QED
  BY <1>1, <1>2

LEMMA PhasesOfLoads ==
    ASSUME NEW load
    PROVE  PhaseOf(load) \in Loading /\ (PhaseOf(load) = "item" <=> load = Item)
  BY DEF PhaseOf, Loading

(* What is past, apart from what it loads now, is the same after a step of the loops. *)
LEMMA AdvancePasses ==
    ASSUME TypeOK, Control, IsTpcc, NEW t \in Threads, InLoop(t), Advance(t),
           NEW load \in Loads, Owner(load) = t
    PROVE  Past(t, load)' <=> Past(t, load) \/ load = Current(t)
<1>0. flags.threads \in Nat \ {0} /\ t \in Nat
  BY FlagsTyped DEF TypeOK, Threads
<1>1. CASE pc[t] = "item"
  <2>1. pc'[t] = "warehouses" /\ i'[t] = t /\ k'[t] = 1
    BY <1>1, Advances
  <2>2. CASE load = Item
    <3>1. PhaseOf(load) = "item" /\ Current(t) = Item
      BY <1>1, <2>2 DEF PhaseOf, Current
    <3> QED
      BY <2>1, <2>2, <3>1 DEF Past, Rank
  <2>3. CASE load # Item
    <3>1. Current(t) # load
      BY <1>1, <2>3 DEF Current
    <3>2. AtPlace(load, PhaseOf(load), Number(load), PlaceOf(load[1]))
      BY <2>3, LoadHasPlace
    <3>3. PhaseOf(load) \in {"warehouses", "districts"} /\ Number(load) \in Nat /\ PlaceOf(load[1]) \in Nat
          /\ PlaceOf(load[1]) >= 1
      BY <3>2 DEF AtPlace
    <3>4. PhaseOf(load) = "warehouses" => ~(Number(load) < t)
      <4>1. Number(load) % flags.threads = t
        BY <2>3 DEF Owner
      <4>2. t < flags.threads
        BY <1>0 DEF Threads
      <4>3. Number(load) < t => Number(load) % flags.threads = Number(load)
        <5> SUFFICES ASSUME Number(load) < t PROVE Number(load) % flags.threads = Number(load)
          OBVIOUS
        <5>1. Number(load) < flags.threads
          BY <1>0, <3>3, <4>2
        <5> QED
          BY <1>0, <3>3, <5>1, ModSmall
      <4> QED
        BY <1>0, <3>3, <4>1, <4>3
    <3>5. ~Past(t, load)
      BY <1>1, <3>3 DEF Past, Rank
    <3>6. ~Past(t, load)'
      BY <2>1, <3>3, <3>4 DEF Past, Rank
    <3> QED
      BY <3>1, <3>5, <3>6
  <2> QED
    BY <2>2, <2>3
<1>2. CASE pc[t] # "item"
  <2> DEFINE c == Current(t)
             x == Number(load)
             n == PlaceOf(load[1])
  <2>0. pc[t] \in {"warehouses", "districts"} /\ i[t] \in Nat /\ k[t] \in 1 .. 5
        /\ (pc[t] = "warehouses" => k[t] <= 3) /\ i[t] % flags.threads = t
    BY <1>2, Lengths DEF InLoop, Control, ControlOf, TypeOK
  <2>1. /\ pc'[t] = pc[t]
        /\ \/ k[t] < Len(TablesOf(pc[t])) /\ k'[t] = k[t] + 1 /\ i'[t] = i[t]
           \/ k[t] = Len(TablesOf(pc[t])) /\ k'[t] = 1 /\ i'[t] = i[t] + flags.threads
    BY <1>2, Advances
  <2>2. AtPlace(c, pc[t], i[t], k[t])
    BY <1>2, CurrentPlace
  <2>3. c # Item /\ PhaseOf(c) = pc[t] /\ Number(c) = i[t] /\ PlaceOf(c[1]) = k[t]
    BY <2>2, PlaceTells
  <2>4. CASE PhaseOf(load) # pc[t]
    <3>1. load # c
      BY <2>3, <2>4
    <3>2. Past(t, load) <=> Rank(pc[t]) > Rank(PhaseOf(load))
      BY <2>4 DEF Past
    <3>3. Past(t, load)' <=> Rank(pc[t]) > Rank(PhaseOf(load))
      BY <2>1, <2>4 DEF Past
    <3> QED
      BY <3>1, <3>2, <3>3
  <2>5. CASE PhaseOf(load) = pc[t]
    <3>1. load # Item /\ AtPlace(load, pc[t], x, n)
      <4>1. load # Item
        BY <1>2, <2>5 DEF PhaseOf
      <4> QED
        BY <2>5, <4>1, LoadHasPlace
    <3>2. x \in Nat /\ n \in 1 .. Len(TablesOf(pc[t])) /\ Len(TablesOf(pc[t])) \in Nat
      <4>1. Len(TablesOf(pc[t])) = IF pc[t] = "warehouses" THEN 3 ELSE 5
        BY Lengths DEF TablesOf
      <4> QED
        BY <3>1, <4>1 DEF AtPlace
    <3>3. x % flags.threads = t
      BY <3>1 DEF Owner
    <3>4. load = c <=> x = i[t] /\ n = k[t]
      BY <2>2, <2>3, <3>1, PlaceUnique
    <3>5. x > i[t] => x >= i[t] + flags.threads
      BY <1>0, <2>0, <3>2, <3>3, ModDistinct
    <3>6. ~(Rank(pc[t]) > Rank(pc[t]))
      BY <2>0 DEF Rank
    <3>7. Past(t, load) <=> x < i[t] \/ (x = i[t] /\ n < k[t])
      BY <1>2, <2>5, <3>6 DEF Past
    <3>8. Past(t, load)' <=> x < i'[t] \/ (x = i'[t] /\ n < k'[t])
      BY <1>2, <2>1, <2>5, <3>6 DEF Past
    <3> HIDE DEF c, x, n
    <3> DEFINE m == Len(TablesOf(pc[t]))
    <3> HIDE DEF m
    <3>9. CASE k[t] < m /\ k'[t] = k[t] + 1 /\ i'[t] = i[t]
      BY <2>0, <3>2, <3>4, <3>7, <3>8, <3>9 DEF c
    <3>10. CASE k[t] = m /\ k'[t] = 1 /\ i'[t] = i[t] + flags.threads
      <4>1. n <= k[t] /\ n >= 1
        BY <3>2, <3>10 DEF m
      <4> QED
        BY <1>0, <2>0, <3>2, <3>4, <3>5, <3>7, <3>8, <3>10, <4>1 DEF c
    <3> QED
      BY <2>1, <3>9, <3>10 DEF m
  <2> QED
    BY <2>4, <2>5
<1> QED
  BY <1>1, <1>2

LEMMA LoopEndPasses ==
    ASSUME TypeOK, Control, IsTpcc, NEW t \in Threads, LoopEnds(t),
           NEW load \in Loads, Owner(load) = t
    PROVE  Past(t, load)' <=> Past(t, load)
<1>0. flags.threads \in Nat \ {0} /\ t \in Nat /\ i[t] \in Nat /\ pc \in [Threads -> Steps]
  BY FlagsTyped DEF TypeOK, Threads
<1>1. load # Item => /\ PhaseOf(load) \in {"warehouses", "districts"} /\ Number(load) \in Nat
                     /\ PlaceOf(load[1]) \in Nat /\ PlaceOf(load[1]) >= 1
                     /\ PhaseOf(load) = "warehouses" => Number(load) < flags.warehouses
                     /\ PhaseOf(load) = "districts" => Number(load) < Districts
  BY LoadHasPlace DEF AtPlace
<1>2. CASE load = Item
  <2>1. PhaseOf(load) = "item"
    BY <1>2 DEF PhaseOf
  <2>2. pc[t] \in {"warehouses", "districts"} /\ pc'[t] \in {"districts", "cleanup"}
    BY <1>0, LoopBegins DEF LoopEnds, Goto
  <2> QED
    BY <2>1, <2>2 DEF Past, Rank
<1>3. CASE load # Item /\ pc[t] = "warehouses" /\ i[t] >= flags.warehouses /\ GotoLoop(t, "districts")
  <2>1. pc'[t] = "districts" /\ i'[t] = t /\ k'[t] = 1 /\ t < flags.threads
    BY <1>0, <1>3, LoopBegins DEF Threads
  <2>2. CASE PhaseOf(load) = "warehouses"
    <3>1. Number(load) < i[t]
      <4>1. flags.warehouses \in Nat
        BY FlagsTyped DEF TypeOK
      <4> QED
        BY <1>0, <1>1, <1>3, <2>2, <4>1
    <3> QED
      BY <1>3, <2>1, <2>2, <3>1 DEF Past, Rank
  <2>3. CASE PhaseOf(load) = "districts"
    <3>1. Number(load) % flags.threads = t
      BY <1>3 DEF Owner
    <3>2. Number(load) < t => Number(load) % flags.threads = Number(load)
      <4> SUFFICES ASSUME Number(load) < t PROVE Number(load) % flags.threads = Number(load)
        OBVIOUS
      <4>1. Number(load) < flags.threads /\ Number(load) \in Nat
        BY <1>0, <1>1, <1>3, <2>1
      <4> QED
        BY <1>0, <4>1, ModSmall
    <3>3. ~(Number(load) < t)
      BY <1>0, <1>1, <1>3, <3>1, <3>2
    <3> QED
      BY <1>1, <1>3, <2>1, <2>3, <3>3 DEF Past, Rank
  <2> QED
    BY <1>1, <1>3, <2>2, <2>3
<1>4. CASE load # Item /\ pc[t] = "districts" /\ i[t] >= Districts /\ Goto(t, "cleanup")
  <2>1. pc'[t] = "cleanup"
    BY <1>0, <1>4 DEF Goto
  <2>2. Districts \in Nat
    <3>1. flags.warehouses \in Nat /\ DistrictPerWarehouse \in Nat
      BY FlagsTyped DEF TypeOK
    <3> QED
      BY <3>1, Z3 DEF Districts
  <2>3. PhaseOf(load) = "districts" => Number(load) < i[t]
    BY <1>0, <1>1, <1>4, <2>2
  <2> QED
    BY <1>1, <1>4, <2>1, <2>3 DEF Past, Rank
<1> QED
  BY <1>2, <1>3, <1>4 DEF LoopEnds

(* All is past in the end, and nothing before the loads. *)
LEMMA PastAtEnds ==
    ASSUME NEW t, NEW load
    PROVE  /\ pc[t] \in {"cleanup", "done", "initCheck", "check"} => Past(t, load)
           /\ pc[t] \in {"init", "drop", "create", "barrier"} => ~Past(t, load)
<1>1. PhaseOf(load) \in {"item", "warehouses", "districts"}
  BY DEF PhaseOf
<1> QED
  BY <1>1 DEF Past, Rank

LEMMA ItemIsLoad ==
    ASSUME IsTpcc  PROVE Item \in Loads
  BY DEF Loads, TpccLoads

LEMMA OwnersAreThreads ==
    ASSUME TypeOK, IsTpcc, NEW load \in Loads  PROVE Owner(load) \in Threads
<1>0. flags.threads \in Nat \ {0} /\ 0 \in Threads
  BY FlagsTyped DEF TypeOK
<1>1. CASE load = Item
  BY <1>0, <1>1 DEF Owner
<1>2. CASE load # Item
  <2>1. Number(load) \in Nat
    BY <1>2, LoadHasPlace DEF AtPlace
  <2>2. Number(load) % flags.threads \in Nat /\ Number(load) % flags.threads < flags.threads
    BY <1>0, <2>1, ModTyped
  <2> QED
    BY <1>0, <1>2, <2>2 DEF Owner, Threads
<1> QED
  BY <1>1, <1>2

LEMMA BeginsAhead ==
    ASSUME TypeOK, IsTpcc, NEW t \in Threads, BeginLoads(t), NEW load \in Loads, Owner(load) = t
    PROVE  ~Past(t, load)' /\ pc'[t] \in {"item", "warehouses"}
<1>0. flags.threads \in Nat \ {0} /\ t \in Nat /\ t < flags.threads /\ pc \in [Threads -> Steps]
  BY FlagsTyped DEF TypeOK, Threads
<1>1. CASE t = 0
  <2>1. pc'[t] = "item"
    BY <1>0, <1>1 DEF BeginLoads, Goto
  <2>2. PhaseOf(load) \in {"item", "warehouses", "districts"}
    BY DEF PhaseOf
  <2> QED
    BY <2>1, <2>2 DEF Past, Rank
<1>2. CASE t # 0
  <2>1. pc'[t] = "warehouses" /\ i'[t] = t /\ k'[t] = 1
    BY <1>2, LoopBegins DEF BeginLoads
  <2>2. load # Item
    BY <1>2 DEF Owner
  <2>3. /\ PhaseOf(load) \in {"warehouses", "districts"} /\ Number(load) \in Nat
        /\ PlaceOf(load[1]) \in Nat /\ PlaceOf(load[1]) >= 1
    BY <2>2, LoadHasPlace DEF AtPlace
  <2>4. Number(load) % flags.threads = t
    BY <2>2 DEF Owner
  <2>5. ~(Number(load) < t)
    <3> SUFFICES ASSUME Number(load) < t PROVE FALSE
      OBVIOUS
    <3>1. Number(load) < flags.threads
      BY <1>0, <2>3
    <3>2. Number(load) % flags.threads = Number(load)
      BY <1>0, <2>3, <3>1, ModSmall
    <3> QED
      BY <1>0, <2>3, <2>4, <3>2
  <2> QED
    BY <2>1, <2>3, <2>5 DEF Past, Rank
<1> QED
  BY <1>1, <1>2

(* What a step of the loads adds to what is past. *)
LEMMA PastChanges ==
    ASSUME TypeOK, Control, IsTpcc, command = "loading", command' = command,
           NEW t \in Threads, Goroutine(t),
           NEW u \in Threads, NEW load \in Loads, Owner(load) = u, Well(u)'
    PROVE  Well(u) /\ (Past(u, load)' <=> Past(u, load) \/ (Load(t) /\ load = Current(t)))
<1> USE DEF thread, data
<1>0. /\ pc \in [Threads -> Steps] /\ flags.threads \in Nat \ {0} /\ errCh \in BOOLEAN
  BY FlagsTyped DEF TypeOK
<1>1. /\ flags' = flags /\ (errCh => errCh') /\ pc[t] # "done"
      /\ \A v \in Threads : v # t => pc'[v] = pc[v] /\ i'[v] = i[v] /\ k'[v] = k[v]
  BY OthersStay
<1>3. pc'[u] # "failed" /\ (pc'[u] = "done" => ~errCh')
  BY DEF Well
<1>4. pc[t] \notin {"initCheck", "check"}
  BY DEF Control, ControlOf
<1>5. CASE u # t
  <2>1. pc'[u] = pc[u] /\ i'[u] = i[u] /\ k'[u] = k[u]
    BY <1>0, <1>1, <1>5
  <2>2. Well(u) /\ (Past(u, load)' <=> Past(u, load))
    BY <1>1, <1>3, <2>1 DEF Well, Past
  <2>3. Load(t) => load # Current(t)
    <3> SUFFICES ASSUME Load(t) PROVE load # Current(t)
      OBVIOUS
    <3>1. Owner(Current(t)) = t
      BY CurrentIsAhead DEF Load
    <3> QED
      BY <1>5, <3>1
  <2> QED
    BY <2>2, <2>3
<1>6. CASE u = t
  <2> DEFINE Early == {"init", "drop", "create", "barrier"}
  <2>1. ASSUME pc[t] \in Early, pc'[t] \in Early, ~Load(t)
        PROVE  Well(u) /\ (Past(u, load)' <=> Past(u, load) \/ (Load(t) /\ load = Current(t)))
    <3>1. ~Past(t, load) /\ ~Past(t, load)'
      <4>1. PhaseOf(load) \in {"item", "warehouses", "districts"}
        BY DEF PhaseOf
      <4> QED
        BY <2>1, <4>1 DEF Past, Rank
    <3> QED
      BY <1>6, <2>1, <3>1 DEF Well
  <2>2. ASSUME pc[t] \in Early  PROVE ~Load(t)
    BY <2>2 DEF Load, InLoop
  <2>3. CASE InitThread(t) \/ DropTable(t)
    <3>1. pc[t] \in Early /\ pc'[t] \in Early
      BY <1>0, <1>3, <1>6, <2>3 DEF InitThread, DropTable, Goto, At, Crash
    <3> QED
      BY <2>1, <2>2, <3>1
  <2>4. ASSUME BeginLoads(t), pc[t] \in Early
        PROVE  Well(u) /\ (Past(u, load)' <=> Past(u, load) \/ (Load(t) /\ load = Current(t)))
    <3>1. ~Past(t, load)'
      BY <1>6, <2>4, BeginsAhead
    <3>2. ~Past(t, load)
      BY <2>4, PastAtEnds
    <3> QED
      BY <1>6, <2>2, <2>4, <3>1, <3>2 DEF Well
  <2>5. CASE CreateTables(t) \/ Wait(t)
    <3>1. pc[t] \in Early
      BY <2>5 DEF CreateTables, Wait, At
    <3>2. CASE BeginLoads(t)
      BY <2>4, <3>1, <3>2
    <3>3. CASE Goto(t, "barrier") \/ Goto(t, "failed")
      <4>1. pc'[t] \in Early
        BY <1>0, <1>3, <1>6, <3>3 DEF Goto
      <4> QED
        BY <2>1, <2>2, <3>1, <4>1
    <3> QED
      BY <2>5, <3>2, <3>3 DEF CreateTables, Wait
  <2>6. CASE Load(t)
    <3>1. InLoop(t) /\ (Advance(t) \/ Goto(t, "failed"))
      BY <2>6 DEF Load, LoadTable, LoadFile
    <3>2. Advance(t)
      BY <1>0, <1>3, <1>6, <3>1 DEF Goto
    <3>3. Past(t, load)' <=> Past(t, load) \/ load = Current(t)
      BY <1>6, <3>1, <3>2, AdvancePasses
    <3> QED
      BY <1>6, <2>6, <3>1, <3>3 DEF Well, InLoop
  <2>7. CASE LoopEnds(t)
    <3>1. Past(t, load)' <=> Past(t, load)
      BY <1>6, <2>7, LoopEndPasses
    <3>2. Load(t) => load # Current(t) \/ Past(t, load)'
      <4>1. CASE pc[t] = "warehouses" /\ i[t] >= flags.warehouses
        <5>1. i[t] \in Nat /\ flags.warehouses \in Nat
          BY FlagsTyped DEF TypeOK
        <5> QED
          BY <4>1, <5>1 DEF Load, InLoop
      <4>2. CASE pc[t] = "districts" /\ i[t] >= Districts
        <5>1. i[t] \in Nat /\ Districts \in Nat
          <6>1. flags.warehouses \in Nat /\ DistrictPerWarehouse \in Nat
            BY FlagsTyped DEF TypeOK
          <6> QED
            BY <6>1, Z3 DEF Districts, TypeOK
        <5> QED
          BY <4>2, <5>1 DEF Load, InLoop
      <4> QED
        BY <2>7, <4>1, <4>2 DEF LoopEnds
    <3>3. Well(t)
      BY <2>7 DEF LoopEnds, Well
    <3> QED
      BY <1>6, <3>1, <3>2, <3>3
  <2>8. CASE Cleanup(t)
    <3>1. pc[t] = "cleanup" /\ pc'[t] = "done"
      BY <1>0, <1>3, <1>6, <2>8 DEF Cleanup, At, Goto
    <3>2. Past(t, load) /\ Past(t, load)'
      <4>1. PhaseOf(load) \in {"item", "warehouses", "districts"}
        BY DEF PhaseOf
      <4> QED
        BY <3>1, <4>1 DEF Past, Rank
    <3> QED
      BY <1>6, <3>1, <3>2 DEF Well
  <2>9. CASE InitCheck(t) \/ Check(t)
    BY <1>4, <2>9 DEF InitCheck, Check, At
  <2> QED
    BY <2>3, <2>5, <2>6, <2>7, <2>8, <2>9 DEF Goroutine
<1> QED
  BY <1>5, <1>6

------------------------------------------------------------------------------
(* The rows. *)

(* While TPC-C is loaded, only its threads change what is loaded. *)
LEMMA LoadingSteps ==
    ASSUME TypeOK, Control, IsTpcc, command' = "loading", [PreparesNext]_vars
    PROVE  /\ command = "loading" /\ flags' = flags
           /\ \/ UNCHANGED <<flags, thread, arrived, data, errCh>>
              \/ \E t \in Threads : Goroutine(t)
<1> USE DEF thread, data
<1>1. CASE \E t \in Threads : Goroutine(t)
  <2>1. PICK t \in Threads : Goroutine(t)
    BY <1>1
  <2>2. flags' = flags /\ command' \in {command, "crashed"}
    BY <2>1, OthersStay
  <2> QED
    BY <1>1, <2>2
<1>2. CASE \E t \in Threads : Generator(t)
  <2>1. PICK t \in Threads : Generator(t)
    BY <1>2
  <2>2. flags' = flags /\ command' \in {command, "crashed"}
    BY <2>1, OthersStay
  <2>3. ~(CreateTpchTables(t) \/ CheckNothing(t))
    BY DEF CreateTpchTables, CheckNothing
  <2>4. ~(Generate(t) \/ Flush(t) \/ Finish(t))
    <3>1. pc[t] \notin Generating
      BY DEF TypeOK
    <3>2. Generate(t) \/ Flush(t) \/ Finish(t) => pc[t] \in {"generate", "flush", "finish"}
      BY Zenon DEF Generate, Flush, Finish, At
    <3> QED
      BY <3>1, <3>2 DEF Generating
  <2> QED
    BY <2>1, <2>3, <2>4 DEF Generator
<1>3. CASE Main \/ ForceExit
  BY <1>3 DEF Main, PostPrepare, Analyze, Return, BeginChecks, ForceExit
<1>4. CASE Deadline \/ Signal \/ Terminated \/ UNCHANGED vars
  BY <1>4 DEF Deadline, Signal, Terminated, Unaffected, vars
<1> QED
  BY <1>1, <1>2, <1>3, <1>4 DEF PreparesNext, Next

(* Before the tables are there nothing has been loaded. *)
LEMMA NobodyPast ==
    ASSUME TypeOK, Control, command = "loading", HasBarrier, arrived # Threads,
           NEW u \in Threads, Well(u), NEW load
    PROVE  ~Past(u, load) /\ pc[u] \notin Loading
<1>1. IsTpcc /\ pc \in [Threads -> Steps] /\ (pc[u] \in Generating => ~IsTpcc)
  BY DEF TypeOK, HasBarrier
<1>2. pc[u] \notin Loading \cup {"cleanup", "done", "failed", "initCheck", "check"}
  BY DEF Control, ControlOf, Well
<1>3. pc[u] \in {"init", "drop", "create", "barrier"}
  BY <1>1, <1>2 DEF Steps
<1> QED
  BY <1>2, <1>3, PastAtEnds

(* What a load has come to, as far as its thread has not failed. *)
RowRight(u, load) == Well(u) => rows[load] = IF Past(u, load) THEN "all" ELSE "none"

LEMMA RowsKept ==
    ASSUME TypeOK, Control, RowsInv, [PreparesNext]_vars  PROVE RowsInv'
<1> USE DEF thread, data
<1>1. SUFFICES ASSUME IsTpcc, ~ToFiles, command' = "loading"  PROVE RowsInv'
  <2>1. (IsTpcc' <=> IsTpcc) /\ (ToFiles' <=> ToFiles)
    BY FlagsStay, FlagsFixed
  <2> QED
    BY <1>1, <2>1 DEF RowsInv
<1>2. /\ command = "loading" /\ flags' = flags
      /\ Loads' = Loads /\ Threads' = Threads /\ (Fresh' <=> Fresh) /\ (HasBarrier' <=> HasBarrier)
  BY <1>1, LoadingSteps, FlagsFixed
<1>3. /\ pc \in [Threads -> Steps] /\ i \in [Threads -> Nat] /\ errCh \in BOOLEAN /\ 0 \in Threads
      /\ rows \in [Loads -> {"none", "part", "written", "all", "twice"}]
      /\ HasBarrier /\ Cleans /\ flags.connected /\ (Fresh <=> flags.before = "absent" \/ flags.dropData)
  <2>1. flags.workload # "ch"
    BY <1>1 DEF IsTpcc
  <2> QED
    BY <1>1, <2>1, FlagsTyped DEF TypeOK, HasBarrier, Cleans, Fresh
<1>4. /\ pc[0] = "init" => rows = [load \in Loads |-> IF flags.before = "absent" THEN "none" ELSE "all"]
      /\ ~Fresh => /\ rows[Item] # "none"
                   /\ Well(0) => pc[0] \in {"init", "create", "barrier", "item"}
      /\ Fresh /\ (pc[0] = "create" \/ 0 \in arrived) =>
             \A load \in Loads : RowRight(Owner(load), load)
  BY <1>1, <1>2 DEF RowsInv, RowRight
<1>5. CASE UNCHANGED <<flags, thread, arrived, data, errCh>>
  <2>1. \A load : Owner(load)' = Owner(load) /\ (RowRight(Owner(load), load)' <=> RowRight(Owner(load), load))
    BY <1>2, <1>5, FlagsFixed DEF RowRight, Well, Past
  <2> QED
    BY <1>1, <1>2, <1>4, <1>5, <2>1 DEF RowsInv, RowRight, Well
<1>6. ASSUME NEW t \in Threads, Goroutine(t)  PROVE RowsInv'
  <2>1. /\ pc[t] \notin {"done", "initCheck", "check"} /\ (errCh => errCh')
        /\ \A u \in Threads : u # t => pc'[u] = pc[u] /\ i'[u] = i[u] /\ k'[u] = k[u]
    BY <1>2, <1>6, OthersStay DEF Control, ControlOf
  <2>2. CASE Load(t)
    <3>1. /\ InLoop(t) /\ LoadTable(t) /\ arrived' = arrived /\ tables' = tables /\ errCh' = errCh
          /\ pc[t] \in Loading /\ IsTpcc
      BY <1>1, <2>2 DEF Load, LoadFile, InLoop, Loading
    <3> DEFINE c == Current(t)
    <3>2. c \in Loads /\ Owner(c) = t /\ ~Past(t, c)
      BY <1>1, <3>1, CurrentIsAhead
    <3>3. arrived = Threads /\ pc[0] \notin {"init", "drop", "create"}
      BY <1>2, <1>3, <3>1 DEF Control, ControlOf
    <3>4. pc'[0] \notin {"init", "drop", "create"}
      <4>1. Advance(t) => pc'[t] \notin {"init", "drop", "create"}
        BY <3>1, AdvanceTyped DEF Loading
      <4>2. Advance(t) \/ Goto(t, "failed")
        BY <3>1 DEF LoadTable
      <4> QED
        BY <1>3, <2>1, <3>3, <4>1, <4>2 DEF Goto
    <3>5. CASE ~Rejected(c) /\ rows' = [rows EXCEPT ![c] = Loaded(@)] /\ Advance(t)
      <4> HIDE DEF c
      <4>1. /\ rows'[c] = Loaded(rows[c]) /\ \A load \in Loads : load # c => rows'[load] = rows[load]
        BY <1>3, <3>2, <3>5
      <4>2. ~Fresh => pc[t] # "item" /\ rows[Item] # "none"
        <5>1. pc[t] = "item" => c = Item
          BY DEF c, Current
        <5>2. c = Item /\ rows[Item] # "none" => Rejected(c)
          BY DEF Rejected, Item
        <5> QED
          BY <1>4, <3>5, <5>1, <5>2
      <4>3. ~Fresh => /\ rows'[Item] # "none"
                      /\ Well(0)' => pc'[0] \in {"init", "create", "barrier", "item"}
        <5>1. rows[Item] # "none" => rows'[Item] # "none"
          BY <1>1, <1>3, <4>1, ItemIsLoad DEF Loaded
        <5>2. ~Fresh => t # 0
          BY <1>4, <3>1, <4>2 DEF Well, Loading
        <5> QED
          BY <1>3, <1>4, <2>1, <3>1, <5>1, <5>2 DEF Well
      <4>4. ASSUME Fresh, NEW load \in Loads, NEW u \in Threads, Owner(load) = u, Well(u)'
            PROVE  rows'[load] = IF Past(u, load)' THEN "all" ELSE "none"
        <5>1. Well(u) /\ (Past(u, load)' <=> Past(u, load) \/ load = c)
          BY <1>1, <1>2, <1>6, <2>2, <4>4, PastChanges DEF c
        <5>2. rows[load] = IF Past(u, load) THEN "all" ELSE "none"
          BY <1>3, <1>4, <3>3, <4>4, <5>1 DEF RowRight
        <5> QED
          BY <3>2, <4>1, <4>4, <5>1, <5>2 DEF Loaded
      <4> QED
        BY <1>2, <1>3, <3>4, <4>3, <4>4, OwnersAreThreads, FlagsFixed, <1>1 DEF RowsInv
    <3>6. CASE rows' \in {rows, [rows EXCEPT ![c] = Begun(@)]} /\ Goto(t, "failed")
      <4> HIDE DEF c
      <4>1. \A load \in Loads : load # c => rows'[load] = rows[load]
        BY <1>3, <3>2, <3>6
      <4>2. ~Fresh => /\ rows'[Item] # "none"
                      /\ Well(0)' => pc'[0] \in {"init", "create", "barrier", "item"}
        <5>1. rows[Item] # "none" => rows'[Item] # "none"
          BY <1>1, <1>3, <3>6, ItemIsLoad DEF Begun
        <5>2. pc'[t] = "failed"
          BY <1>3, <3>6 DEF Goto
        <5>3. Well(0)' => Well(0) /\ pc'[0] = pc[0]
          BY <1>3, <2>1, <3>1, <5>2 DEF Well
        <5> QED
          BY <1>4, <5>1, <5>3
      <4>3. ASSUME Fresh, NEW load \in Loads, NEW u \in Threads, Owner(load) = u, Well(u)'
            PROVE  rows'[load] = IF Past(u, load)' THEN "all" ELSE "none"
        <5>1. u # t
          BY <1>3, <3>6, <4>3 DEF Goto, Well
        <5>2. load # c
          BY <3>2, <4>3, <5>1
        <5>3. Well(u) /\ (Past(u, load)' <=> Past(u, load))
          BY <2>1, <3>1, <4>3, <5>1 DEF Well, Past
        <5> QED
          BY <1>3, <1>4, <3>3, <4>1, <4>3, <5>2, <5>3 DEF RowRight
      <4> QED
        BY <1>2, <1>3, <3>4, <4>2, <4>3, OwnersAreThreads, FlagsFixed, <1>1 DEF RowsInv
    <3> QED
      BY <3>1, <3>5, <3>6 DEF LoadTable
  <2>3. CASE ~Load(t)
    <3>1. ASSUME NEW load \in Loads, NEW u \in Threads, Owner(load) = u, Well(u)'
          PROVE  Well(u) /\ (Past(u, load)' <=> Past(u, load))
      BY <1>1, <1>2, <1>6, <2>3, <3>1, PastChanges
    <3>2. CASE t = 0 /\ (InitThread(t) \/ DropTable(t))
      <4>0. /\ pc[0] \in {"init", "drop"} /\ UNCHANGED <<arrived, errCh>>
            /\ arrived # Threads
        BY <1>2, <1>3, <3>2 DEF InitThread, DropTable, Crash, At, Control, ControlOf
      <4>1. pc'[0] # "init"
        BY <1>1, <1>2, <1>3, <3>2 DEF InitThread, DropTable, Goto, Crash, At
      <4>2. ~Fresh => /\ rows' = rows
                      /\ Well(0)' => pc'[0] \in {"init", "create", "barrier", "item"}
        BY <1>1, <1>2, <1>3, <1>4, <3>2 DEF InitThread, DropTable, Goto, Crash, At, Well
      <4>3. ~Fresh => rows[Item] # "none"
        BY <1>4
      <4>4. ASSUME Fresh, pc'[0] = "create" \/ 0 \in arrived', NEW load \in Loads
            PROVE  rows'[load] = "none"
        <5>1. 0 \notin arrived'
          BY <1>3, <4>0 DEF Control, ControlOf
        <5>2. CASE InitThread(t)
          <6>1. rows' = rows /\ pc[0] = "init" /\ ~flags.dropData
            BY <1>1, <1>2, <1>3, <3>2, <4>4, <5>1, <5>2 DEF InitThread, Goto, Crash, At
          <6> QED
            BY <1>3, <1>4, <4>4, <6>1
        <5>3. CASE DropTable(t)
          <6>1. rows' = [other \in Loads |-> "none"]
            BY <1>3, <3>2, <4>4, <5>1, <5>3 DEF DropTable, Goto, At
          <6> QED
            BY <6>1
        <5> QED
          BY <3>2, <5>2, <5>3
      <4>5. ASSUME NEW load \in Loads, NEW u \in Threads, Owner(load) = u, Well(u)'
            PROVE  ~Past(u, load)'
        BY <1>2, <1>3, <3>1, <4>0, <4>5, NobodyPast
      <4> QED
        BY <1>1, <1>2, <1>3, <4>1, <4>2, <4>3, <4>4, <4>5, OwnersAreThreads, FlagsFixed DEF RowsInv
    <3>3. CASE ~(t = 0 /\ (InitThread(t) \/ DropTable(t)))
      <4>1. rows' = rows
        BY <1>6, <2>1, <2>3, <3>3
           DEF Goroutine, InitThread, DropTable, CreateTables, Wait, LoopEnds, Cleanup, Crash, InitCheck, Check, At
      <4>2. /\ pc'[0] \in {"init", "create"} => pc'[0] = pc[0]
            /\ 0 \in arrived' => pc[0] = "create" \/ 0 \in arrived
            /\ ~Fresh /\ pc[0] \in {"init", "create", "barrier", "item"} /\ Well(0)'
                  => pc'[0] \in {"init", "create", "barrier", "item"}
        BY <1>1, <1>2, <1>3, <1>6, <2>1, <2>3, <3>3
           DEF Goroutine, InitThread, DropTable, CreateTables, Wait, LoopEnds, Cleanup, Crash, InitCheck, Check, At,
               Goto, GotoLoop, BeginLoads, Well
      <4>3. Well(0)' => Well(0)
        BY <1>1, <1>3, <3>1, ItemIsLoad DEF Owner
      <4>4. ASSUME Fresh, pc'[0] = "create" \/ 0 \in arrived',
                   NEW load \in Loads, NEW u \in Threads, Owner(load) = u, Well(u)'
            PROVE  rows'[load] = IF Past(u, load)' THEN "all" ELSE "none"
        <5>1. Well(u) /\ (Past(u, load)' <=> Past(u, load))
          BY <3>1, <4>4
        <5> QED
          BY <1>4, <4>1, <4>2, <4>4, <5>1 DEF RowRight
      <4> QED
        BY <1>1, <1>2, <1>3, <1>4, <4>1, <4>2, <4>3, <4>4, OwnersAreThreads, FlagsFixed DEF RowsInv
    <3> QED
      BY <3>2, <3>3
  <2> QED
    BY <2>2, <2>3
<1> QED
  BY <1>1, <1>5, <1>6, LoadingSteps

------------------------------------------------------------------------------
(* The files. *)

(* What a thread's file of a table has come to. *)
FileRight(t, load) ==
    IF t = Owner(load)
    THEN Well(t) /\ pc[t] # "init" => files[t][load] = IF Past(t, load) THEN "all" ELSE "none"
    ELSE pc[t] # "init" \/ ~HasFile(t, load) => files[t][load] = "none"

LEMMA FilesKept ==
    ASSUME TypeOK, Control, FilesInv, [PreparesNext]_vars  PROVE FilesInv'
<1> USE DEF thread, data
<1>0. flags' = flags
  BY FlagsStay
<1>1. SUFFICES ASSUME IsTpcc, ToFiles, command' = "loading",
                      NEW u \in Threads, NEW load \in Loads, Selected(load)
               PROVE  FileRight(u, load)'
  BY <1>0, FlagsFixed DEF FilesInv, FileRight
<1>2. command = "loading" /\ FileRight(u, load)
  BY <1>1, LoadingSteps DEF FilesInv, FileRight
<1>3. /\ pc \in [Threads -> Steps] /\ errCh \in BOOLEAN
      /\ files \in [Threads -> [Loads -> {"none", "part", "written", "all", "twice", "stale"}]]
      /\ ~Cleans
  BY <1>1 DEF TypeOK, Cleans
<1>4. Owner(load)' = Owner(load) /\ (HasFile(u, load)' <=> HasFile(u, load))
  BY <1>0, FlagsFixed
<1>5. CASE UNCHANGED <<flags, thread, arrived, data, errCh>>
  BY <1>2, <1>4, <1>5 DEF FileRight, Well, Past
<1>6. ASSUME NEW t \in Threads, Goroutine(t)  PROVE FileRight(u, load)'
  <2>1. \A v \in Threads : v # t => pc'[v] = pc[v]
    BY <1>6, OthersStay
  <2>2. ASSUME u = Owner(load), Well(u)'
        PROVE  Well(u) /\ (Past(u, load)' <=> Past(u, load) \/ (Load(t) /\ load = Current(t)))
    BY <1>0, <1>1, <1>2, <1>6, <2>2, PastChanges
  <2>3. CASE Load(t)
    <3>1. /\ InLoop(t) /\ LoadFile(t) /\ errCh' = errCh /\ pc[t] \in Loading
      BY <1>1, <2>3 DEF Load, LoadTable, InLoop, Loading
    <3> DEFINE c == Current(t)
    <3>2. c \in Loads /\ Owner(c) = t /\ ~Past(t, c)
      BY <1>1, <3>1, CurrentIsAhead
    <3>3. \/ /\ files' = IF Selected(c) THEN [files EXCEPT ![t][c] = Loaded(@)] ELSE files
             /\ Advance(t)
          \/ /\ files' \in {files, [files EXCEPT ![t][c] = Begun(@)]}
             /\ Goto(t, "failed")
      BY <3>1 DEF LoadFile
    <3>4. pc[t] # "init" /\ pc'[t] # "init"
      <4>1. Advance(t) => pc'[t] # "init"
        BY <3>1, AdvanceTyped DEF Loading
      <4> QED
        BY <1>3, <3>1, <3>3, <4>1 DEF Goto, Loading
    <3>5. pc'[u] # "init" <=> pc[u] # "init"
      BY <2>1, <3>4
    <3> HIDE DEF c
    <3>6. CASE ~(u = t /\ load = c)
      <4>1. files'[u][load] = files[u][load]
        BY <1>3, <3>2, <3>3, <3>6
      <4> QED
        BY <1>2, <1>4, <2>2, <3>2, <3>5, <3>6, <4>1 DEF FileRight, c
    <3>7. CASE u = t /\ load = c
      <4>1. SUFFICES ASSUME Well(u)'  PROVE files'[u][load] = "all" /\ Past(u, load)'
        <5>1. u = Owner(load)
          BY <3>2, <3>7
        <5> QED
          BY <1>4, <4>1, <5>1 DEF FileRight
      <4>2. pc'[t] # "failed"
        BY <3>7, <4>1 DEF Well
      <4>3. files' = [files EXCEPT ![t][c] = Loaded(@)]
        BY <1>1, <1>3, <3>3, <3>7, <4>2 DEF Goto
      <4>4. Well(u) /\ Past(u, load)'
        BY <2>2, <2>3, <3>2, <3>7, <4>1 DEF c
      <4>5. files[t][c] = "none"
        BY <1>2, <3>2, <3>4, <3>7, <4>4 DEF FileRight
      <4> QED
        BY <1>3, <3>2, <3>7, <4>3, <4>4, <4>5 DEF Loaded
    <3> QED
      BY <3>6, <3>7
  <2>4. CASE InitThread(t)
    <3>1. /\ pc[t] = "init" /\ pc'[t] \in {"drop", "create"}
          /\ files' = [files EXCEPT ![t] = [other \in Loads |->
                          IF Selected(other) /\ HasFile(t, other) THEN "none" ELSE @[other]]]
      BY <1>1, <1>2, <1>3, <2>4 DEF InitThread, CreateFiles, Goto, At, Crash
    <3>2. CASE u # t
      BY <1>2, <1>3, <1>4, <2>1, <2>2, <2>4, <3>1, <3>2 DEF FileRight, Load, InLoop
    <3>3. CASE u = t
      <4>1. files'[u][load] = IF HasFile(u, load) THEN "none" ELSE files[u][load]
        BY <1>1, <1>3, <3>1, <3>3
      <4>2. u = Owner(load) => HasFile(u, load)
        BY <1>1 DEF Owner, HasFile
      <4>3. ~Load(t) /\ ~Past(u, load)
        BY <3>1, <3>3, PastAtEnds DEF Load, InLoop
      <4> QED
        BY <1>2, <1>4, <2>2, <3>1, <3>3, <4>1, <4>2, <4>3 DEF FileRight
    <3> QED
      BY <3>2, <3>3
  <2>5. CASE ~Load(t) /\ ~InitThread(t)
    <3>1. files' = files
      BY <1>3, <1>6, <2>5
         DEF Goroutine, DropTable, CreateTables, Wait, LoopEnds, Cleanup, Crash, InitCheck, Check, At
    <3>2. pc'[u] # "init" <=> pc[u] # "init"
      BY <1>3, <1>6, <2>1, <2>5
         DEF Goroutine, DropTable, CreateTables, Wait, LoopEnds, Cleanup, Crash, InitCheck, Check, At,
             Goto, GotoLoop, BeginLoads
    <3> QED
      BY <1>2, <1>4, <2>2, <2>5, <3>1, <3>2 DEF FileRight
  <2> QED
    BY <2>3, <2>4, <2>5
<1> QED
  BY <1>1, <1>5, <1>6, LoadingSteps

------------------------------------------------------------------------------
(* What dbgen generates. *)

(* The tables by the units they are generated in. *)
LEMMA UnitsOfLoads ==
    ASSUME ~IsTpcc, NEW load \in Loads
    PROVE  /\ load = Of(load[1]) /\ UnitOf(load[1]) \in 1 .. Len(Units)
           /\ \A m \in 1 .. Len(Units) : (load[1] \in TablesOfUnit(Units[m])) <=> (UnitOf(load[1]) = m)
<1>0. PICK n \in DOMAIN Units : \E table \in TablesOfUnit(Units[n]) : load = Of(table)
  BY DEF Loads
<1>1. PICK table \in TablesOfUnit(Units[n]) : load = Of(table)
  BY <1>0
<1>2. load[1] = table
  BY <1>1 DEF Of
<1>3. CASE flags.workload = "tpch"
  <2>1. /\ Len(Units) = 6 /\ DOMAIN Units = 1 .. 6
        /\ TablesOfUnit(Units[1]) = {"nation"} /\ TablesOfUnit(Units[2]) = {"region"}
        /\ TablesOfUnit(Units[3]) = {"customer"} /\ TablesOfUnit(Units[4]) = {"supplier"}
        /\ TablesOfUnit(Units[5]) = {"part", "partsupp"} /\ TablesOfUnit(Units[6]) = {"orders", "lineitem"}
    BY <1>3 DEF Units, TablesOfUnit
  <2>2. \A m \in 1 .. 6 : m = 1 \/ m = 2 \/ m = 3 \/ m = 4 \/ m = 5 \/ m = 6
    OBVIOUS
  <2>3. UnitOf(table) \in 1 .. 6 /\ \A m \in 1 .. 6 : (table \in TablesOfUnit(Units[m])) <=> (UnitOf(table) = m)
    BY <1>1, <1>3, <2>1, <2>2 DEF UnitOf
  <2> QED
    BY <1>1, <1>2, <2>1, <2>3
<1>4. CASE flags.workload # "tpch"
  <2>1. /\ Len(Units) = 3 /\ DOMAIN Units = 1 .. 3
        /\ TablesOfUnit(Units[1]) = {"nation"} /\ TablesOfUnit(Units[2]) = {"region"}
        /\ TablesOfUnit(Units[3]) = {"supplier"}
    BY <1>4 DEF Units, TablesOfUnit
  <2>2. \A m \in 1 .. 3 : m = 1 \/ m = 2 \/ m = 3
    OBVIOUS
  <2>3. UnitOf(table) \in 1 .. 3 /\ \A m \in 1 .. 3 : (table \in TablesOfUnit(Units[m])) <=> (UnitOf(table) = m)
    BY <1>1, <1>4, <2>1, <2>2 DEF UnitOf
  <2> QED
    BY <1>1, <1>2, <2>1, <2>3
<1> QED
  BY <1>3, <1>4

LEMMA StoredIs ==
    ASSUME TypeOK, flags' = flags, NEW f, StoredBecomes(f)
    PROVE  /\ \A load \in Loads : Stored(load)' = f[load]
           /\ ~ToFiles => files' = files
           /\ \A v \in Threads \ {0} : files'[v] = files[v]
<1>1. 0 \in Threads /\ (ToFiles' <=> ToFiles)
  BY FlagsTyped, FlagsFixed DEF TypeOK
<1> QED
  BY <1>1 DEF StoredBecomes, Stored, TypeOK

LEMMA Generated ==
    ASSUME TypeOK, NEW t \in Threads, Generate(t), NEW load \in Loads
    PROVE  LET unit == TablesOfUnit(Units[i[0]])
           IN  /\ t = 0 /\ pc[0] = "generate" /\ UNCHANGED <<flags, i, k, errCh, command>>
               /\ ~ToFiles => files' = files
               /\ \A v \in Threads \ {0} : files'[v] = files[v]
               /\ load[1] \notin unit \/ KeysTaken(load[1]) => Stored(load)' = Stored(load)
               /\ faults' = 0 /\ load[1] \in unit /\ (\A table \in unit : ~KeysTaken(table)) =>
                     \/ pc'[0] = "flush" /\ Stored(load)' = "written"
                     \/ pc'[0] = "failed"
               /\ pc'[0] \in {"flush", "failed"}
<1> DEFINE unit == TablesOfUnit(Units[i[0]])
           AfterLoop(lost) == [other \in Loads |->
               IF other[1] \notin unit \/ KeysTaken(other[1]) THEN Stored(other)
               ELSE IF other[1] \in lost THEN "part" ELSE "written"]
<1>1. pc[t] = "generate" /\ UNCHANGED <<flags, i, k, errCh, command>>
  BY Zenon DEF Generate, At
<1>2. t = 0 /\ pc \in [Threads -> Steps] /\ faults \in Nat /\ 0 \in Threads
  BY <1>1, FlagsTyped DEF TypeOK, Generating
<1>3. \/ StoredBecomes(AfterLoop({})) /\ Goto(0, "flush")
      \/ \E table \in unit : /\ Refused(KeysTaken(table))
                             /\ StoredBecomes(AfterLoop({table}))
                             /\ Goto(0, "flush")
      \/ StoredBecomes(AfterLoop(unit)) /\ Goto(0, "failed")
  <2>1. Generate(0)
    BY <1>2
  <2> QED
    BY <2>1, Zenon DEF Generate
<1>4. \A lost : AfterLoop(lost)[load] =
               IF load[1] \notin unit \/ KeysTaken(load[1]) THEN Stored(load)
               ELSE IF load[1] \in lost THEN "part" ELSE "written"
  OBVIOUS
<1> HIDE DEF unit, AfterLoop
<1>5. CASE StoredBecomes(AfterLoop({})) /\ Goto(0, "flush")
  <2>1. Stored(load)' = AfterLoop({})[load]
    BY <1>1, <1>5, StoredIs
  <2>2. (~ToFiles => files' = files) /\ \A v \in Threads \ {0} : files'[v] = files[v]
    BY <1>1, <1>5, StoredIs
  <2>3. pc'[0] = "flush"
    BY <1>2, <1>5 DEF Goto
  <2> QED
    BY <1>1, <1>2, <1>4, <2>1, <2>2, <2>3 DEF unit
<1>6. ASSUME NEW table \in unit, Refused(KeysTaken(table)), StoredBecomes(AfterLoop({table})), Goto(0, "flush")
      PROVE  /\ ~ToFiles => files' = files
             /\ \A v \in Threads \ {0} : files'[v] = files[v]
             /\ load[1] \notin unit \/ KeysTaken(load[1]) => Stored(load)' = Stored(load)
             /\ faults' = 0 => KeysTaken(table)
             /\ pc'[0] = "flush"
  <2>1. Stored(load)' = AfterLoop({table})[load]
    BY <1>1, <1>6, StoredIs
  <2>2. (~ToFiles => files' = files) /\ \A v \in Threads \ {0} : files'[v] = files[v]
    BY <1>1, <1>6, StoredIs
  <2>3. pc'[0] = "flush"
    BY <1>2, <1>6 DEF Goto
  <2>4. faults' = 0 => KeysTaken(table)
    BY <1>2, <1>6 DEF Refused
  <2> QED
    BY <1>4, <2>1, <2>2, <2>3, <2>4
<1>7. CASE StoredBecomes(AfterLoop(unit)) /\ Goto(0, "failed")
  <2>1. Stored(load)' = AfterLoop(unit)[load]
    BY <1>1, <1>7, StoredIs
  <2>2. (~ToFiles => files' = files) /\ \A v \in Threads \ {0} : files'[v] = files[v]
    BY <1>1, <1>7, StoredIs
  <2>3. pc'[0] = "failed"
    BY <1>2, <1>7 DEF Goto
  <2> QED
    BY <1>1, <1>2, <1>4, <2>1, <2>2, <2>3 DEF unit
<1> QED
  BY <1>1, <1>2, <1>3, <1>5, <1>6, <1>7 DEF unit

LEMMA Flushed ==
    ASSUME TypeOK, NEW t \in Threads, Flush(t), NEW load \in Loads
    PROVE  LET unit == TablesOfUnit(Units[i[0]])
           IN  /\ t = 0 /\ pc[0] = "flush" /\ NextUnit(0) /\ UNCHANGED <<flags, k, errCh, command>>
               /\ ~ToFiles => files' = files
               /\ \A v \in Threads \ {0} : files'[v] = files[v]
               /\ load[1] \notin unit \/ Stored(load) # "written" => Stored(load)' = Stored(load)
               /\ faults' = 0 /\ load[1] \in unit /\ Stored(load) = "written"
                     /\ (\A table \in unit : ~KeysTaken(table)) => Stored(load)' = "all"
<1> DEFINE unit == Units[i[0]]
           Done(n) == {unit[m] : m \in 1 .. n}
           After(n) == [other \in Loads |->
                           IF other[1] \notin TablesOfUnit(unit) \/ Stored(other) # "written" THEN Stored(other)
                           ELSE IF other[1] \in Done(n) THEN "all" ELSE "part"]
<1>1. pc[t] = "flush" /\ NextUnit(t) /\ UNCHANGED <<flags, k, errCh, command>>
  BY Zenon DEF Flush, At
<1>2. t = 0 /\ faults \in Nat /\ 0 \in Threads
  BY <1>1, FlagsTyped DEF TypeOK, Generating
<1>3. PICK n \in 0 .. Len(unit) :
          /\ IF n = Len(unit) THEN UNCHANGED faults ELSE Refused(KeysTaken(unit[n + 1]))
          /\ StoredBecomes(After(n))
  <2>1. Flush(0)
    BY <1>2
  <2> QED
    BY <2>1, Zenon DEF Flush
<1>4. After(n)[load] = IF load[1] \notin TablesOfUnit(unit) \/ Stored(load) # "written" THEN Stored(load)
                       ELSE IF load[1] \in Done(n) THEN "all" ELSE "part"
  OBVIOUS
<1>5. Len(unit) \in Nat /\ DOMAIN unit = 1 .. Len(unit)
  <2>1. unit \in {<<"nation">>, <<"region">>, <<"customer">>, <<"supplier">>,
                  <<"part", "partsupp">>, <<"orders", "lineitem">>}
    <3>1. i[0] \in 1 .. Len(Units)
      BY <1>1, <1>2 DEF TypeOK, Generating
    <3>2. flags.workload = "tpch" => \A m \in 1 .. 6 : m = 1 \/ m = 2 \/ m = 3 \/ m = 4 \/ m = 5 \/ m = 6
      OBVIOUS
    <3>3. \A m \in 1 .. 3 : m = 1 \/ m = 2 \/ m = 3
      OBVIOUS
    <3> QED
      BY <3>1, <3>2, <3>3 DEF Units
  <2> QED
    BY <2>1
<1>6. faults' = 0 /\ (\A table \in TablesOfUnit(unit) : ~KeysTaken(table)) => n = Len(unit)
  <2>1. n # Len(unit) => unit[n + 1] \in TablesOfUnit(unit)
    BY <1>5 DEF TablesOfUnit
  <2>2. n # Len(unit) /\ faults' = 0 => KeysTaken(unit[n + 1])
    BY <1>2, <1>3 DEF Refused
  <2> QED
    BY <2>1, <2>2
<1>7. load[1] \in TablesOfUnit(unit) /\ n = Len(unit) => load[1] \in Done(n)
  BY <1>5 DEF TablesOfUnit
<1>8. /\ Stored(load)' = After(n)[load]
      /\ ~ToFiles => files' = files
      /\ \A v \in Threads \ {0} : files'[v] = files[v]
  <2> HIDE DEF After
  <2> QED
    BY <1>1, <1>3, StoredIs
<1> HIDE DEF After, Done, unit
<1> QED
  BY <1>1, <1>2, <1>4, <1>6, <1>7, <1>8 DEF unit

LEMMA LoadsOfUnit ==
    ASSUME ~IsTpcc, NEW m \in 1 .. Len(Units), NEW table \in TablesOfUnit(Units[m])
    PROVE  Of(table) \in Loads /\ Of(table)[1] = table /\ UnitOf(table) = m
<1>1. DOMAIN Units = 1 .. Len(Units)
  <2>1. flags.workload = "tpch" => DOMAIN Units = 1 .. 6 /\ Len(Units) = 6
    BY DEF Units
  <2>2. flags.workload # "tpch" => DOMAIN Units = 1 .. 3 /\ Len(Units) = 3
    BY DEF Units
  <2> QED
    BY <2>1, <2>2
<1>2. Of(table) \in Loads /\ Of(table)[1] = table
  BY <1>1 DEF Loads, Of
<1> QED
  BY <1>2, UnitsOfLoads

(* While nothing of TPC-C is loaded, these steps are taken. *)
LEMMA GeneratingSteps ==
    ASSUME TypeOK, Control, ~IsTpcc, command' = "loading", [PreparesNext]_vars
    PROVE  /\ command = "loading" /\ flags' = flags
           /\ \/ UNCHANGED <<flags, thread, data, errCh, faults>>
              \/ \E t \in Threads : Goroutine(t) /\ (InitThread(t) \/ DropTable(t) \/ Cleanup(t))
              \/ \E t \in Threads : Generator(t) /\ ~CheckNothing(t)
<1> USE DEF thread, data
<1>1. ASSUME NEW t \in Threads, Goroutine(t) \/ Generator(t)
      PROVE  command = "loading" /\ flags' = flags /\ pc[t] \notin {"initCheck", "check"}
  <2>1. flags' = flags /\ command' \in {command, "crashed"}
    BY <1>1, OthersStay
  <2> QED
    BY <2>1 DEF Control, ControlOf
<1>2. ASSUME NEW t \in Threads, Goroutine(t)  PROVE InitThread(t) \/ DropTable(t) \/ Cleanup(t)
  <2>1. pc[t] \notin Loading /\ pc[t] # "barrier" /\ ~IsTpcc
    BY DEF Control, ControlOf, HasBarrier
  <2> QED
    BY <1>1, <1>2, <2>1 DEF Goroutine, CreateTables, Wait, Load, InLoop, LoopEnds, InitCheck, Check, At, Loading
<1>3. ASSUME NEW t \in Threads, Generator(t)  PROVE ~CheckNothing(t)
  BY <1>1, <1>3 DEF CheckNothing, At
<1>4. CASE Main \/ ForceExit
  BY <1>4 DEF Main, PostPrepare, Analyze, Return, BeginChecks, ForceExit
<1>5. CASE Deadline \/ Signal \/ Terminated \/ UNCHANGED vars
  BY <1>5 DEF Deadline, Signal, Terminated, Unaffected, vars
<1>6. CASE \E t \in Threads : Goroutine(t) \/ Generator(t)
  BY <1>1, <1>2, <1>3, <1>6
<1> QED
  BY <1>4, <1>5, <1>6 DEF PreparesNext, Next

LEMMA GeneratedKept ==
    ASSUME TypeOK, Control, GeneratedInv, [PreparesNext]_vars  PROVE GeneratedInv'
<1> USE DEF thread, data
<1>0. flags' = flags
  BY FlagsStay
<1>1. SUFFICES ASSUME ~IsTpcc, command' = "loading"  PROVE GeneratedInv'
  BY <1>0, FlagsFixed DEF GeneratedInv
<1>2. /\ command = "loading" /\ Threads' = Threads /\ Loads' = Loads
      /\ (ToFiles' <=> ToFiles) /\ (Fresh' <=> Fresh) /\ (Cleans' <=> Cleans)
      /\ \A table : UnitOf(table)' = UnitOf(table)
  BY <1>0, <1>1, GeneratingSteps, FlagsFixed
<1>3. /\ pc \in [Threads -> Steps] /\ i \in [Threads -> Nat] /\ faults \in Nat /\ errCh \in BOOLEAN
      /\ 0 \in Threads
      /\ rows \in [Loads -> {"none", "part", "written", "all", "twice"}]
      /\ files \in [Threads -> [Loads -> {"none", "part", "written", "all", "twice", "stale"}]]
  BY FlagsTyped DEF TypeOK
<1> DEFINE Said == /\ faults = 0 /\ Well(0)
                   /\ \/ ToFiles /\ pc[0] \notin {"init", "drop", "create"}
                      \/ ~ToFiles /\ Fresh /\ pc[0] \notin {"init", "drop"}
<1>4. ASSUME NEW load \in Loads
      PROVE  /\ \A t \in Threads \ {0} : ToFiles => files[t][load] = "none"
             /\ faults = 0 /\ ~ToFiles /\ ~Fresh => rows[load] = "all"
             /\ flags.before = "absent" /\ ~ToFiles /\ pc[0] \in {"init", "drop"} => rows[load] = "none"
             /\ Said => Stored(load) = Expected(UnitOf(load[1]))
  BY <1>1, <1>2 DEF GeneratedInv
<1>5. SUFFICES ASSUME NEW load \in Loads
      PROVE  /\ \A t \in Threads \ {0} : ToFiles => files'[t][load] = "none"
             /\ faults' = 0 /\ ~ToFiles /\ ~Fresh => rows'[load] = "all"
             /\ flags.before = "absent" /\ ~ToFiles /\ pc'[0] \in {"init", "drop"} => rows'[load] = "none"
             /\ Said' => Stored(load)' = Expected(UnitOf(load[1]))'
  <2>1. GeneratedInv' <=>
          /\ ToFiles => \A t \in Threads \ {0} : \A load \in Loads : files'[t][load] = "none"
          /\ faults' = 0 /\ ~ToFiles /\ ~Fresh => \A load \in Loads : rows'[load] = "all"
          /\ flags.before = "absent" /\ ~ToFiles /\ pc'[0] \in {"init", "drop"} =>
                \A load \in Loads : rows'[load] = "none"
          /\ Said' => \A load \in Loads : Stored(load)' = Expected(UnitOf(load[1]))'
    BY <1>0, <1>1, <1>2, FlagsFixed DEF GeneratedInv
  <2> HIDE DEF Said
  <2> QED
    BY <1>5, <2>1
<1>6. UnitOf(load[1]) \in 1 .. Len(Units) /\ load = Of(load[1])
  BY <1>1, UnitsOfLoads
<1> DEFINE m == UnitOf(load[1])
<1>7. UNCHANGED <<rows, files>> => Stored(load)' = Stored(load)
  BY <1>2 DEF Stored
<1> DEFINE Goal == /\ \A v \in Threads \ {0} : ToFiles => files'[v][load] = "none"
                   /\ faults' = 0 /\ ~ToFiles /\ ~Fresh => rows'[load] = "all"
                   /\ flags.before = "absent" /\ ~ToFiles /\ pc'[0] \in {"init", "drop"} => rows'[load] = "none"
                   /\ Said' => Stored(load)' = Expected(UnitOf(load[1]))'
<1>8. Expected(UnitOf(load[1]))' =
         IF pc'[0] \in {"finish", "cleanup", "done"} THEN "all"
         ELSE IF pc'[0] = "create" THEN "none"
         ELSE IF m < i'[0] THEN "all"
         ELSE IF m = i'[0] /\ pc'[0] = "flush" THEN "written" ELSE "none"
  BY <1>2 DEF Expected
<1>9. ASSUME faults' = 0 => faults = 0, errCh => errCh', pc'[0] = pc[0], i'[0] = i[0], UNCHANGED <<rows, files>>
      PROVE  Goal
  <2>1. Said' => Said
    BY <1>2, <1>9 DEF Well
  <2>2. Expected(UnitOf(load[1]))' = Expected(m)
    BY <1>8, <1>9 DEF Expected
  <2> HIDE DEF Said, m
  <2> QED
    BY <1>4, <1>7, <1>9, <2>1, <2>2 DEF m
<1>10. ASSUME UNCHANGED <<flags, thread, data, errCh, faults>>  PROVE Goal
  BY <1>9, <1>10
<1>11. ASSUME NEW t \in Threads, Goroutine(t) \/ Generator(t)
       PROVE  /\ faults' = 0 => faults = 0
              /\ \A u \in Threads : u # t => pc'[u] = pc[u] /\ i'[u] = i[u]
              /\ errCh => errCh'
  BY <1>3, <1>11, OthersStay
<1>12. ASSUME NEW t \in Threads, Goroutine(t), InitThread(t)  PROVE Goal
  <2>1. /\ pc[t] = "init" /\ pc'[t] = IF flags.dropData THEN "drop" ELSE "create"
        /\ UNCHANGED <<rows, files, errCh, faults, i>>
    BY <1>1, <1>2, <1>3, <1>12 DEF InitThread, CreateFiles, Crash, Goto, At
  <2>2. CASE t # 0
    BY <1>3, <1>9, <1>11, <1>12, <2>1, <2>2
  <2>3. CASE t = 0
    <3>1. Said' => ~ToFiles /\ flags.before = "absent" /\ pc'[0] = "create"
      BY <1>0, <1>2, <2>1, <2>3 DEF Fresh
    <3>2. Said' => Stored(load)' = "none"
      BY <1>4, <1>7, <2>1, <2>3, <3>1 DEF Stored
    <3>3. Said' => Expected(UnitOf(load[1]))' = "none"
      BY <1>8, <3>1
    <3> HIDE DEF Said
    <3> QED
      BY <1>4, <2>1, <2>3, <3>2, <3>3
  <2> QED
    BY <2>2, <2>3
<1>13. ASSUME NEW t \in Threads, Goroutine(t), DropTable(t)  PROVE Goal
  <2>1. CASE t # 0 \/ ~Cleans
    <3>1. Goto(t, "create") /\ UNCHANGED <<rows, files, faults, errCh, i>> /\ pc[t] = "drop"
      BY <1>13, <2>1 DEF DropTable, At
    <3>2. CASE t # 0
      BY <1>3, <1>9, <1>11, <1>13, <3>1, <3>2
    <3>3. CASE t = 0
      <4>1. pc[0] = "drop" /\ pc'[0] = "create" /\ ~Cleans
        BY <1>3, <2>1, <3>1, <3>3 DEF Goto
      <4>2. Said' => ~ToFiles /\ flags.before = "absent"
        BY <1>0, <1>2, <4>1 DEF Fresh
      <4>3. Said' => Stored(load)' = "none"
        BY <1>4, <1>7, <3>1, <4>1, <4>2 DEF Stored
      <4>4. Expected(UnitOf(load[1]))' = "none"
        BY <1>8, <4>1
      <4> HIDE DEF Said
      <4> QED
        BY <1>4, <3>1, <4>1, <4>3, <4>4
    <3> QED
      BY <3>2, <3>3
  <2>2. CASE t = 0 /\ Cleans
    <3>1. pc[0] = "drop" /\ flags.dropData /\ Fresh /\ files' = files /\ UNCHANGED <<errCh, i>>
      BY <1>3, <1>13, <2>2 DEF DropTable, At, Control, ControlOf, Fresh
    <3>2. \/ Goto(0, "create") /\ rows' = [other \in Loads |-> "none"] /\ UNCHANGED faults
          \/ Goto(0, "failed") /\ rows' = rows
      BY <1>13, <2>2 DEF DropTable
    <3>3. CASE Goto(0, "create") /\ rows' = [other \in Loads |-> "none"] /\ UNCHANGED faults
      <4>1. pc'[0] = "create" /\ rows'[load] = "none"
        BY <1>3, <3>3 DEF Goto
      <4>2. Said' => Stored(load)' = "none"
        BY <1>2, <4>1 DEF Stored
      <4>3. Expected(UnitOf(load[1]))' = "none"
        BY <1>8, <4>1
      <4> HIDE DEF Said
      <4> QED
        BY <1>4, <3>1, <4>1, <4>2, <4>3
    <3>4. CASE Goto(0, "failed") /\ rows' = rows
      <4>1. pc'[0] = "failed" /\ ~Said'
        BY <1>3, <3>4 DEF Goto, Well
      <4> HIDE DEF Said
      <4> QED
        BY <1>4, <3>1, <3>4, <4>1
    <3> QED
      BY <3>2, <3>3, <3>4
  <2> QED
    BY <2>1, <2>2
<1>14. ASSUME NEW t \in Threads, Goroutine(t), Cleanup(t)  PROVE Goal
  <2>1. /\ pc[t] \in {"cleanup", "failed"} /\ Goto(t, "done") /\ UNCHANGED <<rows, files, faults, i>>
        /\ errCh' = (errCh \/ pc[t] = "failed")
    BY <1>14 DEF Cleanup, At
  <2>2. CASE t # 0
    BY <1>3, <1>9, <1>11, <1>14, <2>1, <2>2
  <2>3. CASE t = 0
    <3>1. pc'[0] = "done" /\ pc[0] \in {"cleanup", "failed"}
      BY <1>3, <2>1, <2>3 DEF Goto
    <3>2. Said' => Said /\ pc[0] = "cleanup"
      BY <1>2, <2>1, <2>3, <3>1 DEF Well
    <3>3. Said' => Stored(load)' = "all"
      <4>1. pc[0] = "cleanup" => Expected(m) = "all"
        BY DEF Expected
      <4> HIDE DEF Said
      <4> QED
        BY <1>4, <1>7, <2>1, <3>2, <4>1
    <3>4. Expected(UnitOf(load[1]))' = "all"
      BY <1>8, <3>1
    <3> HIDE DEF Said
    <3> QED
      BY <1>4, <2>1, <3>1, <3>3, <3>4
  <2> QED
    BY <2>2, <2>3
<1>15. ASSUME NEW t \in Threads, Generator(t), CreateTpchTables(t)  PROVE Goal
  <2>1. pc[t] = "create" /\ UNCHANGED errCh /\ ~Crash
    BY <1>1, <1>2, <1>15 DEF CreateTpchTables, At, Crash
  <2>2. CASE t # 0
    <3>1. UNCHANGED <<rows, files>>
      BY <1>15, <2>1, <2>2 DEF CreateTpchTables
    <3> QED
      BY <1>3, <1>9, <1>11, <1>15, <2>2, <3>1
  <2>3. CASE t = 0 /\ Goto(0, "failed") /\ UNCHANGED <<rows, files>>
    <3>1. pc'[0] = "failed" /\ ~Said' /\ (faults' = 0 => faults = 0)
      BY <1>3, <1>11, <1>15, <2>3 DEF Goto, Well
    <3> HIDE DEF Said
    <3> QED
      BY <1>4, <2>3, <3>1
  <2>4. CASE /\ t = 0 /\ Goto(0, "generate") /\ i' = [i EXCEPT ![0] = 1] /\ rows' = rows /\ faults' = faults
             /\ files' = IF ToFiles THEN [files EXCEPT ![0] = [other \in Loads |-> "none"]] ELSE files
    <3>1. pc'[0] = "generate" /\ i'[0] = 1
      BY <1>3, <2>4 DEF Goto
    <3>2. /\ \A v \in Threads \ {0} : files'[v] = files[v]
          /\ ToFiles => files'[0][load] = "none"
          /\ ~ToFiles => files' = files
      BY <1>3, <2>4
    <3>3. Expected(UnitOf(load[1]))' = "none"
      BY <1>6, <1>8, <3>1
    <3>4. Said' /\ ~ToFiles => rows[load] = "none"
      <4>1. Said' /\ ~ToFiles => Said
        BY <1>2, <2>1, <2>4 DEF Well
      <4>2. Expected(m) = "none"
        BY <2>1, <2>4 DEF Expected
      <4> HIDE DEF Said
      <4> QED
        BY <1>4, <4>1, <4>2 DEF Stored
    <3>5. Said' => Stored(load)' = "none"
      <4> HIDE DEF Said
      <4> QED
        BY <1>2, <2>4, <3>2, <3>4 DEF Stored
    <3> HIDE DEF Said
    <3> QED
      BY <1>4, <2>4, <3>1, <3>2, <3>3, <3>5
  <2> QED
    BY <1>15, <2>1, <2>2, <2>3, <2>4 DEF CreateTpchTables
<1>16. ASSUME ~ToFiles, NEW w \in {"none", "written"}, pc[0] \in Generating,
              \A other \in Loads : UnitOf(other[1]) = i[0] => Stored(other) = w
       PROVE  \A table \in TablesOfUnit(Units[i[0]]) : ~KeysTaken(table)
  <2>1. i[0] \in 1 .. Len(Units)
    BY <1>3, <1>16 DEF TypeOK
  <2>2. SUFFICES ASSUME NEW table \in TablesOfUnit(Units[i[0]])  PROVE rows[Of(table)] # "all"
    BY DEF KeysTaken
  <2>3. Of(table) \in Loads /\ UnitOf(Of(table)[1]) = i[0]
    BY <1>1, <2>1, LoadsOfUnit
  <2> QED
    BY <1>16, <2>3 DEF Stored
<1>17. pc[0] \in Generating => ((load[1] \in TablesOfUnit(Units[i[0]])) <=> (m = i[0]))
  <2>1. pc[0] \in Generating => i[0] \in 1 .. Len(Units)
    BY <1>3 DEF TypeOK
  <2> QED
    BY <1>1, <2>1, UnitsOfLoads
<1>18. ASSUME NEW t \in Threads, Generator(t), Generate(t)  PROVE Goal
  <2> DEFINE unit == TablesOfUnit(Units[i[0]])
  <2>1. /\ t = 0 /\ pc[0] = "generate" /\ UNCHANGED <<flags, i, k, errCh, command>>
        /\ ~ToFiles => files' = files
        /\ \A v \in Threads \ {0} : files'[v] = files[v]
        /\ load[1] \notin unit \/ KeysTaken(load[1]) => Stored(load)' = Stored(load)
        /\ faults' = 0 /\ load[1] \in unit /\ (\A table \in unit : ~KeysTaken(table)) =>
              \/ pc'[0] = "flush" /\ Stored(load)' = "written"
              \/ pc'[0] = "failed"
        /\ pc'[0] \in {"flush", "failed"}
    BY <1>18, Generated, Zenon
  <2>2. faults' = 0 => faults = 0
    BY <1>11, <1>18
  <2>3. faults' = 0 /\ ~ToFiles /\ ~Fresh => rows'[load] = "all"
    <3>1. rows[load] = "all" /\ ~ToFiles => KeysTaken(load[1]) /\ Stored(load) = rows[load] /\ Stored(load)' = rows'[load]
      BY <1>2, <1>6 DEF KeysTaken, Stored
    <3> QED
      BY <1>4, <2>1, <2>2, <3>1
  <2>4. Said' => Stored(load)' = Expected(UnitOf(load[1]))'
    <3>1. SUFFICES ASSUME Said'  PROVE Stored(load)' = Expected(UnitOf(load[1]))'
      OBVIOUS
    <3>2. Said /\ pc'[0] = "flush" /\ faults' = 0
      BY <1>2, <2>1, <2>2, <3>1 DEF Well
    <3> HIDE DEF Said
    <3>3. \A other \in Loads : Stored(other) = Expected(UnitOf(other[1]))
      BY <1>4, <3>2
    <3>4. Expected(UnitOf(load[1]))' = IF m < i[0] THEN "all" ELSE IF m = i[0] THEN "written" ELSE "none"
      BY <1>8, <2>1, <3>2
    <3>5. CASE m = i[0]
      <4>1. \A other \in Loads : UnitOf(other[1]) = i[0] => Stored(other) = "none"
        BY <1>3, <2>1, <3>3 DEF Expected
      <4>2. \A table \in unit : ~KeysTaken(table)
        <5>1. ~ToFiles => \A table \in unit : ~KeysTaken(table)
          BY <1>16, <2>1, <4>1 DEF Generating
        <5> QED
          BY <5>1 DEF KeysTaken
      <4>3. load[1] \in unit
        BY <1>17, <2>1, <3>5 DEF Generating
      <4>4. m = i'[0] /\ ~(m < m)
        BY <1>3, <2>1, <3>5
      <4> QED
        BY <2>1, <3>2, <3>4, <3>5, <4>2, <4>3, <4>4
    <3>6. CASE m # i[0]
      <4>1. load[1] \notin unit
        BY <1>17, <2>1, <3>6 DEF Generating
      <4>2. Stored(load) = IF m < i[0] THEN "all" ELSE "none"
        BY <2>1, <3>3, <3>6 DEF Expected
      <4> QED
        BY <2>1, <3>4, <3>6, <4>1, <4>2
    <3> QED
      BY <3>5, <3>6
  <2> HIDE DEF Said, unit
  <2> QED
    BY <1>4, <2>1, <2>3, <2>4
<1>19. ASSUME NEW t \in Threads, Generator(t), Flush(t)  PROVE Goal
  <2> DEFINE unit == TablesOfUnit(Units[i[0]])
  <2>1. /\ t = 0 /\ pc[0] = "flush" /\ NextUnit(0) /\ UNCHANGED <<flags, k, errCh, command>>
        /\ ~ToFiles => files' = files
        /\ \A v \in Threads \ {0} : files'[v] = files[v]
        /\ load[1] \notin unit \/ Stored(load) # "written" => Stored(load)' = Stored(load)
        /\ faults' = 0 /\ load[1] \in unit /\ Stored(load) = "written"
              /\ (\A table \in unit : ~KeysTaken(table)) => Stored(load)' = "all"
    BY <1>19, Flushed, Zenon
  <2>2. faults' = 0 => faults = 0
    BY <1>11, <1>19
  <2>3. faults' = 0 /\ ~ToFiles /\ ~Fresh => rows'[load] = "all"
    <3>1. ~ToFiles => Stored(load) = rows[load] /\ Stored(load)' = rows'[load]
      BY <1>2 DEF Stored
    <3> QED
      BY <1>4, <2>1, <2>2, <3>1
  <2>4. /\ i[0] \in 1 .. Len(Units) /\ Len(Units) \in Nat
        /\ \/ i[0] < Len(Units) /\ pc'[0] = "generate" /\ i'[0] = i[0] + 1
           \/ i[0] = Len(Units) /\ pc'[0] = "finish"
    <3>1. i[0] \in 1 .. Len(Units) /\ Len(Units) \in Nat
      BY <1>3, <2>1, UnitsTyped DEF TypeOK, Generating
    <3> QED
      BY <1>3, <2>1, <3>1 DEF NextUnit, Goto
  <2>5. Said' => Stored(load)' = Expected(UnitOf(load[1]))'
    <3>1. SUFFICES ASSUME Said'  PROVE Stored(load)' = Expected(UnitOf(load[1]))'
      OBVIOUS
    <3>2. Said /\ faults' = 0
      BY <1>2, <2>1, <2>2, <3>1 DEF Well
    <3> HIDE DEF Said
    <3>3. \A other \in Loads : Stored(other) = Expected(UnitOf(other[1]))
      BY <1>4, <3>2
    <3>4. Expected(UnitOf(load[1]))' = IF m <= i[0] THEN "all" ELSE "none"
      BY <1>6, <1>8, <2>4
    <3>5. CASE m = i[0]
      <4>1. \A other \in Loads : UnitOf(other[1]) = i[0] => Stored(other) = "written"
        BY <1>3, <2>1, <3>3 DEF Expected
      <4>2. \A table \in unit : ~KeysTaken(table)
        <5>1. ~ToFiles => \A table \in unit : ~KeysTaken(table)
          BY <1>16, <2>1, <4>1 DEF Generating
        <5> QED
          BY <5>1 DEF KeysTaken
      <4>3. load[1] \in unit
        BY <1>17, <2>1, <3>5 DEF Generating
      <4>4. m <= i[0]
        BY <2>4, <3>5
      <4> QED
        BY <2>1, <3>2, <3>4, <3>5, <4>1, <4>2, <4>3, <4>4
    <3>6. CASE m # i[0]
      <4>1. load[1] \notin unit
        BY <1>17, <2>1, <3>6 DEF Generating
      <4>2. Stored(load) = IF m < i[0] THEN "all" ELSE "none"
        BY <2>1, <3>3, <3>6 DEF Expected
      <4>3. m < i[0] <=> m <= i[0]
        BY <1>6, <2>4, <3>6
      <4> QED
        BY <2>1, <3>4, <3>6, <4>1, <4>2, <4>3
    <3> QED
      BY <3>5, <3>6
  <2> HIDE DEF Said, unit
  <2> QED
    BY <1>4, <2>1, <2>3, <2>4, <2>5
<1>20. ASSUME NEW t \in Threads, Generator(t), Finish(t)  PROVE Goal
  <2>1. /\ pc[t] = "finish" /\ t = 0 /\ UNCHANGED <<rows, files, errCh, i>>
        /\ Goto(t, "cleanup") \/ Goto(t, "failed")
    <3>1. pc[t] = "finish" /\ UNCHANGED <<rows, files, errCh, i>> /\ (Goto(t, "cleanup") \/ Goto(t, "failed"))
      BY <1>20 DEF Finish, At
    <3> QED
      BY <3>1 DEF TypeOK, Generating
  <2>2. pc'[0] \in {"cleanup", "failed"} /\ (faults' = 0 => faults = 0)
    BY <1>3, <1>11, <1>20, <2>1 DEF Goto
  <2>3. Said' => Said /\ pc'[0] = "cleanup"
    BY <1>2, <2>1, <2>2 DEF Well
  <2>4. Expected(m) = "all" /\ (pc'[0] = "cleanup" => Expected(UnitOf(load[1]))' = "all")
    BY <1>8, <2>1 DEF Expected
  <2> HIDE DEF Said
  <2> QED
    BY <1>4, <1>7, <2>1, <2>2, <2>3, <2>4
<1> HIDE DEF Goal
<1>21. Goal
  <2>1. CASE \E t \in Threads : Goroutine(t) /\ (InitThread(t) \/ DropTable(t) \/ Cleanup(t))
    BY <2>1, <1>12, <1>13, <1>14
  <2>2. CASE \E t \in Threads : Generator(t) /\ ~CheckNothing(t)
    BY <2>2, <1>15, <1>18, <1>19, <1>20 DEF Generator
  <2>3. CASE UNCHANGED <<flags, thread, data, errCh, faults>>
    BY <1>10, <2>3
  <2>4. \/ UNCHANGED <<flags, thread, data, errCh, faults>>
        \/ \E t \in Threads : Goroutine(t) /\ (InitThread(t) \/ DropTable(t) \/ Cleanup(t))
        \/ \E t \in Threads : Generator(t) /\ ~CheckNothing(t)
    BY <1>1, GeneratingSteps
  <2> QED
    BY <2>1, <2>2, <2>3, <2>4
<1> QED
  BY <1>21 DEF Goal

------------------------------------------------------------------------------
(* After the loads. *)

LEMMA FaultsGrow ==
    ASSUME TypeOK, [PreparesNext]_vars
    PROVE  faults' \in Nat /\ faults' >= faults /\ (ctx # "live" => ctx' # "live")
<1> USE DEF thread, data
<1>0. faults \in Nat
  BY DEF TypeOK
<1>1. CASE \E t \in Threads : Goroutine(t) \/ Generator(t)
  BY <1>0, <1>1, OthersStay
<1>2. CASE Main
  BY <1>0, <1>2 DEF Main, PostPrepare, Analyze, Return, Refused
<1>3. CASE Deadline \/ Signal \/ ForceExit \/ Terminated \/ UNCHANGED vars
  BY <1>0, <1>3 DEF Deadline, Signal, ForceExit, Terminated, Unaffected, vars
<1> QED
  BY <1>1, <1>2, <1>3 DEF PreparesNext, Next

(* When the loads are over and none has failed, all rows are there. *)
LEMMA LoadsComplete ==
    ASSUME TypeOK, Control, RowsInv, FilesInv, GeneratedInv, command = "loading", AllDone, ~errCh,
           IsTpcc \/ faults = 0, NEW load \in Loads
    PROVE  Complete(load)
<1>1. 0 \in Threads /\ \A t \in Threads : pc[t] = "done" /\ Well(t) /\ Past(t, load)
  BY PastAtEnds, FlagsTyped DEF TypeOK, AllDone, Well
<1>2. CASE IsTpcc /\ ~ToFiles
  <2>1. Fresh
    BY <1>1, <1>2 DEF RowsInv
  <2>2. 0 \in arrived
    BY <1>1, <1>2, FlagsTyped DEF TypeOK, Control, ControlOf, HasBarrier
  <2>3. Owner(load) \in Threads
    BY <1>2, OwnersAreThreads
  <2>4. rows[load] = "all"
    BY <1>1, <1>2, <2>1, <2>2, <2>3 DEF RowsInv
  <2> QED
    BY <1>2, <2>4 DEF Complete
<1>3. CASE IsTpcc /\ ToFiles
  <2>1. Owner(load) \in Threads
    BY <1>3, OwnersAreThreads
  <2>2. SUFFICES ASSUME Selected(load)
                 PROVE  /\ files[Owner(load)][load] = "all"
                        /\ \A other \in Threads \ {Owner(load)} : files[other][load] = "none"
    BY <1>3, <2>1 DEF Complete
  <2> QED
    BY <1>1, <1>3, <2>1, <2>2 DEF FilesInv
<1>4. CASE ~IsTpcc
  <2>1. \/ Stored(load) = Expected(UnitOf(load[1]))
        \/ ~ToFiles /\ rows[load] = "all"
    BY <1>1, <1>4 DEF GeneratedInv
  <2>2. Expected(UnitOf(load[1])) = "all"
    BY <1>1 DEF Expected
  <2>3. Stored(load) = "all"
    BY <2>1, <2>2 DEF Stored
  <2>4. CASE ToFiles
    <3>1. files[0][load] = "all" /\ \A other \in Threads \ {0} : files[other][load] = "none"
      BY <1>4, <2>3, <2>4 DEF GeneratedInv, Stored
    <3> QED
      BY <1>1, <2>4, <3>1 DEF Complete
  <2>5. CASE ~ToFiles
    BY <2>3, <2>5 DEF Complete, Stored
  <2> QED
    BY <2>4, <2>5
<1> QED
  BY <1>2, <1>3, <1>4

LEMMA PostKept ==
    ASSUME TypeOK, Control, RowsInv, FilesInv, GeneratedInv, PostStepsSeeAllRows, [PreparesNext]_vars
    PROVE  PostStepsSeeAllRows'
<1> USE DEF thread, data
<1>1. flags' = flags /\ Loads' = Loads /\ Threads' = Threads /\ (IsTpcc' <=> IsTpcc)
  BY FlagsStay, FlagsFixed
<1>2. faults \in Nat /\ faults' \in Nat /\ (faults' = 0 => faults = 0)
  BY FaultsGrow DEF TypeOK
<1>3. SUFFICES ASSUME command' \in {"analyzing", "checking", "ok"}, IsTpcc \/ faults = 0
               PROVE  \A load \in Loads : Complete(load)'
  BY <1>1, <1>2 DEF PostStepsSeeAllRows
<1>4. \/ UNCHANGED <<rows, files>> /\ command \in {"analyzing", "checking", "ok"}
      \/ UNCHANGED <<rows, files>> /\ command = "loading" /\ AllDone /\ ~errCh
  <2>1. CASE \E t \in Threads : Goroutine(t) \/ Generator(t)
    <3>1. PICK t \in Threads : Goroutine(t) \/ Generator(t)
      BY <2>1
    <3>2. command = command' /\ pc[t] \in {"initCheck", "check"}
      BY <1>3, <3>1, OthersStay DEF Control, ControlOf
    <3>3. ~(Generate(t) \/ Flush(t) \/ Finish(t) \/ CreateTpchTables(t))
      BY <3>2, Zenon DEF Generate, Flush, Finish, CreateTpchTables, At
    <3>4. InitCheck(t) \/ Check(t) \/ CheckNothing(t)
      BY <3>1, <3>2, <3>3 DEF Goroutine, Generator, InitThread, DropTable, CreateTables, Wait, Load, InLoop,
                              LoopEnds, Cleanup, At
    <3>5. UNCHANGED <<rows, files>>
      BY <3>4 DEF InitCheck, Check, CheckNothing, Crash
    <3> QED
      BY <1>3, <3>2, <3>5
  <2>2. CASE Main
    BY <1>3, <2>2 DEF Main, PostPrepare, Analyze, Return
  <2>3. CASE Deadline \/ Signal \/ ForceExit \/ Terminated \/ UNCHANGED vars
    BY <1>3, <2>3 DEF Deadline, Signal, ForceExit, Terminated, Unaffected, vars
  <2> QED
    BY <2>1, <2>2, <2>3 DEF PreparesNext, Next
<1>5. \A load \in Loads : Complete(load)
  BY <1>3, <1>4, LoadsComplete DEF PostStepsSeeAllRows
<1>6. ASSUME NEW load \in Loads  PROVE Complete(load)'
  <2>1. Complete(load)
    BY <1>5
  <2>2. UNCHANGED <<rows, files>>
    BY <1>4
  <2> QED
    BY <1>1, <2>1, <2>2, FlagsFixed DEF Complete
<1> QED
  BY <1>1, <1>6

------------------------------------------------------------------------------
(* Why a thread fails. *)

(* A thread loads what a load refers to before it loads that. *)
LEMMA ReferencesPast ==
    ASSUME TypeOK, Control, IsTpcc, NEW t \in Threads, InLoop(t), flags.threads = 1,
           NEW other \in References(Current(t))
    PROVE  other \in Loads /\ Past(t, other) /\ Owner(other) = t
<1>0. t = 0 /\ Threads = {0}
  BY DEF Threads
<1>1. ASSUME other \in Loads, Past(t, other)  PROVE other \in Loads /\ Past(t, other) /\ Owner(other) = t
  BY <1>0, <1>1, OwnersAreThreads
<1> DEFINE D == DistrictPerWarehouse
<1>2. D \in Nat \ {0} /\ flags.warehouses \in Nat \ {0}
  BY FlagsTyped DEF TypeOK
<1>3. PICK n \in Nat, x \in Nat : n = k[t] /\ x = i[t]
  BY Lengths DEF TypeOK
<1>4. CASE pc[t] = "item"
  BY <1>4 DEF Current, References, Item
<1>5. CASE pc[t] = "warehouses"
  <2>1. AtPlace(Current(t), "warehouses", x, n)
    BY <1>3, <1>5, CurrentPlace
  <2>2. n \in 1 .. 3 /\ x < flags.warehouses /\ Current(t) = <<WarehouseTables[n], x + 1, 0>>
    BY <2>1 DEF AtPlace
  <2>3. /\ n = 1 => Current(t)[1] = "warehouse"
        /\ n = 2 => Current(t)[1] = "stock"
        /\ n = 3 => Current(t)[1] = "district"
        /\ Current(t)[2] = x + 1
    BY <2>2 DEF WarehouseTables
  <2>4. (other = <<"warehouse", x + 1, 0>> /\ n > 1) \/ other = Item
    BY <2>2, <2>3 DEF References
  <2>5. CASE other = Item
    BY <1>1, <1>5, <2>5, ItemIsLoad DEF Past, Rank, PhaseOf
  <2>6. CASE other = <<"warehouse", x + 1, 0>> /\ n > 1
    <3>1. AtPlace(other, "warehouses", x, 1)
      BY <1>2, <2>2, <2>6 DEF AtPlace, WarehouseTables
    <3>2. other \in Loads /\ PhaseOf(other) = "warehouses" /\ Number(other) = x /\ PlaceOf(other[1]) = 1
      BY <3>1, PlaceTells
    <3> QED
      BY <1>1, <1>3, <1>5, <2>6, <3>2 DEF Past
  <2> QED
    BY <2>4, <2>5, <2>6
<1>6. CASE pc[t] = "districts"
  <2>1. AtPlace(Current(t), "districts", x, n)
    BY <1>3, <1>6, CurrentPlace
  <2>2. PICK w \in Nat, d \in Nat : w = x \div D + 1 /\ d = (x % D) + 1
    <3>1. x \div D \in Nat /\ x % D \in Nat
      BY <1>2, DivMod, ModTyped
    <3> QED
      BY <3>1
  <2>3. n \in 1 .. 5 /\ x < Districts /\ Current(t) = <<DistrictTables[n], w, d>>
    BY <2>1, <2>2 DEF AtPlace
  <2>4. w \in Warehouses
    <3>1. Current(t)[2] \in Warehouses
      BY <2>1, PlaceTells
    <3> QED
      BY <2>3, <3>1
  <2>5. /\ n = 1 => Current(t)[1] = "customer"
        /\ n = 2 => Current(t)[1] = "history"
        /\ n = 3 => Current(t)[1] = "orders"
        /\ n = 4 => Current(t)[1] = "new_order"
        /\ n = 5 => Current(t)[1] = "order_line"
        /\ Current(t)[2] = w /\ Current(t)[3] = d
    BY <2>3 DEF DistrictTables
  <2>6. \/ other \in {<<"district", w, 0>>, <<"stock", w, 0>>}
        \/ other = <<"customer", w, d>> /\ n > 1
        \/ other = <<"orders", w, d>> /\ n > 3
    BY <2>3, <2>5 DEF References
  <2>7. CASE other \in {<<"district", w, 0>>, <<"stock", w, 0>>}
    <3>1. w - 1 \in Nat /\ w - 1 < flags.warehouses /\ w - 1 + 1 = w
      BY <1>2, <2>4 DEF Warehouses
    <3>2. AtPlace(other, "warehouses", w - 1, 3) \/ AtPlace(other, "warehouses", w - 1, 2)
      BY <2>7, <3>1 DEF AtPlace, WarehouseTables
    <3>3. other \in Loads /\ PhaseOf(other) = "warehouses"
      BY <3>2, PlaceTells
    <3> QED
      BY <1>1, <1>6, <3>3 DEF Past, Rank
  <2>8. ASSUME NEW p \in 1 .. 5, p < n, other = <<DistrictTables[p], w, d>>
        PROVE  other \in Loads /\ Past(t, other)
    <3>1. AtPlace(other, "districts", x, p)
      BY <2>2, <2>3, <2>8 DEF AtPlace
    <3>2. other \in Loads /\ PhaseOf(other) = "districts" /\ Number(other) = x /\ PlaceOf(other[1]) = p
      BY <3>1, PlaceTells
    <3> QED
      BY <1>3, <1>6, <2>8, <3>2 DEF Past
  <2>9. DistrictTables[1] = "customer" /\ DistrictTables[3] = "orders" /\ 1 \in 1 .. 5 /\ 3 \in 1 .. 5
    BY DEF DistrictTables
  <2> QED
    BY <1>1, <2>6, <2>7, <2>8, <2>9
<1> QED
  BY <1>4, <1>5, <1>6 DEF InLoop

LEMMA RejectedForCause ==
    ASSUME TypeOK, Control, TablesInv, RowsInv, command = "loading", ~ToFiles,
           NEW t \in Threads, InLoop(t), Rejected(Current(t))
    PROVE  Cause
<1> DEFINE c == Current(t)
<1>1. IsTpcc /\ pc[t] \in Loading /\ Well(t)
  BY DEF InLoop, Control, ControlOf, Loading, Well
<1>2. c \in Loads /\ Owner(c) = t /\ ~Past(t, c)
  BY <1>1, CurrentIsAhead
<1>3. flags.before \in {"absent", "plain", "referenced"} /\ flags.connected /\ HasBarrier /\ 0 \in Threads
  BY <1>1, FlagsTyped DEF TypeOK, HasBarrier
<1>4. SUFFICES ASSUME Fresh  PROVE Cause
  BY <1>3 DEF Cause, LeftOver, Fresh
<1>5. 0 \in arrived
  BY <1>1, <1>3 DEF Control, ControlOf
<1>6. \A load \in Loads : Well(Owner(load)) => rows[load] = IF Past(Owner(load), load) THEN "all" ELSE "none"
  BY <1>1, <1>4, <1>5 DEF RowsInv
<1>7. rows[c] = "none"
  BY <1>1, <1>2, <1>6
<1>8. CASE tables = "referenced" /\ \E other \in References(c) : rows[other] # "all"
  <2>1. flags.before = "referenced" \/ flags.useFK
    BY <1>8 DEF TablesInv
  <2>2. SUFFICES ASSUME flags.useFK, ~(flags.threads > 1)  PROVE Cause
    BY <2>1 DEF Cause
  <2>3. flags.threads = 1
    <3>1. flags.threads \in Nat \ {0}
      BY FlagsTyped DEF TypeOK
    <3> QED
      BY <2>2, <3>1
  <2>4. \A other \in References(c) : rows[other] = "all"
    BY <1>1, <1>6, <2>3, ReferencesPast
  <2> QED
    BY <1>8, <2>4
<1>9. CASE Partitioned /\ c[2] # 0 /\ ~Placed(flags.partitionType, flags.warehouses, flags.parts, c[2])
  <2>1. c # Item
    BY <1>9 DEF Item
  <2>2. c[2] \in Warehouses
    BY <1>1, <1>2, <2>1, LoadHasPlace, PlaceTells
  <2>3. Placed(flags.partitionType, flags.warehouses, flags.parts, c[2])
    <3> HIDE DEF c
    <3> QED
      BY <2>2, FlagsTyped, WarehousesPlaced DEF TypeOK, Warehouses
  <2> QED
    BY <1>9, <2>3
<1> QED
  BY <1>7, <1>8, <1>9 DEF Rejected

LEMMA CauseKept ==
    ASSUME TypeOK, Control, TablesInv, RowsInv, GeneratedInv, PostStepsSeeAllRows,
           CauseInv, FailsForCause, [PreparesNext]_vars
    PROVE  CauseInv' /\ FailsForCause'
<1> USE DEF thread, data
<1>0. /\ flags' = flags /\ faults \in Nat /\ faults' \in Nat /\ faults' >= faults
      /\ (ctx # "live" => ctx' # "live")
      /\ Threads' = Threads /\ (ToFiles' <=> ToFiles) /\ (Cleans' <=> Cleans)
      /\ (HasBarrier' <=> HasBarrier)
  BY FaultsGrow, FlagsStay, FlagsFixed DEF TypeOK
<1>1. /\ Cause => Cause'
      /\ faults' > faults => Cause'
      /\ ctx # "live" => Cause'
  BY <1>0 DEF Cause, LeftOver
<1>2. /\ pc \in [Threads -> Steps] /\ errCh \in BOOLEAN /\ 0 \in Threads
      /\ flags.before \in {"absent", "plain", "referenced"}
  BY FlagsTyped DEF TypeOK
<1>3. ASSUME NEW b \in BOOLEAN, Refused(b), b => Cause \/ ctx # "live"  PROVE Cause'
  BY <1>0, <1>1, <1>3 DEF Refused
<1>4. SUFFICES /\ errCh' /\ ~errCh => Cause'
               /\ \A t \in Threads : pc'[t] = "failed" /\ pc[t] # "failed" => Cause'
               /\ command' = "failed" /\ command # "failed" => Cause'
  BY <1>0, <1>1 DEF CauseInv, FailsForCause
<1> DEFINE Goal == /\ errCh' /\ ~errCh => Cause'
                   /\ \A t \in Threads : pc'[t] = "failed" /\ pc[t] # "failed" => Cause'
                   /\ command' = "failed" /\ command # "failed" => Cause'
<1>5. ASSUME NEW t \in Threads, Goroutine(t) \/ Generator(t),
             errCh' = errCh \/ Cause',
             pc'[t] # "failed" \/ Cause'
      PROVE  Goal
  <2>1. command' \in {command, "crashed"} /\ \A u \in Threads : u # t => pc'[u] = pc[u]
    BY <1>5, OthersStay
  <2> QED
    BY <1>5, <2>1
<1> HIDE DEF Goal
<1>6. ASSUME NEW t \in Threads, InitThread(t)  PROVE Goal
  <2>1. errCh' = errCh /\ pc'[t] # "failed"
    BY <1>2, <1>6 DEF InitThread, Crash, Goto, At
  <2> QED
    BY <1>5, <1>6, <2>1 DEF Goroutine
<1>7. ASSUME NEW t \in Threads, DropTable(t)  PROVE Goal
  <2>1. errCh' = errCh /\ pc[t] = "drop"
    BY <1>7 DEF DropTable, At
  <2>2. CASE Goto(t, "create")
    <3>1. pc'[t] # "failed"
      BY <1>2, <2>2 DEF Goto
    <3> QED
      BY <1>5, <1>7, <2>1, <3>1 DEF Goroutine
  <2>3. CASE Cleans /\ t = 0 /\ Refused(tables = "referenced")
    <3>1. tables = "referenced" => Cause
      <4>1. tables = "referenced" => flags.before = "referenced"
        BY <2>1, <2>3 DEF TablesInv
      <4>2. flags.before = "referenced" => IsTpcc
        BY FlagsTyped DEF TypeOK, Accepted, IsTpcc
      <4> QED
        BY <2>3, <4>1, <4>2 DEF Cause, Cleans
    <3>2. Cause'
      BY <1>3, <2>3, <3>1
    <3> QED
      BY <1>5, <1>7, <2>1, <3>2 DEF Goroutine
  <2> QED
    BY <1>7, <2>2, <2>3 DEF DropTable
<1>8. ASSUME NEW t \in Threads, CreateTables(t)  PROVE Goal
  <2>1. errCh' = errCh /\ pc[t] = "create"
    BY <1>8 DEF CreateTables, At
  <2>2. CASE BeginLoads(t) \/ Goto(t, "barrier")
    <3>1. pc'[t] # "failed"
      BY <1>2, <2>2 DEF BeginLoads, Goto, GotoLoop
    <3> QED
      BY <1>5, <1>8, <2>1, <3>1 DEF Goroutine
  <2>3. CASE t = 0 /\ flags.connected /\ Refused(~CanCreate)
    <3>1. ~CanCreate => Cause
      <4>1. WellFormed(flags.partitionType, flags.warehouses, flags.parts)
        BY FlagsTyped, PartitionsWellFormed DEF TypeOK
      <4>2. tables = IF Fresh THEN "absent" ELSE flags.before
        BY <2>1, <2>3 DEF TablesInv
      <4>3. IsTpcc /\ flags.connected
        BY <1>8, <2>3 DEF CreateTables
      <4>4. CASE flags.driver = "postgres" /\ tables # "absent"
        BY <1>2, <4>2, <4>3, <4>4 DEF Cause, LeftOver, Fresh, HasBarrier
      <4>5. CASE flags.useFK /\ tables = "referenced"
        BY <4>2, <4>5 DEF Cause
      <4> QED
        BY <4>1, <4>4, <4>5 DEF CanCreate
    <3>2. Cause'
      BY <1>3, <2>3, <3>1
    <3> QED
      BY <1>5, <1>8, <2>1, <3>2 DEF Goroutine
  <2> QED
    BY <1>8, <2>2, <2>3 DEF CreateTables
<1>9. ASSUME NEW t \in Threads, Wait(t) \/ LoopEnds(t)  PROVE Goal
  <2>1. errCh' = errCh /\ pc'[t] # "failed"
    BY <1>2, <1>9 DEF Wait, LoopEnds, BeginLoads, GotoLoop, Goto
  <2> QED
    BY <1>5, <1>9, <2>1 DEF Goroutine
<1>10. ASSUME NEW t \in Threads, Load(t)  PROVE Goal
  <2>1. errCh' = errCh /\ InLoop(t) /\ pc[t] \in Loading /\ command = "loading"
    BY <1>10 DEF Load, InLoop, Loading, Alive, Control, ControlOf
  <2>2. CASE Advance(t)
    <3>1. pc'[t] # "failed"
      BY <2>1, <2>2, AdvanceTyped DEF Loading
    <3> QED
      BY <1>5, <1>10, <2>1, <3>1 DEF Goroutine
  <2>3. CASE ~ToFiles /\ Refused(Rejected(Current(t)))
    <3>1. Rejected(Current(t)) => Cause
      BY <2>1, <2>3, RejectedForCause
    <3>2. Cause'
      BY <1>3, <2>3, <3>1 DEF Rejected
    <3> QED
      BY <1>5, <1>10, <2>1, <3>2 DEF Goroutine
  <2>4. CASE Refused(FALSE)
    <3>1. Cause'
      BY <1>3, <2>4
    <3> QED
      BY <1>5, <1>10, <2>1, <3>1 DEF Goroutine
  <2> QED
    BY <1>10, <2>2, <2>3, <2>4 DEF Load, LoadTable, LoadFile
<1>11. ASSUME NEW t \in Threads, Cleanup(t)  PROVE Goal
  <2>1. errCh' = (errCh \/ pc[t] = "failed") /\ pc'[t] = "done"
    BY <1>2, <1>11 DEF Cleanup, Goto
  <2>2. pc[t] = "failed" => Cause'
    BY <1>1 DEF CauseInv
  <2> QED
    BY <1>2, <1>5, <1>11, <2>1, <2>2 DEF Goroutine
<1>12. ASSUME NEW t \in Threads, InitCheck(t)  PROVE Goal
  <2>1. errCh' = errCh /\ pc'[t] # "failed"
    BY <1>2, <1>12 DEF InitCheck, Crash, Goto, At
  <2> QED
    BY <1>5, <1>12, <2>1 DEF Goroutine
<1>13. ASSUME NEW t \in Threads, Check(t)  PROVE Goal
  <2>1. pc[t] = "check" /\ IsTpcc /\ Alive
    BY <1>13 DEF Check, At
  <2>2. pc'[t] # "failed"
    BY <1>2, <2>1, <1>13 DEF Check, Goto
  <2>3. command = "checking" /\ ~ToFiles
    BY <2>1 DEF Control, ControlOf, Alive
  <2>4. \A w : Consistent(w)
    BY <2>1, <2>3 DEF PostStepsSeeAllRows, Complete, Consistent
  <2>5. errCh' = errCh \/ Cause'
    <3>1. errCh' = errCh \/ Refused(ctx # "live" \/ ~Consistent(WarehouseAt(i[t])))
      BY <1>13 DEF Check
    <3>2. Refused(ctx # "live" \/ ~Consistent(WarehouseAt(i[t]))) => Cause'
      BY <1>3, <2>4
    <3> QED
      BY <3>1, <3>2
  <2> QED
    BY <1>5, <1>13, <2>2, <2>5 DEF Goroutine
<1>14. ASSUME NEW t \in Threads, CreateTpchTables(t) \/ CheckNothing(t)  PROVE Goal
  <2>1. errCh' = errCh /\ (pc'[t] # "failed" \/ Refused(FALSE))
    BY <1>2, <1>14 DEF CreateTpchTables, CheckNothing, Goto, At, Crash
  <2>2. Refused(FALSE) => Cause'
    BY <1>3
  <2> QED
    BY <1>5, <1>14, <2>1, <2>2 DEF Generator
<1>15. ASSUME NEW t \in Threads, Generate(t)  PROVE Goal
  <2>1. pc[t] = "generate" /\ errCh' = errCh
    BY <1>15, Zenon DEF Generate, At
  <2>2. t = 0 /\ i[0] \in 1 .. Len(Units) /\ ~IsTpcc
    BY <2>1 DEF TypeOK, Generating
  <2>3. Goto(t, "flush") \/ \E table \in TablesOfUnit(Units[i[t]]) : Refused(KeysTaken(table))
    BY <1>15, Zenon DEF Generate
  <2>4. CASE Goto(t, "flush")
    <3>1. pc'[t] # "failed"
      BY <1>2, <2>4 DEF Goto
    <3> QED
      BY <1>5, <1>15, <2>1, <3>1 DEF Generator
  <2>5. ASSUME NEW table \in TablesOfUnit(Units[i[t]]), Refused(KeysTaken(table))  PROVE Goal
    <3>1. KeysTaken(table) => Cause
      <4>1. SUFFICES ASSUME ~ToFiles, rows[Of(table)] = "all"  PROVE Cause
        BY DEF KeysTaken
      <4>2. Of(table) \in Loads /\ Of(table)[1] = table /\ UnitOf(table) = i[0]
        BY <2>2, <2>5, LoadsOfUnit
      <4>3. command = "loading" /\ Well(0)
        BY <1>15, <2>1, <2>2, OthersStay DEF Generator, Alive, Control, ControlOf, Well
      <4>4. faults = 0 /\ Fresh => rows[Of(table)] = Expected(i[0])
        BY <2>1, <2>2, <4>1, <4>2, <4>3 DEF GeneratedInv, Stored
      <4>5. Expected(i[0]) = "none"
        BY <2>1, <2>2 DEF Expected
      <4>6. faults > 0 \/ ~Fresh
        BY <1>0, <4>1, <4>4, <4>5
      <4> QED
        BY <4>1, <4>6 DEF Cause, LeftOver, Fresh
    <3>2. Cause'
      BY <1>3, <2>5, <3>1 DEF KeysTaken
    <3> QED
      BY <1>5, <1>15, <2>1, <3>2 DEF Generator
  <2> QED
    BY <2>3, <2>4, <2>5
<1>16. ASSUME NEW t \in Threads, Flush(t)  PROVE Goal
  <2>1. errCh' = errCh /\ NextUnit(t)
    BY <1>16, Zenon DEF Flush
  <2>2. pc'[t] # "failed"
    BY <1>2, <2>1 DEF NextUnit, Goto
  <2> QED
    BY <1>5, <1>16, <2>1, <2>2 DEF Generator
<1>17. ASSUME NEW t \in Threads, Finish(t)  PROVE Goal
  <2> DEFINE viewExists == flags.workload = "ch" /\ flags.before # "absent"
  <2>1. errCh' = errCh /\ (Goto(t, "cleanup") \/ Refused(viewExists))
    BY <1>17 DEF Finish
  <2>2. Goto(t, "cleanup") => pc'[t] # "failed"
    BY <1>2 DEF Goto
  <2>3. viewExists => Cause
    <3>1. flags.workload = "ch" => ~ToFiles
      BY FlagsTyped DEF TypeOK, Accepted, ToFiles
    <3> QED
      BY <3>1 DEF Cause, LeftOver, Cleans
  <2>4. Refused(viewExists) => Cause'
    BY <1>3, <2>3
  <2> QED
    BY <1>5, <1>17, <2>1, <2>2, <2>4 DEF Generator
<1>18. ASSUME Main  PROVE Goal
  <2>1. errCh' = errCh
    BY <1>18 DEF Main, PostPrepare, Analyze, Return
  <2>2. \A t \in Threads : pc'[t] = "failed" => pc[t] = "failed"
    BY <1>2, <1>18 DEF Main, PostPrepare, Analyze, Return, BeginChecks
  <2>3. command' = "failed" => errCh \/ Refused(ctx # "live")
    BY <1>18 DEF Main, PostPrepare, Analyze, Return, BeginChecks
  <2>4. errCh \/ Refused(ctx # "live") => Cause'
    BY <1>1, <1>3 DEF CauseInv
  <2> QED
    BY <2>1, <2>2, <2>3, <2>4 DEF Goal
<1>19. ASSUME Deadline \/ Signal \/ ForceExit \/ Terminated \/ UNCHANGED vars  PROVE Goal
  BY <1>19 DEF Deadline, Signal, ForceExit, Terminated, Unaffected, vars, Goal
<1>20. Goal
  BY <1>6, <1>7, <1>8, <1>9, <1>10, <1>11, <1>12, <1>13, <1>14, <1>15, <1>16, <1>17, <1>18, <1>19
     DEF PreparesNext, Next, Goroutine, Generator
<1> QED
  BY <1>20 DEF Goal

------------------------------------------------------------------------------
(* The prepare commands. *)

(* No thread loads before the tables are there; it stays so when the process dies. *)
LEMMA TablesFirst ==
    ASSUME TypeOK, Control, TablesBeforeRows, [PreparesNext]_vars, Control', TablesInv'
    PROVE  TablesBeforeRows'
<1> USE DEF thread, data
<1>0. flags' = flags /\ Threads' = Threads /\ (HasBarrier' <=> HasBarrier)
  BY FlagsStay, FlagsFixed
<1>1. CASE command' = "loading"
  <2>1. SUFFICES ASSUME HasBarrier', NEW t \in Threads', (pc[t] \in Loading)'
        PROVE  tables' # "absent" /\ \A other \in Threads' : pc'[other] \notin {"init", "drop", "create"}
    BY DEF TablesBeforeRows
  <2>2. (arrived = Threads)'
    BY <1>1, <2>1 DEF Control, ControlOf
  <2>3. 0 \in Threads'
    BY <1>0, FlagsTyped DEF TypeOK
  <2> QED
    BY <2>2, <2>3 DEF Control, ControlOf, TablesInv
<1>2. CASE command' \in {"analyzing", "checking", "ok"}
  BY <1>2 DEF Control, ControlOf, TablesBeforeRows, Loading
<1>3. CASE command' \notin {"loading", "analyzing", "checking", "ok"}
  <2>1. UNCHANGED <<pc, tables>>
    <3>1. CASE \E t \in Threads : Goroutine(t) \/ Generator(t)
      <4>1. PICK t \in Threads : Goroutine(t) \/ Generator(t)
        BY <3>1
      <4>2. command' = "crashed" /\ Alive /\ command' # command
        BY <1>3, <4>1, OthersStay DEF Alive
      <4>3. InitThread(t) \/ InitCheck(t) \/ CreateTpchTables(t)
        <5>1. ~(Generate(t) \/ Flush(t) \/ Finish(t))
          BY <4>2, Zenon DEF Generate, Flush, Finish
        <5> QED
          BY <4>1, <4>2, <5>1 DEF Goroutine, Generator, DropTable, CreateTables, Wait, Load, LoopEnds, Cleanup, Check,
                                  CheckNothing
      <4> QED
        BY <4>2, <4>3 DEF InitThread, InitCheck, CreateTpchTables, Crash
    <3>2. CASE Main
      BY <1>3, <3>2 DEF Main, PostPrepare, Analyze, Return, BeginChecks
    <3>3. CASE Deadline \/ Signal \/ ForceExit \/ Terminated \/ UNCHANGED vars
      BY <3>3 DEF Deadline, Signal, ForceExit, Terminated, Unaffected, vars
    <3> QED
      BY <3>1, <3>2, <3>3 DEF PreparesNext, Next
  <2> QED
    BY <1>0, <2>1 DEF TablesBeforeRows
<1> QED
  BY <1>1, <1>2, <1>3

LEMMA InitPrepared ==
    ASSUME Init  PROVE Prepared
<1> USE DEF Init
<1>1. TypeOK
  BY InitTyped
<1>2. /\ 0 \in Threads /\ flags.before \in {"absent", "plain", "referenced"}
      /\ command = "loading" /\ errCh = FALSE /\ arrived = {} /\ tables = flags.before
      /\ \A t \in Threads : pc[t] = "init"
  BY FlagsTyped
<1>3. Control
  BY <1>2 DEF Control, ControlOf, Loading
<1>4. TablesInv
  BY <1>2 DEF TablesInv
<1>5. RowsInv
  <2>1. IsTpcc => Item \in Loads
    BY ItemIsLoad
  <2> QED
    BY <1>2, <2>1 DEF RowsInv, Fresh
<1>6. FilesInv
  <2>1. SUFFICES ASSUME IsTpcc, ToFiles, NEW t \in Threads, NEW load \in Loads
        PROVE  ~HasFile(t, load) => files[t][load] = "none"
    BY <1>2 DEF FilesInv
  <2> QED
    OBVIOUS
<1>7. GeneratedInv
  <2>1. ~IsTpcc /\ ToFiles => \A t \in Threads \ {0} : \A load \in Loads : files[t][load] = "none"
    BY DEF HasFile
  <2> QED
    BY <1>2, <2>1 DEF GeneratedInv, Fresh
<1>8. PostStepsSeeAllRows /\ CauseInv /\ FailsForCause /\ EachWarehouseChecked
  BY <1>2 DEF PostStepsSeeAllRows, CauseInv, FailsForCause, EachWarehouseChecked
<1>9. ChecksInv /\ TablesBeforeRows
  BY <1>2 DEF ChecksInv, TablesBeforeRows, Loading
<1> QED
  BY <1>1, <1>3, <1>4, <1>5, <1>6, <1>7, <1>8, <1>9 DEF Prepared

LEMMA PreparedKept ==
    ASSUME Prepared, [PreparesNext]_vars  PROVE Prepared'
<1>1. TypeOK' /\ Control' /\ TablesInv'
  BY TypeKept, ControlKept, TablesKept DEF Prepared
<1>2. TablesBeforeRows'
  BY <1>1, TablesFirst DEF Prepared
<1>3. RowsInv' /\ FilesInv' /\ GeneratedInv' /\ PostStepsSeeAllRows'
  BY RowsKept, FilesKept, GeneratedKept, PostKept DEF Prepared
<1>4. CauseInv' /\ FailsForCause' /\ ChecksInv' /\ EachWarehouseChecked'
  BY CauseKept, ChecksKept DEF Prepared
<1> QED
  BY <1>1, <1>2, <1>3, <1>4 DEF Prepared

LEMMA AlwaysPrepared == PreparesSpec => []Prepared
  BY InitPrepared, PreparedKept, PTL DEF PreparesSpec


(* Prepare: the variables have their types, in every state of the prepare
   commands of TPC-C, TPC-H and CH-benCHmark. *)
THEOREM TypeCorrect == PreparesSpec => []TypeOK
<1>1. Prepared => TypeOK
  BY DEF Prepared
<1> QED
  BY <1>1, AlwaysPrepared, PTL

(* createTableWg and errCh in executeWorkload: tables come before rows, and
   ANALYZE and the checks see every row, once, whatever the numbers of threads
   and warehouses. *)
THEOREM PhasesKept == PreparesSpec => []PhasesInOrder
<1>1. Prepared => PhasesInOrder
  BY DEF Prepared, PhasesInOrder
<1> QED
  BY <1>1, AlwaysPrepared, PTL

(* checkPrepare: a command that succeeds has checked each warehouse once. *)
THEOREM WarehousesChecked == PreparesSpec => []EachWarehouseChecked
<1>1. Prepared => EachWarehouseChecked
  BY DEF Prepared
<1> QED
  BY <1>1, AlwaysPrepared, PTL

(* prepareWorkload, appendPartition: the threads never get in each other's way,
   whatever their number, and prepare only fails for the causes there are. *)
THEOREM FailureHasCause == PreparesSpec => []FailsForCause
<1>1. Prepared => FailsForCause
  BY DEF Prepared
<1> QED
  BY <1>1, AlwaysPrepared, PTL

------------------------------------------------------------------------------
(* The numbers of the generator. *)

(* makeOrder: an order's key tells its number, so the keys of ORDERS, and of its
   lines, never repeat, whatever the scale factor. *)
THEOREM OrdersDistinct ==
    ASSUME NEW sample \in SUBSET Nat
    PROVE  DistinctOrders(sample)
<1> SUFFICES ASSUME NEW a \in Nat, NEW b \in Nat, makeSparse(a) = makeSparse(b)
             PROVE  a = b
  BY DEF DistinctOrders
<1>1. ASSUME NEW n \in Nat
      PROVE  n \div 8 \in Nat /\ n % 8 \in 0 .. 7 /\ n = 8 * (n \div 8) + (n % 8)
  <2>1. 8 \in Nat \ {0} /\ 8 - 1 = 7
    OBVIOUS
  <2> QED
    BY <2>1, DivMod
<1>2. PICK p \in Nat, x \in 0 .. 7 : p = a \div 8 /\ x = a % 8 /\ a = 8 * p + x
  BY <1>1
<1>3. PICK q \in Nat, y \in 0 .. 7 : q = b \div 8 /\ y = b % 8 /\ b = 8 * q + y
  BY <1>1
<1>4. p * 32 + x = q * 32 + y
  BY <1>2, <1>3 DEF makeSparse
<1> QED
  BY <1>2, <1>3, <1>4

(* The distance between two consecutive suppliers of a part. *)
LEMMA Distance ==
    ASSUME NEW p \in 1 .. Parts
    PROVE  LET gap == Suppliers \div suppPerPart + (p - 1) \div Suppliers
           IN  gap \in Nat /\ 0 < gap /\ 3 * gap < Suppliers
<1> USE DbGenAssumption
<1> DEFINE q == (p - 1) \div Suppliers
<1>1. Suppliers \in Nat /\ Suppliers >= 10000 /\ Parts = 20 * Suppliers
  BY DEF Suppliers, Parts
<1>2. Suppliers \div suppPerPart = 2500 * ScaleFactor /\ Suppliers = 10000 * ScaleFactor
  BY DEF Suppliers, suppPerPart
<1>3. q \in Nat /\ (p - 1) % Suppliers \in Nat /\ p - 1 = Suppliers * q + ((p - 1) % Suppliers)
  BY <1>1, DivMod
<1>4. q <= 19
  <2> HIDE DEF q
  <2> SUFFICES ASSUME q >= 20 PROVE FALSE
    BY <1>3
  <2>1. Suppliers * q >= Suppliers * 20
    BY <1>1, <1>3, Z3
  <2> QED
    BY <1>1, <1>3, <2>1
<1> HIDE DEF q
<1>5. 2500 * ScaleFactor + q \in Nat /\ 0 < 2500 * ScaleFactor + q /\ 3 * (2500 * ScaleFactor + q) < 10000 * ScaleFactor
  BY <1>3, <1>4
<1> QED
  BY <1>2, <1>5 DEF q

(* makePart, makeOrder: the four suppliers of a part are different and exist, so
   the keys of PARTSUPP never repeat and every line refers to one of its rows,
   whatever the scale factor. *)
THEOREM SuppliersDistinct ==
    ASSUME NEW sample \in SUBSET (1 .. Parts)
    PROVE  FourSuppliers(sample)
<1> USE DbGenAssumption
<1> SUFFICES ASSUME NEW p \in 1 .. Parts, NEW s \in 0 .. 3
             PROVE  /\ partSuppBridge(p, s) \in 1 .. Suppliers
                    /\ \A r \in 0 .. 3 : partSuppBridge(p, s) = partSuppBridge(p, r) => s = r
  BY DEF FourSuppliers
<1> DEFINE gap == Suppliers \div suppPerPart + (p - 1) \div Suppliers
           Seat(r) == p + r * gap
<1>1. gap \in Nat /\ 0 < gap /\ 3 * gap < Suppliers
  BY Distance
<1>2. Suppliers \in Nat \ {0}
  BY DEF Suppliers
<1>3. \A r \in 0 .. 3 : partSuppBridge(p, r) = (Seat(r) % Suppliers) + 1
  BY DEF partSuppBridge
<1>4. p \in Nat
  BY DEF Parts
<1> HIDE DEF gap
<1>5. \A r \in 0 .. 3 : Seat(r) \in Nat
  <2> SUFFICES ASSUME NEW r \in 0 .. 3 PROVE Seat(r) \in Nat
    OBVIOUS
  <2>1. r * gap \in Nat
    BY <1>1, Z3
  <2> QED
    BY <1>4, <2>1
<1>6. \A r \in 0 .. 3 : Seat(r) % Suppliers \in 0 .. Suppliers - 1
  BY <1>2, <1>5, DivMod
<1>7. ASSUME NEW r \in 0 .. 3, NEW u \in 0 .. 3, r < u
      PROVE  Seat(r) < Seat(u) /\ Seat(u) < Seat(r) + Suppliers
  <2>1. r * gap = IF r = 0 THEN 0 ELSE IF r = 1 THEN gap ELSE IF r = 2 THEN 2 * gap ELSE 3 * gap
    BY <1>1
  <2>2. u * gap = IF u = 0 THEN 0 ELSE IF u = 1 THEN gap ELSE IF u = 2 THEN 2 * gap ELSE 3 * gap
    BY <1>1
  <2> QED
    BY <1>1, <1>2, <1>4, <1>7, <2>1, <2>2
<1>8. partSuppBridge(p, s) \in 1 .. Suppliers
  BY <1>2, <1>3, <1>6
<1>9. ASSUME NEW r \in 0 .. 3, partSuppBridge(p, s) = partSuppBridge(p, r)
      PROVE  s = r
  <2>1. Seat(s) % Suppliers = Seat(r) % Suppliers
    BY <1>2, <1>3, <1>6, <1>9
  <2>2. CASE s < r
    BY <1>2, <1>5, <1>7, <2>1, <2>2, ModDistinct
  <2>3. CASE r < s
    BY <1>2, <1>5, <1>7, <2>1, <2>3, ModDistinct
  <2> QED
    BY <2>2, <2>3
<1> QED
  BY <1>8, <1>9

(* makeOrder: no date of a line is looked up outside the calendar. *)
THEOREM DatesFound == DatesInCalendar
  BY DEF DatesInCalendar, startDate, totDate, odateMax, ShipDelays, CommitDelays, ReceiptDelays

------------------------------------------------------------------------------
(***************************************************************************)
(* The functions of dbgen that call themselves.  Each of them ends with    *)
(* its call, so that one lemma gives all of them: a recursion that comes   *)
(* nearer to its end with every call defines a function.                   *)
(***************************************************************************)
Solves(g, A, Done, out, next, m, n) ==
    \A x \in A : m[x] < n => g[x] = IF x \in Done THEN out[x] ELSE g[next[x]]

(* f is defined on all of A. *)
Recurses(f, A, Done, out, next) ==
    f = [x \in A |-> IF x \in Done THEN out[x] ELSE f[next[x]]]

LEMMA SolutionsAgree ==
    ASSUME NEW A, NEW Done \in SUBSET A, NEW out, NEW next \in [A -> A], NEW m \in [A -> Nat],
           \A x \in A \ Done : m[next[x]] < m[x],
           NEW g, NEW h, NEW n \in Nat,
           Solves(g, A, Done, out, next, m, n), Solves(h, A, Done, out, next, m, n),
           NEW x \in A, m[x] < n
    PROVE  g[x] = h[x]
<1> SUFFICES ASSUME g[x] # h[x] PROVE FALSE
  OBVIOUS
<1> DEFINE S == {m[y] : y \in {z \in A : m[z] < n /\ g[z] # h[z]}}
<1>1. S \subseteq Nat /\ S # {}
  OBVIOUS
<1>2. PICK least \in S : \A b \in S : least <= b
  BY <1>1, LeastElement
<1>3. PICK y \in A : least = m[y] /\ m[y] < n /\ g[y] # h[y]
  BY <1>2
<1>4. /\ g[y] = IF y \in Done THEN out[y] ELSE g[next[y]]
      /\ h[y] = IF y \in Done THEN out[y] ELSE h[next[y]]
  BY <1>3 DEF Solves
<1>5. y \notin Done /\ g[next[y]] # h[next[y]] /\ next[y] \in A /\ m[next[y]] < m[y]
  BY <1>3, <1>4
<1>6. m[next[y]] \in Nat /\ m[y] \in Nat /\ m[next[y]] < n
  BY <1>3, <1>5
<1>7. m[next[y]] \in S
  BY <1>5, <1>6
<1> HIDE DEF S
<1>8. least <= m[next[y]]
  BY <1>2, <1>7
<1> QED
  BY <1>3, <1>5, <1>6, <1>8

LEMMA SolutionsExist ==
    ASSUME NEW A, NEW Done \in SUBSET A, NEW out, NEW next \in [A -> A], NEW m \in [A -> Nat],
           \A x \in A \ Done : m[next[x]] < m[x]
    PROVE  \A n \in Nat : \E g : Solves(g, A, Done, out, next, m, n)
<1> DEFINE Bad == {n \in Nat : ~ \E g : Solves(g, A, Done, out, next, m, n)}
<1> SUFFICES ASSUME Bad # {} PROVE FALSE
  OBVIOUS
<1>1. PICK n \in Bad : \A b \in Bad : n <= b
  BY LeastElement
<1>2. n # 0
  <2>1. \A x \in A : ~(m[x] < 0)
    OBVIOUS
  <2> QED
    BY <1>1, <2>1 DEF Solves
<1>3. n - 1 \in Nat /\ n - 1 \notin Bad /\ n \in Nat
  BY <1>1, <1>2
<1>4. PICK g : Solves(g, A, Done, out, next, m, n - 1)
  BY <1>3
<1>5. PICK h : h = [x \in A |-> IF m[x] < n - 1 THEN g[x]
                                ELSE IF x \in Done THEN out[x] ELSE g[next[x]]]
  OBVIOUS
<1>6. ASSUME NEW x \in A, m[x] < n
      PROVE  h[x] = IF x \in Done THEN out[x] ELSE h[next[x]]
  <2>1. next[x] \in A /\ m[x] \in Nat /\ m[next[x]] \in Nat
    OBVIOUS
  <2>2. x \notin Done => h[next[x]] = g[next[x]]
    BY <1>3, <1>5, <1>6, <2>1
  <2>3. m[x] < n - 1 => g[x] = IF x \in Done THEN out[x] ELSE g[next[x]]
    BY <1>4 DEF Solves
  <2> QED
    BY <1>5, <2>2, <2>3
<1>7. Solves(h, A, Done, out, next, m, n)
  BY <1>6 DEF Solves
<1> QED
  BY <1>1, <1>7

LEMMA TailRecursion ==
    ASSUME NEW A, NEW Done \in SUBSET A, NEW out, NEW next \in [A -> A], NEW m \in [A -> Nat],
           \A x \in A \ Done : m[next[x]] < m[x]
    PROVE  \E f : Recurses(f, A, Done, out, next)
<1> DEFINE Nth(n) == CHOOSE g : Solves(g, A, Done, out, next, m, n)
           f == [x \in A |-> Nth(m[x] + 1)[x]]
<1>1. \A n \in Nat : Solves(Nth(n), A, Done, out, next, m, n)
  BY SolutionsExist
<1> HIDE DEF Nth
<1>2. ASSUME NEW x \in A PROVE f[x] = IF x \in Done THEN out[x] ELSE f[next[x]]
  <2>1. /\ m[x] + 1 \in Nat /\ m[x] < m[x] + 1 /\ next[x] \in A
        /\ m[next[x]] + 1 \in Nat /\ m[next[x]] < m[next[x]] + 1 /\ m[x] \in Nat
    OBVIOUS
  <2>2. Nth(m[x] + 1)[x] = IF x \in Done THEN out[x] ELSE Nth(m[x] + 1)[next[x]]
    BY <1>1, <2>1 DEF Solves
  <2>3. ASSUME x \notin Done PROVE Nth(m[x] + 1)[next[x]] = Nth(m[next[x]] + 1)[next[x]]
    <3>1. m[next[x]] < m[x]
      BY <2>3
    <3>2. Solves(Nth(m[x] + 1), A, Done, out, next, m, m[next[x]] + 1)
      BY <1>1, <2>1, <3>1 DEF Solves
    <3>3. Solves(Nth(m[next[x]] + 1), A, Done, out, next, m, m[next[x]] + 1)
      BY <1>1, <2>1
    <3> QED
      BY <2>1, <3>2, <3>3, SolutionsAgree
  <2> QED
    BY <2>1, <2>2, <2>3
<1>3. f = [x \in A |-> IF x \in Done THEN out[x] ELSE f[next[x]]]
  <2> HIDE DEF f
  <2>1. DOMAIN f = A /\ f = [x \in A |-> f[x]]
    BY DEF f
  <2> QED
    BY <1>2, <2>1
<1> HIDE DEF f
<1> QED
  BY <1>3 DEF Recurses

(* A function defined in this way satisfies its equation. *)
LEMMA OrderingEquation ==
    \A key \in Int, delta \in {1, -1} :
        OrderingFrom[<<key, delta>>]
          = IF key % 3 # 0 THEN key
            ELSE OrderingFrom[<<IF key + delta < Customers THEN key + delta ELSE Customers, -delta>>]
<1> DEFINE A == Int \X {1, -1}
           Done == {x \in A : x[1] % 3 # 0}
           out == [x \in A |-> x[1]]
           next == [x \in A |-> <<IF x[1] + x[2] < Customers THEN x[1] + x[2] ELSE Customers, -x[2]>>]
           m == [x \in A |-> IF x[1] % 3 # 0 THEN 0
                             ELSE IF x[1] + x[2] < Customers THEN 1
                             ELSE IF x[2] = 1 THEN 2 ELSE 3]
<1>1. Customers \in Nat /\ Customers % 3 = 0
  <2>1. \A n \in Nat : 150000 * n \in Nat /\ (150000 * n) % 3 = 0
    OBVIOUS
  <2> QED
    BY <2>1, DbGenAssumption DEF Customers, DbGenAssumption
<1>2. next \in [A -> A] /\ m \in [A -> Nat] /\ Done \in SUBSET A
  BY <1>1
<1>3. ASSUME NEW x \in A \ Done PROVE m[next[x]] < m[x]
  <2>1. PICK key \in Int, delta \in {1, -1} : x = <<key, delta>>
    OBVIOUS
  <2>2. key % 3 = 0 /\ (key + 1) % 3 # 0 /\ (key - 1) % 3 # 0
    BY <1>3, <2>1
  <2>3. CASE key + delta < Customers
    <3>1. next[x] = <<key + delta, -delta>>
      BY <2>1, <2>3
    <3>2. (key + delta) % 3 # 0
      BY <2>2
    <3> QED
      BY <1>1, <2>1, <2>2, <2>3, <3>1, <3>2
  <2>4. CASE ~(key + delta < Customers)
    <3>1. next[x] = <<Customers, -delta>>
      BY <2>1, <2>4
    <3> QED
      BY <1>1, <2>1, <2>2, <2>4, <3>1
  <2> QED
    BY <2>3, <2>4
<1>4. \E f : Recurses(f, A, Done, out, next)
  <2> HIDE DEF A, Done, out, next, m
  <2> QED
    BY <1>2, <1>3, TailRecursion
<1>5. PICK f : f = [x \in A |-> IF x \in Done THEN out[x] ELSE f[next[x]]]
  BY <1>4, Zenon DEF Recurses
<1>6. f = [at \in Int \X {1, -1} |->
             LET key == at[1]
                 delta == at[2]
             IN  IF key % 3 # 0 THEN key
                 ELSE f[<<IF key + delta < Customers THEN key + delta ELSE Customers, -delta>>]]
  BY <1>5
<1>7. OrderingFrom = [at \in Int \X {1, -1} |->
             LET key == at[1]
                 delta == at[2]
             IN  IF key % 3 # 0 THEN key
                 ELSE OrderingFrom[<<IF key + delta < Customers THEN key + delta ELSE Customers, -delta>>]]
  BY <1>6, Zenon DEF OrderingFrom
<1> QED
  BY <1>7

(* makeOrder: whatever customer is drawn, the one that gets the order exists and
   is not one of the third without orders, whatever the scale factor. *)
THEOREM CustomersFound ==
    ASSUME NEW sample \in SUBSET (1 .. Customers)
    PROVE  CustomersExist(sample)
<1> SUFFICES ASSUME NEW key \in 1 .. Customers
             PROVE  OrderingCustomer(key) \in 1 .. Customers /\ OrderingCustomer(key) % 3 # 0
  BY DEF CustomersExist
<1>1. Customers \in Nat /\ Customers % 3 = 0 /\ Customers > 3
  <2>1. \A n \in Nat \ {0} : 150000 * n \in Nat /\ (150000 * n) % 3 = 0 /\ 150000 * n > 3
    OBVIOUS
  <2> QED
    BY <2>1, DbGenAssumption DEF Customers, DbGenAssumption
<1>2. key \in Int
  OBVIOUS
<1>3. CASE key % 3 # 0
  BY <1>2, <1>3, OrderingEquation DEF OrderingCustomer
<1>4. CASE key % 3 = 0 /\ key + 1 < Customers
  <2>1. (key + 1) % 3 # 0 /\ key + 1 \in Int
    BY <1>2, <1>4
  <2>2. OrderingFrom[<<key, 1>>] = OrderingFrom[<<key + 1, -1>>]
    BY <1>2, <1>4, OrderingEquation
  <2>3. OrderingFrom[<<key + 1, -1>>] = key + 1
    BY <2>1, OrderingEquation
  <2> QED
    BY <1>1, <1>4, <2>1, <2>2, <2>3 DEF OrderingCustomer
<1>5. CASE key % 3 = 0 /\ ~(key + 1 < Customers)
  <2>1. (Customers - 1) % 3 # 0 /\ Customers \in Int /\ Customers - 1 \in Int
    BY <1>1
  <2>2. OrderingFrom[<<key, 1>>] = OrderingFrom[<<Customers, -1>>]
    BY <1>2, <1>5, OrderingEquation
  <2>3. OrderingFrom[<<Customers, -1>>] = OrderingFrom[<<Customers - 1, 1>>]
    <3>1. PICK down \in {1, -1} : down = -1
      OBVIOUS
    <3>2. down + 1 = 0 /\ \A n \in Nat : n + down = n - 1 /\ n - 1 < n
      BY <3>1
    <3>3. Customers + down = Customers - 1 /\ Customers - 1 < Customers
      BY <1>1, <3>2
    <3>4. -down = 1
      BY <3>2
    <3>5. OrderingFrom[<<Customers, down>>] = OrderingFrom[<<Customers - 1, 1>>]
      BY <1>1, <2>1, <3>3, <3>4, OrderingEquation
    <3> QED
      BY <3>1, <3>5
  <2>4. OrderingFrom[<<Customers - 1, 1>>] = Customers - 1
    BY <2>1, OrderingEquation
  <2> QED
    BY <1>1, <2>1, <2>2, <2>3, <2>4 DEF OrderingCustomer
<1> QED
  BY <1>3, <1>4, <1>5

(* makeSupp: the remark about customers lies in the comment, after "Customer ". *)
THEOREM RemarksFit ==
    ASSUME NEW sample \in SUBSET Int
    PROVE  RemarkFits(sample)
<1> SUFFICES ASSUME NEW len \in Int, NEW noise \in Noises(len), NEW offset \in Offsets(len, noise)
             PROVE  /\ offset + bbbBaseLen <= bbbBaseLen + offset + noise
                    /\ bbbBaseLen + offset + noise + RemarkLen <= len
  BY DEF RemarkFits
<1>1. noise \in Int /\ 0 <= noise
  BY DEF Noises, bbbCmntLen
<1> QED
  BY <1>1 DEF Offsets, bbbCmntLen, bbbBaseLen, RemarkLen

Julian(f) ==
    f = [at \in Nat \X Nat |->
            LET yr == at[1]
                offset == at[2]
                result == yr * 1000 + 1
                yend == yr * 1000 + 365 + yeap(yr)
            IN  IF result + offset > yend THEN f[<<yr + 1, offset - (yend - result + 1)>>]
                                          ELSE result + offset]

LEMMA JulianEquation ==
    \A yr \in Nat, offset \in Nat :
        julianFrom[<<yr, offset>>]
          = IF offset >= 365 + yeap(yr) THEN julianFrom[<<yr + 1, offset - (365 + yeap(yr))>>]
            ELSE yr * 1000 + 1 + offset
<1> DEFINE A == Nat \X Nat
           Ends(yr, offset) == ~(yr * 1000 + 1 + offset > yr * 1000 + 365 + yeap(yr))
           Done == {x \in A : Ends(x[1], x[2])}
           out == [x \in A |-> x[1] * 1000 + 1 + x[2]]
           next == [x \in A |-> IF x \in Done THEN x
                     ELSE <<x[1] + 1,
                            x[2] - ((x[1] * 1000 + 365 + yeap(x[1])) - (x[1] * 1000 + 1) + 1)>>]
           m == [x \in A |-> x[2]]
<1>1. \A yr \in Nat : yeap(yr) \in {0, 1}
  BY DEF yeap
<1>2. ASSUME NEW x \in A \ Done
      PROVE  /\ next[x] \in A /\ m[next[x]] < m[x]
  <2>1. PICK yr \in Nat, offset \in Nat : x = <<yr, offset>> /\ ~Ends(yr, offset)
    OBVIOUS
  <2>2. PICK y \in {0, 1} : y = yeap(yr)
    BY <1>1
  <2>3. offset >= 365 + y
    BY <2>1, <2>2
  <2>4. next[x] = <<yr + 1, offset - (365 + y)>>
    BY <2>1, <2>2
  <2> HIDE DEF next
  <2> QED
    BY <2>1, <2>2, <2>3, <2>4
<1>3. next \in [A -> A] /\ m \in [A -> Nat] /\ Done \in SUBSET A
  <2>1. \A x \in A : next[x] \in A
    <3>1. \A x \in Done : next[x] = x
      OBVIOUS
    <3> HIDE DEF next, Done, A
    <3>2. \A x \in Done : x \in A
      BY DEF Done
    <3> QED
      BY <1>2, <3>1, <3>2
  <2> QED
    BY <2>1
<1>4. \E f : Recurses(f, A, Done, out, next)
  <2> HIDE DEF A, Done, out, next, m
  <2> QED
    BY <1>2, <1>3, TailRecursion
<1>5. PICK f : f = [x \in A |-> IF x \in Done THEN out[x] ELSE f[next[x]]]
  BY <1>4, Zenon DEF Recurses
<1>6. Julian(f)
  <2>1. ASSUME NEW at \in A
        PROVE  f[at] = IF at[1] * 1000 + 1 + at[2] > at[1] * 1000 + 365 + yeap(at[1])
                       THEN f[<<at[1] + 1,
                                at[2] - ((at[1] * 1000 + 365 + yeap(at[1]))
                                           - (at[1] * 1000 + 1) + 1)>>]
                       ELSE at[1] * 1000 + 1 + at[2]
    <3>1. f[at] = IF at \in Done THEN out[at] ELSE f[next[at]]
      <4> HIDE DEF A, Done, out, next
      <4> QED
        BY <1>5
    <3> QED
      BY <3>1
  <2> HIDE DEF Done, out, next
  <2>2. f = [at \in A |-> f[at]]
    BY <1>5
  <2> QED
    BY <2>1, <2>2 DEF Julian
<1>7. Julian(julianFrom)
  <2>1. julianFrom = CHOOSE g : Julian(g)
    BY DEF julianFrom, Julian
  <2> QED
    BY <1>6, <2>1
<1>8. ASSUME NEW yr \in Nat, NEW offset \in Nat
      PROVE  julianFrom[<<yr, offset>>]
               = IF offset >= 365 + yeap(yr) THEN julianFrom[<<yr + 1, offset - (365 + yeap(yr))>>]
                 ELSE yr * 1000 + 1 + offset
  <2>1. PICK y \in {0, 1} : y = yeap(yr)
    BY <1>1
  <2>2. julianFrom[<<yr, offset>>]
          = IF yr * 1000 + 1 + offset > yr * 1000 + 365 + y
            THEN julianFrom[<<yr + 1, offset - ((yr * 1000 + 365 + y) - (yr * 1000 + 1) + 1)>>]
            ELSE yr * 1000 + 1 + offset
    BY <1>7, <2>1 DEF Julian
  <2>3. /\ (yr * 1000 + 1 + offset > yr * 1000 + 365 + y) <=> offset >= 365 + y
        /\ offset - ((yr * 1000 + 365 + y) - (yr * 1000 + 1) + 1) = offset - (365 + y)
    BY <2>1
  <2> QED
    BY <2>1, <2>2, <2>3
<1> QED
  BY <1>8

(* After base days, the year yr begins. *)
Begins(yr, base) == \A offset \in Nat : julianFrom[<<92, base + offset>>] = julianFrom[<<yr, offset>>]

LEMMA YearBegins ==
    ASSUME NEW yr \in Nat, NEW base \in Nat, NEW length \in Nat, length = 365 + yeap(yr),
           Begins(yr, base)
    PROVE  Begins(yr + 1, base + length)
<1> SUFFICES ASSUME NEW offset \in Nat
             PROVE  julianFrom[<<92, (base + length) + offset>>] = julianFrom[<<yr + 1, offset>>]
  BY DEF Begins
<1>1. /\ length + offset \in Nat /\ (base + length) + offset = base + (length + offset)
      /\ length + offset >= length /\ (length + offset) - length = offset
  OBVIOUS
<1>2. julianFrom[<<92, base + (length + offset)>>] = julianFrom[<<yr, length + offset>>]
  BY <1>1 DEF Begins
<1>3. julianFrom[<<yr, length + offset>>] = julianFrom[<<yr + 1, (length + offset) - length>>]
  BY <1>1, JulianEquation
<1> QED
  BY <1>1, <1>2, <1>3

LEMMA YearsBegin ==
    /\ Begins(92, 0) /\ Begins(93, 366) /\ Begins(94, 731) /\ Begins(95, 1096)
    /\ Begins(96, 1461) /\ Begins(97, 1827) /\ Begins(98, 2192)
<1>1. /\ yeap(92) = 1 /\ yeap(93) = 0 /\ yeap(94) = 0 /\ yeap(95) = 0
      /\ yeap(96) = 1 /\ yeap(97) = 0
  BY DEF yeap
<1>2. Begins(92, 0)
  BY DEF Begins
<1>3. Begins(92 + 1, 0 + 366)
  BY <1>1, <1>2, YearBegins
<1>4. Begins(93 + 1, 366 + 365)
  BY <1>1, <1>3, YearBegins
<1>5. Begins(94 + 1, 731 + 365)
  BY <1>1, <1>4, YearBegins
<1>6. Begins(95 + 1, 1096 + 365)
  BY <1>1, <1>5, YearBegins
<1>7. Begins(96 + 1, 1461 + 366)
  BY <1>1, <1>6, YearBegins
<1>8. Begins(97 + 1, 1827 + 365)
  BY <1>1, <1>7, YearBegins
<1> QED
  BY <1>2, <1>3, <1>4, <1>5, <1>6, <1>7, <1>8

(* What makeAscDate writes for a day. *)
IsDay(yearDay, n) == /\ yearDay[2] = 366 => yearDay[1] \in LeapYears
                     /\ DayOf(yearDay[1], yearDay[2]) = n

JulianOn(yr, day, n) == julian(startDate + n) = 1000 * yr + day

LEMMA DayIsJulian ==
    ASSUME NEW n \in Nat, NEW yr \in 92 .. 98, NEW day \in 1 .. 366, IsDay(<<yr, day>>, n)
    PROVE  JulianOn(yr, day, n)
<1>1. julian(startDate + n) = julianFrom[<<92, n>>]
  <2>1. 92001 \div 1000 = 92 /\ (92001 + n) - 92001 = n
    OBVIOUS
  <2> QED
    BY <2>1 DEF julian, startDate
<1>2. PICK base \in Nat : Begins(yr, base) /\ n = base + (day - 1)
  <2>1. yr \in {92, 93, 94, 95, 96, 97, 98}
    OBVIOUS
  <2>2. n = 365 * (yr - 92) + (IF yr > 92 THEN 1 ELSE 0) + (IF yr > 96 THEN 1 ELSE 0) + day - 1
    BY DEF IsDay, DayOf
  <2> QED
    BY <2>1, <2>2, YearsBegin
<1>3. julianFrom[<<92, n>>] = julianFrom[<<yr, day - 1>>]
  BY <1>2 DEF Begins
<1>4. yr \in Nat /\ day - 1 \in Nat /\ ~(day - 1 >= 365 + yeap(yr))
  <2>1. day = 366 => yr \in {92, 96}
    BY DEF IsDay, LeapYears
  <2>2. yr \in {92, 96} => yeap(yr) = 1
    BY DEF yeap
  <2>3. yeap(yr) \in {0, 1}
    BY DEF yeap
  <2> QED
    BY <2>1, <2>2, <2>3
<1>5. PICK offset \in Nat : offset = day - 1 /\ ~(offset >= 365 + yeap(yr))
  BY <1>4
<1>6. julianFrom[<<yr, offset>>] = yr * 1000 + 1 + offset
  <2>1. yr \in Nat
    BY <1>4
  <2>2. julianFrom[<<yr, offset>>]
          = IF offset >= 365 + yeap(yr) THEN julianFrom[<<yr + 1, offset - (365 + yeap(yr))>>]
            ELSE yr * 1000 + 1 + offset
    BY <2>1, JulianEquation
  <2> QED
    BY <1>5, <2>2
<1>7. yr * 1000 + 1 + offset = 1000 * yr + day
  BY <1>5
<1> QED
  BY <1>1, <1>3, <1>5, <1>6, <1>7 DEF JulianOn

LEMMA DayExists ==
    ASSUME NEW n \in 0 .. totDate - 1
    PROVE  \E yearDay \in (92 .. 98) \X (1 .. 366) : IsDay(yearDay, n)
<1>1. n \in 0 .. 2556
  BY DEF totDate
<1>2. CASE n < 366
  <2>1. PICK day \in 1 .. 366 : n = 0 + day - 1
    BY <1>1, <1>2
  <2>2. <<92, day>> \in (92 .. 98) \X (1 .. 366)
    BY <2>1
  <2>3. IsDay(<<92, day>>, n)
    BY <2>1 DEF IsDay, DayOf, LeapYears
  <2> QED
    BY <2>2, <2>3
<1>3. CASE 366 <= n /\ n < 731
  <2>1. PICK day \in 1 .. 366 : n = 366 + day - 1 /\ day # 366
    BY <1>1, <1>3
  <2>2. <<93, day>> \in (92 .. 98) \X (1 .. 366)
    BY <2>1
  <2>3. IsDay(<<93, day>>, n)
    BY <2>1 DEF IsDay, DayOf, LeapYears
  <2> QED
    BY <2>2, <2>3
<1>4. CASE 731 <= n /\ n < 1096
  <2>1. PICK day \in 1 .. 366 : n = 731 + day - 1 /\ day # 366
    BY <1>1, <1>4
  <2>2. <<94, day>> \in (92 .. 98) \X (1 .. 366)
    BY <2>1
  <2>3. IsDay(<<94, day>>, n)
    BY <2>1 DEF IsDay, DayOf, LeapYears
  <2> QED
    BY <2>2, <2>3
<1>5. CASE 1096 <= n /\ n < 1461
  <2>1. PICK day \in 1 .. 366 : n = 1096 + day - 1 /\ day # 366
    BY <1>1, <1>5
  <2>2. <<95, day>> \in (92 .. 98) \X (1 .. 366)
    BY <2>1
  <2>3. IsDay(<<95, day>>, n)
    BY <2>1 DEF IsDay, DayOf, LeapYears
  <2> QED
    BY <2>2, <2>3
<1>6. CASE 1461 <= n /\ n < 1827
  <2>1. PICK day \in 1 .. 366 : n = 1461 + day - 1
    BY <1>1, <1>6
  <2>2. <<96, day>> \in (92 .. 98) \X (1 .. 366)
    BY <2>1
  <2>3. IsDay(<<96, day>>, n)
    BY <2>1 DEF IsDay, DayOf, LeapYears
  <2> QED
    BY <2>2, <2>3
<1>7. CASE 1827 <= n /\ n < 2192
  <2>1. PICK day \in 1 .. 366 : n = 1827 + day - 1 /\ day # 366
    BY <1>1, <1>7
  <2>2. <<97, day>> \in (92 .. 98) \X (1 .. 366)
    BY <2>1
  <2>3. IsDay(<<97, day>>, n)
    BY <2>1 DEF IsDay, DayOf, LeapYears
  <2> QED
    BY <2>2, <2>3
<1>8. CASE 2192 <= n
  <2>1. PICK day \in 1 .. 366 : n = 2192 + day - 1 /\ day # 366
    BY <1>1, <1>8
  <2>2. <<98, day>> \in (92 .. 98) \X (1 .. 366)
    BY <2>1
  <2>3. IsDay(<<98, day>>, n)
    BY <2>1 DEF IsDay, DayOf, LeapYears
  <2> QED
    BY <2>2, <2>3
<1>9. \/ n < 366 \/ (366 <= n /\ n < 731) \/ (731 <= n /\ n < 1096) \/ (1096 <= n /\ n < 1461)
      \/ (1461 <= n /\ n < 1827) \/ (1827 <= n /\ n < 2192) \/ 2192 <= n
  BY <1>1
<1> QED
  BY <1>9, <1>2, <1>3, <1>4, <1>5, <1>6, <1>7, <1>8

(* makeOrder: julian, which decides whether a line has been shipped, counts days
   as makeAscDate, which writes its dates, does. *)
THEOREM JulianCorrect ==
    ASSUME NEW sample
    PROVE  JulianIsCalendar(sample)
<1> SUFFICES ASSUME NEW n \in 0 .. totDate - 1
             PROVE  julian(startDate + n) = 1000 * ascDate[n][1] + ascDate[n][2]
  BY DEF JulianIsCalendar
<1>1. ascDate[n] = CHOOSE yearDay \in (92 .. 98) \X (1 .. 366) : IsDay(yearDay, n)
  BY DEF ascDate, IsDay
<1>2. ascDate[n] \in (92 .. 98) \X (1 .. 366) /\ IsDay(ascDate[n], n)
  <2> DEFINE Days == (92 .. 98) \X (1 .. 366)
  <2>1. \E yearDay \in Days : IsDay(yearDay, n)
    BY DayExists
  <2>2. ascDate[n] = CHOOSE yearDay \in Days : IsDay(yearDay, n)
    BY <1>1
  <2> HIDE DEF Days
  <2>3. ascDate[n] \in Days /\ IsDay(ascDate[n], n)
    BY <2>1, <2>2, Zenon
  <2> QED
    BY <2>3 DEF Days
<1>3. \A yearDay \in (92 .. 98) \X (1 .. 366) :
         \E yr \in 92 .. 98, day \in 1 .. 366 :
            yearDay = <<yr, day>> /\ yearDay[1] = yr /\ yearDay[2] = day
  OBVIOUS
<1>4. PICK yr \in 92 .. 98, day \in 1 .. 366 :
         ascDate[n] = <<yr, day>> /\ ascDate[n][1] = yr /\ ascDate[n][2] = day
  BY <1>2, <1>3
<1>5. n \in Nat
  BY DEF totDate
<1>6. IsDay(<<yr, day>>, n)
  BY <1>2, <1>4
<1>7. JulianOn(yr, day, n)
  BY <1>5, <1>6, DayIsJulian
<1> QED
  BY <1>4, <1>7 DEF JulianOn

------------------------------------------------------------------------------
(***************************************************************************)
(* Streams: n numbers further in log n steps is n numbers further one by   *)
(* one, whatever the generator's multiplier and modulus.                   *)
(***************************************************************************)
LEMMA ProductTyped == \A a \in Nat, b \in Nat : a * b \in Nat /\ a * b = b * a
  BY Z3

LEMMA ModOfProduct ==
    ASSUME NEW n \in Nat \ {0}, NEW a \in Nat, NEW b \in Nat
    PROVE  (a * (b % n)) % n = (a * b) % n
<1> DEFINE q == b \div n
           r == b % n
           p == (a * r) \div n
           u == (a * r) % n
<1>1. q \in Nat /\ r \in 0 .. n - 1 /\ b = n * q + r
  BY DivMod
<1>2. r \in Nat /\ a * r \in Nat
  BY <1>1, ProductTyped
<1>3. p \in Nat /\ u \in 0 .. n - 1 /\ a * r = n * p + u
  BY <1>2, DivMod
<1> HIDE DEF q, r, p, u
<1>4. a * b = n * (a * q + p) + u
  <2>1. a * (n * q + r) = n * (a * q) + a * r
    BY <1>1, <1>2, Z3
  <2>2. n * (a * q + p) = n * (a * q) + n * p
    BY <1>1, <1>3, Z3
  <2>3. n * (a * q) \in Nat /\ n * p \in Nat
    BY <1>1, <1>3, ProductTyped
  <2> QED
    BY <1>1, <1>3, <2>1, <2>2, <2>3
<1>5. a * q + p \in Nat
  BY <1>1, <1>3, ProductTyped
<1>6. (n * (a * q + p) + u) % n = u
  BY <1>3, <1>5, DivUnique
<1> QED
  BY <1>4, <1>6 DEF u, r

ModNumber == Modulus \in Nat \ {0} /\ Multiplier \in Nat

LEMMA ModulusTyped == ModNumber
  BY DbGenAssumption DEF DbGenAssumption, ModNumber

(* What a number is multiplied by. *)
Times(mult, z) == (mult * z) % Modulus

LEMMA TimesTyped == \A mult \in Nat, z \in Nat : Times(mult, z) \in Nat
  BY ProductTyped, DivMod, ModulusTyped DEF Times, ModNumber

LEMMA TimesTwice ==
    ASSUME NEW mult \in Nat, NEW z \in Nat
    PROVE  Times(mult, Times(mult, z)) = Times(Times(mult, mult), z)
<1> DEFINE n == Modulus
           s == mult * mult
           y == mult * z
<1>1. n \in Nat \ {0} /\ s \in Nat /\ y \in Nat
  BY ProductTyped, ModulusTyped DEF ModNumber
<1>2. s % n \in Nat
  BY <1>1, DivMod
<1>3. (mult * (y % n)) % n = (mult * y) % n
  BY <1>1, ModOfProduct
<1>4. (z * (s % n)) % n = (z * s) % n
  BY <1>1, ModOfProduct
<1>5. z * s = mult * y
  BY Z3
<1>6. z * (s % n) = (s % n) * z
  BY <1>2, ProductTyped
<1> QED
  BY <1>3, <1>4, <1>5, <1>6 DEF Times

(* To multiply a number n times. *)
Multiplies(f) ==
    f = [at \in Nat \X Nat \X Nat |->
            IF at[1] = 0 THEN at[3] ELSE f[<<at[1] - 1, at[2], Times(at[2], at[3])>>]]

Multiplied == CHOOSE f : Multiplies(f)

LEMMA TriplesAre == \A X, Y, Z : \A x \in X \X Y \X Z :
                       \E a \in X, b \in Y, c \in Z : x = <<a, b, c>>
  OBVIOUS

LEMMA MultipliedEquation ==
    \A n \in Nat, mult \in Nat, z \in Nat :
        Multiplied[<<n, mult, z>>] = IF n = 0 THEN z ELSE Multiplied[<<n - 1, mult, Times(mult, z)>>]
<1> DEFINE A == Nat \X Nat \X Nat
           Done == {x \in A : x[1] = 0}
           out == [x \in A |-> x[3]]
           next == [x \in A |-> IF x[1] = 0 THEN x ELSE <<x[1] - 1, x[2], Times(x[2], x[3])>>]
           m == [x \in A |-> x[1]]
<1>1. ASSUME NEW x \in A
      PROVE  next[x] \in A /\ m[x] \in Nat /\ (x \notin Done => m[next[x]] < m[x])
  <2>1. PICK n \in Nat, mult \in Nat, z \in Nat : x = <<n, mult, z>>
    BY TriplesAre
  <2>2. Times(mult, z) \in Nat
    BY TimesTyped
  <2> QED
    BY <2>1, <2>2
<1>2. next \in [A -> A] /\ m \in [A -> Nat] /\ Done \in SUBSET A
  <2>1. next = [x \in A |-> next[x]] /\ m = [x \in A |-> m[x]]
    OBVIOUS
  <2>2. Done \in SUBSET A
    OBVIOUS
  <2> HIDE DEF next, m, A, Done
  <2> QED
    BY <1>1, <2>1, <2>2
<1>3. \E f : Recurses(f, A, Done, out, next)
  <2> HIDE DEF A, Done, out, next, m
  <2> QED
    BY <1>1, <1>2, TailRecursion
<1>4. PICK f : f = [x \in A |-> IF x \in Done THEN out[x] ELSE f[next[x]]]
  BY <1>3, Zenon DEF Recurses
<1>5. Multiplies(f)
  <2>1. ASSUME NEW x \in A
        PROVE  f[x] = IF x[1] = 0 THEN x[3] ELSE f[<<x[1] - 1, x[2], Times(x[2], x[3])>>]
    <3>1. f[x] = IF x \in Done THEN out[x] ELSE f[next[x]]
      <4> HIDE DEF A, Done, out, next
      <4> QED
        BY <1>4
    <3> QED
      BY <3>1
  <2> HIDE DEF Done, out, next
  <2>2. f = [x \in A |-> f[x]]
    BY <1>4
  <2> QED
    BY <2>1, <2>2 DEF Multiplies
<1>6. Multiplies(Multiplied)
  BY <1>5 DEF Multiplied
<1> QED
  BY <1>6 DEF Multiplies

Halved(f) ==
    f = [at \in Int \X Nat \X Nat |->
            LET n == at[1]
                mult == at[2]
                z == at[3]
            IN  IF n <= 0 THEN z
                ELSE f[<<n \div 2, (mult * mult) % Modulus,
                         IF n % 2 # 0 THEN (mult * z) % Modulus ELSE z>>]]

LEMMA NthEquation ==
    \A n \in Nat, mult \in Nat, z \in Nat :
        NthFrom[<<n, mult, z>>]
          = IF n = 0 THEN z
            ELSE NthFrom[<<n \div 2, Times(mult, mult), IF n % 2 # 0 THEN Times(mult, z) ELSE z>>]
<1> DEFINE A == Int \X Nat \X Nat
           Done == {x \in A : x[1] <= 0}
           out == [x \in A |-> x[3]]
           next == [x \in A |-> <<x[1] \div 2, Times(x[2], x[2]),
                                  IF x[1] % 2 # 0 THEN Times(x[2], x[3]) ELSE x[3]>>]
           m == [x \in A |-> IF x[1] <= 0 THEN 0 ELSE x[1]]
<1>1. ASSUME NEW x \in A
      PROVE  next[x] \in A /\ m[x] \in Nat /\ (x \notin Done => m[next[x]] < m[x])
  <2>1. PICK n \in Int, mult \in Nat, z \in Nat : x = <<n, mult, z>>
    BY TriplesAre
  <2>2. Times(mult, z) \in Nat /\ Times(mult, mult) \in Nat
    BY TimesTyped
  <2>3. n \div 2 \in Int /\ (n > 0 => n \div 2 < n)
    OBVIOUS
  <2>4. next[x] = <<n \div 2, Times(mult, mult), IF n % 2 # 0 THEN Times(mult, z) ELSE z>>
    BY <2>1
  <2>5. next[x] \in A
    BY <2>2, <2>3, <2>4
  <2>6. m[next[x]] = IF n \div 2 <= 0 THEN 0 ELSE n \div 2
    BY <2>4, <2>5
  <2> HIDE DEF next
  <2> QED
    BY <2>1, <2>3, <2>5, <2>6
<1>2. next \in [A -> A] /\ m \in [A -> Nat] /\ Done \in SUBSET A
  <2>1. next = [x \in A |-> next[x]] /\ m = [x \in A |-> m[x]]
    OBVIOUS
  <2>2. Done \in SUBSET A
    OBVIOUS
  <2> HIDE DEF next, m, A, Done
  <2> QED
    BY <1>1, <2>1, <2>2
<1>3. \E f : Recurses(f, A, Done, out, next)
  <2> HIDE DEF A, Done, out, next, m
  <2> QED
    BY <1>1, <1>2, TailRecursion
<1>4. PICK f : f = [x \in A |-> IF x \in Done THEN out[x] ELSE f[next[x]]]
  BY <1>3, Zenon DEF Recurses
<1>5. Halved(f)
  <2>1. ASSUME NEW x \in A
        PROVE  f[x] = IF x[1] <= 0 THEN x[3]
                      ELSE f[<<x[1] \div 2, Times(x[2], x[2]),
                               IF x[1] % 2 # 0 THEN Times(x[2], x[3]) ELSE x[3]>>]
    <3>1. f[x] = IF x \in Done THEN out[x] ELSE f[next[x]]
      <4> HIDE DEF A, Done, out, next
      <4> QED
        BY <1>4
    <3> QED
      BY <3>1
  <2> HIDE DEF Done, out, next
  <2>2. f = [x \in A |-> f[x]]
    BY <1>4
  <2> QED
    BY <2>1, <2>2 DEF Halved, Times
<1>6. Halved(NthFrom)
  <2>1. NthFrom = CHOOSE g : Halved(g)
    BY DEF NthFrom, Halved
  <2> QED
    BY <1>5, <2>1
<1>7. ASSUME NEW n \in Nat, NEW mult \in Nat, NEW z \in Nat
      PROVE  NthFrom[<<n, mult, z>>]
               = IF n = 0 THEN z
                 ELSE NthFrom[<<n \div 2, Times(mult, mult), IF n % 2 # 0 THEN Times(mult, z) ELSE z>>]
  <2> DEFINE onward == NthFrom[<<n \div 2, Times(mult, mult), IF n % 2 # 0 THEN Times(mult, z) ELSE z>>]
  <2>1. <<n, mult, z>> \in A
    OBVIOUS
  <2>2. NthFrom[<<n, mult, z>>] = IF n <= 0 THEN z ELSE onward
    BY <1>6, <2>1 DEF Halved, Times
  <2> HIDE DEF onward
  <2>3. NthFrom[<<n, mult, z>>] = IF n = 0 THEN z ELSE onward
    BY <2>2
  <2> QED
    BY <2>3 DEF onward
<1> QED
  BY <1>7

StepsBy(f) == f = [at \in Nat \X Nat |-> IF at[1] = 0 THEN at[2] ELSE f[<<at[1] - 1, nextRand(at[2])>>]]

LEMMA NextTyped == \A z \in Nat : nextRand(z) \in Nat /\ nextRand(z) = Times(Multiplier, z)
<1> TAKE z \in Nat
<1>1. Multiplier \in Nat
  BY ModulusTyped DEF ModNumber
<1> QED
  BY <1>1, ProductTyped, TimesTyped DEF nextRand, Times

LEMMA SteppedEquation ==
    \A n \in Nat, z \in Nat : Stepped(n, z) = IF n = 0 THEN z ELSE Stepped(n - 1, nextRand(z))
<1> DEFINE A == Nat \X Nat
           Done == {x \in A : x[1] = 0}
           out == [x \in A |-> x[2]]
           next == [x \in A |-> IF x[1] = 0 THEN x ELSE <<x[1] - 1, nextRand(x[2])>>]
           m == [x \in A |-> x[1]]
<1>1. ASSUME NEW x \in A
      PROVE  next[x] \in A /\ m[x] \in Nat /\ (x \notin Done => m[next[x]] < m[x])
  <2>1. PICK n \in Nat, z \in Nat : x = <<n, z>>
    OBVIOUS
  <2>2. nextRand(z) \in Nat
    BY NextTyped
  <2> QED
    BY <2>1, <2>2
<1>2. next \in [A -> A] /\ m \in [A -> Nat] /\ Done \in SUBSET A
  <2>1. next = [x \in A |-> next[x]] /\ m = [x \in A |-> m[x]]
    OBVIOUS
  <2>2. Done \in SUBSET A
    OBVIOUS
  <2> HIDE DEF next, m, A, Done
  <2> QED
    BY <1>1, <2>1, <2>2
<1>3. \E f : Recurses(f, A, Done, out, next)
  <2> HIDE DEF A, Done, out, next, m
  <2> QED
    BY <1>1, <1>2, TailRecursion
<1>4. PICK f : f = [x \in A |-> IF x \in Done THEN out[x] ELSE f[next[x]]]
  BY <1>3, Zenon DEF Recurses
<1>5. StepsBy(f)
  <2>1. ASSUME NEW x \in A
        PROVE  f[x] = IF x[1] = 0 THEN x[2] ELSE f[<<x[1] - 1, nextRand(x[2])>>]
    <3>1. f[x] = IF x \in Done THEN out[x] ELSE f[next[x]]
      <4> HIDE DEF A, Done, out, next
      <4> QED
        BY <1>4
    <3> QED
      BY <3>1
  <2> HIDE DEF Done, out, next
  <2>2. f = [x \in A |-> f[x]]
    BY <1>4
  <2> QED
    BY <2>1, <2>2 DEF StepsBy
<1>6. StepsBy(SteppedFrom)
  <2>1. SteppedFrom = CHOOSE g : StepsBy(g)
    BY DEF SteppedFrom, StepsBy
  <2> QED
    BY <1>5, <2>1
<1>7. ASSUME NEW n \in Nat, NEW z \in Nat
      PROVE  SteppedFrom[<<n, z>>] = IF n = 0 THEN z ELSE SteppedFrom[<<n - 1, nextRand(z)>>]
  <2>1. <<n, z>> \in A
    OBVIOUS
  <2> QED
    BY <1>6, <2>1 DEF StepsBy
<1> QED
  BY <1>7 DEF Stepped

(* Two steps with a multiplier are one with its square. *)
LEMMA MultipliedTwice ==
    ASSUME NEW h \in Nat, NEW mult \in Nat, NEW z \in Nat
    PROVE  Multiplied[<<2 * h, mult, z>>] = Multiplied[<<h, Times(mult, mult), z>>]
<1> DEFINE Same(g) == \A y \in Nat : Multiplied[<<2 * g, mult, y>>]
                                       = Multiplied[<<g, Times(mult, mult), y>>]
           Bad == {g \in Nat : ~Same(g)}
<1>1. ASSUME NEW g \in Nat, g # 0 => Same(g - 1)
      PROVE  Same(g)
  <2> SUFFICES ASSUME NEW y \in Nat
               PROVE  Multiplied[<<2 * g, mult, y>>] = Multiplied[<<g, Times(mult, mult), y>>]
    OBVIOUS
  <2> DEFINE sq == Times(mult, mult)
             y1 == Times(mult, y)
             y2 == Times(mult, y1)
  <2>1. sq \in Nat /\ y1 \in Nat /\ y2 \in Nat /\ y2 = Times(sq, y)
    BY TimesTyped, TimesTwice
  <2>2. CASE g = 0
    <3>1. Multiplied[<<0, mult, y>>] = y /\ Multiplied[<<0, sq, y>>] = y
      BY <2>1, MultipliedEquation
    <3> QED
      BY <2>2, <3>1
  <2>3. CASE g # 0
    <3> HIDE DEF sq, y1, y2
    <3>1. PICK n \in Nat, b \in Nat, c \in Nat : n = 2 * g /\ b = 2 * g - 1 /\ c = g - 1
      BY <2>3
    <3>2. n # 0 /\ n - 1 = b /\ b # 0 /\ b - 1 = 2 * c /\ 2 * c \in Nat
      BY <2>3, <3>1
    <3>3. Multiplied[<<n, mult, y>>] = Multiplied[<<b, mult, y1>>]
      BY <3>2, MultipliedEquation DEF y1
    <3>4. Multiplied[<<b, mult, y1>>] = Multiplied[<<2 * c, mult, y2>>]
      BY <2>1, <3>2, MultipliedEquation DEF y2
    <3>5. Multiplied[<<2 * c, mult, y2>>] = Multiplied[<<c, sq, y2>>]
      BY <1>1, <2>1, <2>3, <3>1 DEF sq
    <3>6. Multiplied[<<g, sq, y>>] = Multiplied[<<c, sq, y2>>]
      BY <2>1, <2>3, <3>1, MultipliedEquation
    <3> QED
      BY <3>1, <3>3, <3>4, <3>5, <3>6 DEF sq
  <2> QED
    BY <2>2, <2>3
<1> HIDE DEF Same
<1>2. Bad = {}
  <2> SUFFICES ASSUME Bad # {} PROVE FALSE
    OBVIOUS
  <2>1. PICK g \in Bad : \A b \in Bad : g <= b
    BY LeastElement
  <2>2. g \in Nat /\ (g # 0 => g - 1 \in Nat /\ ~(g <= g - 1))
    OBVIOUS
  <2>3. g # 0 => Same(g - 1)
    BY <2>1, <2>2
  <2> QED
    BY <1>1, <2>1, <2>2, <2>3
<1> QED
  BY <1>2 DEF Same

LEMMA NthIsMultiplied ==
    ASSUME NEW n \in Nat, NEW mult \in Nat, NEW z \in Nat
    PROVE  NthFrom[<<n, mult, z>>] = Multiplied[<<n, mult, z>>]
<1> DEFINE Same(g) == \A x \in Nat, y \in Nat : NthFrom[<<g, x, y>>] = Multiplied[<<g, x, y>>]
           Bad == {g \in Nat : ~Same(g)}
<1>1. ASSUME NEW g \in Nat, g # 0 => Same(g \div 2)
      PROVE  Same(g)
  <2> SUFFICES ASSUME NEW x \in Nat, NEW y \in Nat
               PROVE  NthFrom[<<g, x, y>>] = Multiplied[<<g, x, y>>]
    OBVIOUS
  <2>1. PICK sq \in Nat : sq = Times(x, x)
    BY TimesTyped
  <2>2. PICK y1 \in Nat : y1 = Times(x, y)
    BY TimesTyped
  <2>3. PICK h \in Nat : h = g \div 2 /\ g = IF g % 2 # 0 THEN 2 * h + 1 ELSE 2 * h
    OBVIOUS
  <2>4. CASE g = 0
    <3>1. NthFrom[<<0, x, y>>] = y
      BY NthEquation
    <3>2. Multiplied[<<0, x, y>>] = y
      BY MultipliedEquation
    <3> QED
      BY <2>4, <3>1, <3>2
  <2>5. CASE g # 0 /\ g % 2 # 0
    <3>1. NthFrom[<<g, x, y>>] = NthFrom[<<h, sq, y1>>]
      BY <2>1, <2>2, <2>3, <2>5, NthEquation
    <3>2. NthFrom[<<h, sq, y1>>] = Multiplied[<<h, sq, y1>>]
      BY <1>1, <2>3, <2>5
    <3>3. Multiplied[<<h, sq, y1>>] = Multiplied[<<2 * h, x, y1>>]
      BY <2>1, MultipliedTwice
    <3>4. g - 1 = 2 * h
      BY <2>3, <2>5
    <3>5. Multiplied[<<g, x, y>>] = Multiplied[<<g - 1, x, y1>>]
      BY <2>2, <2>5, MultipliedEquation
    <3> QED
      BY <3>1, <3>2, <3>3, <3>4, <3>5
  <2>6. CASE g # 0 /\ ~(g % 2 # 0)
    <3>1. NthFrom[<<g, x, y>>] = NthFrom[<<h, sq, y>>]
      BY <2>1, <2>3, <2>6, NthEquation
    <3>2. NthFrom[<<h, sq, y>>] = Multiplied[<<h, sq, y>>]
      BY <1>1, <2>3, <2>6
    <3>3. Multiplied[<<h, sq, y>>] = Multiplied[<<2 * h, x, y>>]
      BY <2>1, MultipliedTwice
    <3>4. g = 2 * h
      BY <2>3, <2>6
    <3> QED
      BY <3>1, <3>2, <3>3, <3>4
  <2> QED
    BY <2>4, <2>5, <2>6
<1> HIDE DEF Same
<1>2. Bad = {}
  <2> SUFFICES ASSUME Bad # {} PROVE FALSE
    OBVIOUS
  <2>1. PICK g \in Bad : \A b \in Bad : g <= b
    BY LeastElement
  <2>2. g \in Nat /\ (g # 0 => g \div 2 \in Nat /\ ~(g <= g \div 2))
    OBVIOUS
  <2>3. g # 0 => Same(g \div 2)
    BY <2>1, <2>2
  <2> QED
    BY <1>1, <2>1, <2>2, <2>3
<1> QED
  BY <1>2 DEF Same

LEMMA SteppedIsMultiplied ==
    ASSUME NEW n \in Nat, NEW z \in Nat
    PROVE  Stepped(n, z) = Multiplied[<<n, Multiplier, z>>] /\ Stepped(n, z) \in Nat
<1> DEFINE Same(g) == \A y \in Nat : Stepped(g, y) = Multiplied[<<g, Multiplier, y>>] /\ Stepped(g, y) \in Nat
           Bad == {g \in Nat : ~Same(g)}
<1>1. ASSUME NEW g \in Nat, g # 0 => Same(g - 1)
      PROVE  Same(g)
  <2> SUFFICES ASSUME NEW y \in Nat
               PROVE  Stepped(g, y) = Multiplied[<<g, Multiplier, y>>] /\ Stepped(g, y) \in Nat
    OBVIOUS
  <2>1. PICK y1 \in Nat : y1 = nextRand(y) /\ y1 = Times(Multiplier, y)
    BY NextTyped
  <2>2. Multiplier \in Nat
    BY ModulusTyped DEF ModNumber
  <2>3. CASE g = 0
    BY <2>2, <2>3, SteppedEquation, MultipliedEquation
  <2>4. CASE g # 0
    <3>1. Stepped(g, y) = Stepped(g - 1, y1)
      BY <2>1, <2>4, SteppedEquation
    <3>2. Multiplied[<<g, Multiplier, y>>] = Multiplied[<<g - 1, Multiplier, y1>>]
      BY <2>1, <2>2, <2>4, MultipliedEquation
    <3> QED
      BY <1>1, <2>4, <3>1, <3>2
  <2> QED
    BY <2>3, <2>4
<1> HIDE DEF Same
<1>2. Bad = {}
  <2> SUFFICES ASSUME Bad # {} PROVE FALSE
    OBVIOUS
  <2>1. PICK g \in Bad : \A b \in Bad : g <= b
    BY LeastElement
  <2>2. g \in Nat /\ (g # 0 => g - 1 \in Nat /\ ~(g <= g - 1))
    OBVIOUS
  <2>3. g # 0 => Same(g - 1)
    BY <2>1, <2>2
  <2> QED
    BY <1>1, <2>1, <2>2, <2>3
<1> QED
  BY <1>2 DEF Same

(* nthElement: n numbers at once are n numbers. *)
THEOREM NthIsStepped ==
    ASSUME NEW n \in Nat, NEW z \in Nat
    PROVE  nthElement(n, z) = Stepped(n, z)
<1>1. Multiplier \in Nat
  BY ModulusTyped DEF ModNumber
<1> QED
  BY <1>1, NthIsMultiplied, SteppedIsMultiplied DEF nthElement

LEMMA SteppedAdds ==
    ASSUME NEW used \in Nat, NEW rest \in Nat, NEW z \in Nat
    PROVE  Stepped(rest, Stepped(used, z)) = Stepped(used + rest, z)
<1> DEFINE Same(g) == \A y \in Nat : Stepped(rest, Stepped(g, y)) = Stepped(g + rest, y)
           Bad == {g \in Nat : ~Same(g)}
<1>1. ASSUME NEW g \in Nat, g # 0 => Same(g - 1)
      PROVE  Same(g)
  <2> SUFFICES ASSUME NEW y \in Nat
               PROVE  Stepped(rest, Stepped(g, y)) = Stepped(g + rest, y)
    OBVIOUS
  <2>1. PICK y1 \in Nat : y1 = nextRand(y)
    BY NextTyped
  <2>2. CASE g = 0
    <3>1. Stepped(0, y) = y
      BY SteppedEquation
    <3> QED
      BY <2>2, <3>1
  <2>3. CASE g # 0
    <3>1. PICK sum \in Nat : sum = g + rest /\ sum # 0 /\ sum - 1 = g - 1 + rest
      BY <2>3
    <3>2. Stepped(g, y) = Stepped(g - 1, y1)
      BY <2>1, <2>3, SteppedEquation
    <3>3. Stepped(sum, y) = Stepped(sum - 1, y1)
      BY <2>1, <3>1, SteppedEquation
    <3> QED
      BY <1>1, <2>3, <3>1, <3>2, <3>3
  <2> QED
    BY <2>2, <2>3
<1> HIDE DEF Same
<1>2. Bad = {}
  <2> SUFFICES ASSUME Bad # {} PROVE FALSE
    OBVIOUS
  <2>1. PICK g \in Bad : \A b \in Bad : g <= b
    BY LeastElement
  <2>2. g \in Nat /\ (g # 0 => g - 1 \in Nat /\ ~(g <= g - 1))
    OBVIOUS
  <2>3. g # 0 => Same(g - 1)
    BY <2>1, <2>2
  <2> QED
    BY <1>1, <2>1, <2>2, <2>3
<1> QED
  BY <1>2 DEF Same

(* A row draws no more numbers from a stream than it is given. *)
Within(stream) == /\ stream.boundary \in Nat
                  /\ \A usage \in stream.drawn : usage \in Nat /\ usage <= stream.boundary

LEMMA StringsWithin == Within(Stream(9, aRand(10, 40)))
<1>1. ASSUME NEW len \in 10 .. 40
      PROVE  1 + RoundUp(len, 5) \in Nat /\ 1 + RoundUp(len, 5) <= 9
  BY DEF RoundUp
<1> QED
  BY <1>1 DEF Within, Stream, aRand

TpchNames == {"part", "partsupp", "supplier", "customer", "orders", "lineitem", "nation", "region"}

LEMMA StreamsWithin ==
    ASSUME NEW table \in TpchNames
    PROVE  \A stream \in Streams(table) : Within(stream)
<1>1. /\ \A stream \in PartStreams : Within(stream)
      /\ \A stream \in PartSuppStreams : Within(stream)
      /\ \A stream \in NationStreams : Within(stream)
      /\ \A stream \in OrderStreams : Within(stream)
  BY DEF PartStreams, PartSuppStreams, NationStreams, OrderStreams, Stream, Within, suppPerPart
<1>2. \A stream \in SupplierStreams : Within(stream)
  <2>1. Within(Stream(1, {1})) /\ Within(Stream(3, {3})) /\ Within(Stream(2, {2}))
    BY DEF Stream, Within
  <2> QED
    BY <2>1, StringsWithin DEF SupplierStreams
<1>3. \A stream \in CustomerStreams : Within(stream)
  BY <1>2 DEF SupplierStreams, CustomerStreams
<1>4. \A stream \in LineItemStreams : Within(stream)
  <2>1. /\ Within(Stream(7, 1 .. 7)) /\ Within(Stream(7, 0 .. 7)) /\ Within(Stream(1, {0}))
        /\ Within(Stream(14, {2 * n : n \in 1 .. 7}))
    BY DEF Stream, Within
  <2> QED
    BY <2>1 DEF LineItemStreams
<1> QED
  BY <1>1, <1>2, <1>3, <1>4 DEF Streams, TpchNames

(* rowStart, rowStop: of every table, and from every place in a stream, the next row
   begins where it would if this one had drawn all of its numbers. *)
THEOREM NextRowsInStep ==
    ASSUME NEW table \in TpchNames, NEW stream \in Streams(table), NEW usage \in stream.drawn,
           NEW z \in Nat
    PROVE  rowStop(stream.boundary, usage, Stepped(usage, z)) = Stepped(stream.boundary, z)
<1>1. PICK boundary \in Nat : boundary = stream.boundary
  BY StreamsWithin DEF Within
<1>2. usage \in Nat /\ usage <= boundary
  BY <1>1, StreamsWithin DEF Within
<1>3. PICK rest \in Nat : rest = boundary - usage /\ usage + rest = boundary
  BY <1>1, <1>2
<1>4. Stepped(usage, z) \in Nat
  BY <1>2, SteppedIsMultiplied
<1>5. nthElement(rest, Stepped(usage, z)) = Stepped(rest, Stepped(usage, z))
  BY <1>4, NthIsStepped
<1>6. Stepped(rest, Stepped(usage, z)) = Stepped(usage + rest, z)
  BY <1>2, SteppedAdds
<1> QED
  BY <1>1, <1>3, <1>5, <1>6 DEF rowStop

(* Prepare: only tables of TPC-H are generated. *)
LEMMA GeneratedTables ==
    ASSUME TypeOK, NEW t \in Threads, pc[t] = "generate",
           NEW table \in TablesOfUnit(Units[i[t]])
    PROVE  table \in TpchNames
<1>1. PICK n \in 1 .. Len(Units) : n = i[t]
  BY DEF TypeOK, Generating
<1>2. CASE flags.workload = "tpch"
  <2>1. /\ Len(Units) = 6
        /\ TablesOfUnit(Units[1]) = {"nation"} /\ TablesOfUnit(Units[2]) = {"region"}
        /\ TablesOfUnit(Units[3]) = {"customer"} /\ TablesOfUnit(Units[4]) = {"supplier"}
        /\ TablesOfUnit(Units[5]) = {"part", "partsupp"} /\ TablesOfUnit(Units[6]) = {"orders", "lineitem"}
    BY <1>2 DEF Units, TablesOfUnit
  <2>2. n \in {1, 2, 3, 4, 5, 6}
    BY <2>1
  <2> QED
    BY <1>1, <2>1, <2>2 DEF TpchNames
<1>3. CASE flags.workload # "tpch"
  <2>1. /\ Len(Units) = 3
        /\ TablesOfUnit(Units[1]) = {"nation"} /\ TablesOfUnit(Units[2]) = {"region"}
        /\ TablesOfUnit(Units[3]) = {"supplier"}
    BY <1>3 DEF Units, TablesOfUnit
  <2>2. n \in {1, 2, 3}
    BY <2>1
  <2> QED
    BY <1>1, <2>1, <2>2 DEF TpchNames
<1> QED
  BY <1>2, <1>3

LEMMA SampledRows == \A rowCount \in Nat : SampledOf(rowCount) \subseteq 1 .. rowCount
<1> SUFFICES ASSUME NEW rowCount \in Nat, NEW row \in SampledOf(rowCount)
             PROVE  row \in 1 .. rowCount
  OBVIOUS
<1>1. PICK n \in Sampled : n <= rowCount /\ (row = n \/ row = rowCount + 1 - n)
  BY DEF SampledOf
<1>2. n \in Nat \ {0}
  BY SampledAssumption DEF SampledAssumption
<1> QED
  BY <1>1, <1>2

(* dbgen: of every table, whatever the scale factor and whichever rows are looked
   at, keys do not repeat, what they refer to exists, no index leaves its array. *)
THEOREM BelongTogether == PreparesSpec => []RowsBelongTogether
<1>1. /\ Orders \in Nat /\ Customers \in Nat /\ Parts \in Nat /\ 1 .. Orders \subseteq Nat
  BY DbGenAssumption DEF DbGenAssumption, Orders, Customers, Parts
<1>2. DistinctOrders(SampledOf(Orders)) /\ CustomersExist(SampledOf(Customers))
  <2>1. SampledOf(Orders) \in SUBSET Nat /\ SampledOf(Customers) \in SUBSET (1 .. Customers)
    BY <1>1, SampledRows
  <2> QED
    BY <2>1, OrdersDistinct, CustomersFound
<1>3. DatesInCalendar /\ JulianIsCalendar(SampledOf(totDate))
  BY DatesFound, JulianCorrect
<1>4. FourSuppliers(SampledOf(Parts))
  BY <1>1, SampledRows, SuppliersDistinct
<1>5. RemarkFits({25, 26, 60, 100})
  BY RemarksFit
<1>6. Prepared => RowsBelongTogether
  BY <1>2, <1>3, <1>4, <1>5 DEF RowsBelongTogether
<1> QED
  BY <1>6, AlwaysPrepared, PTL

(* rowStart, rowStop, nthElement: the numbers that a row is made of do not depend
   on how many the rows before it have drawn, whatever the generator. *)
THEOREM StaysInStep == PreparesSpec => []RowsInStep
<1>1. \A z \in {1, 2, Modulus - 1} : z \in Nat
  BY DbGenAssumption DEF DbGenAssumption
<1>2. \A table \in TpchNames : NextRowInStep(table)
  BY <1>1, NextRowsInStep DEF NextRowInStep
<1>3. TypeOK => RowsInStep
  BY <1>2, GeneratedTables DEF RowsInStep
<1>4. Prepared => RowsInStep
  BY <1>3 DEF Prepared
<1> QED
  BY <1>4, AlwaysPrepared, PTL
==============================================================================
