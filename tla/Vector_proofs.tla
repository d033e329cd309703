---------------------------- MODULE Vector_proofs ----------------------------
(***************************************************************************)
(* Proofs about Vector: whatever the size of an item and the requests of   *)
(* the caller, what a vector holds fits its buffer, the buffer grows by    *)
(* doubling, and every macro does to the items what ItemSequence says,     *)
(* through every byte that is moved and every reallocation.                *)
(***************************************************************************)
EXTENDS Vector, SequenceTheorems, TLAPS

\* A vector whose buffer has the least capacity the code allocates.
Allocated(v) == VectorType(v) /\ v.capacity >= 4

IInv == vec = NULL \/ Allocated(vec)

LEMMA BufferType ==
  ASSUME NEW cap \in Nat PROVE Buffer(cap) \subseteq Nat
BY VectorAssumption DEF Buffer

LEMMA RemainderType == \A b \in Nat : (b % ItemSize) \in 0..(ItemSize - 1)
BY VectorAssumption

\* A new capacity has room for what is needed, and is doubled at least.
LEMMA NewCapacityFits ==
  ASSUME NEW needed \in Nat, NEW cap \in Nat, needed > cap, cap = 0 \/ cap >= 4
  PROVE  /\ NewCapacity(needed, cap) \in Nat
         /\ NewCapacity(needed, cap) >= needed
         /\ NewCapacity(needed, cap) >= 2 * cap
         /\ NewCapacity(needed, cap) >= 4
BY DEF NewCapacity, Larger

\* realloc makes a vector of the new capacity with the items of the old.
LEMMA ReallocType ==
  ASSUME NEW v, v = NULL \/ Allocated(v),
         NEW cap \in Nat, cap >= 4, cap >= capacity(v)
  PROVE  /\ Allocated(realloc(v, cap))
         /\ realloc(v, cap).size = size(v)
         /\ realloc(v, cap).capacity = cap
<1> DEFINE r == realloc(v, cap)
<1>1. \A b \in Buffer(cap) : b < ItemSize * capacity(v) => v.bytes[b] \in ByteOf
  <2>1. CASE v = NULL
    BY <2>1, VectorAssumption DEF capacity, Buffer
  <2>2. CASE v # NULL
    <3>1. VectorType(v) /\ capacity(v) = v.capacity
      BY <2>2 DEF Allocated, capacity
    <3>2. ASSUME NEW b \in Buffer(cap), b < ItemSize * capacity(v)
          PROVE  b \in Buffer(v.capacity)
      <4> DEFINE k == ItemSize * v.capacity
                 l == ItemSize * cap
      <4>1. k \in Nat /\ l \in Nat
        BY <3>1, VectorAssumption DEF VectorType
      <4>2. b \in 0..(l - 1) /\ b < k
        BY <3>1, <3>2 DEF Buffer
      <4> HIDE DEF k, l
      <4>3. b \in 0..(k - 1)
        BY <4>1, <4>2
      <4> QED
        BY <4>3 DEF Buffer, k
    <3> QED
      BY <3>1, <3>2 DEF VectorType
  <2> QED
    BY <2>1, <2>2
<1>2. r.bytes \in [Buffer(cap) -> ByteOf]
  BY <1>1 DEF realloc, ByteOf
<1>3. size(v) \in 0..cap
  BY DEF size, capacity, Allocated, VectorType
<1> QED
  BY <1>2, <1>3 DEF realloc, Allocated, VectorType

\* addgrow leaves room for one more item, by doubling if there is none.
LEMMA AddgrowFits ==
  ASSUME NEW v, v = NULL \/ Allocated(v)
  PROVE  LET w == addgrow(v, 1) IN
         /\ Allocated(w)
         /\ w.size = size(v)
         /\ w.size + 1 <= w.capacity
         /\ w.capacity = capacity(v) \/ w.capacity >= 2 * capacity(v)
<1> DEFINE needed == size(v) + 1
           cap == capacity(v)
           new == NewCapacity(needed, cap)
<1>1. /\ size(v) \in Nat /\ cap \in Nat /\ size(v) <= cap
      /\ cap = 0 \/ cap >= 4
      /\ v # NULL => v.size = size(v) /\ v.capacity = cap
      /\ v = NULL => cap = 0
  BY DEF size, capacity, Allocated, VectorType
<1>2. CASE v # NULL /\ needed <= cap
  BY <1>1, <1>2 DEF addgrow
<1>3. CASE v = NULL \/ needed > cap
  <2>1. needed > cap
    BY <1>1, <1>3
  <2>2. addgrow(v, 1) = realloc(v, new)
    BY <1>1, <1>3, <2>1 DEF addgrow, grow, Larger
  <2>3. new \in Nat /\ new >= needed /\ new >= 2 * cap /\ new >= 4
    BY <1>1, <2>1, NewCapacityFits
  <2>4. /\ Allocated(realloc(v, new))
        /\ realloc(v, new).size = size(v)
        /\ realloc(v, new).capacity = new
    BY <1>1, <2>3, ReallocType
  <2> QED
    BY <1>1, <2>2, <2>3, <2>4
<1> QED
  BY <1>1, <1>2, <1>3

\* Storing and moving bytes changes bytes only.
LEMMA StoreType ==
  ASSUME NEW v, VectorType(v), NEW i \in Nat, NEW x \in Item
  PROVE  /\ VectorType(store(v, i, x))
         /\ store(v, i, x).size = v.size
         /\ store(v, i, x).capacity = v.capacity
<1>1. \A b \in Buffer(v.capacity) : <<x, b % ItemSize>> \in ByteOf
  BY BufferType, RemainderType DEF ByteOf, VectorType
<1> QED
  BY <1>1 DEF store, VectorType

LEMMA MemmoveType ==
  ASSUME NEW v, VectorType(v), NEW dst \in Int, NEW src \in Int, NEW num \in Int
  PROVE  /\ VectorType(memmove(v, dst, src, num))
         /\ memmove(v, dst, src, num).size = v.size
         /\ memmove(v, dst, src, num).capacity = v.capacity
BY DEF memmove, VectorType, ByteOf

LEMMA ByteCountType ==
  ASSUME NEW n \in Nat, NEW i \in Nat, NEW k \in Nat
  PROVE  /\ ItemSize * i \in Nat /\ ItemSize * (i + k) \in Nat
         /\ InsertNum(n, i) \in Int /\ EraseNum(n, i, k) \in Int
<1>1. \A a \in Nat : ItemSize * a \in Nat
  BY VectorAssumption
<1> QED
  BY <1>1 DEF InsertNum, EraseNum

LEMMA InsertFits ==
  ASSUME NEW v, Allocated(v), NEW i \in Nat, NEW x \in Item
  PROVE  LET n == insert(v, i, x) IN
         /\ Allocated(n)
         /\ n.capacity = capacity(v) \/ n.capacity >= 2 * capacity(v)
<1> DEFINE a == addgrow(v, 1)
           w == [a EXCEPT !.size = @ + 1]
           m == memmove(w, ItemSize * (i + 1), ItemSize * i, InsertNum(w.size, i))
<1>1. /\ Allocated(a) /\ a.size + 1 <= a.capacity
      /\ a.capacity = capacity(v) \/ a.capacity >= 2 * capacity(v)
  BY AddgrowFits
<1>2. VectorType(w) /\ w.capacity = a.capacity
  BY <1>1 DEF Allocated, VectorType
<1>3. VectorType(m) /\ m.capacity = a.capacity
  <2>1. w.size \in Nat
    BY <1>2 DEF VectorType
  <2> HIDE DEF w
  <2>2. /\ ItemSize * i \in Nat /\ ItemSize * (i + 1) \in Nat
        /\ InsertNum(w.size, i) \in Int
    BY <2>1, ByteCountType
  <2> QED
    BY <1>2, <2>2, MemmoveType DEF m
<1>4. insert(v, i, x) = store(m, i, x)
  BY DEF insert
<1> HIDE DEF m
<1>5. VectorType(store(m, i, x)) /\ store(m, i, x).capacity = m.capacity
  BY <1>3, StoreType
<1> QED
  BY <1>1, <1>3, <1>4, <1>5 DEF Allocated

LEMMA ErasenFits ==
  ASSUME NEW v, Allocated(v), NEW i \in 0..(v.size - 1), NEW n \in Nat
  PROVE  /\ Allocated(erasen(v, i, n))
         /\ erasen(v, i, n).capacity = v.capacity
<1> DEFINE maxn == MostAt(v, i, n)
           w == memmove(v, ItemSize * i, ItemSize * (i + maxn), EraseNum(v.size, i, maxn))
<1>1. VectorType(v) /\ v.capacity >= 4 /\ v.size \in 0..v.capacity /\ v.capacity \in Nat
  BY DEF Allocated, VectorType
<1>2. maxn \in Nat /\ maxn <= v.size /\ i \in Nat /\ v.size \in Nat
  BY <1>1 DEF MostAt
<1>3. erasen(v, i, n) = [w EXCEPT !.size = @ - maxn]
  BY DEF erasen
<1> HIDE DEF maxn
<1>4. VectorType(w) /\ w.size = v.size /\ w.capacity = v.capacity
  <2>1. /\ ItemSize * i \in Nat /\ ItemSize * (i + maxn) \in Nat
        /\ EraseNum(v.size, i, maxn) \in Int
    BY <1>2, ByteCountType
  <2> QED
    BY <1>1, <2>1, MemmoveType
<1> HIDE DEF w
<1> QED
  BY <1>1, <1>2, <1>3, <1>4 DEF Allocated, VectorType

-----------------------------------------------------------------------------
(* Steps.                                                                   *)

\* What every step does to the vector: it is freed, or it is allocated and
\* its capacity is kept or doubled.
Grown(v, w) == \/ w = NULL
               \/ /\ Allocated(w)
                  /\ \/ w.capacity = capacity(v)
                     \/ w.capacity >= 2 * capacity(v) /\ w.capacity >= 4

LEMMA StepGrows ==
  ASSUME IInv, [Next]_vars
  PROVE  vec' = vec \/ Grown(vec, vec')
<1>1. vec = NULL \/ Allocated(vec)
  BY DEF IInv
<1>2. /\ size(vec) \in Nat /\ capacity(vec) \in Nat /\ size(vec) <= capacity(vec)
      /\ vec = NULL => capacity(vec) = 0
      /\ vec # NULL => /\ capacity(vec) = vec.capacity /\ size(vec) = vec.size
                       /\ capacity(vec) >= 4
  BY <1>1 DEF size, capacity, Allocated, VectorType
<1>3. ASSUME NEW x \in Item, Push(x) PROVE Grown(vec, vec')
  <2> DEFINE a == addgrow(vec, 1)
             w == [a EXCEPT !.size = @ + 1]
  <2>1. /\ Allocated(a) /\ a.size + 1 <= a.capacity
        /\ a.capacity = capacity(vec) \/ a.capacity >= 2 * capacity(vec)
    BY <1>1, AddgrowFits
  <2>2. VectorType(w) /\ w.capacity = a.capacity /\ a.size \in Nat
    BY <2>1 DEF Allocated, VectorType
  <2>3. vec' = store(w, a.size, x)
    BY <1>3 DEF Push
  <2> HIDE DEF w
  <2>4. VectorType(vec') /\ vec'.capacity = w.capacity
    BY <2>2, <2>3, StoreType
  <2> QED
    BY <2>1, <2>2, <2>4 DEF Grown, Allocated
<1>4. ASSUME NEW x \in Item, NEW i \in Index, Insert(i, x)
      PROVE  vec' = vec \/ Grown(vec, vec')
  <2>1. CASE Inside(i)
    <3>1. Allocated(vec) /\ i \in Nat /\ vec' = insert(vec, i, x)
      BY <1>1, <1>4, <2>1, VectorAssumption DEF Insert, Inside, Index
    <3> QED
      BY <3>1, InsertFits DEF Grown, Allocated
  <2>2. CASE ~Inside(i)
    BY <1>4, <2>2 DEF Insert
  <2> QED
    BY <2>1, <2>2
<1>5. ASSUME Pop PROVE Grown(vec, vec')
  <2>1. Allocated(vec) /\ vec.size > 0 /\ vec' = [vec EXCEPT !.size = @ - 1]
    BY <1>1, <1>5 DEF Pop, size
  <2> QED
    BY <1>2, <2>1 DEF Grown, Allocated, VectorType, capacity
<1>6. ASSUME NEW n \in Requests, Reserve(n) PROVE vec' = vec \/ Grown(vec, vec')
  <2> DEFINE needed == Larger(n, size(vec) + 0)
             new == NewCapacity(needed, capacity(vec))
  <2>1. needed \in Nat
    BY <1>2, VectorAssumption DEF Larger
  <2>2. CASE needed <= capacity(vec)
    BY <1>6, <2>2 DEF Reserve, grow
  <2>3. CASE needed > capacity(vec)
    <3>1. new \in Nat /\ new >= needed /\ new >= 2 * capacity(vec) /\ new >= 4
      BY <1>2, <2>1, <2>3, NewCapacityFits
    <3>2. vec' = realloc(vec, new)
      BY <1>6, <2>1, <2>3, <1>2 DEF Reserve, grow
    <3> HIDE DEF new
    <3>3. new >= capacity(vec)
      BY <1>2, <3>1
    <3>4. Allocated(vec') /\ vec'.capacity = new
      BY <1>1, <3>1, <3>2, <3>3, ReallocType
    <3> QED
      BY <3>1, <3>4 DEF Grown
  <2> QED
    BY <1>2, <2>1, <2>2, <2>3
<1>7. ASSUME NEW i \in Index, NEW n \in Counts \cup {0}, EraseN(i, n)
      PROVE  vec' = vec \/ Grown(vec, vec')
  <2>1. CASE Inside(i) /\ n >= 0
    <3>1. n \in Int /\ i \in Int /\ vec # NULL /\ i >= 0 /\ i < size(vec)
      BY <2>1, VectorAssumption DEF Inside, Index
    <3>2. /\ Allocated(vec) /\ i \in 0..(vec.size - 1) /\ n \in Nat
          /\ vec' = erasen(vec, i, n)
      BY <1>1, <1>2, <1>7, <2>1, <3>1 DEF EraseN
    <3> QED
      BY <1>2, <3>1, <3>2, ErasenFits DEF Grown
  <2>2. CASE ~(Inside(i) /\ n >= 0)
    BY <1>7, <2>2 DEF EraseN
  <2> QED
    BY <2>1, <2>2
<1>8. ASSUME Free PROVE Grown(vec, vec')
  BY <1>8 DEF Free, Grown
<1>9. ASSUME UNCHANGED vars PROVE vec' = vec
  BY <1>9 DEF vars
<1>10. ASSUME NEW i \in Index, Erase(i) \/ \E n \in Counts : EraseN(i, n)
       PROVE  vec' = vec \/ Grown(vec, vec')
  <2>1. PICK n \in Counts \cup {0} : EraseN(i, n)
    BY <1>10 DEF Erase, EraseCount
  <2> QED
    BY <1>7, <2>1
<1>11. ASSUME NEW x \in Item, Push(x) \/ \E i \in Index : Insert(i, x)
       PROVE  vec' = vec \/ Grown(vec, vec')
  BY <1>3, <1>4, <1>11
<1> QED
  BY <1>5, <1>6, <1>8, <1>9, <1>10, <1>11, Zenon DEF Next

LEMMA Allocates == Spec => []IInv
<1>1. Init => IInv
  BY DEF Init, IInv
<1>2. IInv /\ [Next]_vars => IInv'
  BY StepGrows DEF IInv, Grown
<1> QED
  BY <1>1, <1>2, PTL DEF Spec

\* Whatever sizes, indices and counts the caller passes, what the vector holds
\* fits its buffer.
THEOREM HoldsWhatFits == Spec => []TypeOK
<1>1. IInv => TypeOK
  BY DEF IInv, TypeOK, Allocated
<1> QED
  BY <1>1, Allocates, PTL

\* Every reallocation at least doubles the capacity.
THEOREM ReallocationsDouble == Spec => GrowthDoubles
<1>1. IInv /\ [Next]_vars =>
        [\/ capacity(vec') = capacity(vec)
         \/ capacity(vec') >= 2 * capacity(vec) /\ capacity(vec') >= 4
         \/ vec' = NULL]_vars
  BY StepGrows DEF Grown, capacity, vars
<1> QED
  BY <1>1, Allocates, PTL DEF Spec, GrowthDoubles

-----------------------------------------------------------------------------
(* Where the bytes of an item are.                                          *)

Times(i) == ItemSize * i

LEMMA TimesType ==
  /\ ItemSize \in Nat /\ ItemSize > 0
  /\ \A i \in Int : Times(i) \in Int /\ Times(i + 1) = Times(i) + ItemSize
                    /\ Times(i - 1) = Times(i) - ItemSize
  /\ \A i \in Nat : Times(i) \in Nat /\ Times(i) >= i
<1>1. ItemSize \in Nat /\ ItemSize > 0
  BY VectorAssumption
<1>2. \A i \in Int : Times(i) \in Int /\ Times(i + 1) = Times(i) + ItemSize
                     /\ Times(i - 1) = Times(i) - ItemSize
  BY <1>1 DEF Times
<1>3. \A i \in Nat : Times(i) \in Nat /\ Times(i) >= i
  BY <1>1 DEF Times
<1> QED
  BY <1>1, <1>2, <1>3

LEMMA TimesAdds == \A i, j \in Int : Times(i + j) = Times(i) + Times(j)
  BY VectorAssumption DEF Times

LEMMA TimesGrows ==
  ASSUME NEW i \in Int, NEW j \in Int, i <= j
  PROVE  Times(i) <= Times(j)
<1>1. j - i \in Nat /\ j = i + (j - i)
  OBVIOUS
<1>2. Times(j - i) \in Nat
  BY <1>1, TimesType
<1>3. Times(j) = Times(i) + Times(j - i)
  BY <1>1, TimesAdds
<1> QED
  BY <1>2, <1>3, TimesType

\* A byte belongs to one item.
LEMMA ByteOfItem ==
  ASSUME NEW i \in Nat, NEW k \in 0..(ItemSize - 1)
  PROVE  (Times(i) + k) \div ItemSize = i /\ (Times(i) + k) % ItemSize = k
  BY VectorAssumption DEF Times

LEMMA SlotInBuffer ==
  ASSUME NEW cap \in Nat, NEW i \in Nat, i < cap, NEW k \in 0..(ItemSize - 1)
  PROVE  Times(i) + k \in Buffer(cap) /\ Times(i) + k < Times(cap)
<1>1. Times(i + 1) <= Times(cap)
  BY TimesGrows
<1>2. Times(i) + ItemSize <= Times(cap) /\ Times(i) \in Nat /\ ItemSize \in Nat /\ Times(cap) \in Nat
  BY <1>1, TimesType
<1>3. Times(i) + k \in 0..(Times(cap) - 1)
  BY <1>2
<1> QED
  BY <1>2, <1>3 DEF Buffer, Times

-----------------------------------------------------------------------------
(* What a vector holds.                                                     *)

Holds(v, i, x) == \A k \in 0..(ItemSize - 1) : v.bytes[Times(i) + k] = <<x, k>>

Represents(v, q) == /\ q \in Seq(Item)
                    /\ Len(q) = size(v)
                    /\ \A i \in 1..Len(q) : Holds(v, i - 1, q[i])

ContentsOf(v) == [i \in 1..size(v) |-> at(v, i - 1)]

LEMMA AtHolds ==
  ASSUME NEW v, NEW i \in Nat, NEW x \in Item, Holds(v, i, x)
  PROVE  at(v, i) = x
<1>1. 0 \in 0..(ItemSize - 1)
  BY VectorAssumption
<1>2. v.bytes[ItemSize * i + 0] = <<x, 0>>
  BY <1>1 DEF Holds, Times
<1>3. ItemSize * i + 0 = ItemSize * i
  BY VectorAssumption
<1>4. v.bytes[ItemSize * i] = <<x, 0>>
  BY <1>2, <1>3
<1>5. <<x, 0>> # Junk
  BY <1>1, VectorAssumption
<1>6. \A k \in 0..(ItemSize - 1) : v.bytes[ItemSize * i + k] = <<x, k>>
  BY DEF Holds, Times
<1> QED
  BY <1>4, <1>5, <1>6 DEF at

LEMMA ContentsAre ==
  ASSUME NEW v, NEW q, Represents(v, q)
  PROVE  ContentsOf(v) = q
<1>1. \A i \in 1..Len(q) : at(v, i - 1) = q[i]
  <2> TAKE i \in 1..Len(q)
  <2>1. i - 1 \in Nat /\ q[i] \in Item /\ Holds(v, i - 1, q[i])
    BY DEF Represents
  <2> QED BY <2>1, AtHolds
<1>2. q = [i \in 1..Len(q) |-> q[i]]
  BY DEF Represents
<1> QED
  BY <1>1, <1>2 DEF ContentsOf, Represents

\* NULL is no header.
NullIsNoVector == \A n, c, b : NULL # [size |-> n, capacity |-> c, bytes |-> b]

LEMMA SizeOf ==
  ASSUME NullIsNoVector, NEW v, VectorType(v)
  PROVE  v # NULL /\ size(v) = v.size /\ capacity(v) = v.capacity
  BY DEF NullIsNoVector, VectorType, size, capacity

-----------------------------------------------------------------------------
(* Memory.                                                                  *)

LEMMA ReallocKeeps ==
  ASSUME NullIsNoVector, NEW v, v = NULL \/ Allocated(v), NEW q, Represents(v, q),
         NEW cap \in Nat, cap >= 4, cap >= capacity(v)
  PROVE  Represents(realloc(v, cap), q)
<1> DEFINE w == realloc(v, cap)
<1>1. Allocated(w) /\ w.size = size(v)
  BY ReallocType
<1>2. size(w) = Len(q)
  BY <1>1, SizeOf DEF Represents, Allocated
<1>3. ASSUME NEW i \in 1..Len(q), NEW k \in 0..(ItemSize - 1)
      PROVE  w.bytes[Times(i - 1) + k] = <<q[i], k>>
  <2>1. /\ capacity(v) \in Nat /\ i - 1 \in Nat /\ i - 1 < capacity(v) /\ i - 1 < cap
    BY DEF Represents, size, capacity, Allocated, VectorType
  <2>2. Times(i - 1) + k \in Buffer(cap) /\ Times(i - 1) + k < Times(capacity(v))
    BY <2>1, SlotInBuffer
  <2>3. w.bytes[Times(i - 1) + k] = v.bytes[Times(i - 1) + k]
    BY <2>2 DEF realloc, Times
  <2>4. v.bytes[Times(i - 1) + k] = <<q[i], k>>
    BY DEF Represents, Holds
  <2> QED BY <2>3, <2>4
<1> QED
  BY <1>2, <1>3 DEF Represents, Holds

LEMMA AddgrowKeeps ==
  ASSUME NullIsNoVector, NEW v, v = NULL \/ Allocated(v), NEW q, Represents(v, q)
  PROVE  Represents(addgrow(v, 1), q)
<1> DEFINE needed == size(v) + 1
           cap == capacity(v)
           new == NewCapacity(needed, cap)
<1>1. /\ size(v) \in Nat /\ cap \in Nat /\ size(v) <= cap
      /\ cap = 0 \/ cap >= 4
      /\ v = NULL => cap = 0
  BY DEF size, capacity, Allocated, VectorType
<1>2. CASE v # NULL /\ needed <= cap
  BY <1>1, <1>2 DEF addgrow
<1>3. CASE v = NULL \/ needed > cap
  <2>1. needed > cap
    BY <1>1, <1>3
  <2>2. addgrow(v, 1) = realloc(v, new)
    BY <1>1, <1>3, <2>1 DEF addgrow, grow, Larger
  <2>3. new \in Nat /\ new >= needed /\ new >= 4
    BY <1>1, <2>1, NewCapacityFits
  <2> HIDE DEF new
  <2> QED BY <1>1, <2>1, <2>2, <2>3, ReallocKeeps
<1> QED
  BY <1>1, <1>2, <1>3

LEMMA StoreHolds ==
  ASSUME NEW v, VectorType(v), NEW i \in Nat, i < v.capacity, NEW x \in Item,
         NEW j \in Nat, j < v.capacity
  PROVE  /\ Holds(store(v, i, x), i, x)
         /\ \A y : j # i /\ Holds(v, j, y) => Holds(store(v, i, x), j, y)
<1>1. DOMAIN v.bytes = Buffer(v.capacity) /\ v.capacity \in Nat
  BY DEF VectorType
<1>2. ASSUME NEW k \in 0..(ItemSize - 1)
      PROVE  store(v, i, x).bytes[Times(i) + k] = <<x, k>>
  <2>1. Times(i) + k \in DOMAIN v.bytes
    BY <1>1, SlotInBuffer
  <2>2. (Times(i) + k) \div ItemSize = i /\ (Times(i) + k) % ItemSize = k
    BY ByteOfItem
  <2> QED BY <2>1, <2>2 DEF store, VectorType
<1>3. ASSUME NEW k \in 0..(ItemSize - 1), j # i
      PROVE  store(v, i, x).bytes[Times(j) + k] = v.bytes[Times(j) + k]
  <2>1. Times(j) + k \in DOMAIN v.bytes
    BY <1>1, SlotInBuffer
  <2>2. (Times(j) + k) \div ItemSize = j
    BY ByteOfItem
  <2> QED BY <1>3, <2>1, <2>2 DEF store, VectorType
<1> QED
  BY <1>2, <1>3 DEF Holds

\* Bytes of an item moved as a whole are that item in its new place.
LEMMA MemmoveHolds ==
  ASSUME NEW v, VectorType(v), NEW dst \in Nat, NEW src \in Nat, NEW num \in Int,
         NEW i \in Nat, i < v.capacity, NEW y
  PROVE  LET w == memmove(v, Times(dst), Times(src), num) IN
         /\ i < dst /\ Holds(v, i, y) => Holds(w, i, y)
         /\ (/\ i >= dst /\ i - dst + src < v.capacity
             /\ Times(i + 1) <= Times(dst) + num
             /\ Holds(v, i - dst + src, y))
            => Holds(w, i, y)
<1> DEFINE w == memmove(v, Times(dst), Times(src), num)
<1>1. DOMAIN v.bytes = Buffer(v.capacity) /\ v.capacity \in Nat
  BY DEF VectorType
<1>0. w.bytes = [b \in DOMAIN v.bytes |->
                   IF b \in Times(dst)..(Times(dst) + num - 1)
                   THEN IF Times(src) + (b - Times(dst)) \in DOMAIN v.bytes
                        THEN v.bytes[Times(src) + (b - Times(dst))] ELSE Junk
                   ELSE v.bytes[b]]
  BY DEF memmove, VectorType
<1> HIDE DEF w
<1>7. \A b \in DOMAIN v.bytes :
        b \notin Times(dst)..(Times(dst) + num - 1) => w.bytes[b] = v.bytes[b]
  BY <1>0
<1>8. \A b \in DOMAIN v.bytes :
        (/\ b \in Times(dst)..(Times(dst) + num - 1)
         /\ Times(src) + (b - Times(dst)) \in DOMAIN v.bytes)
        => w.bytes[b] = v.bytes[Times(src) + (b - Times(dst))]
  BY <1>0
<1>2. /\ Times(dst) \in Nat /\ Times(src) \in Nat /\ Times(i) \in Nat /\ ItemSize \in Nat
      /\ Times(i + 1) = Times(i) + ItemSize
  BY TimesType
<1>3. ASSUME NEW k \in 0..(ItemSize - 1), i < dst
      PROVE  w.bytes[Times(i) + k] = v.bytes[Times(i) + k]
  <2>1. Times(i) + k \in DOMAIN v.bytes
    BY <1>1, SlotInBuffer
  <2>2. Times(i) + k < Times(dst)
    BY <1>3, SlotInBuffer
  <2>3. Times(i) + k \notin Times(dst)..(Times(dst) + num - 1)
    BY <1>2, <2>2
  <2> QED BY <1>7, <2>1, <2>3
<1>4. ASSUME NEW k \in 0..(ItemSize - 1), i >= dst, i - dst + src < v.capacity,
             Times(i + 1) <= Times(dst) + num
      PROVE  w.bytes[Times(i) + k] = v.bytes[Times(i - dst + src) + k]
  <2>1. Times(i) + k \in DOMAIN v.bytes
    BY <1>1, SlotInBuffer
  <2>2. Times(dst) <= Times(i)
    BY <1>4, TimesGrows
  <2>3. Times(i) + k \in Times(dst)..(Times(dst) + num - 1)
    BY <1>2, <1>4, <2>2
  <2>4. i - dst + src \in Nat
    BY <1>4
  <2>5. Times(i - dst + src) + k \in DOMAIN v.bytes
    BY <1>1, <1>4, <2>4, SlotInBuffer
  <2>6. Times(src) + ((Times(i) + k) - Times(dst)) = Times(i - dst + src) + k
    <3>1. i = (i - dst) + dst /\ i - dst \in Int
      OBVIOUS
    <3>2. Times(i) = Times(i - dst) + Times(dst)
      BY <3>1, TimesAdds
    <3>3. Times(i - dst + src) = Times(i - dst) + Times(src)
      BY <3>1, TimesAdds
    <3>4. Times(i - dst) \in Int
      BY <3>1, TimesType
    <3> QED BY <1>2, <3>2, <3>3, <3>4
  <2> DEFINE b == Times(i) + k
             a == Times(src) + (b - Times(dst))
  <2>7. /\ b \in DOMAIN v.bytes /\ b \in Times(dst)..(Times(dst) + num - 1)
        /\ a = Times(i - dst + src) + k
    BY <2>1, <2>3, <2>6
  <2>8. a \in DOMAIN v.bytes
    BY <2>5, <2>7
  <2> HIDE DEF b
  <2>9. w.bytes[b] = v.bytes[a]
    BY <1>8, <2>7, <2>8
  <2>10. w.bytes[b] = v.bytes[Times(i - dst + src) + k]
    BY <2>7, <2>9
  <2> QED BY <2>10 DEF b
<1>5. i < dst /\ Holds(v, i, y) => Holds(w, i, y)
  BY <1>3 DEF Holds
<1>6. ASSUME i >= dst, i - dst + src < v.capacity,
             Times(i + 1) <= Times(dst) + num,
             Holds(v, i - dst + src, y)
      PROVE  Holds(w, i, y)
  <2>1. ASSUME NEW k \in 0..(ItemSize - 1)
        PROVE  w.bytes[Times(i) + k] = <<y, k>>
    <3>1. w.bytes[Times(i) + k] = v.bytes[Times(i - dst + src) + k]
      BY <1>4, <1>6
    <3>2. v.bytes[Times(i - dst + src) + k] = <<y, k>>
      BY <1>6 DEF Holds
    <3> QED BY <3>1, <3>2
  <2> QED BY <2>1 DEF Holds
<1>9. /\ i < dst /\ Holds(v, i, y) => Holds(w, i, y)
      /\ (/\ i >= dst /\ i - dst + src < v.capacity
          /\ Times(i + 1) <= Times(dst) + num
          /\ Holds(v, i - dst + src, y))
         => Holds(w, i, y)
  BY <1>5, <1>6
<1> QED
  BY <1>9 DEF w

-----------------------------------------------------------------------------
(* The macros.                                                              *)

\* The facts of a vector with a buffer that the macros start from.
LEMMA AllocatedFacts ==
  ASSUME NullIsNoVector, NEW v, Allocated(v), NEW q, Represents(v, q)
  PROVE  /\ v # NULL /\ VectorType(v) /\ size(v) = v.size /\ Len(q) = v.size
         /\ v.size \in Nat /\ v.capacity \in Nat /\ v.size <= v.capacity
         /\ q \in Seq(Item) /\ \A i \in 1..Len(q) : q[i] \in Item /\ Holds(v, i - 1, q[i])
<1>1. VectorType(v) /\ v # NULL /\ size(v) = v.size
  BY SizeOf DEF Allocated
<1>2. v.size \in Nat /\ v.capacity \in Nat /\ v.size <= v.capacity
  BY <1>1 DEF VectorType
<1> QED
  BY <1>1, <1>2 DEF Represents

\* A change of the size field leaves the bytes.
LEMMA Resized ==
  ASSUME NullIsNoVector, NEW v, Allocated(v), NEW n \in 0..v.capacity
  PROVE  LET w == [v EXCEPT !.size = n] IN
         /\ Allocated(w) /\ size(w) = n /\ w.size = n /\ w.capacity = v.capacity
         /\ \A i, x : Holds(w, i, x) <=> Holds(v, i, x)
<1> DEFINE w == [v EXCEPT !.size = n]
<1>1. w.size = n /\ w.capacity = v.capacity /\ w.bytes = v.bytes
  BY DEF Allocated, VectorType
<1>2. Allocated(w)
  BY DEF Allocated, VectorType
<1> HIDE DEF w
<1>3. size(w) = n
  BY <1>1, <1>2, SizeOf DEF Allocated
<1>4. \A i, x : Holds(w, i, x) <=> Holds(v, i, x)
  BY <1>1 DEF Holds
<1> QED
  BY <1>1, <1>2, <1>3, <1>4 DEF w

LEMMA PushAppends ==
  ASSUME NullIsNoVector, NEW v, v = NULL \/ Allocated(v), NEW q, Represents(v, q),
         NEW x \in Item
  PROVE  LET a == addgrow(v, 1) IN
         Represents(store([a EXCEPT !.size = @ + 1], a.size, x), Append(q, x))
<1> DEFINE a == addgrow(v, 1)
           w == [a EXCEPT !.size = a.size + 1]
           r == store(w, a.size, x)
<1>1. Allocated(a) /\ a.size + 1 <= a.capacity /\ Represents(a, q)
  BY AddgrowFits, AddgrowKeeps
<1> HIDE DEF a
<1>2. /\ Len(q) = a.size /\ a.size \in Nat /\ a.capacity \in Nat /\ q \in Seq(Item)
      /\ \A i \in 1..Len(q) : Holds(a, i - 1, q[i])
  BY <1>1, AllocatedFacts
<1>3. a.size + 1 \in 0..a.capacity
  BY <1>1, <1>2
<1>4. /\ Allocated(w) /\ w.size = a.size + 1 /\ w.capacity = a.capacity
      /\ \A i, y : Holds(w, i, y) <=> Holds(a, i, y)
  BY <1>1, <1>3, Resized
<1> HIDE DEF w
<1>5. VectorType(w) /\ a.size < w.capacity
  BY <1>1, <1>2, <1>4 DEF Allocated
<1>6. VectorType(r) /\ r.size = a.size + 1
  BY <1>2, <1>4, <1>5, StoreType
<1>7. size(r) = a.size + 1
  BY <1>6, SizeOf
<1>8. /\ Append(q, x) \in Seq(Item) /\ Len(Append(q, x)) = a.size + 1
      /\ \A i \in 1..(a.size + 1) : Append(q, x)[i] = IF i = a.size + 1 THEN x ELSE q[i]
  BY <1>2
<1>9. ASSUME NEW i \in 1..(a.size + 1)
      PROVE  Holds(r, i - 1, Append(q, x)[i])
  <2>1. CASE i = a.size + 1
    <3>1. i - 1 = a.size
      BY <1>2, <2>1
    <3>2. Holds(r, a.size, x)
      BY <1>2, <1>5, StoreHolds
    <3> QED BY <1>8, <2>1, <3>1, <3>2
  <2>2. CASE i # a.size + 1
    <3>1. i \in 1..Len(q) /\ i - 1 \in Nat /\ i - 1 < w.capacity /\ i - 1 # a.size
      BY <1>2, <1>4, <1>5, <2>2
    <3>2. Holds(w, i - 1, q[i])
      BY <1>2, <1>4, <3>1
    <3>3. Holds(r, i - 1, q[i])
      BY <1>2, <1>5, <3>1, <3>2, StoreHolds
    <3> QED BY <1>8, <2>2, <3>3
  <2> QED BY <2>1, <2>2
<1>10. Represents(r, Append(q, x))
  BY <1>7, <1>8, <1>9 DEF Represents
<1> QED
  BY <1>10 DEF a, w

LEMMA PopTakesLast ==
  ASSUME NullIsNoVector, NEW v, Allocated(v), NEW q, Represents(v, q), v.size > 0
  PROVE  /\ Represents([v EXCEPT !.size = @ - 1], SubSeq(q, 1, Len(q) - 1))
         /\ at(v, v.size - 1) = q[Len(q)]
<1> DEFINE w == [v EXCEPT !.size = v.size - 1]
           r == SubSeq(q, 1, Len(q) - 1)
<1>1. /\ Len(q) = v.size /\ v.size \in Nat /\ v.capacity \in Nat /\ v.size <= v.capacity
      /\ q \in Seq(Item) /\ \A i \in 1..Len(q) : q[i] \in Item /\ Holds(v, i - 1, q[i])
  BY AllocatedFacts
<1>2. v.size - 1 \in 0..v.capacity
  BY <1>1
<1>3. size(w) = v.size - 1 /\ \A i, x : Holds(w, i, x) <=> Holds(v, i, x)
  BY <1>2, Resized
<1> HIDE DEF w
<1>4. /\ r \in Seq(Item) /\ Len(r) = v.size - 1
      /\ \A i \in 1..(v.size - 1) : r[i] = q[i]
  BY <1>1
<1> HIDE DEF r
<1>5. \A i \in 1..(v.size - 1) : Holds(w, i - 1, r[i])
  BY <1>1, <1>3, <1>4
<1>6. Represents(w, r)
  BY <1>3, <1>4, <1>5 DEF Represents
<1>7. at(v, v.size - 1) = q[Len(q)]
  <2>1. v.size \in 1..Len(q) /\ v.size - 1 \in Nat
    BY <1>1
  <2> QED BY <1>1, <2>1, AtHolds
<1> QED
  BY <1>6, <1>7 DEF w, r

\* The head and the tail that erasen leaves of the items.
LEMMA CutItems ==
  ASSUME NEW q \in Seq(Item), NEW i \in 0..Len(q), NEW m \in i..Len(q)
  PROVE  LET cut == SubSeq(q, 1, i) \o SubSeq(q, m + 1, Len(q))
         IN /\ cut \in Seq(Item) /\ Len(cut) = i + Len(q) - m
            /\ \A j \in 1..Len(cut) : cut[j] = IF j <= i THEN q[j] ELSE q[j - i + m]
<1> DEFINE head == SubSeq(q, 1, i)
           tail == SubSeq(q, m + 1, Len(q))
           cut == head \o tail
<1>0. Len(q) \in Nat /\ i \in Nat /\ m \in Nat /\ i <= m /\ m <= Len(q)
      /\ \A j \in 1..Len(q) : q[j] \in Item
  OBVIOUS
<1>1. head \in Seq(Item) /\ Len(head) = i /\ \A j \in 1..i : head[j] = q[j]
  BY <1>0
<1>2. /\ tail \in Seq(Item) /\ Len(tail) = Len(q) - m
      /\ \A j \in 1..(Len(q) - m) : tail[j] = q[j + m]
  <2>1. \A j \in (m + 1)..Len(q) : q[j] \in Item
    BY <1>0
  <2>2. /\ tail \in Seq(Item)
        /\ Len(tail) = IF m + 1 <= Len(q) THEN Len(q) - (m + 1) + 1 ELSE 0
        /\ \A j \in 1..(Len(q) - (m + 1) + 1) : tail[j] = q[m + 1 + j - 1]
    BY <1>0, <2>1, SubSeqProperties
  <2> HIDE DEF tail
  <2> QED BY <1>0, <2>2
<1> HIDE DEF head, tail
<1>4. /\ cut \in Seq(Item) /\ Len(cut) = i + (Len(q) - m)
      /\ \A j \in 1..(i + (Len(q) - m)) : cut[j] = IF j <= i THEN head[j] ELSE tail[j - i]
  <2>1. /\ cut \in Seq(Item) /\ Len(cut) = Len(head) + Len(tail)
        /\ \A j \in 1..(Len(head) + Len(tail)) :
             cut[j] = IF j <= Len(head) THEN head[j] ELSE tail[j - Len(head)]
    BY <1>1, <1>2, ConcatProperties, Zenon
  <2> HIDE DEF cut
  <2> QED BY <1>1, <1>2, <2>1
<1> HIDE DEF cut
<1>7. \A j \in 1..Len(cut) : cut[j] = IF j <= i THEN q[j] ELSE q[j - i + m]
  <2> TAKE j \in 1..Len(cut)
  <2>1. CASE j <= i
    BY <1>0, <1>1, <1>4, <2>1
  <2>2. CASE j > i
    <3>1. j - i \in 1..(Len(q) - m) /\ cut[j] = tail[j - i]
      BY <1>0, <1>4, <2>2
    <3> QED BY <1>0, <1>2, <2>2, <3>1
  <2> QED BY <1>0, <1>4, <2>1, <2>2
<1>9. cut \in Seq(Item) /\ Len(cut) = i + Len(q) - m
  BY <1>0, <1>4
<1> QED
  BY <1>7, <1>9 DEF cut, head, tail

\* With the item that insert puts between them.
LEMMA WideItems ==
  ASSUME NEW q \in Seq(Item), NEW i \in 0..Len(q), NEW x \in Item
  PROVE  LET wide == SubSeq(q, 1, i) \o <<x>> \o SubSeq(q, i + 1, Len(q))
         IN /\ wide \in Seq(Item) /\ Len(wide) = Len(q) + 1
            /\ \A j \in 1..Len(wide) : wide[j] = IF j <= i THEN q[j]
                                                 ELSE IF j = i + 1 THEN x ELSE q[j - 1]
<1> DEFINE head == SubSeq(q, 1, i)
           tail == SubSeq(q, i + 1, Len(q))
           one == <<x>>
           wider == head \o one
           wide == wider \o tail
<1>0. Len(q) \in Nat /\ i \in Nat /\ i <= Len(q)
      /\ \A j \in 1..Len(q) : q[j] \in Item
  OBVIOUS
<1>1. head \in Seq(Item) /\ Len(head) = i /\ \A j \in 1..i : head[j] = q[j]
  BY <1>0
<1>2. /\ tail \in Seq(Item) /\ Len(tail) = Len(q) - i
      /\ \A j \in 1..(Len(q) - i) : tail[j] = q[j + i]
  <2>1. \A j \in (i + 1)..Len(q) : q[j] \in Item
    BY <1>0
  <2>2. /\ tail \in Seq(Item)
        /\ Len(tail) = IF i + 1 <= Len(q) THEN Len(q) - (i + 1) + 1 ELSE 0
        /\ \A j \in 1..(Len(q) - (i + 1) + 1) : tail[j] = q[i + 1 + j - 1]
    BY <1>0, <2>1, SubSeqProperties
  <2> HIDE DEF tail
  <2> QED BY <1>0, <2>2
<1>3. one \in Seq(Item) /\ Len(one) = 1 /\ one[1] = x
  OBVIOUS
<1> HIDE DEF head, tail, one
<1>5. /\ wider \in Seq(Item) /\ Len(wider) = i + 1
      /\ \A j \in 1..(i + 1) : wider[j] = IF j <= i THEN head[j] ELSE one[j - i]
  <2>1. /\ wider \in Seq(Item) /\ Len(wider) = Len(head) + Len(one)
        /\ \A j \in 1..(Len(head) + Len(one)) :
             wider[j] = IF j <= Len(head) THEN head[j] ELSE one[j - Len(head)]
    BY <1>1, <1>3, ConcatProperties, Zenon
  <2> HIDE DEF wider
  <2> QED BY <1>1, <1>3, <2>1
<1> HIDE DEF wider
<1>6. /\ wide \in Seq(Item) /\ Len(wide) = i + 1 + (Len(q) - i)
      /\ \A j \in 1..(i + 1 + (Len(q) - i)) :
           wide[j] = IF j <= i + 1 THEN wider[j] ELSE tail[j - (i + 1)]
  <2>1. /\ wide \in Seq(Item) /\ Len(wide) = Len(wider) + Len(tail)
        /\ \A j \in 1..(Len(wider) + Len(tail)) :
             wide[j] = IF j <= Len(wider) THEN wider[j] ELSE tail[j - Len(wider)]
    BY <1>2, <1>5, ConcatProperties, Zenon
  <2> HIDE DEF wide
  <2> QED BY <1>2, <1>5, <2>1
<1> HIDE DEF wide
<1>8. \A j \in 1..Len(wide) : wide[j] = IF j <= i THEN q[j]
                                        ELSE IF j = i + 1 THEN x ELSE q[j - 1]
  <2> TAKE j \in 1..Len(wide)
  <2>1. CASE j <= i
    <3>1. j \in 1..(i + 1) /\ j \in 1..i /\ j <= i + 1
      BY <1>0, <2>1
    <3>2. wide[j] = wider[j]
      BY <1>6, <3>1
    <3>3. wider[j] = head[j]
      BY <1>5, <2>1, <3>1
    <3> QED BY <1>1, <2>1, <3>1, <3>2, <3>3
  <2>2. CASE j = i + 1
    <3>1. wide[j] = wider[j] /\ wider[j] = one[j - i] /\ j - i = 1
      <4>1. j \in 1..(i + 1) /\ j <= i + 1 /\ j \in 1..(i + 1 + (Len(q) - i)) /\ ~(j <= i) /\ j - i = 1
        BY <1>0, <2>2
      <4> QED BY <1>5, <1>6, <4>1
    <3> QED BY <1>0, <1>3, <2>2, <3>1
  <2>3. CASE j > i + 1
    <3>1. j - (i + 1) \in 1..(Len(q) - i) /\ wide[j] = tail[j - (i + 1)]
      BY <1>0, <1>6, <2>3
    <3>2. wide[j] = q[j - (i + 1) + i] /\ j - (i + 1) + i = j - 1
      BY <1>0, <1>2, <3>1
    <3> QED BY <1>0, <2>3, <3>2
  <2> QED BY <1>0, <1>6, <2>1, <2>2, <2>3
<1>9. wide \in Seq(Item) /\ Len(wide) = Len(q) + 1
  BY <1>0, <1>6
<1> QED
  BY <1>8, <1>9 DEF wide, wider, head, tail, one

LEMMA InsertInserts ==
  ASSUME NullIsNoVector, NEW v, Allocated(v), NEW q, Represents(v, q),
         NEW i \in 0..(v.size - 1), NEW x \in Item
  PROVE  Represents(insert(v, i, x),
                    SubSeq(q, 1, i) \o <<x>> \o SubSeq(q, i + 1, Len(q)))
<1> DEFINE a == addgrow(v, 1)
           w == [a EXCEPT !.size = a.size + 1]
           num == InsertNum(w.size, i)
           m == memmove(w, Times(i + 1), Times(i), num)
           r == store(m, i, x)
           s == SubSeq(q, 1, i) \o <<x>> \o SubSeq(q, i + 1, Len(q))
<1>0. insert(v, i, x) = r
  BY DEF insert, Times
<1>1. Allocated(a) /\ a.size + 1 <= a.capacity /\ Represents(a, q)
  BY AddgrowFits, AddgrowKeeps
<1>1a. Len(q) = v.size /\ v.size \in Nat
  BY AllocatedFacts
<1> HIDE DEF a
<1>2. /\ Len(q) = a.size /\ a.size \in Nat /\ a.capacity \in Nat /\ q \in Seq(Item)
      /\ \A j \in 1..Len(q) : q[j] \in Item /\ Holds(a, j - 1, q[j])
  BY <1>1, AllocatedFacts
<1>3. a.size + 1 \in 0..a.capacity /\ i \in 0..(a.size - 1) /\ i \in Nat
  BY <1>1, <1>1a, <1>2
<1>4. /\ Allocated(w) /\ w.size = a.size + 1 /\ w.capacity = a.capacity
      /\ \A j, y : Holds(w, j, y) <=> Holds(a, j, y)
  BY <1>1, <1>3, Resized
<1> HIDE DEF w
<1>5. VectorType(w) /\ w.capacity \in Nat /\ a.size < w.capacity
  BY <1>1, <1>2, <1>4 DEF Allocated
<1>6. /\ Times(i) \in Nat /\ Times(i + 1) \in Nat /\ Times(i + 1) >= i + 1
      /\ Times(a.size + 1) \in Nat /\ num = Times(a.size + 1) - 1 - i
  <2>1. i \in Nat /\ i + 1 \in Nat /\ a.size + 1 \in Nat
    BY <1>2, <1>3
  <2>2. num = Times(a.size + 1) - 1 - i
    BY <1>4 DEF InsertNum, Times
  <2> QED BY <2>1, <2>2, TimesType
<1>7. num \in Int
  BY <1>2, <1>3, <1>6
<1> HIDE DEF num
<1>8. VectorType(m) /\ m.size = a.size + 1 /\ m.capacity = w.capacity
  BY <1>4, <1>5, <1>6, <1>7, MemmoveType
<1>9. ASSUME NEW j \in 0..(i - 1) PROVE Holds(m, j, q[j + 1])
  <2>1. j \in Nat /\ j < w.capacity /\ j < i + 1 /\ j + 1 \in 1..Len(q) /\ j + 1 - 1 = j
    BY <1>2, <1>3, <1>5
  <2>2. Holds(w, j, q[j + 1])
    BY <1>2, <1>4, <2>1
  <2>3. i + 1 \in Nat
    BY <1>3
  <2> QED BY <1>3, <1>5, <1>7, <2>1, <2>2, <2>3, MemmoveHolds
<1>10. ASSUME NEW j \in (i + 1)..a.size PROVE Holds(m, j, q[j])
  <2>1. /\ j \in Nat /\ j < w.capacity /\ j >= i + 1 /\ j \in 1..Len(q)
        /\ j - (i + 1) + i = j - 1 /\ j - 1 < w.capacity
        /\ j + 1 \in Int /\ j + 1 <= a.size + 1
    BY <1>2, <1>3, <1>5
  <2>2. Holds(w, j - (i + 1) + i, q[j])
    BY <1>2, <1>4, <2>1
  <2>3. Times(j + 1) <= Times(a.size + 1) /\ Times(j + 1) \in Int
    <3>1. j + 1 \in Int /\ a.size + 1 \in Int /\ j + 1 <= a.size + 1
      BY <1>2, <2>1
    <3> QED BY <3>1, TimesGrows, TimesType
  <2>4. Times(j + 1) <= Times(i + 1) + num
    BY <1>3, <1>6, <2>3
  <2>5. i + 1 \in Nat
    BY <1>3
  <2> HIDE DEF m
  <2>6. LET u == memmove(w, Times(i + 1), Times(i), num) IN Holds(u, j, q[j])
    BY <1>3, <1>5, <1>7, <2>1, <2>2, <2>4, <2>5, MemmoveHolds
  <2> QED BY <2>6 DEF m
<1> HIDE DEF m
<1>11. VectorType(r) /\ r.size = a.size + 1
  BY <1>3, <1>8, StoreType
<1>12. size(r) = a.size + 1
  BY <1>11, SizeOf
<1>13. /\ s \in Seq(Item) /\ Len(s) = a.size + 1
       /\ \A j \in 1..(a.size + 1) : s[j] = IF j <= i THEN q[j]
                                            ELSE IF j = i + 1 THEN x ELSE q[j - 1]
  <2>1. q \in Seq(Item) /\ i \in 0..Len(q)
    BY <1>2, <1>3
  <2>2. /\ s \in Seq(Item) /\ Len(s) = Len(q) + 1
        /\ \A j \in 1..Len(s) : s[j] = IF j <= i THEN q[j]
                                       ELSE IF j = i + 1 THEN x ELSE q[j - 1]
    BY <2>1, WideItems, Zenon
  <2> HIDE DEF s
  <2> QED BY <1>2, <2>2
<1> HIDE DEF s
<1>14. ASSUME NEW j \in 1..(a.size + 1) PROVE Holds(r, j - 1, s[j])
  <2>0. j - 1 \in Nat /\ j - 1 < m.capacity /\ i < m.capacity
    BY <1>2, <1>3, <1>5, <1>8
  <2>1. CASE j = i + 1
    <3>1. j - 1 = i /\ s[j] = x
      BY <1>3, <1>13, <2>1
    <3> QED BY <1>3, <1>8, <2>0, <3>1, StoreHolds
  <2>2. CASE j <= i
    <3>1. j - 1 \in 0..(i - 1) /\ j - 1 + 1 = j /\ j - 1 # i /\ s[j] = q[j]
      BY <1>3, <1>13, <2>2
    <3>2. Holds(m, j - 1, s[j])
      BY <1>9, <3>1
    <3> QED BY <1>3, <1>8, <2>0, <3>1, <3>2, StoreHolds
  <2>3. CASE j > i + 1
    <3>1. j - 1 \in (i + 1)..a.size /\ j - 1 # i /\ s[j] = q[j - 1]
      BY <1>2, <1>3, <1>13, <2>3
    <3>2. Holds(m, j - 1, s[j])
      BY <1>10, <3>1
    <3> QED BY <1>3, <1>8, <2>0, <3>1, <3>2, StoreHolds
  <2> QED BY <1>3, <2>1, <2>2, <2>3
<1>15. Represents(r, s)
  BY <1>12, <1>13, <1>14 DEF Represents
<1> QED
  BY <1>0, <1>15 DEF s

LEMMA EraseDeletesRun ==
  ASSUME NullIsNoVector, NEW v, Allocated(v), NEW q, Represents(v, q),
         NEW i \in 0..(v.size - 1), NEW n \in Nat
  PROVE  /\ MostAt(v, i, n) \in 0..(v.size - i)
         /\ Represents(erasen(v, i, n),
                       SubSeq(q, 1, i) \o SubSeq(q, i + MostAt(v, i, n) + 1, Len(q)))
<1> DEFINE d == MostAt(v, i, n)
           num == EraseNum(v.size, i, d)
           m == memmove(v, Times(i), Times(i + d), num)
           r == [m EXCEPT !.size = v.size - d]
           s == SubSeq(q, 1, i) \o SubSeq(q, i + d + 1, Len(q))
<1>1. /\ VectorType(v) /\ Len(q) = v.size /\ v.size \in Nat /\ v.capacity \in Nat
      /\ v.size <= v.capacity /\ q \in Seq(Item)
      /\ \A j \in 1..Len(q) : q[j] \in Item /\ Holds(v, j - 1, q[j])
  BY AllocatedFacts
<1>2. i \in Nat /\ i < v.size
  BY <1>1
<1>3. d \in 0..(v.size - i)
  BY <1>1, <1>2 DEF MostAt
<1>4. erasen(v, i, n) = [m EXCEPT !.size = @ - d]
  BY DEF erasen, Times
<1> HIDE DEF d
<1>5. d \in Nat /\ i + d \in Nat /\ i + d <= v.size
  BY <1>1, <1>2, <1>3
<1>6. /\ Times(i) \in Nat /\ Times(i) >= i /\ Times(d) \in Nat /\ Times(d) >= d
      /\ Times(i + d) \in Nat /\ Times(v.size) \in Nat
  BY <1>1, <1>2, <1>5, TimesType
<1>7. num = Times(v.size) - d - i
  BY DEF EraseNum, Times
<1>8. num \in Int
  BY <1>2, <1>5, <1>6, <1>7
<1> HIDE DEF num
<1>9. VectorType(m) /\ m.size = v.size /\ m.capacity = v.capacity
  BY <1>1, <1>6, <1>8, MemmoveType
<1>10. Allocated(m)
  BY <1>9 DEF Allocated
<1>11. ASSUME NEW j \in 0..(i - 1) PROVE Holds(m, j, q[j + 1])
  <2>1. j \in Nat /\ j < v.capacity /\ j < i /\ j + 1 \in 1..Len(q) /\ j + 1 - 1 = j
    BY <1>1, <1>2
  <2>2. Holds(v, j, q[j + 1])
    BY <1>1, <2>1
  <2> QED BY <1>1, <1>2, <1>5, <1>8, <2>1, <2>2, MemmoveHolds
<1>12. ASSUME NEW j \in i..(v.size - d - 1) PROVE Holds(m, j, q[j + d + 1])
  <2>1. /\ j \in Nat /\ j >= i /\ j < v.capacity /\ j - i + (i + d) = j + d
        /\ j + d < v.capacity /\ j + d + 1 \in 1..Len(q) /\ j + d + 1 - 1 = j + d
        /\ j + 1 \in Int /\ v.size - d \in Int /\ j + 1 <= v.size - d
    BY <1>1, <1>2, <1>5
  <2>2. Holds(v, j - i + (i + d), q[j + d + 1])
    <3> DEFINE p == j + d + 1
    <3>1. p \in 1..Len(q) /\ p - 1 = j - i + (i + d)
      BY <1>2, <1>5, <2>1
    <3> HIDE DEF p
    <3>2. Holds(v, p - 1, q[p])
      BY <1>1, <3>1
    <3>3. Holds(v, j - i + (i + d), q[p])
      BY <3>1, <3>2
    <3> QED BY <3>3 DEF p
  <2>3. Times(v.size) = Times(v.size - d) + Times(d)
    <3>1. v.size = (v.size - d) + d /\ d \in Int
      BY <1>1, <1>5
    <3> QED BY <2>1, <3>1, TimesAdds
  <2>4. Times(j + 1) <= Times(v.size - d) /\ Times(j + 1) \in Int /\ Times(v.size - d) \in Int
    BY <2>1, TimesGrows, TimesType
  <2>5. Times(j + 1) <= Times(i) + num
    BY <1>2, <1>5, <1>6, <1>7, <2>3, <2>4
  <2> HIDE DEF m
  <2>6. LET w == memmove(v, Times(i), Times(i + d), num) IN Holds(w, j, q[j + d + 1])
    BY <1>1, <1>2, <1>5, <1>8, <2>1, <2>2, <2>5, MemmoveHolds
  <2> QED BY <2>6 DEF m
<1> HIDE DEF m
<1>13. v.size - d \in 0..m.capacity
  BY <1>1, <1>2, <1>5, <1>9
<1>14. /\ erasen(v, i, n) = r /\ size(r) = v.size - d
       /\ \A j, y : Holds(r, j, y) <=> Holds(m, j, y)
  BY <1>4, <1>9, <1>10, <1>13, Resized DEF VectorType
<1> HIDE DEF r
<1>15. /\ s \in Seq(Item) /\ Len(s) = v.size - d
       /\ \A j \in 1..(v.size - d) : s[j] = IF j <= i THEN q[j] ELSE q[j + d]
  <2> DEFINE k == i + d
             t == SubSeq(q, 1, i) \o SubSeq(q, k + 1, Len(q))
  <2>1. i \in 0..Len(q) /\ k \in i..Len(q)
    BY <1>1, <1>2, <1>5
  <2> HIDE DEF k
  <2>2. /\ t \in Seq(Item) /\ Len(t) = i + Len(q) - k
        /\ \A j \in 1..Len(t) : t[j] = IF j <= i THEN q[j] ELSE q[j - i + k]
    BY <1>1, <2>1, CutItems
  <2>3. /\ s \in Seq(Item) /\ Len(s) = i + Len(q) - (i + d)
        /\ \A j \in 1..Len(s) : s[j] = IF j <= i THEN q[j] ELSE q[j - i + (i + d)]
    BY <2>2 DEF k
  <2>4. Len(s) = v.size - d
    BY <1>1, <1>2, <1>5, <2>3
  <2>5. \A j \in Int : j - i + (i + d) = j + d
    BY <1>2, <1>5
  <2> HIDE DEF s
  <2>6. ASSUME NEW j \in 1..(v.size - d)
        PROVE  s[j] = IF j <= i THEN q[j] ELSE q[j + d]
    <3>1. j \in 1..Len(s) /\ j \in Int
      BY <2>4
    <3>2. j - i + (i + d) = j + d
      BY <2>5, <3>1
    <3> QED BY <2>3, <3>1, <3>2, Zenon
  <2> QED BY <2>3, <2>4, <2>6
<1> HIDE DEF s
<1>16. ASSUME NEW j \in 1..(v.size - d) PROVE Holds(r, j - 1, s[j])
  <2>1. CASE j <= i
    <3>1. j - 1 \in 0..(i - 1) /\ j - 1 + 1 = j /\ s[j] = q[j]
      BY <1>2, <1>15, <2>1
    <3> QED BY <1>11, <1>14, <3>1
  <2>2. CASE j > i
    <3>1. j - 1 \in i..(v.size - d - 1) /\ j - 1 + d + 1 = j + d /\ s[j] = q[j + d]
      BY <1>1, <1>2, <1>5, <1>15, <2>2
    <3> QED BY <1>12, <1>14, <3>1
  <2> QED BY <1>2, <2>1, <2>2
<1>17. Represents(r, s)
  BY <1>14, <1>15, <1>16 DEF Represents
<1> QED
  BY <1>3, <1>14, <1>17 DEF d, s

-----------------------------------------------------------------------------
(* Steps.                                                                   *)

\* What a step of the vector does to the items q it holds, and says in call.
Promised(q, r) ==
  \/ \E x \in Item : call' = <<"push", x>> /\ r = Append(q, x)
  \/ q # <<>> /\ call' = <<"pop", q[Len(q)]>> /\ r = SubSeq(q, 1, Len(q) - 1)
  \/ \E n \in Requests : call' = <<"reserve", n>> /\ r = q
  \/ \E i \in Index, x \in Item :
       /\ call' = <<"insert", i, x>>
       /\ r = IF i \in 0..(Len(q) - 1)
              THEN SubSeq(q, 1, i) \o <<x>> \o SubSeq(q, i + 1, Len(q)) ELSE q
  \/ \E i \in Index, n \in Counts \cup {0} :
       /\ call' = <<"erasen", i, n>>
       /\ r = IF i \in 0..(Len(q) - 1) /\ n >= 0
              THEN SubSeq(q, 1, i) \o SubSeq(q, i + n + 1, Len(q)) ELSE q
  \/ call' = <<"free">> /\ r = <<>>
  \/ UNCHANGED call /\ r = q

\* An index is inside the vector when it is one of the items.
LEMMA InsideItems ==
  ASSUME NullIsNoVector, IInv, NEW q, Represents(vec, q), NEW i \in Index
  PROVE  /\ Inside(i) <=> i \in 0..(Len(q) - 1)
         /\ Inside(i) => /\ Allocated(vec) /\ i \in 0..(vec.size - 1) /\ i \in Nat
                         /\ Len(q) = vec.size /\ vec.size \in Nat
<1>1. i \in Int /\ Len(q) = size(vec)
  BY VectorAssumption DEF Index, Represents
<1>2. CASE vec = NULL
  <2>1. size(vec) = 0 /\ ~Inside(i)
    BY <1>2 DEF size, Inside
  <2> QED BY <1>1, <2>1
<1>3. CASE vec # NULL
  <2>1. Allocated(vec)
    BY <1>3 DEF IInv
  <2>2. Len(q) = vec.size /\ size(vec) = vec.size /\ vec.size \in Nat
    BY <2>1, AllocatedFacts
  <2> QED BY <1>1, <1>3, <2>1, <2>2 DEF Inside
<1> QED BY <1>2, <1>3

LEMMA StepKeepsPromise ==
  ASSUME NullIsNoVector, IInv, NEW q, Represents(vec, q), [Next]_vars
  PROVE  \E r : Represents(vec', r) /\ Promised(q, r)
<1>1. vec = NULL \/ Allocated(vec)
  BY DEF IInv
<1>2. q \in Seq(Item) /\ Len(q) = size(vec)
  BY DEF Represents
<1>3. ASSUME NEW x \in Item, Push(x) PROVE \E r : Represents(vec', r) /\ Promised(q, r)
  <2>1. Represents(vec', Append(q, x))
    BY <1>1, <1>3, PushAppends DEF Push
  <2>2. Promised(q, Append(q, x))
    BY <1>3 DEF Promised, Push
  <2> QED BY <2>1, <2>2
<1>4. ASSUME NEW x \in Item, NEW i \in Index, Insert(i, x)
      PROVE  \E r : Represents(vec', r) /\ Promised(q, r)
  <2> DEFINE s == SubSeq(q, 1, i) \o <<x>> \o SubSeq(q, i + 1, Len(q))
  <2>1. call' = <<"insert", i, x>> /\ vec' = IF Inside(i) THEN insert(vec, i, x) ELSE vec
    BY <1>4 DEF Insert
  <2>2. Inside(i) <=> i \in 0..(Len(q) - 1)
    BY InsideItems
  <2>3. CASE Inside(i)
    <3>1. Represents(vec', s)
      BY <2>1, <2>3, InsideItems, InsertInserts
    <3>2. s = IF i \in 0..(Len(q) - 1) THEN s ELSE q
      BY <2>2, <2>3
    <3>3. Promised(q, s)
      BY <2>1, <3>2, Zenon DEF Promised
    <3> QED BY <3>1, <3>3
  <2>4. CASE ~Inside(i)
    <3> DEFINE t == q
    <3>1. t = IF i \in 0..(Len(q) - 1) THEN s ELSE q
      BY <2>2, <2>4
    <3> HIDE DEF t
    <3>2. Promised(q, t)
      BY <2>1, <3>1, Zenon DEF Promised
    <3>3. Represents(vec', t)
      BY <2>1, <2>4 DEF t
    <3> QED BY <3>2, <3>3
  <2> QED BY <2>3, <2>4
<1>5. ASSUME Pop PROVE \E r : Represents(vec', r) /\ Promised(q, r)
  <2> DEFINE r == SubSeq(q, 1, Len(q) - 1)
  <2>1. Allocated(vec) /\ size(vec) > 0
    BY <1>1, <1>5 DEF Pop, size
  <2>2. Len(q) = vec.size /\ size(vec) = vec.size /\ vec.size \in Nat
    BY <2>1, AllocatedFacts
  <2>3. Represents(vec', r) /\ call' = <<"pop", q[Len(q)]>>
    BY <1>5, <2>1, <2>2, PopTakesLast DEF Pop
  <2>4. q # <<>>
    BY <1>2, <2>1
  <2>5. Promised(q, r)
    BY <2>3, <2>4 DEF Promised
  <2> QED BY <2>3, <2>5
<1>6. ASSUME NEW n \in Requests, Reserve(n)
      PROVE  \E r : Represents(vec', r) /\ Promised(q, r)
  <2> DEFINE needed == Larger(n, size(vec) + 0)
             new == NewCapacity(needed, capacity(vec))
  <2>1. /\ size(vec) \in Nat /\ capacity(vec) \in Nat /\ size(vec) <= capacity(vec)
        /\ capacity(vec) = 0 \/ capacity(vec) >= 4
    BY <1>1 DEF size, capacity, Allocated, VectorType
  <2>2. needed \in Nat
    BY <2>1, VectorAssumption DEF Larger
  <2>3. vec' = IF needed <= capacity(vec) THEN vec ELSE realloc(vec, new)
    BY <1>6 DEF Reserve, grow
  <2>4. needed <= capacity(vec) => Represents(vec', q)
    BY <2>3
  <2>5. ASSUME needed > capacity(vec) PROVE Represents(vec', q)
    <3>1. new \in Nat /\ new >= 2 * capacity(vec) /\ new >= 4
      BY <2>1, <2>2, <2>5, NewCapacityFits
    <3>2. vec' = realloc(vec, new)
      BY <2>1, <2>2, <2>3, <2>5
    <3> HIDE DEF new
    <3>3. new >= capacity(vec)
      BY <2>1, <3>1
    <3> QED BY <1>1, <3>1, <3>2, <3>3, ReallocKeeps
  <2> HIDE DEF needed
  <2>6. Represents(vec', q)
    BY <2>1, <2>2, <2>4, <2>5
  <2>7. Promised(q, q)
    BY <1>6 DEF Promised, Reserve
  <2> QED BY <2>6, <2>7
<1>7. ASSUME NEW i \in Index, NEW n \in Counts \cup {0}, EraseN(i, n)
      PROVE  \E r : Represents(vec', r) /\ Promised(q, r)
  <2> DEFINE in == i \in 0..(Len(q) - 1) /\ n >= 0
             s == SubSeq(q, 1, i) \o SubSeq(q, i + n + 1, Len(q))
  <2>1. /\ call' = <<"erasen", i, n>>
        /\ vec' = IF Inside(i) /\ n >= 0 THEN erasen(vec, i, n) ELSE vec
    BY <1>7 DEF EraseN
  <2>2. (Inside(i) <=> i \in 0..(Len(q) - 1)) /\ n \in Int
    BY InsideItems, VectorAssumption
  <2>3. CASE Inside(i) /\ n >= 0
    <3> DEFINE d == MostAt(vec, i, n)
    <3>1. /\ Allocated(vec) /\ i \in 0..(vec.size - 1) /\ i \in Nat
          /\ Len(q) = vec.size /\ vec.size \in Nat /\ n \in Nat
      BY <2>2, <2>3, InsideItems
    <3>2. /\ d \in 0..(vec.size - i)
          /\ Represents(vec', SubSeq(q, 1, i) \o SubSeq(q, i + d + 1, Len(q)))
      BY <2>1, <2>3, <3>1, EraseDeletesRun
    <3>3. SubSeq(q, i + d + 1, Len(q)) = SubSeq(q, i + n + 1, Len(q))
      BY <1>2, <3>1 DEF MostAt
    <3>4. Represents(vec', s)
      BY <3>2, <3>3
    <3>5. s = IF in THEN s ELSE q
      BY <2>2, <2>3
    <3> HIDE DEF s
    <3>6. Promised(q, IF in THEN s ELSE q)
      BY <2>1, Zenon DEF Promised, s
    <3> QED BY <3>4, <3>5, <3>6
  <2>4. CASE ~(Inside(i) /\ n >= 0)
    <3>1. q = IF in THEN s ELSE q
      BY <2>2, <2>4
    <3>2. Promised(q, IF in THEN s ELSE q)
      BY <2>1, Zenon DEF Promised
    <3>3. Represents(vec', q)
      BY <2>1, <2>4
    <3> HIDE DEF s, in
    <3> QED BY <3>1, <3>2, <3>3
  <2> QED BY <2>3, <2>4
<1>8. ASSUME NEW i \in Index, Erase(i) \/ \E n \in Counts : EraseN(i, n)
      PROVE  \E r : Represents(vec', r) /\ Promised(q, r)
  <2>1. PICK n \in Counts \cup {0} : EraseN(i, n)
    BY <1>8 DEF Erase, EraseCount
  <2> QED BY <1>7, <2>1
<1>9. ASSUME Free PROVE \E r : Represents(vec', r) /\ Promised(q, r)
  <2>1. Represents(vec', <<>>)
    BY <1>9 DEF Free, Represents, size
  <2>2. Promised(q, <<>>)
    BY <1>9 DEF Promised, Free
  <2> QED BY <2>1, <2>2
<1>10. ASSUME UNCHANGED vars PROVE \E r : Represents(vec', r) /\ Promised(q, r)
  <2>1. Represents(vec', q) /\ Promised(q, q)
    BY <1>10 DEF vars, Promised
  <2> QED BY <2>1
<1>11. ASSUME NEW x \in Item, Push(x) \/ \E i \in Index : Insert(i, x)
       PROVE  \E r : Represents(vec', r) /\ Promised(q, r)
  BY <1>3, <1>4, <1>11
<1> QED
  BY <1>5, <1>6, <1>8, <1>9, <1>10, <1>11, Zenon DEF Next

\* The vector holds whole items.
ItemsInv == IInv /\ Represents(vec, Contents)

\* Every call does to the items what ItemSequence says of its arguments, for
\* every size of an item, every capacity and every count: no byte is lost or
\* mixed when items are moved and the buffer is reallocated.
THEOREM ImplementsSequence ==
  ASSUME NullIsNoVector PROVE Spec => SequenceSpec
<1>1. Init => ItemsInv /\ Sequence!Init
  <2> SUFFICES ASSUME Init PROVE ItemsInv /\ Sequence!Init
    OBVIOUS
  <2>1. IInv /\ size(vec) = 0
    BY DEF Init, IInv, size
  <2>2. Contents = <<>>
    BY <2>1 DEF Contents
  <2>3. Represents(vec, <<>>)
    BY <2>1 DEF Represents
  <2> QED BY <2>1, <2>2, <2>3 DEF ItemsInv, Sequence!Init, Init
<1>2. ItemsInv /\ [Next]_vars => ItemsInv' /\ [Sequence!Next]_<<Contents, call>>
  <2> SUFFICES ASSUME ItemsInv, [Next]_vars
               PROVE  ItemsInv' /\ [Sequence!Next]_<<Contents, call>>
    OBVIOUS
  <2>1. IInv /\ Represents(vec, Contents)
    BY DEF ItemsInv
  <2>2. IInv'
    BY <2>1, StepGrows DEF IInv, Grown
  <2>3. PICK r : Represents(vec', r) /\ Promised(Contents, r)
    BY <2>1, StepKeepsPromise
  <2>4. ContentsOf(vec') = r
    BY <2>3, ContentsAre
  <2>5. Contents' = r
    BY <2>4 DEF Contents, ContentsOf, size, at
  <2>6. ItemsInv'
    BY <2>2, <2>3, <2>5 DEF ItemsInv, Represents, Holds, size
  <2>7. Promised(Contents, Contents')
    BY <2>3, <2>5
  <2> DEFINE q == Contents
  <2> HIDE DEF q
  <2>8. Promised(q, Contents') => Sequence!Next \/ (UNCHANGED call /\ Contents' = q)
    BY DEF q, Promised, Sequence!Next, Sequence!Push, Sequence!Pop, Sequence!Reserve,
           Sequence!Insert, Sequence!EraseN, Sequence!Free, Sequence!Before,
           Sequence!From, Sequence!Inside
  <2> QED BY <2>6, <2>7, <2>8 DEF q
<1> QED
  BY <1>1, <1>2, PTL DEF Spec, SequenceSpec, Sequence!Spec
=============================================================================
