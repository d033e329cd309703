-------------------------------- MODULE Vector --------------------------------
(***************************************************************************)
(* adc_vector.h: a header and a buffer of bytes in one allocation, and the *)
(* macros that keep items in it.  memmove counts bytes, so the buffer is   *)
(* modelled by bytes: byte k of an item x is <<x, k>>.                     *)
(*                                                                         *)
(* realloc is taken to succeed, and pop is called on a vector with items:  *)
(* the code checks neither.                                                *)
(***************************************************************************)
EXTENDS Integers, Sequences

CONSTANTS Item,      \* The values of the element type.
          ItemSize,  \* sizeof(*vec).
          NULL,      \* The vector that is not allocated.
          Junk,      \* A byte nobody wrote, or a byte beyond the allocation.
          MaxSize,   \* Bound: no item is added to a vector of this size.
          Requests,  \* The capacities asked of adc_vector_reserve.
          Counts     \* The counts asked of adc_vector_erasen.

ASSUME VectorAssumption == /\ ItemSize \in Nat \ {0}
                           /\ MaxSize \in Nat
                           /\ Requests \subseteq Nat
                           /\ Counts \subseteq Int
                           /\ Junk \notin Item \X (0..(ItemSize - 1))

VARIABLES vec,   \* NULL, or the header and the bytes behind it.
          call   \* The last macro called, its arguments and what it returned.

vars == <<vec, call>>

ByteOf == (Item \X (0..(ItemSize - 1))) \cup {Junk}

size(v) == IF v = NULL THEN 0 ELSE v.size
capacity(v) == IF v = NULL THEN 0 ELSE v.capacity

\* The byte indices of a buffer for cap items.
Buffer(cap) == 0..(ItemSize * cap - 1)

-----------------------------------------------------------------------------
(* Memory.                                                                  *)

\* realloc of the whole allocation and the header fields set after it.
realloc(v, cap) ==
  [size |-> size(v), capacity |-> cap,
   bytes |-> [b \in Buffer(cap) |->
                IF b < ItemSize * capacity(v) THEN v.bytes[b] ELSE Junk]]

\* Bytes moved in from beyond the buffer are junk.  Bytes moved out of it,
\* into memory that is not the vector's, leave no trace here: that insert and
\* erasen move such bytes is what InsertStaysInside and ErasenStaysInside say.
memmove(v, dst, src, num) ==
  LET from(b) == src + (b - dst) IN
  [v EXCEPT !.bytes = [b \in DOMAIN v.bytes |->
     IF b \in dst..(dst + num - 1)
     THEN IF from(b) \in DOMAIN v.bytes THEN v.bytes[from(b)] ELSE Junk
     ELSE v.bytes[b]]]

\* vec[i] = x
store(v, i, x) ==
  [v EXCEPT !.bytes = [b \in DOMAIN v.bytes |->
     IF b \div ItemSize = i THEN <<x, b % ItemSize>> ELSE v.bytes[b]]]

\* vec[i]: the item all of whose bytes are in place, or Junk.
at(v, i) ==
  LET x == v.bytes[ItemSize * i] IN
  IF x # Junk /\ \A k \in 0..(ItemSize - 1) : v.bytes[ItemSize * i + k] = <<x[1], k>>
  THEN x[1] ELSE Junk

-----------------------------------------------------------------------------
(* adc__vector_grow and adc__vector_addgrow.                                *)

Larger(m, n) == IF m < n THEN n ELSE m

\* slip: exactly what was asked for.
NewCapacityExact(needed, cap) == Larger(needed, 4)
NewCapacity(needed, cap) ==
  IF needed < 2 * cap THEN 2 * cap ELSE Larger(needed, 4)

grow(v, addsize, min_cap) ==
  LET needed == Larger(min_cap, size(v) + addsize) IN
  IF needed <= capacity(v) THEN v
  ELSE realloc(v, NewCapacity(needed, capacity(v)))

\* slip: grows one item late.
addgrowLate(v, n) ==
  IF v = NULL \/ size(v) + n > capacity(v) + 1 THEN grow(v, n, 0) ELSE v
addgrow(v, n) ==
  IF v = NULL \/ size(v) + n > capacity(v) THEN grow(v, n, 0) ELSE v

-----------------------------------------------------------------------------
(* The macros.                                                              *)

Init == vec = NULL /\ call = <<>>

Push(x) ==
  /\ size(vec) < MaxSize
  /\ call' = <<"push", x>>
  /\ LET v == addgrow(vec, 1) IN vec' = store([v EXCEPT !.size = @ + 1], v.size, x)

Pop == /\ size(vec) > 0
       /\ call' = <<"pop", at(vec, vec.size - 1)>>
       /\ vec' = [vec EXCEPT !.size = @ - 1]

Reserve(n) == call' = <<"reserve", n>> /\ vec' = grow(vec, 0, n)

Free == call' = <<"free">> /\ vec' = NULL

\* The test of insert and erasen on an index: outside they do nothing.
Inside(i) == vec # NULL /\ i >= 0 /\ i < size(vec)

\* The bytes insert moves, counted after size was incremented, and those
\* erasen moves.
\* slip: items are counted as bytes.
InsertNumItems(newsize, i) == newsize - 1 - i
InsertNum(newsize, i) == ItemSize * newsize - 1 - i
EraseNum(oldsize, i, n) == ItemSize * oldsize - n - i

insert(v, i, x) ==
  LET w == [addgrow(v, 1) EXCEPT !.size = @ + 1]
  IN store(memmove(w, ItemSize * (i + 1), ItemSize * i, InsertNum(w.size, i)), i, x)

\* maxn: no more than there are from i on.
MostAt(v, i, n) == IF i + n >= v.size THEN v.size - i ELSE n

erasen(v, i, n) ==
  LET maxn == MostAt(v, i, n)
      w == memmove(v, ItemSize * i, ItemSize * (i + maxn), EraseNum(v.size, i, maxn))
  IN [w EXCEPT !.size = @ - maxn]

Insert(i, x) == /\ size(vec) < MaxSize
                /\ call' = <<"insert", i, x>>
                /\ vec' = IF Inside(i) THEN insert(vec, i, x) ELSE vec

EraseN(i, n) == /\ call' = <<"erasen", i, n>>
                /\ vec' = IF Inside(i) /\ n >= 0 THEN erasen(vec, i, n) ELSE vec

\* adc_vector_erase expands to erasen of 0.
EraseCount == 0
Erase(i) == EraseN(i, EraseCount)

\* The indices the caller passes, those out of bounds included.
Index == -1..MaxSize

Next == \/ \E x \in Item : Push(x) \/ \E i \in Index : Insert(i, x)
        \/ Pop
        \/ \E n \in Requests : Reserve(n)
        \/ \E i \in Index : Erase(i) \/ \E n \in Counts : EraseN(i, n)
        \/ Free

Spec == Init /\ [][Next]_vars

-----------------------------------------------------------------------------
(* Properties.                                                              *)

\* The vector is unallocated or a header over a buffer of its capacity, and
\* what it holds fits.
VectorType(v) == /\ v = [size |-> v.size, capacity |-> v.capacity, bytes |-> v.bytes]
                 /\ v.capacity \in Nat
                 /\ v.bytes \in [Buffer(v.capacity) -> ByteOf]
                 /\ v.size \in 0..v.capacity

TypeOK == vec = NULL \/ VectorType(vec)

\* An allocation only ever grows by doubling at least, which makes a push O(1)
\* amortised, and goes away only as a whole.
GrowthDoubles ==
  [][\/ capacity(vec') = capacity(vec)
     \/ capacity(vec') >= 2 * capacity(vec) /\ capacity(vec') >= 4
     \/ vec' = NULL]_vars

\* The vector implements a sequence of items: each of push, pop, reserve,
\* insert, erasen and free does to the items what the header says of the
\* arguments it was given, and pop returns the last item, however bytes were
\* moved and reallocated before.  Bytes behind the buffer are no items: what a
\* move does to them is not part of it.
Contents == [i \in 1..size(vec) |-> at(vec, i - 1)]

Sequence == INSTANCE ItemSequence WITH items <- Contents

SequenceSpec == Sequence!Spec

-----------------------------------------------------------------------------
(* What the header says of the vector and it does not do.                   *)

\* adc_vector_erase: "Delete item at index i."
EraseDeletes ==
  \A i \in Index : Inside(i) => size(erasen(vec, i, EraseCount)) = size(vec) - 1

\* adc_vector_insert: "Causes the vector to relocate all the items after i",
\* which are in the allocation once it has grown: the bytes written are too.
InsertStaysInside ==
  \A i \in Index : Inside(i) =>
    ItemSize * (i + 1) + InsertNum(size(vec) + 1, i) <= ItemSize * capacity(addgrow(vec, 1))

\* adc_vector_erasen says the same of any number of items; the bytes it reads
\* lie behind those it writes.
ErasenStaysInside ==
  \A i \in Index, n \in Counts : Inside(i) /\ n >= 0 =>
    LET maxn == MostAt(vec, i, n)
    IN ItemSize * (i + maxn) + EraseNum(size(vec), i, maxn) <= ItemSize * capacity(vec)

\* What the three macros say, of a vector with room for one more item at most,
\* where a move of too many bytes leaves the allocation.
RelocatesItems ==
  capacity(vec) - size(vec) <= 1 => EraseDeletes /\ InsertStaysInside /\ ErasenStaysInside
=============================================================================
