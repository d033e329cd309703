---------------------------- MODULE ItemSequence ----------------------------
(***************************************************************************)
(* What adc_vector.h promises of each macro and the arguments it is given: *)
(* a sequence of items that can be changed at its end and at any index,    *)
(* without buffer, capacity or bytes.  Vector is shown to implement it.    *)
(*                                                                         *)
(* adc_vector_erase has no action: it reaches the vector as the erasen of  *)
(* 0 it expands to, and what its comment promises is not kept.             *)
(***************************************************************************)
EXTENDS Integers, Sequences

CONSTANTS Item, Index, Counts, Requests  \* What the macros are given.

VARIABLES items,  \* The contents, index 0 of the code first.
          call    \* The last macro called, its arguments and what it returned.

Init == items = <<>> /\ call = <<>>

\* The items before index i, and those from index i on.
Before(i) == SubSeq(items, 1, i)
From(i) == SubSeq(items, i + 1, Len(items))

Inside(i) == i \in 0..(Len(items) - 1)

Push(x) == call' = <<"push", x>> /\ items' = Append(items, x)

Pop == /\ items # <<>>
       /\ call' = <<"pop", items[Len(items)]>>
       /\ items' = Before(Len(items) - 1)

\* Room is not seen in the items.
Reserve(n) == call' = <<"reserve", n>> /\ UNCHANGED items

\* The new item comes to stand at i, before the one that was there.  "If
\* i < 0, no action is taken.  If i >= size, no action is taken."
Insert(i, x) ==
  /\ call' = <<"insert", i, x>>
  /\ items' = IF Inside(i) THEN Before(i) \o <<x>> \o From(i) ELSE items

\* n items from i on are deleted, or "all items at position >= i" if they are
\* fewer.  Outside, and for n < 0, "no action is taken".
EraseN(i, n) ==
  /\ call' = <<"erasen", i, n>>
  /\ items' = IF Inside(i) /\ n >= 0 THEN Before(i) \o From(i + n) ELSE items

Free == call' = <<"free">> /\ items' = <<>>

Next == \/ \E x \in Item : Push(x) \/ \E i \in Index : Insert(i, x)
        \/ Pop
        \/ \E n \in Requests : Reserve(n)
        \/ \E i \in Index, n \in Counts \cup {0} : EraseN(i, n)
        \/ Free

Spec == Init /\ [][Next]_<<items, call>>
=============================================================================
