-------------------------------- MODULE Views --------------------------------
(***************************************************************************)
(* The views of a vector (core/containers/vector_data.h): subset           *)
(* references that remap the indices of a vector and share its elements,   *)
(* and views of views.                                                     *)
(*                                                                         *)
(* A view of n elements is a function on 0 .. n - 1 whose value at an      *)
(* index is the index of that element in the storage of the vector.        *)
(***************************************************************************)
EXTENDS Integers, FiniteSets

Size(view) == Cardinality(DOMAIN view)

\* VectorData: a vector of its own shows every element in its place.
Whole(size) == [n \in 0 .. size - 1 |-> n]

Smaller(a, b) == IF a < b THEN a ELSE b

\* SimpleVectorData: every step-th element from start to end.
simple_subset_reference(view, start, step, end) ==
  [n \in 0 .. Smaller(Size(view), (end - start) \div step + 1) - 1 |->
     view[start + n * step]]

\* Its overload with a start alone.
subset_from(view, start) == simple_subset_reference(view, start, 1, Size(view) - 1)

\* How many elements the alternating views show: the included ones of the
\* whole chunks, and what is left of the last chunk.
Included(size, included, excluded) ==
  (size \div (included + excluded)) * included
    + Smaller(included, size % (included + excluded))

\* AlternatingVectorData: included elements, then excluded ones left out.
alternating_subset_reference(view, included, excluded) ==
  [n \in 0 .. Included(Size(view), included, excluded) - 1 |->
     view[(n \div included) * (included + excluded) + (n % included)]]

\* Fault: the chunk an index is in is told by the size of whole chunks.
Fault_reversed_alternating_subset_reference(view, included, excluded) ==
  [n \in 0 .. Included(Size(view), included, excluded) - 1 |->
     LET chunk_offset == Smaller((n \div (included + excluded)) * (included + excluded)
                                    + included - 1, Size(view) - 1)
     IN  view[chunk_offset - (n % included)]]

\* ReversedAlternatingVectorData: every chunk from its last element down.
reversed_alternating_subset_reference(view, included, excluded) ==
  [n \in 0 .. Included(Size(view), included, excluded) - 1 |->
     LET chunk_offset == Smaller((n \div included) * (included + excluded) + included - 1,
                                 Size(view) - 1)
     IN  view[chunk_offset - (n % included)]]

\* ReversedVectorData, RepeatedVectorData and CyclicVectorData.
directed_subset_reference(view) ==
  [n \in DOMAIN view |-> view[Size(view) - 1 - n]]

repeated_subset_reference(view, repetition_number) ==
  [n \in 0 .. Size(view) * repetition_number - 1 |-> view[n \div repetition_number]]

cyclic_subset_reference(view, cycles_number) ==
  [n \in 0 .. Size(view) * cycles_number - 1 |-> view[n % Size(view)]]

\* What a view shows of a vector, and the vector after an assignment to the
\* view: element after element, so a later one prevails.
Read(vector, view) == [n \in DOMAIN view |-> vector[view[n]]]

Write(vector, view, values) ==
  [e \in DOMAIN vector |->
     LET shown == {n \in DOMAIN view : view[n] = e}
     IN  IF shown = {} THEN vector[e]
         ELSE values[CHOOSE n \in shown : \A other \in shown : other <= n]]
==============================================================================
