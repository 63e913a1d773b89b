---------------------------- MODULE RingBuffer -----------------------------
(***************************************************************************)
(* ring_buffer<T, N>: the array, the positions of its first and its last   *)
(* element and their number, as a record; the operations as operators from *)
(* one such record to the next.                                            *)
(***************************************************************************)
EXTENDS Naturals, Sequences

CONSTANTS Capacity, Values

ASSUME CapacityAssumption == Capacity \in Nat \ {0}

Cells == 0 .. Capacity - 1

Buffers ==
  [cells : [Cells -> Values], start : Cells, end : Cells, number : 0 .. Capacity]

\* The constructor, with the values an uninitialised array happens to hold.
Constructed(init, junk) ==
  [cells |-> [c \in Cells |-> IF c < Len(init) THEN init[c + 1] ELSE junk[c]],
   start |-> 0,
   end |-> IF init = <<>> THEN 0 ELSE Len(init) - 1,
   number |-> Len(init)]

\* Mutant of Put: the start stays when the buffer is full.
PutOverFirst(b, v) ==
  LET number == IF b.number < Capacity THEN b.number + 1 ELSE Capacity
      end == IF number # 1 THEN (b.end + 1) % Capacity ELSE b.end
  IN  [cells |-> [b.cells EXCEPT ![end] = v], start |-> b.start, end |-> end, number |-> number]

\* Mutant of Put: the start moves on as soon as the buffer becomes full.
PutTooEarly(b, v) ==
  LET number == IF b.number < Capacity THEN b.number + 1 ELSE Capacity
      end == IF number # 1 THEN (b.end + 1) % Capacity ELSE b.end
  IN  [cells |-> [b.cells EXCEPT ![end] = v],
       start |-> IF number = Capacity THEN (end + 1) % Capacity ELSE b.start,
       end |-> end,
       number |-> number - IF b.number + 1 = Capacity THEN 1 ELSE 0]

Put(b, v) ==
  LET number == IF b.number < Capacity THEN b.number + 1 ELSE Capacity
      end == IF number # 1 THEN (b.end + 1) % Capacity ELSE b.end
      full == end = b.start /\ number # 1
  IN  [cells |-> [b.cells EXCEPT ![end] = v],
       start |-> IF full THEN (b.start + 1) % Capacity ELSE b.start,
       end |-> end,
       number |-> number]

RemoveLastElement(b) ==
  IF b.number = 0 THEN b
  ELSE [b EXCEPT !.end = IF b.end > 0 THEN b.end - 1 ELSE Capacity - 1,
                 !.number = b.number - 1]

\* at, for a position below the number of elements; it has no value otherwise.
ElementAt(b, pos) == b.cells[(b.start + pos) % Capacity]

\* retrieve_last_element of a buffer that has one.
LastElement(b) == ElementAt(b, b.number - 1)

\* All elements at answers for, in their order.
Contents(b) == [i \in 1 .. b.number |-> ElementAt(b, i - 1)]

=============================================================================
