-------------------------- MODULE BoundedHistory ---------------------------
(***************************************************************************)
(* What a bounded history is for: it remembers the latest entries, at most *)
(* Capacity of them, forgets the oldest when it is full, and gives them    *)
(* back in the reverse order.                                              *)
(***************************************************************************)
EXTENDS Naturals, Sequences

CONSTANTS Capacity, Values

VARIABLE entries

Latest(s) == IF Len(s) > Capacity THEN Tail(s) ELSE s

Init == \E v \in Values : entries = <<v>>

Remember(v) == entries' = Latest(Append(entries, v))

Forget == entries # <<>> /\ entries' = SubSeq(entries, 1, Len(entries) - 1)

Next == Forget \/ \E v \in Values : Remember(v)

Spec == Init /\ [][Next]_entries

=============================================================================
