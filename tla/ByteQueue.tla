------------------------------ MODULE ByteQueue ------------------------------
(* What a Buffer promises: a queue of bytes, added at one end in runs of   *)
(* any length and taken from the other.                                    *)
EXTENDS Naturals, Sequences

CONSTANT Bytes

VARIABLES bytes,   \* what is waiting, oldest first
          input    \* the bytes the last call added

vars == <<bytes, input>>

Init == bytes = <<>> /\ input = <<>>

Add == /\ input' \in Seq(Bytes)
       /\ bytes' = bytes \o input'

Take == /\ input' = <<>>
        /\ \E n \in 0..Len(bytes) : bytes' = SubSeq(bytes, n + 1, Len(bytes))

Next == Add \/ Take

Spec == Init /\ [][Next]_vars
=============================================================================
