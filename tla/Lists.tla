-------------------------------- MODULE Lists --------------------------------
(***************************************************************************)
(* The comprehensions [x for x in s if ...] the code is full of.  They are *)
(* written as a recursive function, about which theorems can be proved;    *)
(* about SelectSeq the prover knows nothing.                               *)
(***************************************************************************)
EXTENDS Integers, Sequences

InSeq(s) == {s[i] : i \in DOMAIN s}

\* The elements of s at the places of P, in their order.
ElementsAt(s, P) ==
    LET kept[n \in 0 .. Len(s)] ==
            IF n = 0 THEN <<>>
            ELSE IF n \in P THEN Append(kept[n - 1], s[n]) ELSE kept[n - 1]
    IN  kept[Len(s)]

\* The elements of s that are in S, in their order.
PlacesIn(s, S) == {i \in DOMAIN s : s[i] \in S}
KeepOnly(s, S) == ElementsAt(s, PlacesIn(s, S))
=============================================================================
