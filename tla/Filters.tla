------------------------------- MODULE Filters -------------------------------
(* The loops that pass over some elements of a buffer, as functions.           *)
EXTENDS Naturals, Sequences

\* s without the elements that are in `dropped`
Without(s, dropped) ==
  LET kept[n \in 0 .. Len(s)] ==
        IF n = 0 THEN <<>>
        ELSE IF s[n] \in dropped THEN kept[n - 1] ELSE Append(kept[n - 1], s[n])
  IN  kept[Len(s)]
=============================================================================
