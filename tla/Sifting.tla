------------------------------ MODULE Sifting ------------------------------
(***************************************************************************)
(* The part of a sequence that lies in a set, in its order: the filtering  *)
(* loops of the sources.  It is a recursive function, about which one can  *)
(* prove, and not SelectSeq, about which one cannot.                       *)
(***************************************************************************)
EXTENDS Integers, Sequences

Those(q, S) ==
  LET f[i \in 0..Len(q)] ==
        IF i = 0 THEN <<>>
        ELSE IF q[i] \in S THEN Append(f[i - 1], q[i]) ELSE f[i - 1]
  IN  f[Len(q)]
=============================================================================
