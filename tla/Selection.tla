------------------------------ MODULE Selection ------------------------------
(***************************************************************************)
(* The elements of a sequence at the positions of a set, in order: what    *)
(* SelectSeq of the standard module gives, without its recursion, so that  *)
(* the proofs can tell where every element comes from.                     *)
(***************************************************************************)
EXTENDS Integers, Sequences, FiniteSets

IsList(s) == s \in Seq({s[i] : i \in DOMAIN s})

(* The number of elements of I up to i, and the k-th element of I.         *)
Rank(I, i) == Cardinality({j \in I : j <= i})
Nth(I, k)  == CHOOSE i \in I : Rank(I, i) = k

Pick(s, I) == [k \in 1 .. Cardinality(I) |-> s[Nth(I, k)]]
==============================================================================
