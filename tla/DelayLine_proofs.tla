-------------------------- MODULE DelayLine_proofs --------------------------
(***************************************************************************)
(* The arithmetic of EncodeQueue's delay line, for the proofs about the    *)
(* encoders that implement it and the program that uses it.                *)
(***************************************************************************)
EXTENDS Integers, Sequences, TLAPS

\* The line of n slots after k frames: the latest n of them, behind as many
\* empty slots as are missing.
Line(k, n) == [i \in 1 .. n |-> IF k - n + i > 0 THEN k - n + i ELSE 0]

\* What falls out of a line, and what is left of it.
LEMMA LineTaken ==
    ASSUME NEW k \in Nat, NEW n \in Nat
    PROVE  /\ n = 0 => Line(k, n) = <<>>
           /\ n > 0 => /\ Line(k, n) # <<>>
                       /\ Head(Line(k, n)) = IF k >= n THEN k + 1 - n ELSE 0
                       /\ Tail(Line(k, n)) = Line(k, n - 1)
<1>1. Line(k, n) \in Seq(Nat) /\ Len(Line(k, n)) = n
  BY DEF Line
<1>2. CASE n = 0
  BY <1>1, <1>2
<1>3. CASE n > 0
  <2>1. Line(k, n) # <<>>
    BY <1>1, <1>3
  <2>2. Head(Line(k, n)) = IF k >= n THEN k + 1 - n ELSE 0
    BY <1>1, <1>3 DEF Line
  <2>3. Tail(Line(k, n)) = Line(k, n - 1)
    BY <1>1, <1>3 DEF Line
  <2> QED
    BY <1>3, <2>1, <2>2, <2>3
<1> QED
  BY <1>2, <1>3

\* A frame pushed into a line and the slot at its head taken.
LEMMA LinePushed ==
    ASSUME NEW k \in Nat, NEW n \in Nat
    PROVE  LET pushed == Append(Line(k, n), k + 1)
           IN  /\ pushed # <<>>
               /\ Head(pushed) = IF k >= n THEN k + 1 - n ELSE 0
               /\ Tail(pushed) = Line(k + 1, n)
<1> DEFINE pushed == Append(Line(k, n), k + 1)
<1>1. Line(k, n) \in Seq(Nat) /\ Len(Line(k, n)) = n
  BY DEF Line
<1>2. pushed \in Seq(Nat) /\ Len(pushed) = n + 1
  BY <1>1
<1>3. pushed # <<>>
  BY <1>2
<1>4. Head(pushed) = IF k >= n THEN k + 1 - n ELSE 0
  BY <1>1 DEF Line
<1>5. Tail(pushed) = Line(k + 1, n)
  <2>1. Tail(pushed) = [i \in 1 .. n |-> Tail(pushed)[i]]
    BY <1>2
  <2>2. Line(k + 1, n) = [i \in 1 .. n |-> Line(k + 1, n)[i]]
    BY DEF Line
  <2>3. \A i \in 1 .. n : Tail(pushed)[i] = Line(k + 1, n)[i]
    BY <1>1, <1>2 DEF Line
  <2> QED
    BY <2>1, <2>2, <2>3
<1> QED
  BY <1>3, <1>4, <1>5
=============================================================================
