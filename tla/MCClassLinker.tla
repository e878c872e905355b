--------------------------- MODULE MCClassLinker ---------------------------
(***************************************************************************)
(* Instances of ClassLinker.  B extends A and implements I, and there is   *)
(* an array of B.  The <clinit> of A uses B.  The methods of A catch I (in *)
(* this model any class can be caught), or catch B, a subclass; the        *)
(* verifier meets both, as all that they use or catch.  InACycle           *)
(* is the malformed hierarchy A extends B extends A: with it, NoCheckFails *)
(* is violated by the circularity check of EnsureResolved.                 *)
(***************************************************************************)
EXTENDS ClassLinker, TLC

CONSTANTS A, B, I, Array

BExtendsA == [c \in Classes |-> IF c = B THEN A ELSE None]
InACycle == [c \in Classes |-> CASE c = A -> B [] c = B -> A [] OTHER -> None]
BImplementsI == [c \in Classes |-> IF c = B THEN <<I>> ELSE << >>]
ArrayOfB == [c \in Classes |-> IF c = Array THEN B ELSE None]
BInA == [c \in Classes |-> IF c = A THEN <<B>> ELSE << >>]
BIInA == [c \in Classes |-> IF c = A THEN <<B, I>> ELSE << >>]
IInA == [c \in Classes |-> IF c = A THEN <<I>> ELSE << >>]
=============================================================================
