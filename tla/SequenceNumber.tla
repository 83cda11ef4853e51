--------------------------- MODULE SequenceNumber ---------------------------
(***************************************************************************)
(* TSequenceNumber (Public/Net/Util/SequenceNumber.h): arithmetic on       *)
(* numbers that wrap around.                                               *)
(*                                                                         *)
(* The class stores a number modulo SeqNumberCount.  Here a number is a    *)
(* full integer and every operator looks only at the residues of its       *)
(* arguments, so that two numbers SeqNumberCount apart are as confusable   *)
(* as they are in the code, while a specification can still say which of   *)
(* the two was meant.                                                      *)
(***************************************************************************)
EXTENDS Integers

CONSTANT SeqNumberCount       \* 2^14 for packets, 2^NumBits in general

ASSUME SeqNumberCountAssumption ==
  /\ SeqNumberCount \in Nat
  /\ SeqNumberCount >= 2
  /\ SeqNumberCount % 2 = 0

\* Mutant of SeqNumberHalf: every number is ahead of every other one.
SeqNumberHalfMutantWhole == SeqNumberCount

SeqNumberHalf == SeqNumberCount \div 2

\* (A - B) & SeqNumberMask: how far A is ahead of B around the circle.
Ahead(A, B) == (A - B) % SeqNumberCount

\* operator==
SeqEq(A, B) == Ahead(A, B) = 0

\* operator>: only ahead by less than half of the circle counts as greater.
SeqGt(A, B) == Ahead(A, B) # 0 /\ Ahead(A, B) < SeqNumberHalf

\* operator>=
SeqGeq(A, B) == Ahead(A, B) < SeqNumberHalf

\* Diff: the residue of A - B sign-extended from NumBits bits.
SeqDiff(A, B) ==
  IF Ahead(A, B) < SeqNumberHalf THEN Ahead(A, B)
                                 ELSE Ahead(A, B) - SeqNumberCount

=============================================================================
