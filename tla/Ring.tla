-------------------------------- MODULE Ring --------------------------------
(***************************************************************************)
(* The circle of identifiers of the Chord overlay (peer/impl/utils.go):    *)
(* arithmetic on [KeyLen]byte, the three interval tests as they are coded, *)
(* and what they mean, told by clockwise distance.                         *)
(***************************************************************************)
EXTENDS Integers

CONSTANT M      \* bits of an identifier: KeyLen * 8

Size == 2 ^ M
Key  == 0 .. Size - 1

\* The other conjuncts follow from the first, but the provers know no powers.
ASSUME BitsAssumption == /\ M \in Nat \ {0} /\ Size \in Nat \ {0}
                         /\ \A i \in 0 .. M : 2 ^ i \in Nat \ {0}

\* Variant: no modulus.
SubtractWithin(key, value) == key - value

SubtractInt(key, value) == (key - value) % Size
AddInt(key, value)      == (key + value) % Size

\* (lower, upper), [lower, upper) and (lower, upper]: the inner interval when
\* lower < upper, else the one that goes round past 0.
IsStrictlyBetween(target, lower, upper) ==
  IF lower < upper THEN target > lower /\ target < upper
                   ELSE target > lower \/ target < upper

\* Variant: every interval goes round past 0.
OuterOnly(target, lower, upper) == target >= lower \/ target < upper

IsBetweenLeftClosedRightOpen(target, lower, upper) ==
  IF lower < upper THEN target >= lower /\ target < upper
                   ELSE target >= lower \/ target < upper

IsBetweenLeftOpenRightClosed(target, lower, upper) ==
  IF lower < upper THEN target > lower /\ target <= upper
                   ELSE target > lower \/ target <= upper

-----------------------------------------------------------------------------
(* What they mean. *)

\* Steps clockwise from one identifier to another; a full turn to itself.
Gap(from, to)  == IF to > from THEN to - from ELSE to - from + Size
\* The same, but no step to itself.
Dist(from, to) == IF to >= from THEN to - from ELSE to - from + Size

\* The interval tests compare clockwise distances, whether or not the interval
\* goes round past 0, and equal bounds enclose the whole circle.
IntervalsAreArcs ==
  \A target, lower, upper \in Key :
    /\ IsStrictlyBetween(target, lower, upper) <=> Gap(lower, target) < Gap(lower, upper)
    /\ IsBetweenLeftClosedRightOpen(target, lower, upper)
         <=> Dist(lower, target) < Gap(lower, upper)
    /\ IsBetweenLeftOpenRightClosed(target, lower, upper)
         <=> Gap(lower, target) <= Gap(lower, upper)
=============================================================================
