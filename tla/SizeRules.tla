------------------------------- MODULE SizeRules -------------------------------
(***************************************************************************)
(* Sizes that are written in one form and read in another                  *)
(* (internal/domain: size.go).                                             *)
(*                                                                         *)
(* A size is a number of bytes in an integer of Half = 2^(w - 1) negative  *)
(* and as many other values, where products wrap.                          *)
(***************************************************************************)
EXTENDS Integers

CONSTANTS
    Half,       \* 2^63 in the code
    GiB         \* 2^30 in the code

ASSUME SizeAssumption == Half \in Nat \ {0} /\ GiB \in Nat \ {0}

MaxInt == Half - 1
Wrap(n) == ((n + Half) % (2 * Half)) - Half

\* Mutant: no check against an overflow.
ParseByteSizeUnchecked(amount) ==
    IF Wrap(amount * GiB) > 0 THEN [ok |-> TRUE, size |-> Wrap(amount * GiB)]
                              ELSE [ok |-> FALSE, size |-> 0]

\* The amount before "GiB"; sizePattern wants it positive.
ParseByteSize(amount) ==
    IF amount > 0 /\ amount <= MaxInt \div GiB /\ Wrap(amount * GiB) > 0
    THEN [ok |-> TRUE, size |-> Wrap(amount * GiB)]
    ELSE [ok |-> FALSE, size |-> 0]

\* The amount a size is written with, which MarshalText and MarshalJSON use.
Amount(size) ==
    IF size > 0 /\ size % GiB = 0 THEN [ok |-> TRUE, amount |-> size \div GiB]
                                  ELSE [ok |-> FALSE, amount |-> 0]

\* An accepted size is written as it was read; every multiple of a GiB that
\* an integer holds is accepted, and nothing that would overflow.
SizeSurvives(amount) ==
    LET parsed == ParseByteSize(amount)
    IN /\ parsed.ok <=> amount > 0 /\ amount * GiB <= MaxInt
       /\ parsed.ok => Amount(parsed.size) = [ok |-> TRUE, amount |-> amount]

=============================================================================
