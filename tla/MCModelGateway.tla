--------------------------- MODULE MCModelGateway ---------------------------
(***************************************************************************)
(* Instances of ModelGateway for TLC.                                       *)
(***************************************************************************)
EXTENDS ModelGateway, TLC

CONSTANTS main, alt, spare, pMain, pSpare, r1, r2, r3

\* A chat slot that falls back to another model of the same provider, then to
\* a spare provider.
ThreeSlots == [s \in {main, alt, spare} |-> IF s = spare THEN pSpare ELSE pMain]
MainToSpare == [s \in {main, alt, spare} |-> IF s = main THEN <<alt, spare>> ELSE <<>>]

AnyRequest == Permutations(Requests)
=============================================================================
