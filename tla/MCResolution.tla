---------------------------- MODULE MCResolution ----------------------------
(***************************************************************************)
(* Model checking of Resolution, with Extraction underneath.               *)
(***************************************************************************)
EXTENDS Resolution, TLC

CONSTANTS serial, asset   \* a serial number and an asset id, of one value

Entity(sound, ids) == [sound |-> sound, identifiers |-> ids]

Relation(s, o) == [subject |-> s, object |-> o, sound |-> TRUE]

\* A device by both identifiers beside something unsound, and two devices by one each.
Answers ==
  {[entities |-> <<Entity(TRUE, {serial, asset}), Entity(FALSE, {})>>,
    relationships |-> {Relation(2, 1)}],
   [entities |-> <<Entity(TRUE, {serial}), Entity(TRUE, {asset})>>,
    relationships |-> {Relation(1, 2)}]}

Symmetry == Permutations(Resolver)
=============================================================================
