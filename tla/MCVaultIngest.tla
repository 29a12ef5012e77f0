---------------------------- MODULE MCVaultIngest ----------------------------
(***************************************************************************)
(* Model checking of VaultIngest.                                          *)
(***************************************************************************)
EXTENDS VaultIngest, TLC

\* Contents are alike, and so are workers.
Symmetry == Permutations(Content) \cup Permutations(Scanner)

\* Scans of every type one after the other, silent edits, a document that fails.
InTurn ==
  [atOnce |-> 1, types |-> {"incremental", "full_rehash", "measure"}, may |-> {"keep_stat"},
   contents |-> 3, scans |-> 3, failures |-> 1, crashes |-> 0]

\* Two incremental scans at once, of which one may die, on two contents that go anywhere.
AtOnce ==
  [atOnce |-> 2, types |-> {"incremental"}, may |-> {"recreate", "return"},
   contents |-> 2, scans |-> 2, failures |-> 0, crashes |-> 1]

\* ... on files of one content, some of which cannot be read.
Unreadable ==
  [AtOnce EXCEPT !.may = @ \cup {"unreadable"}, !.contents = 1]

InTurnAndAtOnce == {InTurn, AtOnce, Unreadable}

Plain ==
  [atOnce |-> 1, types |-> {"incremental"}, may |-> {},
   contents |-> 2, scans |-> 3, failures |-> 0, crashes |-> 0]

WithACrash == {[Plain EXCEPT !.crashes = 1]}

WithPathsUsedAgain == {[Plain EXCEPT !.may = {"recreate"}]}
=============================================================================
