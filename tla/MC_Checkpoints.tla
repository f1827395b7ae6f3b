--------------------------- MODULE MC_Checkpoints ---------------------------
(* Three messages in a workspace where a file may become a directory. *)
EXTENDS Checkpoints, TLC

CONSTANTS m1, m2, m3, file, inner, other, c1, c2

ThreeMessages == {m1, m2, m3}
ThreePaths == {file, inner, other}
FileOrDirectory == {<<inner, file>>}
TwoContents == {c1, c2}

Alike == Permutations(ThreeMessages) \cup Permutations(TwoContents)
=============================================================================
