---------------------------- MODULE MCFolderWatch ----------------------------
(* FolderWatch on small instances, for TLC.                                *)
EXTENDS FolderWatch, TLC

\* Paths are alike, and so are contents of the same kind.
Symmetry == Permutations(Files) \cup Permutations(Texts)
=============================================================================
