------------------------------ MODULE MCFileStore ------------------------------
(***************************************************************************)
(* FileStore for TLC: projects are alike, and so are the digests of their   *)
(* contents.                                                                *)
(***************************************************************************)
EXTENDS FileStore, TLC

Alike == Permutations(Projects) \cup Permutations(Digests)
=============================================================================
