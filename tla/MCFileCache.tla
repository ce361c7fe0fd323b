---------------------------- MODULE MCFileCache -----------------------------
(***************************************************************************)
(* FileCache with two processes sharing a path, enough inodes for both to  *)
(* store and load at once with a file left behind by a crash.              *)
(***************************************************************************)
EXTENDS FileCache, TLC

CacheSymmetry ==
  Permutations(Process) \cup Permutations(Inode) \cup Permutations(Envelopes)
=============================================================================
