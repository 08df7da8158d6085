-------------------------- MODULE MCCommitRecords --------------------------
(***************************************************************************)
(* Slices of four commits that meet, overlap, leave a gap, are empty, or   *)
(* begin behind the last commit.                                           *)
(***************************************************************************)
EXTENDS CommitRecords, TLC

MCSlices == {<<>>, <<1, 2>>, <<3, 4>>, <<2, 3>>, <<2, 1>>, <<6, 7>>}

FileSymmetry == Permutations(Files)
=============================================================================
