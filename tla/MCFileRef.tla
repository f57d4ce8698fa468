----------------------------- MODULE MCFileRef ------------------------------
EXTENDS FileRef, TLC

CONSTANTS f1, f2, f3, d1, d2, d3

MC_Files == {f1, f2, f3}
MC_Ids == {d1, d2, d3}
MC_Fds == {3, 4}
MC_Names == {"a", "b"}
MC_Proper == {}
MC_Self == {"self"}
MC_Name == {"name"}
MC_Adopt == {"adopt"}
MC_Symmetry == Permutations(MC_Files) \cup Permutations(MC_Ids)
=============================================================================
