---------------------------- MODULE MCShadowMem ----------------------------
EXTENDS ShadowMem, TLC

\* Which block malloc returns is immaterial.
Interchangeable == Permutations(Maps)
=============================================================================
