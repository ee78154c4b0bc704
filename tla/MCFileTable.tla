---------------------------- MODULE MCFileTable ----------------------------
EXTENDS FileTable, TLC

\* Pages differ in name only.
Pages == Permutations(Page)
=============================================================================
