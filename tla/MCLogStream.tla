----------------------------- MODULE MCLogStream -----------------------------
EXTENDS LogStream, TLC

Interchangeable == Permutations(Threads)
=============================================================================
