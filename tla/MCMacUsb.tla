------------------------------ MODULE MCMacUsb ------------------------------
\* Two ports and two modem names for the console; two boards and two runs of
\* the loader.
EXTENDS MacUsb, TLC

PathSymmetry == Permutations(Paths)
=============================================================================
