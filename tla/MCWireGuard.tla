----------------------------- MODULE MCWireGuard -----------------------------
(* Three processes, two addresses.                                         *)
EXTENDS WireGuard, TLC

CONSTANTS c1, c2, c3, addr1, addr2

MCCaller == {c1, c2, c3}
MCAddress == {addr1, addr2}
CallerSymmetry == Permutations(MCCaller)
=============================================================================
