------------------------------- MODULE MCTunnel -------------------------------
EXTENDS Tunnel, TLC

CONSTANTS o1, h1

Advertised == [o \in {o1} |-> {h1}]

RequestSymmetry == Permutations(Requests)
===============================================================================
