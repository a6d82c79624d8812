---------------------------- MODULE MCSlaveNode -----------------------------
(* Who sets which response: an identifier per goroutine, or a shared one.  *)
EXTENDS SlaveNode, TLC

CONSTANTS g1, g2

Disjoint == g1 :> {1, 64} @@ g2 :> {2, 3}
Shared   == g1 :> {1} @@ g2 :> {1}
=============================================================================
