-------------------------- MODULE MCAccountSnapshot -------------------------
(* Three threads: one polls while others wait and place orders.            *)
EXTENDS AccountSnapshot
=============================================================================
