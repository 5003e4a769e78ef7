------------------------------ MODULE MCIpPool ------------------------------
(* A small instance of IpPool for TLC.                                     *)
EXTENDS IpPool, TLC

CONSTANTS p1, p2

Probers == Permutations({p1, p2})
============================================================================
