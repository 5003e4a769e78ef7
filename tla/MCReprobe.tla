----------------------------- MODULE MCReprobe -----------------------------
(* Small instances of Reprobe for TLC: two attempts, a first and a longer  *)
(* second delay, a lease as short as the first.                            *)
EXTENDS Reprobe

CONSTANTS e1, e2, j1, j2, p1, p2

MCDelays == <<1, 2>>

(* Two jobs without a fault, or one job with a fault anywhere.             *)
OverlapInit == Began({}) \/ Began({j2})

OverlapNext == Next /\ (faults' = faults \/ deleted[j2] = "yes")

OverlapSpec == OverlapInit /\ [][OverlapNext]_vars /\ Fairness
============================================================================
