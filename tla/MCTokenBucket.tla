---------------------------- MODULE MCTokenBucket ----------------------------
(* TokenBucket for TLC: two probes that share an exchanger's bucket, slower *)
(* than one sleep, and a client whose API key has a fractional rate.        *)
EXTENDS TokenBucket

CONSTANTS mx, api, p1, p2, c1

MCRefill == [k \in {mx, api} |-> IF k = mx THEN 1 ELSE 2]
MCCapacity == [k \in {mx, api} |-> IF k = mx THEN 3 ELSE 6]
MCKeyOf == [c \in {p1, p2, c1} |-> IF c \in {p1, p2} THEN mx ELSE api]
============================================================================
