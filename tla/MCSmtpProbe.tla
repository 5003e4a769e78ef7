---------------------------- MODULE MCSmtpProbe ----------------------------
(* Small instances of SmtpProbe for TLC: two tasks on a domain that tells  *)
(* mailboxes apart, one on a domain that accepts every recipient and one   *)
(* behind a gateway that does too and is not asked; or two on the open     *)
(* domain alone.                                                           *)
EXTENDS SmtpProbe

CONSTANTS p1, p2, p3, p4, generic, openDomain, gateway

ThreeDomains == [p \in {p1, p2, p3, p4} |->
    CASE p \in {p1, p2} -> generic [] p = p3 -> openDomain [] p = p4 -> gateway]
OneDomain == [p \in {p1, p2} |-> openDomain]

\* GENERIC for ordinary domains; Google and Microsoft for the gateway.
Table == [d \in {generic, openDomain, gateway} |->
    IF d = gateway THEN [trust |-> FALSE, probes |-> FALSE]
    ELSE [trust |-> TRUE, probes |-> TRUE]]

\* Every reading of a reply occurs on some domain: rejections of the sender, blocks
\* and timeouts on the ordinary one, deferrals on the catch-all, rejections of the
\* greeting and in words of greylisting behind the gateway.
EveryNoise == [d \in {generic, openDomain, gateway} |->
    CASE d = generic -> {"mailreject", "antispam", "none"}
      [] d = openDomain -> {"temp"}
      [] d = gateway -> {"heloreject", "greyreject"}]
Deferrals == [d \in {generic, openDomain, gateway} |-> {"temp"}]
============================================================================
