----------------------------- MODULE SmtpProbe -----------------------------
(***************************************************************************)
(* The mailbox probe (smtp_infra/service.py, prober.py): concurrent probe  *)
(* tasks of one process, the catch-all verdict each domain gets once, the  *)
(* per-domain lock around it, the egress IP each conversation leaves from  *)
(* (module IpPool), and what a reply is mapped to.                         *)
(*                                                                         *)
(* A receiver answers a RCPT truthfully for its kind (see Replies) or with *)
(* any reply of its Noise: deferrals, blocks, timeouts.  A reply is        *)
(* named for what _map and _ip_event tell apart in its code and text.  The *)
(* rate limiter only delays a conversation and is left out.  A task is     *)
(* never cancelled: one cut off while it asks for the fake recipient would *)
(* leave the domain without a verdict, and the next would ask again.       *)
(***************************************************************************)
EXTENDS Integers

CONSTANTS
    Prober,       \* probe tasks
    Domain,
    MailboxOf,    \* the domain each task's address belongs to
    Exists,       \* tasks whose mailbox exists
    AcceptAll,    \* domains whose server accepts every recipient
    Strategy,     \* strategy_for each domain: [trust, probes : BOOLEAN]
    Noise,        \* replies each domain may give besides the truthful one
    LimiterFails, \* the rate limiter's store may raise
    N, Cap, Cooldown, MaxProbes,
    Free          \* an unlocked domain lock

VARIABLES
    pc,           \* where each task is
    result,       \* what probe() returned
    catchAll,     \* _catch_all
    lock,         \* _domain_locks: the task holding each
    fakes,        \* history: fake recipients asked per domain
    refused,      \* history: tasks whose own conversation ended in a Refusal
    count, cool, rep, warm, turn, newDay, held, sentToday, passed, probes

Pool == INSTANCE IpPool

probeVars == <<pc, result, catchAll, lock, fakes, refused>>
poolVars == <<count, cool, rep, warm, turn, newDay, held, sentToday, passed, probes>>
vars == <<probeVars, poolVars>>

Truthful == {"accept", "reject"}
\* Permanent rejections that do not speak for the mailbox: a 5xx to HELO, whose
\* text is dropped; a 5xx to MAIL FROM, which _mail_then_rcpt returns like a reply
\* to RCPT; a 5xx to RCPT that speaks of greylisting.
Refusal == {"heloreject", "mailreject", "greyreject"}

\* Besides those: a 5xx that speaks of blocking, spam or a blacklist; a 5xx that
\* speaks of policy; 421, or a 4xx that speaks of blocking; another 4xx, or a code
\* outside _PERMANENT_REJECT that speaks of greylisting; no answer (code 0); any
\* other code.
Other == Refusal \cup {"antispam", "policy", "421", "temp", "none", "other"}

ASSUME ProbeAssumption ==
    /\ MailboxOf \in [Prober -> Domain]
    /\ Exists \subseteq Prober /\ AcceptAll \subseteq Domain
    /\ Strategy \in [Domain -> [trust : BOOLEAN, probes : BOOLEAN]]
    \* Of _TABLE and GENERIC, no row believes an accept without a catch-all probe.
    /\ \A d \in Domain : Strategy[d].trust => Strategy[d].probes
    /\ Noise \in [Domain -> SUBSET Other] /\ LimiterFails \in BOOLEAN
    /\ Free \notin Prober

ASSUME PoolHasIps == Pool!PoolAssumption

Outcome == {"valid", "invalid", "catch_all", "greylisted", "unknown"}

Init ==
    /\ pc = [p \in Prober |-> "start"]
    /\ result = [p \in Prober |-> "none"]
    /\ catchAll = [d \in Domain |-> "unset"]
    /\ lock = [d \in Domain |-> Free]
    /\ fakes = [d \in Domain |-> 0]
    /\ refused = {}
    /\ Pool!Init
----------------------------------------------------------------------------
D(p) == MailboxOf[p]

\* What the receiver may answer for a mailbox that does or does not exist.
Replies(d, exists) ==
    Noise[d] \cup {IF exists \/ d \in AcceptAll THEN "accept" ELSE "reject"}

\* Mutant: a permanent reject is read as a missing mailbox before its text is.
MapRejectFirst(r, trust) ==
    CASE r = "accept" -> IF trust THEN "valid" ELSE "unknown"
      [] r \in Refusal \cup {"reject", "antispam", "policy"} -> "invalid"
      [] r \in {"421", "temp"} -> "greylisted"
      [] r \in {"none", "other"} -> "unknown"

\* Mutant: a provider that accepts everyone is believed.
MapTrusting(r, trust) ==
    CASE r = "accept" -> "valid"
      [] r \in Refusal \cup {"reject"} -> "invalid"
      [] r \in {"antispam", "policy", "none", "other"} -> "unknown"
      [] r \in {"421", "temp"} -> "greylisted"

\* Mutant: the detail of a deferred probe is returned as its outcome.
MapDetail(r, trust) ==
    CASE r = "accept" -> IF trust THEN "valid" ELSE "provider_unreliable"
      [] r \in Refusal \cup {"reject"} -> "invalid"
      [] r \in {"antispam", "policy", "none", "other"} -> "antispam_block"
      [] r \in {"421", "temp"} -> "greylisted"

\* _map: what a reply says of the mailbox.
Map(r, trust) ==
    CASE r = "accept" -> IF trust THEN "valid" ELSE "unknown"
      [] r \in Refusal \cup {"reject"} -> "invalid"
      [] r \in {"antispam", "policy", "none", "other"} -> "unknown"
      [] r \in {"421", "temp"} -> "greylisted"

\* _ip_event: what a reply says of the egress IP.
IpEvent(r) ==
    CASE r \in {"421", "antispam"} -> "block"
      [] r \in {"greyreject", "temp", "none"} -> "tempfail"
      [] r \in {"accept", "reject", "heloreject", "mailreject", "policy", "other"} -> "ok"

Return(p, outcome) ==
    /\ pc' = [pc EXCEPT ![p] = "done"]
    /\ result' = [result EXCEPT ![p] = outcome]

\* probe and the unlocked look at the cache in _is_catch_all.
Begin(p) ==
    /\ pc[p] = "start"
    /\ \/ Return(p, "unknown")                   \* no MX hosts
       \/ /\ Strategy[D(p)].probes /\ catchAll[D(p)] = "yes"
          /\ Return(p, "catch_all")
       \/ /\ Strategy[D(p)].probes /\ catchAll[D(p)] = "unset"
          /\ pc' = [pc EXCEPT ![p] = "waiting"]
          /\ UNCHANGED result
       \/ /\ ~Strategy[D(p)].probes \/ catchAll[D(p)] = "no"
          /\ pc' = [pc EXCEPT ![p] = "real"]
          /\ UNCHANGED result
    /\ UNCHANGED <<catchAll, lock, fakes, refused, poolVars>>

\* Mutant: the cache is not looked at again under the lock.
TakeLockUnchecked(p) ==
    /\ pc[p] = "waiting"
    /\ lock[D(p)] = Free
    /\ pc' = [pc EXCEPT ![p] = "fake"]
    /\ lock' = [lock EXCEPT ![D(p)] = p]
    /\ UNCHANGED <<result, catchAll, fakes, refused, poolVars>>

\* The domain lock is taken: a verdict another task left meanwhile ends the
\* wait, otherwise this task asks for a recipient that cannot exist.
TakeLock(p) ==
    /\ pc[p] = "waiting"
    /\ lock[D(p)] = Free
    /\ \/ /\ catchAll[D(p)] = "yes"
          /\ Return(p, "catch_all")
          /\ UNCHANGED lock
       \/ /\ catchAll[D(p)] = "no"
          /\ pc' = [pc EXCEPT ![p] = "real"]
          /\ UNCHANGED <<result, lock>>
       \/ /\ catchAll[D(p)] = "unset"
          /\ pc' = [pc EXCEPT ![p] = "fake"]
          /\ lock' = [lock EXCEPT ![D(p)] = p]
          /\ UNCHANGED result
    /\ UNCHANGED <<catchAll, fakes, refused, poolVars>>

\* _rcpt: an egress IP is taken and the conversation starts.
Converse(p) ==
    /\ \/ /\ pc[p] = "fake"
          /\ pc' = [pc EXCEPT ![p] = "fakeSent"]
          /\ fakes' = [fakes EXCEPT ![D(p)] = @ + 1]
       \/ /\ pc[p] = "real"
          /\ pc' = [pc EXCEPT ![p] = "realSent"]
          /\ UNCHANGED fakes
    /\ Pool!Acquire(p)
    /\ UNCHANGED <<result, catchAll, lock, refused>>

\* Mutant: the lock is not released when the limiter raises.
LimiterRaisesLocked(p) ==
    /\ LimiterFails
    /\ pc[p] \in {"fake", "real"}
    /\ Return(p, "raised")
    /\ UNCHANGED <<catchAll, lock, fakes, refused, poolVars>>

\* _rcpt waits on the limiter first, whose store may raise: the task ends and
\* its lock is released, the domain still without a verdict.
LimiterRaises(p) ==
    /\ LimiterFails
    /\ pc[p] \in {"fake", "real"}
    /\ Return(p, "raised")
    /\ lock' = IF pc[p] = "fake" THEN [lock EXCEPT ![D(p)] = Free] ELSE lock
    /\ UNCHANGED <<catchAll, fakes, refused, poolVars>>

\* The fake recipient was answered: the verdict is cached, whatever the answer.
FakeAnswered(p, r) ==
    /\ pc[p] = "fakeSent"
    /\ r \in Replies(D(p), FALSE)
    /\ Pool!Report(p, IpEvent(r))
    /\ catchAll' = [catchAll EXCEPT ![D(p)] = IF r = "accept" THEN "yes" ELSE "no"]
    /\ lock' = [lock EXCEPT ![D(p)] = Free]
    /\ \/ /\ r = "accept"
          /\ Return(p, "catch_all")
       \/ /\ r # "accept"
          /\ pc' = [pc EXCEPT ![p] = "real"]
          /\ UNCHANGED result
    /\ UNCHANGED <<fakes, refused>>

\* The address itself was answered.
RealAnswered(p, r) ==
    /\ pc[p] = "realSent"
    /\ r \in Replies(D(p), p \in Exists)
    /\ Pool!Report(p, IpEvent(r))
    /\ Return(p, Map(r, Strategy[D(p)].trust))
    /\ refused' = IF r \in Refusal THEN refused \cup {p} ELSE refused
    /\ UNCHANGED <<catchAll, lock, fakes>>

Reply == Truthful \cup Other

Answered(p) == \E r \in Reply : FakeAnswered(p, r) \/ RealAnswered(p, r)

ProbeStep(p) == Begin(p) \/ TakeLock(p) \/ Converse(p) \/ Answered(p)

PoolEnvironment == Pool!Environment /\ UNCHANGED probeVars

Done == \A p \in Prober : pc[p] = "done"

Next ==
    \/ \E p \in Prober : ProbeStep(p) \/ LimiterRaises(p)
    \/ (~Done /\ PoolEnvironment)

Spec == Init /\ [][Next]_vars

\* A conversation is bounded by its timeout and the event loop runs every task.
FairSpec == Spec /\ \A p \in Prober : WF_vars(ProbeStep(p))
----------------------------------------------------------------------------
TypeOK ==
    /\ pc \in [Prober -> {"start", "waiting", "fake", "fakeSent",
                          "real", "realSent", "done"}]
    /\ result \in [Prober -> Outcome \cup {"none", "raised"}]
    /\ catchAll \in [Domain -> {"unset", "yes", "no"}]
    /\ lock \in [Domain -> Prober \cup {Free}]
    /\ fakes \in [Domain -> Nat]
    /\ refused \subseteq Prober
    /\ Pool!TypeOK

\* "One probe per domain": whatever tasks of a domain run together, its server
\* is asked for one fake recipient and every one of them sees one verdict.
OneFakePerDomain == \A d \in Domain : fakes[d] <= 1

\* "The receiving server answered for this mailbox": a probe reports valid only
\* for a mailbox that exists on a server that tells mailboxes apart, or on a
\* domain that accepts everyone but did not accept the fake recipient (see
\* CatchAllNeverValid).
ValidMeansExists ==
    \A p \in Prober : result[p] = "valid" =>
        IF D(p) \in AcceptAll THEN catchAll[D(p)] = "no" ELSE p \in Exists

\* "We have direct evidence this will bounce: a rejection": an address is reported
\* invalid when its own server, one that tells mailboxes apart, rejects a mailbox
\* that is not there, and otherwise only when this address's own conversation ended
\* in a Refusal, which the code reads the same.  A deferral, a block or a timeout, and
\* whatever was answered to the fake recipient, never make a mailbox invalid.
InvalidMeansRejected ==
    \A p \in Prober : result[p] = "invalid" =>
        (p \notin Exists /\ D(p) \notin AcceptAll) \/ p \in refused

\* No task waits for ever on a domain lock.
EveryProbeReturns == <>Done

\* "We will never quietly promote a catch-all domain to deliverable."
CatchAllNeverValid ==
    \A p \in Prober : result[p] = "valid" => D(p) \notin AcceptAll
============================================================================
