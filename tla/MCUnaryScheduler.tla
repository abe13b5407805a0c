-------------------------- MODULE MCUnaryScheduler --------------------------
(* Small instances of UnaryScheduler.  Two plans that differ only in the   *)
(* caller's credentials are the same once redacted.                        *)
EXTENDS UnaryScheduler, TLC

CONSTANTS c1, c2, c3

MCCalls == {c1, c2, c3}
TwoCalls == {c1, c2}
MCKeys == {"mail"}

Plain(who) ==
  [who |-> who, caches |-> FALSE, swr |-> FALSE, skip |-> FALSE,
   dedupe |-> FALSE, drop |-> FALSE, fallback |-> FALSE, timed |-> FALSE,
   retries |-> 0, ckey |-> "none"]

Cached(who) == [Plain(who) EXCEPT !.caches = TRUE, !.swr = TRUE]

Queued(who) == [Plain(who) EXCEPT !.ckey = "mail"]

(* Cache, stale window and dedupe for two principals, outside and inside   *)
(* one concurrency queue, with every optional stage taken by some plan.    *)
SafetyPlans ==
  {[Cached("alice") EXCEPT !.dedupe = TRUE],
   [Cached("bob") EXCEPT !.dedupe = TRUE],
   [Cached("alice") EXCEPT !.fallback = TRUE, !.swr = FALSE],
   [Cached("bob") EXCEPT !.skip = TRUE],
   [Queued("alice") EXCEPT !.retries = 1, !.timed = TRUE],
   [Queued("bob") EXCEPT !.caches = TRUE, !.swr = TRUE],
   [Plain("bob") EXCEPT !.drop = TRUE, !.fallback = TRUE]}

(* Liveness: joiners, refreshes and failures in one queue.                 *)
LivePlans ==
  {[Queued("alice") EXCEPT !.retries = 1, !.timed = TRUE],
   [Queued("alice") EXCEPT !.dedupe = TRUE],
   [Queued("bob") EXCEPT !.caches = TRUE, !.swr = TRUE],
   [Queued("bob") EXCEPT !.caches = TRUE, !.swr = TRUE, !.dedupe = TRUE],
   [Plain("bob") EXCEPT !.drop = TRUE, !.fallback = TRUE]}

Symmetry == Permutations(MCCalls)
=============================================================================
