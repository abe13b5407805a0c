----------------------------- MODULE StreamCall -----------------------------
(***************************************************************************)
(* The life of one stream handle                                           *)
(* (clients/typescript/src/fluent-stream.js, RpcStreamCallBuilder.stream   *)
(* and RpcStreamHandle.cancel): an attempt opens a carrier session, reads  *)
(* it and closes it, retry() repeats failed attempts, a total timeout sits *)
(* outside retry, and share() multicasts the one connection to every view. *)
(*                                                                         *)
(* Sessions are numbered in the order open() is called.  The carrier       *)
(* behind open() is not part of the repository: its promises settle when   *)
(* they like, and a session may send frames, fail or end at any moment.    *)
(* Data frames only feed the views' queues (module StreamQueue) and leave  *)
(* no trace here.                                                          *)
(***************************************************************************)
EXTENDS Naturals, FiniteSets

CONSTANTS
  Plans,       \* [retries, timed, idle, lead]: what the chain asks for
  Views,       \* observers and async iterators of the handle
  Iterators,   \* the views that are async iterators
  Cancellers,  \* callers of handle.cancel()
  MaxSessions  \* bound: sessions opened

Sessions == 1 .. MaxSessions
NoSession == 0
NotAsking == MaxSessions + 1

VARIABLES
  plan,       \* the chain's plan
  view,       \* view[v]: "idle", "attached", "told" or "left"
  shared,     \* share(): "idle", "connected", "completed" or "errored"
  stage,      \* the attempt: "none", "lead", "opening", "reading", "closing",
              \* or "backoff"
  cur,        \* session of the attempt in progress
  retried,    \* retries used by this connection
  base,       \* sessions opened before this connection (history)
  sess,       \* sess[s]: "none", "opening", "open" or "over"
  adopted,    \* sessions an attempt received from open() (history)
  closes,     \* closes[s]: calls of closeSession(s)
  live,       \* live.session
  ended,      \* context.ended
  cancelled,  \* context.cancelled
  attempts,   \* context.attempts
  expired,    \* the total timeout has fired (history)
  asks,       \* asks[k]: the session whose cancel() canceller k awaits, or
              \* NoSession for one that found none, or NotAsking
  asked       \* sessions a canceller has asked to cancel

attempt == <<stage, cur, retried, base, attempts>>
carrier == <<sess, adopted, closes, live>>
flags == <<ended, cancelled, expired>>
cancelVars == <<asks, asked>>
handleVars == <<plan, view, shared, attempt, carrier, flags, cancelVars>>

HandleInit ==
  /\ plan \in Plans
  /\ view = [v \in Views |-> "idle"]
  /\ shared = "idle"
  /\ stage = "none"
  /\ cur = NoSession
  /\ retried = 0
  /\ base = 0
  /\ sess = [s \in Sessions |-> "none"]
  /\ adopted = {}
  /\ closes = [s \in Sessions |-> 0]
  /\ live = NoSession
  /\ ended = FALSE
  /\ cancelled = FALSE
  /\ attempts = 0
  /\ expired = FALSE
  /\ asks = [k \in Cancellers |-> NotAsking]
  /\ asked = {}

-----------------------------------------------------------------------------
Attached == {v \in Views : view[v] = "attached"}

(* defer(): count the attempt and call open().                             *)
Open ==
  /\ attempts + 1 \in Sessions
  /\ attempts' = attempts + 1
  /\ cur' = attempts + 1
  /\ stage' = "opening"
  /\ sess' = [sess EXCEPT ![attempts + 1] = "opening"]

(* close(): once per session.                                              *)
MayClose(s) == closes[s] = 0

LiveAfterClose(s) == IF live = s THEN NoSession ELSE live

(* closeSession: forget the session, then call its cancel().               *)
CloseSession(s) ==
  IF MayClose(s)
  THEN /\ closes' = [closes EXCEPT ![s] = @ + 1]
       /\ live' = LiveAfterClose(s)
  ELSE UNCHANGED <<closes, live>>

(* The attempt is unsubscribed from outside.  Its finalizer exists once a  *)
(* session was adopted, and skips the close after an end or a cancel.      *)
Finalize ==
  IF stage \in {"reading", "closing"} /\ ~ended /\ ~cancelled
  THEN CloseSession(cur)
  ELSE UNCHANGED <<closes, live>>

(* The source of share() terminates: every attached view is told.          *)
Terminate(how) ==
  /\ shared' = how
  /\ view' = [v \in Views |-> IF v \in Attached THEN "told" ELSE view[v]]
  /\ stage' = "none"
  /\ cur' = NoSession
  /\ UNCHANGED <<retried, base, attempts>>

IsTerminal == shared \in {"completed", "errored"}

(* A view subscribes: the first one connects, later ones share, and a      *)
(* terminated handle answers at once, so that a late iterator's complete() *)
(* marks the context ended as well.                                        *)
Attach(v) ==
  /\ view[v] = "idle"
  /\ \/ /\ IsTerminal
        /\ view' = [view EXCEPT ![v] = "told"]
        /\ ended' = (ended \/ (shared = "completed" /\ v \in Iterators))
        /\ UNCHANGED <<shared, attempt, sess>>
     \/ /\ ~IsTerminal /\ shared # "idle"
        /\ view' = [view EXCEPT ![v] = "attached"]
        /\ UNCHANGED <<shared, attempt, sess, ended>>
     \/ /\ shared = "idle"
        /\ UNCHANGED ended
        /\ view' = [view EXCEPT ![v] = "attached"]
        /\ shared' = "connected"
        /\ retried' = 0
        /\ base' = attempts
        /\ IF plan.lead
           THEN stage' = "lead" /\ UNCHANGED <<cur, attempts, sess>>
           ELSE Open
  /\ UNCHANGED <<plan, adopted, closes, live, cancelled, expired, cancelVars>>

(* A view unsubscribes; the last one to do so tears the connection down.   *)
Leave(v) ==
  /\ view[v] = "attached"
  /\ view' = [view EXCEPT ![v] = "left"]
  /\ IF Attached = {v} /\ ~IsTerminal
     THEN /\ shared' = "idle"
          /\ stage' = "none"
          /\ cur' = NoSession
          /\ Finalize
     ELSE UNCHANGED <<shared, stage, cur, closes, live>>
  /\ UNCHANGED <<plan, retried, base, attempts, sess, adopted, flags, cancelVars>>

(* The lead delay or the backoff timer fires.                              *)
TimerFires ==
  /\ stage \in {"lead", "backoff"}
  /\ Open
  /\ UNCHANGED <<plan, view, shared, retried, base, adopted, closes, live, flags,
                 cancelVars>>

RetryLeft == retried < plan.retries

(* The attempt's error reaches retry(): wait and reopen, or give up (the   *)
(* count is used up, or an on_retry hook threw).                           *)
AttemptErrors ==
  \/ /\ RetryLeft
     /\ retried' = retried + 1
     /\ stage' = "backoff"
     /\ cur' = NoSession
     /\ UNCHANGED <<shared, view, base, attempts>>
  \/ Terminate("errored")

-----------------------------------------------------------------------------
(* open() resolves.  A waiting attempt adopts the session; if the attempt  *)
(* is gone, nobody is listening to the promise any more.                   *)
OpenResolves(s) ==
  /\ sess[s] = "opening"
  /\ sess' = [sess EXCEPT ![s] = "open"]
  /\ IF stage = "opening" /\ cur = s
     THEN /\ stage' = "reading"
          /\ live' = s
          /\ adopted' = adopted \union {s}
     ELSE UNCHANGED <<stage, live, adopted>>
  /\ UNCHANGED <<plan, view, shared, cur, retried, base, closes, attempts, flags,
                 cancelVars>>

(* open() rejects.                                                         *)
OpenRejects(s) ==
  /\ sess[s] = "opening"
  /\ sess' = [sess EXCEPT ![s] = "over"]
  /\ IF stage = "opening" /\ cur = s
     THEN AttemptErrors
     ELSE UNCHANGED <<view, shared, attempt>>
  /\ UNCHANGED <<plan, adopted, closes, live, flags, cancelVars>>

Reading(s) == stage = "reading" /\ cur = s /\ sess[s] = "open"

(* complete() reaches the views; an iterator among them marks the context  *)
(* ended.                                                                  *)
Completes(isEnd) ==
  /\ Terminate("completed")
  /\ ended' = (ended \/ isEnd \/ Attached \intersect Iterators # {})

(* An end frame, or a cancel frame of the server: a clean end.  Leaving    *)
(* the read loop closes the incoming frames.                               *)
FinalFrame(s) ==
  /\ Reading(s)
  /\ sess' = [sess EXCEPT ![s] = "over"]
  /\ \/ Completes(TRUE) /\ UNCHANGED cancelled
     \/ Completes(FALSE) /\ cancelled' = TRUE
  /\ UNCHANGED <<plan, adopted, closes, live, expired, cancelVars>>

(* Mutant: the error is raised at once and the close left to finish alone. *)
RaisesAtOnce(s) ==
  /\ CloseSession(s)
  /\ AttemptErrors

(* catchError: close the session first, re-raise when that has settled.    *)
ClosesFirst(s) ==
  /\ CloseSession(s)
  /\ stage' = "closing"
  /\ UNCHANGED <<view, shared, cur, retried, base, attempts>>

(* An error frame, a frame that breaks the protocol or cannot be decoded,  *)
(* or a failing carrier.                                                   *)
SessionFails(s) ==
  /\ Reading(s)
  /\ ClosesFirst(s)
  /\ UNCHANGED <<plan, sess, adopted, flags, cancelVars>>

(* No frame for stream_idle_timeout_millis: an error of this attempt.      *)
IdleExpires(s) ==
  /\ plan.idle
  /\ Reading(s)
  /\ ClosesFirst(s)
  /\ UNCHANGED <<plan, sess, adopted, flags, cancelVars>>

(* The incoming frames run out without a final frame: an error, unless the *)
(* handle was cancelled.  A session nobody reads just ends.                *)
IncomingEnds(s) ==
  /\ sess[s] = "open"
  /\ sess' = [sess EXCEPT ![s] = "over"]
  /\ \/ /\ Reading(s) /\ (ended \/ cancelled)
        /\ Completes(FALSE)
        /\ UNCHANGED <<closes, live>>
     \/ /\ Reading(s) /\ ~ended /\ ~cancelled
        /\ ClosesFirst(s)
        /\ UNCHANGED ended
     \/ /\ ~Reading(s)
        /\ UNCHANGED <<view, shared, attempt, closes, live, ended>>
  /\ UNCHANGED <<plan, adopted, cancelled, expired, cancelVars>>

(* Mutant: once the session is closed the error is gone.                   *)
CloseErrorLost(s) ==
  /\ closes[s] > 0
  /\ sess[s] = "open"
  /\ sess' = [sess EXCEPT ![s] = "over"]
  /\ UNCHANGED <<plan, view, shared, attempt, adopted, closes, live, flags,
                 cancelVars>>

(* The awaited session.cancel() of the error path settles, either way.     *)
CloseSettles(s) ==
  /\ closes[s] > 0
  /\ sess[s] = "open" \/ (stage = "closing" /\ cur = s)
  /\ sess' = [sess EXCEPT ![s] = "over"]
  /\ IF stage = "closing" /\ cur = s
     THEN AttemptErrors
     ELSE UNCHANGED <<view, shared, attempt>>
  /\ UNCHANGED <<plan, adopted, closes, live, flags, cancelVars>>

TimeoutEnds == Finalize /\ Terminate("errored")

(* The total timeout fires: the notifier's error ends the connection and   *)
(* takeUntil unsubscribes the attempt.                                     *)
TotalTimeout ==
  /\ plan.timed
  /\ shared = "connected"
  /\ stage # "lead"
  /\ expired' = TRUE
  /\ TimeoutEnds
  /\ UNCHANGED <<plan, sess, adopted, ended, cancelled, cancelVars>>

(* handle.cancel() calls cancel() of the live session, if there is one.    *)
Cancel(k) ==
  /\ asks[k] = NotAsking
  /\ ~ended /\ ~cancelled
  /\ asks' = [asks EXCEPT ![k] = live]
  /\ asked' = IF live = NoSession THEN asked ELSE asked \union {live}
  /\ UNCHANGED <<plan, view, shared, attempt, carrier, flags>>

(* What it awaited has settled: the handle counts as cancelled, or the     *)
(* caller is told that the carrier refused.                                *)
CancelSettles(k) ==
  /\ asks[k] # NotAsking
  /\ \/ cancelled' = TRUE
     \/ asks[k] # NoSession /\ UNCHANGED cancelled
  /\ asks' = [asks EXCEPT ![k] = NotAsking]
  /\ UNCHANGED <<plan, view, shared, attempt, carrier, ended, expired, asked>>

HandleNext ==
  \/ \E v \in Views : Attach(v) \/ Leave(v)
  \/ \E s \in Sessions : \/ OpenResolves(s) \/ OpenRejects(s) \/ FinalFrame(s)
                         \/ SessionFails(s) \/ IdleExpires(s) \/ IncomingEnds(s)
                         \/ CloseSettles(s)
  \/ TimerFires
  \/ TotalTimeout
  \/ \E k \in Cancellers : Cancel(k) \/ CancelSettles(k)

HandleSpec == HandleInit /\ [][HandleNext]_handleVars

(* Timers fire, and open() and cancel() of the carrier settle.  A session  *)
(* need not send anything and nobody is obliged to read or to cancel.      *)
HandleFairness ==
  /\ WF_handleVars(TimerFires)
  /\ WF_handleVars(TotalTimeout)
  /\ \A s \in Sessions : WF_handleVars(OpenResolves(s) \/ OpenRejects(s))
  /\ \A s \in Sessions : WF_handleVars(CloseSettles(s))

HandleFairSpec == HandleSpec /\ HandleFairness

-----------------------------------------------------------------------------
(* Shape of the handle's state: an attempt is in progress exactly while    *)
(* the handle is connected, and only a connected handle has views waiting. *)
HandleTypeOK ==
  /\ view \in [Views -> {"idle", "attached", "told", "left"}]
  /\ shared \in {"idle", "connected", "completed", "errored"}
  /\ stage \in {"none", "lead", "opening", "reading", "closing", "backoff"}
  /\ cur \in Sessions \union {NoSession}
  /\ cur # NoSession <=> stage \in {"opening", "reading", "closing"}
  /\ stage # "none" <=> shared = "connected"
  /\ Attached # {} <=> shared = "connected"
  /\ sess \in [Sessions -> {"none", "opening", "open", "over"}]
  /\ \A s \in Sessions : sess[s] = "none" <=> s > attempts
  /\ live \in adopted \union {NoSession}

(* Unless a caller cancelled the handle, every session an attempt received *)
(* is being read, has been closed, or ended by itself: no retry, timeout   *)
(* or departing view forgets one.                                          *)
AdoptedReleased ==
  ~cancelled =>
    \A s \in adopted : \/ stage = "reading" /\ cur = s
                       \/ closes[s] > 0 \/ s \in asked
                       \/ sess[s] = "over"

(* Until the handle has ended or was cancelled, handle.cancel() reaches    *)
(* the session being read and no other.                                    *)
LiveIsRead ==
  ~ended /\ ~cancelled => live = IF stage = "reading" THEN cur ELSE NoSession

(* The comment of stream(): "by the time retry resubscribes the old        *)
(* session is gone".  Sessions of one connection never overlap.            *)
RetryAfterClose ==
  [][stage = "backoff" /\ attempts' > attempts =>
       \A s \in (base + 1) .. attempts : sess[s] = "over"]_handleVars

(* "One budget covers every attempt and every backoff wait, and expiring   *)
(* it is terminal": no session is opened and none adopted afterwards.      *)
TimeoutIsTerminal ==
  [][expired => attempts' = attempts /\ adopted' = adopted]_handleVars

(* No retry, timeout or departing view forgets a session; cancel() reaches *)
(* the one being read; the sessions of a connection never overlap; the     *)
(* total timeout is final.                                                 *)
SessionsAccounted ==
  [](HandleTypeOK /\ AdoptedReleased /\ LiveIsRead) /\ RetryAfterClose /\ TimeoutIsTerminal

(* Under a total timeout no view waits forever, however it joined and      *)
(* whatever the carrier does.                                              *)
EveryViewTold ==
  \A v \in Views : view[v] = "attached" /\ plan.timed ~> view[v] # "attached"

(* A failed attempt does not hang: it reads again or the handle is over.   *)
FailureIsActedOn ==
  stage \in {"opening", "closing", "backoff"} ~> stage \in {"reading", "none"}

(* Neither a view nor a failed attempt is left hanging.                    *)
HandleProgress == EveryViewTold /\ FailureIsActedOn

=============================================================================
