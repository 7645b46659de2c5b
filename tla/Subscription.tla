---------------------------- MODULE Subscription ----------------------------
(***************************************************************************)
(* One GraphQL subscription (src/willow/subscriptions.py): subscribe makes *)
(* the first connection itself, then a pump task forwards frames to a      *)
(* queue, reconnects with backoff when the socket drops, and leaves a      *)
(* sentinel in the queue when it ends.  The caller iterates over the queue *)
(* and may unsubscribe at any time, which cancels the task: the            *)
(* CancelledError reaches it at the await it is suspended in.              *)
(*                                                                         *)
(* pc names that await.  What the task does between two awaits is one      *)
(* action.  The server's frames, the discovery answers and the other users *)
(* of the discovery cache are the environment.                             *)
(***************************************************************************)
EXTENDS IndexerCache

CONSTANTS
  Sources,      \* where to subscribe: "validator", "indexer", "override"
  Limits,       \* values of max_reconnect_attempts, Forever among them
  Shared,       \* whether the client has other users than this subscription
  DoubleRange,  \* the power of two a float cannot hold: 1024
  MaxTime,      \* bound: the clock
  MaxQueue      \* bound: payloads in the queue, which has none in the code

Forever == -1  \* max_reconnect_attempts=None
Nothing == "none"

ASSUME LimitsAssumption == Limits \subseteq Nat \cup {Forever}
ASSUME SourcesAssumption == Sources \subseteq {"validator", "indexer", "override"}
ASSUME SharedAssumption == Shared \in BOOLEAN
ASSUME DoubleRangeAssumption == DoubleRange \in Nat \ {0}

VARIABLES
  source, reconnect, limit,  \* the options of the subscription
  pc,         \* the await the subscription is suspended in
  first,      \* the first connection: subscribe has not returned
  exit,       \* how the last pump ended (_PumpExit.kind)
  delivered,  \* whether the present socket delivered a payload
  attempts,   \* the loop's counter
  target,     \* the indexer being connected to
  last,       \* last_indexer_did
  asked,      \* when the list being fetched was asked for
  cache, now, \* the discovery cache and its clock
  queue,      \* what the caller has not taken yet
  consumer,   \* the caller's async for
  unsub,      \* whether unsubscribe was called, and whether it returned
  pending,    \* a CancelledError the task has not received yet
  unclosed,   \* sockets opened whose close was never called
  cutAt,      \* history: the await a cancellation ended
  fruitless   \* history: connection attempts since the last payload

config == <<source, reconnect, limit>>
link == <<exit, delivered, attempts, target, last>>
discovery == <<asked, cache, now>>
caller == <<consumer, unsub, pending>>
vars == <<config, pc, first, link, discovery, queue, caller, unclosed, cutAt, fruitless>>

\* The awaits of a connection being made, and all of them.
Connecting == {"fetching", "opening", "handshake", "aborting"}
PumpStates == Connecting \cup {"created", "pumping", "closing", "backoff", "finalclose"}
\* The task is over, with the sentinel in the queue or without.
Done == {"ended", "silent"}
Exits == {"none", "complete", "disconnected", "cancelled", "failed", "overflow"}

Init ==
  /\ source \in Sources
  /\ reconnect \in BOOLEAN
  /\ limit \in Limits
  /\ pc = "calling"
  /\ first = TRUE
  /\ exit = "none"
  /\ delivered = FALSE
  /\ attempts = 0
  /\ target = Nothing
  /\ last = Nothing
  /\ asked = 0
  /\ cache = NoCache
  /\ now = 0
  /\ queue = << >>
  /\ consumer = "idle"
  /\ unsub = "no"
  /\ pending = FALSE
  /\ unclosed = 0
  /\ cutAt = Nothing
  /\ fruitless = 0

-----------------------------------------------------------------------------
\* Mutant: the loop ends and the caller is not told.
FinishSilently == pc' = "ended" /\ UNCHANGED queue

\* The end of _subscription_loop: the sentinel is left for the caller.
Finish == pc' = "ended" /\ queue' = Append(queue, "end")

\* The head of the inner loop with a attempts made: give up, or count another
\* and wait.  Doubling the delay overflows a float in the end.
Retry(a) ==
  IF limit # Forever /\ a >= limit
    THEN Finish /\ attempts' = a /\ UNCHANGED <<exit, fruitless>>
    ELSE /\ attempts' = a + 1
         /\ IF a >= DoubleRange
              THEN Finish /\ exit' = "overflow" /\ UNCHANGED fruitless
              ELSE /\ pc' = "backoff"
                   /\ fruitless' = IF fruitless > DoubleRange THEN fruitless ELSE fruitless + 1
                   /\ UNCHANGED <<queue, exit>>

\* Mutant: a connection that fails starts the count over.
ConnectionFailedUncounted ==
  IF first
    THEN pc' = "failed" /\ UNCHANGED <<attempts, exit, queue, fruitless>>
    ELSE Retry(0)

\* The connection could not be made: subscribe raises, or the loop retries.
ConnectionFailed ==
  IF first
    THEN pc' = "failed" /\ UNCHANGED <<attempts, exit, queue, fruitless>>
    ELSE Retry(attempts)

\* The candidates are known: connect to the best, or fail for want of one.
Connect(candidates) ==
  IF candidates = << >>
    THEN ConnectionFailed /\ UNCHANGED target
    ELSE /\ pc' = "opening"
         /\ target' = Head(candidates)
         /\ UNCHANGED <<attempts, exit, queue, fruitless>>

\* _resolve_and_connect up to its first await: the last indexer is evicted,
\* then the best of those that are left, or of a new list, is connected to.
Resolve ==
  /\ IF source # "indexer"
       THEN Connect(<<Nothing>>) /\ UNCHANGED <<asked, cache>>
       ELSE LET left == Evicted(cache, last)
            IN /\ cache' = left
               /\ IF Fresh(left, now)
                    THEN Connect(Candidates(left.data)) /\ UNCHANGED asked
                    ELSE /\ pc' = "fetching"
                         /\ asked' = now
                         /\ UNCHANGED <<target, attempts, exit, queue, fruitless>>
  /\ UNCHANGED <<config, first, delivered, last, now, caller, unclosed, cutAt>>

Subscribe == pc = "calling" /\ Resolve

\* The backoff, on_reconnect included, is over.
Wake == pc = "backoff" /\ ~pending /\ Resolve

Listed ==
  /\ pc = "fetching" /\ ~pending
  /\ \E l \in Listings :
       /\ cache' = Fetched(l, asked)
       /\ Connect(Candidates(l))
  /\ UNCHANGED <<config, first, delivered, last, asked, now, caller, unclosed, cutAt>>

NotListed ==
  /\ pc = "fetching" /\ ~pending
  /\ ConnectionFailed
  /\ UNCHANGED <<config, first, delivered, target, last, discovery, caller, unclosed, cutAt>>

Opened ==
  /\ pc = "opening" /\ ~pending
  /\ pc' = "handshake"
  /\ unclosed' = unclosed + 1
  /\ UNCHANGED <<config, first, link, discovery, queue, caller, cutAt, fruitless>>

NotOpened ==
  /\ pc = "opening" /\ ~pending
  /\ ConnectionFailed
  /\ UNCHANGED <<config, first, delivered, target, last, discovery, caller, unclosed, cutAt>>

\* Mutant: a server that accepts the subscription resets the counter.
AckedResets ==
  /\ pc = "handshake" /\ ~pending
  /\ pc' = IF first THEN "created" ELSE "pumping"
  /\ first' = FALSE
  /\ last' = target
  /\ delivered' = FALSE
  /\ attempts' = 0
  /\ UNCHANGED <<config, exit, target, discovery, queue, caller, unclosed, cutAt, fruitless>>

\* connection_ack came: subscribe creates the task, or the loop pumps again.
Acked ==
  /\ pc = "handshake" /\ ~pending
  /\ pc' = IF first THEN "created" ELSE "pumping"
  /\ first' = FALSE
  /\ last' = target
  /\ delivered' = FALSE
  /\ UNCHANGED <<config, exit, attempts, target, discovery, queue, caller, unclosed, cutAt, fruitless>>

\* Mutant: the refused socket is left as it is.
RefusedUnclosed ==
  /\ pc = "handshake" /\ ~pending
  /\ pc' = "aborting"
  /\ UNCHANGED <<config, first, link, discovery, queue, caller, unclosed, cutAt, fruitless>>

\* A connection_error, a frame that does not parse, or the socket ended: the
\* socket is closed before the failure is raised.
Refused ==
  /\ pc = "handshake" /\ ~pending
  /\ pc' = "aborting"
  /\ unclosed' = unclosed - 1
  /\ UNCHANGED <<config, first, link, discovery, queue, caller, cutAt, fruitless>>

Aborted ==
  /\ pc = "aborting" /\ ~pending
  /\ ConnectionFailed
  /\ UNCHANGED <<config, first, delivered, target, last, discovery, caller, unclosed, cutAt>>

-----------------------------------------------------------------------------
Start ==
  /\ pc = "created" /\ ~pending
  /\ pc' = "pumping"
  /\ UNCHANGED <<config, first, link, discovery, queue, caller, unclosed, cutAt, fruitless>>

\* A next frame for this subscription.
Payload ==
  /\ pc = "pumping" /\ ~pending /\ Len(queue) < MaxQueue
  /\ queue' = Append(queue, "data")
  /\ delivered' = TRUE
  /\ fruitless' = 0
  /\ UNCHANGED <<config, pc, first, exit, attempts, target, last, discovery, caller, unclosed, cutAt>>

\* An error frame is forwarded and the socket is read on.
ErrorFrame ==
  /\ pc = "pumping" /\ ~pending /\ Len(queue) < MaxQueue
  /\ queue' = Append(queue, "error")
  /\ UNCHANGED <<config, pc, first, link, discovery, caller, unclosed, cutAt, fruitless>>

\* The socket is read no more: a complete frame, or the socket dropped.
PumpEnds(kind) ==
  /\ pc = "pumping" /\ ~pending
  /\ pc' = "closing"
  /\ exit' = kind
  /\ unclosed' = unclosed - 1
  /\ UNCHANGED <<config, first, delivered, attempts, target, last, discovery, queue, caller,
                 cutAt, fruitless>>

Complete == PumpEnds("complete")
Drop == PumpEnds("disconnected")

\* A frame that parses and is no object raises out of the pump and the loop.
BadFrame ==
  /\ pc = "pumping" /\ ~pending
  /\ pc' = "finalclose"
  /\ exit' = "failed"
  /\ unclosed' = unclosed - 1
  /\ UNCHANGED <<config, first, delivered, attempts, target, last, discovery, queue, caller,
                 cutAt, fruitless>>

\* The socket is closed; what comes next depends on how the pump ended.
Closed ==
  /\ pc = "closing" /\ ~pending
  /\ IF exit \in {"complete", "cancelled"} \/ ~reconnect
       THEN Finish /\ UNCHANGED <<attempts, exit, fruitless>>
       ELSE Retry(IF delivered THEN 0 ELSE attempts)
  /\ UNCHANGED <<config, first, delivered, target, last, discovery, caller, unclosed, cutAt>>

\* The close in the loop's finally, after an exception of the pump or of the
\* other close.
FinalClosed ==
  /\ pc = "finalclose" /\ ~pending
  /\ Finish
  /\ UNCHANGED <<config, first, link, discovery, caller, unclosed, cutAt, fruitless>>

-----------------------------------------------------------------------------
\* unsubscribe: the event is set and the task cancelled, unless it is done.
Unsubscribe ==
  /\ ~first /\ pc # "failed" /\ unsub = "no"
  /\ IF pc \in Done
       THEN unsub' = "returned" /\ UNCHANGED pending
       ELSE unsub' = "called" /\ pending' = TRUE
  /\ UNCHANGED <<config, pc, first, link, discovery, queue, consumer, unclosed, cutAt, fruitless>>

\* The CancelledError reaches the task.  One that never ran never enters its
\* coroutine; a pump returns and its socket is closed; a socket in its
\* handshake is dropped as it is, and the close in the finally skips the
\* sentinel, since CancelledError is no Exception.
Interrupted ==
  /\ pending
  /\ pending' = FALSE
  /\ cutAt' = pc
  /\ CASE pc \in {"created", "finalclose"} -> pc' = "silent" /\ UNCHANGED <<queue, exit, unclosed>>
       [] pc = "pumping" -> /\ pc' = "closing"
                            /\ exit' = "cancelled"
                            /\ unclosed' = unclosed - 1
                            /\ UNCHANGED queue
       [] pc = "closing" -> pc' = "finalclose" /\ UNCHANGED <<queue, exit, unclosed>>
       [] pc \in Connecting \cup {"backoff"} -> Finish /\ UNCHANGED <<exit, unclosed>>
  /\ UNCHANGED <<config, first, delivered, attempts, target, last, discovery, consumer, unsub,
                 fruitless>>

\* unsubscribe awaits the task.
Unsubscribed ==
  /\ unsub = "called" /\ pc \in Done
  /\ unsub' = "returned"
  /\ UNCHANGED <<config, pc, first, link, discovery, queue, consumer, pending, unclosed, cutAt,
                 fruitless>>

\* The caller of subscribe is cancelled while it makes the first connection.
Abandon ==
  /\ first /\ pc \in Connecting
  /\ pc' = "failed"
  /\ cutAt' = pc
  /\ UNCHANGED <<config, first, link, discovery, queue, caller, unclosed, fruitless>>

\* async for asks for the next payload, also after it has stopped.
Iterate ==
  /\ ~first /\ consumer \in {"idle", "stopped"}
  /\ consumer' = IF consumer = "idle" THEN "waiting" ELSE "again"
  /\ UNCHANGED <<config, pc, first, link, discovery, queue, unsub, pending, unclosed, cutAt,
                 fruitless>>

\* __anext__: a payload is handed over, the sentinel stops the iteration.
Take ==
  /\ consumer \in {"waiting", "again"} /\ queue # << >>
  /\ queue' = Tail(queue)
  /\ consumer' = IF Head(queue) = "end" THEN "stopped" ELSE "idle"
  /\ UNCHANGED <<config, pc, first, link, discovery, unsub, pending, unclosed, cutAt, fruitless>>

\* The other users of the client's discovery cache: a routed query evicts an
\* indexer that failed it or fetches the list, or the caller invalidates it.
OtherUse ==
  /\ Shared /\ source = "indexer"
  /\ \/ \E i \in Indexers : cache' = Evicted(cache, i)
     \/ \E l \in Listings : cache' = Fetched(l, now)
     \/ cache' = NoCache
  /\ UNCHANGED <<config, pc, first, link, asked, now, queue, caller, unclosed, cutAt, fruitless>>

Tick ==
  /\ now < MaxTime
  /\ now' = now + 1
  /\ UNCHANGED <<config, pc, first, link, asked, cache, queue, caller, unclosed, cutAt, fruitless>>

\* What the subscription does of itself: each of these awaits has a timeout
\* (the request deadline, open_timeout, close_timeout, the backoff delay).
Progress ==
  \/ Subscribe \/ Wake \/ Listed \/ NotListed \/ Opened \/ NotOpened \/ Aborted
  \/ Start \/ Closed \/ FinalClosed \/ Interrupted

\* What the server does, which nothing obliges it to.
Server == Acked \/ Refused \/ Payload \/ ErrorFrame \/ Complete \/ Drop \/ BadFrame

Next ==
  \/ Progress \/ Server
  \/ Unsubscribe \/ Unsubscribed \/ Abandon \/ Iterate \/ Take
  \/ OtherUse \/ Tick

\* The event loop runs every task that can run.
Fairness == WF_vars(Progress) /\ WF_vars(Unsubscribed) /\ WF_vars(Iterate) /\ WF_vars(Take)

Spec == Init /\ [][Next]_vars /\ Fairness

-----------------------------------------------------------------------------
\* No reconnect leaves the old socket open, and no failed connection its own:
\* exactly the socket in use is not closed, also when a cancellation ends the
\* subscription anywhere but in a handshake or before the task's first step.
SocketsClosed ==
  cutAt \notin {"handshake", "created"} =>
    unclosed = IF pc \in {"handshake", "created", "pumping"} THEN 1 ELSE 0

\* max_reconnect_attempts counts every attempt since the last payload, whatever
\* the servers accepted in between: the loop never makes more, and gives up
\* on a dropped socket only when it has made them all.
GivesUpAtLimit ==
  limit # Forever =>
    /\ fruitless =< limit
    /\ (pc = "ended" /\ exit = "disconnected" /\ reconnect /\ cutAt = Nothing) => fruitless = limit

\* However the subscription ends, both who wait for it are told: unsubscribe
\* returns, whatever the task was waiting for, and an iteration takes what is
\* left in the queue and stops, unless the cancellation came before the task's
\* first step or in its final close, which leave no sentinel (UnsubscribeEnds).
EndIsTold ==
  /\ (unsub = "called") ~> (unsub = "returned")
  /\ (pc = "ended" /\ consumer \in {"idle", "waiting"}) ~> (consumer \in {"stopped", "again"})

\* With a limit, a dropped subscription ends or has a server to wait for: no
\* failed attempt goes uncounted.
RetriesEnd ==
  (limit # Forever /\ pc = "backoff") ~> (pc \in {"handshake", "pumping"} \cup Done)

\* unsubscribe's docstring: the socket is closed, and later iterations stop.
UnsubscribeEnds ==
  unsub = "returned" =>
    /\ unclosed = 0
    /\ ~(consumer \in {"waiting", "again"} /\ queue = << >>)

=============================================================================
